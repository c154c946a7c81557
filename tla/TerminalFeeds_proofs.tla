------------------------ MODULE TerminalFeeds_proofs ------------------------
(***************************************************************************)
(* Proofs about the two queues by which other threads feed the terminal.   *)
(*                                                                         *)
(* ChangeFeed, for any number of publishers and subscribers and any ring:  *)
(* the ring is the end of the log, no wakeup is lost, and what subscribers *)
(* see is a ChangeLog.                                                     *)
(*                                                                         *)
(* DecodeService, for any number of bodies, workers and selections: no     *)
(* body is decoded twice at once, a superseded worker is told so, and a    *)
(* body that is selected for the first time gets its text.                 *)
(***************************************************************************)
EXTENDS ChangeFeed, DecodeService, TLAPS, FiniteSetTheorems

(***************************************************************************)
(*                               CHANGE FEED                               *)
(***************************************************************************)

(***************************************************************************)
(* NoLostWakeup alone is not inductive: an announcement wakes a sleeper    *)
(* only because no subscription has seen a version from the future, and a  *)
(* subscriber goes to sleep with nothing to read only because its position *)
(* is within the log the ring is the end of.                               *)
(***************************************************************************)
Positioned ==
  \A s \in Subscribers :
    /\ sub[s].seen <= version
    /\ sub[s].next <= epoch + 1
    /\ sub[s].at = "none" <=> sub[s].next = 0

FeedInv ==
  TypeOK /\ epoch <= MaxEpoch /\ RingIsSuffix /\ Positioned /\ NoLostWakeup

\* The oldest entry of a ring that is not empty.
LEMMA OldestEntry ==
  ASSUME TypeOK, RingIsSuffix, ring # <<>>
  PROVE  /\ Head(ring).epoch = epoch - Len(ring) + 1
         /\ Len(ring) \in 1..epoch
<1>1. ring \in Seq(Entry) /\ Len(ring) \in Nat \ {0} /\ epoch \in Nat
  BY DEF TypeOK
<1>2. Len(ring) <= epoch
  BY <1>1, FeedAssumption DEF RingIsSuffix
<1>3. Head(ring) = ring[1] /\ 1 \in 1..Len(ring)
  BY <1>1
<1>4. ring[1].epoch = epoch - Len(ring) + 1
  BY <1>3 DEF RingIsSuffix
<1> QED BY <1>1, <1>2, <1>3, <1>4

\* An index computed from the epoch of the oldest entry hits the entry of the
\* epoch that is wanted.
LEMMA WantedEntry ==
  ASSUME TypeOK, RingIsSuffix, ring # <<>>,
         NEW n \in Nat, Head(ring).epoch <= n, n <= epoch
  PROVE  ring[n - Head(ring).epoch + 1].epoch = n
<1>1. /\ Head(ring).epoch = epoch - Len(ring) + 1
      /\ Len(ring) \in 1..epoch /\ epoch \in Nat
  BY OldestEntry DEF TypeOK
<1>2. n - Head(ring).epoch + 1 = n - epoch + Len(ring) /\ Len(ring) \in Nat
  BY <1>1
<1> DEFINE i == n - epoch + Len(ring)
<1>3. i \in 1..Len(ring) /\ epoch - Len(ring) + i = n
  BY <1>1, <1>2
<1>4. ring[i].epoch = epoch - Len(ring) + i
  BY <1>3 DEF RingIsSuffix
<1> QED BY <1>2, <1>3, <1>4

LEMMA FeedInit == Init => FeedInv
BY FeedAssumption DEF Init, FeedInv, TypeOK, RingIsSuffix, Positioned,
     NoLostWakeup, Positions, Entry

LEMMA InsertKeeps ==
  ASSUME FeedInv, NEW p \in Publishers, NEW c \in Changes, Insert(p, c)
  PROVE  FeedInv'
<1> DEFINE kept == IF Len(ring) = Retained THEN Tail(ring) ELSE ring
           new  == [epoch |-> epoch + 1, change |-> c]
<1>1. /\ epoch \in Nat /\ ring \in Seq(Entry) /\ published \in Seq(Changes)
      /\ Len(published) = epoch /\ Retained \in Nat \ {0}
      /\ Len(ring) = IF epoch < Retained THEN epoch ELSE Retained
  BY FeedAssumption DEF FeedInv, TypeOK, RingIsSuffix
<1>2. /\ epoch' = epoch + 1 /\ ring' = Append(kept, new)
      /\ published' = Append(published, c) /\ version' = version
      /\ sub' = sub /\ announcing' = announcing \union {p}
      /\ epoch < MaxEpoch
  BY DEF Insert
<1>3. new \in Entry
  BY <1>1 DEF Entry
<1>4. /\ kept \in Seq(Entry)
      /\ Len(kept) = IF epoch < Retained THEN epoch ELSE Retained - 1
      /\ \A i \in 1..Len(kept) :
           kept[i] = ring[i + (Len(ring) - Len(kept))]
  <2>1. CASE Len(ring) = Retained
    <3>1. ring # <<>> /\ kept = Tail(ring)
      BY <1>1, <2>1
    <3>2. kept \in Seq(Entry) /\ Len(kept) = Len(ring) - 1
          /\ \A i \in 1..Len(kept) : kept[i] = ring[i + 1]
      BY <1>1, <3>1
    <3>3. Len(kept) = Retained - 1 /\ ~(epoch < Retained)
          /\ Len(ring) - Len(kept) = 1
      BY <1>1, <2>1, <3>2
    <3> QED BY <3>2, <3>3
  <2>2. CASE Len(ring) # Retained
    BY <1>1, <2>2
  <2> QED BY <2>1, <2>2
<1>5. TypeOK'
  <2>1. ring' \in Seq(Entry)
    BY <1>2, <1>3, <1>4
  <2>2. epoch' \in Nat /\ published' \in Seq(Changes)
    BY <1>1, <1>2
  <2> QED BY <1>2, <2>1, <2>2 DEF FeedInv, TypeOK
<1>6. RingIsSuffix'
  <2> HIDE DEF kept, new
  <2>1. Len(published') = epoch'
    BY <1>1, <1>2
  <2>2. Len(ring') = Len(kept) + 1
        /\ Len(ring') = IF epoch' < Retained THEN epoch' ELSE Retained
    BY <1>1, <1>2, <1>4
  <2>3. ASSUME NEW i \in 1..Len(ring')
        PROVE  /\ ring'[i].epoch = epoch' - Len(ring') + i
               /\ ring'[i].change = published'[ring'[i].epoch]
    <3>1. CASE i = Len(ring')
      <4>1. ring'[i] = new
        BY <1>2, <1>4, <2>2, <3>1
      <4>2. new.epoch = epoch + 1 /\ new.change = c
        BY DEF new
      <4>3. published'[epoch + 1] = c
        BY <1>1, <1>2
      <4>4. epoch' - Len(ring') + i = epoch + 1 /\ epoch' = epoch + 1
        BY <1>1, <1>2, <1>4, <2>2, <3>1
      <4> QED BY <4>1, <4>2, <4>3, <4>4
    <3>2. CASE i # Len(ring')
      <4> DEFINE j == i + (Len(ring) - Len(kept))
      <4>1. i \in 1..Len(kept) /\ j \in 1..Len(ring)
        BY <1>1, <1>4, <2>2, <3>2
      <4>2. ring'[i] = kept[i] /\ kept[i] = ring[j]
        BY <1>2, <1>4, <4>1
      <4>3. /\ ring[j].epoch = epoch - Len(ring) + j
            /\ ring[j].change = published[ring[j].epoch]
        BY <4>1 DEF FeedInv, RingIsSuffix
      <4>4. ring[j].epoch \in 1..epoch
        BY <1>1, <4>1, <4>3
      <4>5. published'[ring[j].epoch] = published[ring[j].epoch]
        BY <1>1, <1>2, <4>4
      <4>6. epoch - Len(ring) + j = epoch' - Len(ring') + i
        BY <1>1, <1>2, <1>4, <2>2
      <4> QED BY <4>2, <4>3, <4>5, <4>6
    <3> QED BY <3>1, <3>2
  <2> QED BY <2>1, <2>2, <2>3 DEF RingIsSuffix
<1>7. Positioned'
  BY <1>1, <1>2 DEF FeedInv, TypeOK, Positioned
<1>8. NoLostWakeup'
  BY <1>2 DEF NoLostWakeup
<1> QED BY <1>1, <1>2, <1>5, <1>6, <1>7, <1>8, FeedAssumption DEF FeedInv

\* Everything but Insert leaves the ring and the log alone.
LEMMA RingUnchanged ==
  ASSUME FeedInv, UNCHANGED <<epoch, ring, published>>
  PROVE  (epoch <= MaxEpoch)' /\ RingIsSuffix'
BY DEF FeedInv, RingIsSuffix

LEMMA AnnounceKeeps ==
  ASSUME FeedInv, NEW p \in Publishers, Announce(p)
  PROVE  FeedInv'
<1> USE DEF Announce
<1>1. TypeOK' /\ Positioned'
  BY DEF FeedInv, TypeOK, Positioned
<1>2. NoLostWakeup'
  <2>1. \A s \in Subscribers : sub[s].seen \in Nat /\ sub[s].seen <= version
    BY DEF FeedInv, TypeOK, Positioned
  <2>2. version' = version + 1 /\ version \in Nat /\ sub' = sub
    BY DEF FeedInv, TypeOK
  <2> QED BY <2>1, <2>2 DEF NoLostWakeup
<1> QED BY <1>1, <1>2, RingUnchanged DEF FeedInv

\* A subscription that keeps what FeedInv says of each of them.
Sound(x) ==
  /\ x \in [at: Positions, next: 0..(MaxEpoch + 1), seen: Nat]
  /\ x.seen <= version /\ x.next <= epoch + 1
  /\ x.at = "none" <=> x.next = 0
  /\ x.at = "waiting" /\ x.next <= epoch =>
       x.seen # version \/ announcing # {}

LEMMA EverySubscriptionIsSound ==
  ASSUME FeedInv, NEW s \in Subscribers
  PROVE  Sound(sub[s])
BY DEF FeedInv, TypeOK, Positioned, NoLostWakeup, Sound

\* A step of a subscriber that leaves its subscription sound.
LEMMA SubscriberKeeps ==
  ASSUME FeedInv, Subscriber, NEW s \in Subscribers, NEW x, Sound(x),
         sub' = [sub EXCEPT ![s] = x]
  PROVE  FeedInv'
<1>1. UNCHANGED <<epoch, ring, version, announcing, published>>
  BY DEF Subscriber
<1>2. \A t \in Subscribers : sub'[t] = IF t = s THEN x ELSE sub[t]
  BY DEF FeedInv, TypeOK
<1>3. TypeOK'
  BY <1>1 DEF FeedInv, TypeOK, Sound
<1>4. Positioned'
  BY <1>1, <1>2 DEF FeedInv, Positioned, Sound
<1>5. NoLostWakeup'
  BY <1>1, <1>2 DEF FeedInv, NoLostWakeup, Sound
<1> QED BY <1>1, <1>3, <1>4, <1>5, RingUnchanged DEF FeedInv

LEMMA TryReadKeeps ==
  ASSUME FeedInv, NEW s \in Subscribers, TryRead(s)
  PROVE  FeedInv'
<1> DEFINE next == sub[s].next
<1>1. /\ Subscriber /\ sub[s].at = "reading" /\ Sound(sub[s])
      /\ next \in Nat /\ next # 0 /\ epoch \in Nat /\ epoch <= MaxEpoch
      /\ MaxEpoch \in Nat
  BY EverySubscriptionIsSound, FeedAssumption
     DEF TryRead, Sound, FeedInv, TypeOK
<1>2. CASE ring # <<>> /\ next < Head(ring).epoch
  <2> DEFINE x == [sub[s] EXCEPT !.at = "gap"]
  <2>1. sub' = [sub EXCEPT ![s] = x]
    BY <1>2 DEF TryRead
  <2>2. Sound(x)
    BY <1>1 DEF Sound, Positions
  <2> HIDE DEF x
  <2> QED BY <1>1, <2>1, <2>2, SubscriberKeeps
<1>3. CASE ring # <<>> /\ ~(next < Head(ring).epoch) /\ next <= epoch
  <2> DEFINE x == [sub[s] EXCEPT !.next = next + 1]
  <2>1. Head(ring).epoch \in Nat
    BY <1>1, <1>3, OldestEntry DEF FeedInv, TypeOK
  <2>2. ring[next - Head(ring).epoch + 1].epoch = next
    BY <1>1, <1>3, <2>1, WantedEntry DEF FeedInv
  <2>3. sub' = [sub EXCEPT ![s] = x]
    BY <1>3, <2>2 DEF TryRead, Advanced
  <2>4. Sound(x)
    BY <1>1, <1>3 DEF Sound, Positions
  <2> HIDE DEF x
  <2> QED BY <1>1, <2>3, <2>4, SubscriberKeeps
<1>4. CASE ring = <<>> \/ (~(next < Head(ring).epoch) /\ ~(next <= epoch))
  <2> DEFINE x == [sub[s] EXCEPT !.at = "waiting"]
  <2>1. sub' = [sub EXCEPT ![s] = x]
    BY <1>4 DEF TryRead
  <2>2. ring = <<>> => epoch = 0
    BY FeedAssumption DEF FeedInv, TypeOK, RingIsSuffix
  <2>3. ~(next <= epoch)
    BY <1>1, <1>4, <2>2
  <2>4. Sound(x)
    BY <1>1, <2>3 DEF Sound, Positions
  <2> HIDE DEF x
  <2> QED BY <1>1, <2>1, <2>4, SubscriberKeeps
<1> QED BY <1>2, <1>3, <1>4

LEMMA FeedStep == FeedInv /\ [Next]_vars => FeedInv'
<1> SUFFICES ASSUME FeedInv, [Next]_vars PROVE FeedInv'
  OBVIOUS
<1>0. version \in Nat /\ epoch \in 0..MaxEpoch /\ MaxEpoch \in Nat
  BY FeedAssumption DEF FeedInv, TypeOK
<1>1. ASSUME NEW p \in Publishers, NEW c \in Changes, Insert(p, c)
      PROVE  FeedInv'
  BY <1>1, InsertKeeps
<1>2. ASSUME NEW p \in Publishers, Announce(p) PROVE FeedInv'
  BY <1>2, AnnounceKeeps
<1>3. ASSUME NEW s \in Subscribers, Subscribe(s) PROVE FeedInv'
  <2> DEFINE x == [at |-> "joining", next |-> epoch + 1, seen |-> 0]
  <2>1. Subscriber /\ sub' = [sub EXCEPT ![s] = x]
    BY <1>3 DEF Subscribe
  <2>2. Sound(x)
    BY <1>0 DEF Sound, Positions
  <2> HIDE DEF x
  <2> QED BY <2>1, <2>2, SubscriberKeeps
<1>4. ASSUME NEW s \in Subscribers, JoinWatch(s) PROVE FeedInv'
  <2> DEFINE x == [at |-> "reading", next |-> sub[s].next, seen |-> version]
  <2>1. /\ Subscriber /\ sub[s].at = "joining" /\ Sound(sub[s])
        /\ sub' = [sub EXCEPT ![s] = x]
    BY <1>4, EverySubscriptionIsSound DEF JoinWatch, FeedInv, TypeOK
  <2>2. Sound(x)
    BY <1>0, <2>1 DEF Sound, Positions
  <2> HIDE DEF x
  <2> QED BY <2>1, <2>2, SubscriberKeeps
<1>5. ASSUME NEW s \in Subscribers, TryRead(s) PROVE FeedInv'
  BY <1>5, TryReadKeeps
<1>6. ASSUME NEW s \in Subscribers, Wake(s) PROVE FeedInv'
  <2> DEFINE x == [at |-> "reading", next |-> sub[s].next, seen |-> version]
  <2>1. /\ Subscriber /\ sub[s].at = "waiting" /\ Sound(sub[s])
        /\ sub' = [sub EXCEPT ![s] = x]
    BY <1>6, EverySubscriptionIsSound DEF Wake, FeedInv, TypeOK
  <2>2. Sound(x)
    BY <1>0, <2>1 DEF Sound, Positions
  <2> HIDE DEF x
  <2> QED BY <2>1, <2>2, SubscriberKeeps
<1>7. ASSUME NEW s \in Subscribers, Unsubscribe(s) PROVE FeedInv'
  <2> DEFINE x == [at |-> "none", next |-> 0, seen |-> 0]
  <2>1. Subscriber /\ sub' = [sub EXCEPT ![s] = x]
    BY <1>7 DEF Unsubscribe
  <2>2. Sound(x)
    BY <1>0 DEF Sound, Positions
  <2> HIDE DEF x
  <2> QED BY <2>1, <2>2, SubscriberKeeps
<1>8. CASE UNCHANGED vars
  BY <1>8 DEF vars, FeedInv, TypeOK, RingIsSuffix, Positioned, NoLostWakeup
<1> QED BY <1>1, <1>2, <1>3, <1>4, <1>5, <1>6, <1>7, <1>8 DEF Next

(***************************************************************************)
(* Every reachable state of publish, subscribe, recv and try_recv          *)
(* satisfies the inductive invariant.                                      *)
(***************************************************************************)
THEOREM FeedInvariant == Spec => []FeedInv
BY FeedInit, FeedStep, PTL DEF Spec

(***************************************************************************)
(* What the feed promises its subscribers, for any ring and any number of  *)
(* threads: try_read's index arithmetic is right (RingIsSuffix), and recv  *)
(* never sleeps through a change (NoLostWakeup).                           *)
(***************************************************************************)
THEOREM FeedNeverSleepsThroughAChange ==
  Spec => [](TypeOK /\ RingIsSuffix /\ NoLostWakeup)
<1>1. FeedInv => TypeOK /\ RingIsSuffix /\ NoLostWakeup
  BY DEF FeedInv
<1> QED BY <1>1, FeedInvariant, PTL

(***************************************************************************)
(* The refinement of ChangeLog.  Every step of a subscriber moves at most  *)
(* its own place and its own membership of the lost.                       *)
(***************************************************************************)
place == [s \in Subscribers |-> sub[s].next]
lost  == {s \in Subscribers : sub[s].at = "gap"}

LEMMA OneSubscriptionMoves ==
  ASSUME FeedInv, Subscriber, NEW s \in Subscribers, NEW x, NEW n,
         sub' = [sub EXCEPT ![s] = x], x.next = n
  PROVE  /\ place' = [place EXCEPT ![s] = n]
         /\ x.at = "gap" => lost' = lost \union {s}
         /\ x.at # "gap" => lost' = lost \ {s}
         /\ published' = published
<1>1. \A t \in Subscribers : sub'[t] = IF t = s THEN x ELSE sub[t]
  BY DEF FeedInv, TypeOK
<1>2. place' = [place EXCEPT ![s] = n]
  <2>1. place' = [t \in Subscribers |-> sub'[t].next]
    BY DEF place
  <2>2. \A t \in Subscribers :
          sub'[t].next = IF t = s THEN n ELSE sub[t].next
    BY <1>1
  <2>3. place' = [t \in Subscribers |-> IF t = s THEN n ELSE sub[t].next]
    BY <2>1, <2>2, Zenon
  <2> QED BY <2>3 DEF place
<1>3. x.at = "gap" => lost' = lost \union {s}
  BY <1>1 DEF lost
<1>4. x.at # "gap" => lost' = lost \ {s}
  BY <1>1 DEF lost
<1> QED BY <1>2, <1>3, <1>4 DEF Subscriber

LEMMA PlaceAndLost ==
  ASSUME FeedInv, NEW s \in Subscribers
  PROVE  /\ place[s] = sub[s].next /\ place[s] \in Nat
         /\ s \in lost <=> sub[s].at = "gap"
         /\ Len(published) = epoch /\ epoch \in Nat
         /\ [place EXCEPT ![s] = place[s]] = place
BY DEF place, lost, FeedInv, TypeOK, RingIsSuffix

\* try_read delivers the next change, reports a gap, or finds nothing new.
LEMMA TryReadReads ==
  ASSUME FeedInv, NEW s \in Subscribers, TryRead(s)
  PROVE  [Log!logNext]_(Log!logVars)
<1> DEFINE next == sub[s].next
<1>1. /\ Subscriber /\ sub[s].at = "reading" /\ s \notin lost
      /\ next \in Nat /\ next # 0 /\ next = place[s]
      /\ Len(published) = epoch /\ epoch \in Nat /\ Retained \in Nat
  BY EverySubscriptionIsSound, PlaceAndLost, FeedAssumption
     DEF TryRead, Sound
<1>2. CASE ring # <<>> /\ next < Head(ring).epoch
  <2> DEFINE x == [sub[s] EXCEPT !.at = "gap"]
  <2>1. sub' = [sub EXCEPT ![s] = x]
    BY <1>2 DEF TryRead
  <2>2. x.next = place[s] /\ x.at = "gap"
    BY <1>1, EverySubscriptionIsSound DEF Sound
  <2>3. /\ place' = place /\ lost' = lost \union {s}
        /\ published' = published
    <3> HIDE DEF x
    <3>1. /\ place' = [place EXCEPT ![s] = place[s]]
          /\ lost' = lost \union {s} /\ published' = published
      BY <1>1, <2>1, <2>2, OneSubscriptionMoves
    <3> QED BY <3>1, PlaceAndLost
  <2>4. Head(ring).epoch = epoch - Len(ring) + 1 /\ Len(ring) \in 1..epoch
    BY <1>2, OldestEntry DEF FeedInv
  <2>5. Len(ring) = Retained
    BY <1>1, <1>2, <2>4 DEF FeedInv, RingIsSuffix
  <2>6. place[s] + Retained <= Len(published)
    BY <1>1, <1>2, <2>4, <2>5
  <2>7. Log!Overrun(s)
    BY <1>1, <2>3, <2>6 DEF Log!Overrun, place, lost
  <2> QED BY <2>7 DEF Log!logNext
<1>3. CASE ring # <<>> /\ ~(next < Head(ring).epoch) /\ next <= epoch
  <2> DEFINE x == [sub[s] EXCEPT !.next = next + 1]
  <2>1. Head(ring).epoch \in Nat
    BY <1>1, <1>3, OldestEntry DEF FeedInv, TypeOK
  <2>2. ring[next - Head(ring).epoch + 1].epoch = next
    BY <1>1, <1>3, <2>1, WantedEntry DEF FeedInv
  <2>3. sub' = [sub EXCEPT ![s] = x]
    BY <1>3, <2>2 DEF TryRead, Advanced
  <2>4. x.next = place[s] + 1 /\ x.at # "gap"
    BY <1>1, EverySubscriptionIsSound DEF Sound
  <2>5. /\ place' = [place EXCEPT ![s] = place[s] + 1] /\ lost' = lost
        /\ published' = published
    <3> HIDE DEF x
    <3>1. lost \ {s} = lost
      BY <1>1
    <3> QED BY <1>1, <2>3, <2>4, <3>1, OneSubscriptionMoves
  <2>6. place[s] \in 1..Len(published)
    BY <1>1, <1>3
  <2>7. Log!Deliver(s)
    BY <1>1, <2>5, <2>6 DEF Log!Deliver, place, lost
  <2> QED BY <2>7 DEF Log!logNext
<1>4. CASE ring = <<>> \/ (~(next < Head(ring).epoch) /\ ~(next <= epoch))
  <2> DEFINE x == [sub[s] EXCEPT !.at = "waiting"]
  <2>1. sub' = [sub EXCEPT ![s] = x]
    BY <1>4 DEF TryRead
  <2>2. x.next = place[s] /\ x.at # "gap"
    BY <1>1, EverySubscriptionIsSound DEF Sound
  <2>3. place' = place /\ lost' = lost /\ published' = published
    <3> HIDE DEF x
    <3>1. lost \ {s} = lost
      BY <1>1
    <3>2. /\ place' = [place EXCEPT ![s] = place[s]]
          /\ lost' = lost \ {s} /\ published' = published
      BY <1>1, <2>1, <2>2, OneSubscriptionMoves
    <3> QED BY <3>1, <3>2, PlaceAndLost
  <2> QED BY <2>3 DEF Log!logVars, place, lost
<1> QED BY <1>2, <1>3, <1>4

LEMMA RefinementInit == Init => Log!logInit
BY DEF Init, Log!logInit

LEMMA RefinementStep ==
  FeedInv /\ [Next]_vars => [Log!logNext]_(Log!logVars)
<1> SUFFICES ASSUME FeedInv, [Next]_vars
             PROVE  [Log!logNext]_(Log!logVars)
  OBVIOUS
<1>1. ASSUME NEW p \in Publishers, NEW c \in Changes, Insert(p, c)
      PROVE  Log!Record(c)
  BY <1>1 DEF Insert, Log!Record
<1>2. ASSUME NEW p \in Publishers, Announce(p)
      PROVE  UNCHANGED Log!logVars
  BY <1>2 DEF Announce, Log!logVars
<1>3. ASSUME NEW s \in Subscribers, Subscribe(s) PROVE Log!Join(s)
  <2> DEFINE x == [at |-> "joining", next |-> epoch + 1, seen |-> 0]
  <2>1. Subscriber /\ sub[s].at = "none" /\ sub' = [sub EXCEPT ![s] = x]
    BY <1>3 DEF Subscribe
  <2>2. place' = [place EXCEPT ![s] = epoch + 1] /\ lost' = lost \ {s}
        /\ published' = published
    <3>1. x.next = epoch + 1 /\ x.at # "gap"
      OBVIOUS
    <3> HIDE DEF x
    <3> QED BY <2>1, <3>1, OneSubscriptionMoves
  <2>3. place[s] = 0 /\ s \notin lost /\ Len(published) = epoch
    BY <2>1, PlaceAndLost, EverySubscriptionIsSound DEF Sound
  <2> QED BY <2>2, <2>3 DEF Log!Join, place, lost
<1>4. ASSUME NEW s \in Subscribers, JoinWatch(s) \/ Wake(s)
      PROVE  UNCHANGED Log!logVars
  <2> DEFINE x == [at |-> "reading", next |-> sub[s].next, seen |-> version]
  <2>1. /\ Subscriber /\ sub[s].at # "gap" /\ sub' = [sub EXCEPT ![s] = x]
    BY <1>4, EverySubscriptionIsSound DEF JoinWatch, Wake
  <2>2. x.next = place[s] /\ x.at # "gap"
    BY PlaceAndLost
  <2>3. place' = place /\ lost' = lost /\ published' = published
    <3> HIDE DEF x
    <3>1. lost \ {s} = lost
      BY <2>1, PlaceAndLost
    <3>2. /\ place' = [place EXCEPT ![s] = place[s]]
          /\ lost' = lost \ {s} /\ published' = published
      BY <2>1, <2>2, OneSubscriptionMoves
    <3> QED BY <3>1, <3>2, PlaceAndLost
  <2> QED BY <2>3 DEF Log!logVars, place, lost
<1>5. ASSUME NEW s \in Subscribers, Unsubscribe(s) PROVE Log!Leave(s)
  <2> DEFINE x == [at |-> "none", next |-> 0, seen |-> 0]
  <2>1. Subscriber /\ sub' = [sub EXCEPT ![s] = x]
    BY <1>5 DEF Unsubscribe
  <2>2. place' = [place EXCEPT ![s] = 0] /\ lost' = lost \ {s}
        /\ published' = published
    <3>1. x.next = 0 /\ x.at # "gap"
      OBVIOUS
    <3> HIDE DEF x
    <3> QED BY <2>1, <3>1, OneSubscriptionMoves
  <2> QED BY <2>2 DEF Log!Leave, place, lost
<1>6. CASE UNCHANGED vars
  BY <1>6 DEF vars, Log!logVars
<1> QED BY <1>1, <1>2, <1>3, <1>4, <1>5, <1>6, TryReadReads
        DEF Next, Log!logNext

(***************************************************************************)
(* The feed is the log it promises, whatever the order in which publishers *)
(* announce: publish records, try_read delivers the next change or reports *)
(* that it fell behind by more than the ring retains.                      *)
(***************************************************************************)
THEOREM FeedImplementsLog == Spec => ImplementsLog
BY FeedInvariant, RefinementInit, RefinementStep, PTL
   DEF Spec, ImplementsLog, Log!logSpec

(***************************************************************************)
(*                               BODY DECODER                              *)
(***************************************************************************)

(***************************************************************************)
(* Where jobs and results are, as sets.                                    *)
(***************************************************************************)
InHands == IF service.at \in HoldsKey THEN {service.key}
           ELSE IF service.at = "forgetting" THEN {service.result.key} ELSE {}
Judged == IF service.at \in HoldsResult THEN {service.result} ELSE {}
Jobs == Range(queue) \union InHands \union Active
Answers == Judged \union Range(results)

(***************************************************************************)
(* The application: the text of a body changes when its request is over.   *)
(***************************************************************************)
Asking ==
  /\ main \notin {"ready", "left"} => text = "idle"
  /\ text # "idle" \/ main \notin {"ready", "left"} => selections # <<>>
  /\ Entering \subseteq pending
  /\ main = "rejecting" => Selected \notin pending
  /\ main \in {"recancelling", "cancelling", "sending", "rejecting"}
       => desired = {Selected}

(***************************************************************************)
(* pending is exactly the keys that have a job, and none has two.          *)
(***************************************************************************)
OneJobEach ==
  /\ IsInjective(queue)
  /\ Range(queue) \intersect InHands = {}
  /\ (Range(queue) \union InHands) \intersect Active = {}
  /\ Jobs \subseteq pending \ Entering
  /\ service.at # "stopped" => pending \ Entering \subseteq Jobs

(***************************************************************************)
(* The flag of a worker can be found as long as it runs, and is set once   *)
(* the request for another body has gone through them.                     *)
(***************************************************************************)
Flagged ==
  /\ service.at = "rechecking" => InHands \subseteq registered
  /\ service.at = "unregistering" => \A r \in Judged : r.key \notin Active
  /\ \A k \in Keys : worker[k] = "running" => k \in registered
  /\ main \notin {"recancelling", "cancelling"} =>
       \A k \in Keys \ desired : worker[k] = "running" => k \in cancelled

(***************************************************************************)
(* First visits: nothing is known of a body that was never selected, and   *)
(* of one that is selected for the first time nothing was cancelled,       *)
(* dropped or discarded.                                                   *)
(***************************************************************************)
Known ==
  /\ pending \union desired \union registered \subseteq Range(selections)
  /\ \A r \in Answers : r.key \in Range(selections)

Served ==
  /\ main \notin {"repeating", "recancelling"}
  /\ text # "cancelled"
  /\ main = "ready" /\ text = "idle" => Selected \notin pending
  /\ \A r \in Answers : r.key = Selected => r.outcome = "text"
  /\ Selected \in Jobs => Selected \in desired
  /\ \A r \in Judged : r.key = Selected => Selected \in desired
  /\ service.at = "dropping" => Selected \notin InHands
  /\ Running => Selected \notin cancelled /\ worker[Selected] # "cancelled"
  /\ Running /\ main = "ready" /\ text = "pending" =>
       Selected \in pending \/ \E r \in Answers : r.key = Selected

FirstServed == selections # <<>> /\ FirstVisit => Served

DecodeInv ==
  /\ DecodeTypeOK /\ Asking /\ OneJobEach /\ Flagged /\ Known /\ FirstServed

(***************************************************************************)
(* The channels and the service's hands.                                   *)
(***************************************************************************)
LEMMA RangeGrows ==
  ASSUME NEW S, NEW s \in Seq(S), NEW e \in S
  PROVE  /\ Append(s, e) \in Seq(S) /\ Len(Append(s, e)) = Len(s) + 1
         /\ Range(Append(s, e)) = Range(s) \union {e}
         /\ IsInjective(s) /\ e \notin Range(s) => IsInjective(Append(s, e))
<1>1. /\ Append(s, e) \in Seq(S) /\ Len(Append(s, e)) = Len(s) + 1 /\ Len(s) \in Nat
      /\ \A i \in 1..Len(s) : Append(s, e)[i] = s[i]
      /\ Append(s, e)[Len(s) + 1] = e
  OBVIOUS
<1>2. DOMAIN s = 1..Len(s) /\ DOMAIN Append(s, e) = 1..(Len(s) + 1)
  BY <1>1
<1>3. Range(Append(s, e)) = Range(s) \union {e}
  <2>1. ASSUME NEW x \in Range(s) PROVE x \in Range(Append(s, e))
    BY <1>1, <1>2 DEF Range
  <2>2. e \in Range(Append(s, e))
    BY <1>1, <1>2 DEF Range
  <2>3. ASSUME NEW x \in Range(Append(s, e)), x # e PROVE x \in Range(s)
    <3>1. PICK i \in 1..(Len(s) + 1) : x = Append(s, e)[i]
      BY <1>2 DEF Range
    <3>2. i \in 1..Len(s) /\ x = s[i]
      BY <1>1, <2>3, <3>1
    <3> QED BY <1>2, <3>2 DEF Range
  <2> QED BY <2>1, <2>2, <2>3
<1>4. ASSUME IsInjective(s), e \notin Range(s) PROVE IsInjective(Append(s, e))
  <2>1. \A i \in 1..Len(s) : s[i] # e
    BY <1>2, <1>4 DEF Range
  <2>2. \A i, j \in 1..Len(s) : s[i] = s[j] => i = j
    BY <1>2, <1>4 DEF IsInjective
  <2>3. ASSUME NEW i \in 1..(Len(s) + 1), NEW j \in 1..(Len(s) + 1),
               Append(s, e)[i] = Append(s, e)[j]
        PROVE  i = j
    BY <1>1, <2>1, <2>2, <2>3
  <2> QED BY <1>2, <2>3 DEF IsInjective
<1> QED BY <1>1, <1>3, <1>4

LEMMA RangeShrinks ==
  ASSUME NEW S, NEW s \in Seq(S), s # <<>>
  PROVE  /\ Tail(s) \in Seq(S) /\ Len(Tail(s)) <= Len(s) /\ Head(s) \in S
         /\ Range(s) = Range(Tail(s)) \union {Head(s)}
         /\ IsInjective(s) => IsInjective(Tail(s)) /\ Head(s) \notin Range(Tail(s))
<1>1. /\ Tail(s) \in Seq(S) /\ Len(Tail(s)) = Len(s) - 1 /\ Head(s) \in S
      /\ Len(s) \in Nat \ {0} /\ Head(s) = s[1]
      /\ \A i \in 1..(Len(s) - 1) : Tail(s)[i] = s[i + 1]
  OBVIOUS
<1>2. DOMAIN s = 1..Len(s) /\ DOMAIN Tail(s) = 1..(Len(s) - 1)
  BY <1>1
<1>3. Range(s) = Range(Tail(s)) \union {Head(s)}
  <2>1. ASSUME NEW x \in Range(Tail(s)) PROVE x \in Range(s)
    <3>1. PICK i \in 1..(Len(s) - 1) : x = Tail(s)[i]
      BY <1>2 DEF Range
    <3>2. i + 1 \in 1..Len(s) /\ x = s[i + 1]
      BY <1>1, <3>1
    <3> QED BY <1>2, <3>2 DEF Range
  <2>2. 1 \in 1..Len(s) /\ Head(s) \in Range(s)
    BY <1>1, <1>2 DEF Range
  <2>3. ASSUME NEW x \in Range(s), x # Head(s) PROVE x \in Range(Tail(s))
    <3>1. PICK i \in 1..Len(s) : x = s[i]
      BY <1>2 DEF Range
    <3>2. i - 1 \in 1..(Len(s) - 1) /\ x = Tail(s)[i - 1]
      BY <1>1, <2>3, <3>1
    <3> QED BY <1>2, <3>2 DEF Range
  <2> QED BY <2>1, <2>2, <2>3
<1>4. ASSUME IsInjective(s)
      PROVE  IsInjective(Tail(s)) /\ Head(s) \notin Range(Tail(s))
  <2>1. \A i, j \in 1..Len(s) : s[i] = s[j] => i = j
    BY <1>2, <1>4 DEF IsInjective
  <2>2. ASSUME NEW i \in 1..(Len(s) - 1), NEW j \in 1..(Len(s) - 1),
               Tail(s)[i] = Tail(s)[j]
        PROVE  i = j
    BY <1>1, <2>1, <2>2
  <2>3. \A i \in 1..(Len(s) - 1) : Tail(s)[i] # Head(s)
    BY <1>1, <2>1
  <2> QED BY <1>2, <2>2, <2>3 DEF IsInjective, Range
<1> QED BY <1>1, <1>3, <1>4

\* What the service holds, before and after a step of it.
LEMMA HoldingKey ==
  ASSUME DecodeTypeOK, service.at \in HoldsKey
  PROVE  /\ service.key \in Keys /\ InHands = {service.key} /\ Judged = {}
         /\ \A to : Moves(to) => service' = [at |-> to, key |-> service.key]
BY DEF DecodeTypeOK, Service, HoldsKey, HoldsResult, InHands, Judged, Moves

LEMMA HoldingResult ==
  ASSUME DecodeTypeOK, service.at \in HoldsResult
  PROVE  /\ service.result \in Results /\ Judged = {service.result}
         /\ service.result.key \in Keys
         /\ InHands = IF service.at = "forgetting" THEN {service.result.key} ELSE {}
         /\ \A to : Moves(to) => service' = [at |-> to, result |-> service.result]
BY DEF DecodeTypeOK, Service, HoldsKey, HoldsResult, InHands, Judged, Moves, Results

LEMMA HoldingNothing ==
  ASSUME service.at \in {"waiting", "draining", "stopped"}
  PROVE  InHands = {} /\ Judged = {}
BY DEF HoldsKey, HoldsResult, InHands, Judged

LEMMA HoldsKeyThen ==
  ASSUME NEW k \in Keys, NEW to \in HoldsKey, service' = [at |-> to, key |-> k]
  PROVE  service' \in Service /\ service'.at = to /\ InHands' = {k} /\ Judged' = {}
BY DEF Service, HoldsKey, HoldsResult, InHands, Judged

LEMMA HoldsResultThen ==
  ASSUME NEW r \in Results, NEW to \in HoldsResult, service' = [at |-> to, result |-> r]
  PROVE  /\ service' \in Service /\ service'.at = to /\ Judged' = {r}
         /\ InHands' = IF to = "forgetting" THEN {r.key} ELSE {}
BY DEF Service, HoldsKey, HoldsResult, InHands, Judged

LEMMA HoldsNothingThen ==
  ASSUME NEW to \in {"waiting", "draining", "stopped"}, service' = [at |-> to]
  PROVE  service' \in Service /\ service'.at = to /\ InHands' = {} /\ Judged' = {}
BY DEF Service, HoldsKey, HoldsResult, InHands, Judged

LEMMA ServiceStays ==
  ASSUME UNCHANGED service
  PROVE  InHands' = InHands /\ Judged' = Judged
BY DEF InHands, Judged

(***************************************************************************)
(* The steps of the application.                                           *)
(***************************************************************************)
LEMMA SelectKeeps ==
  ASSUME DecodeInv, NEW k \in Keys, Select(k)
  PROVE  DecodeInv'
<1>1. /\ selections \in Seq(Keys) /\ selections' = Append(selections, k)
      /\ Range(selections') = Range(selections) \union {k}
      /\ selections' \in Seq(Keys) /\ Len(selections') = Len(selections) + 1
      /\ Len(selections) \in Nat /\ Selected' = k /\ selections' # <<>>
  BY RangeGrows DEF Select, DecodeInv, DecodeTypeOK, Selected, Last
<1>2. /\ main = "ready" /\ main' = "ready" /\ text' = "idle"
      /\ Entering = {} /\ Entering' = {}
      /\ UNCHANGED <<pending, desired, registered, cancelled, queue, service, worker, results>>
  BY DEF Select, clientVars, ServiceSide, Entering
<1>3. InHands' = InHands /\ Judged' = Judged /\ Active' = Active /\ Jobs' = Jobs
      /\ Answers' = Answers
  BY <1>2, ServiceStays DEF Active, Jobs, Answers
<1>4. DecodeTypeOK'
  BY <1>1, <1>2, DecodeAssumption DEF Select, DecodeInv, DecodeTypeOK, Texts
<1>5. Asking' /\ OneJobEach' /\ Flagged'
  BY <1>1, <1>2, <1>3 DEF DecodeInv, Asking, OneJobEach, Flagged
<1>6. Known'
  BY <1>1, <1>2, <1>3 DEF DecodeInv, Known
<1>7. ASSUME FirstVisit' PROVE Served'
  <2>1. k \notin Range(selections)
    <3>1. \A i \in 1..Len(selections) : selections[i] # k
      BY <1>1, <1>7 DEF FirstVisit
    <3> QED BY <1>1, <3>1 DEF Range
  <2>2. /\ k \notin pending /\ k \notin desired /\ k \notin registered
        /\ \A r \in Answers : r.key # k
    BY <2>1 DEF DecodeInv, Known
  <2>3. k \notin Jobs /\ k \notin InHands /\ k \notin cancelled /\ worker[k] # "cancelled"
    BY <2>2 DEF DecodeInv, DecodeTypeOK, OneJobEach, Jobs, Active
  <2> QED
    BY <1>1, <1>2, <1>3, <2>2, <2>3 DEF Served, Answers
<1> QED
  BY <1>4, <1>5, <1>6, <1>7 DEF DecodeInv, FirstServed

\* A step of the application that leaves the service's side alone.
LEMMA ApplicationSide ==
  ASSUME UNCHANGED <<selections, queue, service, worker>>
  PROVE  /\ Selected' = Selected /\ (FirstVisit' <=> FirstVisit)
         /\ InHands' = InHands /\ Judged' = Judged /\ Active' = Active /\ Jobs' = Jobs
         /\ (Running' <=> Running)
         /\ results' = results => Answers' = Answers
BY ServiceStays DEF Selected, FirstVisit, Active, Jobs, Running, Answers

LEMMA RequestKeeps ==
  ASSUME DecodeInv, Request
  PROVE  DecodeInv'
<1>1. /\ main = "ready" /\ text = "idle" /\ text' = "idle" /\ selections # <<>>
      /\ pending' = pending \union {Selected}
      /\ main' = IF Selected \in pending THEN "repeating" ELSE "desiring"
      /\ UNCHANGED <<selections, text, desired, registered, cancelled,
                     queue, service, worker, results>>
  BY DEF Request, ServiceSide
<1>2. /\ Selected' = Selected /\ (FirstVisit' <=> FirstVisit)
      /\ InHands' = InHands /\ Judged' = Judged /\ Active' = Active /\ Jobs' = Jobs
      /\ (Running' <=> Running) /\ Answers' = Answers
  BY <1>1, ApplicationSide
<1>3. Selected \in Keys /\ Selected \in Range(selections)
  BY <1>1 DEF DecodeInv, DecodeTypeOK, Selected, Last, Range
<1>4. /\ Entering = {}
      /\ Entering' = IF Selected \in pending THEN {} ELSE {Selected}
  BY <1>1, <1>2 DEF Entering
<1>5. DecodeTypeOK'
  BY <1>1, <1>3 DEF DecodeInv, DecodeTypeOK, MainSteps
<1>6. Asking' /\ Known'
  BY <1>1, <1>2, <1>3, <1>4 DEF DecodeInv, Asking, Known
<1>7. OneJobEach' /\ Flagged'
  BY <1>1, <1>2, <1>4 DEF DecodeInv, OneJobEach, Flagged
<1>8. FirstServed'
  BY <1>1, <1>2 DEF DecodeInv, FirstServed, Served
<1> QED
  BY <1>5, <1>6, <1>7, <1>8 DEF DecodeInv

LEMMA DesireKeeps ==
  ASSUME DecodeInv, Desire
  PROVE  DecodeInv'
<1>1. /\ main \in {"repeating", "desiring"} /\ desired' = {Selected}
      /\ main' = IF main = "repeating" THEN "recancelling" ELSE "cancelling"
      /\ UNCHANGED <<selections, text, pending, registered, cancelled,
                     queue, service, worker, results>>
  BY DEF Desire, ServiceSide
<1>2. /\ Selected' = Selected /\ (FirstVisit' <=> FirstVisit)
      /\ InHands' = InHands /\ Judged' = Judged /\ Active' = Active /\ Jobs' = Jobs
      /\ (Running' <=> Running) /\ Answers' = Answers
  BY <1>1, ApplicationSide
<1>3. selections # <<>> /\ text = "idle"
  BY <1>1 DEF DecodeInv, Asking
<1>4. Selected \in Keys /\ Selected \in Range(selections)
  BY <1>3 DEF DecodeInv, DecodeTypeOK, Selected, Last, Range
<1>5. Entering' = Entering
  BY <1>1, <1>2 DEF Entering
<1>6. DecodeTypeOK'
  BY <1>1, <1>4 DEF DecodeInv, DecodeTypeOK, MainSteps
<1>7. Asking' /\ Known'
  BY <1>1, <1>2, <1>3, <1>4, <1>5 DEF DecodeInv, Asking, Known
<1>8. OneJobEach' /\ Flagged'
  BY <1>1, <1>2, <1>5 DEF DecodeInv, OneJobEach, Flagged
<1>9. FirstServed'
  BY <1>1, <1>2 DEF DecodeInv, FirstServed, Served
<1> QED
  BY <1>6, <1>7, <1>8, <1>9 DEF DecodeInv

LEMMA CancelOthersKeeps ==
  ASSUME DecodeInv, CancelOthers
  PROVE  DecodeInv'
<1>1. /\ main \in {"recancelling", "cancelling"}
      /\ cancelled' = cancelled \union (registered \ {Selected})
      /\ main' = IF main = "recancelling" THEN "ready" ELSE "sending"
      /\ text' = IF main = "recancelling" THEN "pending" ELSE text
      /\ UNCHANGED <<selections, pending, desired, registered,
                     queue, service, worker, results>>
  BY DEF CancelOthers, ServiceSide
<1>2. /\ Selected' = Selected /\ (FirstVisit' <=> FirstVisit)
      /\ InHands' = InHands /\ Judged' = Judged /\ Active' = Active /\ Jobs' = Jobs
      /\ (Running' <=> Running) /\ Answers' = Answers
  BY <1>1, ApplicationSide
<1>3. selections # <<>> /\ text = "idle" /\ desired = {Selected}
  BY <1>1 DEF DecodeInv, Asking
<1>4. Entering' = Entering
  BY <1>1, <1>2 DEF Entering
<1>5. DecodeTypeOK'
  BY <1>1 DEF DecodeInv, DecodeTypeOK, MainSteps, Texts
<1>6. Asking' /\ Known'
  BY <1>1, <1>2, <1>3, <1>4 DEF DecodeInv, Asking, Known
<1>7. OneJobEach'
  BY <1>1, <1>2, <1>4 DEF DecodeInv, OneJobEach
<1>8. Flagged'
  BY <1>1, <1>2, <1>3 DEF DecodeInv, Flagged
<1>9. FirstServed'
  BY <1>1, <1>2, <1>3 DEF DecodeInv, FirstServed, Served
<1> QED
  BY <1>5, <1>6, <1>7, <1>8, <1>9 DEF DecodeInv

LEMMA SendKeeps ==
  ASSUME DecodeInv, Send
  PROVE  DecodeInv'
<1>1. /\ main = "sending" /\ service.at # "stopped" /\ Len(queue) < QueueCapacity
      /\ queue' = Append(queue, Selected) /\ main' = "ready" /\ text' = "pending"
      /\ UNCHANGED <<selections, pending, desired, registered, cancelled,
                     service, worker, results>>
  BY DEF Send, clientVars
<1>2. /\ Selected' = Selected /\ (FirstVisit' <=> FirstVisit)
      /\ InHands' = InHands /\ Judged' = Judged /\ Active' = Active
      /\ (Running' <=> Running) /\ Answers' = Answers
  BY <1>1, ServiceStays DEF Selected, FirstVisit, Active, Running, Answers
<1>3. /\ selections # <<>> /\ text = "idle" /\ desired = {Selected}
      /\ Entering = {Selected} /\ Entering' = {} /\ Selected \in pending
  BY <1>1 DEF DecodeInv, Asking, Entering
<1>4. Selected \in Keys
  BY <1>3 DEF DecodeInv, DecodeTypeOK, Selected, Last
<1>5. /\ Selected \notin Jobs
      /\ Range(queue') = Range(queue) \union {Selected}
      /\ queue' \in Seq(Keys) /\ Len(queue') = Len(queue) + 1 /\ IsInjective(queue')
  BY <1>1, <1>3, <1>4, RangeGrows DEF DecodeInv, DecodeTypeOK, OneJobEach, Jobs
<1>6. Jobs' = Jobs \union {Selected}
  BY <1>2, <1>5 DEF Jobs
<1>7. DecodeTypeOK'
  BY <1>1, <1>5, DecodeAssumption DEF DecodeInv, DecodeTypeOK, MainSteps, Texts
<1>8. Asking' /\ Known'
  BY <1>1, <1>2, <1>3 DEF DecodeInv, Asking, Known
<1>9. OneJobEach'
  BY <1>1, <1>2, <1>3, <1>5, <1>6 DEF DecodeInv, OneJobEach, Jobs
<1>10. Flagged'
  BY <1>1, <1>2 DEF DecodeInv, Flagged
<1>11. FirstServed'
  BY <1>1, <1>2, <1>3, <1>6 DEF DecodeInv, FirstServed, Served
<1> QED
  BY <1>7, <1>8, <1>9, <1>10, <1>11 DEF DecodeInv

LEMMA RejectKeeps ==
  ASSUME DecodeInv, Reject
  PROVE  DecodeInv'
<1>1. /\ main = "sending" /\ main' = "rejecting"
      /\ pending' = pending \ {Selected}
      /\ UNCHANGED <<selections, text, desired, registered, cancelled,
                     queue, service, worker, results>>
  BY DEF Reject, ServiceSide
<1>2. /\ Selected' = Selected /\ (FirstVisit' <=> FirstVisit)
      /\ InHands' = InHands /\ Judged' = Judged /\ Active' = Active /\ Jobs' = Jobs
      /\ (Running' <=> Running) /\ Answers' = Answers
  BY <1>1, ApplicationSide
<1>3. /\ selections # <<>> /\ text = "idle" /\ desired = {Selected}
      /\ Entering = {Selected} /\ Entering' = {}
  BY <1>1 DEF DecodeInv, Asking, Entering
<1>4. DecodeTypeOK'
  BY <1>1 DEF DecodeInv, DecodeTypeOK, MainSteps
<1>5. Asking' /\ Known'
  BY <1>1, <1>2, <1>3 DEF DecodeInv, Asking, Known
<1>6. OneJobEach' /\ Flagged'
  BY <1>1, <1>2, <1>3 DEF DecodeInv, OneJobEach, Flagged
<1>7. FirstServed'
  BY <1>1, <1>2, <1>3 DEF DecodeInv, FirstServed, Served
<1> QED
  BY <1>4, <1>5, <1>6, <1>7 DEF DecodeInv

LEMMA RejectEndsKeeps ==
  ASSUME DecodeInv, RejectEnds
  PROVE  DecodeInv'
<1>1. /\ main = "rejecting" /\ main' = "ready" /\ text' = "unavailable"
      /\ registered' = registered \ {Selected} /\ cancelled' = cancelled \ {Selected}
      /\ UNCHANGED <<selections, pending, desired, queue, service, worker, results>>
  BY DEF RejectEnds, Unregister, ServiceSide
<1>2. /\ Selected' = Selected /\ (FirstVisit' <=> FirstVisit)
      /\ InHands' = InHands /\ Judged' = Judged /\ Active' = Active /\ Jobs' = Jobs
      /\ (Running' <=> Running) /\ Answers' = Answers
  BY <1>1, ApplicationSide
<1>3. /\ selections # <<>> /\ text = "idle" /\ desired = {Selected}
      /\ Selected \notin pending /\ Entering = {} /\ Entering' = {}
  BY <1>1 DEF DecodeInv, Asking, Entering
<1>4. Selected \notin InHands /\ Selected \notin Active
  BY <1>3 DEF DecodeInv, OneJobEach, Jobs
<1>5. DecodeTypeOK'
  BY <1>1 DEF DecodeInv, DecodeTypeOK, MainSteps, Texts
<1>6. Asking' /\ Known'
  BY <1>1, <1>2, <1>3 DEF DecodeInv, Asking, Known
<1>7. OneJobEach'
  BY <1>1, <1>2, <1>3 DEF DecodeInv, OneJobEach
<1>8. Flagged'
  <2>1. \A k \in Keys : worker[k] = "running" => k # Selected
    BY <1>4 DEF Active
  <2> QED BY <1>1, <1>2, <1>4, <2>1 DEF DecodeInv, Flagged
<1>9. FirstServed'
  BY <1>1, <1>2, <1>3 DEF DecodeInv, FirstServed, Served
<1> QED
  BY <1>5, <1>6, <1>7, <1>8, <1>9 DEF DecodeInv

LEMMA ReceiveKeeps ==
  ASSUME DecodeInv, Receive
  PROVE  DecodeInv'
<1>1. /\ main = "ready" /\ results # <<>> /\ results' = Tail(results)
      /\ text' = IF text = "pending" /\ Head(results).key = Selected
                 THEN Head(results).outcome ELSE text
      /\ UNCHANGED <<selections, main, pending, desired, registered, cancelled,
                     queue, service, worker>>
  BY DEF Receive, clientVars
<1>2. /\ Selected' = Selected /\ (FirstVisit' <=> FirstVisit)
      /\ InHands' = InHands /\ Judged' = Judged /\ Active' = Active /\ Jobs' = Jobs
      /\ (Running' <=> Running)
  BY <1>1, ApplicationSide
<1>3. /\ results' \in Seq(Results) /\ Len(results') <= Len(results)
      /\ Head(results) \in Results
      /\ Range(results) = Range(results') \union {Head(results)}
  BY <1>1, RangeShrinks DEF DecodeInv, DecodeTypeOK
<1>4. /\ Answers = Answers' \union {Head(results)}
      /\ Head(results).outcome \in Outcomes
  BY <1>2, <1>3 DEF Answers, Results
<1>5. Entering' = Entering
  BY <1>1, <1>2 DEF Entering
<1>6. DecodeTypeOK'
  BY <1>1, <1>3, <1>4, DecodeAssumption DEF DecodeInv, DecodeTypeOK, Texts
<1>7. Asking' /\ Known'
  BY <1>1, <1>2, <1>4, <1>5 DEF DecodeInv, Asking, Known
<1>8. OneJobEach' /\ Flagged'
  BY <1>1, <1>2, <1>5 DEF DecodeInv, OneJobEach, Flagged
<1>9. ASSUME selections # <<>>, FirstVisit PROVE Served'
  <2>1. Served
    BY <1>9 DEF DecodeInv, FirstServed
  <2>2. CASE text = "pending" /\ Head(results).key = Selected
    BY <1>1, <1>2, <1>4, <2>1, <2>2 DEF Served
  <2>3. CASE ~(text = "pending" /\ Head(results).key = Selected)
    BY <1>1, <1>2, <1>4, <2>1, <2>3 DEF Served
  <2> QED BY <2>2, <2>3
<1> QED
  BY <1>1, <1>2, <1>6, <1>7, <1>8, <1>9 DEF DecodeInv, FirstServed

(***************************************************************************)
(* The steps of the service and its workers.                               *)
(***************************************************************************)
\* The service's side leaves alone what the user sees.
LEMMA LeaveKeeps ==
  ASSUME DecodeInv, Leave
  PROVE  DecodeInv'
<1>1. /\ main = "ready" /\ main' = "left"
      /\ UNCHANGED <<selections, text, pending, desired, registered, cancelled,
                     queue, service, worker, results>>
  BY DEF Leave, clientVars, ServiceSide
<1>2. /\ Selected' = Selected /\ (FirstVisit' <=> FirstVisit)
      /\ Entering = {} /\ Entering' = {}
  BY <1>1 DEF Selected, Last, FirstVisit, Entering
<1>3. /\ InHands' = InHands /\ Judged' = Judged /\ Active' = Active /\ Jobs' = Jobs
      /\ Answers' = Answers /\ (Running' <=> Running)
  BY <1>1, ServiceStays DEF Active, Jobs, Answers, Running
<1>4. DecodeTypeOK'
  BY <1>1 DEF DecodeInv, DecodeTypeOK, MainSteps
<1>5. Asking' /\ Known'
  BY <1>1, <1>2, <1>3 DEF DecodeInv, Asking, Known
<1>6. OneJobEach' /\ Flagged'
  BY <1>1, <1>2, <1>3 DEF DecodeInv, OneJobEach, Flagged
<1>7. FirstServed'
  BY <1>1, <1>2, <1>3 DEF DecodeInv, FirstServed, Served
<1> QED
  BY <1>4, <1>5, <1>6, <1>7 DEF DecodeInv

LEMMA ScreenStays ==
  ASSUME UNCHANGED appVars
  PROVE  /\ UNCHANGED <<selections, text, main>>
         /\ Selected' = Selected /\ (FirstVisit' <=> FirstVisit)
         /\ Entering' = Entering
BY DEF appVars, Selected, FirstVisit, Entering

LEMMA TakeJobKeeps ==
  ASSUME DecodeInv, TakeJob
  PROVE  DecodeInv'
<1>1. /\ service.at = "waiting" /\ queue # <<>> /\ queue' = Tail(queue)
      /\ service' = [at |-> "checking", key |-> Head(queue)]
      /\ UNCHANGED <<appVars, pending, desired, registered, cancelled, worker, results>>
  BY DEF TakeJob, clientVars
<1>2. /\ UNCHANGED <<selections, text, main>> /\ Selected' = Selected
      /\ (FirstVisit' <=> FirstVisit) /\ Entering' = Entering
  BY <1>1, ScreenStays
<1>3. /\ queue' \in Seq(Keys) /\ Len(queue') <= Len(queue) /\ Head(queue) \in Keys
      /\ Range(queue) = Range(queue') \union {Head(queue)}
      /\ IsInjective(queue') /\ Head(queue) \notin Range(queue')
  BY <1>1, RangeShrinks DEF DecodeInv, DecodeTypeOK, OneJobEach
<1>4. InHands = {} /\ Judged = {}
  BY <1>1, HoldingNothing
<1>5. /\ service' \in Service /\ service'.at = "checking"
      /\ InHands' = {Head(queue)} /\ Judged' = {}
  BY <1>1, <1>3, HoldsKeyThen DEF HoldsKey
<1>6. Active' = Active /\ Jobs' = Jobs /\ Answers' = Answers
  BY <1>1, <1>3, <1>4, <1>5 DEF Active, Jobs, Answers
<1>7. DecodeTypeOK'
  BY <1>1, <1>2, <1>3, <1>5, DecodeAssumption DEF DecodeInv, DecodeTypeOK
<1>8. Asking' /\ Known'
  BY <1>1, <1>2, <1>6 DEF DecodeInv, Asking, Known
<1>9. OneJobEach'
  BY <1>1, <1>2, <1>3, <1>5, <1>6 DEF DecodeInv, OneJobEach
<1>10. Flagged'
  BY <1>1, <1>2, <1>5 DEF DecodeInv, Flagged
<1>11. FirstServed'
  BY <1>1, <1>2, <1>5, <1>6 DEF DecodeInv, FirstServed, Served, Running
<1> QED
  BY <1>7, <1>8, <1>9, <1>10, <1>11 DEF DecodeInv

LEMMA CheckDesiredKeeps ==
  ASSUME DecodeInv, CheckDesired
  PROVE  DecodeInv'
<1>1. /\ service.at = "checking"
      /\ Moves(IF service.key \in desired THEN "registering" ELSE "dropping")
      /\ UNCHANGED <<appVars, pending, desired, registered, cancelled, queue, worker,
                     results>>
  BY DEF CheckDesired, clientVars
<1>2. /\ UNCHANGED <<selections, text, main>> /\ Selected' = Selected
      /\ (FirstVisit' <=> FirstVisit) /\ Entering' = Entering
  BY <1>1, ScreenStays
<1>3. PICK to \in {"registering", "dropping"} :
        /\ Moves(to) /\ to = IF service.key \in desired THEN "registering" ELSE "dropping"
  BY <1>1
<1>4. /\ service.key \in Keys /\ InHands = {service.key} /\ Judged = {}
      /\ service' = [at |-> to, key |-> service.key]
  BY <1>1, <1>3, HoldingKey DEF DecodeInv, HoldsKey
<1>5. /\ service' \in Service /\ service'.at = to
      /\ InHands' = InHands /\ Judged' = Judged
  BY <1>4, HoldsKeyThen DEF HoldsKey
<1>6. Active' = Active /\ Jobs' = Jobs /\ Answers' = Answers
  BY <1>1, <1>5 DEF Active, Jobs, Answers
<1>7. DecodeTypeOK' /\ Asking' /\ Known'
  BY <1>1, <1>2, <1>5, <1>6 DEF DecodeInv, DecodeTypeOK, Asking, Known
<1>8. OneJobEach' /\ Flagged'
  BY <1>1, <1>2, <1>5, <1>6 DEF DecodeInv, OneJobEach, Flagged
<1>9. FirstServed'
  <2>1. Running /\ Running'
    BY <1>1, <1>5 DEF Running
  <2>2. InHands \subseteq Jobs
    BY DEF Jobs
  <2> QED
    BY <1>1, <1>2, <1>3, <1>4, <1>5, <1>6, <2>1, <2>2 DEF DecodeInv, FirstServed, Served
<1> QED
  BY <1>7, <1>8, <1>9 DEF DecodeInv

LEMMA DropJobKeeps ==
  ASSUME DecodeInv, DropJob
  PROVE  DecodeInv'
<1>1. /\ service.at = "dropping" /\ ~PendingLocked /\ service' = [at |-> "waiting"]
      /\ pending' = pending \ {service.key}
      /\ UNCHANGED <<appVars, desired, registered, cancelled, queue, worker, results>>
  BY DEF DropJob, Waits
<1>2. /\ UNCHANGED <<selections, text, main>> /\ Selected' = Selected
      /\ (FirstVisit' <=> FirstVisit) /\ Entering' = Entering
  BY <1>1, ScreenStays
<1>3. service.key \in Keys /\ InHands = {service.key} /\ Judged = {}
  BY <1>1, HoldingKey DEF DecodeInv, HoldsKey
<1>4. /\ service' \in Service /\ service'.at = "waiting"
      /\ InHands' = {} /\ Judged' = {}
  BY <1>1, HoldsNothingThen
<1>5. /\ Active' = Active /\ Answers' = Answers
      /\ service.key \in Jobs /\ Jobs' = Jobs \ {service.key}
  BY <1>1, <1>3, <1>4 DEF Active, Jobs, Answers, DecodeInv, OneJobEach
<1>6. DecodeTypeOK' /\ Asking' /\ Known'
  BY <1>1, <1>2, <1>4, <1>5 DEF DecodeInv, DecodeTypeOK, Asking, Known, OneJobEach
<1>7. OneJobEach' /\ Flagged'
  BY <1>1, <1>2, <1>4, <1>5 DEF DecodeInv, OneJobEach, Flagged
<1>8. FirstServed'
  <2>1. Running /\ Running'
    BY <1>1, <1>4 DEF Running
  <2> QED
    BY <1>1, <1>2, <1>3, <1>4, <1>5, <2>1 DEF DecodeInv, FirstServed, Served
<1> QED
  BY <1>6, <1>7, <1>8 DEF DecodeInv

LEMMA RegisterKeeps ==
  ASSUME DecodeInv, Register
  PROVE  DecodeInv'
<1>1. /\ service.at = "registering" /\ Moves("rechecking")
      /\ registered' = registered \union {service.key}
      /\ cancelled' = cancelled \ {service.key}
      /\ UNCHANGED <<appVars, pending, desired, queue, worker, results>>
  BY DEF Register
<1>2. /\ UNCHANGED <<selections, text, main>> /\ Selected' = Selected
      /\ (FirstVisit' <=> FirstVisit) /\ Entering' = Entering
  BY <1>1, ScreenStays
<1>3. /\ service.key \in Keys /\ InHands = {service.key} /\ Judged = {}
      /\ service' = [at |-> "rechecking", key |-> service.key]
  BY <1>1, HoldingKey DEF DecodeInv, HoldsKey
<1>4. /\ service' \in Service /\ service'.at = "rechecking"
      /\ InHands' = InHands /\ Judged' = Judged
  BY <1>3, HoldsKeyThen DEF HoldsKey
<1>5. Active' = Active /\ Jobs' = Jobs /\ Answers' = Answers
  BY <1>1, <1>4 DEF Active, Jobs, Answers
<1>6. /\ service.key \in pending /\ service.key \notin Active
  BY <1>3 DEF DecodeInv, OneJobEach, Jobs
<1>7. DecodeTypeOK' /\ Asking' /\ Known'
  BY <1>1, <1>2, <1>3, <1>4, <1>5, <1>6 DEF DecodeInv, DecodeTypeOK, Asking, Known
<1>8. OneJobEach'
  BY <1>1, <1>2, <1>4, <1>5 DEF DecodeInv, OneJobEach
<1>9. Flagged'
  <2>1. \A k \in Keys : worker[k] = "running" => k # service.key
    BY <1>6 DEF Active
  <2> QED
    BY <1>1, <1>2, <1>3, <1>4, <2>1 DEF DecodeInv, Flagged
<1>10. FirstServed'
  <2>1. Running /\ Running'
    BY <1>1, <1>4 DEF Running
  <2> QED
    BY <1>1, <1>2, <1>4, <1>5, <2>1 DEF DecodeInv, FirstServed, Served
<1> QED
  BY <1>7, <1>8, <1>9, <1>10 DEF DecodeInv

LEMMA RecheckKeeps ==
  ASSUME DecodeInv, Recheck
  PROVE  DecodeInv'
<1>1. /\ service.at = "rechecking" /\ service' = [at |-> "waiting"]
      /\ cancelled' = IF service.key \in desired THEN cancelled
                      ELSE cancelled \union ({service.key} \intersect registered)
      /\ worker' = [worker EXCEPT ![service.key] = "running"]
      /\ UNCHANGED <<appVars, pending, desired, registered, queue, results>>
  BY DEF Recheck, Waits
<1>2. /\ UNCHANGED <<selections, text, main>> /\ Selected' = Selected
      /\ (FirstVisit' <=> FirstVisit) /\ Entering' = Entering
  BY <1>1, ScreenStays
<1>3. service.key \in Keys /\ InHands = {service.key} /\ Judged = {}
  BY <1>1, HoldingKey DEF DecodeInv, HoldsKey
<1>4. /\ service' \in Service /\ service'.at = "waiting"
      /\ InHands' = {} /\ Judged' = {}
  BY <1>1, HoldsNothingThen
<1>5. /\ worker' \in [Keys -> {"none", "running"} \union Outcomes]
      /\ worker'[service.key] = "running"
      /\ \A k \in Keys : k # service.key => worker'[k] = worker[k]
  BY <1>1, <1>3 DEF DecodeInv, DecodeTypeOK
<1>6. Active' = Active \union {service.key}
  BY <1>3, <1>5 DEF Active
<1>7. Jobs' = Jobs /\ Answers' = Answers
  BY <1>1, <1>3, <1>4, <1>6 DEF Jobs, Answers
<1>8. /\ service.key \in registered /\ service.key \notin Range(queue)
      /\ service.key \in Jobs
  BY <1>1, <1>3 DEF DecodeInv, Flagged, OneJobEach, Jobs
<1>9. DecodeTypeOK' /\ Asking' /\ Known'
  BY <1>1, <1>2, <1>4, <1>5, <1>7, <1>8 DEF DecodeInv, DecodeTypeOK, Asking, Known
<1>10. OneJobEach'
  BY <1>1, <1>2, <1>3, <1>4, <1>6, <1>7, <1>8 DEF DecodeInv, OneJobEach
<1>11. Flagged'
  BY <1>1, <1>2, <1>4, <1>5, <1>8 DEF DecodeInv, Flagged
<1>12. ASSUME selections # <<>>, FirstVisit PROVE Served'
  <2>1. Served /\ Selected \in Keys
    BY <1>12 DEF DecodeInv, FirstServed, DecodeTypeOK, Selected, Last
  <2>2. Running /\ Running'
    BY <1>1, <1>4 DEF Running
  <2>3. Selected \notin cancelled' /\ worker'[Selected] # "cancelled"
    BY <1>1, <1>5, <1>8, <2>1, <2>2 DEF Served
  <2> QED
    BY <1>1, <1>2, <1>4, <1>7, <2>1, <2>2, <2>3 DEF Served
<1> QED
  BY <1>1, <1>2, <1>9, <1>10, <1>11, <1>12 DEF DecodeInv, FirstServed

LEMMA WorkerEndsKeeps ==
  ASSUME DecodeInv, NEW k \in Keys, WorkerEnds(k)
  PROVE  DecodeInv'
<1>1. PICK outcome \in IF k \in cancelled THEN Outcomes ELSE {"text"} :
        worker' = [worker EXCEPT ![k] = outcome]
  BY DEF WorkerEnds
<1>2. /\ worker[k] = "running"
      /\ UNCHANGED <<appVars, pending, desired, registered, cancelled, queue, service,
                     results>>
  BY DEF WorkerEnds, clientVars
<1>3. /\ UNCHANGED <<selections, text, main>> /\ Selected' = Selected
      /\ (FirstVisit' <=> FirstVisit) /\ Entering' = Entering
  BY <1>2, ScreenStays
<1>4. outcome \in Outcomes /\ (outcome = "cancelled" => k \in cancelled)
  BY <1>1 DEF Outcomes
<1>5. /\ worker' \in [Keys -> {"none", "running"} \union Outcomes]
      /\ worker'[k] = outcome /\ \A j \in Keys : j # k => worker'[j] = worker[j]
  BY <1>1, <1>4 DEF DecodeInv, DecodeTypeOK
<1>6. Active' = Active
  BY <1>2, <1>4, <1>5 DEF Active, Outcomes
<1>7. InHands' = InHands /\ Judged' = Judged /\ Jobs' = Jobs /\ Answers' = Answers
  BY <1>2, <1>6, ServiceStays DEF Jobs, Answers
<1>8. DecodeTypeOK' /\ Asking' /\ Known'
  BY <1>2, <1>3, <1>5, <1>7 DEF DecodeInv, DecodeTypeOK, Asking, Known
<1>9. OneJobEach'
  BY <1>2, <1>3, <1>6, <1>7 DEF DecodeInv, OneJobEach
<1>10. Flagged'
  BY <1>2, <1>3, <1>4, <1>5, <1>6, <1>7 DEF DecodeInv, Flagged, Outcomes
<1>11. ASSUME selections # <<>>, FirstVisit PROVE Served'
  <2>1. Served /\ Selected \in Keys
    BY <1>11 DEF DecodeInv, FirstServed, DecodeTypeOK, Selected, Last
  <2>2. Running' <=> Running
    BY <1>2 DEF Running
  <2>3. Running => worker'[Selected] # "cancelled"
    BY <1>4, <1>5, <2>1 DEF Served
  <2> QED
    BY <1>2, <1>3, <1>7, <2>1, <2>2, <2>3 DEF Served
<1> QED
  BY <1>2, <1>3, <1>8, <1>9, <1>10, <1>11 DEF DecodeInv, FirstServed

LEMMA JoinKeeps ==
  ASSUME DecodeInv, NEW k \in Keys, Join(k)
  PROVE  DecodeInv'
<1>1. PICK r \in Results : r = [key |-> k, outcome |-> worker[k]]
  BY DEF Join, Results
<1>2. /\ service.at = "waiting" /\ worker[k] \in Outcomes
      /\ worker' = [worker EXCEPT ![k] = "none"]
      /\ service' = [at |-> "forgetting", result |-> r]
      /\ r.key = k /\ r.outcome = worker[k]
      /\ UNCHANGED <<appVars, pending, desired, registered, cancelled, queue, results>>
  BY <1>1 DEF Join, clientVars
<1>3. /\ UNCHANGED <<selections, text, main>> /\ Selected' = Selected
      /\ (FirstVisit' <=> FirstVisit) /\ Entering' = Entering
  BY <1>2, ScreenStays
<1>4. InHands = {} /\ Judged = {}
  BY <1>2, HoldingNothing
<1>5. /\ service' \in Service /\ service'.at = "forgetting"
      /\ InHands' = {k} /\ Judged' = {r}
  BY <1>2, HoldsResultThen DEF HoldsResult
<1>6. /\ worker' \in [Keys -> {"none", "running"} \union Outcomes]
      /\ worker'[k] = "none" /\ \A j \in Keys : j # k => worker'[j] = worker[j]
  BY <1>2 DEF DecodeInv, DecodeTypeOK
<1>7. k \in Active /\ Active' = Active \ {k}
  BY <1>2, <1>6 DEF Active, Outcomes
<1>8. Jobs' = Jobs /\ k \in Jobs /\ Answers' = Answers \union {r}
  BY <1>2, <1>4, <1>5, <1>7 DEF Jobs, Answers
<1>9. k \in pending /\ k \notin Range(queue)
  BY <1>7, <1>8 DEF DecodeInv, OneJobEach
<1>10. DecodeTypeOK' /\ Asking' /\ Known'
  BY <1>2, <1>3, <1>5, <1>6, <1>8, <1>9 DEF DecodeInv, DecodeTypeOK, Asking, Known
<1>11. OneJobEach'
  BY <1>2, <1>3, <1>5, <1>7, <1>8, <1>9 DEF DecodeInv, OneJobEach
<1>12. Flagged'
  BY <1>2, <1>3, <1>5, <1>6 DEF DecodeInv, Flagged
<1>13. ASSUME selections # <<>>, FirstVisit PROVE Served'
  <2>1. Served /\ Selected \in Keys
    BY <1>13 DEF DecodeInv, FirstServed, DecodeTypeOK, Selected, Last
  <2>2. Running /\ Running'
    BY <1>2, <1>5 DEF Running
  <2>3. k = Selected => r.outcome = "text"
    BY <1>2, <2>1, <2>2 DEF Served, Outcomes
  <2>4. worker'[Selected] # "cancelled"
    BY <1>6, <2>1, <2>2 DEF Served
  <2> QED
    BY <1>2, <1>3, <1>5, <1>8, <2>1, <2>2, <2>3, <2>4 DEF Served
<1> QED
  BY <1>2, <1>3, <1>10, <1>11, <1>12, <1>13 DEF DecodeInv, FirstServed

LEMMA ForgetKeeps ==
  ASSUME DecodeInv, Forget
  PROVE  DecodeInv'
<1>1. /\ service.at = "forgetting" /\ Moves("unregistering")
      /\ pending' = pending \ {service.result.key}
      /\ UNCHANGED <<appVars, desired, registered, cancelled, queue, worker, results>>
  BY DEF Forget
<1>2. /\ UNCHANGED <<selections, text, main>> /\ Selected' = Selected
      /\ (FirstVisit' <=> FirstVisit) /\ Entering' = Entering
  BY <1>1, ScreenStays
<1>3. PICK r \in Results :
        /\ r = service.result /\ r.key \in Keys /\ Judged = {r} /\ InHands = {r.key}
        /\ service' = [at |-> "unregistering", result |-> r]
  BY <1>1, HoldingResult DEF DecodeInv, HoldsResult
<1>4. /\ service' \in Service /\ service'.at = "unregistering"
      /\ Judged' = {r} /\ InHands' = {}
  BY <1>3, HoldsResultThen DEF HoldsResult
<1>5. /\ Active' = Active /\ Answers' = Answers /\ r \in Answers
      /\ r.key \in Jobs /\ Jobs' = Jobs \ {r.key} /\ r.key \notin Active
  BY <1>1, <1>3, <1>4 DEF Active, Jobs, Answers, DecodeInv, OneJobEach
<1>6. DecodeTypeOK' /\ Asking' /\ Known'
  BY <1>1, <1>2, <1>3, <1>4, <1>5 DEF DecodeInv, DecodeTypeOK, Asking, Known, OneJobEach
<1>7. OneJobEach' /\ Flagged'
  BY <1>1, <1>2, <1>3, <1>4, <1>5 DEF DecodeInv, OneJobEach, Flagged
<1>8. FirstServed'
  <2>1. Running /\ Running'
    BY <1>1, <1>4 DEF Running
  <2> QED
    BY <1>1, <1>2, <1>3, <1>4, <1>5, <2>1 DEF DecodeInv, FirstServed, Served
<1> QED
  BY <1>6, <1>7, <1>8 DEF DecodeInv

LEMMA UnregisterJoinedKeeps ==
  ASSUME DecodeInv, UnregisterJoined
  PROVE  DecodeInv'
<1>1. /\ service.at = "unregistering" /\ Moves("judging")
      /\ registered' = registered \ {service.result.key}
      /\ cancelled' = cancelled \ {service.result.key}
      /\ UNCHANGED <<appVars, pending, desired, queue, worker, results>>
  BY DEF UnregisterJoined, Unregister
<1>2. /\ UNCHANGED <<selections, text, main>> /\ Selected' = Selected
      /\ (FirstVisit' <=> FirstVisit) /\ Entering' = Entering
  BY <1>1, ScreenStays
<1>3. PICK r \in Results :
        /\ r = service.result /\ Judged = {r} /\ InHands = {}
        /\ service' = [at |-> "judging", result |-> r]
  BY <1>1, HoldingResult DEF DecodeInv, HoldsResult
<1>4. /\ service' \in Service /\ service'.at = "judging"
      /\ Judged' = {r} /\ InHands' = {}
  BY <1>3, HoldsResultThen DEF HoldsResult
<1>5. /\ Active' = Active /\ Answers' = Answers /\ Jobs' = Jobs
  BY <1>1, <1>3, <1>4 DEF Active, Jobs, Answers
<1>6. DecodeTypeOK' /\ Asking' /\ Known'
  BY <1>1, <1>2, <1>4, <1>5 DEF DecodeInv, DecodeTypeOK, Asking, Known
<1>7. OneJobEach'
  BY <1>1, <1>2, <1>3, <1>4, <1>5 DEF DecodeInv, OneJobEach
<1>8. Flagged'
  <2>1. \A k \in Keys : worker[k] = "running" => k # r.key
    BY <1>1, <1>3 DEF DecodeInv, Flagged, Active
  <2> QED
    BY <1>1, <1>2, <1>3, <1>4, <2>1 DEF DecodeInv, Flagged
<1>9. FirstServed'
  <2>1. Running /\ Running'
    BY <1>1, <1>4 DEF Running
  <2> QED
    BY <1>1, <1>2, <1>3, <1>4, <1>5, <2>1 DEF DecodeInv, FirstServed, Served
<1> QED
  BY <1>6, <1>7, <1>8, <1>9 DEF DecodeInv

LEMMA JudgeKeeps ==
  ASSUME DecodeInv, Judge
  PROVE  DecodeInv'
<1>1. /\ service.at = "judging"
      /\ IF service.result.key \in desired THEN Moves("delivering")
         ELSE service' = [at |-> "waiting"]
      /\ UNCHANGED <<appVars, pending, desired, registered, cancelled, queue, worker,
                     results>>
  BY DEF Judge, Waits, clientVars
<1>2. /\ UNCHANGED <<selections, text, main>> /\ Selected' = Selected
      /\ (FirstVisit' <=> FirstVisit) /\ Entering' = Entering
  BY <1>1, ScreenStays
<1>3. PICK r \in Results :
        /\ r = service.result /\ Judged = {r} /\ InHands = {}
        /\ Moves("delivering") => service' = [at |-> "delivering", result |-> r]
  BY <1>1, HoldingResult DEF DecodeInv, HoldsResult
<1>4. /\ service' \in Service /\ InHands' = {}
      /\ \/ r.key \in desired /\ service'.at = "delivering" /\ Judged' = {r}
         \/ r.key \notin desired /\ service'.at = "waiting" /\ Judged' = {}
  <2>1. CASE r.key \in desired
    BY <1>1, <1>3, <2>1, HoldsResultThen DEF HoldsResult
  <2>2. CASE r.key \notin desired
    BY <1>1, <1>3, <2>2, HoldsNothingThen
  <2> QED BY <2>1, <2>2
<1>5. /\ Active' = Active /\ Jobs' = Jobs /\ Answers' \subseteq Answers
      /\ r.key \in desired => Answers' = Answers
      /\ \A a \in Answers : a = r \/ a \in Answers'
  BY <1>1, <1>3, <1>4 DEF Active, Jobs, Answers
<1>6. DecodeTypeOK' /\ Asking' /\ Known'
  BY <1>1, <1>2, <1>4, <1>5 DEF DecodeInv, DecodeTypeOK, Asking, Known
<1>7. OneJobEach' /\ Flagged'
  BY <1>1, <1>2, <1>3, <1>4, <1>5 DEF DecodeInv, OneJobEach, Flagged
<1>8. FirstServed'
  <2>1. Running /\ Running'
    BY <1>1, <1>4 DEF Running
  <2> QED
    BY <1>1, <1>2, <1>3, <1>4, <1>5, <2>1 DEF DecodeInv, FirstServed, Served
<1> QED
  BY <1>6, <1>7, <1>8 DEF DecodeInv

LEMMA DeliverKeeps ==
  ASSUME DecodeInv, Deliver
  PROVE  DecodeInv'
<1>1. /\ service.at = "delivering" /\ Len(results) < QueueCapacity
      /\ results' = Append(results, service.result) /\ service' = [at |-> "waiting"]
      /\ UNCHANGED <<appVars, pending, desired, registered, cancelled, queue, worker>>
  BY DEF Deliver, Waits, clientVars
<1>2. /\ UNCHANGED <<selections, text, main>> /\ Selected' = Selected
      /\ (FirstVisit' <=> FirstVisit) /\ Entering' = Entering
  BY <1>1, ScreenStays
<1>3. PICK r \in Results : r = service.result /\ Judged = {r} /\ InHands = {}
  BY <1>1, HoldingResult DEF DecodeInv, HoldsResult
<1>4. /\ service' \in Service /\ service'.at = "waiting" /\ InHands' = {} /\ Judged' = {}
  BY <1>1, HoldsNothingThen
<1>5. /\ results' \in Seq(Results) /\ Len(results') = Len(results) + 1
      /\ Range(results') = Range(results) \union {r}
  BY <1>1, <1>3, RangeGrows DEF DecodeInv, DecodeTypeOK
<1>6. Active' = Active /\ Jobs' = Jobs /\ Answers' = Answers
  BY <1>1, <1>3, <1>4, <1>5 DEF Active, Jobs, Answers
<1>7. DecodeTypeOK'
  BY <1>1, <1>2, <1>4, <1>5, DecodeAssumption DEF DecodeInv, DecodeTypeOK
<1>8. Asking' /\ Known'
  BY <1>1, <1>2, <1>6 DEF DecodeInv, Asking, Known
<1>9. OneJobEach' /\ Flagged'
  BY <1>1, <1>2, <1>3, <1>4, <1>6 DEF DecodeInv, OneJobEach, Flagged
<1>10. FirstServed'
  <2>1. Running /\ Running'
    BY <1>1, <1>4 DEF Running
  <2> QED
    BY <1>1, <1>2, <1>3, <1>4, <1>6, <2>1 DEF DecodeInv, FirstServed, Served
<1> QED
  BY <1>7, <1>8, <1>9, <1>10 DEF DecodeInv

LEMMA ShutDownKeeps ==
  ASSUME DecodeInv, ShutDown
  PROVE  DecodeInv'
<1>1. /\ service.at \in {"waiting", "delivering"} /\ service' = [at |-> "draining"]
      /\ cancelled' = registered
      /\ UNCHANGED <<appVars, pending, desired, registered, queue, worker, results>>
  BY DEF ShutDown
<1>2. /\ UNCHANGED <<selections, text, main>> /\ Selected' = Selected
      /\ (FirstVisit' <=> FirstVisit) /\ Entering' = Entering
  BY <1>1, ScreenStays
<1>3. InHands = {}
  BY <1>1 DEF InHands, HoldsKey
<1>4. /\ service' \in Service /\ service'.at = "draining" /\ InHands' = {} /\ Judged' = {}
  BY <1>1, HoldsNothingThen
<1>5. Active' = Active /\ Jobs' = Jobs /\ Answers' \subseteq Answers
  BY <1>1, <1>3, <1>4 DEF Active, Jobs, Answers
<1>6. DecodeTypeOK' /\ Asking' /\ Known'
  BY <1>1, <1>2, <1>4, <1>5 DEF DecodeInv, DecodeTypeOK, Asking, Known
<1>7. OneJobEach' /\ Flagged'
  BY <1>1, <1>2, <1>3, <1>4, <1>5 DEF DecodeInv, OneJobEach, Flagged
<1>8. FirstServed'
  BY <1>1, <1>2, <1>4, <1>5 DEF DecodeInv, FirstServed, Served, Running
<1> QED
  BY <1>6, <1>7, <1>8 DEF DecodeInv

LEMMA DrainKeeps ==
  ASSUME DecodeInv, Drain
  PROVE  DecodeInv'
<1>1. /\ service.at = "draining" /\ service' = [at |-> "stopped"]
      /\ worker' = [k \in Keys |-> "none"]
      /\ UNCHANGED <<appVars, pending, desired, registered, cancelled, queue, results>>
  BY DEF Drain, clientVars
<1>2. /\ UNCHANGED <<selections, text, main>> /\ Selected' = Selected
      /\ (FirstVisit' <=> FirstVisit) /\ Entering' = Entering
  BY <1>1, ScreenStays
<1>3. InHands = {} /\ Judged = {}
  BY <1>1, HoldingNothing
<1>4. /\ service' \in Service /\ service'.at = "stopped" /\ InHands' = {} /\ Judged' = {}
  BY <1>1, HoldsNothingThen
<1>5. Active' = {} /\ Jobs' \subseteq Jobs /\ Answers' = Answers
  BY <1>1, <1>3, <1>4 DEF Active, Jobs, Answers
<1>6. DecodeTypeOK' /\ Asking' /\ Known'
  BY <1>1, <1>2, <1>4, <1>5 DEF DecodeInv, DecodeTypeOK, Asking, Known
<1>7. OneJobEach' /\ Flagged'
  BY <1>1, <1>2, <1>3, <1>4, <1>5 DEF DecodeInv, OneJobEach, Flagged
<1>8. FirstServed'
  BY <1>1, <1>2, <1>4, <1>5 DEF DecodeInv, FirstServed, Served, Running
<1> QED
  BY <1>6, <1>7, <1>8 DEF DecodeInv

(***************************************************************************)
(* The invariant, and what it says of jobs and of first visits.            *)
(***************************************************************************)
LEMMA DecodeStarts == DecodeInit => DecodeInv
<1> SUFFICES ASSUME DecodeInit PROVE DecodeInv
  OBVIOUS
<1>1. /\ Range(queue) = {} /\ Range(results) = {} /\ Range(selections) = {}
      /\ IsInjective(queue)
  BY DEF DecodeInit, Range, IsInjective
<1>2. InHands = {} /\ Judged = {}
  BY HoldingNothing DEF DecodeInit
<1>3. Active = {} /\ Entering = {}
  BY DEF DecodeInit, Active, Entering
<1>4. Jobs = {} /\ Answers = {}
  BY <1>1, <1>2, <1>3 DEF Jobs, Answers
<1>5. DecodeTypeOK
  BY DecodeAssumption DEF DecodeInit, DecodeTypeOK, Texts, MainSteps, Service, Outcomes
<1> QED
  BY <1>1, <1>2, <1>3, <1>4, <1>5
     DEF DecodeInit, DecodeInv, Asking, OneJobEach, Flagged, Known, FirstServed

LEMMA DecodeStutters ==
  ASSUME DecodeInv, UNCHANGED decodeVars
  PROVE  DecodeInv'
<1>1. UNCHANGED <<appVars, pending, desired, registered, cancelled, queue, service,
                  worker, results>>
  BY DEF decodeVars, clientVars
<1>2. /\ UNCHANGED <<selections, text, main>> /\ Selected' = Selected
      /\ (FirstVisit' <=> FirstVisit) /\ Entering' = Entering
  BY <1>1, ScreenStays
<1>3. /\ InHands' = InHands /\ Judged' = Judged /\ Active' = Active /\ Jobs' = Jobs
      /\ Answers' = Answers /\ (Running' <=> Running)
  BY <1>1, ServiceStays DEF Active, Jobs, Answers, Running
<1>4. DecodeTypeOK' /\ Asking' /\ Known'
  BY <1>1, <1>2, <1>3 DEF DecodeInv, DecodeTypeOK, Asking, Known
<1>5. OneJobEach' /\ Flagged' /\ FirstServed'
  BY <1>1, <1>2, <1>3 DEF DecodeInv, OneJobEach, Flagged, FirstServed, Served
<1> QED
  BY <1>4, <1>5 DEF DecodeInv

LEMMA DecodeStep ==
  ASSUME DecodeInv, DecodeNext
  PROVE  DecodeInv'
<1>1. CASE \E k \in Keys : Select(k) \/ WorkerEnds(k)
  BY <1>1, SelectKeeps, WorkerEndsKeeps
<1>2. CASE MainStep
  BY <1>2, RequestKeeps, DesireKeeps, CancelOthersKeeps, SendKeeps, RejectKeeps,
     RejectEndsKeeps, ReceiveKeeps DEF MainStep
<1>3. CASE ServiceStep
  BY <1>3, TakeJobKeeps, CheckDesiredKeeps, DropJobKeeps, RegisterKeeps, RecheckKeeps,
     JoinKeeps, ForgetKeeps, UnregisterJoinedKeeps, JudgeKeeps, DeliverKeeps,
     ShutDownKeeps, DrainKeeps
     DEF ServiceStep
<1>4. CASE Leave
  BY <1>4, LeaveKeeps
<1> QED
  BY <1>1, <1>2, <1>3, <1>4 DEF DecodeNext

\* A key without repetitions in the queue is there once or not at all.
LEMMA QueuedOnce ==
  ASSUME DecodeInv, NEW k
  PROVE  Cardinality({i \in DOMAIN queue : queue[i] = k})
           = IF k \in Range(queue) THEN 1 ELSE 0
<1>1. CASE k \notin Range(queue)
  <2>1. {i \in DOMAIN queue : queue[i] = k} = {}
    BY <1>1 DEF Range
  <2> QED BY <1>1, <2>1, FS_EmptySet
<1>2. CASE k \in Range(queue)
  <2>1. PICK j \in DOMAIN queue : queue[j] = k
    BY <1>2 DEF Range
  <2>2. {i \in DOMAIN queue : queue[i] = k} = {j}
    BY <2>1 DEF DecodeInv, OneJobEach, IsInjective
  <2> QED BY <1>2, <2>2, FS_Singleton
<1> QED BY <1>1, <1>2

LEMMA JobsAreCounted ==
  ASSUME DecodeInv, NEW k \in Keys
  PROVE  JobsOf(k) = IF k \in Jobs THEN 1 ELSE 0
<1> DEFINE held == IF service.at \in HoldsKey /\ service.key = k THEN 1 ELSE 0
           joined == IF service.at = "forgetting" /\ service.result.key = k
                     THEN 1 ELSE 0
           queued == Cardinality({i \in DOMAIN queue : queue[i] = k})
           at == IF worker[k] # "none" THEN 1 ELSE 0
<1>1. queued = IF k \in Range(queue) THEN 1 ELSE 0
  BY QueuedOnce
<1>2. held + joined = IF k \in InHands THEN 1 ELSE 0
  BY DEF InHands, HoldsKey
<1>3. at = IF k \in Active THEN 1 ELSE 0
  BY DEF Active
<1>4. held \in {0, 1} /\ joined \in {0, 1} /\ at \in {0, 1} /\ queued \in {0, 1}
  BY <1>1
<1>5. JobsOf(k) = queued + held + at + joined
  BY DEF JobsOf
<1>6. /\ ~(k \in Range(queue) /\ k \in InHands)
      /\ ~(k \in Range(queue) /\ k \in Active) /\ ~(k \in InHands /\ k \in Active)
      /\ k \in Jobs <=> k \in Range(queue) \/ k \in InHands \/ k \in Active
  BY DEF DecodeInv, OneJobEach, Jobs
<1> HIDE DEF held, joined, at, queued
<1> QED
  BY <1>1, <1>2, <1>3, <1>4, <1>5, <1>6

LEMMA JobsFollow == DecodeInv => JobsAreWanted
<1> SUFFICES ASSUME DecodeInv PROVE JobsAreWanted
  OBVIOUS
<1>1. ASSUME Running, NEW k \in Keys
      PROVE  JobsOf(k) = IF k \in pending \ Entering THEN 1 ELSE 0
  <2>1. k \in Jobs <=> k \in pending \ Entering
    BY <1>1 DEF DecodeInv, OneJobEach, Running
  <2> QED BY <2>1, JobsAreCounted
<1>2. SupersededAreCancelled
  BY DEF DecodeInv, Flagged, SupersededAreCancelled
<1> QED BY <1>1, <1>2 DEF JobsAreWanted, PendingIsTheJobs

LEMMA FirstVisitsAreServed == DecodeInv => FirstVisitIsDecoded
<1> SUFFICES ASSUME DecodeInv, selections # <<>>, FirstVisit
    PROVE  /\ text # "cancelled"
           /\ Running /\ main = "ready" /\ text = "pending" => AnswerUnderWay({"text"})
  BY DEF FirstVisitIsDecoded
<1>1. Served
  BY DEF DecodeInv, FirstServed
<1>2. ASSUME Running, main = "ready", text = "pending"
      PROVE  AnswerUnderWay({"text"})
  <2>1. worker[Selected] # "cancelled"
    BY <1>1, <1>2 DEF Served
  <2>2. CASE Selected \in pending
    BY <2>1, <2>2 DEF AnswerUnderWay
  <2>3. CASE \E r \in Answers : r.key = Selected
    <3>1. PICK r \in Answers : r.key = Selected /\ r.outcome = "text"
      BY <1>1, <2>3 DEF Served
    <3>2. \/ service.at \in HoldsResult /\ service.result = r
          \/ \E i \in DOMAIN results : results[i] = r
      BY <3>1 DEF Answers, Judged, Range
    <3> QED BY <3>1, <3>2 DEF AnswerUnderWay
  <2> QED BY <1>1, <1>2, <2>2, <2>3 DEF Served
<1> QED BY <1>1, <1>2 DEF Served

\* At every moment each pending key has exactly one job, in the channel, in the
\* hands of the service or with a worker, and of a body on its first visit
\* nothing was cancelled, dropped or discarded.
THEOREM DecodeInvariant == DecodeSpec => []DecodeInv
<1>1. DecodeInv /\ [DecodeNext]_decodeVars => DecodeInv'
  BY DecodeStep, DecodeStutters
<1> QED
  BY <1>1, DecodeStarts, PTL DEF DecodeSpec

\* What is decoded is what the user looks at, and it gets there: in whatever
\* order the service drops, registers, joins and forgets while the application
\* repeats, sends and rejects.
THEOREM DecodesWhatIsSelected == DecodeSpec => []DecodingFollowsTheUser
<1>1. DecodeInv => DecodingFollowsTheUser
  BY JobsFollow, FirstVisitsAreServed DEF DecodingFollowsTheUser
<1> QED
  BY <1>1, DecodeInvariant, PTL
=============================================================================
