----------------------------- MODULE ChangeFeed -----------------------------
(***************************************************************************)
(* The capture change feed of src/capture/change.rs: a ring of the last    *)
(* changes under a mutex, and a watch channel that wakes the subscribers.  *)
(*                                                                         *)
(* publish inserts a change in the ring, releases the mutex, and only then *)
(* touches the watch channel, so two publishers may announce their changes *)
(* in the opposite order, and a subscriber may read a change before, or    *)
(* go to sleep after, its announcement.  subscribe reads the epoch and     *)
(* joins the watch channel in two steps as well.                           *)
(***************************************************************************)
EXTENDS Integers, Sequences

CONSTANTS
  Publishers,   \* the threads that publish: one per record at a time
  Subscribers,  \* the tasks that follow the feed
  Changes,      \* what a change says
  Retained,     \* RETAINED_CHANGES
  MaxEpoch      \* bound: changes published

ASSUME FeedAssumption == Retained \in Nat \ {0} /\ MaxEpoch \in Nat

VARIABLES
  epoch,      \* ChangeState.epoch
  ring,       \* ChangeState.retained
  version,    \* how often the watch channel was written
  announcing, \* the publishers between unlock and send_replace
  sub,        \* the subscriptions: task position, next_epoch, version seen
  published   \* every change so far (history)

vars == <<epoch, ring, version, announcing, sub, published>>

Positions == {"none", "joining", "reading", "waiting", "gap"}

Entry == [epoch: Nat, change: Changes]

TypeOK ==
  /\ epoch \in Nat /\ version \in Nat
  /\ ring \in Seq(Entry)
  /\ announcing \subseteq Publishers
  /\ sub \in [Subscribers -> [at: Positions, next: 0..(MaxEpoch + 1), seen: Nat]]
  /\ published \in Seq(Changes)

Init ==
  /\ epoch = 0 /\ version = 0
  /\ ring = <<>>
  /\ announcing = {}
  /\ sub = [s \in Subscribers |-> [at |-> "none", next |-> 0, seen |-> 0]]
  /\ published = <<>>

(***************************************************************************)
(* publish                                                                 *)
(***************************************************************************)
InsertSilently(p, c) ==
  /\ p \notin announcing /\ epoch < MaxEpoch
  /\ epoch' = epoch + 1
  /\ ring' = Append(IF Len(ring) = Retained THEN Tail(ring) ELSE ring,
                    [epoch |-> epoch + 1, change |-> c])
  /\ published' = Append(published, c)
  /\ announcing' = IF Len(ring) = Retained THEN announcing
                                          ELSE announcing \union {p}
  /\ UNCHANGED <<version, sub>>

Insert(p, c) ==
  /\ p \notin announcing /\ epoch < MaxEpoch
  /\ epoch' = epoch + 1
  /\ ring' = Append(IF Len(ring) = Retained THEN Tail(ring) ELSE ring,
                    [epoch |-> epoch + 1, change |-> c])
  /\ published' = Append(published, c)
  /\ announcing' = announcing \union {p}
  /\ UNCHANGED <<version, sub>>

\* epoch_tx.send_replace
Announce(p) ==
  /\ p \in announcing
  /\ version' = version + 1
  /\ announcing' = announcing \ {p}
  /\ UNCHANGED <<epoch, ring, sub, published>>

(***************************************************************************)
(* subscribe, recv and try_recv                                            *)
(***************************************************************************)
Subscriber == UNCHANGED <<epoch, ring, version, announcing, published>>

Subscribe(s) ==
  /\ Subscriber
  /\ sub[s].at = "none"
  /\ sub' = [sub EXCEPT ![s] = [at |-> "joining", next |-> epoch + 1,
                                seen |-> 0]]

\* epoch_tx.subscribe() has seen the version it finds.
JoinWatchAndWait(s) ==
  /\ Subscriber
  /\ sub[s].at = "joining"
  /\ sub' = [sub EXCEPT ![s] = [at |-> "waiting", next |-> @.next,
                                seen |-> version]]

JoinWatch(s) ==
  /\ Subscriber
  /\ sub[s].at = "joining"
  /\ sub' = [sub EXCEPT ![s] = [at |-> "reading", next |-> @.next,
                                seen |-> version]]

\* What try_read does to a subscription at position next.
Advanced(next) == next + 1

\* try_read, under the mutex: a gap, the next change, or nothing new; recv
\* then awaits the watch channel.
TryReadOldest(s) ==
  LET next == IF ring # <<>> /\ sub[s].next < Head(ring).epoch
                THEN Head(ring).epoch ELSE sub[s].next
  IN
  /\ Subscriber
  /\ sub[s].at = "reading"
  /\ sub' = IF ring # <<>> /\ next <= epoch
              THEN [sub EXCEPT ![s].next =
                      Advanced(ring[next - Head(ring).epoch + 1].epoch)]
              ELSE [sub EXCEPT ![s].at = "waiting"]

TryRead(s) ==
  LET next == sub[s].next
  IN
  /\ Subscriber
  /\ sub[s].at = "reading"
  /\ sub' = IF ring # <<>> /\ next < Head(ring).epoch
              THEN [sub EXCEPT ![s].at = "gap"]
            ELSE IF ring # <<>> /\ next <= epoch
              THEN [sub EXCEPT ![s].next =
                      Advanced(ring[next - Head(ring).epoch + 1].epoch)]
              ELSE [sub EXCEPT ![s].at = "waiting"]

\* epoch_rx.changed(): at once when the version moved since it was last seen.
Wake(s) ==
  /\ Subscriber
  /\ sub[s].at = "waiting" /\ sub[s].seen # version
  /\ sub' = [sub EXCEPT ![s] = [at |-> "reading", next |-> @.next,
                                seen |-> version]]

\* The task ends or drops the subscription and may subscribe anew.
Unsubscribe(s) ==
  /\ Subscriber
  /\ sub[s].at # "none"
  /\ sub' = [sub EXCEPT ![s] = [at |-> "none", next |-> 0, seen |-> 0]]

Next ==
  \/ \E p \in Publishers : Announce(p) \/ \E c \in Changes : Insert(p, c)
  \/ \E s \in Subscribers :
       \/ Subscribe(s) \/ JoinWatch(s) \/ TryRead(s) \/ Wake(s)
       \/ Unsubscribe(s)

Spec == Init /\ [][Next]_vars

\* publish runs to its end, and the runtime polls a task that was woken.
FairSpec ==
  /\ Spec
  /\ \A p \in Publishers : WF_vars(Announce(p))
  /\ \A s \in Subscribers : WF_vars(JoinWatch(s) \/ TryRead(s) \/ Wake(s))

(***************************************************************************)
(* Properties.                                                             *)
(***************************************************************************)

\* The ring holds the latest changes without a hole, so that try_read may
\* compute an index from the epoch of the oldest.
RingIsSuffix ==
  /\ Len(published) = epoch
  /\ Len(ring) = IF epoch < Retained THEN epoch ELSE Retained
  /\ \A i \in 1..Len(ring) :
       /\ ring[i].epoch = epoch - Len(ring) + i
       /\ ring[i].change = published[ring[i].epoch]

\* No lost wakeup: a subscriber that sleeps while there is something to read
\* will find the watch channel changed, now or when the publisher that is
\* about to announce gets there.
NoLostWakeup ==
  \A s \in Subscribers :
    sub[s].at = "waiting" /\ sub[s].next <= epoch =>
      sub[s].seen # version \/ announcing # {}

\* Every subscriber reads the log in order and without a hole, or is told of
\* the gap: the feed implements ChangeLog.
Log == INSTANCE ChangeLog WITH
  log <- published,
  place <- [s \in Subscribers |-> sub[s].next],
  lost <- {s \in Subscribers : sub[s].at = "gap"}

ImplementsLog == Log!logSpec

\* A subscriber that stays gets to the end of the log, however the
\* announcements are ordered.
CatchesUp ==
  \A s \in Subscribers :
    sub[s].at # "none" ~>
      sub[s].next = epoch + 1 \/ sub[s].at \in {"gap", "none"}
=============================================================================
