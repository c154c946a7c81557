------------------------- MODULE CaptureWorld_proofs -------------------------
(***************************************************************************)
(* Proofs about CaptureWorld, CaptureWait, BodyJobs and CaptureSearch: the *)
(* world announces its records as RecordView promises, a wait that scans   *)
(* the store in batches while the store changes overlooks no match and no  *)
(* loss of one, the body jobs are charged for what they do and cache       *)
(* nothing stale that is not about to go, and the pages of a search miss   *)
(* nothing that has matched all along.                                     *)
(***************************************************************************)
EXTENDS CaptureSearch, BodyJobs, Sums

(***************************************************************************)
(* The world: what the log says of a record is what the store holds.       *)
(***************************************************************************)
Where(c) == store[c].place

LastWord(c, i) ==
  /\ i \in 1..Len(log) /\ log[i].capture = c /\ log[i].revision = Shown(c).revision
  /\ \A j \in 1..Len(log) : j > i => log[j].capture # c

Told(c) ==
  /\ Where(c) = "new" => \A i \in 1..Len(log) : log[i].capture # c
  /\ Where(c) = "stored" => \E i : LastWord(c, i) /\ log[i].kind \notin Removals
  /\ Where(c) = "gone" => \E i : LastWord(c, i) /\ log[i].kind \in Removals
  /\ \A i \in 1..Len(log) :
       log[i].capture = c /\ log[i].kind \in Removals => Where(c) = "gone"

RemovingStored ==
  /\ \A r \in removing : Stored(r.capture)
  /\ \A r, q \in removing : r.capture = q.capture => r = q

WorldInv == WorldTypeOK /\ RemovingStored /\ \A c \in Captures : Told(c)

(***************************************************************************)
(* A wait.                                                                 *)
(***************************************************************************)
Scanning == {"entering", "compiling", "describing", "admitting", "asking", "scanning"}
Active == Scanning \cup {"following", "materializing", "readmitting", "inspecting"}

CallT == [at: Progress, wants: Wanted, next: Nat, below: SUBSET Captures,
          older: BOOLEAN, memory: [Captures -> Remembered],
          seen: SUBSET [capture: Captures, shown: Snapshot],
          running: BOOLEAN, answer: Answers]

\* The subscription lies inside the log, and what a call has at each step.
Placed(call) ==
  /\ call.at \in Active => call.next \in 1..(Len(log) + 1)
  /\ call.at = "materializing" => call.next - 1 \in 1..Len(log)
  /\ call.at \notin {"admitting", "asking", "scanning"} => call.below = {}
  /\ call.at \notin {"scanning", "readmitting", "inspecting"} => call.seen = {}
  /\ call.older => call.at = "scanning"
  /\ call.at \notin Active => \A c \in Captures : call.memory[c] = Nothing

\* The three ways in which a stored capture is not overlooked, but for a
\* change of it that is still to be read: the scan will reach it, the call has
\* its present snapshot in hand, or remembers having inspected it in vain.
Ahead(call, c) ==
  \/ call.at \in {"entering", "compiling", "describing"}
  \/ /\ call.at \in {"admitting", "asking"} \/ call.older
     /\ \A b \in call.below : c < b
InHand(call, c) ==
  \/ \E s \in call.seen : s.capture = c
  \/ call.at = "materializing" /\ log[call.next - 1].capture = c
Inspected(call, c) ==
  /\ call.memory[c] = [revision |-> Shown(c).revision,
                       pending  |-> Pending(call.wants, Shown(c))]
  /\ ~Satisfies(call.wants, Shown(c))

Unmissed(call) ==
  call.at \in Active =>
    \A c \in Captures :
      Stored(c) => \/ Unread(call.next, c)
                   \/ Ahead(call, c) \/ InHand(call, c) \/ Inspected(call, c)

\* A snapshot is of its time, and one per capture.
SeenInTime(call) ==
  /\ \A s, t \in call.seen : s.capture = t.capture => s = t
  /\ \A s \in call.seen :
       /\ \/ Stored(s.capture) /\ s.shown = Shown(s.capture)
          \/ Unread(call.next, s.capture)
       /\ s.shown.revision <= Shown(s.capture).revision
       /\ s.shown.revision = Shown(s.capture).revision => s.shown = Shown(s.capture)

\* So is the memory of one, which says nothing of later revisions.
MemoryInTime(call) ==
  \A c \in Captures :
    /\ call.memory[c] # Nothing => Stored(c) \/ Unread(call.next, c)
    /\ call.memory[c].revision <= Shown(c).revision
    /\ call.memory[c].revision = Shown(c).revision => Inspected(call, c)

Unharmed(call) ==
  Placed(call) /\ Unmissed(call) /\ SeenInTime(call) /\ MemoryInTime(call)

WaitInv ==
  /\ WorldInv /\ wait \in [Waits -> CallT]
  /\ \A w \in Waits : Unharmed(wait[w])

(***************************************************************************)
(* The world: every step moves the records forward and says what it did.   *)
(***************************************************************************)
Says(e) == log' = Append(log, e)

LEMMA Grown ==
  ASSUME log \in Seq(Change), NEW e \in Change, Says(e)
  PROVE  /\ log' \in Seq(Change) /\ Len(log) \in Nat /\ Len(log') = Len(log) + 1
         /\ log'[Len(log) + 1] = e
         /\ \A i \in 1..Len(log) : log'[i] = log[i]
BY DEF Says

\* A change of one record leaves what was said of the others.
LEMMA OthersTold ==
  ASSUME log \in Seq(Change), NEW e \in Change, Says(e),
         NEW c \in Captures, c # e.capture, store'[c] = store[c], Told(c)
  PROVE  Told(c)'
<1>1. \A i : LastWord(c, i) => LastWord(c, i)' /\ log'[i] = log[i]
  BY Grown DEF LastWord, Shown
<1>2. \A i \in 1..Len(log') : log'[i].capture = c => i \in 1..Len(log) /\ log'[i] = log[i]
  BY Grown
<1> HIDE DEF LastWord
<1> QED
  BY <1>1, <1>2 DEF Told, Where

\* A change of a record that is not gone is the last word on it.
LEMMA RecordTold ==
  ASSUME WorldAssumption, log \in Seq(Change), NEW e \in Change, Says(e),
         Told(e.capture), Where(e.capture) # "gone",
         Shown(e.capture)'.revision = e.revision,
         Where(e.capture)' = IF e.kind \in Removals THEN "gone" ELSE "stored"
  PROVE  Told(e.capture)'
<1>1. PICK n \in Nat : n = Len(log) + 1
  BY Grown
<1>2. PICK c : c = e.capture
  OBVIOUS
<1>3. LastWord(c, n)' /\ log'[n] = e
  BY Grown, <1>1, <1>2 DEF LastWord
<1>4. \A i \in 1..Len(log') : i # n => i \in 1..Len(log) /\ log'[i] = log[i]
  BY Grown, <1>1
<1>5. \A i \in 1..Len(log) : log[i].capture = c => log[i].kind \notin Removals
  BY <1>2 DEF Told
<1> HIDE DEF LastWord
<1> QED
  BY <1>2, <1>3, <1>4, <1>5 DEF Told, Where

\* What a step may say: the truth about a record, once.
Fits(e) ==
  \/ e.kind = "Admitted" /\ Where(e.capture) = "new"
  \/ /\ e.kind = "RecordUpdated" /\ Stored(e.capture)
     /\ e.revision = Shown(e.capture).revision + 1
  \/ /\ e.kind \in Removals /\ Stored(e.capture)
     /\ e.revision = Shown(e.capture).revision

Moved(c) ==
  /\ Shown(c).revision <= Shown(c)'.revision
  /\ Shown(c)'.revision = Shown(c).revision => Shown(c)' = Shown(c)
  /\ \/ store'[c] = store[c]
     \/ ~Stored(c) /\ ~Stored(c)'
     \/ Len(log') = Len(log) + 1 /\ log'[Len(log) + 1].capture = c

Lengthened ==
  /\ Len(log) \in Nat /\ Len(log') \in {Len(log), Len(log) + 1}
  /\ \A i \in 1..Len(log) : log'[i] = log[i]

Advance ==
  /\ WorldInv' /\ Lengthened /\ \A c \in Captures : Moved(c)
  /\ UNCHANGED log \/ \E e \in Change : Says(e) /\ Fits(e)

Rec == [place: Places, shown: Snapshot]

\* A step that changes one record and says so.
LEMMA Announcing ==
  ASSUME WorldAssumption, WorldInv, NEW e \in Change, Says(e), Fits(e),
         NEW r \in Rec, store' = [store EXCEPT ![e.capture] = r],
         r.shown.revision = e.revision,
         r.shown = Shown(e.capture) \/ e.revision = Shown(e.capture).revision + 1,
         r.place = IF e.kind \in Removals THEN "gone" ELSE "stored",
         removing' \subseteq [capture: Captures, kind: Removals], RemovingStored'
  PROVE  Advance
<1>1. PICK c \in Captures : c = e.capture
  BY DEF Change
<1>2. /\ store \in [Captures -> Rec] /\ store' \in [Captures -> Rec]
      /\ store'[c] = r /\ \A d \in Captures : d # c => store'[d] = store[d]
  BY <1>1 DEF WorldInv, WorldTypeOK, Rec
<1>3. /\ log \in Seq(Change) /\ log' \in Seq(Change) /\ Lengthened
      /\ Len(log') = Len(log) + 1 /\ log'[Len(log) + 1].capture = c
  BY Grown, <1>1 DEF WorldInv, WorldTypeOK, Lengthened
<1>4. WorldTypeOK'
  BY <1>2, <1>3 DEF WorldTypeOK, Rec
<1>5. Told(e.capture)'
  <2>1. Where(e.capture) # "gone" /\ Told(e.capture)
    BY <1>1 DEF Fits, Where, Stored, WorldInv
  <2>2. /\ Shown(e.capture)'.revision = e.revision
        /\ Where(e.capture)' = IF e.kind \in Removals THEN "gone" ELSE "stored"
    BY <1>1, <1>2 DEF Shown, Where
  <2> QED
    BY <1>3, <2>1, <2>2, RecordTold
<1>6. ASSUME NEW d \in Captures PROVE Told(d)'
  <2>1. CASE d = c
    BY <1>1, <1>5, <2>1
  <2>2. CASE d # c
    BY <1>1, <1>2, <1>3, <2>2, OthersTold DEF WorldInv
  <2> QED BY <2>1, <2>2
<1>7. ASSUME NEW d \in Captures PROVE Moved(d)
  <2>1. store[d].shown.revision \in Nat
    BY <1>2, WorldAssumption DEF Rec, Snapshot
  <2>2. CASE d = c
    BY <1>1, <1>2, <1>3, <2>1, <2>2 DEF Moved, Shown
  <2>3. CASE d # c
    BY <1>2, <2>1, <2>3 DEF Moved, Shown
  <2> QED BY <2>2, <2>3
<1> QED
  BY <1>3, <1>4, <1>6, <1>7 DEF Advance, WorldInv

\* A pump gives a record its next snapshot.
LEMMA MutationsAreSnapshots ==
  ASSUME WorldAssumption, NEW shown \in Snapshot, shown.revision < MaxRevision,
         NEW next \in Mutations(shown)
  PROVE  /\ [next EXCEPT !.revision = shown.revision + 1] \in Snapshot
         /\ [next EXCEPT !.revision = shown.revision + 1].revision = shown.revision + 1
<1>1. next \in Snapshot
  BY ZenonT(60) DEF Mutations, Responds, Grows, Ends, Snapshot
<1> QED
  BY <1>1 DEF WorldAssumption, Snapshot

LEMMA MutateAdvances ==
  ASSUME WorldAssumption, WorldInv, NEW c \in Captures, Mutate(c)
  PROVE  Advance
<1>1. PICK n : n = Shown(c).revision + 1
  OBVIOUS
<1>2. store \in [Captures -> Rec] /\ Shown(c) \in Snapshot /\ Shown(c).revision \in Nat
  BY DEF WorldInv, WorldTypeOK, Rec, Shown, Snapshot
<1>3. PICK shown \in Snapshot :
        /\ shown.revision = n
        /\ store' = [store EXCEPT ![c].shown = shown]
  <2>1. PICK next \in Mutations(Shown(c)) :
          store' = [store EXCEPT ![c].shown = [next EXCEPT !.revision = n]]
    BY <1>1 DEF Mutate, NextRevision
  <2>2. Shown(c).revision < MaxRevision
    BY DEF Mutate
  <2> QED
    BY <1>1, <1>2, <2>1, <2>2, MutationsAreSnapshots
<1>4. PICK r \in Rec : r = [store[c] EXCEPT !.shown = shown]
  BY <1>2 DEF Rec
<1>5. /\ r.place = Where(c) /\ r.shown = shown
      /\ store' = [store EXCEPT ![c] = r]
  BY <1>2, <1>3, <1>4 DEF Rec, Where
<1>6. Where(c) # "gone" /\ UNCHANGED removing
  BY DEF Mutate, Where
<1>7. RemovingStored'
  BY <1>2, <1>5, <1>6 DEF RemovingStored, WorldInv, Stored, Where, WorldTypeOK
<1>8. CASE Stored(c)
  <2>1. PICK e \in Change : /\ e.capture = c /\ e.revision = n
                           /\ e.kind = "RecordUpdated" /\ Says(e)
    <3>1. log' = Append(log, [capture |-> c, revision |-> n, kind |-> "RecordUpdated"])
      BY <1>1, <1>8 DEF Mutate, NextRevision, Publish
    <3>2. [capture |-> c, revision |-> n, kind |-> "RecordUpdated"] \in Change
      BY <1>3 DEF Change, Snapshot
    <3> QED BY <3>1, <3>2 DEF Says
  <2>2. "RecordUpdated" \notin Removals
    BY DEF WorldAssumption
  <2>3. Fits(e)
    BY <1>1, <1>8, <2>1 DEF Fits
  <2>4. removing' \subseteq [capture: Captures, kind: Removals]
    BY <1>6 DEF WorldInv, WorldTypeOK
  <2>5. /\ r.shown.revision = e.revision
        /\ e.revision = Shown(e.capture).revision + 1
        /\ r.place = IF e.kind \in Removals THEN "gone" ELSE "stored"
    BY <1>1, <1>3, <1>5, <1>8, <2>1, <2>2 DEF Stored, Where
  <2>6. store' = [store EXCEPT ![e.capture] = r]
    BY <1>5, <2>1
  <2> QED
    BY <1>7, <2>1, <2>3, <2>4, <2>5, <2>6, Announcing
<1>9. CASE ~Stored(c)
  <2>1. UNCHANGED log
    BY <1>9 DEF Mutate
  <2>2. /\ store' \in [Captures -> Rec]
        /\ \A d \in Captures : d # c => store'[d] = store[d]
        /\ store'[c] = r
    BY <1>2, <1>5
  <2>3. WorldTypeOK'
    BY <1>6, <2>1, <2>2 DEF WorldInv, WorldTypeOK, Rec
  <2>4. Where(c) = "new" /\ Where(c)' = "new"
    BY <1>2, <1>5, <1>6, <1>9, <2>2 DEF Where, Stored, Rec, Places
  <2>5. ASSUME NEW d \in Captures PROVE Told(d)'
    <3>1. CASE d = c
      BY <2>1, <2>4, <3>1 DEF Told, WorldInv
    <3>2. CASE d # c
      BY <2>1, <2>2, <3>2 DEF Told, LastWord, Shown, Where, WorldInv
    <3> QED BY <3>1, <3>2
  <2>6. ASSUME NEW d \in Captures PROVE Moved(d)
    <3>1. store[d].shown.revision \in Nat
      BY <1>2, WorldAssumption DEF Rec, Snapshot
    <3>2. CASE d = c
      <4>1. Shown(d)' = shown /\ Shown(d).revision < shown.revision
        BY <1>1, <1>2, <1>3, <1>5, <2>2, <3>2 DEF Shown
      <4>2. ~Stored(d) /\ ~Stored(d)'
        BY <1>9, <2>4, <3>2 DEF Stored, Where
      <4> QED
        BY <1>2, <1>3, <3>2, <4>1, <4>2 DEF Moved, Snapshot
    <3>3. CASE d # c
      <4>1. store'[d] = store[d]
        BY <2>2, <3>3
      <4> QED BY <3>1, <4>1 DEF Moved, Shown
    <3> QED BY <3>2, <3>3
  <2>7. Lengthened
    BY <2>1 DEF Lengthened, WorldInv, WorldTypeOK
  <2> QED
    BY <1>7, <2>1, <2>3, <2>5, <2>6, <2>7 DEF Advance, WorldInv
<1> QED
  BY <1>8, <1>9

LEMMA AdmitAdvances ==
  ASSUME WorldAssumption, WorldInv, NEW c \in Captures, Admit(c)
  PROVE  Advance
<1>1. store \in [Captures -> Rec] /\ Shown(c) \in Snapshot /\ Shown(c).revision \in Nat
  BY DEF WorldInv, WorldTypeOK, Rec, Shown, Snapshot
<1>2. PICK r \in Rec : r = [store[c] EXCEPT !.place = "stored"]
  BY <1>1 DEF Rec, Places
<1>3. /\ r.place = "stored" /\ r.shown = Shown(c)
      /\ store' = [store EXCEPT ![c] = r] /\ Where(c) = "new"
  BY <1>1, <1>2 DEF Admit, Shown, Rec, Where
<1>4. PICK e \in Change : /\ e.capture = c /\ e.revision = Shown(c).revision
                         /\ e.kind = "Admitted" /\ Says(e)
  <2>1. [capture |-> c, revision |-> Shown(c).revision, kind |-> "Admitted"] \in Change
    BY <1>1 DEF Change, Snapshot
  <2> QED BY <2>1 DEF Says, Admit, Publish
<1>5. PICK T \in SUBSET Captures :
        /\ T \subseteq Held \cup {c}
        /\ T # {} => "RetentionEviction" \in Removals
        /\ removing' = {[capture |-> d, kind |-> "RetentionEviction"] : d \in T}
  BY DEF Admit, Oldest, Held
<1>6. \A d \in T : Stored(d)'
  BY <1>1, <1>3, <1>5 DEF Held, Stored
<1>7. RemovingStored' /\ removing' \subseteq [capture: Captures, kind: Removals]
  BY <1>5, <1>6 DEF RemovingStored, Stored
<1>8. "Admitted" \notin Removals
  BY DEF WorldAssumption
<1>9. Fits(e)
  BY <1>3, <1>4 DEF Fits
<1> QED
  BY <1>3, <1>4, <1>7, <1>8, <1>9, Announcing

LEMMA DiscardAdvances ==
  ASSUME WorldAssumption, WorldInv, NEW kind \in Removals, Discard(kind)
  PROVE  Advance
<1>1. PICK T : /\ T \subseteq Held
               /\ removing' = {[capture |-> d, kind |-> kind] : d \in T}
  BY DEF Discard, Oldest, WorldAssumption
<1>2. UNCHANGED <<store, log>>
  BY DEF Discard
<1>3. RemovingStored'
  BY <1>1, <1>2 DEF RemovingStored, Stored, Held
<1>4. WorldTypeOK'
  BY <1>1, <1>2 DEF WorldInv, WorldTypeOK, Held
<1>5. \A c \in Captures : Told(c)'
  BY <1>2 DEF Told, LastWord, Where, Shown, WorldInv
<1>6. ASSUME NEW c \in Captures PROVE Moved(c)
  <2>1. store[c].shown.revision \in Nat
    BY WorldAssumption DEF WorldInv, WorldTypeOK, Snapshot
  <2> QED BY <1>2, <2>1 DEF Moved, Shown
<1>7. Lengthened
  BY <1>2 DEF Lengthened, WorldInv, WorldTypeOK
<1> QED
  BY <1>2, <1>3, <1>4, <1>5, <1>6, <1>7 DEF Advance, WorldInv

LEMMA RemoveNextAdvances ==
  ASSUME WorldAssumption, WorldInv, RemoveNext
  PROVE  Advance
<1>1. PICK q \in removing :
        /\ store' = [store EXCEPT ![q.capture].place = "gone"]
        /\ Publish(q.capture, Shown(q.capture).revision, q.kind)
        /\ removing' = removing \ {q}
  BY DEF RemoveNext
<1>2. PICK c \in Captures : c = q.capture
  BY DEF WorldInv, WorldTypeOK
<1>3. store \in [Captures -> Rec] /\ Shown(c) \in Snapshot /\ Shown(c).revision \in Nat
  BY DEF WorldInv, WorldTypeOK, Rec, Shown, Snapshot
<1>4. PICK r \in Rec : r = [store[c] EXCEPT !.place = "gone"]
  BY <1>3 DEF Rec, Places
<1>5. /\ r.place = "gone" /\ r.shown = Shown(c)
      /\ store' = [store EXCEPT ![c] = r] /\ Stored(c)
  BY <1>1, <1>2, <1>3, <1>4 DEF Shown, Rec, WorldInv, RemovingStored
<1>6. PICK e \in Change : /\ e.capture = c /\ e.revision = Shown(c).revision
                         /\ e.kind = q.kind /\ Says(e)
  <2>1. [capture |-> c, revision |-> Shown(c).revision, kind |-> q.kind] \in Change
    BY <1>3 DEF Change, Snapshot, WorldInv, WorldTypeOK
  <2> QED BY <1>1, <1>2, <2>1 DEF Says, Publish
<1>7. \A s \in removing' : s.capture \in Captures /\ s.capture # c
  BY <1>1, <1>2 DEF WorldInv, WorldTypeOK, RemovingStored
<1>8. RemovingStored' /\ removing' \subseteq [capture: Captures, kind: Removals]
  BY <1>1, <1>3, <1>5, <1>7 DEF RemovingStored, Stored, WorldInv, WorldTypeOK
<1>9. q.kind \in Removals /\ Fits(e)
  BY <1>5, <1>6 DEF Fits, WorldInv, WorldTypeOK
<1> QED
  BY <1>5, <1>6, <1>8, <1>9, Announcing

LEMMA WorldAdvances ==
  ASSUME WorldInv, WorldNext PROVE Advance
BY WorldAssumption, MutateAdvances, AdmitAdvances, DiscardAdvances, RemoveNextAdvances
DEF WorldNext

LEMMA WorldStutters ==
  ASSUME WorldInv, UNCHANGED worldVars PROVE WorldInv'
BY DEF WorldInv, worldVars, WorldTypeOK, RemovingStored, Told, LastWord, Where,
       Stored, Shown

LEMMA WorldStarts == WorldInit => WorldInv
<1> SUFFICES ASSUME WorldInit PROVE WorldInv
  OBVIOUS
<1>1. Fresh \in Snapshot
  BY WorldAssumption DEF Fresh, Snapshot
<1>2. WorldTypeOK
  BY <1>1 DEF WorldInit, WorldTypeOK, Places
<1> QED
  BY <1>2 DEF WorldInit, WorldInv, RemovingStored, Told, Where

(***************************************************************************)
(* The world against RecordView.                                           *)
(***************************************************************************)
Latest(c, i) ==
  /\ i \in 1..Len(log) /\ log[i].capture = c
  /\ \A j \in 1..Len(log) : j > i => log[j].capture # c

Shows(c, change) == ViewOf(c) = [kind |-> change.kind, revision |-> change.revision]

LEMMA LastIsShown ==
  ASSUME Len(log) \in Nat, NEW c, NEW i, Latest(c, i)
  PROVE  Shows(c, log[i])
<1>1. i \in ChangesOf(c) /\ \A j \in ChangesOf(c) : j <= i
  BY DEF Latest, ChangesOf
<1>2. i \in Int /\ \A j \in ChangesOf(c) : j \in Int
  BY DEF ChangesOf, Latest
<1>3. i = CHOOSE k \in ChangesOf(c) : \A j \in ChangesOf(c) : j <= k
  <2>1. \A k \in ChangesOf(c) : (\A j \in ChangesOf(c) : j <= k) => k = i
    BY <1>1, <1>2
  <2> QED BY <1>1, <2>1
<1> QED
  BY <1>1, <1>3 DEF ViewOf, Shows, ChangesOf

LEMMA LastIsShownNext ==
  ASSUME Len(log)' \in Nat, NEW c, NEW i, Latest(c, i)'
  PROVE  Shows(c, log[i])'
<1>1. i \in ChangesOf(c)' /\ \A j \in ChangesOf(c)' : j <= i
  BY DEF Latest, ChangesOf
<1>2. i \in Int /\ \A j \in ChangesOf(c)' : j \in Int
  BY DEF ChangesOf, Latest
<1>3. i = CHOOSE k \in ChangesOf(c)' : \A j \in ChangesOf(c)' : j <= k
  <2>1. \A k \in ChangesOf(c)' : (\A j \in ChangesOf(c)' : j <= k) => k = i
    BY <1>1, <1>2
  <2> QED BY <1>1, <2>1
<1> QED
  BY <1>1, <1>3 DEF ViewOf, Shows, ChangesOf

\* A change of one record leaves what the log shows of the others.
LEMMA OthersShown ==
  ASSUME WorldInv, NEW e \in Change, Says(e),
         NEW c \in Captures, c # e.capture
  PROVE  ViewOf(c)' = ViewOf(c)
<1>0. log \in Seq(Change) /\ Told(c) /\ Where(c) \in Places
  BY DEF WorldInv, WorldTypeOK, Where
<1>1. CASE ChangesOf(c) = {}
  BY Grown, <1>0, <1>1, SMTT(30) DEF ChangesOf, ViewOf
<1>2. CASE ChangesOf(c) # {}
  <2>1. PICK i : Latest(c, i)
    BY <1>0, <1>2 DEF Told, Latest, LastWord, ChangesOf, Places
  <2>2. Latest(c, i)' /\ log'[i] = log[i]
    BY Grown, <1>0, <2>1 DEF Latest
  <2> QED
    BY Grown, <1>0, <2>1, <2>2, LastIsShown, LastIsShownNext DEF Shows
<1> QED
  BY <1>1, <1>2

LEMMA ViewStep ==
  ASSUME WorldInv, Advance
  PROVE  [View!viewNext]_[c \in Captures |-> ViewOf(c)]
<1>1. CASE UNCHANGED log
  BY <1>1 DEF ViewOf, ChangesOf
<1>2. CASE \E e \in Change : Says(e) /\ Fits(e)
  <2>1. PICK e \in Change : Says(e) /\ Fits(e)
    BY <1>2
  <2>2. PICK c \in Captures : c = e.capture
    BY DEF Change
  <2>3. e.revision \in Nat
    BY WorldAssumption DEF Change
  <2>4. PICK view : view = [d \in Captures |-> ViewOf(d)]
    OBVIOUS
  <2>5. PICK next : next = [d \in Captures |-> ViewOf(d)']
    OBVIOUS
  <2>6. ViewOf(c)' = [kind |-> e.kind, revision |-> e.revision]
    <3>1. PICK n \in Nat : n = Len(log) + 1
      BY Grown, <2>1 DEF WorldInv, WorldTypeOK
    <3>2. Latest(c, n)' /\ log'[n] = e /\ Len(log)' \in Nat
      BY Grown, <2>1, <2>2, <3>1 DEF Latest, WorldInv, WorldTypeOK
    <3> QED BY <3>2, LastIsShownNext DEF Shows
  <2>7. \A d \in Captures : d # c => ViewOf(d)' = ViewOf(d)
    BY <2>1, <2>2, OthersShown DEF WorldInv, WorldTypeOK
  <2>8. next = [view EXCEPT ![c] = [kind |-> e.kind, revision |-> e.revision]]
    BY <2>4, <2>5, <2>6, <2>7
  <2>9. next[c].revision = e.revision
    BY <2>5, <2>6
  <2>10. CASE e.kind = "Admitted" /\ Where(e.capture) = "new"
    <3>1. view[c].kind = "None"
      BY <2>2, <2>4, <2>10 DEF Told, WorldInv, ViewOf, ChangesOf
    <3>2. /\ next[c].revision \in Nat
          /\ next = [view EXCEPT ![c] = [kind |-> "Admitted", revision |-> next[c].revision]]
      BY <2>3, <2>8, <2>9, <2>10
    <3> QED
      BY <2>4, <2>5, <3>1, <3>2
      DEF View!viewNext, View!Admit, View!Announce
  <2>11. CASE Stored(e.capture)
    <3>1. PICK i : LastWord(c, i) /\ log[i].kind \notin Removals
      BY <2>2, <2>11 DEF Told, WorldInv, Where, Stored
    <3>2. view[c] = [kind |-> log[i].kind, revision |-> Shown(c).revision]
      BY <2>4, <3>1, LastIsShown DEF LastWord, Latest, Shows, WorldInv, WorldTypeOK
    <3>3. log[i].kind \in {"Admitted", "RecordUpdated"}
      <4>1. log \in Seq(Change) /\ i \in 1..Len(log)
        BY <3>1 DEF LastWord, WorldInv, WorldTypeOK
      <4>2. log[i] \in Change
        BY <4>1
      <4> QED BY <3>1, <4>2 DEF Change
    <3>4. /\ view[c].kind \in {"Admitted"} \cup {"RecordUpdated"}
          /\ view[c].revision = Shown(c).revision
      BY <3>2, <3>3
    <3>5. CASE e.kind = "RecordUpdated" /\ e.revision = Shown(e.capture).revision + 1
      BY <2>2, <2>4, <2>5, <2>8, <3>4, <3>5, ZenonT(60) DEF View!viewNext, View!Update, View!Announce
    <3>6. CASE e.kind \in Removals /\ e.revision = Shown(e.capture).revision
      BY <2>2, <2>4, <2>5, <2>8, <3>4, <3>6 DEF View!viewNext, View!Remove, View!Announce
    <3>7. e.kind = "Admitted" => Where(e.capture) = "new"
      BY <2>1, WorldAssumption DEF Fits
    <3> QED
      BY <2>1, <2>11, <3>5, <3>6, <3>7 DEF Fits, Stored, Where
  <2> QED
    BY <2>1, <2>10, <2>11 DEF Fits
<1> QED
  BY <1>1, <1>2 DEF Advance

(***************************************************************************)
(* The waits: a step of the world disturbs none of them.                   *)
(***************************************************************************)
LEMMA UnreadStays ==
  ASSUME Lengthened, NEW next \in 1..(Len(log) + 1), NEW c, Unread(next, c)
  PROVE  Unread(next, c)'
BY DEF Lengthened, Unread

LEMMA SaidIsUnread ==
  ASSUME Lengthened, NEW next \in 1..(Len(log) + 1), NEW c,
         Len(log') = Len(log) + 1, log'[Len(log) + 1].capture = c
  PROVE  Unread(next, c)'
BY DEF Lengthened, Unread

LEMMA Revisions ==
  ASSUME WorldTypeOK, NEW c \in Captures
  PROVE  Shown(c) \in Snapshot /\ Shown(c).revision \in Nat
BY DEF WorldTypeOK, Shown, Snapshot

LEMMA Memories ==
  ASSUME NEW call \in CallT, NEW c \in Captures
  PROVE  call.memory[c] \in Remembered /\ call.memory[c].revision \in Int
BY DEF CallT, Remembered

LEMMA WorldHarmsNone ==
  ASSUME WorldInv, Advance, NEW call \in CallT, Unharmed(call)
  PROVE  Unharmed(call)'
<1> USE DEF Unharmed
<1>1. /\ Lengthened /\ WorldTypeOK /\ WorldTypeOK'
      /\ call.at \in Active => call.next \in 1..(Len(log) + 1)
  BY DEF Advance, WorldInv, Placed
<1>2. Placed(call)'
  BY <1>1 DEF Placed, Lengthened
<1>3. ASSUME NEW c \in Captures, call.at \in Active
      PROVE  Unread(call.next, c)' \/ store'[c] = store[c] \/ (~Stored(c) /\ ~Stored(c)')
  BY <1>1, <1>3, SaidIsUnread DEF Advance, Moved
<1>4. ASSUME NEW c \in Captures
      PROVE  /\ Shown(c).revision \in Nat /\ Shown(c)'.revision \in Nat
             /\ Shown(c).revision <= Shown(c)'.revision
             /\ Shown(c)'.revision = Shown(c).revision => Shown(c)' = Shown(c)
  <2>1. Shown(c)'.revision \in Nat
    BY <1>1 DEF WorldTypeOK, Shown, Snapshot
  <2> QED
    BY <1>1, <2>1, Revisions DEF Advance, Moved
<1>5. Unmissed(call)'
  <2> SUFFICES ASSUME call.at \in Active, NEW c \in Captures, Stored(c)',
                      ~Unread(call.next, c)'
               PROVE  Ahead(call, c)' \/ InHand(call, c)' \/ Inspected(call, c)'
    BY DEF Unmissed
  <2>1. store'[c] = store[c] /\ Stored(c)
    BY <1>3 DEF Stored
  <2>2. Shown(c)' = Shown(c)
    BY <2>1 DEF Shown
  <2>3. ~Unread(call.next, c)
    BY <1>1, UnreadStays
  <2>4. Ahead(call, c) \/ InHand(call, c) \/ Inspected(call, c)
    BY <2>1, <2>3 DEF Unmissed
  <2>5. Ahead(call, c) => Ahead(call, c)'
    BY DEF Ahead
  <2>6. InHand(call, c) => InHand(call, c)'
    BY <1>1 DEF InHand, Placed, Lengthened
  <2>7. Inspected(call, c) => Inspected(call, c)'
    BY <2>2 DEF Inspected
  <2> QED BY <2>4, <2>5, <2>6, <2>7
<1>6. SeenInTime(call)'
  <2>1. ASSUME NEW s \in call.seen
        PROVE  /\ \/ Stored(s.capture)' /\ s.shown = Shown(s.capture)'
                  \/ Unread(call.next, s.capture)'
               /\ s.shown.revision <= Shown(s.capture)'.revision
               /\ s.shown.revision = Shown(s.capture)'.revision
                    => s.shown = Shown(s.capture)'
    <3>1. s.capture \in Captures /\ s.shown.revision \in Nat /\ call.at \in Active
      <4>1. s \in [capture: Captures, shown: Snapshot]
        BY DEF CallT
      <4>2. s.shown.revision \in Nat
        BY <4>1, WorldAssumption DEF Snapshot
      <4> QED BY <4>1, <4>2 DEF Placed, Active, Scanning
    <3>2. PICK c \in Captures : c = s.capture
      BY <3>1
    <3>3. /\ (Stored(c) /\ s.shown = Shown(c)) \/ Unread(call.next, c)
          /\ s.shown.revision <= Shown(c).revision
          /\ s.shown.revision = Shown(c).revision => s.shown = Shown(c)
      BY <3>2 DEF SeenInTime
    <3>4. (Stored(c)' /\ s.shown = Shown(c)') \/ Unread(call.next, c)'
      BY <1>1, <1>3, <3>1, <3>3, UnreadStays DEF Stored, Shown
    <3>5. /\ s.shown.revision <= Shown(c)'.revision
          /\ s.shown.revision = Shown(c)'.revision => s.shown = Shown(c)'
      BY <1>4, <3>1, <3>3
    <3> QED BY <3>2, <3>4, <3>5
  <2> QED
    BY <2>1 DEF SeenInTime
<1>7. MemoryInTime(call)'
  <2> SUFFICES ASSUME NEW c \in Captures
               PROVE  /\ call.memory[c] # Nothing => Stored(c)' \/ Unread(call.next, c)'
                      /\ call.memory[c].revision <= Shown(c)'.revision
                      /\ call.memory[c].revision = Shown(c)'.revision
                           => Inspected(call, c)'
    BY DEF MemoryInTime
  <2>1. /\ call.memory[c] # Nothing => Stored(c) \/ Unread(call.next, c)
        /\ call.memory[c].revision <= Shown(c).revision
        /\ call.memory[c].revision = Shown(c).revision => Inspected(call, c)
        /\ call.memory[c].revision \in Int
    BY Memories DEF MemoryInTime
  <2>2. call.memory[c] # Nothing => Stored(c)' \/ Unread(call.next, c)'
    <3>1. call.memory[c] # Nothing => call.at \in Active
      BY DEF Placed
    <3> QED BY <1>1, <1>3, <2>1, <3>1, UnreadStays DEF Stored
  <2>3. call.memory[c].revision <= Shown(c)'.revision
    BY <1>4, <2>1
  <2>4. call.memory[c].revision = Shown(c)'.revision => Inspected(call, c)'
    <3>1. call.memory[c].revision = Shown(c)'.revision
            => Inspected(call, c) /\ Shown(c)' = Shown(c)
      BY <1>4, <2>1
    <3> QED BY <3>1 DEF Inspected
  <2> QED BY <2>2, <2>3, <2>4
<1> QED
  BY <1>2, <1>5, <1>6, <1>7

LEMMA WorldKeepsWaits ==
  ASSUME WaitInv, WorldNext, UNCHANGED wait
  PROVE  WaitInv'
<1>1. Advance
  BY WorldAdvances DEF WaitInv
<1>2. ASSUME NEW w \in Waits PROVE Unharmed(wait[w])'
  <2>1. PICK call \in CallT : call = wait[w]
    BY DEF WaitInv
  <2>2. Unharmed(call)'
    BY <1>1, <2>1, WorldHarmsNone DEF WaitInv
  <2>3. call = wait'[w]
    BY <2>1
  <2> QED
    BY <2>2, <2>3
<1> QED
  BY <1>1, <1>2 DEF WaitInv, Advance

(***************************************************************************)
(* The steps of a wait, first as what they make of the call.               *)
(***************************************************************************)
LEMMA AnsweredIsUnharmed ==
  ASSUME WorldTypeOK, NEW old \in CallT, NEW answer \in Answers, NEW call,
         call = Answered(old, answer)
  PROVE  call \in CallT /\ Unharmed(call)
<1>1. Nothing \in Remembered /\ Nothing.revision = -1
  BY WorldAssumption DEF Nothing, Remembered
<1>2. [c \in Captures |-> Nothing] \in [Captures -> Remembered]
  BY <1>1
<1>3. /\ call.at = "answered" /\ call.next = 0 /\ call.below = {}
      /\ call.older = FALSE /\ call.seen = {}
      /\ call.memory = [c \in Captures |-> Nothing]
  BY DEF Answered, CallT
<1>4. call \in CallT
  <2>1. 0 \in Nat /\ "answered" \in Progress
    BY DEF Progress
  <2> HIDE DEF Nothing
  <2> QED
    BY <1>2, <2>1 DEF Answered, CallT
<1>5. Placed(call) /\ Unmissed(call) /\ SeenInTime(call)
  BY <1>3 DEF Placed, Unmissed, SeenInTime, Active, Scanning
<1>6. MemoryInTime(call)
  BY <1>1, <1>3, Revisions DEF MemoryInTime
<1> QED
  BY <1>4, <1>5, <1>6 DEF Unharmed

\* From one of these to the next a call goes with what it has.
Corridor == {<<"entering", "compiling">>, <<"compiling", "describing">>,
             <<"describing", "admitting">>, <<"admitting", "asking">>,
             <<"readmitting", "inspecting">>}

Carried(call, old) ==
  /\ call.wants = old.wants /\ call.next = old.next /\ call.below = old.below
  /\ call.older = old.older /\ call.memory = old.memory /\ call.seen = old.seen

LEMMA CorridorIsUnharmed ==
  ASSUME NEW old \in CallT, NEW call \in CallT, Unharmed(old),
         Carried(call, old), <<old.at, call.at>> \in Corridor
  PROVE  Unharmed(call)
<1>1. Placed(call)
  BY DEF Unharmed, Placed, Carried, Corridor, Active, Scanning
<1>2. Unmissed(call)
  <2> SUFFICES ASSUME NEW c \in Captures, Stored(c)
               PROVE  \/ Unread(call.next, c) \/ Ahead(call, c)
                      \/ InHand(call, c) \/ Inspected(call, c)
    BY DEF Unmissed
  <2>1. old.at \in Active
    BY DEF Corridor, Active, Scanning
  <2>2. \/ Unread(old.next, c) \/ Ahead(old, c)
        \/ InHand(old, c) \/ Inspected(old, c)
    BY <2>1 DEF Unharmed, Unmissed
  <2>3. Ahead(old, c) => Ahead(call, c)
    BY DEF Ahead, Carried, Corridor, Unharmed, Placed
  <2>4. InHand(old, c) => InHand(call, c)
    BY DEF InHand, Carried, Corridor
  <2>5. Inspected(old, c) => Inspected(call, c)
    BY DEF Inspected, Carried
  <2> QED
    BY <2>2, <2>3, <2>4, <2>5 DEF Carried
<1>3. SeenInTime(call)
  BY DEF Unharmed, SeenInTime, Carried
<1>4. MemoryInTime(call)
  BY DEF Unharmed, MemoryInTime, Carried, Inspected
<1> QED
  BY <1>1, <1>2, <1>3, <1>4 DEF Unharmed

LEMMA SubscribedIsUnharmed ==
  ASSUME WorldTypeOK, NEW old \in CallT, NEW call \in CallT, Unharmed(old),
         old.at = "idle", call.at = "entering", call.next = Len(log) + 1,
         call.below = old.below, call.older = old.older,
         call.memory = old.memory, call.seen = old.seen
  PROVE  Unharmed(call)
<1>1. /\ \A c \in Captures : call.memory[c] = Nothing
      /\ call.seen = {} /\ ~call.older /\ call.below = {}
  BY DEF Unharmed, Placed, Active, Scanning, CallT
<1>2. Placed(call)
  BY <1>1 DEF Placed, Active, Scanning, WorldTypeOK
<1>3. Unmissed(call)
  BY DEF Unmissed, Ahead
<1>4. SeenInTime(call)
  BY <1>1 DEF SeenInTime
<1>5. MemoryInTime(call)
  BY <1>1, Revisions DEF MemoryInTime, Nothing
<1> QED
  BY <1>2, <1>3, <1>4, <1>5 DEF Unharmed

(***************************************************************************)
(* The scan: a batch takes the newest of what is left, and leaves older.   *)
(***************************************************************************)
LEMMA NewestIsAbove ==
  ASSUME NEW S, IsFiniteSet(S), S \subseteq Nat, NEW b \in Newest(S),
         NEW c \in S \ Newest(S)
  PROVE  c < b
<1>1. SUFFICES ASSUME b <= c PROVE FALSE
  BY DEF Newest
<1> DEFINE Above(d) == {e \in S : e > d}
<1>2. IsFiniteSet(Above(b)) /\ Above(c) \subseteq Above(b)
  <2>1. IsFiniteSet(Above(b))
    BY FS_Subset
  <2>2. b \in Nat /\ c \in Nat /\ \A e \in S : e \in Nat
    BY DEF Newest
  <2>3. \A e \in S : e > c => e > b
    BY <1>1, <2>2
  <2> QED BY <2>1, <2>3
<1>3. /\ Cardinality(Above(c)) <= Cardinality(Above(b))
      /\ Cardinality(Above(c)) \in Nat /\ Cardinality(Above(b)) \in Nat
  BY <1>2, FS_Subset, FS_CardinalityType
<1>4. Cardinality(Above(b)) < BatchSize /\ ~(Cardinality(Above(c)) < BatchSize)
  BY DEF Newest
<1> HIDE DEF Above
<1> QED
  BY <1>3, <1>4, WaitAssumption

LEMMA BatchIsUnharmed ==
  ASSUME WorldTypeOK, NEW old \in CallT, NEW call \in CallT, Unharmed(old),
         NEW batch, batch = Newest(Unscanned(old)),
         old.at = "asking", call.at = "scanning",
         call.seen = {[capture |-> c, shown |-> Shown(c)] : c \in batch},
         call.below = old.below \cup batch,
         call.older = (batch # Unscanned(old)),
         call.wants = old.wants, call.next = old.next, call.memory = old.memory
  PROVE  Unharmed(call)
<1>1. /\ batch \subseteq Unscanned(old) /\ Unscanned(old) \subseteq Captures
      /\ \A c \in Unscanned(old) : Stored(c)
  BY DEF Newest, Unscanned, Held
<1>2. Placed(call)
  BY DEF Unharmed, Placed, Active, Scanning
<1>3. Unmissed(call)
  <2> SUFFICES ASSUME NEW c \in Captures, Stored(c)
               PROVE  \/ Unread(call.next, c) \/ Ahead(call, c)
                      \/ InHand(call, c) \/ Inspected(call, c)
    BY DEF Unmissed
  <2>1. \/ Unread(old.next, c) \/ Ahead(old, c)
        \/ InHand(old, c) \/ Inspected(old, c)
    BY DEF Unharmed, Unmissed, Active, Scanning
  <2>2. ~InHand(old, c)
    BY DEF InHand, Unharmed, Placed
  <2>3. CASE Ahead(old, c)
    <3>1. c \in Unscanned(old)
      BY <2>3 DEF Ahead, Unscanned, Held, Unharmed, Placed
    <3>2. CASE c \in batch
      <4>1. [capture |-> c, shown |-> Shown(c)] \in call.seen
        BY <3>2
      <4> QED BY <4>1 DEF InHand
    <3>3. CASE c \notin batch
      <4>1. IsFiniteSet(Unscanned(old)) /\ Unscanned(old) \subseteq Nat
        BY <1>1, WorldAssumption, FS_Subset
      <4>2. \A b \in batch : c < b
        BY <3>1, <3>3, <4>1, NewestIsAbove
      <4>3. \A b \in old.below : c < b
        BY <3>1 DEF Unscanned
      <4> QED
        BY <3>1, <3>3, <4>2, <4>3 DEF Ahead
    <3> QED BY <3>2, <3>3
  <2>4. Inspected(old, c) => Inspected(call, c)
    BY DEF Inspected
  <2> QED
    BY <2>1, <2>2, <2>3, <2>4
<1>4. SeenInTime(call)
  <2>1. \A s \in call.seen : s.capture \in batch /\ s.shown = Shown(s.capture)
                            /\ s = [capture |-> s.capture, shown |-> s.shown]
    OBVIOUS
  <2>2. \A s \in call.seen : Stored(s.capture) /\ Shown(s.capture).revision \in Nat
    BY <1>1, <2>1, Revisions
  <2>3. \A s, t \in call.seen : s.capture = t.capture => s = t
    OBVIOUS
  <2> QED BY <2>1, <2>2, <2>3 DEF SeenInTime
<1>5. MemoryInTime(call)
  BY DEF Unharmed, MemoryInTime, Inspected
<1> QED
  BY <1>2, <1>3, <1>4, <1>5 DEF Unharmed

LEMMA ScannedIsUnharmed ==
  ASSUME NEW old \in CallT, NEW call \in CallT, Unharmed(old),
         Unscanned(old) = {}, old.at = "asking", call.at = "following",
         call.below = {}, call.seen = old.seen, call.older = old.older,
         call.wants = old.wants, call.next = old.next, call.memory = old.memory
  PROVE  Unharmed(call)
<1>1. Placed(call)
  BY DEF Unharmed, Placed, Active, Scanning
<1>2. Unmissed(call)
  <2> SUFFICES ASSUME NEW c \in Captures, Stored(c)
               PROVE  \/ Unread(call.next, c) \/ Ahead(call, c)
                      \/ InHand(call, c) \/ Inspected(call, c)
    BY DEF Unmissed
  <2>1. \/ Unread(old.next, c) \/ Ahead(old, c)
        \/ InHand(old, c) \/ Inspected(old, c)
    BY DEF Unharmed, Unmissed, Active, Scanning
  <2>2. ~InHand(old, c) /\ ~Ahead(old, c)
    BY DEF InHand, Ahead, Unscanned, Held, Unharmed, Placed
  <2>3. Inspected(old, c) => Inspected(call, c)
    BY DEF Inspected
  <2> QED
    BY <2>1, <2>2, <2>3
<1>3. SeenInTime(call)
  BY DEF Unharmed, SeenInTime
<1>4. MemoryInTime(call)
  BY DEF Unharmed, MemoryInTime, Inspected
<1> QED
  BY <1>1, <1>2, <1>3, <1>4 DEF Unharmed

(***************************************************************************)
(* Inspection: what was looked at in vain is remembered as it was.         *)
(***************************************************************************)
LEMMA LearnedOf ==
  ASSUME NEW old \in CallT, NEW c \in Captures, SeenInTime(old)
  PROVE  /\ \A s \in old.seen : s.capture = c =>
              Learned(old)[c] = [revision |-> s.shown.revision,
                                 pending |-> Pending(old.wants, s.shown)]
         /\ ~InHand(old, c) => Learned(old)[c] = old.memory[c]
<1>1. ASSUME NEW s \in old.seen, s.capture = c
      PROVE  s = CHOOSE t \in old.seen : t.capture = c
  BY <1>1 DEF SeenInTime
<1>2. ASSUME NEW s \in old.seen, s.capture = c
      PROVE  Learned(old)[c] = [revision |-> s.shown.revision,
                                pending |-> Pending(old.wants, s.shown)]
  <2> HIDE DEF Pending
  <2> QED BY <1>1, <1>2 DEF Learned
<1>3. ~InHand(old, c) => Learned(old)[c] = old.memory[c]
  BY DEF Learned, InHand
<1> QED BY <1>2, <1>3

LEMMA LearnedIsMemory ==
  ASSUME NEW old \in CallT, SeenInTime(old)
  PROVE  Learned(old) \in [Captures -> Remembered]
<1>1. ASSUME NEW c \in Captures PROVE Learned(old)[c] \in Remembered
  <2>1. CASE \E s \in old.seen : s.capture = c
    <3>1. PICK s \in old.seen : s.capture = c
      BY <2>1
    <3>2. s.shown.revision \in -1..MaxRevision
      BY WorldAssumption DEF CallT, Snapshot
    <3>3. Pending(old.wants, s.shown) \in BOOLEAN
      BY DEF Pending
    <3>4. [revision |-> s.shown.revision, pending |-> Pending(old.wants, s.shown)]
            \in Remembered
      <4> HIDE DEF Pending
      <4> QED BY <3>2, <3>3 DEF Remembered
    <3> QED BY <3>1, <3>4, LearnedOf
  <2>2. CASE ~\E s \in old.seen : s.capture = c
    <3>1. Learned(old)[c] = old.memory[c]
      BY <2>2 DEF Learned
    <3> QED BY <3>1, Memories
  <2> QED BY <2>1, <2>2
<1>2. Learned(old) = [c \in Captures |-> Learned(old)[c]]
  BY DEF Learned
<1> QED BY <1>1, <1>2

LEMMA InspectedIsUnharmed ==
  ASSUME WorldTypeOK, NEW old \in CallT, NEW call \in CallT, Unharmed(old),
         old.at \in {"scanning", "inspecting"},
         \A s \in old.seen : ~Satisfies(old.wants, s.shown),
         call.at = IF old.older THEN "admitting" ELSE "following",
         call.below = IF old.older THEN old.below ELSE {},
         ~call.older, call.seen = {}, call.memory = Learned(old),
         call.wants = old.wants, call.next = old.next
  PROVE  Unharmed(call)
<1>1. Placed(call)
  BY DEF Unharmed, Placed, Active, Scanning
<1>2. ASSUME NEW c \in Captures, InHand(old, c)
      PROVE  /\ \E s \in old.seen :
                  /\ s.capture = c /\ ~Satisfies(call.wants, s.shown)
                  /\ call.memory[c] = [revision |-> s.shown.revision,
                                       pending |-> Pending(call.wants, s.shown)]
                  /\ s.shown.revision <= Shown(c).revision
                  /\ s.shown.revision = Shown(c).revision => s.shown = Shown(c)
                  /\ Unread(call.next, c) \/ (Stored(c) /\ s.shown = Shown(c))
  <2>1. PICK s \in old.seen : s.capture = c
    BY <1>2 DEF InHand
  <2>2. call.memory[c] = [revision |-> s.shown.revision,
                          pending |-> Pending(call.wants, s.shown)]
    BY <2>1, LearnedOf DEF Unharmed
  <2> QED
    BY <2>1, <2>2 DEF Unharmed, SeenInTime
<1>3. ASSUME NEW c \in Captures, ~InHand(old, c)
      PROVE  call.memory[c] = old.memory[c]
  BY <1>3, LearnedOf DEF Unharmed
<1>4. Unmissed(call)
  <2> SUFFICES ASSUME NEW c \in Captures, Stored(c), ~Unread(call.next, c)
               PROVE  Ahead(call, c) \/ Inspected(call, c)
    BY DEF Unmissed
  <2>1. Ahead(old, c) \/ InHand(old, c) \/ Inspected(old, c)
    BY DEF Unharmed, Unmissed, Active, Scanning
  <2>2. CASE InHand(old, c)
    <3>1. PICK s \in old.seen :
                 /\ ~Satisfies(call.wants, s.shown) /\ s.shown = Shown(c)
                 /\ call.memory[c] = [revision |-> s.shown.revision,
                                      pending |-> Pending(call.wants, s.shown)]
      BY <1>2, <2>2
    <3> HIDE DEF Pending, Satisfies
    <3> QED
      BY <3>1 DEF Inspected
  <2>3. Ahead(old, c) => Ahead(call, c)
    BY DEF Ahead
  <2>4. ~InHand(old, c) /\ Inspected(old, c) => Inspected(call, c)
    BY <1>3 DEF Inspected
  <2> QED BY <2>1, <2>2, <2>3, <2>4
<1>5. SeenInTime(call)
  BY DEF SeenInTime
<1>6. MemoryInTime(call)
  <2> SUFFICES ASSUME NEW c \in Captures
               PROVE  /\ call.memory[c] # Nothing => Stored(c) \/ Unread(call.next, c)
                      /\ call.memory[c].revision <= Shown(c).revision
                      /\ call.memory[c].revision = Shown(c).revision
                           => Inspected(call, c)
    BY DEF MemoryInTime
  <2>1. CASE InHand(old, c)
    <3>1. PICK s \in old.seen :
            /\ ~Satisfies(call.wants, s.shown)
            /\ call.memory[c] = [revision |-> s.shown.revision,
                                 pending |-> Pending(call.wants, s.shown)]
            /\ s.shown.revision <= Shown(c).revision
            /\ s.shown.revision = Shown(c).revision => s.shown = Shown(c)
            /\ Unread(call.next, c) \/ Stored(c)
      BY <1>2, <2>1
    <3>2. call.memory[c].revision = s.shown.revision
      BY <3>1
    <3> HIDE DEF Pending, Satisfies
    <3> QED BY <3>1, <3>2 DEF Inspected
  <2>2. CASE ~InHand(old, c)
    BY <1>3, <2>2 DEF Unharmed, MemoryInTime, Inspected
  <2> QED BY <2>1, <2>2
<1> QED
  BY <1>1, <1>4, <1>5, <1>6 DEF Unharmed

(***************************************************************************)
(* Reading a change: the last word on a record is what the store holds.    *)
(***************************************************************************)
\* After the change at next, more is to be read of every record but of the one
\* it is about, and of that one unless it was the last word.
LEMMA ReadOn ==
  ASSUME WorldInv, NEW next \in 1..Len(log), NEW c \in Captures, Unread(next, c)
  PROVE  \/ Unread(next + 1, c)
         \/ log[next].capture = c /\ Latest(c, next)
BY DEF Unread, Latest, WorldInv, WorldTypeOK

LEMMA TheLastWord ==
  ASSUME WorldInv, NEW c \in Captures, NEW i, Latest(c, i)
  PROVE  /\ log[i].kind \in Removals => Where(c) = "gone"
         /\ log[i].kind \notin Removals => Stored(c) /\ log[i].revision = Shown(c).revision
<1>1. log \in Seq(Change) /\ Told(c) /\ Where(c) \in Places
  BY DEF WorldInv, WorldTypeOK, Where
<1>2. \A j : LastWord(c, j) => j = i
  BY <1>1 DEF LastWord, Latest
<1>3. Where(c) # "new"
  BY <1>1 DEF Told, Latest
<1>4. Where(c) \in {"stored", "gone"} => LastWord(c, i)
  BY <1>1, <1>2 DEF Told
<1> QED
  BY <1>1, <1>2, <1>3, <1>4 DEF Told, LastWord, Stored, Where, Places

LEMMA ReadOnIsUnharmed ==
  ASSUME WorldInv, NEW old \in CallT, NEW call \in CallT, Unharmed(old),
         old.at = "following", old.next \in 1..Len(log),
         NEW c \in Captures, c = log[old.next].capture,
         call.at \in {"following", "materializing"},
         call.next = old.next + 1, call.below = old.below,
         call.older = old.older, call.wants = old.wants, call.seen = old.seen,
         \A d \in Captures : d # c => call.memory[d] = old.memory[d],
         \/ log[old.next].kind \in Removals /\ call.memory[c] = Nothing
         \/ /\ log[old.next].kind \notin Removals /\ call.memory[c] = old.memory[c]
            /\ \/ call.at = "materializing"
               \/ log[old.next].revision <= old.memory[c].revision
  PROVE  Unharmed(call)
<1> DEFINE next == old.next
<1>1. /\ next \in 1..Len(log) /\ Len(log) \in Nat /\ call.next - 1 = next
      /\ old.seen = {} /\ old.below = {} /\ ~old.older
  BY DEF Unharmed, Placed, WorldInv, WorldTypeOK
<1> HIDE DEF next
<1>2. Placed(call)
  BY <1>1 DEF Placed, Active, Scanning, next
<1>3. \A d \in Captures : Unread(next, d) /\ d # c => Unread(call.next, d)
  BY <1>1, ReadOn DEF next
<1>4. /\ log[next].kind \in Removals => Where(c) = "gone"
      /\ log[next].kind \notin Removals /\ ~Unread(call.next, c)
           => Stored(c) /\ log[next].revision = Shown(c).revision
  <2>1. Unread(next, c)
    BY <1>1 DEF Unread, next
  <2>2. Unread(call.next, c) \/ Latest(c, next)
    BY <1>1, <2>1, ReadOn DEF next
  <2>3. log[next].kind \in Removals => Where(c) = "gone"
    BY <1>1 DEF WorldInv, Told, next
  <2> QED
    BY <2>2, <2>3, TheLastWord
<1>5. /\ old.memory[c].revision \in Int /\ Shown(c).revision \in Nat
      /\ old.memory[c].revision <= Shown(c).revision
      /\ old.memory[c].revision = Shown(c).revision => Inspected(old, c)
  BY Memories, Revisions DEF Unharmed, MemoryInTime, WorldInv
<1>6. Unmissed(call)
  <2> SUFFICES ASSUME NEW d \in Captures, Stored(d), ~Unread(call.next, d)
               PROVE  InHand(call, d) \/ Inspected(call, d)
    BY DEF Unmissed
  <2>1. CASE d = c
    <3>1. Stored(c) => Where(c) # "gone"
      BY DEF Stored, Where
    <3>2. log[next].kind \notin Removals /\ log[next].revision = Shown(c).revision
      BY <1>4, <2>1, <3>1
    <3>3. CASE call.at = "materializing"
      BY <1>1, <2>1, <3>3 DEF InHand, next
    <3>4. CASE call.at # "materializing"
      <4>1. old.memory[c].revision = Shown(c).revision
        BY <1>5, <3>2, <3>4 DEF next
      <4>2. Inspected(old, c) /\ call.memory[c] = old.memory[c]
        BY <1>5, <3>2, <4>1 DEF next
      <4> QED BY <2>1, <4>2 DEF Inspected
    <3> QED BY <3>3, <3>4
  <2>2. CASE d # c
    <3>1. Unread(next, d) \/ Ahead(old, d) \/ InHand(old, d) \/ Inspected(old, d)
      BY DEF Unharmed, Unmissed, Active, next
    <3>2. ~Unread(next, d) /\ ~Ahead(old, d) /\ ~InHand(old, d)
      BY <1>1, <1>3, <2>2 DEF Ahead, InHand
    <3> QED BY <2>2, <3>1, <3>2 DEF Inspected
  <2> QED BY <2>1, <2>2
<1>7. SeenInTime(call)
  BY <1>1 DEF SeenInTime
<1>8. MemoryInTime(call)
  <2> SUFFICES ASSUME NEW d \in Captures
               PROVE  /\ call.memory[d] # Nothing => Stored(d) \/ Unread(call.next, d)
                      /\ call.memory[d].revision <= Shown(d).revision
                      /\ call.memory[d].revision = Shown(d).revision
                           => Inspected(call, d)
    BY DEF MemoryInTime
  <2>1. CASE d = c /\ log[next].kind \in Removals
    <3>1. call.memory[d] = Nothing /\ Nothing.revision = -1
      BY <2>1 DEF Nothing, next
    <3> QED BY <1>5, <2>1, <3>1
  <2>2. CASE d = c /\ log[next].kind \notin Removals
    <3>1. call.memory[d] = old.memory[d]
      BY <2>2 DEF next
    <3> QED BY <1>4, <1>5, <2>2, <3>1 DEF Inspected
  <2>3. CASE d # c
    BY <1>3, <2>3 DEF Unharmed, MemoryInTime, Inspected, next
  <2> QED BY <2>1, <2>2, <2>3
<1> QED
  BY <1>2, <1>6, <1>7, <1>8 DEF Unharmed

LEMMA MaterializedIsUnharmed ==
  ASSUME WorldTypeOK, NEW old \in CallT, NEW call \in CallT, Unharmed(old),
         old.at = "materializing", call.at = "readmitting",
         NEW c \in Captures, c = log[old.next - 1].capture, Stored(c),
         call.seen = {[capture |-> c, shown |-> Shown(c)]},
         call.below = old.below, call.older = old.older, call.wants = old.wants,
         call.next = old.next, call.memory = old.memory
  PROVE  Unharmed(call)
<1>1. Placed(call)
  BY DEF Unharmed, Placed, Active, Scanning
<1>2. Unmissed(call)
  <2> SUFFICES ASSUME NEW d \in Captures, Stored(d)
               PROVE  \/ Unread(call.next, d) \/ Ahead(call, d)
                      \/ InHand(call, d) \/ Inspected(call, d)
    BY DEF Unmissed
  <2>1. \/ Unread(old.next, d) \/ Ahead(old, d)
        \/ InHand(old, d) \/ Inspected(old, d)
    BY DEF Unharmed, Unmissed, Active, Scanning
  <2>2. InHand(old, d) => d = c
    BY DEF InHand, Unharmed, Placed
  <2>3. InHand(call, c)
    <3>1. [capture |-> c, shown |-> Shown(c)] \in call.seen
      OBVIOUS
    <3> QED BY <3>1 DEF InHand
  <2>4. ~Ahead(old, d)
    BY DEF Ahead, Unharmed, Placed
  <2> QED BY <2>1, <2>2, <2>3, <2>4 DEF Inspected
<1>3. SeenInTime(call)
  <2>1. Shown(c).revision \in Nat
    BY Revisions
  <2> QED BY <2>1 DEF SeenInTime
<1>4. MemoryInTime(call)
  BY DEF Unharmed, MemoryInTime, Inspected
<1> QED
  BY <1>1, <1>2, <1>3, <1>4 DEF Unharmed

(***************************************************************************)
(* The steps of a wait, as steps.                                          *)
(***************************************************************************)
LEMMA CallKept ==
  ASSUME WaitInv, UNCHANGED worldVars, NEW w \in Waits, NEW call \in CallT,
         Becomes(w, call), Unharmed(call)
  PROVE  WaitInv'
<1>1. WorldInv'
  BY WorldStutters DEF WaitInv
<1>2. wait' \in [Waits -> CallT] /\ wait'[w] = call
      /\ \A v \in Waits : v # w => wait'[v] = wait[v]
  BY DEF WaitInv, Becomes
<1>3. ASSUME NEW v \in Waits PROVE Unharmed(wait[v])'
  <2>1. PICK now : now = wait'[v]
    OBVIOUS
  <2>2. Unharmed(now)
    BY <1>2, <2>1 DEF WaitInv
  <2>3. Unharmed(now)'
    BY <2>2 DEF worldVars, Unharmed, Placed, Unmissed, SeenInTime, MemoryInTime,
                Unread, Stored, Shown, Ahead, InHand, Inspected
  <2> QED BY <2>1, <2>3
<1> QED
  BY <1>1, <1>2, <1>3 DEF WaitInv

LEMMA AnsweredKept ==
  ASSUME WaitInv, UNCHANGED worldVars, NEW w \in Waits, NEW answer \in Answers,
         \/ Becomes(w, Answered(wait[w], answer))
         \/ Becomes(w, [Answered(wait[w], answer) EXCEPT !.running = FALSE])
  PROVE  WaitInv'
<1>1. PICK old \in CallT : old = wait[w]
  BY DEF WaitInv
<1>2. PICK call : call = Answered(old, answer)
  OBVIOUS
<1>3. call \in CallT /\ Unharmed(call)
  BY <1>2, AnsweredIsUnharmed DEF WaitInv, WorldInv
<1>4. PICK ended : ended = [call EXCEPT !.running = FALSE]
  OBVIOUS
<1>5. ended \in CallT /\ Carried(ended, call) /\ ended.at = call.at
  BY <1>3, <1>4 DEF CallT, Carried
<1>6. Unharmed(ended)
  BY <1>3, <1>5 DEF Unharmed, Placed, Unmissed, SeenInTime, MemoryInTime,
                    Ahead, InHand, Inspected, Carried
<1>7. Becomes(w, call) \/ Becomes(w, ended)
  <2> HIDE DEF Answered
  <2> QED BY <1>1, <1>2, <1>4
<1> QED
  BY <1>3, <1>5, <1>6, <1>7, CallKept

LEMMA WaitStep ==
  ASSUME WaitInv, NEW w \in Waits, Steps(w)
  PROVE  WaitInv'
<1>1. PICK old \in CallT : old = wait[w]
  BY DEF WaitInv
<1>2. Unharmed(old) /\ WorldInv /\ WorldTypeOK
  BY <1>1 DEF WaitInv, WorldInv
<1>3. CASE Subscribe(w)
  <2>1. PICK call : call = [old EXCEPT !.at = "entering", !.next = NowInLog]
    OBVIOUS
  <2>2. NowInLog \in Nat /\ NowInLog = Len(log) + 1
    BY <1>2 DEF NowInLog, WorldTypeOK
  <2>3. /\ call \in CallT /\ call.at = "entering" /\ call.next = NowInLog
        /\ call.below = old.below /\ call.older = old.older
        /\ call.memory = old.memory /\ call.seen = old.seen
    BY <2>1, <2>2 DEF CallT, Progress
  <2>4. Becomes(w, call) /\ old.at = "idle" /\ UNCHANGED worldVars
    BY <1>1, <1>3, <2>1 DEF Subscribe
  <2> QED
    BY <1>2, <2>2, <2>3, <2>4, SubscribedIsUnharmed, CallKept
<1>4. CASE EnterCompile(w)
  <2>1. PICK call : call = [old EXCEPT !.at = "compiling", !.running = TRUE]
    OBVIOUS
  <2>2. call \in CallT /\ Carried(call, old) /\ call.at = "compiling"
    BY <2>1 DEF CallT, Progress, Carried
  <2>3. Becomes(w, call) /\ old.at = "entering" /\ UNCHANGED worldVars
    BY <1>1, <1>4, <2>1 DEF EnterCompile, Acquire
  <2> QED
    BY <1>2, <2>2, <2>3, CorridorIsUnharmed, CallKept DEF Corridor
<1>5. CASE Compile(w)
  <2>1. PICK call : call = [old EXCEPT !.at = "describing", !.running = FALSE]
    OBVIOUS
  <2>2. call \in CallT /\ Carried(call, old) /\ call.at = "describing"
    BY <2>1 DEF CallT, Progress, Carried
  <2>3. old.at = "compiling" /\ UNCHANGED worldVars
    BY <1>1, <1>5 DEF Compile, Return
  <2>4. CASE Return(w, [wait[w] EXCEPT !.at = "describing"])
    <3>1. Becomes(w, call)
      BY <1>1, <2>1, <2>4 DEF Return
    <3> QED
      BY <1>2, <2>2, <2>3, <3>1, CorridorIsUnharmed, CallKept DEF Corridor
  <2>5. CASE Return(w, Answered(wait[w], "refused"))
    BY <2>3, <2>5, AnsweredKept DEF Return, Answers
  <2> QED BY <1>5, <2>4, <2>5 DEF Compile
<1>6. CASE Describe(w)
  <2>1. PICK call : call = [old EXCEPT !.at = "admitting"]
    OBVIOUS
  <2>2. call \in CallT /\ Carried(call, old) /\ call.at = "admitting"
    BY <2>1 DEF CallT, Progress, Carried
  <2>3. Becomes(w, call) /\ old.at = "describing" /\ UNCHANGED worldVars
    BY <1>1, <1>6, <2>1 DEF Describe, worldVars
  <2> QED
    BY <1>2, <2>2, <2>3, CorridorIsUnharmed, CallKept DEF Corridor
<1>7. CASE AdmitScan(w)
  <2>1. PICK call : call = [old EXCEPT !.at = "asking"]
    OBVIOUS
  <2>2. call \in CallT /\ Carried(call, old) /\ call.at = "asking"
    BY <2>1 DEF CallT, Progress, Carried
  <2>3. Becomes(w, call) /\ old.at = "admitting" /\ UNCHANGED worldVars
    BY <1>1, <1>7, <2>1 DEF AdmitScan, Acquire
  <2> QED
    BY <1>2, <2>2, <2>3, CorridorIsUnharmed, CallKept DEF Corridor
<1>8. CASE TakeBatch(w)
  <2>1. PICK batch : batch = Newest(Unscanned(old))
    OBVIOUS
  <2>2. PICK seen : seen = {[capture |-> c, shown |-> Shown(c)] : c \in batch}
    OBVIOUS
  <2>3. batch \subseteq Captures
    BY <2>1 DEF Newest, Unscanned, Held
  <2>4. seen \in SUBSET [capture: Captures, shown: Snapshot]
    BY <1>2, <2>2, <2>3, Revisions
  <2>5. PICK below \in SUBSET Captures : below = old.below \cup batch
    BY <2>3 DEF CallT
  <2>6. PICK older \in BOOLEAN : older = (batch # Unscanned(old))
    OBVIOUS
  <2>7. PICK call : call = [old EXCEPT !.at = "scanning", !.running = TRUE,
                             !.seen = seen, !.below = below, !.older = older]
    OBVIOUS
  <2>8. /\ call \in CallT /\ call.at = "scanning" /\ call.seen = seen
        /\ call.below = below /\ call.older = older
        /\ call.wants = old.wants /\ call.next = old.next /\ call.memory = old.memory
    BY <2>4, <2>7 DEF CallT, Progress
  <2>9. Becomes(w, call) /\ old.at = "asking" /\ UNCHANGED worldVars
    BY <1>1, <1>8, <2>1, <2>2, <2>5, <2>6, <2>7 DEF TakeBatch
  <2> QED
    BY <1>2, <2>1, <2>2, <2>5, <2>6, <2>8, <2>9, BatchIsUnharmed, CallKept
<1>9. CASE NothingToScan(w)
  <2>1. PICK call : call = [old EXCEPT !.at = "following", !.below = {},
                                       !.running = FALSE]
    OBVIOUS
  <2>2. /\ call \in CallT /\ call.at = "following" /\ call.below = {}
        /\ call.seen = old.seen /\ call.older = old.older
        /\ call.wants = old.wants /\ call.next = old.next /\ call.memory = old.memory
    BY <2>1 DEF CallT, Progress
  <2>3. /\ Becomes(w, call) /\ old.at = "asking" /\ UNCHANGED worldVars
        /\ Unscanned(old) = {}
    BY <1>1, <1>9, <2>1 DEF NothingToScan, Return
  <2> QED
    BY <1>2, <2>2, <2>3, ScannedIsUnharmed, CallKept
<1>10. CASE Inspect(w)
  <2>1. old.at \in {"scanning", "inspecting"} /\ UNCHANGED worldVars
    BY <1>1, <1>10 DEF Inspect, Return
  <2>2. CASE \E s \in old.seen : Satisfies(old.wants, s.shown)
    <3>1. Becomes(w, [Answered(wait[w], "matched") EXCEPT !.running = FALSE])
      <4> HIDE DEF Answered, Satisfies
      <4> QED BY <1>1, <1>10, <2>2 DEF Inspect, Return
    <3> QED BY <2>1, <3>1, AnsweredKept DEF Answers
  <2>3. CASE \A s \in old.seen : ~Satisfies(old.wants, s.shown)
    <3>1. PICK memory \in [Captures -> Remembered] : memory = Learned(old)
      BY <1>2, LearnedIsMemory DEF Unharmed
    <3>2. PICK call :
            call = IF old.older
                     THEN [old EXCEPT !.at = "admitting", !.seen = {},
                             !.memory = memory, !.older = FALSE, !.running = FALSE]
                     ELSE [old EXCEPT !.at = "following", !.seen = {},
                             !.memory = memory, !.below = {}, !.running = FALSE]
      OBVIOUS
    <3>3. /\ call \in CallT /\ ~call.older /\ call.seen = {} /\ call.memory = memory
          /\ call.at = IF old.older THEN "admitting" ELSE "following"
          /\ call.below = IF old.older THEN old.below ELSE {}
          /\ call.wants = old.wants /\ call.next = old.next
      BY <3>2 DEF CallT, Progress
    <3>4. Becomes(w, call)
      <4> HIDE DEF Answered, Satisfies, Learned
      <4> QED BY <1>1, <1>10, <2>3, <3>1, <3>2 DEF Inspect, Return
    <3> QED
      BY <1>2, <2>1, <2>3, <3>1, <3>3, <3>4, InspectedIsUnharmed, CallKept
  <2> QED BY <2>2, <2>3
<1>11. CASE MissChanges(w)
  BY <1>11, AnsweredKept DEF MissChanges, Answers
<1>12. ASSUME Reading(w)
       PROVE  /\ old.at = "following" /\ old.next \in 1..Len(log)
              /\ NextChange(w) = log[old.next] /\ log[old.next].capture \in Captures
  <2>1. /\ old.at = "following" /\ old.next <= Len(log) /\ NextChange(w) = log[old.next]
    BY <1>1, <1>12 DEF Reading, HasNext, NextChange
  <2>2. old.next \in 1..Len(log) /\ log \in Seq(Change)
    BY <1>2, <2>1 DEF Unharmed, Placed, Active, WorldTypeOK
  <2>3. log[old.next] \in Change
    BY <2>2
  <2> QED BY <2>1, <2>2, <2>3 DEF Change
<1>13. CASE ReadRemoval(w)
  <2>1. /\ old.at = "following" /\ old.next \in 1..Len(log)
        /\ NextChange(w) = log[old.next]
    BY <1>12, <1>13 DEF ReadRemoval
  <2>2. PICK c \in Captures : c = log[old.next].capture
    BY <1>12, <1>13 DEF ReadRemoval
  <2>3. CASE old.memory[c].pending
    <3>1. Becomes(w, Answered(wait[w], "lost")) /\ UNCHANGED worldVars
      <4> HIDE DEF Answered
      <4> QED BY <1>1, <1>13, <2>1, <2>2, <2>3 DEF ReadRemoval
    <3> QED BY <3>1, AnsweredKept DEF Answers
  <2>4. CASE ~old.memory[c].pending
    <3>1. PICK memory : memory = [old.memory EXCEPT ![c] = Nothing]
      OBVIOUS
    <3>2. Nothing \in Remembered
      BY WorldAssumption DEF Nothing, Remembered
    <3>3. /\ memory \in [Captures -> Remembered] /\ memory[c] = Nothing
          /\ \A d \in Captures : d # c => memory[d] = old.memory[d]
      BY <3>1, <3>2 DEF CallT
    <3>4. PICK next \in Nat : next = old.next + 1
      BY DEF CallT
    <3>5. PICK call : call = [old EXCEPT !.next = next, !.memory = memory]
      OBVIOUS
    <3>6. /\ call \in CallT /\ call.at = old.at /\ call.next = old.next + 1
          /\ call.memory = memory /\ call.below = old.below /\ call.older = old.older
          /\ call.wants = old.wants /\ call.seen = old.seen
      BY <3>3, <3>4, <3>5 DEF CallT
    <3>7. Becomes(w, call) /\ UNCHANGED worldVars
      <4> HIDE DEF Answered, Nothing
      <4> QED BY <1>1, <1>13, <2>1, <2>2, <2>4, <3>1, <3>4, <3>5 DEF ReadRemoval
    <3>8. log[old.next].kind \in Removals
      BY <1>13, <2>1 DEF ReadRemoval
    <3>9. call.at \in {"following", "materializing"}
      BY <2>1, <3>6
    <3>10. Unharmed(call)
      BY <1>2, <2>1, <2>2, <3>3, <3>6, <3>8, <3>9, ReadOnIsUnharmed
    <3> QED
      BY <3>6, <3>7, <3>10, CallKept
  <2> QED BY <2>3, <2>4
<1>14. CASE ReadKnown(w)
  <2>1. /\ old.at = "following" /\ old.next \in 1..Len(log)
        /\ NextChange(w) = log[old.next]
    BY <1>12, <1>14 DEF ReadKnown
  <2>2. PICK c \in Captures : c = log[old.next].capture
    BY <1>12, <1>14 DEF ReadKnown
  <2>3. PICK call : call = [old EXCEPT !.next = old.next + 1]
    OBVIOUS
  <2>4. /\ call \in CallT /\ call.at = old.at /\ call.next = old.next + 1
        /\ call.memory = old.memory /\ call.below = old.below /\ call.older = old.older
        /\ call.wants = old.wants /\ call.seen = old.seen
    BY <2>3 DEF CallT
  <2>5. Becomes(w, call) /\ UNCHANGED worldVars
    BY <1>1, <1>14, <2>3 DEF ReadKnown
  <2>6. /\ log[old.next].kind \notin Removals
        /\ log[old.next].revision <= old.memory[c].revision
    BY <1>1, <1>14, <2>1, <2>2 DEF ReadKnown, Known
  <2>7. Unharmed(call)
    BY <1>2, <2>1, <2>2, <2>4, <2>6, ReadOnIsUnharmed
  <2> QED
    BY <2>4, <2>5, <2>7, CallKept
<1>15. CASE ReadUpdate(w)
  <2>1. /\ old.at = "following" /\ old.next \in 1..Len(log)
        /\ NextChange(w) = log[old.next]
    BY <1>12, <1>15 DEF ReadUpdate
  <2>2. PICK c \in Captures : c = log[old.next].capture
    BY <1>12, <1>15 DEF ReadUpdate
  <2>3. PICK next \in Nat : next = old.next + 1
    BY DEF CallT
  <2>4. PICK call : call = [old EXCEPT !.at = "materializing", !.next = next]
    OBVIOUS
  <2>5. /\ call \in CallT /\ call.at = "materializing" /\ call.next = old.next + 1
        /\ call.memory = old.memory /\ call.below = old.below /\ call.older = old.older
        /\ call.wants = old.wants /\ call.seen = old.seen
    BY <2>3, <2>4 DEF CallT, Progress
  <2>6. Becomes(w, call) /\ UNCHANGED worldVars
    BY <1>1, <1>15, <2>3, <2>4 DEF ReadUpdate
  <2>7. log[old.next].kind \notin Removals
    BY <1>15, <2>1 DEF ReadUpdate
  <2>8. Unharmed(call)
    BY <1>2, <2>1, <2>2, <2>5, <2>7, ReadOnIsUnharmed
  <2> QED
    BY <2>5, <2>6, <2>8, CallKept
<1>16. CASE Materialize(w)
  <2>1. PICK c : c = log[old.next - 1].capture
    OBVIOUS
  <2>2. old.at = "materializing" /\ UNCHANGED worldVars
    BY <1>1, <1>16 DEF Materialize
  <2>3. c \in Captures
    <3>1. old.next - 1 \in 1..Len(log) /\ log \in Seq(Change)
      BY <1>2, <2>2 DEF Unharmed, Placed, WorldTypeOK
    <3>2. log[old.next - 1] \in Change
      BY <3>1
    <3> QED BY <2>1, <3>2 DEF Change
  <2>4. CASE Stored(c)
    <3>1. PICK seen : seen = {[capture |-> c, shown |-> Shown(c)]}
      OBVIOUS
    <3>2. seen \in SUBSET [capture: Captures, shown: Snapshot]
      BY <1>2, <2>3, <3>1, Revisions
    <3>3. PICK call : call = [old EXCEPT !.at = "readmitting", !.seen = seen]
      OBVIOUS
    <3>4. /\ call \in CallT /\ call.at = "readmitting" /\ call.seen = seen
          /\ call.memory = old.memory /\ call.below = old.below
          /\ call.older = old.older /\ call.wants = old.wants /\ call.next = old.next
      BY <3>2, <3>3 DEF CallT, Progress
    <3>5. Becomes(w, call)
      <4> HIDE DEF Answered
      <4> QED BY <1>1, <1>16, <2>1, <2>4, <3>1, <3>3 DEF Materialize
    <3> QED
      BY <1>2, <2>1, <2>2, <2>3, <2>4, <3>1, <3>4, <3>5,
         MaterializedIsUnharmed, CallKept
  <2>5. CASE ~Stored(c)
    <3>1. Becomes(w, Answered(wait[w], "lost"))
      <4> HIDE DEF Answered
      <4> QED BY <1>1, <1>16, <2>1, <2>5 DEF Materialize
    <3> QED BY <2>2, <3>1, AnsweredKept DEF Answers
  <2> QED BY <2>4, <2>5
<1>17. CASE AdmitInspect(w)
  <2>1. PICK call : call = [old EXCEPT !.at = "inspecting", !.running = TRUE]
    OBVIOUS
  <2>2. call \in CallT /\ Carried(call, old) /\ call.at = "inspecting"
    BY <2>1 DEF CallT, Progress, Carried
  <2>3. Becomes(w, call) /\ old.at = "readmitting" /\ UNCHANGED worldVars
    BY <1>1, <1>17, <2>1 DEF AdmitInspect, Acquire
  <2> QED
    BY <1>2, <2>2, <2>3, CorridorIsUnharmed, CallKept DEF Corridor
<1>18. CASE TimeOut(w) \/ Cancel(w)
  BY <1>18, AnsweredKept DEF TimeOut, Cancel, Drop, Answers
<1>19. CASE WorkerEnds(w)
  <2>1. PICK call : call = [old EXCEPT !.running = FALSE]
    OBVIOUS
  <2>2. call \in CallT /\ Carried(call, old) /\ call.at = old.at
    BY <2>1 DEF CallT, Carried
  <2>3. Becomes(w, call) /\ UNCHANGED worldVars
    BY <1>1, <1>19, <2>1 DEF WorkerEnds, Return
  <2>4. Unharmed(call)
    BY <1>2, <2>2 DEF Unharmed, Placed, Unmissed, SeenInTime, MemoryInTime,
                      Ahead, InHand, Inspected, Carried
  <2> QED
    BY <2>2, <2>3, <2>4, CallKept
<1> QED
  BY <1>3, <1>4, <1>5, <1>6, <1>7, <1>8, <1>9, <1>10, <1>11, <1>13, <1>14, <1>15,
     <1>16, <1>17, <1>18, <1>19 DEF Steps

(***************************************************************************)
(* The theorems.                                                           *)
(***************************************************************************)
LEMMA WaitStarts == Init => WaitInv
<1> SUFFICES ASSUME Init PROVE WaitInv
  OBVIOUS
<1>1. WorldInv
  BY WorldStarts DEF Init
<1>2. Nothing \in Remembered /\ Nothing.revision = -1
  BY WorldAssumption DEF Nothing, Remembered
<1>3. [c \in Captures |-> Nothing] \in [Captures -> Remembered]
  BY <1>2
<1>4. ASSUME NEW w \in Waits PROVE wait[w] \in CallT /\ Unharmed(wait[w])
  <2>1. PICK wants \in Wanted :
          wait[w] = [at |-> "idle", wants |-> wants, next |-> 0,
                     below |-> {}, older |-> FALSE,
                     memory |-> [c \in Captures |-> Nothing],
                     seen |-> {}, running |-> FALSE, answer |-> "none"]
    BY DEF Init
  <2>2. wait[w] \in CallT
    <3> HIDE DEF Nothing
    <3>1. 0 \in Nat /\ "idle" \in Progress /\ "none" \in Answers
      BY DEF Progress, Answers
    <3> QED BY <1>3, <2>1, <3>1 DEF CallT
  <2>3. /\ wait[w].at = "idle" /\ wait[w].below = {} /\ wait[w].older = FALSE
        /\ wait[w].seen = {} /\ \A c \in Captures : wait[w].memory[c] = Nothing
    BY <2>1
  <2>4. Placed(wait[w]) /\ Unmissed(wait[w]) /\ SeenInTime(wait[w])
    BY <2>3 DEF Placed, Unmissed, SeenInTime, Active, Scanning
  <2>5. MemoryInTime(wait[w])
    BY <1>1, <1>2, <2>3, Revisions DEF MemoryInTime, WorldInv
  <2> QED BY <2>2, <2>4, <2>5 DEF Unharmed
<1>5. wait \in [Waits -> CallT]
  <2>1. wait = [w \in Waits |-> wait[w]]
    BY DEF Init
  <2> QED BY <1>4, <2>1
<1> QED
  BY <1>1, <1>4, <1>5 DEF WaitInv

LEMMA WaitNext == WaitInv /\ [Next]_vars => WaitInv'
<1> SUFFICES ASSUME WaitInv, [Next]_vars PROVE WaitInv'
  OBVIOUS
<1>1. CASE WorldNext /\ UNCHANGED wait
  BY <1>1, WorldKeepsWaits
<1>2. CASE \E w \in Waits : Steps(w)
  BY <1>2, WaitStep
<1>3. CASE UNCHANGED vars
  <2>1. WorldInv' /\ UNCHANGED worldVars /\ UNCHANGED wait
    BY <1>3, WorldStutters DEF WaitInv, vars
  <2> QED
    BY <2>1 DEF WaitInv, worldVars, Unharmed, Placed, Unmissed, SeenInTime,
                MemoryInTime, Unread, Stored, Shown, Ahead, InHand, Inspected
<1> QED
  BY <1>1, <1>2, <1>3 DEF Next, vars

\* In every state the log says of each record what the store holds, and each
\* call has every stored capture behind it, in hand or still ahead.
THEOREM WaitInvariant == Spec => []WaitInv
  BY WaitStarts, WaitNext, PTL DEF Spec

\* A wait_for_capture that follows the feed has missed no match and no loss of
\* one, however its scan of the store in batches, the pumps, the removals and
\* the other calls have interleaved.
THEOREM WaitsMissNothing == Spec => []WaitMissesNothing
<1>1. WaitInv => WaitMissesNothing
  <2> SUFFICES ASSUME WaitInv, NEW w \in Waits, NEW c \in Captures
               PROVE  /\ wait[w].at = "following" /\ Stored(c)
                            /\ Satisfies(wait[w].wants, Shown(c))
                          => Unread(wait[w].next, c)
                      /\ wait[w].at = "following" /\ Stored(c)
                            /\ Pending(wait[w].wants, Shown(c))
                          => wait[w].memory[c].pending \/ Unread(wait[w].next, c)
                      /\ wait[w].memory[c] # Nothing
                          => Stored(c) \/ Unread(wait[w].next, c)
    BY DEF WaitMissesNothing, NoMissedMatch, MemoryFollowsStore,
           LossWouldBeNoticed, RememberedAreRetained
  <2>1. PICK call \in CallT : call = wait[w]
    BY DEF WaitInv
  <2>2. Unharmed(call)
    BY <2>1 DEF WaitInv
  <2>3. ASSUME call.at = "following", Stored(c)
        PROVE  Unread(call.next, c) \/ Inspected(call, c)
    <3>1. ~Ahead(call, c) /\ ~InHand(call, c)
      BY <2>2, <2>3 DEF Unharmed, Placed, Ahead, InHand
    <3> QED
      BY <2>2, <2>3, <3>1 DEF Unharmed, Unmissed, Active
  <2>4. ASSUME Inspected(call, c)
        PROVE  /\ ~Satisfies(call.wants, Shown(c))
               /\ Pending(call.wants, Shown(c)) => call.memory[c].pending
    <3> HIDE DEF Pending, Satisfies
    <3> QED BY <2>4 DEF Inspected
  <2>5. call.memory[c] # Nothing => Stored(c) \/ Unread(call.next, c)
    BY <2>2 DEF Unharmed, MemoryInTime
  <2> QED
    BY <2>1, <2>3, <2>4, <2>5
<1> QED
  BY <1>1, WaitInvariant, PTL

\* What the control service and a search see of the store is the record view
\* the capture change feed promises: each record is admitted once, updated in
\* order without a hole, removed once and never mentioned again.
THEOREM WorldKeepsItsPromise == Spec => WorldKeepsPromise
<1>1. Init => View!viewInit
  BY DEF Init, WorldInit, View!viewInit, ViewOf, ChangesOf
<1>2. WaitInv /\ [Next]_vars => [View!viewNext]_[c \in Captures |-> ViewOf(c)]
  <2> SUFFICES ASSUME WaitInv, [Next]_vars
               PROVE  [View!viewNext]_[c \in Captures |-> ViewOf(c)]
    OBVIOUS
  <2>1. CASE WorldNext
    BY <2>1, WorldAdvances, ViewStep DEF WaitInv
  <2>2. CASE UNCHANGED log
    BY <2>2 DEF ViewOf, ChangesOf
  <2>3. WorldNext \/ UNCHANGED log
    BY DEF Next, vars, worldVars, Steps, Subscribe, EnterCompile, Compile, Describe,
           AdmitScan, TakeBatch, NothingToScan, Inspect, MissChanges, ReadRemoval,
           ReadKnown, ReadUpdate, Materialize, AdmitInspect, TimeOut, Cancel,
           WorkerEnds, Acquire, Return, Drop
  <2> QED BY <2>1, <2>2, <2>3
<1> QED
  BY <1>1, <1>2, WaitInvariant, PTL DEF Spec, WorldKeepsPromise, View!viewSpec

(***************************************************************************)
(* Body jobs.                                                              *)
(***************************************************************************)
JobT == [at: JobSteps, phase: Phases, key: Keys, charge: Nat,
         content: BodyRevisions \cup {None}, terminal: BOOLEAN,
         batch: [from: Nat \ {0}, to: Nat, gap: BOOLEAN], epoch: Nat, fresh: BOOLEAN]

AsShown(key) == Stored(key.capture) /\ Shown(key.capture).revision = key.revision

\* Where a call has which lease.
InPhase(call) ==
  /\ call.at \in {"describing", "planning"} => call.phase # "store"
  /\ call.at \in {"queueing", "waiting"} => call.phase = "lookup"
  /\ call.at \in {"serving", "reading", "snapshotting", "confirming", "decoding", "abandoned"}
       => call.phase = "permit"
  /\ call.at = "storing" => call.phase = "store"

\* What it was charged for.
PaidFor(call) ==
  /\ call.at \in {"reading", "snapshotting", "confirming", "decoding"}
       => call.charge = InputSize[call.key.capture]
  /\ call.at = "serving" => call.charge = DecodedLen(call.key)

\* What it has of the body is what it was asked for, if it has anything.
HasContent(call) ==
  /\ call.content \in {None, call.key.revision}
  /\ call.at \in {"serving", "confirming", "decoding", "storing", "served"} \/ call.phase = "store"
       => call.content # None

\* Its snapshot is of the present, unless something was announced since it read
\* the epoch.
SnapshotHolds(call) ==
  /\ call.epoch <= Len(log)
  /\ call.at \in {"confirming", "decoding"} \/ call.phase = "store"
       => call.epoch # Len(log) \/ AsShown(call.key)
  /\ call.at = "applying" => call.batch.to <= Len(log)

Sound(call) == InPhase(call) /\ PaidFor(call) /\ HasContent(call) /\ SnapshotHolds(call)

\* The books of the cache.
Books(c) ==
  /\ c = [entries |-> c.entries, lru |-> c.lru, bytes |-> c.bytes, clock |-> c.clock]
  /\ DOMAIN c.entries \subseteq Keys /\ IsFiniteSet(DOMAIN c.entries)
  /\ DOMAIN c.lru = {c.entries[key].used : key \in DOMAIN c.entries}
  /\ \A key \in DOMAIN c.entries :
       /\ c.entries[key] \in Entry /\ c.entries[key].content = key.revision
       /\ c.entries[key].used <= c.clock /\ c.lru[c.entries[key].used] = key
  /\ c.clock \in Nat /\ c.bytes = DecodedTotal(DOMAIN c.entries)

\* A change that is still to be read, or was read and is still to be applied.
ToApply(i) ==
  \/ i >= position
  \/ \E j \in Jobs : job[j].at = "applying" /\ i \in job[j].batch.from..job[j].batch.to

\* Some change announced the body of an entry, and all later ones about its
\* capture are still to be applied.
Traced(key) ==
  \E p \in 1..Len(log) :
    /\ log[p].capture = key.capture /\ log[p].revision = key.revision
    /\ log[p].kind \notin Removals
    /\ \A i \in 1..Len(log) : i > p /\ log[i].capture = key.capture => ToApply(i)

Charges == [j \in Jobs |-> job[j].charge]

Accounts ==
  /\ admission \in [jobs: Nat, bytes: Nat, active: Nat]
  /\ admission.jobs = Cardinality(Queued)
  /\ admission.bytes = Total(Charges, Queued)
  /\ admission.active = Cardinality(Permitted)

JobsInv ==
  /\ WorldInv /\ job \in [Jobs -> JobT] /\ Accounts
  /\ \A j \in Jobs : Sound(job[j])
  /\ Books(cache) /\ cache.bytes <= Capacity
  /\ position \in 1..(Len(log) + 1)
  /\ \A key \in DOMAIN cache.entries : Traced(key)

(***************************************************************************)
(* The cache: every operation keeps its books.                             *)
(***************************************************************************)
Lengths == [key \in Keys |-> DecodedLen(key)]

LEMMA LengthsAreNumbers == \A key \in Keys : Lengths[key] = DecodedLen(key) /\ Lengths[key] \in Nat
BY JobsAssumption DEF Lengths, DecodedLen, Keys

LEMMA DecodedTotalIs ==
  ASSUME NEW S \in SUBSET Keys, IsFiniteSet(S)
  PROVE  DecodedTotal(S) = Total(Lengths, S)
<1> DEFINE Sum(x) == x = [s \in SUBSET S |->
                IF s = {} THEN 0 ELSE DecodedLen(AnyOf(s)) + x[s \ {AnyOf(s)}]]
<1>1. PICK h : h = CHOOSE x : Sum(x)
  OBVIOUS
<1>2. DecodedTotal(S) = h[S]
  BY <1>1 DEF DecodedTotal, MapThenSumSet, MapThenFoldSet, AnyOf
<1>3. ASSUME NEW x PROVE Sum(x) <=> Summing(Lengths, S, x)
  <2>1. \A s \in SUBSET S : s # {} => AnyOf(s) \in Keys
    BY DEF AnyOf
  <2>2. \A s \in SUBSET S : s # {} => Lengths[AnyOf(s)] = DecodedLen(AnyOf(s))
    BY <2>1, LengthsAreNumbers
  <2>3. [s \in SUBSET S |->
           IF s = {} THEN 0 ELSE DecodedLen(AnyOf(s)) + x[s \ {AnyOf(s)}]]
      = [s \in SUBSET S |-> IF s = {} THEN 0 ELSE Lengths[AnyOf(s)] + x[s \ {AnyOf(s)}]]
    BY <2>2
  <2> QED BY <2>3 DEF Summing
<1>4. \A e \in S : Lengths[e] \in Nat
  BY LengthsAreNumbers
<1>5. Summing(Lengths, S, h)
  <2>1. \E x : Summing(Lengths, S, x)
    BY <1>4, SummingExists
  <2>2. \E x : Sum(x)
    BY <1>3, <2>1
  <2> HIDE DEF Sum
  <2>3. Sum(h)
    BY <1>1, <2>2
  <2> QED BY <1>3, <2>3
<1>6. Total(Lengths, S) = h[S]
  BY <1>4, <1>5, TotalIs
<1> QED BY <1>2, <1>6

LEMMA DecodedTotalSplits ==
  ASSUME NEW S \in SUBSET Keys, IsFiniteSet(S), NEW T \in SUBSET S
  PROVE  /\ DecodedTotal(S) \in Nat /\ DecodedTotal(T) \in Nat /\ DecodedTotal(S \ T) \in Nat
         /\ DecodedTotal(S) = DecodedTotal(T) + DecodedTotal(S \ T)
<1>1. IsFiniteSet(T) /\ IsFiniteSet(S \ T)
  BY FS_Subset
<1>2. /\ DecodedTotal(S) = Total(Lengths, S) /\ DecodedTotal(T) = Total(Lengths, T)
      /\ DecodedTotal(S \ T) = Total(Lengths, S \ T)
  BY <1>1, DecodedTotalIs
<1>3. \A e \in S : Lengths[e] \in Nat
  BY LengthsAreNumbers
<1>4. /\ Total(Lengths, T) \in Nat /\ Total(Lengths, S \ T) \in Nat
      /\ Total(Lengths, S) = Total(Lengths, T) + Total(Lengths, S \ T)
  BY <1>3, TotalSplits
<1> QED BY <1>2, <1>4

LEMMA DecodedTotalOfOne ==
  ASSUME NEW key \in Keys
  PROVE  DecodedTotal({key}) = DecodedLen(key) /\ DecodedTotal({}) = 0
<1>1. IsFiniteSet({key}) /\ IsFiniteSet({}) /\ {key} \in SUBSET Keys
  BY FS_Singleton, FS_EmptySet
<1>2. Lengths[key] = DecodedLen(key) /\ \A e \in {key} : Lengths[e] \in Nat
  BY LengthsAreNumbers
<1>3. Total(Lengths, {}) = 0 /\ Total(Lengths, {} \union {key}) = Lengths[key] + Total(Lengths, {})
  <2>1. PICK S : S = {key}
    OBVIOUS
  <2>2. IsFiniteSet(S) /\ {} \in SUBSET S /\ \A e \in S : Lengths[e] \in Nat
    BY <1>1, <1>2, <2>1
  <2>3. key \in S /\ key \notin {}
    BY <2>1
  <2> QED BY <2>2, <2>3, TotalAdds
<1>4. DecodedTotal({key}) = Total(Lengths, {key}) /\ DecodedTotal({}) = Total(Lengths, {})
  BY <1>1, DecodedTotalIs
<1>5. {} \union {key} = {key} /\ Lengths[key] \in Nat
  BY LengthsAreNumbers
<1> QED BY <1>2, <1>3, <1>4, <1>5

\* Entries go, with their places in the order and their bytes.
LEMMA BooksWithout ==
  ASSUME NEW c, Books(c), NEW gone \in SUBSET (DOMAIN c.entries), NEW places,
         places = {c.entries[key].used : key \in gone}, NEW d,
         d = [entries |-> Without(c.entries, gone), lru |-> Without(c.lru, places),
              bytes |-> c.bytes - DecodedTotal(gone), clock |-> c.clock]
  PROVE  /\ Books(d) /\ d.bytes <= c.bytes /\ d.bytes \in Nat /\ d.clock = c.clock
         /\ DOMAIN d.entries = DOMAIN c.entries \ gone
         /\ \A key \in DOMAIN d.entries : d.entries[key] = c.entries[key]
<1>1. PICK K : K = DOMAIN c.entries
  OBVIOUS
<1>2. /\ DOMAIN d.entries = K \ gone
      /\ \A key \in K \ gone : d.entries[key] = c.entries[key]
      /\ DOMAIN d.lru = DOMAIN c.lru \ places
      /\ \A t \in DOMAIN c.lru \ places : d.lru[t] = c.lru[t]
      /\ d.bytes = c.bytes - DecodedTotal(gone) /\ d.clock = c.clock
  BY <1>1 DEF Without
<1>3. K \subseteq Keys /\ IsFiniteSet(K) /\ K \ gone \subseteq Keys /\ IsFiniteSet(K \ gone)
  BY <1>1, FS_Subset DEF Books
<1>4. /\ d.bytes = DecodedTotal(K \ gone) /\ d.bytes \in Nat /\ d.bytes <= c.bytes
  <2>1. /\ DecodedTotal(K) = DecodedTotal(gone) + DecodedTotal(K \ gone)
        /\ DecodedTotal(gone) \in Nat /\ DecodedTotal(K \ gone) \in Nat
    BY <1>1, <1>3, DecodedTotalSplits
  <2>2. c.bytes = DecodedTotal(K)
    BY <1>1 DEF Books
  <2> QED BY <1>2, <2>1, <2>2
<1>5. ASSUME NEW key \in K \ gone PROVE c.entries[key].used \in DOMAIN c.lru \ places
  <2>1. c.lru[c.entries[key].used] = key /\ c.entries[key].used \in DOMAIN c.lru
    BY <1>1 DEF Books
  <2>2. \A k \in gone : c.lru[c.entries[k].used] = k
    BY DEF Books
  <2> QED BY <2>1, <2>2
<1>6. DOMAIN d.lru = {d.entries[key].used : key \in K \ gone}
  <2>1. DOMAIN c.lru = {c.entries[key].used : key \in K}
    BY <1>1 DEF Books
  <2>2. ASSUME NEW t \in DOMAIN d.lru PROVE \E key \in K \ gone : t = d.entries[key].used
    <3>1. PICK key \in K : t = c.entries[key].used
      BY <1>2, <2>1
    <3>2. key \notin gone
      BY <1>2, <3>1
    <3> QED BY <1>2, <3>1, <3>2
  <2>3. ASSUME NEW key \in K \ gone PROVE d.entries[key].used \in DOMAIN d.lru
    BY <1>2, <1>5
  <2>4. DOMAIN d.lru \subseteq {d.entries[key].used : key \in K \ gone}
    BY <2>2
  <2>5. {d.entries[key].used : key \in K \ gone} \subseteq DOMAIN d.lru
    BY <2>3
  <2> QED BY <2>4, <2>5
<1>7. ASSUME NEW key \in K \ gone
      PROVE  /\ d.entries[key] \in Entry /\ d.entries[key].content = key.revision
             /\ d.entries[key].used <= d.clock /\ d.lru[d.entries[key].used] = key
  <2>1. /\ c.entries[key] \in Entry /\ c.entries[key].content = key.revision
        /\ c.entries[key].used <= c.clock /\ c.lru[c.entries[key].used] = key
    BY <1>1 DEF Books
  <2> QED BY <1>2, <1>5, <2>1
<1>8. c.clock \in Nat
  BY DEF Books
<1>9. d = [entries |-> d.entries, lru |-> d.lru, bytes |-> d.bytes, clock |-> d.clock]
  OBVIOUS
<1>10. Books(d)
  BY <1>2, <1>3, <1>4, <1>6, <1>7, <1>8, <1>9 DEF Books
<1> QED BY <1>1, <1>2, <1>4, <1>10

\* An entry is used, or enters as the one used last.
Entering(c, key, now) ==
  [entries |-> With(c.entries, key, [content |-> key.revision, used |-> now]),
   lru |-> With(c.lru, now, key),
   bytes |-> c.bytes + DecodedLen(key), clock |-> now]

LEMMA BooksWith ==
  ASSUME NEW c, Books(c), NEW key \in Keys, key \notin DOMAIN c.entries, NEW now,
         now = c.clock + 1, NEW d, d = Entering(c, key, now)
  PROVE  /\ Books(d) /\ d.bytes \in Nat
         /\ DOMAIN d.entries = DOMAIN c.entries \union {key}
<1>1. PICK K, L : K = DOMAIN c.entries \union {key} /\ L = DOMAIN c.lru
  OBVIOUS
<1>2. /\ DOMAIN d.entries = K /\ d.entries[key] = [content |-> key.revision, used |-> now]
      /\ \A k \in K \ {key} : d.entries[k] = c.entries[k]
      /\ DOMAIN d.lru = L \union {now} /\ d.lru[now] = key
      /\ \A t \in L \ {now} : d.lru[t] = c.lru[t]
      /\ d.bytes = c.bytes + DecodedLen(key) /\ d.clock = now
  BY <1>1 DEF With, Entering
<1>3. /\ K \subseteq Keys /\ IsFiniteSet(K) /\ K \ {key} = DOMAIN c.entries
      /\ c.clock \in Nat /\ now \in Nat
  <2>1. IsFiniteSet(DOMAIN c.entries) /\ DOMAIN c.entries \subseteq Keys /\ c.clock \in Nat
    BY DEF Books
  <2> QED BY <1>1, <2>1, FS_AddElement
<1>4. d.bytes = DecodedTotal(K) /\ d.bytes \in Nat
  <2>1. /\ DecodedTotal(K) = DecodedTotal({key}) + DecodedTotal(K \ {key})
        /\ DecodedTotal(K \ {key}) \in Nat /\ DecodedTotal({key}) \in Nat
    BY <1>1, <1>3, DecodedTotalSplits
  <2>2. c.bytes = DecodedTotal(K \ {key}) /\ DecodedTotal({key}) = DecodedLen(key)
    BY <1>3, DecodedTotalOfOne DEF Books
  <2> QED BY <1>2, <2>1, <2>2
<1>5. ASSUME NEW k \in K \ {key}
      PROVE  /\ c.entries[k] \in Entry /\ c.entries[k].content = k.revision
             /\ c.entries[k].used \in Nat /\ c.entries[k].used <= c.clock
             /\ c.entries[k].used \in L \ {now} /\ c.lru[c.entries[k].used] = k
  <2>1. /\ c.entries[k] \in Entry /\ c.entries[k].content = k.revision
        /\ c.entries[k].used <= c.clock /\ c.lru[c.entries[k].used] = k
        /\ c.entries[k].used \in L
    BY <1>1, <1>3 DEF Books
  <2>2. c.entries[k].used \in Nat
    BY <2>1 DEF Entry
  <2> QED BY <1>3, <2>1, <2>2
<1>6. DOMAIN d.lru = {d.entries[k].used : k \in K}
  <2>1. L = {c.entries[k].used : k \in K \ {key}}
    BY <1>1, <1>3 DEF Books
  <2>2. key \in K /\ d.entries[key].used = now
    BY <1>1, <1>2
  <2>3. \A k \in K \ {key} : d.entries[k].used = c.entries[k].used
    BY <1>2
  <2>4. ASSUME NEW t \in L \union {now} PROVE \E k \in K : t = d.entries[k].used
    BY <2>1, <2>2, <2>3
  <2>5. ASSUME NEW k \in K PROVE d.entries[k].used \in L \union {now}
    <3>1. CASE k = key
      BY <2>2, <3>1
    <3>2. CASE k # key
      BY <1>5, <2>3, <3>2
    <3> QED BY <3>1, <3>2
  <2>6. L \union {now} \subseteq {d.entries[k].used : k \in K}
    BY <2>4
  <2>7. {d.entries[k].used : k \in K} \subseteq L \union {now}
    BY <2>5
  <2> QED BY <1>2, <2>6, <2>7
<1>7. ASSUME NEW k \in K
      PROVE  /\ d.entries[k] \in Entry /\ d.entries[k].content = k.revision
             /\ d.entries[k].used <= d.clock /\ d.lru[d.entries[k].used] = k
  <2>1. CASE k = key
    <3>1. key.revision \in BodyRevisions
      BY DEF Keys
    <3>2. d.entries[k] \in Entry
      BY <1>2, <1>3, <2>1, <3>1 DEF Entry
    <3> QED BY <1>2, <1>3, <2>1, <3>2
  <2>2. CASE k # key
    <3>1. d.entries[k] = c.entries[k]
      BY <1>2, <2>2
    <3> QED BY <1>2, <1>3, <1>5, <2>2, <3>1
  <2> QED BY <2>1, <2>2
<1>8. d = [entries |-> d.entries, lru |-> d.lru, bytes |-> d.bytes, clock |-> d.clock]
  BY DEF Entering
<1>9. Books(d)
  BY <1>2, <1>3, <1>4, <1>6, <1>7, <1>8 DEF Books
<1> QED BY <1>1, <1>2, <1>4, <1>9

LEMMA BytesAreANumber ==
  ASSUME NEW c, Books(c) PROVE c.bytes \in Nat
<1>1. IsFiniteSet(DOMAIN c.entries) /\ DOMAIN c.entries \in SUBSET Keys
  BY DEF Books
<1>2. {} \in SUBSET (DOMAIN c.entries)
  OBVIOUS
<1>3. DecodedTotal(DOMAIN c.entries) \in Nat
  BY <1>1, <1>2, DecodedTotalSplits
<1> QED BY <1>3 DEF Books

\* retain, remove and clear.
LEMMA RemovingKeeps ==
  ASSUME Books(cache), NEW gone \in SUBSET (DOMAIN cache.entries), NEW d, d = Removing(gone)
  PROVE  /\ Books(d) /\ d.bytes <= cache.bytes /\ d.bytes \in Nat /\ d.clock = cache.clock
         /\ DOMAIN d.entries = DOMAIN cache.entries \ gone
<1>1. PICK places : places = {cache.entries[key].used : key \in gone}
  OBVIOUS
<1>2. cache = [entries |-> cache.entries, lru |-> cache.lru, bytes |-> cache.bytes,
               clock |-> cache.clock]
  BY DEF Books
<1>3. d = [entries |-> Without(cache.entries, gone), lru |-> Without(cache.lru, places),
           bytes |-> cache.bytes - DecodedTotal(gone), clock |-> cache.clock]
  <2>1. d = [cache EXCEPT !.entries = Without(cache.entries, gone),
                          !.lru = Without(cache.lru, places),
                          !.bytes = cache.bytes - DecodedTotal(gone)]
    BY <1>1, <1>2 DEF Removing
  <2> HIDE DEF Without
  <2> QED BY <1>2, <2>1
<1> QED BY <1>1, <1>3, BooksWithout

LEMMA ClearedKeeps ==
  ASSUME Books(cache), NEW d, d = Cleared
  PROVE  Books(d) /\ d.bytes = 0 /\ DOMAIN d.entries = {}
<1>1. /\ d = [entries |-> <<>>, lru |-> <<>>, bytes |-> 0, clock |-> cache.clock]
      /\ cache.clock \in Nat
  BY DEF Books, Cleared
<1>2. DOMAIN d.entries = {} /\ DOMAIN d.lru = {} /\ d.bytes = 0 /\ d.clock \in Nat
  BY <1>1
<1>3. DecodedTotal({}) = 0
  <2>1. DecodedTotal({}) = Total(Lengths, {})
    BY FS_EmptySet, DecodedTotalIs
  <2>2. Total(Lengths, {}) = 0
    BY FS_EmptySet, TotalAdds
  <2> QED BY <2>1, <2>2
<1>4. DOMAIN d.lru = {d.entries[key].used : key \in DOMAIN d.entries}
  BY <1>2
<1>5. d = [entries |-> d.entries, lru |-> d.lru, bytes |-> d.bytes, clock |-> d.clock]
  BY <1>1
<1> QED BY <1>2, <1>3, <1>4, <1>5, FS_EmptySet DEF Books

LEMMA TouchedKeeps ==
  ASSUME Books(cache), NEW key \in DOMAIN cache.entries, NEW d, d = Touched(key)
  PROVE  Books(d) /\ d.bytes = cache.bytes /\ DOMAIN d.entries = DOMAIN cache.entries
<1>1. PICK c : c = Removing({key})
  OBVIOUS
<1>2. /\ cache = [entries |-> cache.entries, lru |-> cache.lru, bytes |-> cache.bytes,
                  clock |-> cache.clock]
      /\ key \in Keys /\ cache.entries[key] \in Entry
      /\ cache.entries[key].content = key.revision
  BY DEF Books
<1>3. PICK places : places = {cache.entries[key].used}
  OBVIOUS
<1>4. /\ c.entries = Without(cache.entries, {key}) /\ c.lru = Without(cache.lru, places)
      /\ c.bytes = cache.bytes - DecodedTotal({key}) /\ c.clock = cache.clock
  BY <1>1, <1>2, <1>3 DEF Removing
<1>5. Books(c) /\ c.bytes \in Nat /\ DOMAIN c.entries = DOMAIN cache.entries \ {key}
  BY <1>1, RemovingKeeps
<1>6. PICK now : now = cache.clock + 1
  OBVIOUS
<1>7. d = [entries |-> [cache.entries EXCEPT ![key].used = now],
           lru |-> With(Without(cache.lru, places), now, key),
           bytes |-> cache.bytes, clock |-> now]
  BY <1>2, <1>3, <1>6 DEF Touched, Now
<1>8. [cache.entries EXCEPT ![key].used = now]
        = With(c.entries, key, [content |-> key.revision, used |-> now])
  <2>1. [cache.entries[key] EXCEPT !.used = now] = [content |-> key.revision, used |-> now]
    BY <1>2 DEF Entry
  <2>2. [cache.entries EXCEPT ![key].used = now]
          = [k \in DOMAIN cache.entries |->
               IF k = key THEN [content |-> key.revision, used |-> now] ELSE cache.entries[k]]
    BY <2>1
  <2>3. DOMAIN c.entries \union {key} = DOMAIN cache.entries
    BY <1>5
  <2>4. \A k \in DOMAIN cache.entries : k # key => c.entries[k] = cache.entries[k]
    BY <1>4 DEF Without
  <2> QED BY <2>2, <2>3, <2>4 DEF With
<1>9. cache.bytes = c.bytes + DecodedLen(key)
  <2>1. DecodedTotal({key}) = DecodedLen(key)
    BY <1>2, DecodedTotalOfOne
  <2>2. DecodedLen(key) \in Nat
    BY <1>2, JobsAssumption DEF DecodedLen, Keys
  <2>3. cache.bytes \in Nat
    BY BytesAreANumber
  <2> QED BY <1>4, <2>1, <2>2, <2>3
<1>10. d = Entering(c, key, now)
  BY <1>4, <1>7, <1>8, <1>9 DEF Entering
<1>11. /\ Books(d) /\ DOMAIN d.entries = DOMAIN c.entries \union {key}
  <2>1. now = c.clock + 1 /\ key \notin DOMAIN c.entries
    BY <1>4, <1>5, <1>6
  <2> QED BY <1>2, <1>5, <1>10, <2>1, BooksWith
<1> QED BY <1>5, <1>7, <1>11

\* What is left fits, or nothing is left.
LEMMA MakingRoomKeeps ==
  ASSUME NEW c, Books(c), NEW d, d = MakingRoom(c)
  PROVE  Books(d) /\ d.bytes <= Capacity /\ DOMAIN d.entries \subseteq DOMAIN c.entries
<1> DEFINE Before(t) == {c.lru[u] : u \in {u \in DOMAIN c.lru : u < t}}
<1>1. PICK K, L : K = DOMAIN c.entries /\ L = DOMAIN c.lru
  OBVIOUS
<1>2. PICK popped \in SUBSET L :
        popped = {t \in L : c.bytes - DecodedTotal(Before(t)) > Capacity}
  OBVIOUS
<1>3. PICK victims : victims = {c.lru[t] : t \in popped}
  OBVIOUS
<1>4. /\ c = [entries |-> c.entries, lru |-> c.lru, bytes |-> c.bytes, clock |-> c.clock]
      /\ K \subseteq Keys /\ IsFiniteSet(K) /\ c.bytes = DecodedTotal(K)
      /\ L = {c.entries[key].used : key \in K}
      /\ \A key \in K : c.entries[key] \in Entry /\ c.lru[c.entries[key].used] = key
  BY <1>1 DEF Books
<1>5. \A t \in L : c.lru[t] \in K /\ c.entries[c.lru[t]].used = t /\ t \in Nat
  BY <1>4 DEF Entry
<1>6. victims \subseteq K /\ \A t : Before(t) \subseteq K
  <2>1. \A t \in L : c.lru[t] \in K
    BY <1>5
  <2>2. victims \subseteq K
    BY <1>2, <1>3, <2>1
  <2>3. ASSUME NEW t PROVE Before(t) \subseteq K
    BY <1>1, <2>1
  <2> QED BY <2>2, <2>3
<1>7. d = [entries |-> Without(c.entries, victims), lru |-> Without(c.lru, popped),
           bytes |-> c.bytes - DecodedTotal(victims), clock |-> c.clock]
  <2>1. d = [c EXCEPT !.entries = Without(c.entries, victims),
                      !.lru = Without(c.lru, popped),
                      !.bytes = c.bytes - DecodedTotal(victims)]
    BY <1>1, <1>2, <1>3, <1>4 DEF MakingRoom
  <2> QED BY <1>4, <2>1
<1>8. popped = {c.entries[key].used : key \in victims}
  <2>1. \A t \in popped : c.lru[t] \in victims /\ c.entries[c.lru[t]].used = t
    BY <1>2, <1>3, <1>5
  <2>2. \A key \in victims : c.entries[key].used \in popped
    BY <1>2, <1>3, <1>5
  <2>3. popped \subseteq {c.entries[key].used : key \in victims}
    BY <2>1
  <2>4. {c.entries[key].used : key \in victims} \subseteq popped
    BY <2>2
  <2> QED BY <2>3, <2>4
<1>9. Books(d) /\ DOMAIN d.entries \subseteq DOMAIN c.entries
  <2>1. victims \in SUBSET (DOMAIN c.entries)
    BY <1>1, <1>6
  <2>2. PICK places : places = {c.entries[key].used : key \in victims}
    OBVIOUS
  <2>3. popped = places
    BY <1>8, <2>2
  <2>4. d = [entries |-> Without(c.entries, victims), lru |-> Without(c.lru, places),
             bytes |-> c.bytes - DecodedTotal(victims), clock |-> c.clock]
    BY <1>7, <2>3
  <2> HIDE DEF Before
  <2>5. PICK gone \in SUBSET (DOMAIN c.entries) : gone = victims
    BY <2>1
  <2>6. Books(d)
    BY <2>2, <2>4, <2>5, BooksWithout
  <2>7. DOMAIN d.entries = DOMAIN c.entries \ victims
    BY <2>4 DEF Without
  <2> QED BY <2>6, <2>7
<1>10. d.bytes <= Capacity
  <2>0. Capacity \in Nat
    BY JobsAssumption
  <2>1. /\ DecodedTotal(K) = DecodedTotal(victims) + DecodedTotal(K \ victims)
        /\ DecodedTotal(victims) \in Nat /\ DecodedTotal(K \ victims) \in Nat
    BY <1>4, <1>6, DecodedTotalSplits
  <2>2. CASE popped = L
    <3>1. victims = K
      BY <1>3, <1>4, <1>6, <2>2
    <3>2. d.bytes = 0
      BY <1>4, <1>7, <2>1, <3>1
    <3> QED BY <2>0, <3>2
  <2>3. CASE popped # L
    <3>1. IsFiniteSet(L \ popped)
      <4>1. PICK f : f = [t \in L |-> c.lru[t]]
        OBVIOUS
      <4>2. f \in Injection(L, K)
        BY <1>5, <4>1 DEF Injection, IsInjective
      <4>3. IsFiniteSet(L)
        BY <1>4, <4>2, FS_Injection
      <4> QED BY <4>3, FS_Subset
    <3>2. L \ popped \subseteq Int /\ L \ popped # {}
      BY <1>2, <1>5, <2>3
    <3>3. PICK r \in L \ popped : \A z \in L \ popped : r <= z
      BY <3>1, <3>2, HasExtremes
    <3>4. PICK B \in SUBSET K : B = Before(r)
      BY <1>6
    <3>5. B \subseteq victims
      <4>1. ASSUME NEW u \in L, u < r PROVE u \in popped
        BY <1>5, <3>3, <4>1
      <4> QED BY <1>1, <1>3, <3>4, <4>1
    <3>6. ~(c.bytes - DecodedTotal(B) > Capacity)
      BY <1>2, <3>3, <3>4
    <3>7. /\ DecodedTotal(victims) = DecodedTotal(B) + DecodedTotal(victims \ B)
          /\ DecodedTotal(B) \in Nat /\ DecodedTotal(victims \ B) \in Nat
      <4>1. IsFiniteSet(victims) /\ victims \in SUBSET Keys
        BY <1>4, <1>6, FS_Subset
      <4> QED BY <3>5, <4>1, DecodedTotalSplits
    <3>8. c.bytes \in Nat /\ d.bytes = c.bytes - DecodedTotal(victims)
      BY <1>4, <1>7, <2>1
    <3> QED BY <2>0, <2>1, <3>6, <3>7, <3>8
  <2> QED BY <2>2, <2>3
<1> QED BY <1>9, <1>10

LEMMA InsertedKeeps ==
  ASSUME Books(cache), cache.bytes <= Capacity, NEW key \in Keys,
         NEW d, d = Inserted(key, key.revision)
  PROVE  Books(d) /\ d.bytes <= Capacity /\ DOMAIN d.entries \subseteq DOMAIN cache.entries \union {key}
<1>1. PICK c : c = Removing({key} \intersect DOMAIN cache.entries)
  OBVIOUS
<1>2. /\ Books(c) /\ c.bytes <= cache.bytes /\ c.bytes \in Nat /\ c.clock = cache.clock
      /\ DOMAIN c.entries = DOMAIN cache.entries \ ({key} \intersect DOMAIN cache.entries)
  BY <1>1, RemovingKeeps
<1>3. CASE DecodedLen(key) > Capacity
  <2>1. d = c
    BY <1>1, <1>3 DEF Inserted
  <2>2. cache.bytes \in Nat /\ Capacity \in Nat
    BY BytesAreANumber, JobsAssumption
  <2> QED BY <1>2, <2>1, <2>2
<1>4. CASE ~(DecodedLen(key) > Capacity)
  <2>1. PICK now : now = cache.clock + 1
    OBVIOUS
  <2>2. PICK e : e = Entering(c, key, now)
    OBVIOUS
  <2>3. d = MakingRoom(e)
    BY <1>1, <1>4, <2>1, <2>2 DEF Inserted, Now, Entering
  <2>4. Books(e) /\ DOMAIN e.entries = DOMAIN c.entries \union {key}
    <3>1. key \notin DOMAIN c.entries /\ now = c.clock + 1
      BY <1>2, <2>1
    <3>2. Books(c) /\ key \in Keys
      BY <1>2
    <3> QED BY <2>2, <3>1, <3>2, BooksWith
  <2>5. Books(d) /\ d.bytes <= Capacity /\ DOMAIN d.entries \subseteq DOMAIN e.entries
    BY <2>3, <2>4, MakingRoomKeeps
  <2> QED BY <1>2, <2>4, <2>5
<1> QED BY <1>3, <1>4

(***************************************************************************)
(* The admission: a step of a call changes what is charged for it alone.   *)
(***************************************************************************)
InQueue(call) == call.at = "waiting"
Works(call) == call.phase = "permit" /\ call.at \notin Ended
One(holds) == IF holds THEN 1 ELSE 0

\* The admission once a call has become another.
After(old, new) ==
  [jobs   |-> admission.jobs - One(InQueue(old)) + One(InQueue(new)),
   bytes  |-> admission.bytes - (IF InQueue(old) THEN old.charge ELSE 0)
                              + (IF InQueue(new) THEN new.charge ELSE 0),
   active |-> admission.active - One(Works(old)) + One(Works(new))]

Turns(j, call) ==
  /\ call \in JobT /\ job' = [job EXCEPT ![j] = call]
  /\ admission' = After(job[j], call)
  /\ ~(InQueue(job[j]) /\ InQueue(call))

LEMMA CountOfOne ==
  ASSUME NEW S, IsFiniteSet(S), NEW T, NEW x,
         \A y : y # x => (y \in S <=> y \in T)
  PROVE  /\ IsFiniteSet(T) /\ Cardinality(S) \in Nat /\ Cardinality(T) \in Nat
         /\ Cardinality(T) = Cardinality(S) - One(x \in S) + One(x \in T)
<1>1. CASE x \in T
  <2>1. T = S \union {x}
    BY <1>1
  <2>2. IsFiniteSet(T) /\ Cardinality(T) = IF x \in S THEN Cardinality(S) ELSE Cardinality(S) + 1
    BY <2>1, FS_AddElement
  <2>3. Cardinality(S) \in Nat /\ Cardinality(T) \in Nat
    BY <2>2, FS_CardinalityType
  <2> QED BY <1>1, <2>2, <2>3 DEF One
<1>2. CASE x \notin T
  <2>1. T = S \ {x}
    BY <1>2
  <2>2. IsFiniteSet(T) /\ Cardinality(T) = IF x \in S THEN Cardinality(S) - 1 ELSE Cardinality(S)
    BY <2>1, FS_RemoveElement
  <2>3. Cardinality(S) \in Nat /\ Cardinality(T) \in Nat
    BY <2>2, FS_CardinalityType
  <2> QED BY <1>2, <2>2, <2>3 DEF One
<1> QED BY <1>1, <1>2

LEMMA AccountsFollow ==
  ASSUME job \in [Jobs -> JobT], Accounts, NEW j \in Jobs, NEW call, Turns(j, call)
  PROVE  job' \in [Jobs -> JobT] /\ Accounts'
<1>1. /\ call \in JobT /\ job' = [job EXCEPT ![j] = call] /\ admission' = After(job[j], call)
      /\ ~(InQueue(job[j]) /\ InQueue(call))
  BY DEF Turns
<1>2. /\ job' \in [Jobs -> JobT] /\ job'[j] = call
      /\ \A i \in Jobs : i # j => job'[i] = job[i]
  BY <1>1
<1>3. PICK Q, R, P, O : Q = Queued /\ R = Queued' /\ P = Permitted /\ O = Permitted'
  OBVIOUS
<1>4. /\ Q \in SUBSET Jobs /\ R \in SUBSET Jobs /\ P \in SUBSET Jobs /\ O \in SUBSET Jobs
      /\ \A i : i # j => (i \in Q <=> i \in R)
      /\ \A i : i # j => (i \in P <=> i \in O)
      /\ (j \in Q <=> InQueue(job[j])) /\ (j \in R <=> InQueue(call))
      /\ (j \in P <=> Works(job[j])) /\ (j \in O <=> Works(call))
  BY <1>2, <1>3 DEF Queued, Permitted, InQueue, Works
<1>5. IsFiniteSet(Q) /\ IsFiniteSet(P)
  BY <1>4, JobsAssumption, FS_Subset
<1>6. /\ Cardinality(R) \in Nat /\ IsFiniteSet(R)
      /\ Cardinality(R) = Cardinality(Q) - One(j \in Q) + One(j \in R)
  BY <1>4, <1>5, CountOfOne
<1>7. /\ Cardinality(O) \in Nat
      /\ Cardinality(O) = Cardinality(P) - One(j \in P) + One(j \in O)
  BY <1>4, <1>5, CountOfOne
<1>8. PICK f, g : f = Charges /\ g = Charges'
  OBVIOUS
<1>9. /\ \A i \in Jobs : f[i] = job[i].charge /\ f[i] \in Nat /\ g[i] = job'[i].charge /\ g[i] \in Nat
      /\ \A i \in Jobs : i # j => f[i] = g[i]
      /\ g[j] = call.charge
  BY <1>2, <1>8 DEF Charges, JobT
<1>10. /\ Total(g, R) \in Nat
       /\ Total(g, R) = Total(f, Q) - (IF InQueue(job[j]) THEN job[j].charge ELSE 0)
                                    + (IF InQueue(call) THEN call.charge ELSE 0)
  <2>1. PICK C : C = Q \ {j}
    OBVIOUS
  <2>2. C \in SUBSET Jobs /\ IsFiniteSet(C) /\ j \notin C /\ \A i \in C : f[i] \in Nat /\ f[i] = g[i]
    BY <1>4, <1>5, <1>9, <2>1, FS_Subset
  <2>3. Total(f, C) = Total(g, C) /\ Total(f, C) \in Nat
    <3>1. Total(f, C) = Total(g, C)
      BY <2>2, TotalAgrees
    <3>2. Total(f, C) \in Nat
      BY <2>2, TotalAdds
    <3> QED BY <3>1, <3>2
  <2>4. Total(f, C \union {j}) = f[j] + Total(f, C) /\ Total(g, C \union {j}) = g[j] + Total(g, C)
    BY <1>9, <2>2, JobsAssumption, TotalAdds
  <2>5. Q = (IF InQueue(job[j]) THEN C \union {j} ELSE C) /\ R = (IF InQueue(call) THEN C \union {j} ELSE C)
    BY <1>4, <2>1
  <2>6. f[j] = job[j].charge /\ f[j] \in Nat /\ g[j] = call.charge /\ g[j] \in Nat
    BY <1>9
  <2> HIDE DEF InQueue
  <2>7. Total(f, Q) = Total(f, C) + (IF InQueue(job[j]) THEN job[j].charge ELSE 0)
    BY <2>3, <2>4, <2>5, <2>6
  <2>8. Total(g, R) = Total(f, C) + (IF InQueue(call) THEN call.charge ELSE 0)
    BY <2>3, <2>4, <2>5, <2>6
  <2> QED BY <2>3, <2>6, <2>7, <2>8
<1>11. /\ admission.jobs = Cardinality(Q) /\ admission.bytes = Total(f, Q)
       /\ admission.active = Cardinality(P)
  BY <1>3, <1>8 DEF Accounts
<1>12. /\ admission'.jobs = Cardinality(R) /\ admission'.bytes = Total(g, R)
       /\ admission'.active = Cardinality(O)
       /\ admission' \in [jobs: Nat, bytes: Nat, active: Nat]
  <2>1. /\ admission'.jobs = admission.jobs - One(InQueue(job[j])) + One(InQueue(call))
        /\ admission'.bytes = admission.bytes - (IF InQueue(job[j]) THEN job[j].charge ELSE 0)
                                             + (IF InQueue(call) THEN call.charge ELSE 0)
        /\ admission'.active = admission.active - One(Works(job[j])) + One(Works(call))
        /\ admission' = [jobs |-> admission'.jobs, bytes |-> admission'.bytes,
                         active |-> admission'.active]
    BY <1>1 DEF After
  <2>2. /\ One(InQueue(job[j])) = One(j \in Q) /\ One(InQueue(call)) = One(j \in R)
        /\ One(Works(job[j])) = One(j \in P) /\ One(Works(call)) = One(j \in O)
    <3> HIDE DEF InQueue, Works
    <3> QED BY <1>4 DEF One
  <2>3. /\ admission'.jobs = Cardinality(R) /\ admission'.bytes = Total(g, R)
        /\ admission'.active = Cardinality(O)
    BY <1>6, <1>7, <1>10, <1>11, <2>1, <2>2
  <2> QED BY <1>6, <1>7, <1>10, <2>1, <2>3
<1> QED BY <1>2, <1>3, <1>8, <1>12 DEF Accounts

LEMMA AdmissionForms ==
  ASSUME Accounts, NEW old \in JobT, NEW new \in JobT, NEW next
  PROVE  /\ ~InQueue(old) /\ ~InQueue(new) /\ (Works(old) <=> Works(new))
              => (next = admission => next = After(old, new))
         /\ ~InQueue(old) /\ ~InQueue(new) /\ Works(old) /\ ~Works(new)
              => (next = [admission EXCEPT !.active = @ - 1] => next = After(old, new))
         /\ InQueue(old) /\ ~InQueue(new) /\ ~Works(old) /\ ~Works(new)
              => (next = [admission EXCEPT !.jobs = @ - 1, !.bytes = @ - old.charge]
                    => next = After(old, new))
         /\ InQueue(old) /\ ~InQueue(new) /\ ~Works(old) /\ Works(new)
              => (next = [admission EXCEPT !.jobs = @ - 1, !.bytes = @ - old.charge,
                                           !.active = @ + 1]
                    => next = After(old, new))
         /\ ~InQueue(old) /\ InQueue(new) /\ ~Works(old) /\ ~Works(new)
              => (next = [admission EXCEPT !.jobs = @ + 1, !.bytes = @ + new.charge]
                    => next = After(old, new))
<1>1. /\ admission \in [jobs: Nat, bytes: Nat, active: Nat]
      /\ admission.jobs \in Nat /\ admission.bytes \in Nat /\ admission.active \in Nat
  BY DEF Accounts
<1>2. old.charge \in Nat /\ new.charge \in Nat
  BY DEF JobT
<1> HIDE DEF InQueue, Works
<1>3. \A r : One(r) = IF r THEN 1 ELSE 0
  BY DEF One
<1>4. ASSUME ~InQueue(old), ~InQueue(new), Works(old) <=> Works(new)
      PROVE  After(old, new) = admission
  BY <1>1, <1>2, <1>4 DEF After, One
<1>5. ASSUME ~InQueue(old), ~InQueue(new), Works(old), ~Works(new),
             next = [admission EXCEPT !.active = @ - 1]
      PROVE  next = After(old, new)
  <2>1. After(old, new) = [jobs |-> admission.jobs, bytes |-> admission.bytes,
                           active |-> admission.active - 1]
    <3>1. /\ One(InQueue(old)) = 0 /\ One(InQueue(new)) = 0
          /\ One(Works(old)) = 1 /\ One(Works(new)) = 0
      BY <1>3, <1>5
    <3>2. /\ (IF InQueue(old) THEN old.charge ELSE 0) = 0
          /\ (IF InQueue(new) THEN new.charge ELSE 0) = 0
      BY <1>5
    <3> QED BY <1>1, <1>2, <3>1, <3>2 DEF After
  <2>2. next = [jobs |-> admission.jobs, bytes |-> admission.bytes,
                active |-> admission.active - 1]
    BY <1>1, <1>5
  <2> QED BY <2>1, <2>2
<1>6. ASSUME InQueue(old), ~InQueue(new), ~Works(old), ~Works(new),
             next = [admission EXCEPT !.jobs = @ - 1, !.bytes = @ - old.charge]
      PROVE  next = After(old, new)
  <2>1. After(old, new) = [jobs |-> admission.jobs - 1, bytes |-> admission.bytes - old.charge,
                           active |-> admission.active]
    <3>1. /\ One(InQueue(old)) = 1 /\ One(InQueue(new)) = 0
          /\ One(Works(old)) = 0 /\ One(Works(new)) = 0
      BY <1>3, <1>6
    <3>2. /\ (IF InQueue(old) THEN old.charge ELSE 0) = old.charge
          /\ (IF InQueue(new) THEN new.charge ELSE 0) = 0
      BY <1>6
    <3> QED BY <1>1, <1>2, <3>1, <3>2 DEF After
  <2>2. next = [jobs |-> admission.jobs - 1, bytes |-> admission.bytes - old.charge,
                active |-> admission.active]
    BY <1>1, <1>6
  <2> QED BY <2>1, <2>2
<1>7. ASSUME InQueue(old), ~InQueue(new), ~Works(old), Works(new),
             next = [admission EXCEPT !.jobs = @ - 1, !.bytes = @ - old.charge,
                                         !.active = @ + 1]
      PROVE  next = After(old, new)
  <2>1. After(old, new) = [jobs |-> admission.jobs - 1, bytes |-> admission.bytes - old.charge,
                           active |-> admission.active + 1]
    <3>1. /\ One(InQueue(old)) = 1 /\ One(InQueue(new)) = 0
          /\ One(Works(old)) = 0 /\ One(Works(new)) = 1
      BY <1>3, <1>7
    <3>2. /\ (IF InQueue(old) THEN old.charge ELSE 0) = old.charge
          /\ (IF InQueue(new) THEN new.charge ELSE 0) = 0
      BY <1>7
    <3> QED BY <1>1, <1>2, <3>1, <3>2 DEF After
  <2>2. next = [jobs |-> admission.jobs - 1, bytes |-> admission.bytes - old.charge,
                active |-> admission.active + 1]
    BY <1>1, <1>7
  <2> QED BY <2>1, <2>2
<1>8. ASSUME ~InQueue(old), InQueue(new), ~Works(old), ~Works(new),
             next = [admission EXCEPT !.jobs = @ + 1, !.bytes = @ + new.charge]
      PROVE  next = After(old, new)
  <2>1. After(old, new) = [jobs |-> admission.jobs + 1, bytes |-> admission.bytes + new.charge,
                           active |-> admission.active]
    <3>1. /\ One(InQueue(old)) = 0 /\ One(InQueue(new)) = 1
          /\ One(Works(old)) = 0 /\ One(Works(new)) = 0
      BY <1>3, <1>8
    <3>2. /\ (IF InQueue(old) THEN old.charge ELSE 0) = 0
          /\ (IF InQueue(new) THEN new.charge ELSE 0) = new.charge
      BY <1>8
    <3> QED BY <1>1, <1>2, <3>1, <3>2 DEF After
  <2>2. next = [jobs |-> admission.jobs + 1, bytes |-> admission.bytes + new.charge,
                active |-> admission.active]
    BY <1>1, <1>8
  <2> QED BY <2>1, <2>2
<1> QED BY <1>4, <1>5, <1>6, <1>7, <1>8

(***************************************************************************)
(* The steps of a call: each leaves it sound.                              *)
(***************************************************************************)
\* A step takes the call on, and the admission with it.
MovesOn(j) == \E call : Turns(j, call) /\ Sound(call)

CallsInv == job \in [Jobs -> JobT] /\ Accounts /\ \A j \in Jobs : Sound(job[j])

LEMMA KeysAre ==
  ASSUME NEW key \in Keys
  PROVE  /\ key.revision # None /\ key.revision \in BodyRevisions /\ key.capture \in Captures
         /\ DecodedLen(key) \in Nat /\ InputSize[key.capture] \in Nat
<1>1. MaxRevision \in Nat
  BY WorldAssumption
<1>2. InputSize \in [Captures -> Nat] /\ DecodedSize \in [Captures -> Nat]
  BY JobsAssumption
<1>3. key.revision \in BodyRevisions /\ key.capture \in Captures
  BY DEF Keys
<1> QED BY <1>1, <1>2, <1>3 DEF BodyRevisions, None, DecodedLen

LEMMA ReadBodyMoves ==
  ASSUME CallsInv, NEW j \in Jobs, ReadBody(j), WorldInv PROVE MovesOn(j)
<1>1. PICK c \in Held : job' = [job EXCEPT ![j] =
              NewCall("draining", [capture |-> c, revision |-> Shown(c).revision])]
  BY DEF ReadBody
<1>2. PICK key : key = [capture |-> c, revision |-> Shown(c).revision]
  OBVIOUS
<1>3. key \in Keys
  BY <1>2 DEF Held, WorldInv, WorldTypeOK, Shown, Snapshot, Keys, BodyRevisions
<1>4. PICK call : call = NewCall("draining", key)
  OBVIOUS
<1>5. call \in JobT /\ ~InQueue(call) /\ ~Works(call)
  <2>1. "draining" \in JobSteps /\ "lookup" \in Phases /\ 0 \in Nat /\ 1 \in Nat \ {0}
        /\ FALSE \in BOOLEAN
    BY DEF JobSteps, Phases
  <2> QED BY <1>3, <1>4, <2>1 DEF NewCall, NoBatch, JobT, InQueue, Works
<1>6. Sound(call)
  <2>1. Len(log) \in Nat
    BY DEF WorldInv, WorldTypeOK
  <2> QED BY <1>4, <2>1
        DEF NewCall, NoBatch, Sound, InPhase, PaidFor, HasContent, SnapshotHolds
<1>7. ~InQueue(job[j]) /\ ~Works(job[j]) /\ UNCHANGED admission
  BY DEF ReadBody, InQueue, Works, Ended
<1>8. admission' = After(job[j], call)
  BY <1>5, <1>7, AdmissionForms DEF CallsInv
<1> QED BY <1>1, <1>2, <1>4, <1>5, <1>6, <1>7, <1>8 DEF MovesOn, Turns

\* The admission is left alone, a permit is given back, or a place in the queue.
LEMMA MovingOn ==
  ASSUME CallsInv, NEW j \in Jobs, NEW call \in JobT, job' = [job EXCEPT ![j] = call],
         Sound(call), ~InQueue(call),
         \/ /\ UNCHANGED admission /\ ~InQueue(job[j]) /\ (Works(job[j]) <=> Works(call))
         \/ /\ admission' = LeaveActive /\ ~InQueue(job[j]) /\ Works(job[j]) /\ ~Works(call)
         \/ /\ admission' = LeaveQueue(j) /\ InQueue(job[j]) /\ ~Works(job[j]) /\ ~Works(call)
  PROVE  MovesOn(j)
<1> HIDE DEF InQueue, Works, Sound
<1>1. job[j] \in JobT /\ Accounts
  BY DEF CallsInv
<1>2. CASE UNCHANGED admission /\ ~InQueue(job[j]) /\ (Works(job[j]) <=> Works(call))
  BY <1>1, <1>2, AdmissionForms DEF MovesOn, Turns
<1>3. CASE admission' = LeaveActive /\ ~InQueue(job[j]) /\ Works(job[j]) /\ ~Works(call)
  BY <1>1, <1>3, AdmissionForms DEF MovesOn, Turns, LeaveActive
<1>4. CASE admission' = LeaveQueue(j) /\ InQueue(job[j]) /\ ~Works(job[j]) /\ ~Works(call)
  BY <1>1, <1>4, AdmissionForms DEF MovesOn, Turns, LeaveQueue
<1> QED BY <1>2, <1>3, <1>4

LEMMA DrainMoves ==
  ASSUME CallsInv, NEW j \in Jobs, Drain(j), position \in 1..(Len(log) + 1), log \in Seq(Change)
  PROVE  MovesOn(j)
<1>1. PICK old \in JobT : old = job[j] /\ Sound(old)
  BY DEF CallsInv
<1>2. PICK at, batch :
        /\ at = IF HasNext(position) THEN "applying" ELSE AfterApplying(j)
        /\ batch = IF HasNext(position)
                   THEN [from |-> position, to |-> Len(log), gap |-> Overrun(position)]
                   ELSE NoBatch
  OBVIOUS
<1>3. PICK call : call = [old EXCEPT !.at = at, !.batch = batch]
  OBVIOUS
<1>4. job' = [job EXCEPT ![j] = call]
  BY <1>1, <1>2, <1>3 DEF Drain, CallsInv
<1>5. /\ Len(log) \in Nat /\ position \in Nat \ {0}
      /\ batch \in [from: Nat \ {0}, to: Nat, gap: BOOLEAN] /\ batch.to <= Len(log)
  <2>1. Len(log) \in Nat /\ position \in Nat \ {0}
    OBVIOUS
  <2>2. CASE HasNext(position)
    BY <1>2, <2>1, <2>2 DEF Overrun
  <2>3. CASE ~HasNext(position)
    BY <1>2, <2>1, <2>3 DEF NoBatch
  <2> QED BY <2>1, <2>2, <2>3
<1>6. /\ at \in {"applying", "storing", "describing"}
      /\ at = "storing" => old.phase = "store"
      /\ at = "describing" => old.phase # "store"
  BY <1>1, <1>2 DEF AfterApplying
<1>7. /\ call \in JobT /\ call.at = at /\ call.batch = batch
      /\ call.phase = old.phase /\ call.key = old.key /\ call.charge = old.charge
      /\ call.content = old.content /\ call.epoch = old.epoch
  BY <1>1, <1>3, <1>5, <1>6 DEF JobT, JobSteps
<1>8. Sound(call)
  BY <1>1, <1>5, <1>6, <1>7 DEF Sound, InPhase, PaidFor, HasContent, SnapshotHolds
<1>9. /\ UNCHANGED admission /\ ~InQueue(old) /\ ~InQueue(call)
      /\ (Works(old) <=> Works(call))
  BY <1>1, <1>6, <1>7 DEF Drain, InQueue, Works, Ended
<1> QED BY <1>1, <1>4, <1>7, <1>8, <1>9, MovingOn

LEMMA ApplyMoves ==
  ASSUME CallsInv, NEW j \in Jobs, Apply(j) PROVE MovesOn(j)
<1>1. PICK old \in JobT : old = job[j] /\ Sound(old)
  BY DEF CallsInv
<1>2. PICK at : at = AfterApplying(j)
  OBVIOUS
<1>3. PICK call : call = [old EXCEPT !.at = at, !.batch = NoBatch]
  OBVIOUS
<1>4. job' = [job EXCEPT ![j] = call]
  BY <1>1, <1>2, <1>3 DEF Apply, CallsInv
<1>5. /\ at \in {"storing", "describing"}
      /\ at = "storing" <=> old.phase = "store"
  BY <1>1, <1>2 DEF AfterApplying
<1>6. /\ call \in JobT /\ call.at = at
      /\ call.phase = old.phase /\ call.key = old.key /\ call.charge = old.charge
      /\ call.content = old.content /\ call.epoch = old.epoch
  <2>1. NoBatch \in [from: Nat \ {0}, to: Nat, gap: BOOLEAN]
    BY DEF NoBatch
  <2> QED BY <1>1, <1>3, <1>5, <2>1 DEF JobT, JobSteps
<1>7. Sound(call)
  BY <1>1, <1>5, <1>6 DEF Sound, InPhase, PaidFor, HasContent, SnapshotHolds
<1>8. /\ UNCHANGED admission /\ ~InQueue(old) /\ ~InQueue(call)
      /\ (Works(old) <=> Works(call))
  BY <1>1, <1>5, <1>6 DEF Apply, InQueue, Works, Ended
<1> QED BY <1>1, <1>4, <1>6, <1>7, <1>8, MovingOn

LEMMA TerminalIs ==
  ASSUME NEW j PROVE \E b \in BOOLEAN : b = Terminal(j)
<1>1. PICK r : r = "request"
  OBVIOUS
<1>2. Terminal(j) = (r \in Shown(Key(j).capture).ended)
  BY <1>1 DEF Terminal
<1>3. (r \in Shown(Key(j).capture).ended) \in BOOLEAN
  OBVIOUS
<1> QED BY <1>2, <1>3

LEMMA MetadataMoves ==
  ASSUME CallsInv, NEW j \in Jobs, Metadata(j) PROVE MovesOn(j)
<1>1. PICK old \in JobT : old = job[j] /\ Sound(old)
  BY DEF CallsInv
<1>2. PICK b \in BOOLEAN : b = Terminal(j)
  BY TerminalIs
<1>3. PICK call : call = [old EXCEPT !.at = "planning", !.terminal = b]
  OBVIOUS
<1>4. job' = [job EXCEPT ![j] = call]
  BY <1>1, <1>2, <1>3 DEF Metadata, CallsInv
<1>5. old.at = "describing" /\ UNCHANGED admission
  BY <1>1 DEF Metadata
<1>6. /\ call \in JobT /\ call.at = "planning"
      /\ call.phase = old.phase /\ call.key = old.key /\ call.charge = old.charge
      /\ call.content = old.content /\ call.epoch = old.epoch
  BY <1>1, <1>3 DEF JobT, JobSteps
<1>7. Sound(call)
  BY <1>1, <1>5, <1>6 DEF Sound, InPhase, PaidFor, HasContent, SnapshotHolds
<1>8. ~InQueue(old) /\ ~InQueue(call) /\ (Works(old) <=> Works(call))
  BY <1>5, <1>6 DEF InQueue, Works, Ended
<1> QED BY <1>1, <1>4, <1>5, <1>6, <1>7, <1>8, MovingOn

LEMMA RefuseMoves ==
  ASSUME CallsInv, NEW j \in Jobs, Refuse(j) PROVE MovesOn(j)
<1>1. PICK old \in JobT : old = job[j] /\ Sound(old)
  BY DEF CallsInv
<1>3. PICK call : call = [old EXCEPT !.at = "failed"]
  OBVIOUS
<1>4. job' = [job EXCEPT ![j] = call]
  BY <1>1, <1>3 DEF Refuse, CallsInv, Goes
<1>5. old.at = "queueing" /\ UNCHANGED admission
  BY <1>1 DEF Refuse, Goes
<1>6. /\ call \in JobT /\ call.at = "failed"
      /\ call.phase = old.phase /\ call.key = old.key /\ call.charge = old.charge
      /\ call.content = old.content /\ call.epoch = old.epoch
  BY <1>1, <1>3, <1>5 DEF JobT, JobSteps, Ended, Phases
<1>7. Sound(call)
  BY <1>1, <1>5, <1>6 DEF Sound, InPhase, PaidFor, HasContent, SnapshotHolds
<1>8. ~InQueue(old) /\ ~InQueue(call) /\ (Works(old) <=> Works(call))
  BY <1>1, <1>5, <1>6, <1>7 DEF InQueue, Works, Ended, Sound, InPhase
<1> QED BY <1>1, <1>4, <1>5, <1>6, <1>7, <1>8, MovingOn

LEMMA ServeMoves ==
  ASSUME CallsInv, NEW j \in Jobs, Serve(j) PROVE MovesOn(j)
<1>1. PICK old \in JobT : old = job[j] /\ Sound(old)
  BY DEF CallsInv
<1>3. PICK call : call = [old EXCEPT !.at = "served"]
  OBVIOUS
<1>4. job' = [job EXCEPT ![j] = call]
  BY <1>1, <1>3 DEF Serve, CallsInv, Goes
<1>5. old.at = "serving" /\ admission' = LeaveActive
  BY <1>1 DEF Serve, Goes
<1>6. /\ call \in JobT /\ call.at = "served"
      /\ call.phase = old.phase /\ call.key = old.key /\ call.charge = old.charge
      /\ call.content = old.content /\ call.epoch = old.epoch
  BY <1>1, <1>3, <1>5 DEF JobT, JobSteps, Ended, Phases
<1>7. Sound(call)
  BY <1>1, <1>5, <1>6 DEF Sound, InPhase, PaidFor, HasContent, SnapshotHolds
<1>8. ~InQueue(old) /\ ~InQueue(call) /\ Works(old) /\ ~Works(call)
  BY <1>1, <1>5, <1>6, <1>7 DEF InQueue, Works, Ended, Sound, InPhase
<1> QED BY <1>1, <1>4, <1>5, <1>6, <1>7, <1>8, MovingOn

LEMMA ReadEpochMoves ==
  ASSUME CallsInv, NEW j \in Jobs, ReadEpoch(j), log \in Seq(Change) PROVE MovesOn(j)
<1>1. PICK old \in JobT : old = job[j] /\ Sound(old)
  BY DEF CallsInv
<1>3. PICK call : call = [old EXCEPT !.at = "snapshotting", !.epoch = Len(log)]
  OBVIOUS
<1>4. job' = [job EXCEPT ![j] = call]
  BY <1>1, <1>3 DEF ReadEpoch, CallsInv
<1>5. old.at = "reading" /\ UNCHANGED admission /\ Len(log) \in Nat
  BY <1>1 DEF ReadEpoch
<1>6. /\ call \in JobT /\ call.at = "snapshotting"
      /\ call.phase = old.phase /\ call.key = old.key /\ call.charge = old.charge
      /\ call.content = old.content
      /\ call.epoch = Len(log)
  BY <1>1, <1>3, <1>5 DEF JobT, JobSteps, Ended, Phases
<1>7. Sound(call)
  BY <1>1, <1>5, <1>6 DEF Sound, InPhase, PaidFor, HasContent, SnapshotHolds
<1>8. ~InQueue(old) /\ ~InQueue(call) /\ (Works(old) <=> Works(call))
  BY <1>1, <1>5, <1>6, <1>7 DEF InQueue, Works, Ended, Sound, InPhase
<1> QED BY <1>1, <1>4, <1>5, <1>6, <1>7, <1>8, MovingOn

LEMMA TakeSnapshotMoves ==
  ASSUME CallsInv, NEW j \in Jobs, TakeSnapshot(j) PROVE MovesOn(j)
<1>1. PICK old \in JobT : old = job[j] /\ Sound(old)
  BY DEF CallsInv
<1>0. PICK r : r = Shown(Key(j).capture).revision
  OBVIOUS
<1>2. PICK b \in BOOLEAN : b = Terminal(j)
  BY TerminalIs
<1>3. PICK call : call = [old EXCEPT !.at = "confirming", !.terminal = b, !.content = r]
  OBVIOUS
<1>4. job' = [job EXCEPT ![j] = call]
  BY <1>0, <1>1, <1>2, <1>3 DEF TakeSnapshot, CallsInv, AsAsked, Key, AsShown
<1>5. /\ old.at = "snapshotting" /\ UNCHANGED admission
      /\ AsShown(old.key) /\ r = old.key.revision /\ r \in BodyRevisions /\ r # None
  <2>1. old.at = "snapshotting" /\ UNCHANGED admission /\ AsShown(old.key) /\ r = old.key.revision
    BY <1>0, <1>1, <1>2 DEF TakeSnapshot, AsAsked, Key, AsShown
  <2>2. old.key \in Keys
    BY DEF JobT
  <2> QED BY <2>1, <2>2, KeysAre
<1>6. /\ call \in JobT /\ call.at = "confirming"
      /\ call.phase = old.phase /\ call.key = old.key /\ call.charge = old.charge /\ call.epoch = old.epoch
      /\ call.content = r
  BY <1>0, <1>1, <1>2, <1>3, <1>5 DEF JobT, JobSteps, Ended, Phases
<1>7. Sound(call)
  BY <1>0, <1>1, <1>2, <1>5, <1>6 DEF Sound, InPhase, PaidFor, HasContent, SnapshotHolds
<1>8. ~InQueue(old) /\ ~InQueue(call) /\ (Works(old) <=> Works(call))
  BY <1>1, <1>5, <1>6, <1>2, <1>7 DEF InQueue, Works, Ended, Sound, InPhase
<1> QED BY <1>1, <1>4, <1>5, <1>6, <1>7, <1>8, MovingOn

LEMMA ConfirmMoves ==
  ASSUME CallsInv, NEW j \in Jobs, Confirm(j) PROVE MovesOn(j)
<1>1. PICK old \in JobT : old = job[j] /\ Sound(old)
  BY DEF CallsInv
<1>2. PICK b \in BOOLEAN : b = Unchanged(j)
  BY DEF Unchanged
<1>3. PICK call : call = [old EXCEPT !.at = "decoding", !.fresh = b]
  OBVIOUS
<1>4. job' = [job EXCEPT ![j] = call]
  BY <1>1, <1>2, <1>3 DEF Confirm, CallsInv
<1>5. old.at = "confirming" /\ UNCHANGED admission
  BY <1>1 DEF Confirm
<1>6. /\ call \in JobT /\ call.at = "decoding"
      /\ call.phase = old.phase /\ call.key = old.key /\ call.charge = old.charge
      /\ call.content = old.content /\ call.epoch = old.epoch
  BY <1>1, <1>2, <1>3, <1>5 DEF JobT, JobSteps, Ended, Phases
<1>7. Sound(call)
  BY <1>1, <1>2, <1>5, <1>6 DEF Sound, InPhase, PaidFor, HasContent, SnapshotHolds
<1>8. ~InQueue(old) /\ ~InQueue(call) /\ (Works(old) <=> Works(call))
  BY <1>1, <1>5, <1>6, <1>2, <1>7 DEF InQueue, Works, Ended, Sound, InPhase
<1> QED BY <1>1, <1>4, <1>5, <1>6, <1>7, <1>8, MovingOn

LEMMA DecodeEndsMoves ==
  ASSUME CallsInv, NEW j \in Jobs, DecodeEnds(j) PROVE MovesOn(j)
<1>1. PICK old \in JobT : old = job[j] /\ Sound(old)
  BY DEF CallsInv
<1>2. PICK at \in {"draining", "served"} :
        at = IF job[j].terminal /\ job[j].fresh THEN "draining" ELSE "served"
  OBVIOUS
<1>3. PICK call : call = [old EXCEPT !.at = at, !.phase = "store"]
  OBVIOUS
<1>4. job' = [job EXCEPT ![j] = call]
  BY <1>1, <1>2, <1>3 DEF DecodeEnds, CallsInv
<1>5. old.at = "decoding" /\ admission' = LeaveActive
  BY <1>1 DEF DecodeEnds
<1>6. /\ call \in JobT /\ call.at = at
      /\ call.key = old.key /\ call.charge = old.charge
      /\ call.content = old.content /\ call.epoch = old.epoch
      /\ call.phase = "store"
  BY <1>1, <1>2, <1>3, <1>5 DEF JobT, JobSteps, Ended, Phases
<1>7. Sound(call)
  BY <1>1, <1>2, <1>5, <1>6 DEF Sound, InPhase, PaidFor, HasContent, SnapshotHolds
<1>8. ~InQueue(old) /\ ~InQueue(call) /\ Works(old) /\ ~Works(call)
  BY <1>1, <1>5, <1>6, <1>2, <1>7 DEF InQueue, Works, Ended, Sound, InPhase
<1> QED BY <1>1, <1>4, <1>5, <1>6, <1>7, <1>8, MovingOn

LEMMA StoreMoves ==
  ASSUME CallsInv, NEW j \in Jobs, Store(j) PROVE MovesOn(j)
<1>1. PICK old \in JobT : old = job[j] /\ Sound(old)
  BY DEF CallsInv
<1>3. PICK call : call = [old EXCEPT !.at = "served"]
  OBVIOUS
<1>4. job' = [job EXCEPT ![j] = call]
  BY <1>1, <1>3 DEF Store, CallsInv, Goes
<1>5. old.at = "storing" /\ UNCHANGED admission
  BY <1>1 DEF Store, Goes
<1>6. /\ call \in JobT /\ call.at = "served"
      /\ call.phase = old.phase /\ call.key = old.key /\ call.charge = old.charge
      /\ call.content = old.content /\ call.epoch = old.epoch
  BY <1>1, <1>3, <1>5 DEF JobT, JobSteps, Ended, Phases
<1>7. Sound(call)
  BY <1>1, <1>5, <1>6 DEF Sound, InPhase, PaidFor, HasContent, SnapshotHolds
<1>8. ~InQueue(old) /\ ~InQueue(call) /\ (Works(old) <=> Works(call))
  BY <1>1, <1>5, <1>6, <1>7 DEF InQueue, Works, Ended, Sound, InPhase
<1> QED BY <1>1, <1>4, <1>5, <1>6, <1>7, <1>8, MovingOn

LEMMA AbandonMoves ==
  ASSUME CallsInv, NEW j \in Jobs, Abandon(j) PROVE MovesOn(j)
<1>1. PICK old \in JobT : old = job[j] /\ Sound(old)
  BY DEF CallsInv
<1>3. PICK call : call = [old EXCEPT !.at = "abandoned"]
  OBVIOUS
<1>4. job' = [job EXCEPT ![j] = call]
  BY <1>1, <1>3 DEF Abandon, CallsInv, Goes
<1>5. old.at \in {"serving", "decoding"} /\ UNCHANGED admission
  BY <1>1 DEF Abandon, Goes
<1>6. /\ call \in JobT /\ call.at = "abandoned"
      /\ call.phase = old.phase /\ call.key = old.key /\ call.charge = old.charge
      /\ call.content = old.content /\ call.epoch = old.epoch
  BY <1>1, <1>3, <1>5 DEF JobT, JobSteps, Ended, Phases
<1>7. Sound(call)
  BY <1>1, <1>5, <1>6 DEF Sound, InPhase, PaidFor, HasContent, SnapshotHolds
<1>8. ~InQueue(old) /\ ~InQueue(call) /\ (Works(old) <=> Works(call))
  BY <1>1, <1>5, <1>6, <1>7 DEF InQueue, Works, Ended, Sound, InPhase
<1> QED BY <1>1, <1>4, <1>5, <1>6, <1>7, <1>8, MovingOn

LEMMA AbandonedEndsMoves ==
  ASSUME CallsInv, NEW j \in Jobs, AbandonedEnds(j) PROVE MovesOn(j)
<1>1. PICK old \in JobT : old = job[j] /\ Sound(old)
  BY DEF CallsInv
<1>3. PICK call : call = [old EXCEPT !.at = "failed"]
  OBVIOUS
<1>4. job' = [job EXCEPT ![j] = call]
  BY <1>1, <1>3 DEF AbandonedEnds, CallsInv, Goes
<1>5. old.at = "abandoned" /\ admission' = LeaveActive
  BY <1>1 DEF AbandonedEnds, Goes
<1>6. /\ call \in JobT /\ call.at = "failed"
      /\ call.phase = old.phase /\ call.key = old.key /\ call.charge = old.charge
      /\ call.content = old.content /\ call.epoch = old.epoch
  BY <1>1, <1>3, <1>5 DEF JobT, JobSteps, Ended, Phases
<1>7. Sound(call)
  BY <1>1, <1>5, <1>6 DEF Sound, InPhase, PaidFor, HasContent, SnapshotHolds
<1>8. ~InQueue(old) /\ ~InQueue(call) /\ Works(old) /\ ~Works(call)
  BY <1>1, <1>5, <1>6, <1>7 DEF InQueue, Works, Ended, Sound, InPhase
<1> QED BY <1>1, <1>4, <1>5, <1>6, <1>7, <1>8, MovingOn

LEMMA QueueMoves ==
  ASSUME CallsInv, NEW j \in Jobs, Queue(j) PROVE MovesOn(j)
<1>1. PICK old \in JobT : old = job[j] /\ Sound(old)
  BY DEF CallsInv
<1>2. PICK call : call = [old EXCEPT !.at = "waiting"]
  OBVIOUS
<1>3. job' = [job EXCEPT ![j] = call]
  BY <1>1, <1>2 DEF Queue, Goes, CallsInv
<1>4. old.at = "queueing"
  BY <1>1 DEF Queue
<1>5. /\ call \in JobT /\ call.at = "waiting"
      /\ call.phase = old.phase /\ call.key = old.key /\ call.charge = old.charge
      /\ call.content = old.content /\ call.epoch = old.epoch
  BY <1>1, <1>2 DEF JobT, JobSteps
<1>6. Sound(call) /\ old.phase = "lookup"
  BY <1>1, <1>4, <1>5 DEF Sound, InPhase, PaidFor, HasContent, SnapshotHolds
<1>7. ~InQueue(old) /\ InQueue(call) /\ ~Works(old) /\ ~Works(call)
  BY <1>4, <1>5, <1>6 DEF InQueue, Works
<1>8. admission' = [admission EXCEPT !.jobs = @ + 1, !.bytes = @ + call.charge]
  BY <1>1, <1>5 DEF Queue
<1>9. admission' = After(old, call)
  BY <1>1, <1>5, <1>7, <1>8, AdmissionForms DEF CallsInv
<1> QED BY <1>1, <1>3, <1>5, <1>6, <1>7, <1>9 DEF MovesOn, Turns

LEMMA AcquireActiveMoves ==
  ASSUME CallsInv, NEW j \in Jobs, AcquireActive(j) PROVE MovesOn(j)
<1>1. PICK old \in JobT : old = job[j] /\ Sound(old)
  BY DEF CallsInv
<1>2. PICK call : call = [old EXCEPT !.at = "draining", !.phase = "permit"]
  OBVIOUS
<1>3. job' = [job EXCEPT ![j] = call]
  BY <1>1, <1>2 DEF AcquireActive, CallsInv
<1>4. old.at = "waiting"
  BY <1>1 DEF AcquireActive
<1>5. /\ call \in JobT /\ call.at = "draining" /\ call.phase = "permit"
      /\ call.key = old.key /\ call.charge = old.charge
      /\ call.content = old.content /\ call.epoch = old.epoch
  BY <1>1, <1>2 DEF JobT, JobSteps, Phases
<1>6. Sound(call) /\ old.phase = "lookup"
  BY <1>1, <1>4, <1>5 DEF Sound, InPhase, PaidFor, HasContent, SnapshotHolds
<1>7. InQueue(old) /\ ~InQueue(call) /\ ~Works(old) /\ Works(call)
  BY <1>4, <1>5, <1>6 DEF InQueue, Works, Ended
<1>8. admission' = [admission EXCEPT !.jobs = @ - 1, !.bytes = @ - old.charge,
                                     !.active = @ + 1]
  BY <1>1 DEF AcquireActive, LeaveQueue
<1>9. admission' = After(old, call)
  BY <1>1, <1>5, <1>7, <1>8, AdmissionForms DEF CallsInv
<1> QED BY <1>1, <1>3, <1>5, <1>6, <1>7, <1>9 DEF MovesOn, Turns

\* What a call that ends gives back.
LEMMA ReleasedIs ==
  ASSUME CallsInv, NEW j \in Jobs, NEW call \in JobT, job' = [job EXCEPT ![j] = call],
         admission' = Released(j), Sound(call), ~InQueue(call), ~Works(call),
         job[j].at \notin Ended
  PROVE  MovesOn(j)
<1>1. PICK old \in JobT : old = job[j] /\ Sound(old)
  BY DEF CallsInv
<1>2. CASE old.at = "waiting"
  <2>1. admission' = LeaveQueue(j) /\ InQueue(old) /\ ~Works(old)
    BY <1>1, <1>2 DEF Released, InQueue, Works, Sound, InPhase
  <2> QED BY <1>1, <2>1, MovingOn
<1>3. CASE old.at # "waiting" /\ old.phase = "permit"
  <2>1. admission' = LeaveActive /\ ~InQueue(old) /\ Works(old)
    BY <1>1, <1>3 DEF Released, InQueue, Works
  <2> QED BY <1>1, <2>1, MovingOn
<1>4. CASE old.at # "waiting" /\ old.phase # "permit"
  <2>1. UNCHANGED admission /\ ~InQueue(old) /\ ~Works(old)
    BY <1>1, <1>4 DEF Released, InQueue, Works
  <2> QED BY <1>1, <2>1, MovingOn
<1> QED BY <1>2, <1>3, <1>4

LEMMA GivingUpMoves ==
  ASSUME CallsInv, NEW j \in Jobs, job[j].at \notin Ended, Goes(j, "failed"),
         admission' = Released(j)
  PROVE  MovesOn(j)
<1>1. PICK old \in JobT : old = job[j] /\ Sound(old)
  BY DEF CallsInv
<1>2. PICK call : call = [old EXCEPT !.at = "failed"]
  OBVIOUS
<1>3. job' = [job EXCEPT ![j] = call]
  BY <1>1, <1>2 DEF Goes, CallsInv
<1>4. /\ call \in JobT /\ call.at = "failed"
      /\ call.phase = old.phase /\ call.key = old.key /\ call.charge = old.charge
      /\ call.content = old.content /\ call.epoch = old.epoch
  BY <1>1, <1>2 DEF JobT, JobSteps, Ended
<1>5. Sound(call)
  BY <1>1, <1>4 DEF Sound, InPhase, PaidFor, HasContent, SnapshotHolds
<1>6. ~InQueue(call) /\ ~Works(call)
  BY <1>4 DEF InQueue, Works, Ended
<1> QED BY <1>1, <1>3, <1>4, <1>5, <1>6, ReleasedIs

LEMMA MismatchMoves ==
  ASSUME CallsInv, NEW j \in Jobs, Mismatch(j) PROVE MovesOn(j)
BY GivingUpMoves DEF Mismatch, Ended

LEMMA FailMoves ==
  ASSUME CallsInv, NEW j \in Jobs, Fail(j) PROVE MovesOn(j)
BY GivingUpMoves DEF Fail, Ended

LEMMA PlanMoves ==
  ASSUME CallsInv, NEW j \in Jobs, Plan(j), Books(cache) PROVE MovesOn(j)
<1>1. PICK old \in JobT : old = job[j] /\ Sound(old)
  BY DEF CallsInv
<1>2. PICK key \in Keys : key = old.key
  BY DEF JobT
<1>3. PICK charge, content : charge = PlannedCharge(j) /\ content = PlannedContent(j)
  OBVIOUS
<1>4. /\ charge \in Nat /\ content \in {None, key.revision}
      /\ Hit(j) => charge = DecodedLen(key) /\ content # None
      /\ ~Hit(j) => charge = InputSize[key.capture]
  <2>1. Hit(j) => cache.entries[key].content = key.revision
    BY <1>1, <1>2 DEF Books, Hit, Key
  <2>2. content = IF Hit(j) THEN cache.entries[key].content ELSE None
    BY <1>1, <1>2, <1>3 DEF PlannedContent, Key
  <2>3. charge = IF Hit(j) THEN DecodedLen(key) ELSE InputSize[key.capture]
    BY <1>1, <1>2, <1>3 DEF PlannedCharge, Key
  <2> QED BY <2>1, <2>2, <2>3, KeysAre
<1>5. old.at = "planning" /\ content \in BodyRevisions \cup {None}
  BY <1>1, <1>4, KeysAre DEF Plan
<1>6. CASE old.phase = "lookup" \/ Replanned(j)
  <2>1. PICK call : call = [old EXCEPT !.charge = charge, !.content = content,
                                       !.at = "queueing", !.phase = "lookup"]
    OBVIOUS
  <2>2. job' = [job EXCEPT ![j] = call] /\ admission' = Released(j)
    <3>1. PICK planned : planned = [old EXCEPT !.charge = charge, !.content = content]
      OBVIOUS
    <3>2. /\ job' = [job EXCEPT ![j] = [planned EXCEPT !.at = "queueing", !.phase = "lookup"]]
          /\ admission' = Released(j)
      BY <1>1, <1>3, <1>6, <3>1 DEF Plan
    <3>3. call = [planned EXCEPT !.at = "queueing", !.phase = "lookup"]
      BY <2>1, <3>1
    <3> QED BY <3>2, <3>3
  <2>3. /\ call \in JobT /\ call.at = "queueing" /\ call.phase = "lookup"
        /\ call.key = key /\ call.charge = charge /\ call.content = content
        /\ call.epoch = old.epoch
    BY <1>2, <1>4, <1>5, <2>1 DEF JobT, JobSteps, Phases
  <2>4. Sound(call)
    BY <1>1, <1>2, <1>4, <2>3 DEF Sound, InPhase, PaidFor, HasContent, SnapshotHolds
  <2>5. ~InQueue(call) /\ ~Works(call) /\ job[j].at \notin Ended
    BY <1>1, <1>5, <2>3 DEF InQueue, Works, Ended
  <2> QED BY <2>2, <2>3, <2>4, <2>5, ReleasedIs
<1>7. CASE old.phase # "lookup" /\ ~Replanned(j)
  <2>1. PICK at \in {"serving", "reading"} : at = IF Hit(j) THEN "serving" ELSE "reading"
    OBVIOUS
  <2>2. PICK call : call = [old EXCEPT !.content = content, !.at = at]
    OBVIOUS
  <2>3. job' = [job EXCEPT ![j] = call] /\ UNCHANGED admission
    BY <1>1, <1>3, <1>7, <2>1, <2>2 DEF Plan, CallsInv
  <2>4. /\ call \in JobT /\ call.at = at /\ call.content = content
        /\ call.phase = old.phase /\ call.key = key /\ call.charge = old.charge
        /\ call.epoch = old.epoch
    BY <1>2, <1>5, <2>1, <2>2 DEF JobT, JobSteps
  <2>5. old.phase = "permit" /\ old.charge = charge
    BY <1>1, <1>3, <1>5, <1>7 DEF Sound, InPhase, Replanned, JobT, Phases
  <2>6. Sound(call)
    BY <1>1, <1>2, <1>4, <2>1, <2>4, <2>5
    DEF Sound, InPhase, PaidFor, HasContent, SnapshotHolds
  <2>7. ~InQueue(old) /\ ~InQueue(call) /\ (Works(old) <=> Works(call))
    BY <1>5, <2>1, <2>4 DEF InQueue, Works, Ended
  <2> QED BY <1>1, <2>3, <2>4, <2>6, <2>7, MovingOn
<1> QED BY <1>6, <1>7

CallStep(j) == ReadBody(j) \/ Proceed(j) \/ Fail(j) \/ Abandon(j)

LEMMA CallMoves ==
  ASSUME JobsInv, NEW j \in Jobs, CallStep(j) PROVE MovesOn(j) /\ UNCHANGED worldVars
<1>1. /\ CallsInv /\ WorldInv /\ Books(cache) /\ log \in Seq(Change)
      /\ position \in 1..(Len(log) + 1)
  BY DEF JobsInv, CallsInv, WorldInv, WorldTypeOK
<1>2. MovesOn(j)
  BY <1>1, ReadBodyMoves, DrainMoves, ApplyMoves, MetadataMoves, PlanMoves, QueueMoves,
     RefuseMoves, AcquireActiveMoves, ServeMoves, ReadEpochMoves, TakeSnapshotMoves,
     ConfirmMoves, DecodeEndsMoves, StoreMoves, MismatchMoves, FailMoves, AbandonMoves,
     AbandonedEndsMoves
  DEF CallStep, Proceed
<1>3. UNCHANGED worldVars
  BY DEF CallStep, Proceed, ReadBody, Drain, Apply, Metadata, Plan, Queue, Refuse,
         AcquireActive, Serve, ReadEpoch, TakeSnapshot, Confirm, DecodeEnds, Store,
         Mismatch, Fail, Abandon, AbandonedEnds
<1> QED BY <1>2, <1>3

LEMMA MovesKeepCalls ==
  ASSUME CallsInv, NEW j \in Jobs, MovesOn(j), UNCHANGED worldVars
  PROVE  CallsInv'
<1>1. PICK call : Turns(j, call) /\ Sound(call)
  BY DEF MovesOn
<1>2. job' \in [Jobs -> JobT] /\ Accounts'
  BY <1>1, AccountsFollow DEF CallsInv
<1>3. ASSUME NEW i \in Jobs PROVE Sound(job[i])'
  <2>1. Sound(job'[i])
    BY <1>1 DEF Turns, CallsInv
  <2> QED BY <2>1 DEF Sound, InPhase, PaidFor, HasContent, SnapshotHolds, AsShown, Stored,
                     Shown, worldVars
<1> QED BY <1>2, <1>3 DEF CallsInv

\* A step of the world is announced, or leaves what a call has seen.
LEMMA WorldKeepsCalls ==
  ASSUME CallsInv, WorldInv, Advance, UNCHANGED jobVars
  PROVE  CallsInv'
<1>1. UNCHANGED <<job, admission>> /\ Lengthened /\ \A c \in Captures : Moved(c)
  BY DEF Advance, jobVars
<1>2. Accounts'
  BY <1>1 DEF CallsInv, Accounts, Queued, Permitted, Charges
<1>3. ASSUME NEW i \in Jobs PROVE Sound(job[i])'
  <2>1. PICK call \in JobT : call = job[i] /\ Sound(call)
    BY DEF CallsInv
  <2>2. call.key.capture \in Captures /\ call.epoch \in Nat /\ call.batch.to \in Nat
    BY DEF JobT, Keys
  <2>3. PICK m, n \in Nat : m = Len(log) /\ n = Len(log') /\ (n = m \/ n = m + 1)
    BY <1>1 DEF Lengthened
  <2>4. AsShown(call.key) => AsShown(call.key)' \/ n = m + 1
    BY <1>1, <2>2, <2>3 DEF AsShown, Moved, Stored, Shown
  <2>5. SnapshotHolds(call)'
    BY <2>1, <2>2, <2>3, <2>4 DEF Sound, SnapshotHolds
  <2> QED BY <1>1, <2>1, <2>5 DEF Sound, InPhase, PaidFor, HasContent
<1> QED BY <1>1, <1>2, <1>3 DEF CallsInv

(***************************************************************************)
(* What the cache holds is traced to a change through every step.          *)
(***************************************************************************)
\* A change that was to be applied still is, but for a call that applies it.
LEMMA StillToApply ==
  ASSUME CallsInv, NEW j \in Jobs, MovesOn(j), job[j].at # "applying",
         UNCHANGED position, NEW i, ToApply(i)
  PROVE  ToApply(i)'
<1>1. \A k \in Jobs : job[k].at = "applying" => job'[k] = job[k]
  BY DEF MovesOn, Turns, CallsInv
<1>2. CASE i >= position
  BY <1>2 DEF ToApply
<1>3. CASE \E k \in Jobs : job[k].at = "applying" /\ i \in job[k].batch.from..job[k].batch.to
  BY <1>1, <1>3 DEF ToApply
<1> QED BY <1>2, <1>3 DEF ToApply

LEMMA DrainTraces ==
  ASSUME JobsInv, NEW j \in Jobs, Drain(j), NEW i \in 1..Len(log), ToApply(i)
  PROVE  ToApply(i)'
<1>1. /\ CallsInv /\ MovesOn(j) /\ position \in 1..(Len(log) + 1) /\ Len(log) \in Nat
      /\ job[j].at = "draining" /\ job \in [Jobs -> JobT]
  <2>1. CallStep(j)
    BY DEF CallStep, Proceed
  <2>2. CallsInv /\ log \in Seq(Change)
    BY DEF JobsInv, CallsInv, WorldInv, WorldTypeOK
  <2> QED BY <2>1, <2>2, CallMoves DEF JobsInv, Drain
<1>2. CASE \E k \in Jobs : job[k].at = "applying" /\ i \in job[k].batch.from..job[k].batch.to
  <2>1. \A k \in Jobs : job[k].at = "applying" => job'[k] = job[k]
    BY <1>1 DEF MovesOn, Turns
  <2> QED BY <1>2, <2>1 DEF ToApply
<1>3. CASE i >= position
  <2>1. HasNext(position)
    BY <1>1, <1>3 DEF HasNext
  <2>2. job'[j].at = "applying" /\ job'[j].batch.from = position /\ job'[j].batch.to = Len(log)
    BY <1>1, <2>1 DEF Drain, JobT
  <2>3. i \in job'[j].batch.from..job'[j].batch.to
    BY <1>1, <1>3, <2>2
  <2> QED BY <2>2, <2>3 DEF ToApply
<1> QED BY <1>2, <1>3 DEF ToApply

LEMMA WorldTraces ==
  ASSUME JobsInv, Advance, UNCHANGED jobVars, NEW key \in DOMAIN cache.entries
  PROVE  Traced(key)'
<1>1. UNCHANGED <<job, position>> /\ Lengthened /\ Len(log) \in Nat
      /\ position \in 1..(Len(log) + 1)
  BY DEF Advance, jobVars, JobsInv, Lengthened
<1>2. PICK p \in 1..Len(log) :
        /\ log[p].capture = key.capture /\ log[p].revision = key.revision
        /\ log[p].kind \notin Removals
        /\ \A i \in 1..Len(log) : i > p /\ log[i].capture = key.capture => ToApply(i)
  BY DEF JobsInv, Traced
<1>3. p \in 1..Len(log') /\ log'[p] = log[p]
  BY <1>1 DEF Lengthened
<1>4. ASSUME NEW i \in 1..Len(log'), i > p, log'[i].capture = key.capture
      PROVE  ToApply(i)'
  <2>1. CASE i \in 1..Len(log)
    <3>1. ToApply(i)
      BY <1>1, <1>2, <1>4, <2>1 DEF Lengthened
    <3> QED BY <1>1, <3>1 DEF ToApply
  <2>2. CASE i \notin 1..Len(log)
    <3>1. i >= position'
      BY <1>1, <1>4, <2>2 DEF Lengthened
    <3> QED BY <3>1 DEF ToApply
  <2> QED BY <2>1, <2>2
<1> QED BY <1>2, <1>3, <1>4 DEF Traced

\* What a batch leaves in the cache is traced to the last change it read about
\* the capture, or to what it was traced to before.
Spared(batch, key) ==
  \/ \A i \in batch.from..batch.to : log[i].capture # key.capture
  \/ \E p \in batch.from..batch.to :
       /\ log[p].capture = key.capture /\ log[p].revision = key.revision
       /\ log[p].kind \notin Removals
       /\ \A i \in batch.from..batch.to : i > p => log[i].capture # key.capture

LEMMA AppliedKeeps ==
  ASSUME Books(cache), NEW batch \in [from: Nat \ {0}, to: Nat, gap: BOOLEAN],
         NEW d, d = Applied(batch)
  PROVE  /\ Books(d) /\ DOMAIN d.entries \subseteq DOMAIN cache.entries
         /\ d.bytes <= cache.bytes
         /\ \A key \in DOMAIN d.entries : Spared(batch, key)
<1>1. PICK read : read = batch.from..batch.to
  OBVIOUS
<1>2. read \subseteq Nat /\ IsFiniteSet(read)
  <2>1. batch.from \in Nat /\ batch.to \in Nat
    OBVIOUS
  <2> QED BY <1>1, <2>1, FS_Interval
<1> DEFINE About(c) == {i \in read : log[i].capture = c}
           Final(c) == log[CHOOSE i \in About(c) : \A k \in About(c) : k <= i]
           Current(key) == About(key.capture) # {} =>
                              /\ Final(key.capture).kind \notin Removals
                              /\ Final(key.capture).revision = key.revision
<1>3. CASE batch.gap \/ \E i \in read : log[i].kind = "Clear"
  <2>1. d = Cleared
    BY <1>1, <1>3 DEF Applied
  <2> QED BY <2>1, ClearedKeeps, BytesAreANumber
<1>4. CASE ~(batch.gap \/ \E i \in read : log[i].kind = "Clear")
  <2>1. PICK gone \in SUBSET (DOMAIN cache.entries) :
          gone = {key \in DOMAIN cache.entries : ~Current(key)}
    OBVIOUS
  <2>2. d = Removing(gone)
    BY <1>1, <1>4, <2>1 DEF Applied
  <2>3. /\ Books(d) /\ d.bytes <= cache.bytes
        /\ DOMAIN d.entries = DOMAIN cache.entries \ gone
    BY <2>2, RemovingKeeps
  <2>4. ASSUME NEW key \in DOMAIN d.entries PROVE Spared(batch, key)
    <3>1. Current(key)
      BY <2>1, <2>3
    <3>2. PICK A \in SUBSET read : A = About(key.capture)
      OBVIOUS
    <3>3. CASE A = {}
      BY <1>1, <3>2, <3>3 DEF Spared
    <3>4. CASE A # {}
      <4>1. IsFiniteSet(A) /\ A \subseteq Int
        <5>1. IsFiniteSet(A)
          BY <1>2, FS_Subset
        <5> QED BY <1>2, <5>1
      <4>2. \E i \in A : \A k \in A : k <= i
        BY <3>4, <4>1, HasExtremes
      <4>3. PICK p : p = CHOOSE i \in A : \A k \in A : k <= i
        OBVIOUS
      <4>4. p \in A /\ \A k \in A : k <= p
        BY <4>2, <4>3
      <4>5. log[p].kind \notin Removals /\ log[p].revision = key.revision
        BY <3>1, <3>2, <3>4, <4>3
      <4>6. ASSUME NEW i \in read, i > p PROVE log[i].capture # key.capture
        <5>1. i \notin A
          BY <1>2, <4>4, <4>6
        <5> QED BY <3>2, <5>1
      <4> QED BY <1>1, <3>2, <4>4, <4>5, <4>6 DEF Spared
    <3> QED BY <3>3, <3>4
  <2> QED BY <2>3, <2>4
<1> QED BY <1>3, <1>4

LEMMA ApplyTraces ==
  ASSUME JobsInv, NEW j \in Jobs, Apply(j), NEW key \in DOMAIN cache'.entries
  PROVE  Traced(key)'
<1>1. /\ Books(cache) /\ job \in [Jobs -> JobT] /\ Sound(job[j]) /\ position \in Nat
      /\ job[j].at = "applying" /\ cache' = Applied(job[j].batch) /\ Len(log) \in Nat
      /\ UNCHANGED <<log, position>>
  BY DEF JobsInv, Apply, worldVars, WorldInv, WorldTypeOK
<1>2. PICK batch \in [from: Nat \ {0}, to: Nat, gap: BOOLEAN] :
        batch = job[j].batch /\ batch.to <= Len(log)
  BY <1>1 DEF JobT, Sound, SnapshotHolds
<1>3. key \in DOMAIN cache.entries /\ Spared(batch, key)
  BY <1>1, <1>2, AppliedKeeps
<1>4. ASSUME NEW i \in 1..Len(log), ToApply(i), i \notin batch.from..batch.to
      PROVE  ToApply(i)'
  <2>1. \A k \in Jobs : k # j => job'[k] = job[k]
    BY <1>1 DEF Apply
  <2> QED BY <1>1, <1>2, <1>4, <2>1 DEF ToApply
<1>5. PICK p \in 1..Len(log) :
        /\ log[p].capture = key.capture /\ log[p].revision = key.revision
        /\ log[p].kind \notin Removals
        /\ \A i \in 1..Len(log) : i > p /\ log[i].capture = key.capture => ToApply(i)
  BY <1>3 DEF JobsInv, Traced
<1>6. \A q \in batch.from..batch.to : q \in 1..Len(log)
  BY <1>1, <1>2
<1>7. CASE \E q \in batch.from..batch.to :
             /\ q > p /\ log[q].capture = key.capture /\ log[q].revision = key.revision
             /\ log[q].kind \notin Removals
             /\ \A i \in batch.from..batch.to : i > q => log[i].capture # key.capture
  <2>1. PICK q \in batch.from..batch.to :
             /\ q > p /\ log[q].capture = key.capture /\ log[q].revision = key.revision
             /\ log[q].kind \notin Removals
             /\ \A i \in batch.from..batch.to : i > q => log[i].capture # key.capture
    BY <1>7
  <2>2. ASSUME NEW i \in 1..Len(log), i > q, log[i].capture = key.capture
        PROVE  ToApply(i)'
    <3>1. i > p /\ i \notin batch.from..batch.to
      BY <1>6, <2>1, <2>2
    <3> QED BY <1>4, <1>5, <2>2, <3>1
  <2> QED BY <1>1, <1>6, <2>1, <2>2 DEF Traced
<1>8. CASE \A i \in batch.from..batch.to : i > p => log[i].capture # key.capture
  <2>1. ASSUME NEW i \in 1..Len(log), i > p, log[i].capture = key.capture
        PROVE  ToApply(i)'
    BY <1>4, <1>5, <1>8, <2>1
  <2> QED BY <1>1, <1>5, <2>1 DEF Traced
<1>9. \/ \A i \in batch.from..batch.to : i > p => log[i].capture # key.capture
      \/ \E q \in batch.from..batch.to :
             /\ q > p /\ log[q].capture = key.capture /\ log[q].revision = key.revision
             /\ log[q].kind \notin Removals
             /\ \A i \in batch.from..batch.to : i > q => log[i].capture # key.capture
  <2>1. CASE \A i \in batch.from..batch.to : log[i].capture # key.capture
    BY <2>1
  <2>2. CASE \E q \in batch.from..batch.to :
             /\ log[q].capture = key.capture /\ log[q].revision = key.revision
             /\ log[q].kind \notin Removals
             /\ \A i \in batch.from..batch.to : i > q => log[i].capture # key.capture
    <3>1. PICK q \in batch.from..batch.to :
             /\ log[q].capture = key.capture /\ log[q].revision = key.revision
             /\ log[q].kind \notin Removals
             /\ \A i \in batch.from..batch.to : i > q => log[i].capture # key.capture
      BY <2>2
    <3>2. CASE q > p
      BY <3>1, <3>2
    <3>3. CASE ~(q > p)
      <4>1. \A i \in batch.from..batch.to : i > p => i > q
        BY <1>6, <3>3
      <4> QED BY <3>1, <4>1
    <3> QED BY <3>2, <3>3
  <2> QED BY <1>3, <2>1, <2>2 DEF Spared
<1> QED BY <1>7, <1>8, <1>9

\* What enters the cache is as the store shows it.
LEMMA StoreTraces ==
  ASSUME JobsInv, NEW j \in Jobs, Store(j)
  PROVE  /\ Books(cache)' /\ cache'.bytes <= Capacity
         /\ \A key \in DOMAIN cache'.entries : Traced(key)'
<1>1. PICK call \in JobT : call = job[j] /\ Sound(call)
  BY DEF JobsInv
<1>2. /\ call.at = "storing" /\ call.phase = "store" /\ call.key \in Keys
      /\ call.content = call.key.revision /\ UNCHANGED <<log, position>>
      /\ Books(cache) /\ cache.bytes <= Capacity
  BY <1>1 DEF Store, Sound, InPhase, HasContent, JobT, JobsInv, worldVars
<1>3. ASSUME NEW k \in DOMAIN cache.entries PROVE Traced(k)'
  <2>1. \A i : ToApply(i) => ToApply(i)'
    <3>1. CallsInv /\ MovesOn(j) /\ job[j].at # "applying"
      BY <1>1, <1>2, CallMoves DEF JobsInv, CallsInv, CallStep, Proceed
    <3> QED BY <1>2, <3>1, StillToApply
  <2>2. Traced(k)
    BY <1>3 DEF JobsInv
  <2> QED BY <1>2, <2>1, <2>2 DEF Traced
<1>4. CASE ~Unchanged(j)
  BY <1>1, <1>2, <1>3, <1>4 DEF Store
<1>5. CASE Unchanged(j)
  <2>1. cache' = Inserted(call.key, call.key.revision)
    BY <1>1, <1>2, <1>5 DEF Store, Key
  <2>2. /\ Books(cache') /\ cache'.bytes <= Capacity
        /\ DOMAIN cache'.entries \subseteq DOMAIN cache.entries \cup {call.key}
    BY <1>2, <2>1, InsertedKeeps
  <2>3. AsShown(call.key)
    BY <1>1, <1>2, <1>5 DEF Unchanged, Sound, SnapshotHolds
  <2>4. Traced(call.key)'
    <3>1. call.key.capture \in Captures
      BY <1>2 DEF Keys
    <3>2. PICK p : LastWord(call.key.capture, p) /\ log[p].kind \notin Removals
      BY <2>3, <3>1 DEF AsShown, Stored, Where, Told, JobsInv, WorldInv
    <3>3. /\ p \in 1..Len(log) /\ log[p].capture = call.key.capture
          /\ log[p].revision = call.key.revision
          /\ \A i \in 1..Len(log) : i > p => log[i].capture # call.key.capture
      BY <2>3, <3>2 DEF LastWord, AsShown
    <3> QED BY <1>2, <3>2, <3>3 DEF Traced
  <2>5. Books(cache)'
    BY <2>2 DEF Books
  <2> QED BY <1>3, <2>2, <2>4, <2>5
<1> QED BY <1>4, <1>5

(***************************************************************************)
(* The invariant and what it implies.                                      *)
(***************************************************************************)
LEMMA NewCallIs ==
  ASSUME NEW key \in Keys, NEW call, call = NewCall("new", key), Len(log) \in Nat
  PROVE  call \in JobT /\ Sound(call) /\ ~InQueue(call) /\ ~Works(call) /\ call.charge = 0
<1>1. /\ "new" \in JobSteps /\ "lookup" \in Phases /\ None \in BodyRevisions \cup {None}
      /\ NoBatch \in [from: Nat \ {0}, to: Nat, gap: BOOLEAN]
  BY DEF JobSteps, Ended, Phases, NoBatch
<1>2. call \in JobT /\ call.at = "new" /\ call.phase = "lookup" /\ call.content = None
      /\ call.epoch = 0 /\ call.charge = 0
  BY <1>1 DEF NewCall, JobT
<1> QED BY <1>2 DEF Sound, InPhase, PaidFor, HasContent, SnapshotHolds, InQueue, Works

LEMMA JobsStart == JobsInit => JobsInv
<1> SUFFICES ASSUME JobsInit PROVE JobsInv
  OBVIOUS
<1>1. /\ WorldInv /\ log = <<>> /\ job = [j \in Jobs |-> NewCall("new", AnyKey)]
      /\ admission = [jobs |-> 0, bytes |-> 0, active |-> 0] /\ position = 1
      /\ cache = [entries |-> <<>>, lru |-> <<>>, bytes |-> 0, clock |-> 0]
  BY WorldStarts DEF JobsInit, WorldInit, NowInLog
<1>2. AnyKey \in Keys
  <2>1. 0 \in BodyRevisions
    BY WorldAssumption DEF BodyRevisions
  <2>2. PICK c \in Captures : TRUE
    BY JobsAssumption
  <2>3. [capture |-> c, revision |-> 0] \in Keys
    BY <2>1 DEF Keys
  <2> QED BY <2>3 DEF AnyKey
<1>3. \A j \in Jobs : job[j] \in JobT /\ Sound(job[j]) /\ ~InQueue(job[j]) /\ ~Works(job[j])
  BY <1>1, <1>2, NewCallIs
<1>4. job \in [Jobs -> JobT]
  BY <1>1, <1>3
<1>5. Accounts
  <2>1. Queued = {} /\ Permitted = {}
    BY <1>3 DEF Queued, Permitted, InQueue, Works
  <2>2. Total(Charges, {}) = 0 /\ Cardinality({}) = 0
    BY FS_EmptySet, TotalAdds
  <2> QED BY <1>1, <2>1, <2>2 DEF Accounts
<1>6. Books(cache) /\ cache.bytes <= Capacity /\ DOMAIN cache.entries = {}
  <2>1. /\ DOMAIN cache.entries = {} /\ DOMAIN cache.lru = {}
        /\ cache.bytes = 0 /\ cache.clock = 0
    BY <1>1
  <2>2. DecodedTotal({}) = 0
    BY <1>2, DecodedTotalOfOne
  <2>3. cache = [entries |-> cache.entries, lru |-> cache.lru, bytes |-> cache.bytes,
                 clock |-> cache.clock]
    BY <1>1
  <2>4. 0 <= Capacity
    BY JobsAssumption
  <2>5. DOMAIN cache.lru = {cache.entries[key].used : key \in DOMAIN cache.entries}
    BY <2>1
  <2> QED BY <2>1, <2>2, <2>3, <2>4, <2>5, FS_EmptySet DEF Books
<1> QED BY <1>1, <1>3, <1>4, <1>5, <1>6 DEF JobsInv

LEMMA BytesFit ==
  ASSUME NEW m, NEW n, m \in Nat, n <= Capacity, n \in Nat, m <= n PROVE m <= Capacity
BY JobsAssumption

\* The cache after a step that stores nothing.
LEMMA CacheKept ==
  ASSUME JobsInv, NEW j \in Jobs, CallStep(j), ~Store(j)
  PROVE  /\ Books(cache') /\ cache'.bytes <= Capacity
         /\ DOMAIN cache'.entries \subseteq DOMAIN cache.entries
<1>1. Books(cache) /\ cache.bytes <= Capacity /\ cache.bytes \in Nat
  BY BytesAreANumber DEF JobsInv
<1>2. CASE Apply(j)
  <2>1. cache' = Applied(job[j].batch)
    BY <1>2 DEF Apply
  <2>2. job[j].batch \in [from: Nat \ {0}, to: Nat, gap: BOOLEAN]
    BY DEF JobsInv, JobT
  <2>3. /\ Books(cache') /\ DOMAIN cache'.entries \subseteq DOMAIN cache.entries
        /\ cache'.bytes <= cache.bytes
    BY <1>1, <2>1, <2>2, AppliedKeeps
  <2>4. cache'.bytes \in Nat
    BY <2>3, BytesAreANumber
  <2> QED BY <1>1, <2>3, <2>4, BytesFit
<1>3. CASE Plan(j) /\ Hit(j)
  <2>1. cache' = Touched(Key(j)) /\ Key(j) \in DOMAIN cache.entries
    BY <1>3 DEF Plan, Hit
  <2> QED BY <1>1, <2>1, TouchedKeeps
<1>4. CASE UNCHANGED cache
  BY <1>1, <1>4
<1>5. Apply(j) \/ (Plan(j) /\ Hit(j)) \/ UNCHANGED cache
  BY DEF CallStep, Proceed, ReadBody, Drain, Metadata, Plan, Queue, Refuse,
         AcquireActive, Serve, ReadEpoch, TakeSnapshot, Confirm, DecodeEnds,
         Mismatch, Fail, Abandon, AbandonedEnds
<1> QED BY <1>2, <1>3, <1>4, <1>5

LEMMA CallTraces ==
  ASSUME JobsInv, NEW j \in Jobs, CallStep(j), NEW key \in DOMAIN cache'.entries
  PROVE  Traced(key)'
<1>1. /\ CallsInv /\ MovesOn(j) /\ UNCHANGED log
  BY CallMoves DEF JobsInv, CallsInv, worldVars
<1>2. CASE Store(j)
  BY <1>2, StoreTraces
<1>3. CASE Apply(j)
  BY <1>3, ApplyTraces
<1>4. CASE ~Store(j) /\ ~Apply(j)
  <2>1. key \in DOMAIN cache.entries
    BY <1>4, CacheKept
  <2>2. Traced(key)
    BY <2>1 DEF JobsInv
  <2>3. \A i \in 1..Len(log) : ToApply(i) => ToApply(i)'
    <3>1. CASE Drain(j)
      BY <3>1, DrainTraces
    <3>2. CASE ~Drain(j)
      <4>1. UNCHANGED position /\ job[j].at # "applying"
        BY <1>4, <3>2
        DEF CallStep, Proceed, ReadBody, Metadata, Plan, Queue, Refuse,
            AcquireActive, Serve, ReadEpoch, TakeSnapshot, Confirm, DecodeEnds,
            Mismatch, Fail, Abandon, AbandonedEnds, Ended
      <4> QED BY <1>1, <4>1, StillToApply
    <3> QED BY <3>1, <3>2
  <2> QED BY <1>1, <2>2, <2>3 DEF Traced
<1> QED BY <1>2, <1>3, <1>4

LEMMA CallKeeps ==
  ASSUME JobsInv, NEW j \in Jobs, CallStep(j) PROVE JobsInv'
<1>1. CallsInv' /\ WorldInv'
  <2>1. CallsInv /\ MovesOn(j) /\ UNCHANGED worldVars /\ WorldInv
    BY CallMoves DEF JobsInv, CallsInv
  <2> QED BY <2>1, MovesKeepCalls, WorldStutters
<1>2. Books(cache)' /\ cache'.bytes <= Capacity
  <2>1. CASE Store(j)
    BY <2>1, StoreTraces
  <2>2. CASE ~Store(j)
    BY <2>2, CacheKept DEF Books
  <2> QED BY <2>1, <2>2
<1>3. position' \in 1..(Len(log') + 1)
  <2>1. UNCHANGED log /\ (UNCHANGED position \/ position' = NowInLog)
    BY DEF CallStep, Proceed, ReadBody, Drain, Apply, Metadata, Plan, Queue, Refuse,
         AcquireActive, Serve, ReadEpoch, TakeSnapshot, Confirm, DecodeEnds, Store,
         Mismatch, Fail, Abandon, AbandonedEnds, worldVars
  <2>2. Len(log) \in Nat /\ position \in 1..(Len(log) + 1)
    BY DEF JobsInv, WorldInv, WorldTypeOK
  <2> QED BY <2>1, <2>2 DEF NowInLog
<1>4. \A key \in DOMAIN cache'.entries : Traced(key)'
  BY CallTraces
<1> QED BY <1>1, <1>2, <1>3, <1>4 DEF JobsInv, CallsInv

LEMMA WorldKeeps ==
  ASSUME JobsInv, World PROVE JobsInv'
<1>1. /\ CallsInv /\ WorldInv /\ Advance /\ UNCHANGED jobVars
  BY WorldAdvances DEF JobsInv, CallsInv, World
<1>2. CallsInv' /\ WorldInv'
  BY <1>1, WorldKeepsCalls DEF Advance
<1>3. UNCHANGED <<cache, position>> /\ Lengthened
  BY <1>1 DEF jobVars, Advance
<1>4. Books(cache)' /\ cache'.bytes <= Capacity
  BY <1>3 DEF JobsInv, Books
<1>5. position' \in 1..(Len(log') + 1)
  BY <1>3 DEF JobsInv, Lengthened
<1>6. \A key \in DOMAIN cache'.entries : Traced(key)'
  BY <1>1, <1>3, WorldTraces
<1> QED BY <1>2, <1>4, <1>5, <1>6 DEF JobsInv, CallsInv

LEMMA JobsStutter ==
  ASSUME JobsInv, UNCHANGED bodyVars PROVE JobsInv'
<1>1. UNCHANGED <<job, admission, cache, position, log, store>> /\ WorldInv'
  BY WorldStutters DEF JobsInv, bodyVars, jobVars, worldVars
<1>2. Accounts'
  BY <1>1 DEF JobsInv, Accounts, Queued, Permitted, Charges
<1>3. \A j \in Jobs : Sound(job[j])'
  BY <1>1 DEF JobsInv, Sound, InPhase, PaidFor, HasContent, SnapshotHolds, AsShown, Stored, Shown
<1>4. \A key \in DOMAIN cache'.entries : Traced(key)'
  BY <1>1 DEF JobsInv, Traced, ToApply
<1> QED BY <1>1, <1>2, <1>3, <1>4 DEF JobsInv, Books

LEMMA JobsStep == JobsInv /\ [JobsNext]_bodyVars => JobsInv'
<1> SUFFICES ASSUME JobsInv, [JobsNext]_bodyVars PROVE JobsInv'
  OBVIOUS
<1>1. CASE World
  BY <1>1, WorldKeeps
<1>2. CASE \E j \in Jobs : CallStep(j)
  BY <1>2, CallKeeps
<1>3. CASE UNCHANGED bodyVars
  BY <1>3, JobsStutter
<1> QED BY <1>1, <1>2, <1>3 DEF JobsNext, CallStep

\* The calls, the admission, the cache and the feed agree as JobsInv says: the
\* inductive invariant of the body jobs.
THEOREM JobsInvariant == JobsSpec => []JobsInv
  BY JobsStart, JobsStep, PTL DEF JobsSpec

\* What the queue is charged, as the property says it.
LEMMA ChargedIs ==
  ASSUME JobsInv PROVE MapThenSumSet(LAMBDA j : job[j].charge, Queued) = Total(Charges, Queued)
<1> DEFINE Sum(x) == x = [s \in SUBSET Queued |->
                IF s = {} THEN 0 ELSE job[AnyOf(s)].charge + x[s \ {AnyOf(s)}]]
<1>1. PICK h : h = CHOOSE x : Sum(x)
  OBVIOUS
<1>2. MapThenSumSet(LAMBDA j : job[j].charge, Queued) = h[Queued]
  BY <1>1 DEF MapThenSumSet, MapThenFoldSet, AnyOf
<1>3. /\ IsFiniteSet(Queued) /\ Queued \in SUBSET Jobs
      /\ \A j \in Jobs : Charges[j] = job[j].charge /\ Charges[j] \in Nat
  <2>1. Queued \in SUBSET Jobs /\ IsFiniteSet(Jobs)
    BY JobsAssumption DEF Queued
  <2>2. \A j \in Jobs : Charges[j] = job[j].charge /\ Charges[j] \in Nat
    BY DEF Charges, JobsInv, JobT
  <2> QED BY <2>1, <2>2, FS_Subset
<1>4. ASSUME NEW x PROVE Sum(x) <=> Summing(Charges, Queued, x)
  <2>1. \A s \in SUBSET Queued : s # {} => AnyOf(s) \in Queued
    BY DEF AnyOf
  <2>2. \A s \in SUBSET Queued : s # {} => Charges[AnyOf(s)] = job[AnyOf(s)].charge
    BY <1>3, <2>1
  <2>3. [s \in SUBSET Queued |->
           IF s = {} THEN 0 ELSE job[AnyOf(s)].charge + x[s \ {AnyOf(s)}]]
      = [s \in SUBSET Queued |-> IF s = {} THEN 0 ELSE Charges[AnyOf(s)] + x[s \ {AnyOf(s)}]]
    BY <2>2
  <2> QED BY <2>3 DEF Summing
<1>5. \A e \in Queued : Charges[e] \in Nat
  BY <1>3
<1>6. Summing(Charges, Queued, h)
  <2>1. \E x : Summing(Charges, Queued, x)
    BY <1>3, <1>5, SummingExists
  <2>2. \E x : Sum(x)
    BY <1>4, <2>1
  <2> HIDE DEF Sum
  <2>3. Sum(h)
    BY <1>1, <2>2
  <2> QED BY <1>4, <2>3
<1>7. Total(Charges, Queued) = h[Queued]
  BY <1>3, <1>5, <1>6, TotalIs
<1> QED BY <1>2, <1>7

\* The queue and the permits of the control service are charged for exactly the
\* calls that wait and work, and every call works on what the queue was charged
\* for, through every refusal, re-admission, failure and drop.
THEOREM ChargesStayRight == JobsSpec => []ChargesAreRight
<1>1. JobsInv => ChargesAreRight
  <2> SUFFICES ASSUME JobsInv PROVE ChargesAreRight
    OBVIOUS
  <2>1. AdmissionAccounted
    BY ChargedIs DEF JobsInv, Accounts, AdmissionAccounted
  <2>2. WorkWasCharged
    <3>1. \A j \in Jobs : PaidFor(job[j]) /\ HasContent(job[j])
      BY DEF JobsInv, Sound
    <3> QED BY <3>1 DEF WorkWasCharged, PaidFor, HasContent, Key
  <2> QED BY <2>1, <2>2 DEF ChargesAreRight
<1> QED BY <1>1, JobsInvariant, PTL

\* The decoded body cache keeps to its limit and its books, serves a body only
\* under the revision it was decoded at, and holds nothing stale that is not
\* about to be removed: an entry is traced to a change, and what was announced
\* after it is still to be applied.
THEOREM CacheStaysRight == JobsSpec => []CacheIsRight
<1>1. JobsInv => CacheIsRight
  <2> SUFFICES ASSUME JobsInv PROVE CacheIsRight
    OBVIOUS
  <2>1. CacheAccounted
    <3>1. ASSUME NEW j \in Jobs, job[j].at = "served" PROVE job[j].content = Key(j).revision
      <4>1. HasContent(job[j])
        BY DEF JobsInv, Sound
      <4> QED BY <3>1, <4>1 DEF HasContent, Key
    <3>2. Books(cache) /\ cache.bytes <= Capacity
      BY DEF JobsInv
    <3> QED BY <3>1, <3>2 DEF CacheAccounted, Books
  <2>2. ASSUME NEW key \in DOMAIN cache.entries
        PROVE  AsShown(key) \/ Doomed(key)
    <3>1. key.capture \in Captures /\ Traced(key) /\ Told(key.capture)
      BY DEF JobsInv, Books, Keys, WorldInv
    <3>2. PICK p \in 1..Len(log) :
        /\ log[p].capture = key.capture /\ log[p].revision = key.revision
        /\ log[p].kind \notin Removals
        /\ \A i \in 1..Len(log) : i > p /\ log[i].capture = key.capture => ToApply(i)
      BY <3>1 DEF Traced
    <3>3. /\ position \in Nat /\ Len(log) \in Nat
      BY DEF JobsInv, WorldInv, WorldTypeOK
    <3>4. CASE \E i \in 1..Len(log) : i > p /\ log[i].capture = key.capture
      <4>1. PICK i \in 1..Len(log) : log[i].capture = key.capture /\ ToApply(i)
        BY <3>2, <3>4
      <4>2. CASE i >= position
        <5>1. i \in position..Len(log)
          BY <3>3, <4>1, <4>2
        <5> QED BY <4>1, <5>1 DEF Doomed, Unread
      <4>3. CASE \E j \in Jobs : job[j].at = "applying" /\ i \in job[j].batch.from..job[j].batch.to
        BY <4>1, <4>3 DEF Doomed
      <4> QED BY <4>1, <4>2, <4>3 DEF ToApply
    <3>5. CASE \A i \in 1..Len(log) : i > p => log[i].capture # key.capture
      <4>1. PICK q : LastWord(key.capture, q) /\ Stored(key.capture)
        <5>1. Where(key.capture) # "new"
          BY <3>1, <3>2 DEF Told
        <5>2. Where(key.capture) # "gone"
          <6> SUFFICES ASSUME Where(key.capture) = "gone" PROVE FALSE
            OBVIOUS
          <6>1. PICK q : LastWord(key.capture, q) /\ log[q].kind \in Removals
            BY <3>1 DEF Told
          <6>2. q \in 1..Len(log) /\ log[q].capture = key.capture /\ ~(p > q)
            BY <3>2, <6>1 DEF LastWord
          <6>3. ~(q > p)
            BY <3>5, <6>2
          <6>4. q = p
            BY <3>3, <6>2, <6>3
          <6> QED BY <3>2, <6>1, <6>4
        <5>3. Where(key.capture) \in Places
          BY <3>1 DEF JobsInv, WorldInv, WorldTypeOK, Where
        <5>4. Where(key.capture) = "stored"
          BY <5>1, <5>2, <5>3 DEF Places
        <5> QED BY <3>1, <5>4 DEF Told, Where, Stored
      <4>2. q \in 1..Len(log) /\ log[q].capture = key.capture /\ ~(p > q) /\ ~(q > p)
        BY <3>2, <3>5, <4>1 DEF LastWord
      <4>3. q = p
        BY <3>3, <4>2
      <4> QED BY <3>2, <4>1, <4>3 DEF LastWord, AsShown
    <3> QED BY <3>4, <3>5
  <2> QED BY <2>1, <2>2 DEF CacheIsRight, StaleEntriesAreDoomed, AsShown
<1> QED BY <1>1, JobsInvariant, PTL

(***************************************************************************)
(* CaptureSearch: the rows of a page, newest first.                        *)
(***************************************************************************)
LEMMA RangeOfAppended ==
  ASSUME NEW T, NEW p \in Seq(T), NEW q \in Seq(T)
  PROVE  /\ p \o q \in Seq(T) /\ Len(p \o q) = Len(p) + Len(q)
         /\ Range(p \o q) = Range(p) \union Range(q)
<1>1. /\ p \o q \in Seq(T) /\ Len(p \o q) = Len(p) + Len(q)
      /\ \A i \in 1..Len(p) : (p \o q)[i] = p[i]
      /\ \A i \in 1..Len(q) : (p \o q)[Len(p) + i] = q[i]
      /\ \A i \in 1..Len(p \o q) : i \in 1..Len(p) \/ \E j \in 1..Len(q) : i = Len(p) + j
      /\ \A j \in 1..Len(q) : Len(p) + j \in 1..Len(p \o q)
      /\ \A j \in 1..Len(p) : j \in 1..Len(p \o q)
  <2>1. Len(p) \in Nat /\ Len(q) \in Nat
    OBVIOUS
  <2>2. ASSUME NEW i \in 1..(Len(p) + Len(q)), i \notin 1..Len(p)
        PROVE  \E j \in 1..Len(q) : i = Len(p) + j
    <3>1. i - Len(p) \in 1..Len(q) /\ i = Len(p) + (i - Len(p))
      BY <2>1, <2>2
    <3> QED BY <3>1
  <2> QED BY <2>1, <2>2
<1>2. DOMAIN p = 1..Len(p) /\ DOMAIN q = 1..Len(q) /\ DOMAIN (p \o q) = 1..Len(p \o q)
  BY <1>1
<1>3. Range(p \o q) \subseteq Range(p) \union Range(q)
  BY <1>1, <1>2, SMTT(20) DEF Range
<1>4. Range(p) \subseteq Range(p \o q)
  <2>1. ASSUME NEW i \in 1..Len(p) PROVE p[i] \in Range(p \o q)
    BY <1>1, <1>2 DEF Range
  <2> QED BY <1>2, <2>1 DEF Range
<1>5. Range(q) \subseteq Range(p \o q)
  <2>1. ASSUME NEW i \in 1..Len(q) PROVE q[i] \in Range(p \o q)
    BY <1>1, <1>2 DEF Range
  <2> QED BY <1>2, <2>1 DEF Range
<1> QED BY <1>1, <1>3, <1>4, <1>5

\* A page goes on where the last one ended.
LEMMA DescendsOn ==
  ASSUME NEW p \in Seq(Captures), NEW q \in Seq(Captures), Descends(p), Descends(q),
         \A a \in Range(p), b \in Range(q) : b < a
  PROVE  Descends(p \o q)
<1>1. /\ DOMAIN p = 1..Len(p) /\ DOMAIN q = 1..Len(q) /\ DOMAIN (p \o q) = 1..(Len(p) + Len(q))
      /\ Len(p) \in Nat /\ Len(q) \in Nat
  OBVIOUS
<1>2. SUFFICES ASSUME NEW i \in DOMAIN (p \o q), NEW j \in DOMAIN (p \o q), i < j
               PROVE  (p \o q)[i] > (p \o q)[j]
  BY DEF Descends
<1>3. i \in 1..(Len(p) + Len(q)) /\ j \in 1..(Len(p) + Len(q)) /\ i < j
  BY <1>1, <1>2
<1>4. CASE j <= Len(p)
  <2>1. i \in DOMAIN p /\ j \in DOMAIN p /\ (p \o q)[i] = p[i] /\ (p \o q)[j] = p[j]
    BY <1>1, <1>3, <1>4
  <2> QED BY <1>3, <2>1 DEF Descends
<1>5. CASE i <= Len(p) /\ j > Len(p)
  <2>1. i \in DOMAIN p /\ j - Len(p) \in DOMAIN q
        /\ (p \o q)[i] = p[i] /\ (p \o q)[j] = q[j - Len(p)]
    BY <1>1, <1>3, <1>5
  <2>2. p[i] \in Range(p) /\ q[j - Len(p)] \in Range(q)
    BY <2>1 DEF Range
  <2>3. p[i] \in Captures /\ q[j - Len(p)] \in Captures
    BY <1>1, <2>1
  <2>4. p[i] \in Nat /\ q[j - Len(p)] \in Nat
    BY <2>3, WorldAssumption
  <2>5. q[j - Len(p)] < p[i]
    BY <2>2
  <2> QED BY <2>1, <2>4, <2>5
<1>6. CASE i > Len(p)
  <2>1. i - Len(p) \in DOMAIN q /\ j - Len(p) \in DOMAIN q /\ i - Len(p) < j - Len(p)
        /\ (p \o q)[i] = q[i - Len(p)] /\ (p \o q)[j] = q[j - Len(p)]
    BY <1>1, <1>3, <1>6
  <2> QED BY <2>1 DEF Descends
<1> QED BY <1>1, <1>3, <1>4, <1>5, <1>6

Falling(rows) == \A i, j \in DOMAIN rows : i < j => rows[i] > rows[j]

LEMMA FallingExists ==
  ASSUME NEW S, IsFiniteSet(S), S \subseteq Nat
  PROVE  \E rows \in [1..Cardinality(S) -> S] : Falling(rows)
<1> DEFINE G == {U \in SUBSET S : \E rows \in [1..Cardinality(U) -> U] : Falling(rows)}
<1>1. ASSUME NEW U \in SUBSET S, \A V \in SUBSET U : V # U => V \in G
      PROVE  U \in G
  <2>0. IsFiniteSet(U) /\ U \subseteq Nat
    BY FS_Subset
  <2>1. CASE U = {}
    <3>1. Cardinality(U) = 0
      BY <2>1, FS_EmptySet
    <3>2. PICK rows : rows = [i \in 1..0 |-> i]
      OBVIOUS
    <3>3. rows \in [1..0 -> U] /\ Falling(rows)
      BY <3>2 DEF Falling
    <3> QED BY <3>1, <3>3
  <2>2. CASE U # {}
    <3>1. PICK least \in U : \A z \in U : least <= z
      <4>1. U \subseteq Int
        BY <2>0
      <4> QED BY <2>0, <2>2, <4>1, HasExtremes
    <3>2. PICK V : V = U \ {least}
      OBVIOUS
    <3>3. V \in SUBSET U /\ V # U /\ Cardinality(V) = Cardinality(U) - 1
      BY <2>0, <3>2, FS_RemoveElement
    <3>4. V \in G
      <4> HIDE DEF G
      <4> QED BY <1>1, <3>3
    <3>5. PICK f \in [1..Cardinality(V) -> V] : Falling(f)
      BY <3>4
    <3>6. PICK n \in Nat : n = Cardinality(U) /\ n - 1 = Cardinality(V) /\ n - 1 \in Nat
      <4>1. Cardinality(U) \in Nat /\ Cardinality(V) \in Nat
        BY <2>0, <3>3, FS_Subset, FS_CardinalityType
      <4> QED BY <3>3, <4>1
    <3>7. PICK rows : rows = [i \in 1..n |-> IF i = n THEN least ELSE f[i]]
      OBVIOUS
    <3>8. \A i \in 1..n : i # n => i \in 1..Cardinality(V) /\ f[i] \in V /\ f[i] > least
      <4>1. ASSUME NEW i \in 1..n, i # n
            PROVE  i \in 1..Cardinality(V) /\ f[i] \in V /\ f[i] > least
        <5>1. i \in 1..Cardinality(V)
          BY <3>6, <4>1
        <5>2. f[i] \in V
          BY <5>1
        <5>3. f[i] \in U /\ f[i] # least /\ f[i] \in Nat /\ least \in Nat
          BY <2>0, <3>2, <5>2
        <5> QED BY <3>1, <5>1, <5>2, <5>3
      <4> QED BY <4>1
    <3>9. rows \in [1..n -> U]
      BY <3>3, <3>7, <3>8
    <3>10. Falling(rows)
      <4>1. SUFFICES ASSUME NEW i \in 1..n, NEW j \in 1..n, i < j PROVE rows[i] > rows[j]
        BY <3>7 DEF Falling
      <4>2. i # n /\ rows[i] = f[i] /\ i \in DOMAIN f
        BY <3>7, <3>8, <4>1
      <4>3. CASE j = n
        BY <3>7, <3>8, <4>2, <4>3
      <4>4. CASE j # n
        <5>1. rows[j] = f[j] /\ j \in DOMAIN f
          BY <3>7, <3>8, <4>4
        <5> QED BY <3>5, <4>1, <4>2, <5>1 DEF Falling
      <4> QED BY <4>3, <4>4
    <3> QED BY <3>6, <3>9, <3>10
  <2> QED BY <2>1, <2>2
<1>2. S \in G
  <2> HIDE DEF G
  <2> QED BY <1>1, SetInduction
<1> QED BY <1>2

\* The rows of a set are all of it, each once, newest first.
LEMMA NewestFirstIs ==
  ASSUME NEW S \in SUBSET Captures
  PROVE  /\ NewestFirst(S) \in Seq(Captures) /\ Len(NewestFirst(S)) = Cardinality(S)
         /\ Descends(NewestFirst(S)) /\ Range(NewestFirst(S)) = S
<1>1. IsFiniteSet(S) /\ S \subseteq Nat
  BY WorldAssumption, FS_Subset
<1>2. PICK rows : rows = NewestFirst(S)
  OBVIOUS
<1>3. rows \in [1..Cardinality(S) -> S] /\ Falling(rows)
  BY <1>1, <1>2, FallingExists DEF NewestFirst, Falling
<1>4. Cardinality(S) \in Nat
  BY <1>1, FS_CardinalityType
<1>5. rows \in Seq(Captures) /\ Len(rows) = Cardinality(S) /\ Descends(rows)
  BY <1>3, <1>4 DEF Falling, Descends
<1>6. rows \in Injection(1..Cardinality(S), S)
  <2>1. ASSUME NEW a \in DOMAIN rows, NEW b \in DOMAIN rows, rows[a] = rows[b] PROVE a = b
    <3>1. a \in 1..Cardinality(S) /\ b \in 1..Cardinality(S) /\ rows[a] \in Nat
      BY <1>1, <1>3, <2>1
    <3>2. ~(a < b) /\ ~(b < a)
      BY <1>3, <2>1, <3>1 DEF Falling
    <3> QED BY <1>4, <3>1, <3>2
  <2> QED BY <1>3, <2>1 DEF Injection, IsInjective
<1>7. Cardinality(1..Cardinality(S)) = Cardinality(S)
  BY <1>4, FS_Interval
<1>8. rows \in Surjection(1..Cardinality(S), S)
  BY <1>1, <1>6, <1>7, FS_Injection
<1>9. Range(rows) = S
  BY <1>3, <1>8 DEF Surjection, Range
<1> QED BY <1>2, <1>5, <1>9

(***************************************************************************)
(* CaptureSearch: what its client has, and the page it is about to get.    *)
(***************************************************************************)
Counting == {"asking", "matching"}
Below == {<< >>} \union {<<o>> : o \in Nat}

SearchT ==
  [at : Resting \union {"entering", "compiling", "describing"} \union Counting,
   query : {<< >>} \union Queries, limit : {0} \union Limits, from : Nat, cursor : Nat,
   rows : Seq(Captures), bytes : Nat, batch : SUBSET [capture : Captures, shown : Snapshot],
   older : Below, orphans : Nat, got : Seq(Captures), pages : Nat,
   steady : SUBSET Captures, calls : Nat]

\* What was delivered lies above the cursor of the client.
GotDescends(s) ==
  /\ Descends(s.got) /\ \A c \in Range(s.got) : s.from < c
  /\ s.pages <= Len(s.got)
  /\ s.at = "idle" => s.from = Top /\ s.got = << >>

\* The page so far lies between the cursor of the call and that of the client.
RowsDescend(s) ==
  /\ s.at \notin Counting => s.rows = << >> /\ s.bytes = 0
  /\ s.at \notin Resting => s.limit \in 1..MaxPageLimit /\ s.cursor <= s.from
  /\ s.at \notin Resting \union Counting => s.cursor = s.from
  /\ Descends(s.rows) /\ \A c \in Range(s.rows) : s.cursor < c /\ c <= s.from
  /\ s.rows = << >> => s.bytes = 0
  /\ s.at \in Counting => Len(s.rows) < s.limit

\* The batch lies between the cursor of the call and that of the next batch.
BatchIsBetween(s) ==
  s.at = "matching" =>
    /\ \A e \in s.batch : e.capture <= s.cursor
    /\ s.older # << >> => s.older[1] <= s.cursor /\ \A e \in s.batch : s.older[1] < e.capture

\* A steady capture was delivered, is in the page or the batch, or below.
SteadyRead(s) ==
  /\ s.at # "failed" => \A c \in s.steady : s.from < c => c \in Range(s.got)
  /\ s.at \in Counting => \A c \in s.steady : s.cursor < c /\ c <= s.from => c \in Range(s.rows)
  /\ s.at = "matching" =>
       \A c \in s.steady : c <= s.cursor /\ (s.older = << >> \/ s.older[1] < c) => c \in Matching(s)

PageInv(s) ==
  /\ s \in SearchT /\ (s.calls = 0 => s.at = "idle")
  /\ GotDescends(s) /\ RowsDescend(s) /\ BatchIsBetween(s) /\ SteadyRead(s)

SteadyMatch == \A c \in search.steady : MatchesIn(search.query, c, store[c])

SearchInv == WorldInv /\ PageInv(search) /\ SteadyMatch

(***************************************************************************)
(* A call that ends, and a page that is delivered.                         *)
(***************************************************************************)
LEMMA OverIs ==
  ASSUME NEW s \in SearchT, NEW at \in Resting, NEW t, t = Over(s, at)
  PROVE  /\ t \in SearchT /\ t.at = at /\ t.rows = << >> /\ t.bytes = 0 /\ t.batch = {} /\ t.older = << >>
         /\ t.query = s.query /\ t.limit = s.limit /\ t.from = s.from /\ t.cursor = s.cursor
         /\ t.orphans = s.orphans /\ t.got = s.got /\ t.pages = s.pages
         /\ t.steady = s.steady /\ t.calls = s.calls
<1>1. << >> \in Seq(Captures) /\ << >> \in Below
  BY DEF Below
<1>2. t = [s EXCEPT !.at = at, !.rows = << >>, !.bytes = 0, !.batch = {}, !.older = << >>]
  BY DEF Over
<1>3. at \in Resting \union {"entering", "compiling", "describing"} \union Counting
  OBVIOUS
<1>4. t \in SearchT
  <2>1. 0 \in Nat /\ {} \in SUBSET [capture : Captures, shown : Snapshot]
    OBVIOUS
  <2> HIDE DEF Resting, Below
  <2> QED BY <1>1, <1>2, <1>3, <2>1 DEF SearchT
<1>5. /\ t.at = at /\ t.rows = << >> /\ t.bytes = 0 /\ t.batch = {} /\ t.older = << >>
      /\ t.query = s.query /\ t.limit = s.limit /\ t.from = s.from
  BY <1>2 DEF SearchT
<1>6. /\ t.cursor = s.cursor /\ t.orphans = s.orphans /\ t.got = s.got /\ t.pages = s.pages
      /\ t.steady = s.steady /\ t.calls = s.calls
  BY <1>2 DEF SearchT
<1> QED BY <1>4, <1>5, <1>6

LEMMA NothingYet == Descends(<< >>) /\ Range(<< >>) = {} /\ Len(<< >>) = 0
  BY DEF Descends, Range

\* Such a call leaves its client with what it had.
LEMMA OverKeeps ==
  ASSUME NEW s, PageInv(s), s.at \notin Resting, NEW at \in Resting, NEW t, t = Over(s, at),
         at = "idle" => s.got = << >> /\ s.from = Top
  PROVE  PageInv(t)
<1>1. /\ t \in SearchT /\ t.at = at /\ t.rows = << >> /\ t.bytes = 0
      /\ t.from = s.from /\ t.got = s.got /\ t.pages = s.pages /\ t.steady = s.steady
      /\ t.calls = s.calls
  BY OverIs DEF PageInv
<1>2. t.calls = 0 => t.at = "idle"
  BY <1>1 DEF PageInv, Resting
<1>3. GotDescends(t)
  BY <1>1 DEF PageInv, GotDescends
<1>4. RowsDescend(t) /\ BatchIsBetween(t)
  BY <1>1, NothingYet DEF RowsDescend, BatchIsBetween, Resting, Counting
<1>5. SteadyRead(t)
  BY <1>1 DEF PageInv, SteadyRead, Resting, Counting
<1> QED BY <1>1, <1>2, <1>3, <1>4, <1>5 DEF PageInv

\* What is at or below the cursor of the next page, if there is one.
Floor(next) == IF next = << >> THEN 0 ELSE next[1]

Delivers(t, s, next) ==
  /\ t \in SearchT /\ t.at \in {"ended", "paused"}
  /\ t.rows = << >> /\ t.bytes = 0 /\ t.steady = s.steady /\ t.calls = s.calls
  /\ t.query = s.query
  /\ t.got = s.got \o s.rows /\ t.pages = s.pages + Len(next)
  /\ t.from = Floor(next)

LEMMA DeliveredIs ==
  ASSUME NEW s \in SearchT, NEW next \in Below, NEW t, t = Delivered(s, next)
  PROVE  Delivers(t, s, next)
<1>1. PICK at \in Resting : at = IF next = << >> THEN "ended" ELSE "paused"
  BY DEF Resting
<1>2. PICK u : u = Over(s, at)
  OBVIOUS
<1>3. /\ u \in SearchT /\ u.at = at /\ u.rows = << >> /\ u.bytes = 0 /\ u.got = s.got
      /\ u.pages = s.pages /\ u.steady = s.steady /\ u.calls = s.calls /\ u.query = s.query
  BY <1>2, OverIs
<1>4. PICK got, pages, from :
        got = s.got \o s.rows /\ pages = s.pages + Len(next)
        /\ from = Floor(next)
  OBVIOUS
<1>5. got \in Seq(Captures) /\ pages \in Nat /\ from \in Nat
  <2>1. s.got \in Seq(Captures) /\ s.rows \in Seq(Captures) /\ s.pages \in Nat
    BY DEF SearchT
  <2>2. CASE next = << >>
    BY <1>4, <2>1, <2>2, NothingYet DEF Floor
  <2>3. CASE next # << >>
    <3>1. PICK o \in Nat : next = <<o>>
      BY <2>3 DEF Below
    <3>2. Len(next) = 1 /\ next[1] = o
      BY <3>1
    <3> QED BY <1>4, <2>1, <2>3, <3>2 DEF Floor
  <2> QED BY <2>2, <2>3
<1>6. t = [u EXCEPT !.got = got, !.pages = pages, !.from = from]
  BY <1>1, <1>2, <1>3, <1>4 DEF Delivered, Floor
<1>7. /\ t \in SearchT /\ t.got = got /\ t.pages = pages /\ t.from = from /\ t.at = u.at
      /\ t.rows = u.rows /\ t.bytes = u.bytes /\ t.steady = u.steady /\ t.calls = u.calls
      /\ t.query = u.query
  BY <1>3, <1>5, <1>6, ZenonT(30) DEF SearchT
<1> QED BY <1>1, <1>3, <1>4, <1>7 DEF Delivers

\* A page is good if its rows are what a client at its cursor should have.
LEMMA DeliveredKeeps ==
  ASSUME NEW s \in SearchT, GotDescends(s), s.calls # 0,
         NEW next \in Below, NEW floor \in Nat, floor = Floor(next),
         Descends(s.rows), \A c \in Range(s.rows) : floor < c /\ c <= s.from,
         floor <= s.from, next # << >> => s.rows # << >>,
         \A c \in s.steady : s.from < c => c \in Range(s.got),
         \A c \in s.steady : floor < c /\ c <= s.from => c \in Range(s.rows),
         NEW t, t = Delivered(s, next)
  PROVE  PageInv(t)
<1>1. /\ t \in SearchT /\ t.at \in {"ended", "paused"}
      /\ t.rows = << >> /\ t.bytes = 0 /\ t.steady = s.steady /\ t.calls = s.calls
      /\ t.got = s.got \o s.rows /\ t.pages = s.pages + Len(next) /\ t.from = floor
  <2>1. Delivers(t, s, next)
    BY DeliveredIs
  <2> QED BY <2>1 DEF Delivers
<1>2. /\ s.got \in Seq(Captures) /\ s.rows \in Seq(Captures) /\ s.pages \in Nat /\ s.from \in Nat
      /\ s.steady \subseteq Captures
  BY DEF SearchT
<1>3. Range(t.got) = Range(s.got) \union Range(s.rows) /\ Len(t.got) = Len(s.got) + Len(s.rows)
  BY <1>1, <1>2, RangeOfAppended
<1>4. Range(s.got) \subseteq Captures /\ Range(s.rows) \subseteq Captures /\ Captures \subseteq Nat
  <2>1. \A p \in Seq(Captures) : Range(p) \subseteq Captures
    BY DEF Range
  <2> QED BY <1>2, <2>1, WorldAssumption
<1>5. Descends(t.got)
  <2>1. \A a \in Range(s.got), b \in Range(s.rows) : b < a
    <3>1. ASSUME NEW a \in Range(s.got), NEW b \in Range(s.rows) PROVE b < a
      <4>1. a \in Nat /\ b \in Nat /\ s.from < a /\ b <= s.from
        BY <1>4 DEF GotDescends
      <4> QED BY <1>2, <4>1
    <3> QED BY <3>1
  <2> QED BY <1>1, <1>2, <2>1, DescendsOn DEF GotDescends
<1>6. \A c \in Range(t.got) : t.from < c
  <2>1. ASSUME NEW c \in Range(s.got) PROVE floor < c
    <3>1. c \in Nat /\ s.from < c
      BY <1>4 DEF GotDescends
    <3> QED BY <1>2, <3>1
  <2> QED BY <1>1, <1>3, <2>1
<1>7. t.pages <= Len(t.got)
  <2>1. Len(s.got) \in Nat /\ Len(s.rows) \in Nat /\ s.pages <= Len(s.got)
    BY <1>2 DEF GotDescends
  <2>2. Len(next) <= Len(s.rows) /\ Len(next) \in Nat
    <3>1. CASE next = << >>
      BY <2>1, <3>1, NothingYet
    <3>2. CASE next # << >>
      <4>1. Len(next) = 1
        BY <3>2 DEF Below
      <4>2. s.rows # << >>
        BY <3>2
      <4>3. Len(s.rows) # 0
        BY <1>2, <4>2
      <4> QED BY <2>1, <4>1, <4>3
    <3> QED BY <3>1, <3>2
  <2>3. PICK a, b, n, p \in Nat : a = Len(s.got) /\ b = Len(s.rows) /\ n = Len(next) /\ p = s.pages
    BY <1>2, <2>1, <2>2
  <2>4. t.pages = p + n /\ Len(t.got) = a + b /\ p <= a /\ n <= b
    BY <1>1, <1>3, <2>1, <2>2, <2>3
  <2>5. \A i, j, k, l \in Nat : i <= k /\ j <= l => i + j <= k + l
    OBVIOUS
  <2>6. p + n <= a + b
    BY <2>3, <2>4, <2>5
  <2> QED BY <2>4, <2>6, Zenon
<1>8. t.at \in {"ended", "paused"}
  BY <1>1
<1>9. GotDescends(t)
  BY <1>5, <1>6, <1>7, <1>8 DEF GotDescends
<1>10. RowsDescend(t) /\ BatchIsBetween(t)
  BY <1>1, <1>8, NothingYet DEF RowsDescend, BatchIsBetween, Resting, Counting
<1>11. SteadyRead(t)
  <2>1. ASSUME NEW c \in s.steady, floor < c PROVE c \in Range(t.got)
    <3>1. c \in Nat
      BY <1>2, <1>4
    <3>2. s.from < c \/ c <= s.from
      BY <1>2, <3>1
    <3> QED BY <1>3, <2>1, <3>2
  <2> QED BY <1>1, <1>8, <2>1 DEF SteadyRead, Counting
<1> QED BY <1>1, <1>8, <1>9, <1>10, <1>11 DEF PageInv

(***************************************************************************)
(* A page out of a batch.                                                  *)
(***************************************************************************)
LEMMA SizesAre ==
  ASSUME NEW S \in SUBSET Captures
  PROVE  /\ SizeOf(S) \in Nat /\ SizeOf({}) = 0
         /\ \A T \in SUBSET S : SizeOf(T) \in Nat /\ SizeOf(T) <= SizeOf(S)
         /\ \A c \in Captures : SizeOf({c}) = RowSize[c]
<1>1. \A T : SizeOf(T) = Total(RowSize, T)
  BY DEF SizeOf, Total
<1>2. IsFiniteSet(S) /\ IsFiniteSet(Captures) /\ \A c \in Captures : RowSize[c] \in Nat
  BY WorldAssumption, SearchAssumption, FS_Subset
<1>3. Total(RowSize, S) \in Nat /\ Total(RowSize, {}) = 0
  BY <1>2, TotalAdds
<1>4. ASSUME NEW T \in SUBSET S PROVE Total(RowSize, T) \in Nat /\ Total(RowSize, T) <= Total(RowSize, S)
  <2>1. /\ Total(RowSize, T) \in Nat /\ Total(RowSize, S \ T) \in Nat
        /\ Total(RowSize, S) = Total(RowSize, T) + Total(RowSize, S \ T)
    BY <1>2, TotalSplits
  <2> QED BY <2>1
<1>5. ASSUME NEW c \in Captures PROVE Total(RowSize, {c}) = RowSize[c]
  <2>1. Total(RowSize, {} \union {c}) = RowSize[c] + Total(RowSize, {})
    BY <1>2, TotalAdds
  <2>2. {} \union {c} = {c}
    OBVIOUS
  <2> QED BY <1>2, <1>3, <2>1, <2>2
<1> QED BY <1>1, <1>3, <1>4, <1>5

LEMMA MatchingIs ==
  ASSUME NEW s \in SearchT
  PROVE  /\ Matching(s) \in SUBSET Captures /\ IsFiniteSet(Matching(s))
         /\ \A c \in Matching(s) : \E e \in s.batch : c = e.capture
<1>1. s.batch \subseteq [capture : Captures, shown : Snapshot]
  BY DEF SearchT
<1>2. \A c \in Matching(s) : \E e \in s.batch : c = e.capture
  BY DEF Matching
<1>3. Matching(s) \subseteq Captures
  BY <1>1, <1>2
<1> QED BY <1>2, <1>3, WorldAssumption, FS_Subset

\* What is at or above one that matches.
Newer(matching, c) == {d \in matching : d >= c}

LEMMA FittingIs ==
  ASSUME NEW s \in SearchT, NEW matching \in SUBSET Captures, s.limit \in Nat,
         Len(s.rows) <= s.limit, NEW fitting, fitting = Fitting(s, matching)
  PROVE  /\ fitting \subseteq matching /\ IsFiniteSet(fitting) /\ Cardinality(fitting) \in Nat
         /\ \A c \in fitting, d \in matching : c <= d => d \in fitting
         /\ Len(s.rows) + Cardinality(fitting) <= s.limit
<1>1. \A c \in matching :
        c \in fitting <=> /\ Len(s.rows) + Cardinality(Newer(matching, c)) <= s.limit
                          /\ s.bytes + SizeOf(Newer(matching, c)) <= PageBudget
  BY DEF Fitting, Newer
<1>2. fitting \subseteq matching
  BY DEF Fitting
<1>3. matching \subseteq Nat /\ IsFiniteSet(matching) /\ IsFiniteSet(fitting)
  BY <1>2, WorldAssumption, FS_Subset
<1>4. Cardinality(fitting) \in Nat /\ Len(s.rows) \in Nat /\ s.bytes \in Nat
  BY <1>3, FS_CardinalityType DEF SearchT
<1>5. ASSUME NEW c \in fitting, NEW d \in matching, c <= d PROVE d \in fitting
  <2>1. PICK C, D : C = Newer(matching, c) /\ D = Newer(matching, d)
    OBVIOUS
  <2>2. C \in SUBSET matching /\ D \in SUBSET C
    <3>1. ASSUME NEW e \in D PROVE e \in C
      <4>1. e \in matching /\ e >= d /\ e \in Nat /\ d \in Nat /\ c \in Nat
        BY <1>2, <1>3, <2>1, <3>1 DEF Newer
      <4> QED BY <1>5, <2>1, <4>1 DEF Newer
    <3> QED BY <2>1, <3>1 DEF Newer
  <2>3. IsFiniteSet(C)
    BY <1>3, <2>2, FS_Subset
  <2>4. Cardinality(D) <= Cardinality(C) /\ Cardinality(D) \in Nat /\ Cardinality(C) \in Nat
    BY <2>2, <2>3, FS_Subset, FS_CardinalityType
  <2>5. SizeOf(D) <= SizeOf(C) /\ SizeOf(D) \in Nat /\ SizeOf(C) \in Nat
    <3>1. C \in SUBSET Captures
      BY <2>2
    <3> QED BY <2>2, <3>1, SizesAre
  <2>6. Len(s.rows) + Cardinality(C) <= s.limit /\ s.bytes + SizeOf(C) <= PageBudget
    BY <1>1, <1>2, <2>1
  <2>7. PageBudget \in Nat
    BY SearchAssumption
  <2>8. Len(s.rows) + Cardinality(D) <= s.limit
    BY <1>4, <2>4, <2>6
  <2>9. s.bytes + SizeOf(D) <= PageBudget
    BY <1>4, <2>5, <2>6, <2>7
  <2> QED BY <1>1, <2>1, <2>8, <2>9
<1>6. Len(s.rows) + Cardinality(fitting) <= s.limit
  <2>1. CASE fitting = {}
    BY <1>4, <2>1, FS_EmptySet
  <2>2. CASE fitting # {}
    <3>1. PICK x \in fitting : \A z \in fitting : x <= z
      <4>1. fitting \subseteq Int
        <5>1. \A z \in fitting : z \in Nat
          BY <1>2, <1>3
        <5> QED BY <5>1
      <4> QED BY <1>3, <2>2, <4>1, HasExtremes
    <3>2. fitting \subseteq Newer(matching, x)
      <4>1. ASSUME NEW z \in fitting PROVE z \in matching /\ z >= x
        BY <1>2, <1>3, <3>1
      <4> QED BY <4>1 DEF Newer
    <3>3. Newer(matching, x) \subseteq fitting
      <4>1. ASSUME NEW z \in matching, z >= x PROVE z \in fitting
        <5>1. x <= z
          BY <1>2, <1>3, <4>1
        <5> QED BY <1>5, <5>1
      <4> QED BY <4>1 DEF Newer
    <3>4. fitting = Newer(matching, x)
      BY <3>2, <3>3
    <3> QED BY <1>1, <1>2, <3>4
  <2> QED BY <2>1, <2>2
<1> QED BY <1>2, <1>3, <1>4, <1>5, <1>6

\* The largest and the smallest of some captures.
LEMMA ExtremesAre ==
  ASSUME NEW S \in SUBSET Captures, S # {}
  PROVE  /\ Max(S) \in S /\ \A c \in S : c <= Max(S)
         /\ Min(S) \in S /\ \A c \in S : Min(S) <= c
<1>0. S \subseteq Nat
  BY WorldAssumption
<1>1. IsFiniteSet(S) /\ S \subseteq Int /\ S \subseteq Nat
  <2>1. S \subseteq Int
    BY <1>0
  <2> QED BY <1>0, <2>1, WorldAssumption, FS_Subset
<1>2. PICK x, y \in S : \A z \in S : x <= z /\ z <= y
  BY <1>1, HasExtremes
<1>3. \A z \in S : y >= z
  BY <1>1, <1>2
<1>4. Max(S) \in S /\ \A z \in S : Max(S) >= z
  BY <1>3 DEF Max
<1>5. Min(S) \in S /\ \A z \in S : Min(S) <= z
  BY <1>2 DEF Min
<1>6. \A z \in S : z <= Max(S)
  BY <1>1, <1>4
<1> QED BY <1>4, <1>5, <1>6

\* An empty page takes a row, or the search fails.
LEMMA FirstFits ==
  ASSUME NEW s \in SearchT, NEW matching \in SUBSET Captures, matching # {},
         s.limit \in Nat, 0 < s.limit, s.rows = << >>, s.bytes = 0,
         NEW fitting, fitting = Fitting(s, matching), ~Unsendable(s, matching, fitting)
  PROVE  fitting # {}
<1> SUFFICES ASSUME fitting = {} PROVE FALSE
  OBVIOUS
<1>1. PICK x \in matching : x = Max(matching) /\ \A c \in matching : c <= x
  BY ExtremesAre
<1>2. matching \ fitting = matching /\ Len(s.rows) = 0 /\ Cardinality(fitting) = 0
  BY FS_EmptySet, NothingYet
<1>3. ~(RowSize[x] > PageBudget)
  BY <1>1, <1>2 DEF Unsendable
<1>4. PICK newer : newer = {d \in matching : d >= x}
  OBVIOUS
<1>5. newer = {x}
  <2>1. ASSUME NEW d \in matching, d >= x PROVE d = x
    <3>1. d \in Nat /\ x \in Nat /\ d <= x
      BY <1>1, WorldAssumption
    <3> QED BY <2>1, <3>1
  <2>2. x >= x
    BY WorldAssumption
  <2> QED BY <1>4, <2>1, <2>2
<1>6. Cardinality(newer) = 1 /\ SizeOf(newer) = RowSize[x] /\ RowSize[x] \in Nat
  <2>1. x \in Captures
    OBVIOUS
  <2> QED BY <1>5, <2>1, FS_Singleton, SizesAre, SearchAssumption
<1>7. Len(s.rows) + Cardinality(newer) <= s.limit /\ s.bytes + SizeOf(newer) <= PageBudget
  BY <1>2, <1>3, <1>6, SearchAssumption
<1>8. x \in Fitting(s, matching)
  BY <1>4, <1>7 DEF Fitting
<1> QED BY <1>8

\* A page, extended by what fits of its batch.
ExtendsBy(t, s, fitting) ==
  /\ t \in SearchT /\ t.at = s.at /\ t.query = s.query /\ t.limit = s.limit
  /\ t.from = s.from /\ t.cursor = s.cursor /\ t.got = s.got /\ t.pages = s.pages
  /\ t.steady = s.steady /\ t.calls = s.calls /\ t.batch = {} /\ t.older = << >>
  /\ t.rows = s.rows \o NewestFirst(fitting) /\ t.bytes = s.bytes + SizeOf(fitting)
  /\ Descends(NewestFirst(fitting))
  /\ Range(t.rows) = Range(s.rows) \union fitting
  /\ Len(t.rows) = Len(s.rows) + Cardinality(fitting)

LEMMA ExtendedIs ==
  ASSUME NEW s \in SearchT, NEW fitting \in SUBSET Captures, NEW t, t = Extended(s, fitting)
  PROVE  ExtendsBy(t, s, fitting)
<1>1. PICK rows, bytes : rows = s.rows \o NewestFirst(fitting) /\ bytes = s.bytes + SizeOf(fitting)
  OBVIOUS
<1>2. /\ NewestFirst(fitting) \in Seq(Captures) /\ Descends(NewestFirst(fitting))
      /\ Len(NewestFirst(fitting)) = Cardinality(fitting) /\ Range(NewestFirst(fitting)) = fitting
  BY NewestFirstIs
<1>3. /\ rows \in Seq(Captures) /\ Range(rows) = Range(s.rows) \union fitting
      /\ Len(rows) = Len(s.rows) + Cardinality(fitting)
  <2>1. s.rows \in Seq(Captures)
    BY DEF SearchT
  <2>2. PICK q \in Seq(Captures) : q = NewestFirst(fitting)
    BY <1>2
  <2>3. /\ s.rows \o q \in Seq(Captures) /\ Len(s.rows \o q) = Len(s.rows) + Len(q)
        /\ Range(s.rows \o q) = Range(s.rows) \union Range(q)
    BY <2>1, RangeOfAppended
  <2>4. rows = s.rows \o q /\ Len(q) = Cardinality(fitting) /\ Range(q) = fitting
    BY <1>1, <1>2, <2>2
  <2> QED BY <2>3, <2>4
<1>4. bytes \in Nat
  <2>1. s.bytes \in Nat /\ SizeOf(fitting) \in Nat
    BY SizesAre DEF SearchT
  <2> QED BY <1>1, <2>1
<1>5. t = [s EXCEPT !.rows = rows, !.bytes = bytes, !.batch = {}, !.older = << >>]
  BY <1>1 DEF Extended, SearchT
<1>6. t \in SearchT
  <2>1. << >> \in Below /\ {} \in SUBSET [capture : Captures, shown : Snapshot]
    BY DEF Below
  <2> HIDE DEF Below, Resting
  <2> QED BY <1>3, <1>4, <1>5, <2>1 DEF SearchT
<1>7. /\ t.at = s.at /\ t.query = s.query /\ t.limit = s.limit
      /\ t.from = s.from /\ t.cursor = s.cursor /\ t.got = s.got /\ t.pages = s.pages
  BY <1>5 DEF SearchT
<1>8. /\ t.steady = s.steady /\ t.calls = s.calls /\ t.batch = {} /\ t.older = << >>
      /\ t.rows = rows /\ t.bytes = bytes
  BY <1>5 DEF SearchT
<1> QED BY <1>1, <1>2, <1>3, <1>6, <1>7, <1>8 DEF ExtendsBy

\* The rows of a page that was extended down to a floor are all a client may
\* ask for above it.
LEMMA RowsReachFloor ==
  ASSUME NEW s, PageInv(s), s.at = "matching",
         NEW fitting, fitting \subseteq Matching(s), NEW t, t = Extended(s, fitting),
         NEW floor \in Nat, floor <= s.cursor, \A c \in fitting : floor < c,
         \A c \in Matching(s) : floor < c => c \in fitting,
         s.older # << >> => s.older[1] <= floor
  PROVE  /\ t \in SearchT /\ GotDescends(t) /\ t.calls # 0
         /\ Descends(t.rows) /\ \A c \in Range(t.rows) : floor < c /\ c <= t.from
         /\ floor <= t.from
         /\ \A c \in t.steady : t.from < c => c \in Range(t.got)
         /\ \A c \in t.steady : floor < c /\ c <= t.from => c \in Range(t.rows)
<1>1. s \in SearchT /\ Matching(s) \in SUBSET Captures /\ fitting \in SUBSET Captures
  BY MatchingIs DEF PageInv
<1>2. /\ t \in SearchT /\ t.at = s.at /\ t.from = s.from /\ t.got = s.got /\ t.pages = s.pages
      /\ t.steady = s.steady /\ t.calls = s.calls
      /\ t.rows = s.rows \o NewestFirst(fitting) /\ Descends(NewestFirst(fitting))
      /\ Range(t.rows) = Range(s.rows) \union fitting
  <2>1. ExtendsBy(t, s, fitting)
    BY <1>1, ExtendedIs
  <2> QED BY <2>1 DEF ExtendsBy
<1>3. GotDescends(t) /\ t.calls # 0
  BY <1>2 DEF PageInv, GotDescends
<1>4. /\ s.rows \in Seq(Captures) /\ s.from \in Nat /\ s.cursor \in Nat /\ s.cursor <= s.from
      /\ Range(s.rows) \subseteq Nat /\ fitting \subseteq Nat /\ s.steady \subseteq Nat
  <2>1. s.rows \in Seq(Captures) /\ s.from \in Nat /\ s.cursor \in Nat /\ s.steady \subseteq Captures
    BY <1>1 DEF SearchT
  <2>2. s.cursor <= s.from
    BY DEF PageInv, RowsDescend, Resting
  <2>3. Range(s.rows) \subseteq Captures
    BY <2>1 DEF Range
  <2> QED BY <1>1, <2>1, <2>2, <2>3, WorldAssumption
<1>5. \A c \in Range(s.rows) : s.cursor < c /\ c <= s.from
  BY DEF PageInv, RowsDescend
<1>6. \A c \in fitting : c <= s.cursor
  <2>1. \A c \in fitting : \E e \in s.batch : c = e.capture
    BY <1>1, MatchingIs
  <2> QED BY <2>1 DEF PageInv, BatchIsBetween
<1>7. Descends(t.rows)
  <2>1. NewestFirst(fitting) \in Seq(Captures) /\ Range(NewestFirst(fitting)) = fitting
    BY <1>1, NewestFirstIs
  <2>2. \A a \in Range(s.rows), b \in fitting : b < a
    <3>1. ASSUME NEW a \in Range(s.rows), NEW b \in fitting PROVE b < a
      <4>1. a \in Nat /\ b \in Nat /\ s.cursor < a /\ b <= s.cursor
        BY <1>4, <1>5, <1>6
      <4> QED BY <1>4, <4>1
    <3> QED BY <3>1
  <2>3. Descends(s.rows)
    BY DEF PageInv, RowsDescend
  <2> QED BY <1>2, <1>4, <2>1, <2>2, <2>3, DescendsOn
<1>8. ASSUME NEW c \in Range(t.rows) PROVE floor < c /\ c <= t.from
  <2>1. CASE c \in Range(s.rows)
    <3>1. c \in Nat /\ s.cursor < c /\ c <= s.from
      BY <1>4, <1>5, <2>1
    <3> QED BY <1>2, <1>4, <3>1
  <2>2. CASE c \in fitting
    <3>1. c \in Nat /\ c <= s.cursor
      BY <1>4, <1>6, <2>2
    <3> QED BY <1>2, <1>4, <2>2, <3>1
  <2> QED BY <1>2, <2>1, <2>2
<1>9. ASSUME NEW c \in s.steady, floor < c, c <= s.from PROVE c \in Range(t.rows)
  <2>1. c \in Nat
    BY <1>4
  <2>2. CASE s.cursor < c
    BY <1>2, <1>9, <2>2 DEF PageInv, SteadyRead, Counting
  <2>3. CASE c <= s.cursor
    <3>1. s.older = << >> \/ s.older[1] < c
      <4>1. ASSUME s.older # << >> PROVE s.older[1] < c
        <5>1. PICK o \in Nat : s.older = <<o>>
          BY <1>1, <4>1 DEF SearchT, Below
        <5> QED BY <1>9, <2>1, <4>1, <5>1
      <4> QED BY <4>1
    <3>2. c \in Matching(s)
      BY <2>3, <3>1 DEF PageInv, SteadyRead
    <3> QED BY <1>2, <1>9, <3>2
  <2> QED BY <1>4, <2>1, <2>2, <2>3
<1>10. floor <= t.from
  BY <1>2, <1>4
<1>11. \A c \in s.steady : s.from < c => c \in Range(s.got)
  BY DEF PageInv, SteadyRead
<1> QED BY <1>2, <1>3, <1>7, <1>8, <1>9, <1>10, <1>11

LEMMA PageIsDelivered ==
  ASSUME NEW s, PageInv(s), s.at = "matching",
         NEW fitting, fitting \subseteq Matching(s), NEW t, t = Extended(s, fitting),
         NEW next \in Below, Floor(next) <= s.cursor, \A c \in fitting : Floor(next) < c,
         \A c \in Matching(s) : Floor(next) < c => c \in fitting,
         s.older # << >> => s.older[1] <= Floor(next), next # << >> => t.rows # << >>,
         NEW u, u = Delivered(t, next)
  PROVE  PageInv(u) /\ u.steady = s.steady /\ u.query = s.query
<1>1. PICK floor \in Nat : floor = Floor(next)
  BY DEF Floor, Below
<1>2. /\ t \in SearchT /\ GotDescends(t) /\ t.calls # 0
      /\ Descends(t.rows) /\ \A c \in Range(t.rows) : floor < c /\ c <= t.from
      /\ floor <= t.from
      /\ \A c \in t.steady : t.from < c => c \in Range(t.got)
      /\ \A c \in t.steady : floor < c /\ c <= t.from => c \in Range(t.rows)
  <2>1. /\ floor <= s.cursor /\ \A c \in fitting : floor < c
        /\ \A c \in Matching(s) : floor < c => c \in fitting
        /\ s.older # << >> => s.older[1] <= floor
    BY <1>1
  <2> QED BY <2>1, RowsReachFloor
<1>3. PageInv(u)
  BY <1>1, <1>2, DeliveredKeeps
<1>4. u.steady = t.steady /\ u.query = t.query
  <2>1. Delivers(u, t, next)
    BY <1>2, DeliveredIs
  <2> QED BY <2>1 DEF Delivers
<1>5. t.steady = s.steady /\ t.query = s.query
  <2>1. s \in SearchT /\ fitting \in SUBSET Captures
    BY MatchingIs DEF PageInv
  <2>2. ExtendsBy(t, s, fitting)
    BY <2>1, ExtendedIs
  <2> QED BY <2>2 DEF ExtendsBy
<1> QED BY <1>3, <1>4, <1>5

\* The four ways on: below the last row of a full page, at the row that did
\* not fit, at the end, and to the next batch.
LEMMA MatchedKeeps ==
  ASSUME NEW s, PageInv(s), s.at = "matching",
         NEW matching, matching = Matching(s), NEW fitting, fitting = Fitting(s, matching),
         ~Unsendable(s, matching, fitting),
         NEW u, u = Continued(s, Extended(s, fitting), PageCursor(s, matching, fitting))
  PROVE  PageInv(u) /\ u.steady = s.steady /\ u.query = s.query
<1>1. s \in SearchT /\ matching \in SUBSET Captures /\ matching \subseteq Nat \ {0}
  BY MatchingIs, WorldAssumption DEF PageInv
<1>2. s.limit \in 1..MaxPageLimit /\ Len(s.rows) < s.limit /\ s.cursor <= s.from
  BY DEF PageInv, RowsDescend, Resting, Counting
<1>3. /\ s.limit \in Nat /\ s.limit > 0 /\ Len(s.rows) <= s.limit /\ Len(s.rows) \in Nat
      /\ s.cursor \in Nat /\ s.from \in Nat /\ s.rows \in Seq(Captures) /\ s.older \in Below
  BY <1>1, <1>2, SearchAssumption DEF SearchT
<1>4. /\ fitting \subseteq matching /\ IsFiniteSet(fitting) /\ Cardinality(fitting) \in Nat
      /\ \A c \in fitting, d \in matching : c <= d => d \in fitting
      /\ Len(s.rows) + Cardinality(fitting) <= s.limit
  BY <1>1, <1>3, FittingIs
<1>5. fitting \in SUBSET Captures /\ fitting \subseteq Nat \ {0}
  BY <1>1, <1>4
<1>6. PICK t : t = Extended(s, fitting)
  OBVIOUS
<1>7. /\ t \in SearchT /\ t.limit = s.limit /\ Range(t.rows) = Range(s.rows) \union fitting
      /\ Len(t.rows) = Len(s.rows) + Cardinality(fitting)
      /\ t.at = s.at /\ t.query = s.query /\ t.from = s.from /\ t.cursor = s.cursor
      /\ t.steady = s.steady /\ t.calls = s.calls /\ t.got = s.got /\ t.pages = s.pages
      /\ t.bytes = s.bytes + SizeOf(fitting) /\ t.batch = {} /\ t.older = << >>
  <2>1. ExtendsBy(t, s, fitting)
    BY <1>1, <1>5, <1>6, ExtendedIs
  <2> QED BY <2>1 DEF ExtendsBy
<1>8. \A c \in matching : c <= s.cursor
  <2>1. \A c \in matching : \E e \in s.batch : c = e.capture
    BY <1>1, MatchingIs
  <2> QED BY <2>1 DEF PageInv, BatchIsBetween
<1>9. s.older # << >> =>
        /\ s.older = <<s.older[1]>> /\ s.older[1] \in Nat /\ s.older[1] <= s.cursor
        /\ \A e \in s.batch : s.older[1] < e.capture
        /\ \A c \in matching : s.older[1] < c
  <2>1. \A c \in matching : \E e \in s.batch : c = e.capture
    BY <1>1, MatchingIs
  <2> QED BY <1>3, <2>1 DEF PageInv, BatchIsBetween, Below
<1>10. t.rows = << >> => s.rows = << >> /\ fitting = {}
  <2>1. ASSUME t.rows = << >> PROVE Len(s.rows) = 0 /\ Cardinality(fitting) = 0
    <3>1. Len(t.rows) = 0
      BY <2>1, NothingYet
    <3> QED BY <1>3, <1>4, <1>7, <3>1
  <2>2. Len(s.rows) = 0 => s.rows = << >>
    BY <1>3
  <2>3. Cardinality(fitting) = 0 => fitting = {}
    BY <1>4, FS_EmptySet
  <2> QED BY <2>1, <2>2, <2>3
<1>11. matching # {} => t.rows # << >>
  <2>1. SUFFICES ASSUME matching # {}, t.rows = << >> PROVE FALSE
    OBVIOUS
  <2>2. s.rows = << >> /\ fitting = {} /\ s.bytes = 0
    BY <1>10, <2>1 DEF PageInv, RowsDescend
  <2>3. 0 < s.limit
    BY <1>3
  <2> QED BY <1>1, <1>3, <2>1, <2>2, <2>3, FirstFits
<1> DEFINE next == PageCursor(s, matching, fitting)
<1>12. CASE IsFull(t) /\ HasOlder(s, fitting)
  <2>1. Len(s.rows) + Cardinality(fitting) = s.limit /\ Len(s.rows) < s.limit
    BY <1>2, <1>7, <1>12 DEF IsFull
  <2>2. fitting # {}
    <3>1. Cardinality(fitting) # 0
      BY <1>3, <1>4, <2>1
    <3> QED BY <3>1, FS_EmptySet
  <2>3. PICK x \in fitting : x = Min(fitting) /\ \A c \in fitting : x <= c
    BY <1>5, <2>2, ExtremesAre
  <2>4. PICK floor \in Nat : floor = x - 1
    BY <1>5
  <2>5. next = <<floor>> /\ Floor(<<floor>>) = floor /\ <<floor>> \in Below
    BY <1>12, <2>1, <2>3, <2>4 DEF PageCursor, Floor, Below
  <2>6. u = Delivered(t, <<floor>>)
    BY <1>6, <1>12, <2>5 DEF Continued
  <2>7. x <= s.cursor /\ x \in Nat /\ x > 0
    BY <1>4, <1>5, <1>8
  <2>8. floor <= s.cursor
    BY <1>3, <2>4, <2>7
  <2>9. \A c \in fitting : floor < c
    <3>1. ASSUME NEW c \in fitting PROVE floor < c
      <4>1. c \in Nat /\ x <= c
        BY <1>5, <2>3
      <4> QED BY <2>4, <2>7, <4>1
    <3> QED BY <3>1
  <2>10. \A c \in matching : floor < c => c \in fitting
    <3>1. ASSUME NEW c \in matching, floor < c PROVE c \in fitting
      <4>1. c \in Nat
        BY <1>1
      <4>2. x <= c
        BY <2>4, <2>7, <3>1, <4>1
      <4> QED BY <1>4, <4>2
    <3> QED BY <3>1
  <2>11. s.older # << >> => s.older[1] <= floor
    <3>1. ASSUME s.older # << >> PROVE s.older[1] <= floor
      <4>1. s.older[1] \in Nat /\ s.older[1] < x
        BY <1>4, <1>9, <3>1
      <4> QED BY <2>4, <2>7, <4>1
    <3> QED BY <3>1
  <2>12. t.rows # << >>
    BY <1>4, <1>11, <2>2
  <2> HIDE DEF next
  <2> QED BY <1>4, <1>6, <2>5, <2>6, <2>8, <2>9, <2>10, <2>11, <2>12, PageIsDelivered
<1>13. CASE IsFull(t) /\ ~HasOlder(s, fitting)
  <2>1. Len(s.rows) + Cardinality(fitting) = s.limit
    BY <1>2, <1>7, <1>13 DEF IsFull
  <2>2. u = Delivered(t, s.older)
    BY <1>6, <1>13, <2>1 DEF Continued, PageCursor
  <2>3. fitting = matching
    <3>1. ASSUME NEW c \in matching PROVE c \in fitting
      <4>1. PICK e \in s.batch : c = e.capture
        BY <1>1, MatchingIs
      <4>2. PICK d \in fitting : ~(c < d)
        BY <1>13, <4>1 DEF HasOlder
      <4>3. d <= c
        BY <1>1, <1>4, <4>2
      <4> QED BY <1>4, <4>3
    <3> QED BY <1>4, <3>1
  <2>4. s.older # << >> => t.rows # << >>
    <3>1. Len(t.rows) # 0
      BY <1>3, <1>7, <2>1
    <3> QED BY <3>1, NothingYet
  <2>5. /\ Floor(s.older) <= s.cursor /\ \A c \in fitting : Floor(s.older) < c
        /\ s.older # << >> => s.older[1] <= Floor(s.older)
    <3>1. CASE s.older = << >>
      <4>1. \A c \in fitting : 0 < c
        BY <1>5
      <4> QED BY <1>3, <3>1, <4>1 DEF Floor
    <3>2. CASE s.older # << >>
      BY <1>4, <1>9, <3>2 DEF Floor
    <3> QED BY <3>1, <3>2
  <2> QED BY <1>3, <1>4, <1>6, <2>2, <2>3, <2>4, <2>5, PageIsDelivered
<1>14. CASE ~IsFull(t) /\ matching # fitting
  <2>1. Len(s.rows) + Cardinality(fitting) # s.limit
    BY <1>7, <1>14 DEF IsFull
  <2>2. matching \ fitting # {} /\ matching \ fitting \in SUBSET Captures
    BY <1>1, <1>4, <1>14
  <2>3. PICK floor \in matching \ fitting :
          floor = Max(matching \ fitting) /\ \A c \in matching \ fitting : c <= floor
    BY <2>2, ExtremesAre
  <2>4. floor \in Nat /\ floor <= s.cursor
    BY <1>1, <1>8
  <2>5. next = <<floor>> /\ Floor(<<floor>>) = floor /\ <<floor>> \in Below
    BY <1>14, <2>1, <2>3, <2>4 DEF PageCursor, Floor, Below
  <2>6. u = Delivered(t, <<floor>>)
    BY <1>6, <1>14, <2>5 DEF Continued
  <2>7. \A c \in fitting : floor < c
    <3>1. ASSUME NEW c \in fitting PROVE floor < c
      <4>1. ~(c <= floor) /\ c \in Nat
        BY <1>4, <1>5
      <4> QED BY <2>4, <4>1
    <3> QED BY <3>1
  <2>8. \A c \in matching : floor < c => c \in fitting
    <3>1. ASSUME NEW c \in matching, floor < c, c \notin fitting PROVE FALSE
      <4>1. c <= floor /\ c \in Nat
        BY <1>1, <2>3, <3>1
      <4> QED BY <2>4, <3>1, <4>1
    <3> QED BY <3>1
  <2>9. s.older # << >> => s.older[1] <= floor
    <3>1. ASSUME s.older # << >> PROVE s.older[1] <= floor
      <4>1. s.older[1] \in Nat /\ s.older[1] < floor
        BY <1>9, <3>1
      <4> QED BY <2>4, <4>1
    <3> QED BY <3>1
  <2>10. t.rows # << >>
    BY <1>4, <1>11, <2>2
  <2> HIDE DEF next
  <2> QED BY <1>4, <1>6, <2>4, <2>5, <2>6, <2>7, <2>8, <2>9, <2>10, PageIsDelivered
<1>15. CASE ~IsFull(t) /\ matching = fitting /\ s.older = << >>
  <2>1. Len(s.rows) + Cardinality(fitting) # s.limit
    BY <1>7, <1>15 DEF IsFull
  <2>2. u = Delivered(t, << >>)
    BY <1>6, <1>15, <2>1 DEF Continued, PageCursor
  <2>3. PICK none \in Below : none = << >>
    BY DEF Below
  <2>4. Floor(none) <= s.cursor /\ \A c \in fitting : Floor(none) < c
    BY <1>3, <1>5, <2>3 DEF Floor
  <2>5. u = Delivered(t, none) /\ fitting \subseteq Matching(s)
    BY <1>4, <2>2, <2>3
  <2>6. \A c \in Matching(s) : c \in fitting
    BY <1>15
  <2>7. (s.older # << >> => s.older[1] <= Floor(none)) /\ (none # << >> => t.rows # << >>)
    BY <1>15, <2>3
  <2>8. \A c \in Matching(s) : Floor(none) < c => c \in fitting
    BY <2>6
  <2> QED BY <1>6, <2>4, <2>5, <2>7, <2>8, PageIsDelivered
<1>16. CASE ~IsFull(t) /\ matching = fitting /\ s.older # << >>
  <2>1. Len(s.rows) + Cardinality(fitting) # s.limit
    BY <1>7, <1>16 DEF IsFull
  <2>2. PICK floor \in Nat : floor = s.older[1] /\ floor <= s.cursor /\ \A c \in matching : floor < c
    BY <1>9, <1>16
  <2>3. u = [t EXCEPT !.at = "asking", !.cursor = floor]
    BY <1>6, <1>16, <2>1, <2>2 DEF Continued, PageCursor
  <2>4. /\ u \in SearchT /\ u.at = "asking" /\ u.cursor = floor /\ u.rows = t.rows
        /\ u.from = s.from /\ u.got = s.got /\ u.pages = s.pages /\ u.steady = s.steady
        /\ u.calls = s.calls /\ u.limit = s.limit /\ u.bytes = t.bytes /\ u.query = s.query
    <3>1. "asking" \in Resting \union {"entering", "compiling", "describing"} \union Counting
      BY DEF Counting
    <3> HIDE DEF Resting, Counting
    <3> QED BY <1>7, <2>3, <3>1 DEF SearchT
  <2>5. /\ Descends(t.rows) /\ \A c \in Range(t.rows) : floor < c /\ c <= t.from
        /\ floor <= t.from
        /\ \A c \in t.steady : t.from < c => c \in Range(t.got)
        /\ \A c \in t.steady : floor < c /\ c <= t.from => c \in Range(t.rows)
    <3>1. s.older[1] <= floor /\ floor <= s.cursor /\ \A c \in fitting : floor < c
      BY <1>4, <2>2
    <3>2. fitting \subseteq Matching(s) /\ \A c \in Matching(s) : c \in fitting
      BY <1>4, <1>16
    <3> QED BY <1>6, <3>1, <3>2, RowsReachFloor
  <2>6. GotDescends(u) /\ u.calls # 0
    BY <2>4 DEF PageInv, GotDescends
  <2>7. t.rows = << >> => t.bytes = 0
    <3>1. ASSUME t.rows = << >> PROVE t.bytes = 0
      <4>1. fitting = {} /\ s.bytes = 0
        BY <1>10, <3>1 DEF PageInv, RowsDescend
      <4>2. SizeOf({}) = 0
        BY <1>5, SizesAre
      <4> QED BY <1>7, <4>1, <4>2
    <3> QED BY <3>1
  <2>8. Len(u.rows) < u.limit
    <3>1. PICK a, b \in Nat : a = Len(s.rows) /\ b = Cardinality(fitting)
      BY <1>3, <1>4
    <3>2. a + b # s.limit /\ a + b <= s.limit
      BY <1>4, <1>7, <1>16, <3>1 DEF IsFull
    <3>3. a + b < s.limit
      BY <1>3, <3>1, <3>2
    <3> QED BY <1>7, <2>4, <3>1, <3>3
  <2>9. RowsDescend(u)
    BY <1>2, <1>7, <2>4, <2>5, <2>7, <2>8 DEF RowsDescend, Resting, Counting
  <2>10. BatchIsBetween(u) /\ SteadyRead(u)
    BY <1>7, <2>4, <2>5 DEF BatchIsBetween, SteadyRead
  <2> QED BY <2>4, <2>6, <2>9, <2>10 DEF PageInv
<1> QED BY <1>12, <1>13, <1>14, <1>15, <1>16

(***************************************************************************)
(* The steps of a search.                                                  *)
(***************************************************************************)
LEMMA PageNext ==
  ASSUME NEW t, search' = t, PageInv(t) PROVE PageInv(search)'
BY DEF PageInv, GotDescends, RowsDescend, BatchIsBetween, SteadyRead, Matching, Descends

\* A step that leaves the world alone and forgets no steady capture's match.
LEMMA SearchMoves ==
  ASSUME SearchInv, UNCHANGED worldVars, NEW t, search' = t, PageInv(t),
         t.query = search.query, t.steady \subseteq search.steady
  PROVE  SearchInv'
<1>1. WorldInv'
  BY WorldStutters DEF SearchInv
<1>2. store' = store
  BY DEF worldVars
<1>3. SteadyMatch'
  <2>1. ASSUME NEW c \in t.steady PROVE MatchesIn(t.query, c, store[c])
    BY <2>1 DEF SearchInv, SteadyMatch
  <2> QED BY <1>2, <2>1 DEF SteadyMatch, MatchesIn
<1>4. PageInv(search)'
  BY PageNext
<1> QED BY <1>1, <1>3, <1>4 DEF SearchInv

LEMMA TopIs == Top \in Captures /\ Top \in Nat /\ \A c \in Captures : c <= Top
<1>1. Captures \subseteq Int /\ Captures \subseteq Nat
  BY WorldAssumption
<1>2. PICK y \in Captures : \A c \in Captures : c <= y
  <2>1. \E x, y \in Captures : \A z \in Captures : x <= z /\ z <= y
    BY <1>1, WorldAssumption, SearchAssumption, HasExtremes
  <2> QED BY <2>1
<1>3. Top \in Captures /\ \A c \in Captures : c <= Top
  BY <1>2 DEF Top
<1> QED BY <1>1, <1>3

LEMMA SearchStarts == Init /\ SearchInit => SearchInv
<1> SUFFICES ASSUME Init, SearchInit PROVE SearchInv
  OBVIOUS
<1>1. WorldInv
  BY WorldStarts DEF Init
<1>2. PICK s : s = search
  OBVIOUS
<1>3. /\ s.at = "idle" /\ s.query = << >> /\ s.limit = 0 /\ s.from = Top /\ s.cursor = Top
      /\ s.rows = << >> /\ s.bytes = 0 /\ s.batch = {} /\ s.older = << >> /\ s.orphans = 0
      /\ s.got = << >> /\ s.pages = 0 /\ s.steady = {} /\ s.calls = 0
  BY <1>2 DEF SearchInit
<1>4. s \in SearchT
  <2>1. /\ "idle" \in Resting \union {"entering", "compiling", "describing"} \union Counting
        /\ << >> \in Below /\ << >> \in Seq(Captures) /\ 0 \in Nat /\ Top \in Nat
    BY TopIs DEF Resting, Below
  <2>2. s \in [at : {"idle"}, query : {<< >>}, limit : {0}, from : {Top}, cursor : {Top},
              rows : {<< >>}, bytes : {0}, batch : {{}}, older : {<< >>}, orphans : {0},
              got : {<< >>}, pages : {0}, steady : {{}}, calls : {0}]
    BY <1>2 DEF SearchInit
  <2> HIDE DEF Resting, Counting, Below, Top
  <2> QED BY <2>1, <2>2 DEF SearchT
<1>5. GotDescends(s) /\ RowsDescend(s) /\ BatchIsBetween(s) /\ SteadyRead(s)
  BY <1>3, NothingYet DEF GotDescends, RowsDescend, BatchIsBetween, SteadyRead, Resting, Counting
<1>6. PageInv(s)
  BY <1>3, <1>4, <1>5 DEF PageInv
<1> QED BY <1>1, <1>2, <1>3, <1>6 DEF SearchInv, SteadyMatch

\* The parts of a call that a later step leaves alone.
LEMMA StepForward ==
  ASSUME NEW s, PageInv(s), s.at \notin Resting, NEW at \in {"compiling", "describing", "asking"},
         s.at \notin Counting, NEW t, t = [s EXCEPT !.at = at]
  PROVE  PageInv(t) /\ t.query = s.query /\ t.steady = s.steady
<1>1. s \in SearchT
  BY DEF PageInv
<1>2. /\ t.at = at /\ t.query = s.query /\ t.limit = s.limit /\ t.from = s.from
      /\ t.cursor = s.cursor /\ t.rows = s.rows /\ t.bytes = s.bytes
      /\ t.got = s.got /\ t.pages = s.pages /\ t.steady = s.steady /\ t.calls = s.calls
  BY <1>1 DEF SearchT
<1>3. t \in SearchT
  <2>1. at \in Resting \union {"entering", "compiling", "describing"} \union Counting
    BY DEF Counting
  <2> HIDE DEF Resting, Counting, Below
  <2> QED BY <1>1, <2>1 DEF SearchT
<1>4. GotDescends(t) /\ (t.calls = 0 => t.at = "idle")
  BY <1>2 DEF PageInv, GotDescends, Resting
<1>5. s.rows = << >> /\ s.bytes = 0 /\ s.limit \in 1..MaxPageLimit /\ s.cursor = s.from /\ s.from \in Nat
  BY <1>1 DEF PageInv, RowsDescend, SearchT
<1>6. RowsDescend(t) /\ BatchIsBetween(t)
  <2>1. 0 < s.limit /\ Len(s.rows) = 0
    BY <1>5, NothingYet, SearchAssumption
  <2> QED BY <1>2, <1>5, <2>1, NothingYet DEF RowsDescend, BatchIsBetween, Resting, Counting
<1>7. SteadyRead(t)
  <2>1. \A c \in s.steady : s.from < c => c \in Range(s.got)
    BY DEF PageInv, SteadyRead, Resting
  <2>2. \A c \in s.steady : ~(s.cursor < c /\ c <= s.from)
    BY <1>1, <1>5, WorldAssumption DEF SearchT
  <2> QED BY <1>2, <2>1, <2>2 DEF SteadyRead
<1> QED BY <1>2, <1>3, <1>4, <1>6, <1>7 DEF PageInv

LEMMA AskPageSearches ==
  ASSUME SearchInv, AskPage PROVE SearchInv'
<1>1. PICK s : s = search
  OBVIOUS
<1>2. PageInv(s) /\ s \in SearchT /\ s.at \in {"idle", "paused"} /\ UNCHANGED worldVars
  BY <1>1 DEF SearchInv, PageInv, AskPage, SearchBecomes
<1>3. PICK limit, query, steady, at :
        /\ limit \in (IF s.calls = 0 THEN Limits ELSE {s.limit})
        /\ query \in (IF s.calls = 0 THEN Queries ELSE {s.query})
        /\ steady = (IF s.at = "idle" THEN {c \in Captures : MatchesIn(query, c, store[c])} ELSE s.steady)
        /\ at = (IF limit \in 1..MaxPageLimit THEN "entering" ELSE s.at)
        /\ search' = [s EXCEPT !.calls = s.calls + 1, !.query = query, !.limit = limit,
                               !.cursor = s.from, !.steady = steady, !.at = at]
  <2>1. PICK limit \in (IF search.calls = 0 THEN Limits ELSE {search.limit}) :
          \E query \in (IF search.calls = 0 THEN Queries ELSE {search.query}) :
            search' = [search EXCEPT
              !.calls = @ + 1, !.query = query, !.limit = limit, !.cursor = search.from,
              !.steady = IF search.at = "idle"
                         THEN {c \in Captures : MatchesIn(query, c, store[c])} ELSE @,
              !.at = IF limit \in 1..MaxPageLimit THEN "entering" ELSE search.at]
    BY ZenonT(30) DEF AskPage, SearchBecomes, At
  <2>2. PICK query \in (IF search.calls = 0 THEN Queries ELSE {search.query}) :
          search' = [search EXCEPT
              !.calls = @ + 1, !.query = query, !.limit = limit, !.cursor = search.from,
              !.steady = IF search.at = "idle"
                         THEN {c \in Captures : MatchesIn(query, c, store[c])} ELSE @,
              !.at = IF limit \in 1..MaxPageLimit THEN "entering" ELSE search.at]
    BY <2>1
  <2>3. PICK steady, at :
          /\ steady = (IF s.at = "idle" THEN {c \in Captures : MatchesIn(query, c, store[c])} ELSE s.steady)
          /\ at = (IF limit \in 1..MaxPageLimit THEN "entering" ELSE s.at)
    OBVIOUS
  <2>4. search' = [s EXCEPT !.calls = s.calls + 1, !.query = query, !.limit = limit,
                            !.cursor = s.from, !.steady = steady, !.at = at]
    BY <1>1, <1>2, <2>2, <2>3 DEF SearchT
  <2>5. /\ limit \in (IF s.calls = 0 THEN Limits ELSE {s.limit})
        /\ query \in (IF s.calls = 0 THEN Queries ELSE {s.query})
    BY <1>1
  <2> QED BY <2>3, <2>4, <2>5, Zenon
<1>4. PICK t : t = search'
  OBVIOUS
<1>5. /\ t.calls = s.calls + 1 /\ t.query = query /\ t.limit = limit /\ t.cursor = s.from
      /\ t.steady = steady /\ t.at = at /\ t.from = s.from /\ t.rows = s.rows
      /\ t.bytes = s.bytes /\ t.got = s.got /\ t.pages = s.pages
  BY <1>2, <1>3, <1>4 DEF SearchT
<1>6. /\ steady \subseteq Captures /\ s.calls + 1 \in Nat /\ s.calls + 1 # 0
      /\ at \in {"entering", "idle", "paused"} /\ s.from \in Nat
  BY <1>2, <1>3 DEF SearchT
<1>7. t \in SearchT
  <2>1. /\ limit \in {0} \union Limits /\ query \in {<< >>} \union Queries
        /\ at \in Resting \union {"entering", "compiling", "describing"} \union Counting
    BY <1>2, <1>3, <1>6 DEF SearchT, Resting
  <2> HIDE DEF Resting, Counting, Below
  <2>2. PICK u : u = [s EXCEPT !.calls = s.calls + 1, !.query = query, !.limit = limit]
    OBVIOUS
  <2>3. u \in SearchT
    BY <1>2, <1>6, <2>1, <2>2 DEF SearchT
  <2>4. t = [u EXCEPT !.cursor = s.from, !.steady = steady, !.at = at]
    BY <1>2, <1>3, <1>4, <2>2 DEF SearchT
  <2> QED BY <1>6, <2>1, <2>3, <2>4 DEF SearchT
<1>8. GotDescends(t)
  <2>1. at = "idle" => s.at = "idle"
    BY <1>3
  <2> QED BY <1>2, <1>5, <2>1 DEF PageInv, GotDescends
<1>9. s.rows = << >> /\ s.bytes = 0
  BY <1>2 DEF PageInv, RowsDescend, Counting
<1>10. RowsDescend(t) /\ BatchIsBetween(t)
  <2>1. at \notin Resting => limit \in 1..MaxPageLimit
    BY <1>2, <1>3 DEF Resting
  <2>2. s.from <= s.from
    BY <1>6
  <2>3. at \notin Counting
    BY <1>6 DEF Counting
  <2> QED BY <1>5, <1>9, <2>1, <2>2, <2>3, NothingYet DEF RowsDescend, BatchIsBetween, Counting
<1>11. SteadyRead(t)
  <2>1. \A c \in steady : s.from < c => c \in Range(s.got)
    <3>1. CASE s.at = "idle"
      <4>1. ASSUME NEW c \in steady PROVE ~(s.from < c)
        <5>1. c \in Captures /\ s.from = Top
          BY <1>2, <1>6, <3>1 DEF PageInv, GotDescends
        <5>2. c \in Nat /\ c <= s.from
          BY <5>1, TopIs, WorldAssumption
        <5> QED BY <1>6, <5>2
      <4> QED BY <4>1
    <3>2. CASE s.at # "idle"
      BY <1>2, <1>3, <3>2 DEF PageInv, SteadyRead
    <3> QED BY <3>1, <3>2
  <2> QED BY <1>5, <1>6, <2>1 DEF SteadyRead, Counting
<1>12. PageInv(t)
  BY <1>5, <1>6, <1>7, <1>8, <1>10, <1>11 DEF PageInv
<1>13. CASE s.at = "idle"
  <2>1. WorldInv' /\ store' = store
    BY <1>2, WorldStutters DEF SearchInv, worldVars
  <2>2. \A c \in t.steady : MatchesIn(t.query, c, store[c])
    BY <1>3, <1>5, <1>13
  <2>3. SteadyMatch'
    BY <1>4, <2>1, <2>2 DEF SteadyMatch, MatchesIn
  <2>4. PageInv(search)'
    BY <1>4, <1>12, PageNext
  <2> QED BY <2>1, <2>3, <2>4 DEF SearchInv
<1>14. CASE s.at # "idle"
  <2>1. s.calls # 0
    BY <1>2, <1>14 DEF PageInv
  <2>2. t.query = search.query /\ t.steady \subseteq search.steady
    BY <1>1, <1>3, <1>5, <1>14, <2>1
  <2> QED BY <1>2, <1>4, <1>12, <2>2, SearchMoves
<1> QED BY <1>13, <1>14

LEMMA AcquireSearchSearches ==
  ASSUME SearchInv, AcquireSearch PROVE SearchInv'
<1>1. PICK s, t : s = search /\ t = search'
  OBVIOUS
<1>2. /\ PageInv(s) /\ UNCHANGED worldVars /\ s.at = "entering"
      /\ t = [s EXCEPT !.at = "compiling"]
  BY <1>1 DEF SearchInv, AcquireSearch, SearchBecomes, At
<1>3. PageInv(t) /\ t.query = s.query /\ t.steady = s.steady
  BY <1>2, StepForward DEF Resting, Counting
<1> QED BY <1>1, <1>2, <1>3, SearchMoves

LEMMA CompileSearchSearches ==
  ASSUME SearchInv, CompileSearch PROVE SearchInv'
<1>1. PICK s, t : s = search /\ t = search'
  OBVIOUS
<1>2. /\ PageInv(s) /\ UNCHANGED worldVars /\ s.at = "compiling"
      /\ t = Over(s, "failed") \/ t = [s EXCEPT !.at = "describing"]
  BY <1>1 DEF SearchInv, CompileSearch, SearchBecomes, At
<1>3. CASE t = Over(s, "failed")
  <2>1. s.at \notin Resting /\ "failed" \in Resting /\ s \in SearchT
    BY <1>2 DEF Resting, PageInv
  <2>2. PageInv(t)
    BY <1>2, <1>3, <2>1, OverKeeps
  <2>3. t.query = s.query /\ t.steady = s.steady
    BY <1>3, <2>1, OverIs
  <2> QED BY <1>1, <1>2, <2>2, <2>3, SearchMoves
<1>4. CASE t = [s EXCEPT !.at = "describing"]
  <2>1. PageInv(t) /\ t.query = s.query /\ t.steady = s.steady
    BY <1>2, <1>4, StepForward DEF Resting, Counting
  <2> QED BY <1>1, <1>2, <2>1, SearchMoves
<1> QED BY <1>2, <1>3, <1>4

LEMMA DescribeSearchSearches ==
  ASSUME SearchInv, DescribeSearch PROVE SearchInv'
<1>1. PICK s, t : s = search /\ t = search'
  OBVIOUS
<1>2. /\ PageInv(s) /\ UNCHANGED worldVars /\ s.at = "describing"
      /\ t = [s EXCEPT !.at = "asking"]
  BY <1>1 DEF SearchInv, DescribeSearch, SearchBecomes, At
<1>3. PageInv(t) /\ t.query = s.query /\ t.steady = s.steady
  BY <1>2, StepForward DEF Resting, Counting
<1> QED BY <1>1, <1>2, <1>3, SearchMoves

\* A batch is the newest of what the call has not reached.
LEMMA BatchIs ==
  ASSUME NEW S \in SUBSET Captures, S # {}, NEW batch, batch = Newest(S)
  PROVE  /\ batch \subseteq S /\ batch # {}
         /\ \A b \in batch, c \in S : c >= b => c \in batch
<1>1. S \subseteq Nat /\ IsFiniteSet(S) /\ batch \subseteq S
  BY WorldAssumption, FS_Subset DEF Newest
<1>2. PICK y \in S : \A z \in S : z <= y
  BY ExtremesAre
<1>3. {d \in S : d > y} = {}
  <2>1. ASSUME NEW d \in S, d > y PROVE FALSE
    <3>1. d \in Nat /\ y \in Nat /\ d <= y
      BY <1>1, <1>2
    <3> QED BY <2>1, <3>1
  <2> QED BY <2>1
<1>4. y \in batch
  BY <1>3, FS_EmptySet, WaitAssumption DEF Newest
<1>5. ASSUME NEW b \in batch, NEW c \in S, c >= b PROVE c \in batch
  <2>1. SUFFICES ASSUME c \notin batch PROVE FALSE
    OBVIOUS
  <2>2. c < b
    BY <1>1, <2>1, NewestIsAbove
  <2> QED BY <1>1, <1>5, <2>2
<1> QED BY <1>1, <1>4, <1>5

LEMMA TakeSearchBatchSearches ==
  ASSUME SearchInv, TakeSearchBatch PROVE SearchInv'
<1>1. PICK s, t, S, batch, older, seen :
        /\ s = search /\ t = search' /\ S = Scannable /\ batch = Newest(S)
        /\ older = BelowBatch(batch) /\ seen = {[capture |-> c, shown |-> Shown(c)] : c \in batch}
  OBVIOUS
<1>2. /\ PageInv(s) /\ s \in SearchT /\ UNCHANGED worldVars /\ s.at = "asking" /\ S # {}
      /\ t = [s EXCEPT !.at = "matching", !.older = older, !.batch = seen]
  BY <1>1 DEF SearchInv, PageInv, TakeSearchBatch, SearchBecomes, At
<1>3. S \in SUBSET Captures /\ \A c \in S : c <= s.cursor
  BY <1>1 DEF Scannable, Held
<1>4. /\ batch \subseteq S /\ batch # {} /\ \A b \in batch, c \in S : c >= b => c \in batch
  BY <1>1, <1>2, <1>3, BatchIs
<1>5. PICK x \in batch : x = Min(batch) /\ \A c \in batch : x <= c
  <2>1. batch \in SUBSET Captures
    BY <1>3, <1>4
  <2> QED BY <1>4, <2>1, ExtremesAre
<1>6. /\ batch \subseteq Nat \ {0} /\ x \in Nat \ {0} /\ x - 1 \in Nat /\ s.cursor \in Nat
  BY <1>2, <1>3, <1>4, WorldAssumption DEF SearchT
<1>7. (older = << >> /\ batch = S) \/ older = <<x - 1>>
  BY <1>1, <1>5 DEF BelowBatch
<1>8. older \in Below
  BY <1>6, <1>7 DEF Below
<1>9. seen \subseteq [capture : Captures, shown : Snapshot] /\ \A e \in seen : e.capture \in batch
  <2>1. \A c \in Captures : Shown(c) \in Snapshot
    BY DEF SearchInv, WorldInv, WorldTypeOK, Shown
  <2> QED BY <1>1, <1>3, <1>4, <2>1
<1>10. /\ t.at = "matching" /\ t.older = older /\ t.batch = seen /\ t.query = s.query
       /\ t.limit = s.limit /\ t.from = s.from /\ t.cursor = s.cursor /\ t.rows = s.rows
       /\ t.bytes = s.bytes /\ t.got = s.got /\ t.pages = s.pages /\ t.steady = s.steady
       /\ t.calls = s.calls
  BY <1>2 DEF SearchT
<1>11. t \in SearchT
  <2>1. "matching" \in Resting \union {"entering", "compiling", "describing"} \union Counting
    BY DEF Counting
  <2> HIDE DEF Resting, Counting, Below
  <2> QED BY <1>2, <1>8, <1>9, <2>1 DEF SearchT
<1>12. GotDescends(t) /\ RowsDescend(t) /\ (t.calls = 0 => t.at = "idle")
  BY <1>2, <1>10 DEF PageInv, GotDescends, RowsDescend, Resting, Counting
<1>13. BatchIsBetween(t)
  <2>1. \A e \in seen : e.capture <= s.cursor
    BY <1>3, <1>4, <1>9
  <2>2. ASSUME older # << >> PROVE older[1] <= s.cursor /\ \A e \in seen : older[1] < e.capture
    <3>1. older[1] = x - 1 /\ x <= s.cursor
      BY <1>3, <1>4, <1>7, <2>2
    <3>2. ASSUME NEW e \in seen PROVE older[1] < e.capture
      <4>1. e.capture \in Nat /\ x <= e.capture
        BY <1>5, <1>6, <1>9
      <4> QED BY <1>6, <3>1, <4>1
    <3> QED BY <1>6, <3>1, <3>2
  <2> QED BY <1>10, <2>1, <2>2 DEF BatchIsBetween
<1>14. SteadyRead(t)
  <2>1. ASSUME NEW c \in s.steady, c <= s.cursor, older = << >> \/ older[1] < c
        PROVE  c \in Matching(t)
    <3>1. c \in Captures /\ c \in Nat /\ MatchesIn(s.query, c, store[c])
      BY <1>1, <1>2, WorldAssumption DEF SearchInv, SteadyMatch, SearchT
    <3>2. c \in S
      BY <1>1, <2>1, <3>1 DEF Scannable, Held, Stored, MatchesIn
    <3>3. c \in batch
      <4>1. CASE older = << >>
        BY <1>7, <3>2, <4>1
      <4>2. CASE older # << >>
        <5>1. x - 1 < c
          BY <1>7, <2>1, <4>2
        <5>2. c >= x
          BY <1>6, <3>1, <5>1
        <5> QED BY <1>4, <3>2, <5>2
      <4> QED BY <4>1, <4>2
    <3>4. PICK e : e = [capture |-> c, shown |-> Shown(c)]
      OBVIOUS
    <3>5. e \in t.batch /\ e.capture = c /\ QueryMatches(t.query, e.capture, e.shown)
      BY <1>1, <1>10, <3>1, <3>3, <3>4 DEF MatchesIn, Shown
    <3> QED BY <3>5 DEF Matching
  <2>2. /\ \A c \in s.steady : s.from < c => c \in Range(s.got)
        /\ \A c \in s.steady : s.cursor < c /\ c <= s.from => c \in Range(s.rows)
    BY <1>2 DEF PageInv, SteadyRead, Counting
  <2> QED BY <1>10, <2>1, <2>2 DEF SteadyRead
<1>15. PageInv(t)
  BY <1>11, <1>12, <1>13, <1>14 DEF PageInv
<1> QED BY <1>1, <1>2, <1>10, <1>15, SearchMoves

LEMMA StopAskingSearches ==
  ASSUME SearchInv, StopAsking PROVE SearchInv'
<1>1. PICK s, t : s = search /\ t = search'
  OBVIOUS
<1>2. PageInv(s) /\ s \in SearchT /\ UNCHANGED worldVars /\ s.at = "asking"
  BY <1>1 DEF SearchInv, PageInv, StopAsking, SearchBecomes, At
<1>3. PICK next \in Below :
        /\ t = Delivered(s, next) /\ Floor(next) <= s.cursor
        /\ next # << >> => s.rows # << >>
        /\ \A c \in s.steady : Floor(next) < c => s.cursor < c
  <2>0. s.cursor \in Nat /\ s.steady \subseteq Captures
    BY <1>2 DEF SearchT
  <2>1. CASE s.bytes = PageBudget /\ t = Delivered(s, <<s.cursor>>)
    <3>1. PICK next \in Below : next = <<s.cursor>>
      BY <2>0 DEF Below
    <3>2. Floor(next) = s.cursor
      BY <3>1 DEF Floor
    <3>3. s.rows # << >>
      BY <1>2, <2>1, SearchAssumption DEF PageInv, RowsDescend
    <3> QED BY <2>0, <2>1, <3>1, <3>2, <3>3
  <2>2. CASE Scannable = {} /\ t = Delivered(s, << >>)
    <3>1. PICK next \in Below : next = << >>
      BY DEF Below
    <3>2. Floor(next) = 0
      BY <3>1 DEF Floor
    <3>3. ASSUME NEW c \in s.steady PROVE s.cursor < c
      <4>1. MatchesIn(s.query, c, store[c]) /\ c \in Captures
        BY <1>1, <2>0 DEF SearchInv, SteadyMatch
      <4>2. ~(c <= s.cursor)
        BY <1>1, <2>2, <4>1 DEF Scannable, Held, Stored, MatchesIn
      <4>3. c \in Nat
        BY <4>1, WorldAssumption
      <4> QED BY <2>0, <4>2, <4>3
    <3> QED BY <2>0, <2>2, <3>1, <3>2, <3>3
  <2> QED BY <1>1, <2>1, <2>2 DEF StopAsking, SearchBecomes
<1>4. PICK floor \in Nat : floor = Floor(next)
  BY DEF Floor, Below
<1>5. /\ GotDescends(s) /\ s.calls # 0 /\ Descends(s.rows) /\ s.cursor <= s.from
      /\ \A c \in Range(s.rows) : s.cursor < c /\ c <= s.from
      /\ \A c \in s.steady : s.from < c => c \in Range(s.got)
      /\ \A c \in s.steady : s.cursor < c /\ c <= s.from => c \in Range(s.rows)
  BY <1>2 DEF PageInv, RowsDescend, SteadyRead, Resting, Counting
<1>6. s.cursor \in Nat /\ s.from \in Nat /\ floor <= s.cursor
  BY <1>2, <1>3, <1>4 DEF SearchT
<1>7. \A c \in Range(s.rows) : floor < c /\ c <= s.from
  <2>1. ASSUME NEW c \in Range(s.rows) PROVE floor < c
    <3>1. c \in Captures
      BY <1>2 DEF SearchT, Range
    <3>2. c \in Nat /\ s.cursor < c
      BY <1>5, <3>1, WorldAssumption
    <3> QED BY <1>6, <3>2
  <2> QED BY <1>5, <2>1
<1>8. floor <= s.from
  BY <1>5, <1>6
<1>9. \A c \in s.steady : floor < c /\ c <= s.from => c \in Range(s.rows)
  BY <1>3, <1>4, <1>5
<1>10. PageInv(t)
  BY <1>2, <1>3, <1>4, <1>5, <1>7, <1>8, <1>9, DeliveredKeeps
<1>11. t.query = s.query /\ t.steady = s.steady
  <2>1. Delivers(t, s, next)
    BY <1>2, <1>3, DeliveredIs
  <2> QED BY <2>1 DEF Delivers
<1> QED BY <1>1, <1>2, <1>10, <1>11, SearchMoves

LEMMA MatchPageSearches ==
  ASSUME SearchInv, MatchPage PROVE SearchInv'
<1>1. PICK s, t, matching, fitting :
        s = search /\ t = search' /\ matching = Matching(s) /\ fitting = Fitting(s, matching)
  OBVIOUS
<1>2. /\ PageInv(s) /\ s \in SearchT /\ UNCHANGED worldVars /\ s.at = "matching"
      /\ t = IF Unsendable(s, matching, fitting) THEN Over(s, "failed")
             ELSE Continued(s, Extended(s, fitting), PageCursor(s, matching, fitting))
  BY <1>1 DEF SearchInv, PageInv, MatchPage, SearchBecomes, At
<1>3. CASE Unsendable(s, matching, fitting)
  <2>1. s.at \notin Resting /\ "failed" \in Resting /\ t = Over(s, "failed")
    BY <1>2, <1>3 DEF Resting
  <2>2. PageInv(t)
    BY <1>2, <2>1, OverKeeps
  <2>3. t.query = s.query /\ t.steady = s.steady
    BY <1>2, <2>1, OverIs
  <2> QED BY <1>1, <1>2, <2>2, <2>3, SearchMoves
<1>4. CASE ~Unsendable(s, matching, fitting)
  <2>1. PageInv(t) /\ t.steady = s.steady /\ t.query = s.query
    BY <1>1, <1>2, <1>4, MatchedKeeps
  <2> QED BY <1>1, <1>2, <2>1, SearchMoves
<1> QED BY <1>3, <1>4

\* Only the count of workers that run on.
LEMMA OrphansAside ==
  ASSUME NEW s, PageInv(s), NEW orphans \in Nat, NEW t, t = [s EXCEPT !.orphans = orphans]
  PROVE  PageInv(t) /\ t.query = s.query /\ t.steady = s.steady
<1>1. s \in SearchT
  BY DEF PageInv
<1>2. /\ t.at = s.at /\ t.query = s.query /\ t.limit = s.limit /\ t.from = s.from
      /\ t.cursor = s.cursor /\ t.rows = s.rows /\ t.bytes = s.bytes
      /\ t.batch = s.batch /\ t.older = s.older
      /\ t.got = s.got /\ t.pages = s.pages /\ t.steady = s.steady /\ t.calls = s.calls
  BY <1>1 DEF SearchT
<1>3. t \in SearchT
  <2> HIDE DEF Resting, Counting, Below
  <2> QED BY <1>1 DEF SearchT
<1>4. GotDescends(t) /\ RowsDescend(t) /\ BatchIsBetween(t) /\ (t.calls = 0 => t.at = "idle")
  BY <1>2 DEF PageInv, GotDescends, RowsDescend, BatchIsBetween
<1>5. SteadyRead(t)
  <2>1. Matching(t) = Matching(s)
    BY <1>2 DEF Matching
  <2> QED BY <1>2, <2>1 DEF PageInv, SteadyRead
<1> QED BY <1>2, <1>3, <1>4, <1>5 DEF PageInv

LEMMA CancelSearchSearches ==
  ASSUME SearchInv, CancelSearch PROVE SearchInv'
<1>1. PICK s, t : s = search /\ t = search'
  OBVIOUS
<1>2. PICK at, orphans :
        /\ at = (IF s.got = << >> /\ s.from = Top THEN "idle" ELSE "paused")
        /\ orphans = (IF s.at \in {"compiling", "matching"} THEN s.orphans + 1 ELSE s.orphans)
  OBVIOUS
<1>3. PageInv(s) /\ s \in SearchT /\ UNCHANGED worldVars /\ s.at \notin Resting
  BY <1>1 DEF SearchInv, PageInv, CancelSearch, SearchBecomes
<1>4. at \in Resting /\ (at = "idle" => s.got = << >> /\ s.from = Top) /\ orphans \in Nat
  BY <1>2, <1>3 DEF Resting, SearchT
<1>5. PICK u : u = Over(s, at)
  OBVIOUS
<1>6. PageInv(u) /\ u \in SearchT /\ u.query = s.query /\ u.steady = s.steady /\ u.orphans = s.orphans
  BY <1>3, <1>4, <1>5, OverKeeps, OverIs
<1>7. t = [u EXCEPT !.orphans = orphans]
  BY <1>1, <1>2, <1>5, <1>6 DEF CancelSearch, SearchBecomes, SearchT
<1>8. PageInv(t) /\ t.query = u.query /\ t.steady = u.steady
  BY <1>4, <1>6, <1>7, OrphansAside
<1> QED BY <1>1, <1>3, <1>6, <1>8, SearchMoves

LEMMA OrphanEndsSearches ==
  ASSUME SearchInv, OrphanEnds PROVE SearchInv'
<1>1. PICK s, t : s = search /\ t = search'
  OBVIOUS
<1>2. /\ PageInv(s) /\ s.orphans \in Nat /\ UNCHANGED worldVars /\ s.orphans > 0
      /\ t = [s EXCEPT !.orphans = s.orphans - 1]
  BY <1>1 DEF SearchInv, PageInv, OrphanEnds, SearchBecomes, SearchT
<1>3. s.orphans - 1 \in Nat
  BY <1>2
<1>4. PageInv(t) /\ t.query = s.query /\ t.steady = s.steady
  BY <1>2, <1>3, OrphansAside
<1> QED BY <1>1, <1>2, <1>4, SearchMoves

\* The world moves: a capture stays steady while it is stored and matches.
LEMMA WorldMovesSearches ==
  ASSUME SearchInv, WorldMoves PROVE SearchInv'
<1>1. PICK s, t, steady :
        s = search /\ t = search' /\ steady = {c \in s.steady : MatchesIn(s.query, c, store'[c])}
  OBVIOUS
<1>2. PageInv(s) /\ s \in SearchT /\ t = [s EXCEPT !.steady = steady] /\ steady \subseteq s.steady
  BY <1>1 DEF SearchInv, PageInv, WorldMoves, SearchT
<1>3. WorldInv'
  BY WorldAdvances DEF SearchInv, WorldMoves, Advance
<1>4. /\ t.at = s.at /\ t.query = s.query /\ t.limit = s.limit /\ t.from = s.from
      /\ t.cursor = s.cursor /\ t.rows = s.rows /\ t.bytes = s.bytes
      /\ t.batch = s.batch /\ t.older = s.older
      /\ t.got = s.got /\ t.pages = s.pages /\ t.steady = steady /\ t.calls = s.calls
  BY <1>2 DEF SearchT
<1>5. t \in SearchT
  <2>1. steady \in SUBSET Captures
    BY <1>2 DEF SearchT
  <2> HIDE DEF Resting, Counting, Below
  <2> QED BY <1>2, <2>1 DEF SearchT
<1>6. GotDescends(t) /\ RowsDescend(t) /\ BatchIsBetween(t) /\ (t.calls = 0 => t.at = "idle")
  BY <1>2, <1>4 DEF PageInv, GotDescends, RowsDescend, BatchIsBetween
<1>7. SteadyRead(t)
  <2>1. Matching(t) = Matching(s)
    BY <1>4 DEF Matching
  <2> QED BY <1>2, <1>4, <2>1 DEF PageInv, SteadyRead
<1>8. PageInv(t)
  BY <1>4, <1>5, <1>6, <1>7, <1>2 DEF PageInv
<1>9. PageInv(search)'
  BY <1>1, <1>8, PageNext
<1>10. SteadyMatch'
  <2>1. \A c \in t.steady : MatchesIn(t.query, c, store'[c])
    BY <1>1, <1>4
  <2> QED BY <1>1, <2>1 DEF SteadyMatch, MatchesIn
<1> QED BY <1>3, <1>9, <1>10 DEF SearchInv

LEMMA WaitsLeaveTheWorld ==
  ASSUME NEW w, Steps(w) PROVE UNCHANGED worldVars
<1>1. CASE Subscribe(w) \/ EnterCompile(w) \/ Compile(w) \/ Describe(w) \/ AdmitScan(w)
  BY <1>1 DEF Subscribe, EnterCompile, Compile, Describe, AdmitScan, Acquire, Return
<1>2. CASE TakeBatch(w) \/ NothingToScan(w) \/ Inspect(w) \/ MissChanges(w) \/ ReadRemoval(w)
  BY <1>2 DEF TakeBatch, NothingToScan, Inspect, MissChanges, ReadRemoval, Return
<1>3. CASE ReadKnown(w) \/ ReadUpdate(w) \/ Materialize(w) \/ AdmitInspect(w)
  BY <1>3 DEF ReadKnown, ReadUpdate, Materialize, AdmitInspect, Acquire
<1>4. CASE TimeOut(w) \/ Cancel(w) \/ WorkerEnds(w)
  BY <1>4 DEF TimeOut, Cancel, WorkerEnds, Drop, Return
<1> QED BY <1>1, <1>2, <1>3, <1>4 DEF Steps

LEMMA SearchStays ==
  ASSUME SearchInv, UNCHANGED <<worldVars, search>> PROVE SearchInv'
<1>1. PICK s : s = search /\ s = search' /\ PageInv(s)
  BY DEF SearchInv
<1> QED BY <1>1, SearchMoves

LEMMA SearchStep == SearchInv /\ [SearchNext]_searchVars => SearchInv'
<1> SUFFICES ASSUME SearchInv, [SearchNext]_searchVars PROVE SearchInv'
  OBVIOUS
<1>1. CASE WorldMoves
  BY <1>1, WorldMovesSearches
<1>2. CASE Waiting
  <2>1. UNCHANGED <<worldVars, search>>
    BY <1>2, WaitsLeaveTheWorld DEF Waiting
  <2> QED BY <2>1, SearchStays
<1>3. CASE SearchSteps
  BY <1>3, AskPageSearches, AcquireSearchSearches, CompileSearchSearches,
     DescribeSearchSearches, TakeSearchBatchSearches, StopAskingSearches,
     MatchPageSearches, CancelSearchSearches, OrphanEndsSearches
     DEF SearchSteps, SearchProgress
<1>4. CASE UNCHANGED searchVars
  <2>1. UNCHANGED <<worldVars, search>>
    BY <1>4 DEF searchVars, vars
  <2> QED BY <2>1, SearchStays
<1> QED BY <1>1, <1>2, <1>3, <1>4 DEF SearchNext

\* In every state the rows delivered, the page so far and the batch lie one
\* below the other, and a capture that has matched since the first call is in
\* one of them or below them all.
THEOREM SearchInvariant == SearchSpec => []SearchInv
  BY SearchStarts, SearchStep, PTL DEF SearchSpec

\* A client that follows the cursors of search_captures reads no capture twice
\* and misses none that has matched all along, whatever comes, changes or goes
\* between two batches of a call or between two calls, whatever the limits of
\* a page and however often a call is cancelled and asked again; and a page
\* with a cursor has a row.
THEOREM PagesAreComplete == SearchSpec => []PagesMissNothing
<1>1. SearchInv => PagesMissNothing
  <2>1. SUFFICES ASSUME SearchInv PROVE PagesMissNothing
    OBVIOUS
  <2>2. GotDescends(search) /\ SteadyRead(search)
    BY <2>1 DEF SearchInv, PageInv
  <2> QED BY <2>2 DEF PagesMissNothing, GotDescends, SteadyRead, At
<1> QED BY <1>1, SearchInvariant, PTL
=============================================================================
