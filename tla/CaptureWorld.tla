---------------------------- MODULE CaptureWorld ----------------------------
(***************************************************************************)
(* The captures as the control service meets them: the store of the        *)
(* runtime, and the change feed that announces what happens to it.  A      *)
(* record changes and is announced under one lock (capture/model.rs), so   *)
(* that is one step here; the event loop answers a command only between    *)
(* two of its handlers.  CaptureLifecycle is the detailed model of the     *)
(* records and ChangeFeed that of the feed; this module keeps what they    *)
(* promise (RecordView, ChangeLog) and what a query can see.               *)
(***************************************************************************)
EXTENDS Integers, Sequences, FiniteSets

CONSTANTS
  Captures,     \* CaptureSequence: newer records have larger ones
  Removals,     \* the CaptureChangeKinds that may end a record
  Retained,     \* RETAINED_CHANGES
  MaxRevision,  \* bound: mutations of a record
  MaxLog        \* bound: changes announced

ASSUME WorldAssumption ==
  /\ Captures \subseteq Nat \ {0} /\ IsFiniteSet(Captures)    \* u64
  /\ Removals \subseteq {"RetentionEviction", "ExplicitDelete", "Clear"}
  /\ Retained \in Nat \ {0}
  /\ MaxRevision \in Nat /\ MaxLog \in Nat

VARIABLES
  store,     \* the records: before the store, in it, and after it
  removing,  \* what the running handler of the event loop has yet to remove
  log        \* every change announced, by epoch

worldVars == <<store, removing, log>>

Sides == {"request", "response"}

\* What a snapshot of a record shows: its revision, whether its response has
\* started, the body streams that have ended, and whether one of them failed
\* or was cancelled.
Snapshot == [revision: 0..MaxRevision, started: BOOLEAN, ended: SUBSET Sides,
             broken: BOOLEAN]

Fresh == [revision |-> 0, started |-> FALSE, ended |-> {}, broken |-> FALSE]

Places == {"new", "stored", "gone"}

Change == [capture: Captures, revision: 0..MaxRevision,
           kind: {"Admitted", "RecordUpdated"} \union Removals]

WorldTypeOK ==
  /\ store \in [Captures -> [place: Places, shown: Snapshot]]
  /\ removing \subseteq [capture: Captures, kind: Removals]
  /\ log \in Seq(Change)

WorldInit ==
  /\ store = [c \in Captures |-> [place |-> "new", shown |-> Fresh]]
  /\ removing = {}
  /\ log = <<>>

Stored(c) == store[c].place = "stored"
Shown(c) == store[c].shown
Held == {c \in Captures : Stored(c)}

\* The event loop takes a command, a record or a key only between handlers.
Idle == removing = {}

\* The bound on the log, with a place for each removal still to be announced.
Room(n) == Len(log) + Cardinality(removing) + n <= MaxLog

Publish(c, revision, kind) ==
  log' = Append(log, [capture |-> c, revision |-> revision, kind |-> kind])

(***************************************************************************)
(* The pumps: set_response_at, append_body and finish_body_at.  A record   *)
(* that is not in the store changes without being announced.               *)
(***************************************************************************)
Responds(shown) ==
  IF shown.started \/ "response" \in shown.ended
    THEN {} ELSE {[shown EXCEPT !.started = TRUE]}

Grows(shown) ==
  IF "request" \notin shown.ended \/ (shown.started /\ "response" \notin shown.ended)
    THEN {shown} ELSE {}

\* A response that never started can only fail or be cancelled.
Ends(shown) ==
  {end \in [revision: {shown.revision}, started: {shown.started},
            ended: {shown.ended \union {side} : side \in Sides \ shown.ended},
            broken: {shown.broken, TRUE}] :
     "response" \in end.ended \ shown.ended /\ ~shown.started => end.broken}

Mutations(shown) == Responds(shown) \union Grows(shown) \union Ends(shown)

NextRevisionSame(revision) == revision

NextRevision(revision) == revision + 1

Mutate(c) ==
  LET revision == NextRevision(Shown(c).revision) IN
  /\ store[c].place # "gone"
  /\ Shown(c).revision < MaxRevision /\ Room(1)
  /\ \E shown \in Mutations(Shown(c)) :
       store' = [store EXCEPT ![c].shown = [shown EXCEPT !.revision = revision]]
  /\ IF Stored(c) THEN Publish(c, revision, "RecordUpdated")
                  ELSE UNCHANGED log
  /\ UNCHANGED removing

(***************************************************************************)
(* The event loop: a record is inserted, and with it the oldest records    *)
(* may be evicted; the user deletes some records or clears them all.  The  *)
(* records of one handler are removed one by one, oldest first, while the  *)
(* pumps run.                                                              *)
(***************************************************************************)
Oldest(S) == {T \in SUBSET S : \A c \in T, d \in S \ T : c < d}

Admit(c) ==
  /\ Idle /\ store[c].place = "new"
  /\ store' = [store EXCEPT ![c].place = "stored"]
  /\ Publish(c, Shown(c).revision, "Admitted")
  /\ \E T \in Oldest(Held \union {c}) :
       /\ T # {} => "RetentionEviction" \in Removals
       /\ Room(1 + Cardinality(T))
       /\ removing' = {[capture |-> d, kind |-> "RetentionEviction"] : d \in T}

\* Eviction after memory pressure, deletion of a selection, or clear.
Discard(kind) ==
  /\ Idle /\ kind \in Removals
  /\ \E T \in CASE kind = "RetentionEviction" -> Oldest(Held) \ {{}}
               [] kind = "ExplicitDelete" -> (SUBSET Held) \ {{}}
               [] kind = "Clear" -> {Held} \ {{}} :
       /\ Room(Cardinality(T))
       /\ removing' = {[capture |-> c, kind |-> kind] : c \in T}
  /\ UNCHANGED <<store, log>>

RemoveNext ==
  \E r \in removing :
    /\ \A other \in removing : r.capture <= other.capture
    /\ store' = [store EXCEPT ![r.capture].place = "gone"]
    /\ Publish(r.capture, Shown(r.capture).revision, r.kind)
    /\ removing' = removing \ {r}

WorldNext ==
  \/ \E c \in Captures : Mutate(c) \/ Admit(c)
  \/ \E kind \in Removals : Discard(kind)
  \/ RemoveNext

(***************************************************************************)
(* A subscription of the feed, as ChangeLog promises it: next is the       *)
(* position of the reader in the log.                                      *)
(***************************************************************************)
NowInLog == Len(log) + 1
HasNext(next) == next <= Len(log)
Overrun(next) == next + Retained <= Len(log)

Unread(next, c) == \E i \in next..Len(log) : log[i].capture = c

\* The last change announced about each capture, as RecordView shows it.
ChangesOf(c) == {i \in 1..Len(log) : log[i].capture = c}

ViewOf(c) ==
  IF ChangesOf(c) = {} THEN [kind |-> "None", revision |-> 0]
  ELSE LET last == log[CHOOSE i \in ChangesOf(c) : \A j \in ChangesOf(c) : j <= i]
       IN  [kind |-> last.kind, revision |-> last.revision]

View == INSTANCE RecordView
          WITH Updates <- {"RecordUpdated"}, Removals <- Removals,
               view <- [c \in Captures |-> ViewOf(c)]
=============================================================================
