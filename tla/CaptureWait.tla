---------------------------- MODULE CaptureWait -----------------------------
(***************************************************************************)
(* wait_for_capture of src/runtime/control.rs: a client waits until some   *)
(* capture satisfies a query and has reached a milestone.  The control     *)
(* service subscribes to the change feed, scans the store from the newest  *)
(* record down in batches, and then follows the feed, asking the runtime   *)
(* only for the records that changed.  Queries are compiled and matched by *)
(* blocking workers under a few permits that searches share.  A timeout or *)
(* a cancellation may come at any await; a worker that was started then    *)
(* runs on with its permit.                                                *)
(***************************************************************************)
EXTENDS CaptureWorld

CONSTANTS
  Waits,      \* the calls
  Wanted,     \* the queries and milestones a call may have
  BatchSize,  \* CAPTURE_SEARCH_BATCH_SIZE
  Permits     \* the permits of CaptureSearchAdmission

ASSUME WaitAssumption ==
  /\ Wanted \subseteq [query: {"any", "status", "live"},
                       milestone: {"RequestSeen", "ResponseStarted",
                                   "ExchangeTerminal"}]
  /\ BatchSize \in Nat \ {0} /\ Permits \in Nat \ {0}

VARIABLES
  wait,  \* the calls: progress, subscription, cursor, memory, snapshots, answer
  free   \* the permits left in the semaphore

vars == <<worldVars, wait, free>>

\* Where a call is: idle; awaiting a permit to compile; compiling; asking for
\* the identity of the instance; awaiting a permit to scan; awaiting a batch;
\* scanning it; awaiting the feed; awaiting the snapshot of a record that
\* changed; awaiting a permit to inspect it; inspecting it; answered.
Progress == {"idle", "entering", "compiling", "describing", "admitting",
             "asking", "scanning", "following", "materializing", "readmitting",
             "inspecting", "answered"}

Answers == {"none", "matched", "unmatched", "lost", "gap", "refused",
            "cancelled"}

\* WaitSequenceState: what is remembered of a capture, revision -1 if nothing.
Remembered == [revision: -1..MaxRevision, pending: BOOLEAN]
Nothing == [revision |-> -1, pending |-> FALSE]

Call == [at: Progress, wants: Wanted, next: 0..(MaxLog + 1),
         below: SUBSET Captures, older: BOOLEAN,
         memory: [Captures -> Remembered],
         seen: SUBSET [capture: Captures, shown: Snapshot],
         running: BOOLEAN, answer: Answers]

TypeOK ==
  /\ WorldTypeOK
  /\ wait \in [Waits -> Call]
  /\ free \in 0..Permits

Init ==
  /\ WorldInit
  /\ wait \in [Waits -> {[at |-> "idle", wants |-> wants, next |-> 0,
                         below |-> {}, older |-> FALSE,
                         memory |-> [c \in Captures |-> Nothing],
                         seen |-> {}, running |-> FALSE, answer |-> "none"] :
                           wants \in Wanted}]
  /\ free = Permits

(***************************************************************************)
(* The query, the milestone and what inspect_wait_snapshot makes of them   *)
(***************************************************************************)
Matches(query, shown) ==
  \/ query = "any"
  \/ query = "status" /\ shown.started
  \/ query = "live" /\ ~shown.broken /\ shown.ended # Sides

Reached(milestone, shown) ==
  \/ milestone = "RequestSeen"
  \/ milestone = "ResponseStarted" /\ shown.started
  \/ milestone = "ExchangeTerminal" /\ shown.ended = Sides

Satisfies(wants, shown) ==
  Matches(wants.query, shown) /\ Reached(wants.milestone, shown)

Pending(wants, shown) ==
  /\ Matches(wants.query, shown)
  /\ ~Reached(wants.milestone, shown)
  /\ shown.ended # Sides

\* What the call remembers of the snapshots it inspected in vain.
Learned(call) ==
  [c \in Captures |->
     IF \E s \in call.seen : s.capture = c
       THEN LET s == CHOOSE s \in call.seen : s.capture = c
            IN [revision |-> s.shown.revision,
                pending |-> Pending(call.wants, s.shown)]
       ELSE call.memory[c]]

(***************************************************************************)
(* Steps                                                                   *)
(***************************************************************************)
\* Returning drops the subscription, the snapshots and the memory.
Answered(call, answer) ==
  [call EXCEPT !.at = "answered", !.answer = answer, !.next = 0, !.below = {},
               !.older = FALSE, !.seen = {},
               !.memory = [c \in Captures |-> Nothing]]

Becomes(w, call) == wait' = [wait EXCEPT ![w] = call]

Subscribe(w) ==
  /\ wait[w].at = "idle"
  /\ Becomes(w, [wait[w] EXCEPT !.at = "entering", !.next = NowInLog])
  /\ UNCHANGED <<worldVars, free>>

Acquire(w, from, call) ==
  /\ wait[w].at = from /\ free > 0
  /\ free' = free - 1
  /\ Becomes(w, call)
  /\ UNCHANGED worldVars

\* A worker that finishes while its call awaits it gives the permit back to
\* the call, which drops it at once.
Return(w, call) ==
  /\ free' = free + 1
  /\ Becomes(w, [call EXCEPT !.running = FALSE])
  /\ UNCHANGED worldVars

EnterCompile(w) ==
  Acquire(w, "entering", [wait[w] EXCEPT !.at = "compiling", !.running = TRUE])

Compile(w) ==
  /\ wait[w].at = "compiling"
  /\ \/ Return(w, [wait[w] EXCEPT !.at = "describing"])
     \/ Return(w, Answered(wait[w], "refused"))

Describe(w) ==
  /\ wait[w].at = "describing" /\ Idle
  /\ Becomes(w, [wait[w] EXCEPT !.at = "admitting"])
  /\ UNCHANGED <<worldVars, free>>

AdmitScan(w) ==
  Acquire(w, "admitting", [wait[w] EXCEPT !.at = "asking"])

\* GetCaptureSearchBatch: the newest records before those already scanned.
Unscanned(call) == {c \in Held : \A b \in call.below : c < b}
Newest(S) == {c \in S : Cardinality({d \in S : d > c}) < BatchSize}

TakeBatch(w) ==
  LET batch == Newest(Unscanned(wait[w])) IN
  /\ wait[w].at = "asking" /\ Idle /\ batch # {}
  /\ Becomes(w, [wait[w] EXCEPT
       !.at = "scanning", !.running = TRUE,
       !.seen = {[capture |-> c, shown |-> Shown(c)] : c \in batch},
       !.below = @ \union batch,
       !.older = batch # Unscanned(wait[w])])
  /\ UNCHANGED <<worldVars, free>>

NothingToScan(w) ==
  /\ wait[w].at = "asking" /\ Idle /\ Unscanned(wait[w]) = {}
  /\ Return(w, [wait[w] EXCEPT !.at = "following", !.below = {}])

InspectThenSubscribe(w) ==
  /\ wait[w].at \in {"scanning", "inspecting"}
  /\ Return(w,
       IF \E s \in wait[w].seen : Satisfies(wait[w].wants, s.shown)
         THEN Answered(wait[w], "matched")
       ELSE IF wait[w].older
         THEN [wait[w] EXCEPT !.at = "admitting", !.seen = {},
                              !.memory = Learned(wait[w]), !.older = FALSE]
         ELSE [wait[w] EXCEPT !.at = "following", !.seen = {},
                              !.memory = Learned(wait[w]), !.below = {},
                              !.next = NowInLog])

\* inspect_wait_batch, or inspect_wait_snapshot for one record.
Inspect(w) ==
  /\ wait[w].at \in {"scanning", "inspecting"}
  /\ Return(w,
       IF \E s \in wait[w].seen : Satisfies(wait[w].wants, s.shown)
         THEN Answered(wait[w], "matched")
       ELSE IF wait[w].older
         THEN [wait[w] EXCEPT !.at = "admitting", !.seen = {},
                              !.memory = Learned(wait[w]), !.older = FALSE]
         ELSE [wait[w] EXCEPT !.at = "following", !.seen = {},
                              !.memory = Learned(wait[w]), !.below = {}])

\* The change a call reads next, and what it makes of it.
Reading(w) == wait[w].at = "following" /\ HasNext(wait[w].next)
                /\ ~Overrun(wait[w].next)
NextChange(w) == log[wait[w].next]

MissChanges(w) ==
  /\ wait[w].at = "following" /\ Overrun(wait[w].next)
  /\ Becomes(w, Answered(wait[w], "gap"))
  /\ UNCHANGED <<worldVars, free>>

\* Removal of a capture that would still have matched ends the wait.
ReadRemoval(w) ==
  LET c == NextChange(w).capture IN
  /\ Reading(w) /\ NextChange(w).kind \in Removals
  /\ Becomes(w, IF wait[w].memory[c].pending
                  THEN Answered(wait[w], "lost")
                  ELSE [wait[w] EXCEPT !.next = @ + 1, !.memory[c] = Nothing])
  /\ UNCHANGED <<worldVars, free>>

Known(call, change) == change.revision <= call.memory[change.capture].revision

ReadKnown(w) ==
  /\ Reading(w) /\ NextChange(w).kind \notin Removals
  /\ Known(wait[w], NextChange(w))
  /\ Becomes(w, [wait[w] EXCEPT !.next = @ + 1])
  /\ UNCHANGED <<worldVars, free>>

ReadUpdate(w) ==
  /\ Reading(w) /\ NextChange(w).kind \notin Removals
  /\ ~Known(wait[w], NextChange(w))
  /\ Becomes(w, [wait[w] EXCEPT !.at = "materializing", !.next = @ + 1])
  /\ UNCHANGED <<worldVars, free>>

\* GetCapture: the record as it is by now, or an error when it is gone.
Materialize(w) ==
  LET c == log[wait[w].next - 1].capture IN
  /\ wait[w].at = "materializing" /\ Idle
  /\ Becomes(w, IF Stored(c)
       THEN [wait[w] EXCEPT !.at = "readmitting",
                            !.seen = {[capture |-> c, shown |-> Shown(c)]}]
       ELSE Answered(wait[w], "lost"))
  /\ UNCHANGED <<worldVars, free>>

AdmitInspect(w) ==
  Acquire(w, "readmitting",
          [wait[w] EXCEPT !.at = "inspecting", !.running = TRUE])

DropForgets(w, answer) ==
  /\ Becomes(w, Answered(wait[w], answer))
  /\ UNCHANGED <<worldVars, free>>

\* A call that is dropped while it holds its permit itself gives it back; a
\* worker keeps the permit it was given.
Drop(w, answer) ==
  /\ Becomes(w, Answered(wait[w], answer))
  /\ free' = IF wait[w].at = "asking" THEN free + 1 ELSE free
  /\ UNCHANGED worldVars

\* wait_step and the wait for a change give up at the deadline, which is set
\* once the instance is known.
TimeOut(w) ==
  /\ wait[w].at \notin {"idle", "entering", "compiling", "describing", "answered"}
  /\ Drop(w, "unmatched")

Cancel(w) ==
  /\ wait[w].at \notin {"idle", "answered"}
  /\ Drop(w, "cancelled")

WorkerEnds(w) ==
  /\ wait[w].at = "answered" /\ wait[w].running
  /\ Return(w, wait[w])

Steps(w) ==
  \/ Subscribe(w) \/ EnterCompile(w) \/ Compile(w) \/ Describe(w)
  \/ AdmitScan(w) \/ TakeBatch(w) \/ NothingToScan(w) \/ Inspect(w)
  \/ MissChanges(w) \/ ReadRemoval(w) \/ ReadKnown(w) \/ ReadUpdate(w)
  \/ Materialize(w) \/ AdmitInspect(w)
  \/ TimeOut(w) \/ Cancel(w) \/ WorkerEnds(w)

Next ==
  \/ WorldNext /\ UNCHANGED <<wait, free>>
  \/ \E w \in Waits : Steps(w)

Spec == Init /\ [][Next]_vars

(***************************************************************************)
(* Properties                                                              *)
(***************************************************************************)
\* A wait that follows the feed has already looked at every capture the store
\* holds, in the state it is in, or is about to read a change of it: a capture
\* that satisfies the wait is never overlooked, however the scan, the pumps
\* and the event loop interleave.
NoMissedMatch ==
  \A w \in Waits, c \in Captures :
    wait[w].at = "following" /\ Stored(c) /\ Satisfies(wait[w].wants, Shown(c))
      => Unread(wait[w].next, c)

\* The memory of a wait is enough to notice that its hope is gone: a capture
\* that may still satisfy it is remembered as pending, so that reading its
\* removal ends the wait, or has a change to read before its removal.
LossWouldBeNoticed ==
  \A w \in Waits, c \in Captures :
    wait[w].at = "following" /\ Stored(c) /\ Pending(wait[w].wants, Shown(c))
      => wait[w].memory[c].pending \/ Unread(wait[w].next, c)

\* Pending memory is bounded by what the store retains: a capture is forgotten
\* when its removal is read, and nothing is remembered of one removed before.
RememberedAreRetained ==
  \A w \in Waits, c \in Captures :
    wait[w].memory[c] # Nothing => Stored(c) \/ Unread(wait[w].next, c)

\* What a wait remembers of captures agrees with the store, as far as it has
\* read the feed: enough to notice a loss, and nothing of what is gone.
MemoryFollowsStore == LossWouldBeNoticed /\ RememberedAreRetained

\* No match and no loss of one escapes a wait.
WaitMissesNothing == NoMissedMatch /\ MemoryFollowsStore

\* The changes the waits rely on keep the promise of RecordView.
WorldKeepsPromise == View!viewSpec

\* Every call is answered, although others wait for the same few permits and
\* their workers may run on after a timeout.
EveryWaitEnds ==
  \A w \in Waits : wait[w].at = "entering" ~> wait[w].at = "answered"
=============================================================================
