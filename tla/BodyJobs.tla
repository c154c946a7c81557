------------------------------ MODULE BodyJobs ------------------------------
(***************************************************************************)
(* Decoding captured bodies for control clients: BodyJobScheduler and      *)
(* DecodedBodyCache of src/runtime/control.rs over the admission of        *)
(* src/capture/body_work.rs.  A call names a body by the revision it was   *)
(* shown.  It is charged to a queue for its input, waits for one of a few  *)
(* permits, looks everything up again, and either serves the body from the *)
(* cache or decodes a snapshot, which it caches only if nothing was        *)
(* announced since.  The cache forgets what the change feed says is stale, *)
(* but only when some call gets round to applying it.                      *)
(*                                                                         *)
(* The modelled calls decode request bodies.  The captures and their feed  *)
(* are those of CaptureWorld.                                              *)
(***************************************************************************)
EXTENDS CaptureWorld, SequencesExt

CONSTANTS
  Jobs,          \* calls that can be under way at once
  ActiveLimit,   \* ACTIVE_BODY_WORK_LIMIT
  QueuedLimit,   \* QUEUED_BODY_WORK_LIMIT
  QueuedBytes,   \* QUEUED_BODY_INPUT_LIMIT_BYTES
  Capacity,      \* MAX_TERMINAL_DECODED_CACHE_BYTES
  InputSize,     \* retained bytes of the body of a capture
  DecodedSize,   \* and of its decoded form
  MaxCalls       \* bound: calls made

ASSUME JobsAssumption ==
  /\ {ActiveLimit, QueuedLimit} \subseteq Nat \ {0}
  /\ {QueuedBytes, Capacity, MaxCalls} \subseteq Nat
  /\ {InputSize, DecodedSize} \subseteq [Captures -> Nat]
  /\ IsFiniteSet(Jobs) /\ Captures # {}

VARIABLES
  job,        \* the calls
  calls,      \* how many were made
  admission,  \* jobs and bytes in the queue, and active jobs
  cache,      \* the entries, the order of their last use, bytes and clock
  position    \* the subscription of the scheduler

jobVars == <<job, calls, admission, cache, position>>
bodyVars == <<worldVars, jobVars>>

BodyRevisions == 0..MaxRevision
Keys == [capture: Captures, revision: BodyRevisions]
None == MaxRevision + 1

\* "lookup" until the queue and in it, "permit" while the active lease is
\* held, "store" for what follows the decoding.
Phases == {"lookup", "permit", "store"}

Ended == {"new", "served", "failed"}
JobSteps == {"draining", "applying", "describing", "planning", "queueing",
             "waiting", "serving", "reading", "snapshotting", "confirming",
             "decoding", "abandoned", "storing"} \union Ended

\* DecodedCacheEntry: a decoded body, by its revision, and when it was used.
Entry == [content: BodyRevisions, used: Nat]

\* The changes a call took from the subscription, or the news of a gap.
Batch == [from: 1..MaxLog + 1, to: 0..MaxLog, gap: BOOLEAN]

Job == [at: JobSteps, phase: Phases, key: Keys, charge: Nat,
        content: BodyRevisions \union {None}, terminal: BOOLEAN, batch: Batch,
        epoch: 0..MaxLog, fresh: BOOLEAN]

JobsTypeOK ==
  /\ WorldTypeOK
  /\ job \in [Jobs -> Job] /\ calls \in 0..MaxCalls
  /\ admission \in [jobs: 0..QueuedLimit, bytes: 0..QueuedBytes,
                    active: 0..ActiveLimit]
  /\ cache = [entries |-> cache.entries, lru |-> cache.lru,
              bytes |-> cache.bytes, clock |-> cache.clock]
  /\ DOMAIN cache.entries \subseteq Keys /\ Range(cache.entries) \subseteq Entry
  /\ DOMAIN cache.lru \subseteq 1..cache.clock /\ Range(cache.lru) \subseteq Keys
  /\ cache.bytes \in 0..Capacity /\ cache.clock \in Nat
  /\ position \in 1..MaxLog + 1

NoBatch == [from |-> 1, to |-> 0, gap |-> FALSE]

NewCall(at, key) ==
  [at |-> at, phase |-> "lookup", key |-> key, charge |-> 0, content |-> None,
   terminal |-> FALSE, batch |-> NoBatch, epoch |-> 0, fresh |-> FALSE]

AnyKey == CHOOSE key \in Keys: TRUE

JobsInit ==
  /\ WorldInit
  /\ job = [j \in Jobs |-> NewCall("new", AnyKey)]
  /\ calls = 0
  /\ admission = [jobs |-> 0, bytes |-> 0, active |-> 0]
  /\ cache = [entries |-> <<>>, lru |-> <<>>, bytes |-> 0, clock |-> 0]
  /\ position = NowInLog

(***************************************************************************)
(* DecodedBodyCache                                                        *)
(***************************************************************************)
DecodedLen(key) == DecodedSize[key.capture]
DecodedTotal(keys) == MapThenSumSet(LAMBDA key: DecodedLen(key), keys)

Without(f, S) == [x \in DOMAIN f \ S |-> f[x]]
With(f, x, v) == [y \in DOMAIN f \union {x} |-> IF y = x THEN v ELSE f[y]]

\* retain and remove: some entries go, with their places in the order of use.
Removing(gone) ==
  [cache EXCEPT !.entries = Without(@, gone),
                !.lru = Without(@, {cache.entries[key].used: key \in gone}),
                !.bytes = @ - DecodedTotal(gone)]

Cleared == [cache EXCEPT !.entries = <<>>, !.lru = <<>>, !.bytes = 0]

Now == cache.clock + 1

\* get_decoded
Touched(key) ==
  [cache EXCEPT !.clock = Now, !.entries[key].used = Now,
                !.lru = With(Without(@, {cache.entries[key].used}), Now, key)]

\* The least recently used entries go until the others fit.
MakingRoom(c) ==
  LET Before(t) == {c.lru[u]: u \in {u \in DOMAIN c.lru: u < t}}
      popped == {t \in DOMAIN c.lru: c.bytes - DecodedTotal(Before(t)) > Capacity}
      victims == {c.lru[t]: t \in popped}
  IN [c EXCEPT !.entries = Without(@, victims), !.lru = Without(@, popped),
               !.bytes = @ - DecodedTotal(victims)]

\* insert_decoded: an entry of the same key is replaced.
Inserted(key, content) ==
  LET others == Removing({key} \intersect DOMAIN cache.entries)
  IN IF DecodedLen(key) > Capacity THEN others
     ELSE MakingRoom([entries |-> With(others.entries, key, [content |-> content, used |-> Now]),
                      lru |-> With(others.lru, Now, key),
                      bytes |-> others.bytes + DecodedLen(key), clock |-> Now])

\* apply_changes: of the changes about a capture the last one decides.
Applied(batch) ==
  LET read == batch.from..batch.to
      About(c) == {i \in read: log[i].capture = c}
      Last_(c) == log[CHOOSE i \in About(c): \A k \in About(c): k <= i]
      Current(key) ==
        About(key.capture) # {} =>
          /\ Last_(key.capture).kind \notin Removals
          /\ Last_(key.capture).revision = key.revision
  IN IF batch.gap \/ \E i \in read: log[i].kind = "Clear"
     THEN Cleared
     ELSE Removing({key \in DOMAIN cache.entries: ~Current(key)})

(***************************************************************************)
(* Steps of a call                                                         *)
(***************************************************************************)
Key(j) == job[j].key
Goes(j, to) == job' = [job EXCEPT ![j].at = to]

\* The charge of the queue is given back by the wait, the permit by the end of
\* what it was for.
LeaveQueue(j) == [admission EXCEPT !.jobs = @ - 1, !.bytes = @ - job[j].charge]
LeaveActive == [admission EXCEPT !.active = @ - 1]

Released(j) ==
  CASE job[j].at = "waiting" -> LeaveQueue(j)
    [] job[j].phase = "permit" -> LeaveActive
    [] OTHER -> admission

\* A client asks for a body it was shown in a snapshot.
ReadBody(j) ==
  /\ job[j].at \in Ended /\ calls < MaxCalls
  /\ \E c \in Held:
       job' = [job EXCEPT ![j] =
                 NewCall("draining", [capture |-> c, revision |-> Shown(c).revision])]
  /\ calls' = calls + 1
  /\ UNCHANGED <<worldVars, admission, cache, position>>

AfterApplying(j) == IF job[j].phase = "store" THEN "storing" ELSE "describing"

\* apply_pending_changes, under the lock of the subscription; the cache has its
\* own.
Drain(j) ==
  /\ job[j].at = "draining"
  /\ position' = NowInLog
  /\ LET batch == [from |-> position, to |-> Len(log), gap |-> Overrun(position)] IN
     job' = [job EXCEPT ![j].at = IF HasNext(position) THEN "applying" ELSE AfterApplying(j),
                        ![j].batch = IF HasNext(position) THEN batch ELSE NoBatch]
  /\ UNCHANGED <<worldVars, calls, admission, cache>>

Apply(j) ==
  /\ job[j].at = "applying"
  /\ cache' = Applied(job[j].batch)
  /\ job' = [job EXCEPT ![j].at = AfterApplying(j), ![j].batch = NoBatch]
  /\ UNCHANGED <<worldVars, calls, admission, position>>

\* validate_body_revision
AsAsked(j) == Stored(Key(j).capture) /\ Shown(Key(j).capture).revision = Key(j).revision
Terminal(j) == "request" \in Shown(Key(j).capture).ended

\* The event loop answers with the metadata of the body.
Metadata(j) ==
  /\ job[j].at = "describing" /\ Idle /\ AsAsked(j)
  /\ job' = [job EXCEPT ![j].at = "planning", ![j].terminal = Terminal(j)]
  /\ UNCHANGED <<worldVars, calls, admission, cache, position>>

\* admission_plan: what the cache has now, and the bytes to be charged for it.
Hit(j) == job[j].terminal /\ Key(j) \in DOMAIN cache.entries
PlannedContent(j) == IF Hit(j) THEN cache.entries[Key(j)].content ELSE None
PlannedCharge(j) == IF Hit(j) THEN DecodedLen(Key(j)) ELSE InputSize[Key(j).capture]

\* Mutant of Replanned: the plan made before the wait is kept.
ReplannedNever(j) == FALSE

Replanned(j) ==
  \/ job[j].charge # PlannedCharge(j)
  \/ (job[j].content = None) # ~Hit(j)

Plan(j) ==
  /\ job[j].at = "planning"
  /\ cache' = IF Hit(j) THEN Touched(Key(j)) ELSE cache
  /\ LET planned == [job[j] EXCEPT !.charge = PlannedCharge(j),
                                   !.content = PlannedContent(j)] IN
     IF job[j].phase = "lookup" \/ Replanned(j)
       THEN /\ job' = [job EXCEPT ![j] = [planned EXCEPT !.at = "queueing",
                                                         !.phase = "lookup"]]
            /\ admission' = Released(j)
       ELSE /\ job' = [job EXCEPT ![j].content = PlannedContent(j),
                                  ![j].at = IF Hit(j) THEN "serving" ELSE "reading"]
            /\ UNCHANGED admission
  /\ UNCHANGED <<worldVars, calls, position>>

\* try_queue refuses a call when the queue has no room for it.
HasRoom(charge) ==
  admission.jobs < QueuedLimit /\ admission.bytes + charge <= QueuedBytes

Queue(j) ==
  /\ job[j].at = "queueing" /\ HasRoom(job[j].charge)
  /\ admission' = [admission EXCEPT !.jobs = @ + 1, !.bytes = @ + job[j].charge]
  /\ Goes(j, "waiting")
  /\ UNCHANGED <<worldVars, calls, cache, position>>

Refuse(j) ==
  /\ job[j].at = "queueing" /\ ~HasRoom(job[j].charge)
  /\ Goes(j, "failed")
  /\ UNCHANGED <<worldVars, calls, admission, cache, position>>

\* acquire_active
AcquireActive(j) ==
  /\ job[j].at = "waiting" /\ admission.active < ActiveLimit
  /\ admission' = [LeaveQueue(j) EXCEPT !.active = @ + 1]
  /\ job' = [job EXCEPT ![j].at = "draining", ![j].phase = "permit"]
  /\ UNCHANGED <<worldVars, calls, cache, position>>

\* The worker answers from the cached body and gives the permit back.
Serve(j) ==
  /\ job[j].at = "serving"
  /\ admission' = LeaveActive
  /\ Goes(j, "served")
  /\ UNCHANGED <<worldVars, calls, cache, position>>

ReadEpoch(j) ==
  /\ job[j].at = "reading"
  /\ job' = [job EXCEPT ![j].at = "snapshotting", ![j].epoch = Len(log)]
  /\ UNCHANGED <<worldVars, calls, admission, cache, position>>

TakeSnapshot(j) ==
  /\ job[j].at = "snapshotting" /\ Idle /\ AsAsked(j)
  /\ job' = [job EXCEPT ![j].at = "confirming", ![j].terminal = Terminal(j),
                        ![j].content = Shown(Key(j).capture).revision]
  /\ UNCHANGED <<worldVars, calls, admission, cache, position>>

\* Mutant of Unchanged: the epoch is not compared.
UnchangedAssumed(j) == TRUE

Unchanged(j) == Len(log) = job[j].epoch

Confirm(j) ==
  /\ job[j].at = "confirming"
  /\ job' = [job EXCEPT ![j].at = "decoding", ![j].fresh = Unchanged(j)]
  /\ UNCHANGED <<worldVars, calls, admission, cache, position>>

\* The blocking worker decodes, answers and gives the permit back when it ends.
DecodeEnds(j) ==
  /\ job[j].at = "decoding"
  /\ admission' = LeaveActive
  /\ job' = [job EXCEPT ![j].phase = "store",
                        ![j].at = IF job[j].terminal /\ job[j].fresh
                                  THEN "draining" ELSE "served"]
  /\ UNCHANGED <<worldVars, calls, cache, position>>

\* run_if_epoch: nothing can be announced while the entry is inserted.
Store(j) ==
  /\ job[j].at = "storing"
  /\ cache' = IF Unchanged(j) THEN Inserted(Key(j), job[j].content) ELSE cache
  /\ Goes(j, "served")
  /\ UNCHANGED <<worldVars, calls, admission, position>>

\* The capture is gone or has another revision.
Mismatch(j) ==
  /\ job[j].at \in {"describing", "snapshotting"} /\ Idle /\ ~AsAsked(j)
  /\ admission' = Released(j)
  /\ Goes(j, "failed")
  /\ UNCHANGED <<worldVars, calls, cache, position>>

\* Deadline or cancellation, or a body that cannot be decoded or answered from;
\* the worker is awaited.  A call dropped before a worker has it gives back the
\* same.
Fail(j) ==
  /\ job[j].at \in {"describing", "queueing", "waiting", "serving", "snapshotting", "decoding"}
  /\ admission' = Released(j)
  /\ Goes(j, "failed")
  /\ UNCHANGED <<worldVars, calls, cache, position>>

\* The connection is gone and the call is dropped: a worker finishes alone.
Abandon(j) ==
  /\ job[j].at \in {"serving", "decoding"}
  /\ Goes(j, "abandoned")
  /\ UNCHANGED <<worldVars, calls, admission, cache, position>>

\* Mutant of AbandonedEnds: the permit of a dropped call is lost.
AbandonedStays(j) ==
  /\ job[j].at = "abandoned"
  /\ Goes(j, "failed")
  /\ UNCHANGED <<worldVars, calls, admission, cache, position>>

AbandonedEnds(j) ==
  /\ job[j].at = "abandoned"
  /\ admission' = LeaveActive
  /\ Goes(j, "failed")
  /\ UNCHANGED <<worldVars, calls, cache, position>>

Proceed(j) ==
  \/ Drain(j) \/ Apply(j) \/ Metadata(j) \/ Plan(j) \/ Queue(j) \/ Refuse(j)
  \/ AcquireActive(j) \/ Serve(j) \/ ReadEpoch(j) \/ TakeSnapshot(j) \/ Confirm(j)
  \/ DecodeEnds(j) \/ Store(j) \/ Mismatch(j) \/ AbandonedEnds(j)

World == WorldNext /\ UNCHANGED jobVars

JobsNext == World \/ \E j \in Jobs: ReadBody(j) \/ Proceed(j) \/ Fail(j) \/ Abandon(j)

JobsSpec == JobsInit /\ [][JobsNext]_bodyVars

\* The event loop finishes its handlers and answers, the tasks of the calls are
\* scheduled, the semaphore is fair and the workers read a bounded input.
Fairness ==
  /\ WF_bodyVars(RemoveNext /\ UNCHANGED jobVars)
  /\ \A j \in Jobs: WF_bodyVars(Proceed(j)) /\ SF_bodyVars(AcquireActive(j))

(***************************************************************************)
(* Properties                                                              *)
(***************************************************************************)
Queued == {j \in Jobs: job[j].at = "waiting"}
Permitted == {j \in Jobs: job[j].phase = "permit" /\ job[j].at \notin Ended}

\* The queue and the permits are charged for exactly the calls that wait and
\* work, through every refusal, re-admission, failure and drop.
AdmissionAccounted ==
  /\ admission.jobs = Cardinality(Queued)
  /\ admission.bytes = MapThenSumSet(LAMBDA j: job[j].charge, Queued)
  /\ admission.active = Cardinality(Permitted)

\* What a call works on is what the queue was charged for: its input if it
\* decodes, the cached body if it serves that.  The cache may have gained or
\* lost the body while the call waited.
WorkWasCharged ==
  \A j \in Jobs:
    /\ job[j].at \in {"reading", "snapshotting", "confirming", "decoding"} =>
         job[j].charge = InputSize[Key(j).capture]
    /\ job[j].at = "serving" =>
         job[j].charge = DecodedLen(Key(j)) /\ job[j].content # None

\* The cache keeps to its limit; the order of use and the bytes agree with the
\* entries; a decoded body is kept and served under the revision it was decoded
\* at.
CacheAccounted ==
  /\ cache.bytes = DecodedTotal(DOMAIN cache.entries) /\ cache.bytes <= Capacity
  /\ DOMAIN cache.lru = {cache.entries[key].used: key \in DOMAIN cache.entries}
  /\ \A key \in DOMAIN cache.entries:
       /\ cache.lru[cache.entries[key].used] = key
       /\ cache.entries[key].content = key.revision
  /\ \A j \in Jobs: job[j].at = "served" => job[j].content = Key(j).revision

\* An entry of a body that has changed or gone is doomed: the change that
\* removes it is still to be read, or some call has read it and not applied it.
Doomed(key) ==
  \/ Overrun(position) \/ Unread(position, key.capture)
  \/ \E j \in Jobs:
       /\ job[j].at = "applying"
       /\ \/ job[j].batch.gap
          \/ \E i \in job[j].batch.from..job[j].batch.to: log[i].capture = key.capture

StaleEntriesAreDoomed ==
  \A key \in DOMAIN cache.entries:
    \/ Stored(key.capture) /\ Shown(key.capture).revision = key.revision
    \/ Doomed(key)

\* The two limits together: no charge is lost, doubled or for other work.
ChargesAreRight == AdmissionAccounted /\ WorkWasCharged

\* The cache: its books are right, and it never goes on serving what is stale.
CacheIsRight == CacheAccounted /\ StaleEntriesAreDoomed

\* Every call ends, whatever the calls before it left in the cache, and its
\* permit comes back.
EveryCallEnds ==
  \A j \in Jobs: job[j].at \notin Ended ~> job[j].at \in Ended
=============================================================================
