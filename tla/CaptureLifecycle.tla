-------------------------- MODULE CaptureLifecycle --------------------------
(***************************************************************************)
(* The life of a captured exchange, from CapturePublisher::try_start in a  *)
(* proxy task to the release of its last byte of budget.                   *)
(*                                                                         *)
(* Three kinds of threads meet on a record:                                *)
(*   - the proxy tasks of its exchange: the handler that starts the        *)
(*     capture and sets the response, and one body pump per side;          *)
(*   - the runtime, which owns the CaptureStore and removes records for    *)
(*     four different reasons while the pumps are still writing;           *)
(*   - readers (the TUI, control requests, body workers) that keep the     *)
(*     record, or only a snapshot of it, after it left the store.          *)
(*                                                                         *)
(* They share the admission semaphore, the bounded queue to the runtime    *)
(* and one CaptureMemoryBudget; the memory of a record goes back to that   *)
(* budget when the last Arc that reaches its lease is dropped, so "refs"   *)
(* below is the set of those Arcs by owner.                                *)
(***************************************************************************)
EXTENDS Integers, Sequences, FiniteSets, FiniteSetsExt

CONSTANTS
  ChunkBytes,     \* BODY_CHUNK_BYTES
  NodeOverhead,   \* BODY_CHUNK_NODE_OVERHEAD
  Exchanges,      \* the exchanges a proxy task offers for capture
  MaxConcurrent,  \* CapturePolicy.max_concurrent_exchanges
  BudgetLimit,    \* CapturePolicy.total_retained_bytes
  QueueCapacity,  \* CapturePolicy.queue_capacity
  MaxRecords,     \* CaptureRetentionPolicy.max_records
  MaxStoreBytes,  \* CaptureRetentionPolicy.max_bytes
  RequestSizes,   \* what measure_request_metadata may return
  ResponseBase,   \* the fixed charge of a response (64 in the code)
  HeaderSizes,    \* what measure_headers may return
  FrameSizes,     \* lengths of body frames
  PreviewLimit,   \* request_preview_bytes and response_preview_bytes
  MaxObserved,    \* bound: bytes a pump forwards per side
  Endings,        \* the ways a body may end: a subset of Terminals
  Readable,       \* bound: the exchanges whose record is read
  MayShutDown     \* bound: whether the process is shut down

ASSUME ChunkAssumption == ChunkBytes \in Nat \ {0} /\ NodeOverhead \in Nat

ASSUME CaptureAssumption ==
  /\ IsFiniteSet(Exchanges)
  /\ {MaxConcurrent, BudgetLimit, QueueCapacity, MaxRecords, MaxStoreBytes,
      PreviewLimit, MaxObserved} \subseteq Nat
  /\ RequestSizes \subseteq Nat \ {0}
  /\ ResponseBase \in Nat \ {0}
  /\ HeaderSizes \subseteq Nat
  /\ FrameSizes \subseteq Nat \ {0}
  /\ Endings \subseteq {"Complete", "Failed", "Cancelled"}
  /\ Readable \subseteq Exchanges /\ MayShutDown \in BOOLEAN

VARIABLES
  \* shared counters of the publisher
  freePermits,    \* permits left in the admission semaphore
  used,           \* CaptureMemoryBudget.used
  nextSequence,   \* CapturePublisher.next_sequence
  metrics,        \* CaptureMetrics: [notAdmitted, pressure]
  dirty,          \* CaptureDirtySignal.pending
  queue,          \* the bounded channel to the runtime
  \* the proxy tasks of each exchange
  start,          \* how far try_start has come
  handler,        \* who owns LogHandler.current_request
  pump,           \* the body pump of each side
  terminal,       \* ExchangeLifecycle.terminal_sides
  permit,         \* ExchangeLifecycle.permit, or the local of try_start
  held,           \* bytes reserved for a response that is not yet set
  \* the record and its lease
  seq,            \* the CaptureSequence assigned to the exchange
  rec,            \* RecordState, revision and retained_bytes
  refs,           \* owners of an Arc to the record or to its lease
  lease,          \* CaptureBudgetLease.reserved
  fed,            \* the last change published about the record
  \* the runtime
  store,          \* [bytes, revision] of the CaptureStore
  runtime,        \* the store operation in progress
  lastPressure,   \* AppRuntime.last_capture_pressure
  shutdown        \* the process-wide cancellation token

publisherVars == <<freePermits, nextSequence, metrics, dirty, queue>>
taskVars      == <<start, handler, pump, terminal, permit, held>>
runtimeVars   == <<store, runtime, lastPressure, shutdown>>
recordVars    == <<rec, refs, lease, used>>
vars == <<publisherVars, taskVars, runtimeVars, recordVars, seq, fed>>

(***************************************************************************)
(* The arithmetic that decides how much of a body fragment a capture may   *)
(* retain: CaptureMemoryBudget::reserve_body_prefix and                    *)
(* body_prefix_charge of src/capture/model.rs.                             *)
(*                                                                         *)
(* A preview is a chain of full chunks of ChunkBytes bytes, each of which  *)
(* also costs NodeOverhead, and a trailing buffer shorter than a chunk.    *)
(* Retaining r bytes behind t trailing bytes completes (t + r) \div        *)
(* ChunkBytes chunks, so the charge of a prefix is not linear in its       *)
(* length: a byte that completes a chunk costs 1 + NodeOverhead.           *)
(***************************************************************************)
Least(a, b) == IF a <= b THEN a ELSE b

\* usize::saturating_sub
SatSub(a, b) == IF a >= b THEN a - b ELSE 0

(***************************************************************************)
(* The loop over the number of chunks completed, from the largest down;    *)
(* CompletingPrefix(k) is what one iteration would retain if it completed  *)
(* k chunks, and the iteration is taken when that is enough to complete    *)
(* them and the overhead is affordable.                                    *)
(***************************************************************************)
CompletingPrefix(k, requested, trailing, available) ==
  Least(Least(requested, SatSub(available, k * NodeOverhead)),
        SatSub(SatSub((k + 1) * ChunkBytes, trailing), 1))

Completes(k, requested, trailing, available) ==
  /\ k * NodeOverhead <= available
  /\ CompletingPrefix(k, requested, trailing, available)
       >= SatSub(k * ChunkBytes, trailing)

\* <<bytes retained, bytes charged>>
BodyPrefixCharge(requested, trailing, available) ==
  LET most     == (trailing + Least(requested, available)) \div ChunkBytes
      First(k) == /\ Completes(k, requested, trailing, available)
                  /\ \A j \in 0..most :
                       j > k => ~Completes(j, requested, trailing, available)
      nodes    == CHOOSE k \in 0..most : First(k)
      retained == CompletingPrefix(nodes, requested, trailing, available)
  IN  IF requested = 0 \/ ~(\E k \in 0..most : First(k)) \/ retained = 0
        THEN <<0, 0>>
        ELSE <<retained, retained + nodes * NodeOverhead>>

Sides     == {"request", "response"}
Streams   == {"Pending", "Streaming", "Complete", "Failed", "Cancelled"}
Terminals == {"Complete", "Failed", "Cancelled"}
Limits    == {"None", "PerBodyLimit", "TotalMemoryLimit"}
Owners    == {"producer", "queue", "store", "reader", "snapshot", "response"}

\* An owner of an Arc<CaptureRecord>; a snapshot only holds the lease.
RecordOwners == Owners \ {"snapshot"}

Tasks     == {"idle", "notified", "retain", "delete", "clear", "drop"}
Removals  == {"RetentionEviction", "ExplicitDelete", "Clear"}
Kinds     == {"None", "Admitted", "RecordUpdated"} \union Removals

BodyStatus == [stream: Streams, observed: 0..MaxObserved,
               retained: 0..PreviewLimit, limit: Limits]

Record == [disabled: BOOLEAN, bound: BOOLEAN, responseStarted: BOOLEAN,
           retained: Nat, revision: Nat, body: [Sides -> BodyStatus]]

Nothing == [stream |-> "Pending", observed |-> 0, retained |-> 0,
            limit |-> "None"]

\* The record a Weak handle no longer reaches.
NoRecord == [disabled |-> FALSE, bound |-> FALSE, responseStarted |-> FALSE,
             retained |-> 0, revision |-> 0, body |-> [s \in Sides |-> Nothing]]

Alive(e)  == refs[e] \intersect RecordOwners # {}
Stored    == {e \in Exchanges : "store" \in refs[e]}
IsOldest(e, S) == e \in S /\ \A d \in S : seq[e] <= seq[d]

\* A stream task of the exchange still owns a clone of the CaptureHandle.
Handled(e, h, p) == h[e] # "gone" \/ \E s \in Sides : p[e][s] = "running"

TypeOK ==
  /\ freePermits \in Nat /\ used \in Int /\ nextSequence \in Nat
  /\ metrics \in [notAdmitted: Nat, pressure: Nat]
  /\ dirty \in BOOLEAN /\ queue \in Seq(Exchanges)
  /\ start \in [Exchanges -> {"idle", "admitted", "leased", "sequenced",
                              "started", "refused"}]
  /\ handler \in [Exchanges -> {"holding", "responding", "shrunk", "gone"}]
  /\ pump \in [Exchanges -> [Sides -> {"off", "running", "ended"}]]
  /\ terminal \in [Exchanges -> SUBSET Sides]
  /\ permit \in [Exchanges -> BOOLEAN]
  /\ held \in [Exchanges -> Nat] /\ seq \in [Exchanges -> Nat]
  /\ rec \in [Exchanges -> Record]
  /\ refs \in [Exchanges -> SUBSET Owners]
  /\ lease \in [Exchanges -> Nat]
  /\ fed \in [Exchanges -> [kind: Kinds, revision: Nat]]
  /\ store \in [bytes: Nat, revision: Nat]
  /\ runtime \in [task: Tasks, todo: SUBSET Exchanges]
  /\ lastPressure \in Nat /\ shutdown \in BOOLEAN

Init ==
  /\ freePermits = MaxConcurrent /\ used = 0 /\ nextSequence = 0
  /\ metrics = [notAdmitted |-> 0, pressure |-> 0]
  /\ dirty = FALSE /\ queue = <<>>
  /\ start = [e \in Exchanges |-> "idle"]
  /\ handler = [e \in Exchanges |-> "gone"]
  /\ pump = [e \in Exchanges |-> [s \in Sides |-> "off"]]
  /\ terminal = [e \in Exchanges |-> {}]
  /\ permit = [e \in Exchanges |-> FALSE]
  /\ held = [e \in Exchanges |-> 0] /\ seq = [e \in Exchanges |-> 0]
  /\ rec = [e \in Exchanges |-> NoRecord]
  /\ refs = [e \in Exchanges |-> {}]
  /\ lease = [e \in Exchanges |-> 0]
  /\ fed = [e \in Exchanges |-> [kind |-> "None", revision |-> 0]]
  /\ store = [bytes |-> 0, revision |-> 0]
  /\ runtime = [task |-> "idle", todo |-> {}]
  /\ lastPressure = 0 /\ shutdown = FALSE

(***************************************************************************)
(* Effects shared by the actions.                                          *)
(***************************************************************************)

\* A fault: what was given up of a lease is forgotten, not given back.
SetOwnersKeepsGiven(e, owners, r, given) ==
  /\ refs' = [refs EXCEPT ![e] = owners]
  /\ rec' = [rec EXCEPT ![e] =
               IF owners \intersect RecordOwners = {} THEN NoRecord ELSE r]
  /\ IF owners = {}
       THEN lease' = [lease EXCEPT ![e] = 0] /\ used' = used - lease[e]
       ELSE UNCHANGED <<lease, used>>

\* The owners of e's Arcs become "owners", its record becomes r and "given"
\* bytes of its lease are released; when nobody is left the lease is dropped
\* with whatever it still holds.
SetOwners(e, owners, r, given) ==
  /\ refs' = [refs EXCEPT ![e] = owners]
  /\ rec' = [rec EXCEPT ![e] =
               IF owners \intersect RecordOwners = {} THEN NoRecord ELSE r]
  /\ IF owners = {}
       THEN lease' = [lease EXCEPT ![e] = 0] /\ used' = used - lease[e]
       ELSE lease' = [lease EXCEPT ![e] = @ - given] /\ used' = used - given

\* CaptureChangeFeed::publish, projected on the record the change is about.
Publish(e, kind, revision) ==
  fed' = [fed EXCEPT ![e] = [kind |-> kind, revision |-> revision]]

\* The mutators of a record publish only while it is bound to the feed.
PublishAlways(e, kind, revision) == Publish(e, kind, revision)

PublishIfBound(e, kind, revision) ==
  IF rec[e].bound THEN Publish(e, kind, revision) ELSE UNCHANGED fed

\* ExchangeLifecycle: the permit goes back when both sides are terminal, or
\* when the last clone of the handle is dropped without that.
ReturnPermitEarly(e, sides, h, p) ==
  IF permit[e] /\ (sides # {} \/ ~Handled(e, h, p))
    THEN /\ permit' = [permit EXCEPT ![e] = FALSE]
         /\ freePermits' = freePermits + 1
    ELSE UNCHANGED <<permit, freePermits>>

ReturnPermitNoDrop(e, sides, h, p) ==
  IF permit[e] /\ sides = Sides
    THEN /\ permit' = [permit EXCEPT ![e] = FALSE]
         /\ freePermits' = freePermits + 1
    ELSE UNCHANGED <<permit, freePermits>>

ReturnPermit(e, sides, h, p) ==
  IF permit[e] /\ (sides = Sides \/ ~Handled(e, h, p))
    THEN /\ permit' = [permit EXCEPT ![e] = FALSE]
         /\ freePermits' = freePermits + 1
    ELSE UNCHANGED <<permit, freePermits>>

(***************************************************************************)
(* CapturePublisher::try_start, one action per shared resource it takes.   *)
(***************************************************************************)

\* Every early return of try_start: count, wake the runtime, drop what was
\* taken so far.
Refuse(e, pressure) ==
  /\ start' = [start EXCEPT ![e] = "refused"]
  /\ metrics' = [metrics EXCEPT !.notAdmitted = @ + 1,
                                !.pressure = @ + pressure]
  /\ dirty' = TRUE
  /\ permit' = [permit EXCEPT ![e] = FALSE]
  /\ freePermits' = freePermits + (IF permit[e] THEN 1 ELSE 0)
  /\ UNCHANGED <<handler, pump, terminal, held, queue, fed>>

\* admission.try_acquire_owned()
StartAcquire(e) ==
  /\ start[e] = "idle"
  /\ UNCHANGED <<runtimeVars, recordVars, nextSequence, seq>>
  /\ \/ /\ freePermits > 0
        /\ freePermits' = freePermits - 1
        /\ permit' = [permit EXCEPT ![e] = TRUE]
        /\ start' = [start EXCEPT ![e] = "admitted"]
        /\ UNCHANGED <<handler, pump, terminal, held, metrics, dirty, queue,
                       fed>>
     \/ freePermits = 0 /\ Refuse(e, 0)

\* CaptureBudgetLease::try_new with reserve_exact: all or nothing.
StartLease(e) ==
  /\ start[e] = "admitted"
  /\ UNCHANGED <<runtimeVars, nextSequence, seq>>
  /\ \E n \in RequestSizes :
       \/ /\ used + n <= BudgetLimit
          /\ used' = used + n
          /\ lease' = [lease EXCEPT ![e] = n]
          /\ refs' = [refs EXCEPT ![e] = {"producer"}]
          /\ rec' = [rec EXCEPT ![e] = [@ EXCEPT !.retained = n]]
          /\ start' = [start EXCEPT ![e] = "leased"]
          /\ UNCHANGED <<handler, pump, terminal, permit, held, freePermits,
                         metrics, dirty, queue, fed>>
       \/ used + n > BudgetLimit /\ Refuse(e, 1) /\ UNCHANGED recordVars

\* next_sequence.fetch_add(1); a number is spent even if the send below fails.
StartSequence(e) ==
  /\ start[e] = "leased"
  /\ seq' = [seq EXCEPT ![e] = nextSequence]
  /\ nextSequence' = nextSequence + 1
  /\ start' = [start EXCEPT ![e] = "sequenced"]
  /\ UNCHANGED <<runtimeVars, recordVars, freePermits, metrics, dirty, queue,
                 handler, pump, terminal, permit, held, fed>>

\* tx.try_send(record), then the handle for the proxy tasks.
StartSend(e) ==
  /\ start[e] = "sequenced"
  /\ UNCHANGED <<runtimeVars, nextSequence, seq>>
  /\ \/ /\ Len(queue) < QueueCapacity
        /\ queue' = Append(queue, e)
        /\ SetOwners(e, {"queue"}, rec[e], 0)
        /\ dirty' = TRUE
        /\ start' = [start EXCEPT ![e] = "started"]
        /\ handler' = [handler EXCEPT ![e] = "holding"]
        /\ pump' = [pump EXCEPT ![e]["request"] = "running"]
        /\ UNCHANGED <<terminal, permit, held, freePermits, metrics, fed>>
     \/ /\ Len(queue) >= QueueCapacity
        /\ Refuse(e, 0)
        /\ SetOwners(e, {}, rec[e], 0)

(***************************************************************************)
(* The handler: CaptureHandle::set_response_at, from capture_response or   *)
(* handle_error.  The budget is touched before the record is locked, so    *)
(* the record may have left the store in between.                          *)
(***************************************************************************)

\* Once the response is set the handle moves into the response pump
\* (handle_error fails the side at once instead, which is a pump that
\* forwards nothing).
StartResponsePump(e) ==
  /\ handler' = [handler EXCEPT ![e] = "gone"]
  /\ pump' = [pump EXCEPT ![e]["response"] = "running"]

RespondReserve(e) ==
  /\ handler[e] = "holding" /\ Alive(e)
  /\ \E h \in HeaderSizes :
       LET requested == ResponseBase + h
           got       == Least(requested, SatSub(BudgetLimit, used))
       IN  /\ used' = used + got
           /\ lease' = [lease EXCEPT ![e] = @ + got]
           /\ held' = [held EXCEPT ![e] = got]
           /\ handler' = [handler EXCEPT ![e] =
                            IF got < requested THEN "responding" ELSE "shrunk"]
           /\ metrics' = [metrics EXCEPT !.pressure =
                            @ + (IF got < requested THEN 1 ELSE 0)]
  /\ refs' = [refs EXCEPT ![e] = @ \union {"response"}]
  /\ UNCHANGED <<runtimeVars, rec, freePermits, nextSequence, dirty, queue,
                 start, pump, terminal, permit, seq, fed>>

\* A truncated reservation is given back (below the base there is no response
\* metadata at all) or shrunk to the header fields that fit.
RespondShrink(e) ==
  /\ handler[e] = "responding"
  /\ \E actual \in IF held[e] < ResponseBase THEN {0}
                                             ELSE ResponseBase..held[e] :
       /\ SetOwners(e, refs[e], rec[e], held[e] - actual)
       /\ held' = [held EXCEPT ![e] = actual]
  /\ handler' = [handler EXCEPT ![e] = "shrunk"]
  /\ UNCHANGED <<publisherVars, runtimeVars, start, pump, terminal, permit,
                 seq, fed>>

\* The record still takes a response.
SettableUnchecked(e) == ~rec[e].responseStarted

Settable(e) == ~rec[e].disabled /\ ~rec[e].responseStarted

RespondCommit(e) ==
  /\ handler[e] = "shrunk"
  /\ LET owners == refs[e] \ {"response"}
         r == [rec[e] EXCEPT !.responseStarted = TRUE,
                             !.retained = @ + held[e],
                             !.revision = @ + 1,
                             !.body["response"].stream = "Streaming"]
     IN  IF Settable(e)
           THEN /\ SetOwners(e, owners, r, 0)
                /\ PublishIfBound(e, "RecordUpdated", r.revision)
                /\ dirty' = TRUE
           ELSE SetOwners(e, owners, rec[e], held[e]) /\ UNCHANGED <<fed, dirty>>
  /\ held' = [held EXCEPT ![e] = 0]
  /\ StartResponsePump(e)
  /\ UNCHANGED <<runtimeVars, freePermits, nextSequence, metrics, queue,
                 start, terminal, permit, seq>>

\* The Weak handle does not upgrade: nothing to set.
RespondUnreachable(e) ==
  /\ handler[e] = "holding" /\ ~Alive(e)
  /\ StartResponsePump(e)
  /\ UNCHANGED <<publisherVars, runtimeVars, recordVars, start, terminal,
                 permit, held, seq, fed>>

\* The exchange is dropped while it awaits its response: there is no Drop on
\* CaptureHandle, so the response side of the record never becomes terminal.
Abandon(e) ==
  /\ handler[e] = "holding"
  /\ handler' = [handler EXCEPT ![e] = "gone"]
  /\ ReturnPermit(e, terminal[e], handler', pump)
  /\ UNCHANGED <<runtimeVars, recordVars, nextSequence, metrics, dirty, queue,
                 start, pump, terminal, held, seq, fed>>

(***************************************************************************)
(* The body pumps: CaptureHandle::append, complete, fail and cancel.       *)
(***************************************************************************)

\* What append_body asks of the budget for a fragment of n bytes, and the
\* limit it records once the budget granted some: a limit, once set, stays.
PreviewWantedAgain(b, n) == Least(n, SatSub(PreviewLimit, b.retained))

PreviewWanted(b, n) ==
  IF b.limit = "None" THEN Least(n, SatSub(PreviewLimit, b.retained)) ELSE 0

LimitAfterPerBody(b, n, granted) ==
  IF b.limit # "None" THEN b.limit
  ELSE IF granted < n THEN "PerBodyLimit" ELSE "None"

LimitAfter(b, n, granted) ==
  IF b.limit # "None" THEN b.limit
  ELSE IF granted < PreviewWanted(b, n) THEN "TotalMemoryLimit"
  ELSE IF granted < n THEN "PerBodyLimit" ELSE "None"

\* CaptureRecord::append_body of n bytes on side s, as one step: it runs under
\* the record lock and touches the budget once.  A frame of a record that is
\* gone leaves no trace.
Frame(e, s, n) ==
  LET b     == rec[e].body[s]
      got   == BodyPrefixCharge(PreviewWanted(b, n), b.retained % ChunkBytes,
                                SatSub(BudgetLimit, used))
      limit == LimitAfter(b, n, got[1])
      seen  == [b EXCEPT !.stream = "Streaming", !.observed = @ + n]
      kept  == [seen EXCEPT !.retained = b.retained + got[1], !.limit = limit]
      grown == [rec[e] EXCEPT !.body[s] = kept, !.retained = @ + got[2],
                              !.revision = @ + 1]
  IN
  /\ pump[e][s] = "running" /\ Alive(e) /\ b.stream \notin Terminals
  /\ b.observed + n <= MaxObserved
  /\ IF rec[e].disabled
       THEN /\ rec' = [rec EXCEPT ![e] = [@ EXCEPT !.body[s] = seen]]
            /\ UNCHANGED <<used, lease, metrics, dirty, fed>>
       ELSE /\ rec' = [rec EXCEPT ![e] = grown]
            /\ used' = used + got[2]
            /\ lease' = [lease EXCEPT ![e] = @ + got[2]]
            /\ PublishIfBound(e, "RecordUpdated", rec[e].revision + 1)
            /\ metrics' = [metrics EXCEPT !.pressure = @ +
                 (IF b.limit = "None" /\ limit = "TotalMemoryLimit"
                    THEN 1 ELSE 0)]
            /\ dirty' = TRUE
  /\ UNCHANGED <<runtimeVars, taskVars, refs, freePermits, nextSequence, queue,
                 seq>>

\* CaptureRecord::finish_body_at, then ExchangeLifecycle::mark_terminal, then
\* the pump drops its handle.
Finish(e, s, kind) ==
  LET r == [rec[e] EXCEPT !.body[s].stream = kind, !.revision = @ + 1]
  IN
  /\ pump[e][s] = "running"
  /\ pump' = [pump EXCEPT ![e][s] = "ended"]
  /\ terminal' = [terminal EXCEPT ![e] = @ \union {s}]
  /\ IF Alive(e) /\ rec[e].body[s].stream \notin Terminals
       THEN /\ rec' = [rec EXCEPT ![e] = r]
            /\ PublishIfBound(e, "RecordUpdated", r.revision)
            /\ dirty' = TRUE
       ELSE UNCHANGED <<rec, fed, dirty>>
  /\ ReturnPermit(e, terminal[e] \union {s}, handler, pump')
  /\ UNCHANGED <<runtimeVars, refs, lease, used, nextSequence, metrics, queue,
                 start, handler, held, seq>>

(***************************************************************************)
(* The runtime: CaptureStore under the event loop.  Each removal locks one *)
(* record at a time, and the pumps run between two of them; "runtime" is   *)
(* the store call in progress.                                             *)
(***************************************************************************)
Idle == runtime.task = "idle" /\ ~shutdown

Busy(task, todo) == runtime' = [task |-> task, todo |-> todo]

OverLimit(count, bytes) == count > MaxRecords \/ bytes > MaxStoreBytes

\* CaptureRecord::remove_from_store, with the owners the record keeps.
RemoveRecordBumps(e, kind, owners) ==
  /\ SetOwners(e, owners, [rec[e] EXCEPT !.disabled = TRUE, !.bound = FALSE], 0)
  /\ PublishIfBound(e, kind, rec[e].revision + 1)

RemoveRecord(e, kind, owners) ==
  /\ SetOwners(e, owners, [rec[e] EXCEPT !.disabled = TRUE, !.bound = FALSE], 0)
  /\ PublishIfBound(e, kind, rec[e].revision)

RuntimeFrame ==
  UNCHANGED <<freePermits, nextSequence, metrics, taskVars, seq, shutdown>>

\* App::add_capture: CaptureStore::insert and the start of its retention loop.
RecvCapture ==
  /\ Idle /\ queue # <<>>
  /\ LET e     == Head(queue)
         bytes == store.bytes + rec[e].retained
     IN  /\ SetOwners(e, (refs[e] \ {"queue"}) \union {"store"},
                      [rec[e] EXCEPT !.bound = TRUE], 0)
         /\ Publish(e, "Admitted", rec[e].revision)
         /\ store' = [bytes |-> bytes, revision |-> store.revision + 1]
         /\ Busy(IF OverLimit(Cardinality(Stored) + 1, bytes)
                   THEN "retain" ELSE "idle", {})
  /\ queue' = Tail(queue)
  /\ UNCHANGED <<dirty, lastPressure>> /\ RuntimeFrame

\* CaptureStore::evict_oldest; the count of stored bytes gives up what the
\* record holds now, not what it held when it was inserted.
EvictOldest ==
  \E e \in Exchanges :
    /\ IsOldest(e, Stored)
    /\ RemoveRecord(e, "RetentionEviction", refs[e] \ {"store"})
    /\ store' = [bytes |-> SatSub(store.bytes, rec[e].retained),
                 revision |-> store.revision + 1]

\* enforce_cached_retention, one iteration.
Retain ==
  /\ runtime.task = "retain"
  /\ EvictOldest
  /\ Busy(IF OverLimit(Cardinality(Stored) - 1, store'.bytes)
             /\ Cardinality(Stored) > 1
            THEN "retain" ELSE "idle", {})
  /\ UNCHANGED <<dirty, lastPressure, queue>> /\ RuntimeFrame

\* The capture_dirty branch of run_loop: CaptureDirtySignal::notified takes the
\* pending mark, and only then is the pressure counter read: one eviction per
\* notification that finds it risen, however often it rose.
NotifyDirty ==
  /\ Idle /\ dirty
  /\ dirty' = FALSE
  /\ Busy("notified", {})
  /\ UNCHANGED <<recordVars, fed, store, lastPressure, queue>> /\ RuntimeFrame

EvictUnderPressure ==
  IF metrics.pressure > lastPressure /\ Stored # {}
    THEN EvictOldest ELSE UNCHANGED <<recordVars, fed, store>>

ReadPressureWhenStored ==
  /\ runtime.task = "notified"
  /\ lastPressure' = IF Stored # {} THEN metrics.pressure ELSE lastPressure
  /\ EvictUnderPressure
  /\ Busy("idle", {})
  /\ UNCHANGED <<dirty, queue>> /\ RuntimeFrame

ReadPressureOnly ==
  /\ runtime.task = "notified"
  /\ lastPressure' = metrics.pressure
  /\ Busy("idle", {})
  /\ UNCHANGED <<recordVars, fed, store, dirty, queue>> /\ RuntimeFrame

ReadPressure ==
  /\ runtime.task = "notified"
  /\ lastPressure' = metrics.pressure
  /\ EvictUnderPressure
  /\ Busy("idle", {})
  /\ UNCHANGED <<dirty, queue>> /\ RuntimeFrame

\* CaptureStore::remove_sequences of the selected requests.
Delete ==
  /\ Idle
  /\ \E S \in SUBSET Stored \ {{}} : Busy("delete", S)
  /\ UNCHANGED <<recordVars, fed, store, dirty, lastPressure, queue>>
  /\ RuntimeFrame

DeleteOne ==
  /\ runtime.task = "delete"
  /\ \E e \in Exchanges :
       LET left == runtime.todo \ {e}
       IN  /\ IsOldest(e, runtime.todo)
           /\ RemoveRecord(e, "ExplicitDelete", refs[e] \ {"store"})
           /\ store' = [bytes |-> SatSub(store.bytes, rec[e].retained),
                        revision |-> store.revision +
                                       (IF left = {} THEN 1 ELSE 0)]
           /\ Busy(IF left = {} THEN "idle" ELSE "delete", left)
  /\ UNCHANGED <<dirty, lastPressure, queue>> /\ RuntimeFrame

\* CaptureStore::clear marks every record, then drops the whole map.
Clear ==
  /\ Idle /\ Stored # {}
  /\ Busy("clear", Stored)
  /\ UNCHANGED <<recordVars, fed, store, dirty, lastPressure, queue>>
  /\ RuntimeFrame

ClearOne ==
  /\ runtime.task = "clear"
  /\ \E e \in Exchanges :
       LET left == runtime.todo \ {e}
       IN  /\ IsOldest(e, runtime.todo)
           /\ RemoveRecord(e, "Clear", refs[e])
           /\ IF left = {} THEN Busy("drop", Stored) ELSE Busy("clear", left)
  /\ UNCHANGED <<store, dirty, lastPressure, queue>> /\ RuntimeFrame

DropOne ==
  /\ runtime.task = "drop"
  /\ \E e \in Exchanges :
       LET left == runtime.todo \ {e}
       IN  /\ IsOldest(e, runtime.todo)
           /\ SetOwners(e, refs[e] \ {"store"}, rec[e], 0)
           /\ Busy(IF left = {} THEN "idle" ELSE "drop", left)
           /\ store' = IF left = {}
                         THEN [bytes |-> 0, revision |-> store.revision + 1]
                         ELSE store
  /\ UNCHANGED <<fed, dirty, lastPressure, queue>> /\ RuntimeFrame

(***************************************************************************)
(* Readers: a control request, the detail view or a body worker gets the   *)
(* Arc from the store; it drops it, or keeps only a snapshot, which shares *)
(* the lease but does not keep the record.  One reader per record at a     *)
(* time.                                                                   *)
(***************************************************************************)
Reading(e, owners) ==
  /\ SetOwners(e, owners, rec[e], 0)
  /\ UNCHANGED <<publisherVars, taskVars, runtimeVars, seq, fed>>

ReaderOpen(e) ==
  /\ Idle /\ "store" \in refs[e] /\ "snapshot" \notin refs[e]
  /\ "reader" \notin refs[e] /\ Reading(e, refs[e] \union {"reader"})

ReaderSnapshot(e) ==
  /\ "reader" \in refs[e]
  /\ Reading(e, (refs[e] \ {"reader"}) \union {"snapshot"})

ReaderClose(e) == "reader" \in refs[e] /\ Reading(e, refs[e] \ {"reader"})

SnapshotDrop(e) == "snapshot" \in refs[e] /\ Reading(e, refs[e] \ {"snapshot"})

\* The shutdown token: the event loop stops and the pumps cancel their side.
Shutdown ==
  /\ MayShutDown /\ ~shutdown /\ shutdown' = TRUE
  /\ UNCHANGED <<publisherVars, taskVars, recordVars, store, runtime,
                 lastPressure, seq, fed>>

Task(e) ==
  \/ StartAcquire(e) \/ StartLease(e) \/ StartSequence(e) \/ StartSend(e)
  \/ RespondReserve(e) \/ RespondShrink(e) \/ RespondCommit(e)
  \/ RespondUnreachable(e) \/ Abandon(e)
  \/ \E s \in Sides : \E n \in FrameSizes : Frame(e, s, n)
  \/ \E s \in Sides : \E kind \in Endings : Finish(e, s, kind)

Reader(e) ==
  ReaderOpen(e) \/ ReaderSnapshot(e) \/ ReaderClose(e) \/ SnapshotDrop(e)

Runtime ==
  \/ RecvCapture \/ Retain \/ NotifyDirty \/ ReadPressure
  \/ Delete \/ DeleteOne \/ Clear \/ ClearOne \/ DropOne

Next ==
  \/ \E e \in Exchanges : Task(e)
  \/ \E e \in Readable : Reader(e)
  \/ Runtime
  \/ Shutdown

(***************************************************************************)
(* Fairness.  Tokio polls every ready task, so try_start, set_response and *)
(* the event loop keep going; a pump or a handler waiting for its peer is   *)
(* only certain to move once the shutdown token is cancelled.               *)
(***************************************************************************)
Fairness ==
  /\ WF_vars(RecvCapture) /\ WF_vars(NotifyDirty)
  /\ WF_vars(ReadPressure \/ Retain \/ DeleteOne \/ ClearOne \/ DropOne)
  /\ \A e \in Exchanges :
       /\ WF_vars(StartLease(e) \/ StartSequence(e) \/ StartSend(e))
       /\ WF_vars(RespondShrink(e) \/ RespondCommit(e))
       /\ WF_vars(shutdown /\ Abandon(e))
       /\ \A s \in Sides : WF_vars(shutdown /\ Finish(e, s, "Cancelled"))

Spec == Init /\ [][Next]_vars

FairSpec == Spec /\ Fairness

(***************************************************************************)
(* Properties.                                                             *)
(***************************************************************************)

\* The budget counts exactly the leases that are alive, and never exceeds its
\* limit: no byte is released twice or leaked, whichever of the producer, the
\* runtime and the readers drops its Arc last (CaptureBudgetLease::drop,
\* CaptureMemoryBudget::release, which would wrap below zero).
BudgetConserved ==
  /\ used = MapThenSumSet(LAMBDA e : lease[e], Exchanges)
  /\ used <= BudgetLimit

\* The lease of a record is what the record accounts for plus what a response
\* in progress has reserved: the two counters, updated in different critical
\* sections, never drift apart while the record can be reached.
LeaseCoversRecord ==
  \A e \in Exchanges : Alive(e) => lease[e] = rec[e].retained + held[e]

\* A permit is held by an exchange that is being started or still has a stream
\* to finish, and by no other: eviction, clearing or a failed start can
\* neither leak one nor return it twice (ExchangeLifecycle::mark_terminal).
PermitFollowsExchange ==
  /\ freePermits + Cardinality({e \in Exchanges : permit[e]}) = MaxConcurrent
  /\ \A e \in Exchanges :
       permit[e] <=> \/ start[e] \in {"admitted", "leased", "sequenced"}
                     \/ Handled(e, handler, pump) /\ terminal[e] # Sides

\* The feed and the store agree: a record is listed by the feed exactly while
\* it is in the store (a clear in progress aside), and its last announced
\* revision is its revision, so a consumer that follows the feed is never
\* looking at an older record without knowing.
FeedMatchesStore ==
  \A e \in Exchanges :
    /\ rec[e].bound <=> fed[e].kind \in {"Admitted", "RecordUpdated"}
    /\ rec[e].bound => "store" \in refs[e] /\ fed[e].revision = rec[e].revision
    /\ "store" \in refs[e] /\ ~rec[e].bound => runtime.task \in {"clear", "drop"}

\* While a record is in capture its preview is cut only for the reason it
\* reports, and a preview without a limit is the whole body so far (the two
\* causes of append_body's preview_limit race for the same budget).
PreviewIsPrefix ==
  \A e \in Exchanges, s \in Sides :
    LET b == rec[e].body[s]
    IN  /\ b.retained <= Least(b.observed, PreviewLimit)
        /\ ~rec[e].disabled => (b.limit = "None" <=> b.retained = b.observed)
        /\ b.limit = "PerBodyLimit" => b.retained = PreviewLimit

\* A preview is a prefix: once it was cut, nothing is appended to it, also when
\* the budget has room again by the next fragment (the sticky preview_limit).
CutIsFinal ==
  [][\A e \in Exchanges, s \in Sides :
       LET b == rec[e].body[s]  c == rec'[e].body[s]
       IN  b.limit # "None" /\ Alive(e)' =>
             c.limit = b.limit /\ c.retained = b.retained]_vars

\* What append_body keeps of a body is always a prefix of it: right after each
\* fragment (PreviewIsPrefix) and over the whole stream (CutIsFinal).
PreviewsStayPrefixes == []PreviewIsPrefix /\ CutIsFinal

\* Between two operations of the runtime the store is within its policy, and
\* its byte count never exceeds what its records really hold (it may be less:
\* a record grows after insert, and takes the growth along when it leaves).
RetentionBound ==
  /\ runtime.task # "retain" => ~OverLimit(Cardinality(Stored), store.bytes)
  /\ runtime.task # "drop" =>
       store.bytes <= MapThenSumSet(LAMBDA e : rec[e].retained, Stored)

\* The store, its byte count and the feed describe the same records between
\* any two steps of the runtime, the pumps and the readers.
StoreAccounted == FeedMatchesStore /\ RetentionBound

\* Both counts of bytes, of what is reserved and of what is stored, are right.
BytesAccounted == BudgetConserved /\ StoreAccounted

\* A record that left the store never takes another byte, whatever its pumps
\* still forward and whatever response was being prepared for it.
RemovedNeverGrows ==
  [][\A e \in Exchanges :
       rec[e].disabled /\ rec'[e].disabled =>
         /\ rec'[e].retained = rec[e].retained
         /\ \A s \in Sides : rec'[e].body[s].retained = rec[e].body[s].retained]_vars

\* The change feed keeps the promise of RecordView.
View == INSTANCE RecordView WITH
  Captures <- Exchanges, Updates <- {"RecordUpdated"}, view <- fed

FeedKeepsPromise == View!viewSpec

\* Memory pressure that was signalled is acted on: marks coalesce, one may fall
\* between the swap of the last and the read of the counter, and the runtime
\* may be busy with any other event, but the notification is never lost, and
\* the record that was the oldest when it came leaves the store.  (set_response_at raises the counter and returns without a mark when
\* its record has left the store: that pressure waits for the next mark.)
PressureSignalled == metrics.pressure > lastPressure /\ dirty

PressureNoticed ==
  /\ PressureSignalled ~> metrics.pressure = lastPressure \/ shutdown
  /\ \A e \in Exchanges :
       PressureSignalled /\ IsOldest(e, Stored)
         ~> ~IsOldest(e, Stored) \/ shutdown

\* Shutdown returns every permit, also of exchanges whose record was evicted
\* and of those nobody answered.
PermitsReturned ==
  \A e \in Exchanges : shutdown /\ permit[e] ~> ~permit[e]
=============================================================================
