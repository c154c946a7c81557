---------------------------- MODULE ControlCalls ----------------------------
(***************************************************************************)
(* One MCP tool call from end to end.  A client writes requests to the     *)
(* stdin of a broker; the broker admits them, converts or validates their  *)
(* input on a worker, resolves the instance and opens one connection of    *)
(* the private RPC per call; the instance's server admits the connection,  *)
(* parses the request on a worker, dispatches it, serializes the response  *)
(* on a worker, writes it and records the call in its audit.               *)
(*                                                                         *)
(* At every await a call may be cancelled, run into its deadline or lose   *)
(* its peer, and the workers it started go on with the permits they hold.  *)
(* A permit of a semaphore is held as long as its owner lives, so who      *)
(* holds what is derived from where calls and workers are.                 *)
(***************************************************************************)
EXTENDS Integers, Sequences, FiniteSets, SequencesExt

Kinds == {"mapping", "record", "read"}

CONSTANTS
    Calls,              \* requests: no two have the same JSON-RPC id
    Sessions,           \* broker processes, each with one stdio session
    None,
    InFlight,           \* MCP_STDIO_IN_FLIGHT_RESPONSES
    PublicCalls,        \* PUBLIC_CALL_LIMIT
    Conversions,        \* MAPPING_CONVERSION_LIMIT
    Scans,              \* BLOCKING_SCAN_LIMIT
    ActiveCalls,        \* ACTIVE_CALL_LIMIT
    ResponseBudget,     \* RESPONSE_SERIALIZATION_BUDGET_BYTES, in frames
    LargestResponse,    \* RESPONSE_MAX_BYTES, in frames: a response is one frame
    AuditRecords,       \* MAX_MUTATION_AUDIT_RECORDS
    Mixes,              \* bound: the kinds and sessions of calls to start with
    MaxDisturbances     \* bound: cancellations, deadlines, ends of a session or
                        \* of the instance

ASSUME ControlAssumption ==
    /\ IsFiniteSet(Calls)
    /\ None \notin Calls \cup {"ok", "conflict", "refused"}
    /\ {InFlight, PublicCalls, Conversions, Scans, ActiveCalls, AuditRecords}
         \subseteq Nat \ {0}
    /\ LargestResponse \in 1..ResponseBudget
    /\ Mixes \subseteq [kind: [Calls -> Kinds], session: [Calls -> Sessions]]
    /\ MaxDisturbances \in Nat

Work == {"validate", "convert", "scan", "parse", "serialize"}

VARIABLES
    kind, session,      \* of each call
    open,               \* the sessions whose client is connected
    buffered,           \* the request a session read and has no permit for
    call,               \* where the broker is with a call
    answer,             \* what the broker answers it
    cancelled, expired, \* calls whose client cancelled them, whose deadline passed
    server,             \* where the instance is with the call's connection
    stopped,            \* connections whose cancellation token is cancelled
    work,               \* how far the operation itself is
    outcome,            \* what the server's dispatch returned
    workers,            \* blocking workers that run: <<call, what for>>
    serving,            \* FALSE once the instance shuts down
    expected,           \* the settings revision a mapping mutation expects
    history,            \* the mapping mutations committed, in order
    recording,          \* the calls that set the recording switch
    audit,              \* the ring of mutation records
    reads,              \* the aggregated reads
    disturbances

clientVars == <<kind, session, open, buffered>>
brokerVars == <<call, answer, cancelled, expired>>
serverVars == <<server, stopped, work, outcome, serving>>
stateVars == <<expected, history, recording>>
auditVars == <<audit, reads>>
vars == <<clientVars, brokerVars, serverVars, stateVars, auditVars, workers,
          disturbances>>

Mutations == {c \in Calls : kind[c] # "read"}
Workers(w) == {c \in Calls : <<c, w>> \in workers}
Among(f, stages) == {c \in Calls : f[c] \in stages}

Init ==
    /\ \E mix \in Mixes : kind = mix.kind /\ session = mix.session
    /\ open = Sessions /\ buffered = [s \in Sessions |-> None]
    /\ call = [c \in Calls |-> "unsent"] /\ answer = [c \in Calls |-> None]
    /\ cancelled = {} /\ expired = {}
    /\ server = [c \in Calls |-> "none"] /\ stopped = {}
    /\ work = [c \in Calls |-> "none"] /\ outcome = [c \in Calls |-> None]
    /\ workers = {} /\ serving = TRUE
    /\ expected = [c \in Calls |-> 0] /\ history = <<>> /\ recording = {}
    /\ audit = <<>> /\ reads = [calls |-> 0, failures |-> 0, cancellations |-> 0]
    /\ disturbances = 0

Disturb == disturbances < MaxDisturbances /\ disturbances' = disturbances + 1
Undisturbed == UNCHANGED disturbances

---------------------------------------------------------------------------
(* The stdio session: ResponseTracker and ResponseBoundedTransport.        *)

\* The broker runs the handler of the request.
Handling == {"admitting", "validating", "converting", "resolving",
             "connecting", "awaiting"}

\* A request keeps its permit until its response is written, or until its
\* handler has ended if it was cancelled.
Tracked(s) == {c \in Among(call, Handling \cup {"done"}) :
                 session[c] = s}
Admissible(s) == Cardinality(Tracked(s)) < InFlight

Stage(c, where) == call' = [call EXCEPT ![c] = where]
Session == UNCHANGED <<kind, session, answer, expired, serverVars, history,
                       recording, auditVars, workers>>

\* A session that ends cancels what it has in hand and forgets the rest.
Close(s) ==
    /\ open' = open \ {s}
    /\ buffered' = [buffered EXCEPT ![s] = None]
    /\ cancelled' = cancelled \cup {c \in Among(call, Handling) : session[c] = s}
    /\ call' = [c \in Calls |->
                  IF session[c] = s /\ call[c] \in {"buffered", "done"}
                  THEN "over" ELSE call[c]]

\* A request whose permit is missing is kept aside; a second one that comes
\* meanwhile ends the session.
Receive(c) ==
    LET s == session[c]
    IN  /\ call[c] = "unsent" /\ s \in open
        /\ expected' = [expected EXCEPT ![c] = Len(history)]
        /\ \/ /\ buffered[s] = None /\ Admissible(s)
              /\ Stage(c, "admitting") /\ UNCHANGED <<open, buffered, cancelled>>
           \/ /\ buffered[s] = None /\ ~Admissible(s)
              /\ buffered' = [buffered EXCEPT ![s] = c]
              /\ Stage(c, "buffered") /\ UNCHANGED <<open, cancelled>>
           \/ /\ buffered[s] # None
              /\ Close(s)
    /\ Session /\ Undisturbed

AdmitBuffered(s) ==
    /\ buffered[s] # None /\ Admissible(s)
    /\ Stage(buffered[s], "admitting")
    /\ buffered' = [buffered EXCEPT ![s] = None]
    /\ Session /\ UNCHANGED <<open, cancelled, expected>> /\ Undisturbed

NotedOnly(c) == call[c]    \* mutant of MarkCancelled: the handler's end forgotten

\* A cancelled request gets no response, so its permit has to come back with
\* the end of its handler or, if that has ended, with the notification.
MarkCancelled(c) == IF call[c] = "done" THEN "over" ELSE call[c]

CancelNotification(c) ==
    LET s == session[c]
    IN  /\ s \in open /\ c \notin cancelled
        /\ \/ /\ call[c] \in Handling \cup {"done"}
              /\ Stage(c, MarkCancelled(c))
              /\ cancelled' = cancelled \cup {c} /\ UNCHANGED buffered
           \/ /\ call[c] = "buffered"
              /\ Stage(c, "over")
              /\ buffered' = [buffered EXCEPT ![s] = None] /\ UNCHANGED cancelled
    /\ Session /\ UNCHANGED <<open, expected>> /\ Disturb

Disconnect(s) == s \in open /\ Close(s) /\ Session /\ Disturb /\ UNCHANGED expected

\* mark_handler_done: where a call goes when its handler returns.
HandlerDone(c) ==
    IF c \in cancelled \/ session[c] \notin open THEN "over" ELSE "done"

\* The response has been written.  The service library drops the response of a
\* request that was cancelled.
Sent(c) ==
    /\ call[c] = "done" /\ c \notin cancelled /\ Stage(c, "over")
    /\ Session /\ UNCHANGED <<open, buffered, cancelled, expected>> /\ Undisturbed

---------------------------------------------------------------------------
(* The broker's handler of a call.                                         *)

Answer(c, a) ==
    /\ answer' = [answer EXCEPT ![c] = a]
    /\ Stage(c, HandlerDone(c))

Broker == UNCHANGED <<clientVars, cancelled, expired, stateVars, auditVars,
                      disturbances>>
BrokerOnly == Broker /\ UNCHANGED serverVars

\* PublicCallPermit: it belongs to the handler, and to the validation worker
\* while one runs, which may outlive the handler.
Public(s) == {c \in Among(call, Handling \ {"admitting"}) \cup Workers("validate") :
                session[c] = s}

\* set_recording_enabled has nothing to convert.
FirstStage == [mapping |-> "converting", record |-> "resolving",
               read |-> "validating"]

TryAdmitPublicCall(c) ==
    /\ call[c] = "admitting"
    /\ IF Cardinality(Public(session[c])) < PublicCalls
       THEN Stage(c, FirstStage[kind[c]]) /\ UNCHANGED answer
       ELSE Answer(c, "refused")
    /\ workers' = IF call'[c] = "validating" THEN workers \cup {<<c, "validate">>}
                                             ELSE workers
    /\ BrokerOnly

\* run_mapping_worker and scan: a permit, and a worker that keeps it.
StartWorker(c) ==
    /\ \/ /\ call[c] = "converting"
          /\ Cardinality({d \in Workers("convert") : session[d] = session[c]})
               < Conversions
          /\ workers' = workers \cup {<<c, "convert">>}
       \/ /\ call[c] = "resolving"
          /\ Cardinality({d \in Workers("scan") : session[d] = session[c]}) < Scans
          /\ workers' = workers \cup {<<c, "scan">>}
    /\ workers' # workers
    /\ UNCHANGED <<call, answer>> /\ BrokerOnly

\* The worker ends; its call, if it still waits for it, goes on when the
\* worker succeeded.
WorkerEnds(c, w, stage, next, succeeds) ==
    /\ <<c, w>> \in workers
    /\ workers' = workers \ {<<c, w>>}
    /\ \/ call[c] # stage /\ UNCHANGED <<call, answer>>
       \/ call[c] = stage /\ succeeds /\ Stage(c, next) /\ UNCHANGED answer
       \/ call[c] = stage /\ Answer(c, "refused")
    /\ BrokerOnly

Validated(c) == WorkerEnds(c, "validate", "validating", "resolving", TRUE)
Converted(c) == WorkerEnds(c, "convert", "converting", "resolving", TRUE)

\* The scan and its probes; without an answer there is no instance to select.
Resolved(c) == WorkerEnds(c, "scan", "resolving", "connecting", serving)

\* ControlRpcClient::call writes the request; the connection waits in the
\* listener's backlog.
Connect(c) ==
    /\ call[c] = "connecting"
    /\ IF serving
       THEN /\ Stage(c, "awaiting") /\ UNCHANGED answer
            /\ server' = [server EXCEPT ![c] = "backlog"]
       ELSE Answer(c, "refused") /\ UNCHANGED server
    /\ Broker /\ UNCHANGED <<stopped, work, outcome, serving, workers>>

\* Every await of the handler also waits for the token and for the deadline.
\* The connection, if there is one, is dropped with the future that holds it.
GiveUp(c) ==
    /\ call[c] \in Handling \ {"admitting"}
    /\ \/ c \in cancelled /\ Answer(c, "cancelled")
       \/ c \in expired /\ Answer(c, "deadline")
    /\ BrokerOnly /\ UNCHANGED workers

\* The connection ends without a frame: read_frame_payload calls the prefix
\* truncated.  Nothing is sent again.
AfterTruncation(c) == Answer(c, "truncated")

ConnectionLost(c) ==
    /\ call[c] = "awaiting"
    /\ \/ server[c] \in {"ended", "aborted"}
       \/ server[c] = "backlog" /\ ~serving
    /\ AfterTruncation(c)
    /\ BrokerOnly /\ UNCHANGED workers

---------------------------------------------------------------------------
(* The server: one task per connection.                                    *)

Leased == {"parsing", "running", "draining", "responding",
           "serializing", "writing"}
Tasks == Leased \cup {"leasing"}

\* CallLease is shared by the task and the workers it starts.
Leases == Among(server, Leased) \cup Workers("parse") \cup Workers("serialize")

\* What the response budget has given out: the most a response may take to
\* every serializer, what the frame took to every frame being written.
BudgetUsed == LargestResponse * Cardinality(Workers("serialize"))
                + Cardinality(Among(server, {"writing"}))

Gone(c) == call[c] # "awaiting"
Abandoned(c) == c \in stopped \/ ~serving

At(c, where) == server' = [server EXCEPT ![c] = where]
Server == UNCHANGED <<clientVars, cancelled, expired, expected, serving,
                      disturbances>>
Silent == Server /\ UNCHANGED <<call, answer, history, recording>>

Accept(c) ==
    /\ server[c] = "backlog" /\ serving
    /\ Cardinality(Among(server, Tasks)) < ActiveCalls
    /\ At(c, "leasing")
    /\ Silent /\ UNCHANGED <<stopped, work, outcome, auditVars, workers>>

\* The lease, then read_validated_request_frame_with_call_lease.  The frame is
\* there when the connection is: the client writes it before it reads.
AcquireLease(c) ==
    /\ server[c] = "leasing" /\ Cardinality(Leases) < ActiveCalls
    /\ At(c, "parsing") /\ workers' = workers \cup {<<c, "parse">>}
    /\ Silent /\ UNCHANGED <<stopped, work, outcome, auditVars>>

\* The worker's own end; when the task has left, it only frees the lease.
Parsed(c) ==
    /\ <<c, "parse">> \in workers
    /\ workers' = workers \ {<<c, "parse">>}
    /\ IF server[c] = "parsing"
       THEN At(c, "running") /\ work' = [work EXCEPT ![c] = "queued"]
       ELSE UNCHANGED <<server, work>>
    /\ Silent /\ UNCHANGED <<stopped, outcome, auditVars>>

\* Shutdown, or the handshake deadline: nothing was dispatched, nothing is
\* recorded.
Unserved(c) ==
    /\ server[c] \in {"leasing", "parsing"}
    /\ ~serving \/ server[c] # "leasing"
    /\ At(c, "ended")
    /\ Silent /\ UNCHANGED <<stopped, work, outcome, auditVars, workers>>

(* InstanceAudit::record.                                                  *)

Appended(record) ==
    LET kept == IF Len(audit) = AuditRecords THEN Tail(audit) ELSE audit
    IN  Append(kept, record)

RecordMutation(c, o, revision) ==
    /\ audit' = Appended([call |-> c, success |-> o = "ok",
                          revision |-> IF o = "ok" THEN revision ELSE 0])
    /\ UNCHANGED reads

RecordRead(o) ==
    /\ reads' = [calls |-> reads.calls + 1,
                 failures |-> reads.failures + (IF o = "ok" THEN 0 ELSE 1),
                 cancellations |-> reads.cancellations
                                     + (IF o = "cancelled" THEN 1 ELSE 0)]
    /\ UNCHANGED audit

\* The revision that ControlResult::MutateMapping carries.
ResultRevision(c) ==
    IF \E i \in DOMAIN history : history[i] = c
    THEN CHOOSE i \in DOMAIN history : history[i] = c ELSE 0

Record(c, o) == IF kind[c] = "read" THEN RecordRead(o)
                ELSE RecordMutation(c, o, ResultRevision(c))

\* mutant of AuditOutcome: an undelivered mutation is recorded as a failure
DeliveredOutcome(c, delivery) == IF delivery = "ok" THEN outcome[c] ELSE delivery

\* audit_outcome_after_delivery: a mutation did what it did, however its
\* response fared.
AuditOutcome(c, delivery) ==
    IF delivery = "ok" \/ kind[c] # "read" THEN outcome[c] ELSE delivery

(* ControlRpcServer::dispatch.                                             *)

MustReachTerminal(c) == kind[c] # "read"

\* The handler returned what the operation came to.
HandlerReturns(c) ==
    /\ server[c] \in {"running", "draining"}
    /\ work[c] \in {"ok", "conflict", "cancelled"}
    /\ outcome' = [outcome EXCEPT ![c] = work[c]]
    /\ At(c, "responding")
    /\ Silent /\ UNCHANGED <<stopped, work, auditVars, workers>>

\* The peer leaves, or the token is cancelled: a read is dropped and counted
\* as cancelled, a mutation is followed to its end.
PeerLeaves(c) ==
    /\ server[c] = "running" /\ (Gone(c) \/ Abandoned(c))
    /\ stopped' = stopped \cup {c}
    /\ IF MustReachTerminal(c)
       THEN At(c, "draining") /\ UNCHANGED <<work, auditVars>>
       ELSE /\ At(c, "ended") /\ work' = [work EXCEPT ![c] = "dropped"]
            /\ Record(c, "cancelled")
    /\ Silent /\ UNCHANGED <<outcome, workers>>

DispatchDeadline(c) ==
    /\ server[c] = "running" /\ c \in expired
    /\ stopped' = stopped \cup {c}
    /\ IF MustReachTerminal(c)
       THEN At(c, "draining") /\ UNCHANGED <<work, outcome>>
       ELSE /\ At(c, "responding") /\ work' = [work EXCEPT ![c] = "dropped"]
            /\ outcome' = [outcome EXCEPT ![c] = "deadline"]
    /\ Silent /\ UNCHANGED <<auditVars, workers>>

(* ControlRpcServer::write_response.                                       *)

Serialize(c) ==
    /\ server[c] = "responding" /\ ~Abandoned(c) /\ c \notin expired
    /\ BudgetUsed + LargestResponse <= ResponseBudget
    /\ At(c, "serializing") /\ workers' = workers \cup {<<c, "serialize">>}
    /\ Silent /\ UNCHANGED <<stopped, work, outcome, auditVars>>

Serialized(c) ==
    /\ <<c, "serialize">> \in workers
    /\ workers' = workers \ {<<c, "serialize">>}
    /\ IF server[c] = "serializing" THEN At(c, "writing") ELSE UNCHANGED server
    /\ Silent /\ UNCHANGED <<stopped, work, outcome, auditVars>>

\* The client validates request ID, scope and kind of what it reads.
Written(c) ==
    /\ server[c] = "writing" /\ ~Gone(c)
    /\ Answer(c, outcome[c])
    /\ Record(c, AuditOutcome(c, "ok"))
    /\ At(c, "ended")
    /\ Server /\ UNCHANGED <<history, recording, stopped, work, outcome, workers>>

DeliveryFails(c) ==
    /\ server[c] \in {"responding", "serializing", "writing"}
    /\ \/ Gone(c) /\ Record(c, AuditOutcome(c, "cancelled"))
       \/ Abandoned(c) /\ server[c] # "writing"
            /\ Record(c, AuditOutcome(c, "cancelled"))
       \/ c \in expired /\ Record(c, AuditOutcome(c, "deadline"))
    /\ stopped' = stopped \cup {c}
    /\ At(c, "ended")
    /\ Silent /\ UNCHANGED <<work, outcome, workers>>

---------------------------------------------------------------------------
(* The operation itself; SettingsTransactions has a mutation in full.      *)

\* Cancelled before it was taken up, or taken up for good.
Begin(c) ==
    /\ work[c] = "queued"
    /\ \/ Abandoned(c) /\ work' = [work EXCEPT ![c] = "cancelled"]
       \/ work' = [work EXCEPT ![c] = "begun"]
    /\ Silent /\ UNCHANGED <<server, stopped, outcome, auditVars, workers>>

\* expected_revision
Stale(c) == kind[c] = "mapping" /\ expected[c] # Len(history)

Finish(c) ==
    /\ work[c] = "begun"
    /\ IF Stale(c)
       THEN /\ work' = [work EXCEPT ![c] = "conflict"]
            /\ UNCHANGED <<history, recording>>
       ELSE /\ work' = [work EXCEPT ![c] = "ok"]
            /\ history' = IF kind[c] = "mapping" THEN Append(history, c) ELSE history
            /\ recording' = IF kind[c] = "record" THEN recording \cup {c}
                                                  ELSE recording
    /\ Server /\ UNCHANGED <<call, answer, server, stopped, outcome, auditVars,
                             workers>>

---------------------------------------------------------------------------
(* Time and shutdown.                                                      *)

Expire(c) ==
    /\ c \notin expired /\ call[c] \in Handling
    /\ expired' = expired \cup {c} /\ Disturb
    /\ UNCHANGED <<clientVars, call, answer, cancelled, serverVars, stateVars,
                   auditVars, workers>>

Shutdown ==
    /\ serving /\ serving' = FALSE /\ Disturb
    /\ UNCHANGED <<clientVars, brokerVars, server, stopped, work, outcome,
                   stateVars, auditVars, workers>>

\* JoinSet::shutdown aborts the tasks that did not end by themselves.  The
\* operation of an aborted task is dropped with its handler, unless it has
\* begun.
Abort(c) ==
    /\ ~serving /\ server[c] \in Tasks
    /\ At(c, "aborted")
    /\ stopped' = stopped \cup {c}
    /\ Silent /\ UNCHANGED <<work, outcome, auditVars, workers>>

---------------------------------------------------------------------------
Progress(c) ==
    \/ Sent(c) \/ TryAdmitPublicCall(c) \/ StartWorker(c)
    \/ Validated(c) \/ Converted(c) \/ Resolved(c) \/ Connect(c) \/ GiveUp(c)
    \/ ConnectionLost(c) \/ Accept(c) \/ AcquireLease(c)
    \/ Parsed(c) \/ HandlerReturns(c) \/ PeerLeaves(c) \/ DispatchDeadline(c)
    \/ Serialize(c) \/ Serialized(c) \/ Written(c) \/ DeliveryFails(c)
    \/ Begin(c) \/ Finish(c) \/ Abort(c)

Next ==
    \/ \E c \in Calls : Receive(c) \/ CancelNotification(c) \/ Expire(c)
                          \/ Unserved(c) \/ Progress(c)
    \/ \E s \in Sessions : AdmitBuffered(s) \/ Disconnect(s)
    \/ Shutdown

Spec == Init /\ [][Next]_vars

\* Tasks and workers run on; nobody has to cancel, leave or run out of time.
FairSpec ==
    /\ Spec
    /\ \A c \in Calls : WF_vars(Progress(c))
    /\ \A s \in Sessions : WF_vars(AdmitBuffered(s))

---------------------------------------------------------------------------
Applied == Range(history) \cup recording

\* Every mutation that was dispatched and whose task was not aborted by a
\* shutdown is recorded exactly once, as the success it was with the revision
\* it made or as the failure it was, whatever became of its response
\* (audit_outcome_after_delivery); and no read is left out or counted twice.
Records(c) == {i \in DOMAIN audit : audit[i].call = c}
Dispatched(c) == work[c] # "none"
AuditIsTrue ==
    /\ Len(audit) <= AuditRecords
    /\ \A c \in Calls : Cardinality(Records(c)) <= 1
    /\ \A i \in DOMAIN audit :
         LET c == audit[i].call
         IN  /\ audit[i].success = (c \in Applied)
             /\ kind[c] = "mapping" /\ audit[i].success =>
                  history[audit[i].revision] = c
    /\ Cardinality({c \in Mutations : server[c] = "ended" /\ Dispatched(c)})
         <= AuditRecords =>
         \A c \in Mutations : server[c] = "ended" /\ Dispatched(c) => Records(c) # {}
    /\ reads.calls = Cardinality({c \in Calls \ Mutations :
                                    server[c] = "ended" /\ Dispatched(c)})

\* What the caller is told is what happened: a success was applied, a refusal
\* never is, not even later, and nothing is applied twice.  The broker sends no
\* request a second time and says "refused" only before it has sent one.
AnswersAreTrue ==
    /\ \A c \in Mutations :
         /\ answer[c] = "ok" => c \in Applied
         /\ answer[c] \in {"refused", "conflict"} =>
              c \notin Applied /\ work[c] \notin {"queued", "begun"}
    /\ IsInjective(history)

\* Whatever becomes of a response, the caller, the audit and the settings agree
\* on what happened (serve_connection_until, run_mapping_worker, call).
CallsAreAccountedFor == AuditIsTrue /\ AnswersAreTrue

\* A call that was sent ends: nobody waits for ever for a permit, a lease or
\* the response budget, and abandoned workers end too (call_lease of
\* serve_connection_until, HandlerCompletionGuard).
CallsEnd ==
    \A c \in Calls :
      call[c] # "unsent" ~>
        /\ call[c] = "over" /\ server[c] \in {"none", "ended", "aborted", "backlog"}
        /\ \A w \in Work : <<c, w>> \notin workers
=============================================================================
