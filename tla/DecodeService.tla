---------------------------- MODULE DecodeService ---------------------------
(***************************************************************************)
(* The body decoder of the terminal interface, src/capture/decode.rs and   *)
(* src/app/detail/body_content.rs.  The user selects a body; the           *)
(* application asks the decoder for it unless a job for the same key is    *)
(* already under way, makes it the desired key and cancels the workers of  *)
(* the others.  The service task takes the jobs one by one, starts a few   *)
(* workers, and delivers a result only if it is still the desired one.     *)
(*                                                                         *)
(* pending, desired and active_cancellations have a mutex each and the     *)
(* application runs on another thread than the service, so every access is *)
(* a step of its own.                                                      *)
(***************************************************************************)
EXTENDS Integers, SequencesExt

CONSTANTS
  Keys,           \* DecodeKey: a body of a capture at a revision
  QueueCapacity,  \* DecodePolicy.queue_capacity, of jobs and of results
  MaxActive,      \* DecodePolicy.max_active
  MaxSelections   \* bound: selections of the user

ASSUME DecodeAssumption ==
  /\ QueueCapacity \in Nat \ {0} /\ MaxActive \in Nat \ {0}
  /\ MaxSelections \in Nat

VARIABLES
  selections,  \* the bodies the user selected, the last one is on screen
  text,        \* the state of its text
  main,        \* where the application is in DecodeClient::request
  pending,     \* DecodeClientState.pending
  desired,     \* DecodeClientState.desired, at most one key
  registered,  \* the keys of DecodeClientState.active_cancellations
  cancelled,   \* those of them whose flag is set
  queue,       \* the channel of jobs
  service,     \* where run_decode_service is, with what it holds
  worker,      \* the decode tasks that are not joined yet
  results      \* the channel of results

appVars == <<selections, text, main>>
clientVars == <<pending, desired, registered, cancelled>>
decodeVars == <<appVars, clientVars, queue, service, worker, results>>

\* What a worker returns: a text (decoded, or why it cannot be), or nothing
\* because its flag was seen.
Outcomes == {"text", "cancelled"}
Texts == {"idle", "pending", "unavailable"} \union Outcomes
Results == [key: Keys, outcome: Outcomes]

MainSteps == {"ready", "repeating", "recancelling", "desiring", "cancelling",
              "sending", "rejecting", "left"}

\* The job or the result in the hands of the service is not in its channel.
HoldsKey == {"checking", "dropping", "registering", "rechecking"}
HoldsResult == {"forgetting", "unregistering", "judging", "delivering"}
Service ==
  [at: {"waiting", "draining", "stopped"}]
    \union [at: HoldsKey, key: Keys]
    \union [at: HoldsResult, result: Results]

DecodeTypeOK ==
  /\ selections \in Seq(Keys) /\ Len(selections) <= MaxSelections
  /\ text \in Texts /\ main \in MainSteps
  /\ pending \subseteq Keys
  /\ desired \subseteq Keys /\ \A j, k \in desired: j = k
  /\ registered \subseteq Keys /\ cancelled \subseteq registered
  /\ queue \in Seq(Keys) /\ Len(queue) <= QueueCapacity
  /\ service \in Service
  /\ worker \in [Keys -> {"none", "running"} \union Outcomes]
  /\ results \in Seq(Results) /\ Len(results) <= QueueCapacity

DecodeInit ==
  /\ selections = <<>> /\ text = "idle" /\ main = "ready"
  /\ pending = {} /\ desired = {} /\ registered = {} /\ cancelled = {}
  /\ queue = <<>> /\ results = <<>>
  /\ service = [at |-> "waiting"]
  /\ worker = [k \in Keys |-> "none"]

(***************************************************************************)
(* The application                                                         *)
(***************************************************************************)
Selected == Last(selections)
ServiceSide == <<queue, service, worker, results>>

\* The text of another body replaces what was kept of the previous one.
Select(k) ==
  /\ main = "ready" /\ Len(selections) < MaxSelections
  /\ selections # <<>> => Selected # k
  /\ selections' = Append(selections, k)
  /\ text' = "idle"
  /\ UNCHANGED <<main, clientVars, ServiceSide>>

\* A body without a text is requested; one that is pending already is only
\* desired again, under the lock of pending.
Request ==
  /\ main = "ready" /\ selections # <<>> /\ text = "idle"
  /\ pending' = pending \union {Selected}
  /\ main' = IF Selected \in pending THEN "repeating" ELSE "desiring"
  /\ UNCHANGED <<selections, text, desired, registered, cancelled, ServiceSide>>

PendingLocked == main \in {"repeating", "recancelling"}

Desire ==
  /\ main \in {"repeating", "desiring"}
  /\ desired' = {Selected}
  /\ main' = IF main = "repeating" THEN "recancelling" ELSE "cancelling"
  /\ UNCHANGED <<selections, text, pending, registered, cancelled, ServiceSide>>

\* The workers of the other keys are cancelled; a repeated request is over.
CancelOthers ==
  /\ main \in {"recancelling", "cancelling"}
  /\ cancelled' = cancelled \union (registered \ {Selected})
  /\ main' = IF main = "recancelling" THEN "ready" ELSE "sending"
  /\ text' = IF main = "recancelling" THEN "pending" ELSE text
  /\ UNCHANGED <<selections, pending, desired, registered, ServiceSide>>

Send ==
  /\ main = "sending" /\ service.at # "stopped" /\ Len(queue) < QueueCapacity
  /\ queue' = Append(queue, Selected)
  /\ main' = "ready" /\ text' = "pending"
  /\ UNCHANGED <<selections, clientVars, service, worker, results>>

\* The channel is full or closed, or the input exceeds what may be queued here
\* or in the body work shared with the control service.
Reject ==
  /\ main = "sending"
  /\ pending' = pending \ {Selected}
  /\ main' = "rejecting"
  /\ UNCHANGED <<selections, text, desired, registered, cancelled, ServiceSide>>

Unregister(k) ==
  /\ registered' = registered \ {k}
  /\ cancelled' = cancelled \ {k}

RejectEnds ==
  /\ main = "rejecting"
  /\ Unregister(Selected)
  /\ main' = "ready" /\ text' = "unavailable"
  /\ UNCHANGED <<selections, pending, desired, ServiceSide>>

\* apply_decode_result: only the pending text on screen takes a result.
Receive ==
  /\ main = "ready" /\ results # <<>>
  /\ results' = Tail(results)
  /\ text' = IF text = "pending" /\ Head(results).key = Selected
             THEN Head(results).outcome ELSE text
  /\ UNCHANGED <<selections, main, clientVars, queue, service, worker>>

\* run_loop returns, whatever is on screen: nobody reads the results any more,
\* but their channel stays open until the services have stopped.
Leave ==
  /\ main = "ready"
  /\ main' = "left"
  /\ UNCHANGED <<selections, text, clientVars, ServiceSide>>

(***************************************************************************)
(* The service                                                             *)
(***************************************************************************)
Active == {k \in Keys: worker[k] # "none"}

Moves(to) == service' = [service EXCEPT !.at = to]
Waits == service' = [at |-> "waiting"]

TakeJob ==
  /\ service.at = "waiting" /\ queue # <<>> /\ Cardinality(Active) < MaxActive
  /\ service' = [at |-> "checking", key |-> Head(queue)]
  /\ queue' = Tail(queue)
  /\ UNCHANGED <<appVars, clientVars, worker, results>>

CheckDesired ==
  /\ service.at = "checking"
  /\ Moves(IF service.key \in desired THEN "registering" ELSE "dropping")
  /\ UNCHANGED <<appVars, clientVars, queue, worker, results>>

\* Mutant of DropJob: the key of a dropped job stays pending.
DropJobSilently ==
  /\ service.at = "dropping" /\ ~PendingLocked
  /\ Waits
  /\ UNCHANGED <<appVars, clientVars, queue, worker, results>>

DropJob ==
  /\ service.at = "dropping" /\ ~PendingLocked
  /\ pending' = pending \ {service.key}
  /\ Waits
  /\ UNCHANGED <<appVars, desired, registered, cancelled, queue, worker, results>>

Register ==
  /\ service.at = "registering"
  /\ registered' = registered \union {service.key}
  /\ cancelled' = cancelled \ {service.key}
  /\ Moves("rechecking")
  /\ UNCHANGED <<appVars, pending, desired, queue, worker, results>>

\* Mutant of Recheck: the key is not looked at again.
RecheckNothing ==
  /\ service.at = "rechecking"
  /\ worker' = [worker EXCEPT ![service.key] = "running"]
  /\ Waits
  /\ UNCHANGED <<appVars, clientVars, queue, results>>

\* The key may have been superseded before its flag could be found.
Recheck ==
  /\ service.at = "rechecking"
  /\ cancelled' = IF service.key \in desired THEN cancelled
                  ELSE cancelled \union ({service.key} \intersect registered)
  /\ worker' = [worker EXCEPT ![service.key] = "running"]
  /\ Waits
  /\ UNCHANGED <<appVars, pending, desired, registered, queue, results>>

\* A worker ends with a text, or sees its flag while waiting for a permit or
\* between two pieces of the input.
WorkerEnds(k) ==
  /\ worker[k] = "running"
  /\ \E outcome \in IF k \in cancelled THEN Outcomes ELSE {"text"}:
       worker' = [worker EXCEPT ![k] = outcome]
  /\ UNCHANGED <<appVars, clientVars, queue, service, results>>

Join(k) ==
  /\ service.at = "waiting" /\ worker[k] \in Outcomes
  /\ worker' = [worker EXCEPT ![k] = "none"]
  /\ service' = [at |-> "forgetting",
                 result |-> [key |-> k, outcome |-> worker[k]]]
  /\ UNCHANGED <<appVars, clientVars, queue, results>>

Forget ==
  /\ service.at = "forgetting" /\ ~PendingLocked
  /\ pending' = pending \ {service.result.key}
  /\ Moves("unregistering")
  /\ UNCHANGED <<appVars, desired, registered, cancelled, queue, worker, results>>

UnregisterJoined ==
  /\ service.at = "unregistering"
  /\ Unregister(service.result.key)
  /\ Moves("judging")
  /\ UNCHANGED <<appVars, pending, desired, queue, worker, results>>

Judge ==
  /\ service.at = "judging"
  /\ IF service.result.key \in desired THEN Moves("delivering") ELSE Waits
  /\ UNCHANGED <<appVars, clientVars, queue, worker, results>>

Deliver ==
  /\ service.at = "delivering" /\ Len(results) < QueueCapacity
  /\ results' = Append(results, service.result)
  /\ Waits
  /\ UNCHANGED <<appVars, clientVars, queue, worker>>

\* Mutant of ShutDown: a result waits for room whatever happens.
ShutDownWhenWaiting ==
  /\ main = "left" /\ service.at = "waiting"
  /\ service' = [at |-> "draining"]
  /\ cancelled' = registered
  /\ UNCHANGED <<appVars, pending, desired, registered, queue, worker, results>>

\* The shutdown token, cancelled once the event loop is over, is seen while
\* waiting, also for room for a result; the workers are cancelled and joined.
ShutDown ==
  /\ main = "left" /\ service.at \in {"waiting", "delivering"}
  /\ service' = [at |-> "draining"]
  /\ cancelled' = registered
  /\ UNCHANGED <<appVars, pending, desired, registered, queue, worker, results>>

Drain ==
  /\ service.at = "draining" /\ \A k \in Keys: worker[k] # "running"
  /\ worker' = [k \in Keys |-> "none"]
  /\ service' = [at |-> "stopped"]
  /\ UNCHANGED <<appVars, clientVars, queue, results>>

MainStep == Request \/ Desire \/ CancelOthers \/ Send \/ Reject \/ RejectEnds
              \/ Receive
ServiceStep ==
  \/ TakeJob \/ CheckDesired \/ DropJob \/ Register \/ Recheck
  \/ \E k \in Keys: Join(k)
  \/ Forget \/ UnregisterJoined \/ Judge \/ Deliver \/ ShutDown \/ Drain

DecodeNext ==
  \/ \E k \in Keys: Select(k) \/ WorkerEnds(k)
  \/ MainStep \/ Leave \/ ServiceStep

DecodeSpec == DecodeInit /\ [][DecodeNext]_decodeVars

\* The event loop draws and receives until it leaves, the service is a task of
\* a multi-thread runtime, and a decode reads a bounded input.
FairDecodeSpec ==
  /\ DecodeSpec /\ WF_decodeVars(MainStep) /\ WF_decodeVars(ServiceStep)
  /\ \A k \in Keys: WF_decodeVars(WorkerEnds(k))

(***************************************************************************)
(* Properties                                                              *)
(***************************************************************************)
Running == service.at \notin {"draining", "stopped"}

\* How many jobs or results of a key are on the service's side, up to the
\* removal of the key from pending.
JobsOf(k) ==
  Cardinality({i \in DOMAIN queue: queue[i] = k})
    + (IF service.at \in HoldsKey /\ service.key = k THEN 1 ELSE 0)
    + (IF worker[k] # "none" THEN 1 ELSE 0)
    + (IF service.at = "forgetting" /\ service.result.key = k THEN 1 ELSE 0)

\* The key the application has entered in pending and not sent yet.
Entering ==
  IF main \in {"desiring", "cancelling", "sending"} THEN {Selected} ELSE {}

\* pending, which refuses a second job for a key, is exactly the keys that have
\* a job, and none has two, whatever the order in which the service drops,
\* joins and forgets and the application repeats, sends and rejects.
PendingIsTheJobs ==
  Running => \A k \in Keys:
    JobsOf(k) = IF k \in pending \ Entering THEN 1 ELSE 0

\* A worker whose body the user has left has its flag set once the request for
\* the new body is sent: also one that was being registered meanwhile.
SupersededAreCancelled ==
  main \in {"ready", "sending"} => \A k \in Keys \ desired:
    worker[k] = "running" => k \in cancelled

\* No body is decoded twice at once, and none that the user has left.
JobsAreWanted == PendingIsTheJobs /\ SupersededAreCancelled

\* While the text of a body is pending, something will answer: its job, or a
\* result that is judged, delivered or in the channel.
AnswerUnderWay(outcomes) ==
  \/ Selected \in pending /\ (worker[Selected] = "cancelled" => "cancelled" \in outcomes)
  \/ /\ service.at \in HoldsResult
     /\ service.result.key = Selected /\ service.result.outcome \in outcomes
  \/ \E i \in DOMAIN results:
       results[i].key = Selected /\ results[i].outcome \in outcomes

PendingTextIsUnderWay ==
  Running /\ main = "ready" /\ text = "pending" => AnswerUnderWay(Outcomes)

\* A body on screen is never shown as the remains of a cancelled decode.
ShownBodyWasDecoded == text # "cancelled"

\* Both hold of a body the user selects for the first time.
FirstVisit == \A i \in 1..(Len(selections) - 1): selections[i] # Selected

FirstVisitIsDecoded ==
  selections # <<>> /\ FirstVisit =>
    /\ text # "cancelled"
    /\ Running /\ main = "ready" /\ text = "pending" => AnswerUnderWay({"text"})

\* What is decoded is what the user looks at, and it gets there.
DecodingFollowsTheUser == JobsAreWanted /\ FirstVisitIsDecoded

\* Every accepted job ends, even when nobody wants its result, unless the
\* service stops first.
EveryJobEnds ==
  \A k \in Keys: k \in pending ~> k \notin pending \/ service.at = "stopped"

\* Once the event loop has left the service stops, with every worker joined:
\* also when it was waiting for room among results that nobody reads now.
ShutdownEnds == main = "left" ~> service.at = "stopped"

\* Nothing of the decoder is left for ever: neither a job nor the service that
\* is told to stop (run_decode_service).
DecoderEnds == EveryJobEnds /\ ShutdownEnds
=============================================================================
