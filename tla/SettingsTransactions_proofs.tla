--------------------- MODULE SettingsTransactions_proofs ---------------------
(***************************************************************************)
(* CommitsAreTrue, for any options, clients, saves and capacity: what is   *)
(* committed was derived from the settings that are live when it becomes   *)
(* live, file and live settings agree, and every answer is true.  With the *)
(* same invariant, the commits are those of the abstract register of       *)
(* VersionedSettings.                                                      *)
(***************************************************************************)
EXTENDS SettingsTransactions, TLAPS

(***************************************************************************)
(* What holds between the steps.                                           *)
(***************************************************************************)

\* A request that still waits for its answer.
UnderWay == {"unused", "read", "submitting", "queued", "active"}

\* The queue holds requests that wait in it, each once.
Waiting ==
  /\ \A i \in 1..Len(queue) : req[queue[i]].at = "queued"
  /\ \A i, j \in 1..Len(queue) : queue[i] = queue[j] => i = j

\* The steps at which the coordinator has a request in hand, and those at
\* which it has its candidate.
Executed == Admitted \union {"begin"}
Derived  == {"compiled", "prepared", "committing", "finalize"}

\* The coordinator has one request in hand, and its candidate follows from what
\* that request asks and from the settings Begin handed over.
Executing ==
  /\ coord.at \notin {"idle", "stopped"} => coord.r \in Requests
  /\ coord.at \in Executed => req[coord.r].at = "active"
  /\ coord.at \in Derived => coord.candidate = Candidate(coord.r, coord.base)

\* No answer is there before its time.
Unanswered == \A r \in Requests : req[r].at \in UnderWay => ~req[r].answer.ok

\* An answer that says "committed" names a revision somebody made.
AnswersNameCommits ==
  \A r \in Requests : req[r].answer.ok /\ req[r].answer.changed
                        => req[r].answer.revision - 1 \in 1..Len(author)

SettingsInv ==
  /\ TypeOK /\ Waiting /\ Executing /\ Unanswered /\ TransactionOwned
  /\ CommitOnLatest /\ DiskMatchesLive /\ AnswersAreTrue /\ AnswersNameCommits

LEMMA SettingsInit == Init => SettingsInv
  BY SettingsAssumption
  DEF Init, SettingsInv, TypeOK, RequestState, Waiting, Executing, Unanswered, TransactionOwned, Stranded,
      CommitOnLatest, DiskMatchesLive, AnswersAreTrue, AnswersNameCommits, UnderWay, Answer,
      Failed, Settings, Default, Requests, Live, Revision, Executed, Derived, Admitted

(***************************************************************************)
(* Steps that commit nothing: they move nothing the invariant is about, or *)
(* one request.                                                            *)
(***************************************************************************)
committed == <<history, author, tx, disk>>

LEMMA NothingMoves ==
  ASSUME SettingsInv, TypeOK', UNCHANGED <<committed, req, queue, coord>>
  PROVE  SettingsInv'
  BY DEF SettingsInv, committed, Waiting, Executing, Candidate, Unanswered, TransactionOwned,
         Stranded, CommitOnLatest, DiskMatchesLive, AnswersAreTrue, AnswersNameCommits, Live,
         Revision

LEMMA OneRequestMoves ==
  ASSUME SettingsInv, TypeOK', UNCHANGED <<committed, queue, coord>>,
         NEW r \in Requests,
         \A p \in Requests \ {r} : req'[p] = req[p],
         req[r].at \notin {"queued", "active"},
         \/ ~req'[r].answer.ok
         \/ /\ req[r].at \notin UnderWay /\ req'[r].at \notin UnderWay
            /\ req'[r].answer = req[r].answer /\ req'[r].want = req[r].want
  PROVE  SettingsInv'
  <1> USE DEF committed
  <1>1. Waiting'
    <2>1. queue \in Seq(Requests)
      BY DEF SettingsInv, TypeOK
    <2>2. \A i \in 1..Len(queue) : queue[i] \in Requests \ {r}
      BY <2>1 DEF SettingsInv, Waiting
    <2> QED
      BY <2>2 DEF SettingsInv, Waiting
  <1>2. coord.at \in Executed => coord.r \in Requests \ {r}
    BY DEF SettingsInv, Executing, Executed, Admitted
  <1>3. Executing'
    BY <1>2 DEF SettingsInv, Executing, Candidate, Executed, Derived, Admitted
  <1>4. Unanswered'
    BY DEF SettingsInv, Unanswered
  <1>5. TransactionOwned'
    BY DEF SettingsInv, TransactionOwned, Stranded
  <1>6. CommitOnLatest'
    BY <1>2 DEF SettingsInv, CommitOnLatest, Live, Revision, Executed
  <1>7. DiskMatchesLive'
    BY DEF SettingsInv, DiskMatchesLive, Live, Revision
  <1>8. AnswersAreTrue'
    BY DEF SettingsInv, AnswersAreTrue, Unanswered, Revision
  <1>9. AnswersNameCommits'
    BY DEF SettingsInv, AnswersNameCommits
  <1> QED
    BY <1>1, <1>3, <1>4, <1>5, <1>6, <1>7, <1>8, <1>9 DEF SettingsInv

(***************************************************************************)
(* The popup, the clients and the queue.                                   *)
(***************************************************************************)
LEMMA FailedIsAnswer == Failed \in Answer /\ ~Failed.ok
  BY DEF Failed, Answer, Settings

\* What a step may make of a request.
LEMMA RequestMoves ==
  ASSUME NEW q \in RequestState, NEW expected \in Nat, NEW want \in Settings,
         NEW base \in Settings, NEW answer \in Answer,
         NEW at \in UnderWay \union {"answered", "delivered"}
  PROVE  /\ [q EXCEPT !.at = at] \in RequestState
         /\ [q EXCEPT !.at = at, !.expected = expected] \in RequestState
         /\ [q EXCEPT !.at = at, !.want = want] \in RequestState
         /\ [q EXCEPT !.at = at, !.want = want, !.base = base] \in RequestState
         /\ [q EXCEPT !.at = at, !.answer = answer] \in RequestState
  BY DEF RequestState, UnderWay

LEMMA RequestFields ==
  ASSUME NEW q \in RequestState
  PROVE  /\ q.at \in UnderWay \union {"answered", "delivered"} /\ q.expected \in Nat
         /\ q.want \in Settings /\ q.answer \in Answer
         /\ \A at : /\ [q EXCEPT !.at = at].at = at
                   /\ [q EXCEPT !.at = at].want = q.want
                   /\ [q EXCEPT !.at = at].expected = q.expected
                   /\ [q EXCEPT !.at = at].answer = q.answer
  BY DEF RequestState, UnderWay

LEMMA OneBecomes ==
  ASSUME SettingsInv, NEW r \in Requests, NEW q \in RequestState,
         req' = [req EXCEPT ![r] = q]
  PROVE  /\ req' \in [Requests -> RequestState]
         /\ req'[r] = q /\ \A p \in Requests \ {r} : req'[p] = req[p]
  BY DEF SettingsInv, TypeOK

LEMMA PopupKeeps ==
  ASSUME SettingsInv,
         OpenPopup \/ Edit \/ CloseKey \/ \E s \in Saves : SaveKey(s) \/ Complete(s)
  PROVE  SettingsInv'
  <1> USE DEF Keys, liveVars, committed
  <1>1. CASE OpenPopup
    <2>1. TypeOK'
      BY <1>1 DEF OpenPopup, SettingsInv, TypeOK, Opened
    <2> QED
      BY <1>1, <2>1, NothingMoves DEF OpenPopup
  <1>2. CASE Edit
    <2>1. TypeOK'
      <3>1. popup' \in [visible : BOOLEAN, base : Settings, value : Settings]
        BY <1>2, SMTT(30) DEF Edit, SettingsInv, TypeOK, Settings
      <3>2. /\ edits' = edits + 1
            /\ UNCHANGED <<history, author, tx, disk, app, loop, cancelled, req, queue, coord>>
        BY <1>2 DEF Edit
      <3> QED
        BY <3>1, <3>2 DEF SettingsInv, TypeOK
    <2> QED
      BY <1>2, <2>1, NothingMoves DEF Edit
  <1>3. CASE CloseKey
    <2>1. TypeOK'
      BY <1>3 DEF CloseKey, SettingsInv, TypeOK, Closed, Default, Settings
    <2> QED
      BY <1>3, <2>1, NothingMoves DEF CloseKey
  <1>4. ASSUME NEW s \in Saves, SaveKey(s)
        PROVE  SettingsInv'
    <2>1. s \in Requests
      BY DEF Requests
    <2> DEFINE q == [req[s] EXCEPT !.at = "submitting", !.want = popup.value, !.base = popup.base]
    <2>2. /\ req[s] \in RequestState /\ req[s].at = "unused"
          /\ popup.value \in Settings /\ popup.base \in Settings
      BY <1>4, <2>1 DEF SaveKey, SettingsInv, TypeOK
    <2>3. q \in RequestState
      BY <2>2 DEF RequestState
    <2>4. req' = [req EXCEPT ![s] = q]
      BY <1>4 DEF SaveKey
    <2>5. /\ req' \in [Requests -> RequestState] /\ req'[s] = q
          /\ \A p \in Requests \ {s} : req'[p] = req[p]
      BY <2>1, <2>3, <2>4, OneBecomes
    <2>6. TypeOK'
      BY <1>4, <2>5 DEF SaveKey, SettingsInv, TypeOK
    <2>7. ~req[s].answer.ok /\ q.answer = req[s].answer
      BY <2>1, <2>2 DEF SettingsInv, Unanswered, UnderWay, RequestState
    <2> QED
      BY <1>4, <2>1, <2>2, <2>5, <2>6, <2>7, OneRequestMoves DEF SaveKey
  <1>5. ASSUME NEW s \in Saves, Complete(s)
        PROVE  SettingsInv'
    <2>1. s \in Requests
      BY DEF Requests
    <2> DEFINE q == [req[s] EXCEPT !.at = "delivered"]
    <2>2. req[s] \in RequestState /\ req[s].at = "answered"
      BY <1>5, <2>1 DEF Complete, SettingsInv, TypeOK
    <2>3. q \in RequestState
      BY <2>2, RequestMoves DEF RequestState
    <2>4. req' = [req EXCEPT ![s] = q]
      BY <1>5 DEF Complete
    <2>5. /\ req' \in [Requests -> RequestState] /\ req'[s] = q
          /\ \A p \in Requests \ {s} : req'[p] = req[p]
      BY <2>1, <2>3, <2>4, OneBecomes
    <2>6. /\ popup' \in [visible : BOOLEAN, base : Settings, value : Settings]
          /\ app' \in [settings : Settings, revision : Nat, pending : BOOLEAN]
      <3>1. /\ req[s].answer.settings \in Settings /\ req[s].answer.revision \in Nat
            /\ {} \in Settings
        BY <2>2 DEF RequestState, Answer, Settings
      <3>2. CASE req[s].answer.ok
        <4>1. popup' = Closed /\ app' = Completion(s)
          BY <1>5, <3>2 DEF Complete
        <4>2. Closed \in [visible : BOOLEAN, base : Settings, value : Settings]
          BY <3>1 DEF Closed, Default
        <4>3. Completion(s) \in [settings : Settings, revision : Nat, pending : BOOLEAN]
          BY <3>1 DEF Completion
        <4> QED
          BY <4>1, <4>2, <4>3
      <3>3. CASE ~req[s].answer.ok
        BY <1>5, <3>3, ZenonT(60) DEF Complete, SettingsInv, TypeOK
      <3> QED
        BY <3>2, <3>3
    <2>7. TypeOK'
      BY <1>5, <2>5, <2>6 DEF Complete, SettingsInv, TypeOK
    <2>8. q.at = "delivered" /\ q.answer = req[s].answer /\ q.want = req[s].want
      BY <2>2, RequestFields
    <2> QED
      BY <1>5, <2>1, <2>2, <2>5, <2>7, <2>8, OneRequestMoves DEF Complete, UnderWay
  <1> QED
    BY <1>1, <1>2, <1>3, <1>4, <1>5

LEMMA ClientKeeps ==
  ASSUME SettingsInv, NEW c \in Clients, ReadSettings(c) \/ SubmitMutation(c) \/ Cancel(c)
  PROVE  SettingsInv'
  <1> USE DEF Submitting, liveVars, committed
  <1>r. c \in Requests
    BY DEF Requests
  <1>1. CASE ReadSettings(c)
    <2> DEFINE q == [req[c] EXCEPT !.at = "read", !.expected = Revision]
    <2>1. req[c] \in RequestState /\ req[c].at = "unused" /\ Revision \in Nat
      BY <1>1, <1>r DEF ReadSettings, SettingsInv, TypeOK, Revision
    <2>2. q \in RequestState
      BY <2>1, RequestMoves DEF UnderWay, RequestState
    <2>3. req' = [req EXCEPT ![c] = q]
      BY <1>1 DEF ReadSettings
    <2>4. /\ req' \in [Requests -> RequestState] /\ req'[c] = q
          /\ \A p \in Requests \ {c} : req'[p] = req[p]
      BY <1>r, <2>2, <2>3, OneBecomes
    <2>5. TypeOK'
      BY <1>1, <2>4 DEF ReadSettings, SettingsInv, TypeOK
    <2>6. ~req[c].answer.ok /\ q.answer = req[c].answer
      BY <1>r, <2>1 DEF SettingsInv, Unanswered, UnderWay, RequestState
    <2> QED
      BY <1>1, <1>r, <2>1, <2>4, <2>5, <2>6, OneRequestMoves DEF ReadSettings
  <1>2. CASE SubmitMutation(c)
    <2>1. PICK t \in Tags : req' = [req EXCEPT ![c].at = "submitting", ![c].want = {t}]
      BY <1>2 DEF SubmitMutation
    <2> DEFINE q == [req[c] EXCEPT !.at = "submitting", !.want = {t}]
    <2>2. req[c] \in RequestState /\ req[c].at = "read" /\ {t} \in Settings
      BY <1>2, <1>r DEF SubmitMutation, SettingsInv, TypeOK, Settings
    <2>3. q \in RequestState
      BY <2>2, RequestMoves DEF UnderWay, RequestState
    <2>4. req' = [req EXCEPT ![c] = q]
      BY <2>1
    <2>5. /\ req' \in [Requests -> RequestState] /\ req'[c] = q
          /\ \A p \in Requests \ {c} : req'[p] = req[p]
      BY <1>r, <2>3, <2>4, OneBecomes
    <2>6. TypeOK'
      BY <1>2, <2>5 DEF SubmitMutation, SettingsInv, TypeOK
    <2>7. ~req[c].answer.ok /\ q.answer = req[c].answer
      BY <1>r, <2>2 DEF SettingsInv, Unanswered, UnderWay, RequestState
    <2> QED
      BY <1>2, <1>r, <2>2, <2>5, <2>6, <2>7, OneRequestMoves DEF SubmitMutation
  <1>3. CASE Cancel(c)
    <2>1. TypeOK'
      BY <1>3, <1>r DEF Cancel, SettingsInv, TypeOK
    <2> QED
      BY <1>3, <2>1, NothingMoves DEF Cancel
  <1> QED
    BY <1>1, <1>2, <1>3

LEMMA EnqueueKeeps ==
  ASSUME SettingsInv, NEW r \in Requests, Enqueue(r)
  PROVE  SettingsInv'
  <1> USE DEF Submitting, liveVars, committed
  <1>r. req[r] \in RequestState /\ req[r].at = "submitting" /\ queue \in Seq(Requests)
    BY DEF Enqueue, SettingsInv, TypeOK
  <1>1. CASE Answered(r, Failed) /\ UNCHANGED queue
    <2> DEFINE q == [req[r] EXCEPT !.at = "answered", !.answer = Failed]
    <2>1. q \in RequestState /\ ~q.answer.ok
      BY <1>r, FailedIsAnswer DEF UnderWay, RequestState
    <2>2. req' = [req EXCEPT ![r] = q]
      BY <1>1 DEF Answered
    <2>3. /\ req' \in [Requests -> RequestState] /\ req'[r] = q
          /\ \A p \in Requests \ {r} : req'[p] = req[p]
      BY <2>1, <2>2, OneBecomes
    <2>4. TypeOK'
      BY <1>1, <2>3 DEF Enqueue, SettingsInv, TypeOK
    <2> QED
      BY <1>1, <1>r, <2>1, <2>3, <2>4, OneRequestMoves DEF Enqueue
  <1>2. CASE queue' = Append(queue, r) /\ req' = [req EXCEPT ![r].at = "queued"]
    <2> DEFINE q == [req[r] EXCEPT !.at = "queued"]
    <2>1. /\ q \in RequestState /\ q.at = "queued" /\ q.want = req[r].want
          /\ q.expected = req[r].expected /\ q.answer = req[r].answer
      BY <1>r DEF UnderWay, RequestState
    <2>2. req' = [req EXCEPT ![r] = q]
      BY <1>2
    <2>3. /\ req' \in [Requests -> RequestState] /\ req'[r] = q
          /\ \A p \in Requests \ {r} : req'[p] = req[p]
      BY <2>1, <2>2, OneBecomes
    <2>4. TypeOK'
      <3>1. queue' \in Seq(Requests)
        BY <1>2, <1>r
      <3> QED
        BY <2>3, <3>1 DEF Enqueue, SettingsInv, TypeOK
    <2>5. Waiting'
      <3>1. \A i \in 1..Len(queue) : queue[i] \in Requests \ {r}
        BY <1>r DEF SettingsInv, Waiting
      <3>2. /\ Len(queue') = Len(queue) + 1 /\ queue'[Len(queue) + 1] = r
            /\ \A i \in 1..Len(queue) : queue'[i] = queue[i]
        BY <1>2, <1>r
      <3>3. Len(queue) \in Nat
        BY <1>r
      <3>4. ASSUME NEW i \in 1..Len(queue')
            PROVE  req'[queue'[i]].at = "queued"
        <4>1. CASE i = Len(queue) + 1
          BY <4>1, <3>2, <2>3, <2>1
        <4>2. CASE i \in 1..Len(queue)
          BY <4>2, <3>1, <3>2, <2>3 DEF SettingsInv, Waiting
        <4> QED
          BY <4>1, <4>2, <3>2, <3>3
      <3>5. ASSUME NEW i \in 1..Len(queue'), NEW j \in 1..Len(queue'), queue'[i] = queue'[j]
            PROVE  i = j
        <4>1. CASE i \in 1..Len(queue) /\ j \in 1..Len(queue)
          BY <4>1, <3>2, <3>5 DEF SettingsInv, Waiting
        <4>2. i = Len(queue) + 1 => j = Len(queue) + 1
          BY <3>1, <3>2, <3>3, <3>5
        <4>3. j = Len(queue) + 1 => i = Len(queue) + 1
          BY <3>1, <3>2, <3>3, <3>5
        <4> QED
          BY <4>1, <4>2, <4>3, <3>2, <3>3
      <3> QED
        BY <3>4, <3>5 DEF Waiting
    <2>6. coord.at \in Executed => coord.r \in Requests \ {r}
      BY <1>r DEF SettingsInv, Executing, Executed, Admitted
    <2>7. Executing'
      BY <2>3, <2>6 DEF Enqueue, SettingsInv, Executing, Candidate, Executed, Derived, Admitted
    <2>8. Unanswered'
      BY <1>r, <2>1, <2>3 DEF SettingsInv, Unanswered, UnderWay
    <2>9. TransactionOwned' /\ DiskMatchesLive'
      BY DEF Enqueue, SettingsInv, TransactionOwned, Stranded, DiskMatchesLive, Live, Revision
    <2>10. CommitOnLatest'
      BY <2>3, <2>6 DEF Enqueue, SettingsInv, CommitOnLatest, Live, Revision, Executed
    <2>11. AnswersAreTrue' /\ AnswersNameCommits'
      <3>1. ~q.answer.ok
        BY <1>r, <2>1 DEF SettingsInv, Unanswered, UnderWay
      <3> QED
        BY <2>3, <3>1 DEF Enqueue, SettingsInv, AnswersAreTrue, AnswersNameCommits, Revision
    <2> QED
      BY <2>4, <2>5, <2>7, <2>8, <2>9, <2>10, <2>11 DEF SettingsInv
  <1> QED
    BY <1>1, <1>2 DEF Enqueue

(***************************************************************************)
(* The coordinator.                                                        *)
(***************************************************************************)
Steps == Admitted \union {"idle", "begin", "replied", "stopped"}
CoordinatorState ==
  [at : Steps, r : Requests \union {NoRequest}, base : Settings, candidate : Settings,
   revision : Nat]

LEMMA CoordinatorMoves ==
  ASSUME SettingsInv, NEW at \in Steps
  PROVE  /\ coord \in CoordinatorState
         /\ [coord EXCEPT !.at = at] \in CoordinatorState
         /\ \A p : p \in CoordinatorState <=>
              p \in [at: Admitted \union {"idle", "begin", "replied", "stopped"},
                     r: Requests \union {NoRequest}, base: Settings,
                     candidate: Settings, revision: Nat]
         /\ /\ [coord EXCEPT !.at = at].at = at
            /\ [coord EXCEPT !.at = at].r = coord.r
            /\ [coord EXCEPT !.at = at].base = coord.base
            /\ [coord EXCEPT !.at = at].candidate = coord.candidate
            /\ [coord EXCEPT !.at = at].revision = coord.revision
  BY DEF SettingsInv, TypeOK, CoordinatorState, Steps

\* The coordinator goes on with the transaction it executes.
LEMMA CoordinatorGoesOn ==
  ASSUME SettingsInv, TypeOK', UNCHANGED <<history, author, tx, req, queue>>,
         coord.at \in Admitted, coord'.at \in Admitted,
         UNCHANGED <<coord.r, coord.base, coord.revision>>,
         coord'.at \in Derived => coord'.candidate = Candidate(coord.r, coord.base),
         DiskMatchesLive'
  PROVE  SettingsInv'
  <1>1. Waiting' /\ Unanswered' /\ AnswersAreTrue' /\ AnswersNameCommits'
    BY DEF SettingsInv, Waiting, Unanswered, AnswersAreTrue, AnswersNameCommits, Revision
  <1>2. Executing'
    BY DEF SettingsInv, Executing, Executed, Admitted, Candidate
  <1>3. TransactionOwned' /\ CommitOnLatest'
    BY DEF SettingsInv, TransactionOwned, Stranded, CommitOnLatest, Live, Revision
  <1> QED
    BY <1>1, <1>2, <1>3 DEF SettingsInv

\* The request in hand is refused; nothing of it was written.
LEMMA CoordinatorRefuses ==
  ASSUME SettingsInv, UNCHANGED <<history, author, disk, queue, edits, popup>>,
         loop' \in {"running", "draining", "closed"}, cancelled' \subseteq Requests,
         app' \in [settings: Settings, revision: Nat, pending: BOOLEAN],
         coord.at \in Executed \ {"finalize"}, Answered(coord.r, Failed), Goto("replied"),
         tx' = NoRequest \/ (coord.at = "begin" /\ tx' = tx)
  PROVE  SettingsInv'
  <1> DEFINE r == coord.r
             q == [req[r] EXCEPT !.at = "answered", !.answer = Failed]
  <1>1. r \in Requests /\ req[r] \in RequestState /\ req[r].at = "active"
    BY DEF SettingsInv, TypeOK, Executing, Executed, Admitted
  <1>2. q \in RequestState /\ ~q.answer.ok /\ q.at = "answered" /\ q.expected = req[r].expected
    BY <1>1, FailedIsAnswer DEF RequestState
  <1>3. /\ req' \in [Requests -> RequestState] /\ req'[r] = q
        /\ \A p \in Requests \ {r} : req'[p] = req[p]
    <2>1. req' = [req EXCEPT ![r] = q]
      BY DEF Answered
    <2> QED
      BY <1>1, <1>2, <2>1, OneBecomes
  <1>4. coord' \in CoordinatorState /\ coord'.at = "replied"
    BY CoordinatorMoves DEF Goto, Steps
  <1>5. TypeOK'
    BY <1>3, <1>4, CoordinatorMoves DEF SettingsInv, TypeOK, Steps
  <1>6. Waiting'
    <2>1. queue \in Seq(Requests)
      BY DEF SettingsInv, TypeOK
    <2>2. \A i \in 1..Len(queue) : queue[i] \in Requests \ {r}
      BY <1>1, <2>1 DEF SettingsInv, Waiting
    <2> QED
      BY <1>3, <2>2 DEF SettingsInv, Waiting
  <1>7. Executing'
    BY <1>1, <1>4, CoordinatorMoves DEF Goto, Steps, Executing, Executed, Derived, Admitted
  <1>8. Unanswered'
    BY <1>2, <1>3 DEF SettingsInv, Unanswered, UnderWay
  <1>9. TransactionOwned'
    BY <1>4 DEF SettingsInv, TransactionOwned, Stranded, Admitted
  <1>10. CommitOnLatest'
    BY <1>4 DEF CommitOnLatest, Admitted
  <1>11. DiskMatchesLive'
    BY <1>4 DEF SettingsInv, DiskMatchesLive, Live, Revision
  <1>12. AnswersAreTrue' /\ AnswersNameCommits'
    BY <1>2, <1>3 DEF SettingsInv, AnswersAreTrue, AnswersNameCommits, Revision
  <1> QED
    BY <1>5, <1>6, <1>7, <1>8, <1>9, <1>10, <1>11, <1>12 DEF SettingsInv

LEMMA TakeKeeps ==
  ASSUME SettingsInv, Take
  PROVE  SettingsInv'
  <1> USE DEF Coordinating, liveVars
  <1> DEFINE r == Head(queue)
             q == [req[r] EXCEPT !.at = "active"]
             n == Len(queue)
  <1>1. queue \in Seq(Requests) /\ queue # <<>> /\ r \in Requests /\ r = queue[1]
        /\ n \in Nat /\ n >= 1
    BY DEF Take, SettingsInv, TypeOK
  <1>2. req[r] \in RequestState /\ req[r].at = "queued" /\ ~req[r].answer.ok
    BY <1>1 DEF SettingsInv, TypeOK, Waiting, Unanswered, UnderWay
  <1>3. /\ q \in RequestState /\ q.at = "active" /\ q.answer = req[r].answer
        /\ q.want = req[r].want /\ q.expected = req[r].expected
    BY <1>2 DEF RequestState
  <1>4. /\ req' \in [Requests -> RequestState] /\ req'[r] = q
        /\ \A p \in Requests \ {r} : req'[p] = req[p]
    BY <1>1, <1>3, OneBecomes DEF Take
  <1>5. coord' = [at |-> "begin", r |-> r, base |-> {}, candidate |-> {}, revision |-> 0]
    BY DEF Take
  <1>6. coord' \in CoordinatorState
    BY <1>1, <1>5 DEF CoordinatorState, Steps, Settings
  <1>7. queue' \in Seq(Requests) /\ Len(queue') = n - 1
        /\ \A i \in 1..(n - 1) : queue'[i] = queue[i + 1]
    BY <1>1 DEF Take
  <1>8. TypeOK'
    BY <1>4, <1>6, <1>7, CoordinatorMoves DEF Take, SettingsInv, TypeOK, Steps
  <1>9. Waiting'
    <2>1. \A i \in 1..(n - 1) : i + 1 \in 1..n /\ i + 1 # 1
      BY <1>1
    <2>2. \A i \in 1..(n - 1) : queue'[i] \in Requests \ {r}
      BY <1>1, <1>7, <2>1 DEF SettingsInv, Waiting
    <2>3. \A i \in 1..(n - 1) : req'[queue'[i]].at = "queued"
      BY <1>4, <1>7, <2>1, <2>2 DEF SettingsInv, Waiting
    <2>4. \A i, j \in 1..(n - 1) : queue'[i] = queue'[j] => i = j
      BY <1>1, <1>7, <2>1 DEF SettingsInv, Waiting
    <2> QED
      BY <1>7, <2>3, <2>4 DEF Waiting
  <1>10. Executing'
    BY <1>1, <1>3, <1>4, <1>5 DEF Executing, Executed, Derived
  <1>11. Unanswered'
    BY <1>2, <1>3, <1>4 DEF SettingsInv, Unanswered
  <1>12. TransactionOwned' /\ CommitOnLatest'
    BY <1>5 DEF Take, SettingsInv, TransactionOwned, Stranded, CommitOnLatest, Admitted
  <1>13. DiskMatchesLive'
    BY <1>5 DEF Take, SettingsInv, DiskMatchesLive, Live, Revision
  <1>14. AnswersAreTrue' /\ AnswersNameCommits'
    BY <1>2, <1>3, <1>4 DEF Take, SettingsInv, AnswersAreTrue, AnswersNameCommits, Revision
  <1> QED
    BY <1>8, <1>9, <1>10, <1>11, <1>12, <1>13, <1>14 DEF SettingsInv

LEMMA WorkKeeps ==
  ASSUME SettingsInv, Work
  PROVE  SettingsInv'
  <1> USE DEF Coordinating, liveVars
  <1>u. UNCHANGED <<history, author, tx, req, queue, app, popup, edits, loop, cancelled>>
    BY DEF Work
  <1>1. CASE CompileCandidate
    <2> DEFINE c == Candidate(coord.r, coord.base)
               at == IF c = coord.base THEN "finalize" ELSE "compiled"
    <2>1. coord.at = "admitted" /\ coord' = [coord EXCEPT !.candidate = c, !.at = at]
          /\ disk' = disk
      BY <1>1 DEF CompileCandidate
    <2>2. c \in Settings
      <3>1. coord.r \in Requests /\ req[coord.r].want \in Settings /\ coord.base \in Settings
        BY <2>1, RequestFields
        DEF SettingsInv, TypeOK, Executing, Executed, Admitted
      <3> QED
        BY <3>1 DEF Candidate, Settings
    <2>3. /\ coord' \in CoordinatorState /\ coord'.candidate = c /\ coord'.at = at
          /\ UNCHANGED <<coord.r, coord.base, coord.revision>>
      BY <2>1, <2>2, CoordinatorMoves DEF CoordinatorState, Steps, Admitted
    <2>4. TypeOK'
      BY <1>u, <2>1, <2>3, CoordinatorMoves DEF SettingsInv, TypeOK, Steps
    <2>5. DiskMatchesLive'
      BY <1>u, <2>1, <2>3
      DEF SettingsInv, DiskMatchesLive, CommitOnLatest, Live, Revision, Admitted
    <2> HIDE DEF c
    <2>6. coord.at \in Admitted /\ coord'.at \in Admitted
      BY <2>1, <2>3 DEF Admitted
    <2>7. coord'.candidate = Candidate(coord.r, coord.base)
      BY <2>3 DEF c
    <2> QED
      BY <1>u, <2>3, <2>4, <2>5, <2>6, <2>7, CoordinatorGoesOn
  <1>2. ASSUME NEW at \in {"prepared", "committing", "abort"}, Goto(at), UNCHANGED disk,
               coord.at \in Admitted \ {"finalize"},
               at # "abort" => coord.at \in Derived
        PROVE  SettingsInv'
    <2>1. /\ coord' \in CoordinatorState /\ coord'.at = at
          /\ UNCHANGED <<coord.r, coord.base, coord.candidate, coord.revision>>
      BY <1>2, CoordinatorMoves DEF Goto, Steps, Admitted
    <2>2. TypeOK'
      BY <1>u, <1>2, <2>1, CoordinatorMoves DEF SettingsInv, TypeOK, Steps
    <2>3. DiskMatchesLive'
      BY <1>u, <1>2, <2>1 DEF SettingsInv, DiskMatchesLive, Live, Revision
    <2>4. coord'.at \in Derived => coord'.candidate = Candidate(coord.r, coord.base)
      BY <1>2, <2>1 DEF SettingsInv, Executing, Derived
    <2>5. coord'.at \in Admitted
      BY <2>1 DEF Admitted
    <2> QED
      BY <1>u, <1>2, <2>1, <2>2, <2>3, <2>4, <2>5, CoordinatorGoesOn
  <1>3. CASE Prepare
    BY <1>3, <1>2 DEF Prepare, Admitted, Derived
  <1>4. CASE BeginCommit
    BY <1>4, <1>2 DEF BeginCommit, Admitted, Derived
  <1>5. CASE RenameFails
    BY <1>5, <1>2 DEF RenameFails, Admitted
  <1>6. ASSUME NEW at \in {"admitted", "compiled", "prepared"}, Fails(at)
        PROVE  SettingsInv'
    BY <1>6, <1>2 DEF Fails, Admitted
  <1>7. CASE Rename
    <2>1. /\ coord' \in CoordinatorState /\ coord'.at = "finalize"
          /\ UNCHANGED <<coord.r, coord.base, coord.candidate, coord.revision>>
      BY <1>7, CoordinatorMoves DEF Rename, Goto, Steps, Admitted
    <2>2. coord.at = "committing" /\ disk' = IF Persistent THEN coord.candidate ELSE disk
      BY <1>7 DEF Rename
    <2>3. coord.candidate \in Settings
      BY DEF SettingsInv, TypeOK
    <2>4. TypeOK'
      BY <1>u, <2>1, <2>2, <2>3, CoordinatorMoves DEF SettingsInv, TypeOK, Steps
    <2>5. DiskMatchesLive'
      BY <1>u, <2>1, <2>2 DEF SettingsInv, DiskMatchesLive, Live, Revision
    <2>6. coord'.candidate = Candidate(coord.r, coord.base)
      BY <2>1, <2>2 DEF SettingsInv, Executing, Derived
    <2>7. coord.at \in Admitted /\ coord'.at \in Admitted
      BY <2>1, <2>2 DEF Admitted
    <2> QED
      BY <1>u, <2>1, <2>4, <2>5, <2>6, <2>7, CoordinatorGoesOn
  <1> QED
    BY <1>1, <1>3, <1>4, <1>5, <1>6, <1>7 DEF Work

LEMMA GiveUpKeeps ==
  ASSUME SettingsInv, GiveUpBegin
  PROVE  SettingsInv'
  BY CoordinatorRefuses
  DEF GiveUpBegin, Coordinating, liveVars, Executed, Admitted, SettingsInv, TypeOK

LEMMA NoticeKeeps ==
  ASSUME SettingsInv, NoticeShutdown
  PROVE  SettingsInv'
  <1>1. coord.r \in Requests
    BY DEF NoticeShutdown, SettingsInv, Executing
  <1>2. TypeOK'
    BY <1>1 DEF NoticeShutdown, Coordinating, liveVars, SettingsInv, TypeOK
  <1> QED
    BY <1>2, NothingMoves DEF NoticeShutdown, Coordinating, liveVars, committed

LEMMA ReplyKeeps ==
  ASSUME SettingsInv, Reply
  PROVE  SettingsInv'
  <1> USE DEF Coordinating, liveVars
  <1>1. coord' = [coord EXCEPT !.at = "idle", !.r = NoRequest] /\ coord.at = "replied"
    BY DEF Reply
  <1>2. coord' \in CoordinatorState /\ coord'.at = "idle"
    BY <1>1, CoordinatorMoves DEF CoordinatorState, Steps
  <1>3. TypeOK'
    BY <1>2, CoordinatorMoves DEF Reply, SettingsInv, TypeOK, Steps
  <1>4. Waiting' /\ Unanswered' /\ AnswersAreTrue' /\ AnswersNameCommits'
    BY DEF Reply, SettingsInv, Waiting, Unanswered, AnswersAreTrue, AnswersNameCommits, Revision
  <1>5. Executing' /\ CommitOnLatest'
    BY <1>2 DEF Executing, CommitOnLatest, Executed, Derived, Admitted
  <1>6. TransactionOwned' /\ DiskMatchesLive'
    BY <1>1, <1>2 DEF Reply, SettingsInv, TransactionOwned, Stranded, DiskMatchesLive, Live,
                      Revision, Admitted
  <1> QED
    BY <1>3, <1>4, <1>5, <1>6 DEF SettingsInv

LEMMA StopKeeps ==
  ASSUME SettingsInv, StopCoordinator
  PROVE  SettingsInv'
  <1> USE DEF Coordinating, liveVars
  <1>1. /\ coord.at = "idle" /\ coord' = [coord EXCEPT !.at = "stopped"] /\ queue' = <<>>
        /\ UNCHANGED <<history, author, tx, disk, app, popup, edits, loop, cancelled>>
    BY DEF StopCoordinator
  <1>2. coord' \in CoordinatorState /\ coord'.at = "stopped"
    BY <1>1, CoordinatorMoves DEF Steps
  <1>3. \A p \in Requests :
          /\ req[p] \in RequestState /\ req'[p] \in RequestState
          /\ req'[p].answer = req[p].answer /\ req'[p].want = req[p].want
          /\ req'[p].at = IF req[p].at = "queued" THEN "answered" ELSE req[p].at
    <2> TAKE p \in Requests
    <2>1. req[p] \in RequestState
      BY DEF SettingsInv, TypeOK
    <2>2. req'[p] = IF req[p].at = "queued" THEN [req[p] EXCEPT !.at = "answered"] ELSE req[p]
      BY DEF StopCoordinator
    <2> QED
      BY <2>1, <2>2 DEF RequestState
  <1>4. req' \in [Requests -> RequestState]
    BY <1>3 DEF StopCoordinator
  <1>5. TypeOK'
    BY <1>1, <1>2, <1>4, CoordinatorMoves, SMTT(30) DEF SettingsInv, TypeOK, Steps
  <1>6. Waiting' /\ Executing' /\ CommitOnLatest'
    BY <1>1, <1>2 DEF Waiting, Executing, CommitOnLatest, Executed, Derived, Admitted
  <1>7. Unanswered'
    BY <1>3 DEF SettingsInv, Unanswered, UnderWay
  <1>8. TransactionOwned' /\ DiskMatchesLive'
    BY <1>1, <1>2 DEF SettingsInv, TransactionOwned, Stranded, DiskMatchesLive, Live, Revision,
                      Admitted
  <1>9. AnswersAreTrue' /\ AnswersNameCommits'
    BY <1>1, <1>3 DEF SettingsInv, AnswersAreTrue, AnswersNameCommits, Revision
  <1> QED
    BY <1>5, <1>6, <1>7, <1>8, <1>9 DEF SettingsInv

(***************************************************************************)
(* The event loop.                                                         *)
(***************************************************************************)

\* Begin hands over the live settings and their revision; nothing can change
\* them until this transaction ends.
LEMMA BeginKeeps ==
  ASSUME SettingsInv, HandleBegin
  PROVE  SettingsInv'
  <1> DEFINE r == coord.r
  <1>1. coord.at = "begin" /\ r \in Requests
    BY DEF HandleBegin, Serving, SettingsInv, Executing
  <1>2. CASE /\ Admissible(r) /\ tx' = r /\ app' = [app EXCEPT !.pending = TRUE]
             /\ coord' = [coord EXCEPT !.at = "admitted", !.base = Live, !.revision = Revision]
             /\ UNCHANGED req
    <2>1. Live \in Settings /\ Revision \in Nat
      BY DEF SettingsInv, TypeOK, Live, Revision
    <2>2. /\ coord' \in CoordinatorState /\ coord'.at = "admitted" /\ coord'.r = r
          /\ coord'.base = Live /\ coord'.revision = Revision
      BY <1>2, <2>1, CoordinatorMoves DEF CoordinatorState, Steps, Admitted
    <2>3. app' \in [settings: Settings, revision: Nat, pending: BOOLEAN]
      BY <1>2 DEF SettingsInv, TypeOK
    <2>4. TypeOK'
      BY <1>1, <1>2, <2>2, <2>3, CoordinatorMoves
      DEF HandleBegin, Serving, SettingsInv, TypeOK, Steps
    <2>5. Waiting' /\ Unanswered' /\ AnswersAreTrue' /\ AnswersNameCommits'
      BY <1>2 DEF HandleBegin, Serving, SettingsInv, Waiting, Unanswered, AnswersAreTrue,
                  AnswersNameCommits, Revision
    <2>6. Executing'
      BY <1>1, <1>2, <2>2 DEF SettingsInv, Executing, Executed, Derived
    <2>7. TransactionOwned'
      BY <1>2, <2>2 DEF TransactionOwned, Admitted
    <2>8. CommitOnLatest'
      BY <1>2, <2>2 DEF HandleBegin, CommitOnLatest, Admissible, Live, Revision
    <2>9. DiskMatchesLive'
      BY <1>1, <2>2 DEF HandleBegin, Serving, SettingsInv, DiskMatchesLive, Live, Revision
    <2> QED
      BY <2>4, <2>5, <2>6, <2>7, <2>8, <2>9 DEF SettingsInv
  <1>3. CASE Answered(r, Failed) /\ Goto("replied") /\ UNCHANGED <<tx, app>>
    <2>1. /\ app' \in [settings: Settings, revision: Nat, pending: BOOLEAN]
          /\ loop' \in {"running", "draining", "closed"} /\ cancelled' \subseteq Requests
      BY <1>3 DEF HandleBegin, Serving, SettingsInv, TypeOK
    <2>2. UNCHANGED <<history, author, disk, queue, edits, popup>>
      BY DEF HandleBegin, Serving
    <2> QED
      BY <1>1, <1>3, <2>1, <2>2, CoordinatorRefuses DEF Executed
  <1> QED
    BY <1>2, <1>3 DEF HandleBegin

LEMMA AbortKeeps ==
  ASSUME SettingsInv, HandleAbort
  PROVE  SettingsInv'
  <1>1. /\ app' \in [settings: Settings, revision: Nat, pending: BOOLEAN]
        /\ loop' \in {"running", "draining", "closed"} /\ cancelled' \subseteq Requests
    BY DEF HandleAbort, Serving, SettingsInv, TypeOK
  <1> QED
    BY <1>1, CoordinatorRefuses DEF HandleAbort, Serving, Executed, Admitted

\* The candidate becomes live, and a new revision if it says anything new.
LEMMA FinalizeKeeps ==
  ASSUME SettingsInv, HandleFinalize
  PROVE  SettingsInv'
  <1> DEFINE r       == coord.r
             changed == coord.candidate # coord.base
             refused == changed /\ r \in Clients /\ Dirty
             success == [ok |-> TRUE, changed |-> changed, settings |-> coord.candidate,
                         revision |-> coord.revision + (IF changed THEN 1 ELSE 0)]
             answer  == IF refused THEN Failed ELSE success
             q       == [req[r] EXCEPT !.at = "answered", !.answer = answer]
             N       == Len(history)
  <1>1. /\ coord.at = "finalize" /\ tx = r /\ Goto("replied")
        /\ UNCHANGED <<disk, edits, loop, cancelled, queue>>
    BY DEF HandleFinalize, Serving
  <1>2. /\ r \in Requests /\ req[r] \in RequestState /\ req[r].at = "active"
        /\ coord.candidate = Candidate(r, coord.base) /\ coord.candidate \in Settings
        /\ coord.base = Live /\ coord.revision = Revision
    BY <1>1 DEF SettingsInv, TypeOK, Executing, Executed, Derived, Admitted, CommitOnLatest
  <1>3. /\ history \in Seq(Settings) /\ author \in Seq(Requests) /\ N \in Nat /\ N >= 1
        /\ Len(author) = N - 1 /\ Revision = N /\ Live = history[N]
    BY DEF SettingsInv, TypeOK, Revision, Live
  <1>4. /\ IF changed THEN /\ history' = Append(history, coord.candidate)
                           /\ author' = Append(author, r)
           ELSE UNCHANGED <<history, author>>
        /\ req' = [req EXCEPT ![r] = q]
        /\ tx' = IF refused THEN tx ELSE NoRequest
    BY DEF HandleFinalize, Answered
  <1>5. answer \in Answer
    <2>1. success \in Answer
      BY <1>2, <1>3 DEF Answer
    <2> QED
      BY <2>1, FailedIsAnswer
  <1>6. q \in RequestState /\ q.at = "answered" /\ q.answer = answer /\ q.want = req[r].want
    <2> HIDE DEF answer
    <2> QED
      BY <1>2, <1>5 DEF RequestState
  <1>7. /\ req' \in [Requests -> RequestState] /\ req'[r] = q
        /\ \A p \in Requests \ {r} : req'[p] = req[p]
    <2> HIDE DEF q
    <2> QED
      BY <1>2, <1>4, <1>6, OneBecomes
  <1>8. coord' \in CoordinatorState /\ coord'.at = "replied" /\ coord'.r = r
    BY <1>1, CoordinatorMoves DEF Goto, Steps
  <1> HIDE DEF q
  \* What becomes of the history.
  <1>9. /\ history' \in Seq(Settings) /\ author' \in Seq(Requests)
        /\ Len(history') = N + (IF changed THEN 1 ELSE 0) /\ Len(author') = Len(history') - 1
        /\ \A i \in 1..N : history'[i] = history[i]
        /\ \A i \in 1..(N - 1) : author'[i] = author[i]
        /\ history'[Len(history')] = coord.candidate
        /\ changed => author'[N] = r
    <2>1. CASE changed
      <3>1. history' = Append(history, coord.candidate) /\ author' = Append(author, r)
        BY <1>4, <2>1
      <3> QED
        BY <1>2, <1>3, <2>1, <3>1
    <2>2. CASE ~changed
      BY <1>2, <1>3, <1>4, <2>2
    <2> QED
      BY <2>1, <2>2
  <1>10. TypeOK'
    <2>1. /\ app' \in [settings: Settings, revision: Nat, pending: BOOLEAN]
          /\ popup' \in [visible: BOOLEAN, base: Settings, value: Settings]
      <3>1. app \in [settings: Settings, revision: Nat, pending: BOOLEAN]
            /\ popup \in [visible: BOOLEAN, base: Settings, value: Settings]
        BY DEF SettingsInv, TypeOK
      <3>2. CASE refused
        BY <3>1, <3>2 DEF HandleFinalize
      <3>3. CASE ~refused
        <4>1. /\ app' = IF changed
                          THEN [settings |-> coord.candidate, pending |-> FALSE,
                                revision |-> Revision + 1]
                          ELSE [app EXCEPT !.pending = FALSE]
              /\ popup' = IF changed /\ popup.visible /\ ~Dirty
                            THEN Opened(coord.candidate) ELSE popup
          BY <3>3 DEF HandleFinalize
        <4>2. popup' \in [visible: BOOLEAN, base: Settings, value: Settings]
          BY <1>2, <3>1, <4>1 DEF Opened
        <4>3. Revision + 1 \in Nat
          BY <1>3
        <4>4. CASE changed
          <5>1. app' = [settings |-> coord.candidate, pending |-> FALSE,
                        revision |-> Revision + 1]
            BY <4>1, <4>4
          <5> QED
            BY <1>2, <4>2, <4>3, <5>1
        <4>5. CASE ~changed
          BY <3>1, <4>1, <4>2, <4>5
        <4> QED
          BY <4>4, <4>5
      <3> QED
        BY <3>2, <3>3
    <2>2. history' # <<>>
      BY <1>3, <1>9
    <2> QED
      BY <1>1, <1>4, <1>7, <1>8, <1>9, <2>1, <2>2, CoordinatorMoves
      DEF SettingsInv, TypeOK, Steps
  <1>11. Waiting'
    <2>1. queue \in Seq(Requests)
      BY DEF SettingsInv, TypeOK
    <2>2. \A i \in 1..Len(queue) : queue[i] \in Requests \ {r}
      BY <1>2, <2>1 DEF SettingsInv, Waiting
    <2> QED
      BY <1>1, <1>7, <2>2 DEF SettingsInv, Waiting
  <1>12. Executing' /\ CommitOnLatest'
    BY <1>2, <1>8 DEF Executing, CommitOnLatest, Executed, Derived, Admitted
  <1>13. Unanswered'
    BY <1>6, <1>7 DEF SettingsInv, Unanswered, UnderWay
  <1>14. TransactionOwned'
    <2>1. refused => author'[N] = tx' /\ N \in 1..Len(author')
      BY <1>1, <1>3, <1>4, <1>9
    <2> QED
      BY <1>4, <1>8, <2>1 DEF TransactionOwned, Stranded, Admitted
  <1>15. DiskMatchesLive'
    BY <1>1, <1>8, <1>9 DEF SettingsInv, DiskMatchesLive, Live, Revision
  <1>16. AnswersAreTrue' /\ AnswersNameCommits'
    <2>1. ASSUME NEW p \in Requests \ {r}, req[p].answer.ok
          PROVE  LET a == req[p].answer
                 IN  /\ a.revision \in 1..Len(history') /\ history'[a.revision] = a.settings
                     /\ a.changed => /\ author'[a.revision - 1] = p
                                     /\ a.revision - 1 \in 1..Len(author')
                     /\ IF p \in Saves THEN a.settings = req[p].want
                                       ELSE req[p].want \subseteq a.settings
      <3> DEFINE a == req[p].answer
      <3>1. /\ a.revision \in 1..N /\ history[a.revision] = a.settings
            /\ a.changed => author[a.revision - 1] = p /\ a.revision - 1 \in 1..(N - 1)
            /\ IF p \in Saves THEN a.settings = req[p].want
                              ELSE req[p].want \subseteq a.settings
        BY <1>3, <2>1 DEF SettingsInv, AnswersAreTrue, AnswersNameCommits
      <3>2. \A i \in 1..N : i \in 1..Len(history') /\ history'[i] = history[i]
        BY <1>3, <1>9
      <3>3. \A i \in 1..(N - 1) : i \in 1..Len(author') /\ author'[i] = author[i]
        BY <1>3, <1>9
      <3>4. a.revision \in 1..Len(history') /\ history'[a.revision] = a.settings
        BY <3>1, <3>2
      <3>5. a.changed => author'[a.revision - 1] = p /\ a.revision - 1 \in 1..Len(author')
        BY <3>1, <3>3
      <3> QED
        BY <3>1, <3>4, <3>5
    <2>2. ASSUME ~refused
          PROVE  /\ success.revision \in 1..Len(history')
                 /\ history'[success.revision] = success.settings
                 /\ success.changed => /\ author'[success.revision - 1] = r
                                       /\ success.revision - 1 \in 1..Len(author')
                 /\ IF r \in Saves THEN success.settings = req[r].want
                                   ELSE req[r].want \subseteq success.settings
      <3>1. /\ success.revision = Len(history') /\ success.settings = coord.candidate
            /\ success.changed = changed
        BY <1>2, <1>3, <1>9
      <3>2. changed => Len(history') - 1 = N /\ N \in 1..Len(author')
        BY <1>3, <1>9
      <3>3. IF r \in Saves THEN coord.candidate = req[r].want
                           ELSE req[r].want \subseteq coord.candidate
        BY <1>2 DEF Candidate
      <3>4. Len(history') \in 1..Len(history')
        BY <1>3, <1>9
      <3> HIDE DEF success, changed
      <3> QED
        BY <1>9, <3>1, <3>2, <3>3, <3>4
    <2>3. req'[r].answer.ok => ~refused /\ req'[r].answer = success
      BY <1>6, <1>7, FailedIsAnswer
    <2> HIDE DEF success, refused
    <2> QED
      BY <1>6, <1>7, <2>1, <2>2, <2>3 DEF AnswersAreTrue, AnswersNameCommits, Revision
  <1> QED
    BY <1>10, <1>11, <1>12, <1>13, <1>14, <1>15, <1>16 DEF SettingsInv

LEMMA ShutdownKeeps ==
  ASSUME SettingsInv, CloseIngress \/ Quit
  PROVE  SettingsInv'
  <1>1. TypeOK'
    BY DEF CloseIngress, Quit, liveVars, SettingsInv, TypeOK
  <1> QED
    BY <1>1, NothingMoves DEF CloseIngress, Quit, liveVars, committed

(***************************************************************************)
(* The invariant, and what it is for.                                      *)
(***************************************************************************)
LEMMA SettingsStep == SettingsInv /\ [Next]_vars => SettingsInv'
  <1> SUFFICES ASSUME SettingsInv, [Next]_vars
               PROVE  SettingsInv'
    OBVIOUS
  <1>1. CASE Coordinator
    BY <1>1, TakeKeeps, NoticeKeeps, GiveUpKeeps, WorkKeeps, ReplyKeeps, StopKeeps
    DEF Coordinator
  <1>2. CASE EventLoop
    BY <1>2, BeginKeeps, FinalizeKeeps, AbortKeeps, ShutdownKeeps DEF EventLoop
  <1>3. CASE UNCHANGED vars
    <2>1. TypeOK'
      BY <1>3 DEF vars, liveVars, SettingsInv, TypeOK
    <2> QED
      BY <1>3, <2>1, NothingMoves DEF vars, liveVars, committed
  <1> QED
    BY <1>1, <1>2, <1>3, PopupKeeps, ClientKeeps, EnqueueKeeps, ShutdownKeeps DEF Next

\* Types, and the invariant the proofs below rest on, hold at every step.
THEOREM SettingsInvariant == Spec => []SettingsInv
  BY SettingsInit, SettingsStep, PTL DEF Spec

\* For any number of clients and saves, any capacity of the queue and any
\* failures, cancellations and shutdown: what the coordinator commits was derived
\* from the settings that are live then, the file is what is live, and whoever
\* is told of a commit is told the truth.
THEOREM CommitsStayTrue == Spec => []CommitsAreTrue
  <1>1. SettingsInv => CommitsAreTrue
    BY DEF SettingsInv, CommitsAreTrue, TransactionsAreCurrent
  <1> QED
    BY <1>1, SettingsInvariant, PTL

(***************************************************************************)
(* The commits are those of a versioned register.  A client adds what it   *)
(* asked for, which is one option, so what a client asks is followed from  *)
(* its submission to the commit.                                           *)
(***************************************************************************)
Unasked == {"unused", "read"}
AsksOne == \A c \in Clients : req[c].at \notin Unasked => \E t \in Tags : req[c].want = {t}

LEMMA AskedOnce ==
  ASSUME SettingsInv, [Next]_vars, NEW c \in Clients, ~SubmitMutation(c)
  PROVE  /\ req'[c].want = req[c].want
         /\ req[c].at \in Unasked => req'[c].at \in Unasked
  <1>1. /\ c \in Requests /\ c \notin Saves
        /\ \A p \in Requests : req[p] \in RequestState
    BY SettingsAssumption DEF Requests, SettingsInv, TypeOK
  <1>2. ASSUME NEW r \in Requests, NEW q \in RequestState, req' = [req EXCEPT ![r] = q],
               r = c => q.want = req[c].want /\ (req[c].at \notin Unasked \/ q.at \in Unasked)
        PROVE  /\ req'[c].want = req[c].want
               /\ req[c].at \in Unasked => req'[c].at \in Unasked
    BY <1>1, <1>2, OneBecomes
  <1>3. CASE UNCHANGED req
    BY <1>3
  <1>4. ASSUME NEW r \in Requests, NEW answer \in Answer, req[r].at \notin Unasked,
               Answered(r, answer)
        PROVE  /\ req'[c].want = req[c].want
               /\ req[c].at \in Unasked => req'[c].at \in Unasked
    <2> DEFINE q == [req[r] EXCEPT !.at = "answered", !.answer = answer]
    <2>1. q \in RequestState /\ q.want = req[r].want
      BY <1>1 DEF RequestState
    <2>2. req' = [req EXCEPT ![r] = q]
      BY <1>4 DEF Answered
    <2> HIDE DEF q
    <2> QED
      BY <1>2, <1>4, <2>1, <2>2
  <1>5. ASSUME NEW s \in Saves, SaveKey(s) \/ Complete(s)
        PROVE  req'[c] = req[c]
    BY <1>1, <1>5 DEF SaveKey, Complete, SettingsInv, TypeOK
  <1>6. ASSUME NEW d \in Clients, ReadSettings(d) \/ SubmitMutation(d)
        PROVE  /\ req'[c].want = req[c].want
               /\ req[c].at \in Unasked => req'[c].at \in Unasked
    <2>1. CASE d # c
      <3>1. req'[c] = req[c]
        BY <1>1, <1>6, <2>1 DEF ReadSettings, SubmitMutation, SettingsInv, TypeOK
      <3> QED
        BY <3>1
    <2>2. CASE d = c
      <3> DEFINE q == [req[c] EXCEPT !.at = "read", !.expected = Revision]
      <3>1. req' = [req EXCEPT ![c] = q]
        BY <1>6, <2>2 DEF ReadSettings
      <3>2. Revision \in Nat
        BY DEF SettingsInv, TypeOK, Revision
      <3>3. q \in RequestState /\ q.want = req[c].want /\ q.at = "read"
        BY <1>1, <3>2 DEF RequestState
      <3> HIDE DEF q
      <3> QED
        BY <1>1, <1>2, <3>1, <3>3 DEF Unasked
    <2> QED
      BY <2>1, <2>2
  <1>7. ASSUME NEW r \in Requests, Enqueue(r)
        PROVE  /\ req'[c].want = req[c].want
               /\ req[c].at \in Unasked => req'[c].at \in Unasked
    <2> DEFINE q == [req[r] EXCEPT !.at = "queued"]
    <2>1. req[r].at = "submitting"
      BY <1>7 DEF Enqueue
    <2>2. CASE Answered(r, Failed)
      BY <1>4, <2>1, <2>2, FailedIsAnswer DEF Unasked
    <2>3. CASE req' = [req EXCEPT ![r].at = "queued"]
      <3>1. req' = [req EXCEPT ![r] = q] /\ q \in RequestState /\ q.want = req[r].want
        BY <1>1, <2>3 DEF RequestState
      <3> HIDE DEF q
      <3> QED
        BY <1>2, <2>1, <3>1 DEF Unasked
    <2> QED
      BY <1>7, <2>2, <2>3 DEF Enqueue
  <1>8. CASE Take
    <2> DEFINE r == Head(queue)
               q == [req[r] EXCEPT !.at = "active"]
    <2>1. r \in Requests /\ req[r].at = "queued"
      BY <1>8, SMTT(30) DEF Take, SettingsInv, TypeOK, Waiting
    <2>2. req' = [req EXCEPT ![r] = q] /\ q \in RequestState /\ q.want = req[r].want
      BY <1>1, <1>8, <2>1 DEF Take, RequestState
    <2> HIDE DEF q, r
    <2> QED
      BY <1>2, <2>1, <2>2 DEF Unasked
  <1>9. CASE GiveUpBegin \/ HandleBegin \/ HandleFinalize \/ HandleAbort
    <2>1. coord.at \in Executed
      BY <1>9 DEF GiveUpBegin, HandleBegin, HandleFinalize, HandleAbort, Serving, Executed,
                  Admitted
    <2>2. coord.r \in Requests /\ req[coord.r].at \notin Unasked
      BY <2>1 DEF SettingsInv, Executing, Executed, Admitted, Unasked
    <2>3. UNCHANGED req \/ \E answer \in Answer : Answered(coord.r, answer)
      <3>1. CASE GiveUpBegin \/ HandleBegin \/ HandleAbort
        BY <3>1, FailedIsAnswer DEF GiveUpBegin, HandleBegin, HandleAbort
      <3>2. CASE HandleFinalize
        <4> DEFINE changed == coord.candidate # coord.base
                   success == [ok |-> TRUE, changed |-> changed, settings |-> coord.candidate,
                               revision |-> coord.revision + (IF changed THEN 1 ELSE 0)]
        <4>1. Answered(coord.r, Failed) \/ Answered(coord.r, success)
          BY <3>2 DEF HandleFinalize
        <4>2. coord.revision \in Nat /\ coord.candidate \in Settings
          BY DEF SettingsInv, TypeOK
        <4>3. success \in Answer
          BY <4>2 DEF Answer
        <4> QED
          BY <4>1, <4>3, FailedIsAnswer
      <3> QED
        BY <1>9, <3>1, <3>2
    <2> QED
      BY <1>3, <1>4, <2>2, <2>3
  <1>10. CASE StopCoordinator
    <2>1. req'[c] = IF req[c].at = "queued" THEN [req[c] EXCEPT !.at = "answered"] ELSE req[c]
      BY <1>1, <1>10 DEF StopCoordinator
    <2> QED
      BY <1>1, <2>1 DEF RequestState, Unasked
  <1>11. CASE \/ OpenPopup \/ Edit \/ CloseKey \/ NoticeShutdown \/ Work \/ Reply \/ CloseIngress
              \/ Quit \/ UNCHANGED vars \/ \E d \in Clients : Cancel(d)
    <2>1. UNCHANGED req
      BY <1>11 DEF OpenPopup, Edit, CloseKey, NoticeShutdown, Work, Reply, CloseIngress, Quit, vars,
                   Cancel
    <2> QED
      BY <1>3, <2>1
  <1> QED
    BY <1>5, <1>6, <1>7, <1>8, <1>9, <1>10, <1>11 DEF Next, Coordinator, EventLoop

LEMMA AsksOneStep == SettingsInv /\ AsksOne /\ [Next]_vars => AsksOne'
  <1> SUFFICES ASSUME SettingsInv, AsksOne, [Next]_vars, NEW c \in Clients,
                      req'[c].at \notin Unasked
               PROVE  \E t \in Tags : req'[c].want = {t}
    BY DEF AsksOne
  <1>1. CASE SubmitMutation(c)
    <2>1. PICK t \in Tags : req' = [req EXCEPT ![c].at = "submitting", ![c].want = {t}]
      BY <1>1 DEF SubmitMutation
    <2>2. c \in Requests /\ req[c] \in RequestState
      BY DEF Requests, SettingsInv, TypeOK
    <2>3. req'[c].want = {t}
      BY <2>1, <2>2 DEF SettingsInv, TypeOK, RequestState
    <2> QED
      BY <2>3
  <1>2. CASE ~SubmitMutation(c)
    BY <1>2, AskedOnce DEF AsksOne
  <1> QED
    BY <1>1, <1>2

LEMMA AsksOneInit == Init => AsksOne
  BY DEF Init, AsksOne, Unasked, Requests

\* Only Finalize of a change extends the history, with the candidate.
LEMMA HistoryGrowsBy ==
  ASSUME SettingsInv, [Next]_vars, history' # history
  PROVE  HandleFinalize /\ history' = Append(history, coord.candidate)
  BY DEF Next, vars, liveVars, OpenPopup, Edit, CloseKey, Keys, SaveKey, Complete, ReadSettings,
         SubmitMutation, Cancel, Enqueue, Submitting, Coordinator, EventLoop, Coordinating, Take,
         NoticeShutdown, GiveUpBegin, Work, Reply, StopCoordinator, HandleBegin, HandleFinalize,
         HandleAbort, CloseIngress, Quit

\* For any constants: the live settings are a versioned register.  A commit of
\* the popup replaces them by what it saved; a commit of a client adds the one
\* option it asked for to the very revision it had read.
THEOREM CommitsImplementRegister == Spec => CommitsAreVersioned
  <1>1. Init => Register!registerInit(Loaded)
    BY DEF Init, Register!registerInit
  <1>2. ASSUME SettingsInv, AsksOne, [Next]_vars
        PROVE  [Register!registerNext(coord.r \in Saves)]_history
    <2> SUFFICES ASSUME history' # history
                 PROVE  Register!registerNext(coord.r \in Saves)
      OBVIOUS
    <2>1. HandleFinalize /\ history' = Append(history, coord.candidate)
      BY <1>2, HistoryGrowsBy
    <2>2. /\ coord.at = "finalize" /\ coord.candidate \in Settings /\ coord.r \in Requests
          /\ coord.candidate = Candidate(coord.r, coord.base)
          /\ req[coord.r].at = "active"
          /\ coord.base = Live
          /\ coord.r \in Clients => req[coord.r].expected = Revision
      BY <1>2, <2>1 DEF HandleFinalize, Serving, SettingsInv, TypeOK, Executing, Executed, Derived,
                        Admitted, CommitOnLatest
    <2>3. CASE coord.r \in Saves
      BY <2>1, <2>2, <2>3 DEF Register!registerNext, Register!Replace, Settings
    <2>4. CASE coord.r \notin Saves
      <3>1. coord.r \in Clients
        BY <2>2, <2>4 DEF Requests
      <3>2. PICK t \in Tags : req[coord.r].want = {t}
        BY <1>2, <2>2, <3>1 DEF AsksOne, Unasked
      <3>3. coord.candidate = history[Len(history)] \union {t}
        BY <2>2, <2>4, <3>2 DEF Candidate, Live, Revision
      <3>4. Register!Mutate(coord.r)
        BY <2>1, <2>2, <3>1, <3>3 DEF Register!Mutate, Register!Latest, Revision
      <3> QED
        BY <2>4, <3>1, <3>4 DEF Register!registerNext
    <2> QED
      BY <2>3, <2>4
  <1> QED
    BY <1>1, <1>2, SettingsInvariant, AsksOneInit, AsksOneStep, PTL DEF Spec, CommitsAreVersioned
=============================================================================
