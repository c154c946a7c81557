------------------------- MODULE ControlCalls_proofs -------------------------
(***************************************************************************)
(* Proofs about ControlCalls and InstanceSelection: for any number of      *)
(* calls, sessions, permits and disturbances the caller, the audit and the *)
(* settings agree on what happened to a call; and for any instances that   *)
(* come, fail and go, a call reaches whom it means.                        *)
(***************************************************************************)
EXTENDS InstanceSelection, TLAPS, FiniteSetTheorems, WellFoundedInduction

CallStages == Handling \cup {"unsent", "buffered", "done", "over"}
ServerStages == Tasks \cup {"none", "backlog", "ended", "aborted"}
WorkStages == {"none", "queued", "begun", "ok", "conflict", "cancelled", "dropped"}
Final == {"ok", "conflict", "cancelled"}
Outcomes == {None} \cup Final \cup {"deadline"}
Answers == Outcomes \cup {"refused", "truncated"}
MutationRecord == [call: Calls, success: BOOLEAN, revision: Nat]

Types ==
  /\ kind \in [Calls -> Kinds] /\ session \in [Calls -> Sessions]
  /\ buffered \in [Sessions -> Calls \cup {None}]
  /\ call \in [Calls -> CallStages] /\ answer \in [Calls -> Answers]
  /\ server \in [Calls -> ServerStages] /\ work \in [Calls -> WorkStages]
  /\ outcome \in [Calls -> Outcomes]
  /\ history \in Seq(Calls) /\ recording \subseteq Calls
  /\ audit \in Seq(MutationRecord) /\ reads.calls \in Nat

(***************************************************************************)
(* A call is at most at one side's disposal: until the broker awaits it,   *)
(* the server has not seen it, and what the server returns for a mutation  *)
(* is what the operation came to, which nothing changes any more.          *)
(***************************************************************************)
Pre == {"admitting", "validating", "converting", "resolving", "connecting"}
Waiting == {"none", "backlog", "leasing", "parsing"}
Replying == {"responding", "serializing", "writing"}
AtWork == {"running", "draining"} \cup Replying

Mutates(c) == kind[c] # "read"
Done(c) == server[c] = "ended" /\ work[c] # "none"

NotYetSent(c) ==
  /\ call[c] \in Pre \cup {"unsent", "buffered"} => server[c] = "none"
  /\ answer[c] = "refused" => server[c] = "none"
  /\ answer[c] # None => call[c] \in {"done", "over"}

ServedInOrder(c) ==
  /\ server[c] \in Waiting => work[c] = "none"
  /\ server[c] \in AtWork => work[c] # "none"
  /\ Mutates(c) /\ (server[c] \in Replying \/ Done(c))
       => outcome[c] = work[c] /\ work[c] \in Final

ToldAsItWas(c) ==
  Mutates(c) => /\ answer[c] = "ok" => work[c] = "ok"
                /\ answer[c] = "conflict" => work[c] = "conflict"

AppliedAsItWas(c) ==
  /\ c \in Range(history) => kind[c] = "mapping" /\ work[c] = "ok"
  /\ c \in recording => kind[c] = "record" /\ work[c] = "ok"
  /\ Mutates(c) /\ work[c] = "ok" => c \in Range(history) \cup recording

CallSound(c) ==
  NotYetSent(c) /\ ServedInOrder(c) /\ ToldAsItWas(c) /\ AppliedAsItWas(c)

BufferSound ==
  \A s \in Sessions :
    buffered[s] # None => call[buffered[s]] = "buffered" /\ session[buffered[s]] = s

(***************************************************************************)
(* The audit: the mutations that have ended are in the ring, each once, or *)
(* as many of them as it holds.                                            *)
(***************************************************************************)
EndedMutations == {c \in Mutations : Done(c)}
EndedReads == {c \in Calls \ Mutations : Done(c)}

RecordSound(r) ==
  LET c == r.call
  IN  /\ Mutates(c) /\ Done(c) /\ r.success = (work[c] = "ok")
      /\ kind[c] = "mapping" /\ r.success
           => r.revision \in DOMAIN history /\ history[r.revision] = c

RingIsFull ==
  Len(audit) = IF Cardinality(EndedMutations) <= AuditRecords
               THEN Cardinality(EndedMutations) ELSE AuditRecords

NoneIsLost ==
  Cardinality(EndedMutations) <= AuditRecords =>
    \A c \in EndedMutations : \E i \in DOMAIN audit : audit[i].call = c

AuditSound ==
  /\ \A i \in DOMAIN audit : RecordSound(audit[i])
  /\ \A i, j \in DOMAIN audit : audit[i].call = audit[j].call => i = j
  /\ RingIsFull /\ NoneIsLost
  /\ reads.calls = Cardinality(EndedReads)

ControlInv ==
  /\ Types /\ BufferSound /\ (\A c \in Calls : CallSound(c))
  /\ IsInjective(history) /\ AuditSound

(***************************************************************************)
(* What a step may do: to one call what keeps it sound, to the others      *)
(* nothing but the end of a session, to the audit one record of a call     *)
(* that has just ended.                                                    *)
(***************************************************************************)
Same(d) ==
  /\ call'[d] = call[d] \/ (call[d] \in {"buffered", "done"} /\ call'[d] = "over")
  /\ answer'[d] = answer[d] /\ server'[d] = server[d]
  /\ work'[d] = work[d] /\ outcome'[d] = outcome[d]
  /\ (d \in Range(history')) = (d \in Range(history))
  /\ (d \in recording') = (d \in recording)

Settled(c) == Mutates(c) /\ Done(c) => work'[c] = work[c]

Quiet == UNCHANGED auditVars /\ \A c \in Calls : Settled(c) /\ Done(c)' = Done(c)

Recorded(c) ==
  /\ ~Done(c) /\ Done(c)' /\ \A d \in Calls : Settled(d)
  /\ \A d \in Calls : d # c => Done(d)' = Done(d)
  /\ history' = history
  /\ IF kind[c] = "read"
     THEN audit' = audit /\ reads'.calls = reads.calls + 1
     ELSE /\ reads' = reads /\ work'[c] = work[c]
          /\ audit' = Appended([call |-> c, success |-> work[c] = "ok",
                               revision |-> IF work[c] = "ok" THEN ResultRevision(c)
                                                              ELSE 0])

Grows == \/ history' = history
         \/ \E c \in Calls : history' = Append(history, c) /\ c \notin Range(history)

Advance ==
  /\ Types' /\ BufferSound' /\ (\A c \in Calls : CallSound(c)')
  /\ UNCHANGED kind /\ Grows
  /\ Quiet \/ \E c \in Calls : Recorded(c)

LEMMA SameIsSound ==
  ASSUME UNCHANGED kind, NEW d, CallSound(d), Same(d)
  PROVE  CallSound(d)' /\ Settled(d) /\ Done(d)' = Done(d)
BY DEF CallSound, NotYetSent, ServedInOrder, ToldAsItWas, AppliedAsItWas, Same,
       Settled, Done, Mutates, Pre, Handling

LEMMA BufferStays ==
  ASSUME Types, BufferSound, UNCHANGED <<buffered, session>>,
         \A d \in Calls : call[d] = "buffered" => call'[d] = "buffered"
  PROVE  BufferSound'
BY DEF BufferSound, Types

\* A step of one call that says nothing to the audit.
LEMMA OneCallAdvances ==
  ASSUME ControlInv, NEW c \in Calls, Types', BufferSound', UNCHANGED <<kind, auditVars>>,
         \A d \in Calls : d # c => Same(d),
         CallSound(c)', Grows, Settled(c), Done(c)' = Done(c)
  PROVE  Advance
<1>1. \A d \in Calls : CallSound(d)' /\ Settled(d) /\ Done(d)' = Done(d)
  BY SameIsSound DEF ControlInv
<1> QED
  BY <1>1 DEF Advance, Quiet

\* A step of one call that ends it and is recorded.
LEMMA OneCallIsRecorded ==
  ASSUME ControlInv, NEW c \in Calls, Types', BufferSound', UNCHANGED <<kind, history>>,
         \A d \in Calls : d # c => Same(d),
         CallSound(c)', ~Done(c), Done(c)',
         IF kind[c] = "read"
         THEN audit' = audit /\ reads'.calls = reads.calls + 1
         ELSE /\ reads' = reads /\ work'[c] = work[c]
              /\ audit' = Appended([call |-> c, success |-> work[c] = "ok",
                                   revision |-> IF work[c] = "ok" THEN ResultRevision(c)
                                                                  ELSE 0])
  PROVE  Advance
<1>1. \A d \in Calls : d # c => CallSound(d)' /\ Settled(d) /\ Done(d)' = Done(d)
  BY SameIsSound DEF ControlInv
<1>2. Settled(c)
  BY DEF Settled
<1>3. Recorded(c)
  BY <1>1, <1>2 DEF Recorded
<1> QED
  BY <1>1, <1>3 DEF Advance, Grows

(***************************************************************************)
(* The stdio session and the broker.                                       *)
(***************************************************************************)
ServerSide == <<server, work, outcome, history, recording, auditVars>>

LEMMA ServerSideStays ==
  ASSUME ControlInv, UNCHANGED ServerSide, NEW d \in Calls,
         call'[d] = call[d] \/ (call[d] \in {"buffered", "done"} /\ call'[d] = "over"),
         answer'[d] = answer[d]
  PROVE  Same(d)
BY DEF Same, ServerSide

\* A session step: calls move to "over", or one moves on.
LEMMA SessionAdvances ==
  ASSUME ControlInv, NEW c \in Calls, UNCHANGED <<kind, session, answer, ServerSide>>,
         BufferSound', buffered' \in [Sessions -> Calls \cup {None}],
         call' \in [Calls -> CallStages],
         \A d \in Calls : d # c =>
           call'[d] = call[d] \/ (call[d] \in {"buffered", "done"} /\ call'[d] = "over"),
         \/ call'[c] = call[c] \/ (call[c] \in {"buffered", "done"} /\ call'[c] = "over")
         \/ call[c] \in {"unsent", "buffered"} /\ call'[c] \in {"admitting", "buffered"}
  PROVE  Advance
<1>1. Types'
  BY DEF ControlInv, Types, ServerSide, auditVars
<1>2. /\ UNCHANGED auditVars /\ Grows /\ Settled(c) /\ Done(c)' = Done(c)
      /\ \A d \in Calls : d # c => Same(d)
  BY ServerSideStays DEF ServerSide, Grows, Settled, Done
<1>3. CallSound(c)'
  BY DEF ControlInv, CallSound, NotYetSent, ServedInOrder, ToldAsItWas, AppliedAsItWas,
         Done, Mutates, ServerSide, Pre
<1> QED
  BY <1>1, <1>2, <1>3, OneCallAdvances

LEMMA SessionSide ==
  ASSUME Session
  PROVE  UNCHANGED <<kind, session, answer, ServerSide>>
BY DEF Session, ServerSide, serverVars, auditVars

LEMMA CloseIsSound ==
  ASSUME Types, BufferSound, UNCHANGED session, NEW s \in Sessions, Close(s)
  PROVE  /\ BufferSound' /\ buffered' \in [Sessions -> Calls \cup {None}]
         /\ call' \in [Calls -> CallStages]
         /\ \A d \in Calls : call'[d] = call[d]
              \/ (call[d] \in {"buffered", "done"} /\ call'[d] = "over")
<1>1. /\ buffered' \in [Sessions -> Calls \cup {None}]
      /\ buffered'[s] = None /\ \A t \in Sessions : t # s => buffered'[t] = buffered[t]
  BY DEF Types, Close
<1>2. \A d \in Calls : call'[d] = IF session[d] = s /\ call[d] \in {"buffered", "done"}
                                  THEN "over" ELSE call[d]
  BY DEF Close
<1>3. call' \in [Calls -> CallStages]
  BY DEF Types, Close, CallStages
<1>4. ASSUME NEW t \in Sessions, buffered'[t] # None
      PROVE  call'[buffered'[t]] = "buffered" /\ session'[buffered'[t]] = t
  <2>1. /\ t # s /\ buffered'[t] = buffered[t] /\ buffered[t] \in Calls
        /\ call[buffered[t]] = "buffered" /\ session[buffered[t]] = t
    BY <1>1, <1>4 DEF BufferSound, Types
  <2> QED BY <1>2, <2>1
<1> QED
  BY <1>1, <1>2, <1>3, <1>4 DEF BufferSound

LEMMA StageSets ==
  ASSUME Types, NEW c \in Calls, NEW k \in CallStages, Stage(c, k)
  PROVE  /\ call' \in [Calls -> CallStages] /\ call'[c] = k
         /\ \A d \in Calls : d # c => call'[d] = call[d]
BY DEF Types, Stage

LEMMA ReceiveAdvances ==
  ASSUME ControlInv, NEW c \in Calls, Receive(c)
  PROVE  Advance
<1>1. UNCHANGED <<kind, session, answer, ServerSide>>
  BY SessionSide DEF Receive
<1>2. PICK s \in Sessions : s = session[c]
  BY DEF ControlInv, Types
<1>3. call[c] = "unsent" /\ Types /\ BufferSound /\ c # None
  BY ControlAssumption DEF Receive, ControlInv
<1>4. CASE Stage(c, "admitting") /\ UNCHANGED buffered
  <2>1. /\ call' \in [Calls -> CallStages] /\ call'[c] = "admitting"
        /\ \A d \in Calls : d # c => call'[d] = call[d]
    BY <1>3, <1>4, StageSets DEF CallStages, Handling
  <2>2. BufferSound'
    BY <1>1, <1>3, <1>4, <2>1, BufferStays
  <2>3. buffered' \in [Sessions -> Calls \cup {None}]
    BY <1>3, <1>4 DEF Types
  <2> QED
    BY <1>1, <1>3, <2>1, <2>2, <2>3, SessionAdvances
<1>5. CASE Stage(c, "buffered") /\ buffered[s] = None
             /\ buffered' = [buffered EXCEPT ![s] = c]
  <2>1. /\ call' \in [Calls -> CallStages] /\ call'[c] = "buffered"
        /\ \A d \in Calls : d # c => call'[d] = call[d]
    BY <1>3, <1>5, StageSets DEF CallStages
  <2>2. /\ buffered' \in [Sessions -> Calls \cup {None}] /\ buffered'[s] = c
        /\ \A t \in Sessions : t # s => buffered'[t] = buffered[t]
    BY <1>3, <1>5 DEF Types
  <2>3. ASSUME NEW t \in Sessions, buffered'[t] # None
        PROVE  call'[buffered'[t]] = "buffered" /\ session'[buffered'[t]] = t
    <3>1. CASE t = s
      BY <1>1, <1>2, <2>1, <2>2, <3>1
    <3>2. CASE t # s
      <4>1. /\ buffered'[t] = buffered[t] /\ buffered[t] \in Calls
            /\ call[buffered[t]] = "buffered" /\ session[buffered[t]] = t
        BY <1>3, <2>2, <2>3, <3>2 DEF BufferSound, Types
      <4> QED BY <1>1, <2>1, <4>1
    <3> QED BY <3>1, <3>2
  <2>4. BufferSound'
    BY <2>3 DEF BufferSound
  <2> QED
    BY <1>1, <1>3, <2>1, <2>2, <2>4, SessionAdvances
<1>6. CASE Close(s)
  BY <1>1, <1>3, <1>6, CloseIsSound, SessionAdvances
<1> QED
  BY <1>2, <1>4, <1>5, <1>6 DEF Receive

LEMMA AdmitBufferedAdvances ==
  ASSUME ControlInv, NEW s \in Sessions, AdmitBuffered(s)
  PROVE  Advance
<1>1. UNCHANGED <<kind, session, answer, ServerSide>>
  BY SessionSide DEF AdmitBuffered
<1>2. PICK c \in Calls : c = buffered[s] /\ call[c] = "buffered" /\ session[c] = s
  BY DEF ControlInv, Types, AdmitBuffered, BufferSound
<1>3. Stage(c, "admitting") /\ Types /\ BufferSound
  BY <1>2 DEF AdmitBuffered, ControlInv
<1>4. /\ call' \in [Calls -> CallStages] /\ call'[c] = "admitting"
      /\ \A d \in Calls : d # c => call'[d] = call[d]
  BY <1>3, StageSets DEF CallStages, Handling
<1>5. /\ buffered' \in [Sessions -> Calls \cup {None}] /\ buffered'[s] = None
      /\ \A t \in Sessions : t # s => buffered'[t] = buffered[t]
  BY <1>3 DEF Types, AdmitBuffered
<1>6. ASSUME NEW t \in Sessions, buffered'[t] # None
      PROVE  call'[buffered'[t]] = "buffered" /\ session'[buffered'[t]] = t
  <2>1. /\ t # s /\ buffered'[t] = buffered[t] /\ buffered[t] \in Calls
        /\ call[buffered[t]] = "buffered" /\ session[buffered[t]] = t
    BY <1>3, <1>5, <1>6 DEF BufferSound, Types
  <2> QED BY <1>1, <1>2, <1>4, <2>1
<1>7. BufferSound'
  BY <1>6 DEF BufferSound
<1> QED
  BY <1>1, <1>2, <1>4, <1>5, <1>7, SessionAdvances

LEMMA CancelAdvances ==
  ASSUME ControlInv, NEW c \in Calls, CancelNotification(c)
  PROVE  Advance
<1>1. UNCHANGED <<kind, session, answer, ServerSide>>
  BY SessionSide DEF CancelNotification
<1>2. PICK s \in Sessions : s = session[c]
  BY DEF ControlInv, Types
<1>3. Types /\ BufferSound
  BY DEF ControlInv
<1>4. CASE /\ call[c] \in Handling \cup {"done"} /\ Stage(c, MarkCancelled(c))
           /\ UNCHANGED buffered
  <2>1. PICK k \in CallStages : k = MarkCancelled(c)
    BY <1>4 DEF MarkCancelled, CallStages
  <2>2. /\ call' \in [Calls -> CallStages] /\ call'[c] = k
        /\ \A d \in Calls : d # c => call'[d] = call[d]
    BY <1>3, <1>4, <2>1, StageSets
  <2>3. call'[c] = call[c] \/ (call[c] = "done" /\ call'[c] = "over")
    BY <2>1, <2>2 DEF MarkCancelled
  <2>4. call[c] # "buffered"
    BY <1>4 DEF Handling
  <2>5. BufferSound'
    BY <1>1, <1>3, <1>4, <2>2, <2>4, BufferStays
  <2>6. buffered' \in [Sessions -> Calls \cup {None}]
    BY <1>3, <1>4 DEF Types
  <2> QED
    BY <1>1, <2>2, <2>3, <2>5, <2>6, SessionAdvances
<1>5. CASE /\ call[c] = "buffered" /\ Stage(c, "over")
           /\ buffered' = [buffered EXCEPT ![s] = None]
  <2>1. /\ call' \in [Calls -> CallStages] /\ call'[c] = "over"
        /\ \A d \in Calls : d # c => call'[d] = call[d]
    BY <1>3, <1>5, StageSets DEF CallStages
  <2>2. /\ buffered' \in [Sessions -> Calls \cup {None}] /\ buffered'[s] = None
        /\ \A t \in Sessions : t # s => buffered'[t] = buffered[t]
    BY <1>3, <1>5 DEF Types
  <2>3. ASSUME NEW t \in Sessions, buffered'[t] # None
        PROVE  call'[buffered'[t]] = "buffered" /\ session'[buffered'[t]] = t
    <3>1. /\ t # s /\ buffered'[t] = buffered[t] /\ buffered[t] \in Calls
          /\ call[buffered[t]] = "buffered" /\ session[buffered[t]] = t
      BY <1>3, <2>2, <2>3 DEF BufferSound, Types
    <3> QED BY <1>1, <1>2, <2>1, <3>1
  <2>4. BufferSound'
    BY <2>3 DEF BufferSound
  <2> QED
    BY <1>1, <1>5, <2>1, <2>2, <2>4, SessionAdvances
<1> QED
  BY <1>2, <1>4, <1>5 DEF CancelNotification

LEMMA DisconnectAdvances ==
  ASSUME ControlInv, NEW s \in Sessions, Disconnect(s)
  PROVE  Advance
<1>1. UNCHANGED <<kind, session, answer, ServerSide>>
  BY SessionSide DEF Disconnect
<1>2. Types /\ BufferSound /\ Close(s)
  BY DEF ControlInv, Disconnect
<1>3. \A d \in Calls : Same(d)
  BY <1>1, <1>2, CloseIsSound, ServerSideStays
<1>4. \A d \in Calls : CallSound(d)' /\ Settled(d) /\ Done(d)' = Done(d)
  BY <1>1, <1>3, SameIsSound DEF ControlInv
<1>5. BufferSound' /\ Types'
  BY <1>1, <1>2, CloseIsSound DEF Types, ServerSide, auditVars
<1> QED
  BY <1>1, <1>4, <1>5 DEF Advance, Quiet, Grows, ServerSide

\* A step of the broker's handler: on to another stage, or an answer that says
\* nothing of success, and "refused" only before the request is sent.
BrokerMoves(c) ==
  /\ UNCHANGED <<kind, session, buffered, ServerSide>>
  /\ \/ UNCHANGED <<call, answer>>
     \/ /\ call[c] \in Pre /\ UNCHANGED answer /\ \E k \in Pre : Stage(c, k)
     \/ /\ call[c] \in Handling
        /\ \/ \E a \in {"cancelled", "deadline", "truncated"} : Answer(c, a)
           \/ call[c] \in Pre /\ Answer(c, "refused")
     \/ call[c] = "done" /\ UNCHANGED answer /\ Stage(c, "over")

LEMMA AnswerSets ==
  ASSUME Types, NEW c \in Calls, NEW a \in Answers, Answer(c, a)
  PROVE  /\ call' \in [Calls -> CallStages] /\ call'[c] \in {"done", "over"}
         /\ answer' \in [Calls -> Answers] /\ answer'[c] = a
         /\ \A d \in Calls : d # c => call'[d] = call[d] /\ answer'[d] = answer[d]
<1>1. PICK k \in CallStages : k = HandlerDone(c) /\ k \in {"done", "over"}
  BY DEF HandlerDone, CallStages
<1>2. Stage(c, k) /\ answer' = [answer EXCEPT ![c] = a]
  BY <1>1 DEF Answer
<1> QED
  BY <1>1, <1>2, StageSets DEF Types

LEMMA BrokerAdvances ==
  ASSUME ControlInv, NEW c \in Calls, BrokerMoves(c)
  PROVE  Advance
<1>1. Types /\ BufferSound /\ CallSound(c)
  BY DEF ControlInv
<1>2. UNCHANGED <<kind, session, buffered, ServerSide>>
  BY DEF BrokerMoves
<1>3. /\ call' \in [Calls -> CallStages] /\ answer' \in [Calls -> Answers]
      /\ \A d \in Calls : d # c => call'[d] = call[d] /\ answer'[d] = answer[d]
      /\ \/ call'[c] = call[c] /\ answer'[c] = answer[c]
         \/ call[c] \in Pre /\ call'[c] \in Pre /\ answer'[c] = answer[c]
         \/ /\ call[c] \in Handling /\ call'[c] \in {"done", "over"}
            /\ \/ answer'[c] \in {"cancelled", "deadline", "truncated"}
               \/ call[c] \in Pre /\ answer'[c] = "refused"
         \/ call[c] = "done" /\ call'[c] = "over" /\ answer'[c] = answer[c]
  <2>1. CASE UNCHANGED <<call, answer>>
    BY <1>1, <2>1 DEF Types
  <2>2. CASE call[c] \in Pre /\ UNCHANGED answer /\ \E k \in Pre : Stage(c, k)
    BY <1>1, <2>2, StageSets DEF Types, Pre, CallStages, Handling
  <2>3. CASE /\ call[c] \in Handling
             /\ \/ \E a \in {"cancelled", "deadline", "truncated"} : Answer(c, a)
                \/ call[c] \in Pre /\ Answer(c, "refused")
    <3>1. {"cancelled", "deadline", "truncated", "refused"} \subseteq Answers
      BY DEF Answers, Outcomes, Final
    <3> QED BY <1>1, <2>3, <3>1, AnswerSets
  <2>4. CASE call[c] = "done" /\ UNCHANGED answer /\ Stage(c, "over")
    BY <1>1, <2>4, StageSets DEF Types, CallStages
  <2> QED BY <2>1, <2>2, <2>3, <2>4 DEF BrokerMoves
<1>4. Types'
  BY <1>1, <1>2, <1>3 DEF Types, ServerSide, auditVars
<1>5. BufferSound'
  <2>1. \A d \in Calls : call[d] = "buffered" => call'[d] = "buffered"
    BY <1>3 DEF Pre, Handling
  <2> QED BY <1>1, <1>2, <2>1, BufferStays
<1>6. /\ UNCHANGED auditVars /\ Grows /\ Settled(c) /\ Done(c)' = Done(c)
      /\ \A d \in Calls : d # c => Same(d)
  BY <1>2, <1>3, ServerSideStays DEF ServerSide, Grows, Settled, Done
<1>7. CallSound(c)'
  <2>1. /\ server'[c] = server[c] /\ work'[c] = work[c] /\ outcome'[c] = outcome[c]
        /\ history' = history /\ recording' = recording /\ kind' = kind
    BY <1>2 DEF ServerSide
  <2>2. NotYetSent(c)'
    BY <1>1, <1>3, <2>1, ControlAssumption DEF CallSound, NotYetSent, Pre, Handling
  <2>3. ToldAsItWas(c)'
    BY <1>1, <1>3, <2>1 DEF CallSound, ToldAsItWas, Mutates
  <2> QED
    BY <1>1, <2>1, <2>2, <2>3
    DEF CallSound, ServedInOrder, AppliedAsItWas, Done, Mutates
<1> QED
  BY <1>2, <1>4, <1>5, <1>6, <1>7, OneCallAdvances

LEMMA WorkerMoves ==
  ASSUME NEW c \in Calls, NEW w, NEW stage \in Pre, NEW next \in Pre, NEW succeeds,
         WorkerEnds(c, w, stage, next, succeeds)
  PROVE  BrokerMoves(c)
BY DEF WorkerEnds, BrokerMoves, BrokerOnly, Broker, ServerSide, clientVars, serverVars,
       stateVars, Pre, Handling

LEMMA HandlerAdvances ==
  ASSUME ControlInv, NEW c \in Calls,
         \/ Sent(c) \/ TryAdmitPublicCall(c) \/ StartWorker(c) \/ Validated(c)
         \/ Converted(c) \/ Resolved(c) \/ GiveUp(c) \/ ConnectionLost(c)
  PROVE  Advance
<1> USE DEF BrokerMoves, BrokerOnly, Broker, ServerSide, clientVars, serverVars, stateVars,
            Pre, Handling
<1>1. CASE Sent(c)
  BY <1>1, BrokerAdvances DEF Sent, Session
<1>2. CASE TryAdmitPublicCall(c)
  <2>1. FirstStage[kind[c]] \in Pre
    BY DEF FirstStage, ControlInv, Types, Kinds
  <2>2. BrokerMoves(c)
    BY <1>2, <2>1 DEF TryAdmitPublicCall
  <2> QED BY <2>2, BrokerAdvances
<1>3. CASE StartWorker(c)
  BY <1>3, BrokerAdvances DEF StartWorker
<1>4. CASE Validated(c) \/ Converted(c)
  <2> HIDE DEF BrokerMoves
  <2>1. BrokerMoves(c)
    BY <1>4, WorkerMoves DEF Validated, Converted
  <2> QED BY <2>1, BrokerAdvances
<1>5. CASE Resolved(c)
  BY <1>5, BrokerAdvances DEF Resolved, WorkerEnds
<1>6. CASE GiveUp(c)
  BY <1>6, BrokerAdvances DEF GiveUp
<1>7. CASE ConnectionLost(c)
  BY <1>7, BrokerAdvances DEF ConnectionLost, AfterTruncation
<1> QED
  BY <1>1, <1>2, <1>3, <1>4, <1>5, <1>6, <1>7

LEMMA ConnectAdvances ==
  ASSUME ControlInv, NEW c \in Calls, Connect(c)
  PROVE  Advance
<1>1. call[c] = "connecting" /\ Types /\ BufferSound /\ CallSound(c)
  BY DEF Connect, ControlInv
<1>2. CASE ~serving
  <2>1. BrokerMoves(c)
    BY <1>1, <1>2 DEF Connect, BrokerMoves, Broker, ServerSide, clientVars, stateVars,
                      Pre, Handling
  <2> QED BY <2>1, BrokerAdvances
<1>3. CASE serving
  <2>1. /\ UNCHANGED <<kind, session, buffered, answer, work, outcome, history,
                       recording, auditVars>>
        /\ Stage(c, "awaiting") /\ server' = [server EXCEPT ![c] = "backlog"]
    BY <1>3 DEF Connect, Broker, clientVars, stateVars
  <2>2. /\ call' \in [Calls -> CallStages] /\ call'[c] = "awaiting"
        /\ server' \in [Calls -> ServerStages] /\ server'[c] = "backlog"
        /\ \A d \in Calls : d # c => call'[d] = call[d] /\ server'[d] = server[d]
    BY <1>1, <2>1, StageSets DEF Types, CallStages, Handling, ServerStages
  <2>3. Types'
    BY <1>1, <2>1, <2>2 DEF Types, auditVars
  <2>4. BufferSound'
    BY <1>1, <2>1, <2>2, BufferStays
  <2>5. server[c] = "none" /\ work[c] = "none" /\ answer[c] = None
    BY <1>1 DEF CallSound, NotYetSent, ServedInOrder, Pre, Waiting
  <2>6. /\ Settled(c) /\ Done(c)' = Done(c) /\ Grows
        /\ \A d \in Calls : d # c => Same(d)
    BY <2>1, <2>2, <2>5 DEF Settled, Done, Grows, Same
  <2>7. CallSound(c)'
    BY <1>1, <2>1, <2>2, <2>5, ControlAssumption
    DEF CallSound, NotYetSent, ServedInOrder, ToldAsItWas, AppliedAsItWas, Done, Mutates,
        Pre, Waiting, AtWork, Replying
  <2> QED
    BY <2>1, <2>3, <2>4, <2>6, <2>7, OneCallAdvances
<1> QED
  BY <1>2, <1>3

(***************************************************************************)
(* The server.                                                             *)
(***************************************************************************)
\* The call's own variables on the server's side after a step.
ServerSets(c, at, now, came) ==
  /\ at \in ServerStages /\ now \in WorkStages /\ came \in Outcomes
  /\ server' = [server EXCEPT ![c] = at]
  /\ work' = [work EXCEPT ![c] = now]
  /\ outcome' = [outcome EXCEPT ![c] = came]

CallerSide == <<kind, session, buffered, call, answer>>

\* What becomes of the soundness of the call, in the terms of its variables.
Follows(c, at, now, came) ==
  /\ at \in Waiting => now = "none"
  /\ at \in AtWork => now # "none"
  /\ at = "none" => server[c] = "none"
  /\ Mutates(c) /\ (at \in Replying \/ (at = "ended" /\ now # "none"))
       => came = now /\ now \in Final
  /\ now = work[c] \/ (work[c] \notin Final /\ now # "ok")
                   \/ ~Mutates(c)
  /\ server[c] # "none"

LEMMA ServerSetsIt ==
  ASSUME Types, NEW c \in Calls, NEW at, NEW now, NEW came, ServerSets(c, at, now, came)
  PROVE  /\ server' \in [Calls -> ServerStages] /\ work' \in [Calls -> WorkStages]
         /\ outcome' \in [Calls -> Outcomes]
         /\ server'[c] = at /\ work'[c] = now /\ outcome'[c] = came
         /\ \A d \in Calls : d # c => /\ server'[d] = server[d] /\ work'[d] = work[d]
                                    /\ outcome'[d] = outcome[d]
BY DEF Types, ServerSets

\* A step of the server that leaves the operation's effects as they are.
LEMMA ServerSound ==
  ASSUME ControlInv, NEW c \in Calls, NEW at, NEW now, NEW came,
         ServerSets(c, at, now, came), Follows(c, at, now, came),
         UNCHANGED <<CallerSide, history, recording>>
  PROVE  /\ CallSound(c)' /\ BufferSound' /\ Grows
         /\ \A d \in Calls : d # c => Same(d)
<1>1. Types /\ BufferSound /\ CallSound(c)
  BY DEF ControlInv
<1>2. /\ server'[c] = at /\ work'[c] = now /\ outcome'[c] = came
      /\ \A d \in Calls : d # c => /\ server'[d] = server[d] /\ work'[d] = work[d]
                                 /\ outcome'[d] = outcome[d]
  BY <1>1, ServerSetsIt
<1>3. BufferSound'
  BY <1>1, BufferStays DEF CallerSide
<1>4. \A d \in Calls : d # c => Same(d)
  BY <1>2 DEF Same, CallerSide
<1>5. NotYetSent(c)' /\ ServedInOrder(c)'
  BY <1>1, <1>2 DEF CallSound, NotYetSent, ServedInOrder, CallerSide, Follows, Mutates,
                    Done
<1>6. ToldAsItWas(c)' /\ AppliedAsItWas(c)'
  BY <1>1, <1>2 DEF CallSound, ToldAsItWas, AppliedAsItWas, CallerSide, Follows, Mutates,
                    Final, Kinds, Types
<1> QED
  BY <1>3, <1>4, <1>5, <1>6 DEF CallSound, Grows

LEMMA ServerAdvances ==
  ASSUME ControlInv, NEW c \in Calls, NEW at, NEW now, NEW came,
         ServerSets(c, at, now, came), Follows(c, at, now, came),
         UNCHANGED <<CallerSide, history, recording, auditVars>>,
         (at = "ended" /\ now # "none") = Done(c)
  PROVE  Advance
<1>1. Types /\ CallSound(c)
  BY DEF ControlInv
<1>2. /\ server' \in [Calls -> ServerStages] /\ work' \in [Calls -> WorkStages]
      /\ outcome' \in [Calls -> Outcomes]
      /\ server'[c] = at /\ work'[c] = now
  BY <1>1, ServerSetsIt
<1>3. Types'
  BY <1>1, <1>2 DEF Types, CallerSide, auditVars
<1>4. Done(c)' = Done(c) /\ Settled(c)
  BY <1>1, <1>2 DEF Done, Settled, Follows, CallSound, ServedInOrder
<1> QED
  BY <1>3, <1>4, ServerSound, OneCallAdvances DEF CallerSide

\* The end of a dispatched call, with its record.
LEMMA RecordSets ==
  ASSUME Types, NEW c \in Calls, NEW o, Record(c, o), Mutates(c) => o = work[c],
         ServedInOrder(c)
  PROVE  /\ audit' \in Seq(MutationRecord) /\ reads'.calls \in Nat
         /\ IF kind[c] = "read"
            THEN audit' = audit /\ reads'.calls = reads.calls + 1
            ELSE /\ reads' = reads
                 /\ audit' = Appended([call |-> c, success |-> work[c] = "ok",
                                      revision |-> IF work[c] = "ok" THEN ResultRevision(c)
                                                                     ELSE 0])
<1>1. CASE kind[c] = "read"
  BY <1>1 DEF Record, RecordRead, Types
<1>2. CASE kind[c] # "read"
  <2>1. PICK version : version = IF work[c] = "ok" THEN ResultRevision(c) ELSE 0
    OBVIOUS
  <2>2. version \in Nat
    BY <2>1 DEF ResultRevision, Types
  <2>3. PICK r \in MutationRecord :
          r = [call |-> c, success |-> work[c] = "ok", revision |-> version]
    <3>1. PICK success \in BOOLEAN : success = (work[c] = "ok")
      OBVIOUS
    <3>2. [call |-> c, success |-> success, revision |-> version] \in MutationRecord
      BY <2>2 DEF MutationRecord
    <3> QED BY <3>1, <3>2
  <2>4. audit' = Appended(r) /\ reads' = reads
    BY <1>2, <2>1, <2>3 DEF Record, RecordMutation, Mutates
  <2>5. Appended(r) \in Seq(MutationRecord)
    <3>1. audit \in Seq(MutationRecord) /\ AuditRecords \in Nat \ {0}
      BY ControlAssumption DEF Types
    <3>2. Len(audit) = AuditRecords => Tail(audit) \in Seq(MutationRecord)
      BY <3>1
    <3> QED BY <3>1, <3>2 DEF Appended
  <2> QED
    BY <1>2, <2>1, <2>3, <2>4, <2>5 DEF Types
<1> QED BY <1>1, <1>2

LEMMA RecordAdvances ==
  ASSUME ControlInv, NEW c \in Calls, NEW now, NEW came, NEW o,
         ServerSets(c, "ended", now, came), Follows(c, "ended", now, came), now # "none",
         UNCHANGED <<CallerSide, history, recording>>, server[c] # "ended",
         Record(c, o), Mutates(c) => o = work[c] /\ now = work[c]
  PROVE  Advance
<1>1. Types /\ CallSound(c) /\ ServedInOrder(c)
  BY DEF ControlInv, CallSound
<1>2. /\ server' \in [Calls -> ServerStages] /\ work' \in [Calls -> WorkStages]
      /\ outcome' \in [Calls -> Outcomes]
      /\ server'[c] = "ended" /\ work'[c] = now
  BY <1>1, ServerSetsIt
<1>3. /\ audit' \in Seq(MutationRecord) /\ reads'.calls \in Nat
      /\ IF kind[c] = "read"
         THEN audit' = audit /\ reads'.calls = reads.calls + 1
         ELSE /\ reads' = reads
              /\ audit' = Appended([call |-> c, success |-> work[c] = "ok",
                                   revision |-> IF work[c] = "ok" THEN ResultRevision(c)
                                                                  ELSE 0])
  BY <1>1, RecordSets
<1>4. Types'
  BY <1>1, <1>2, <1>3 DEF Types, CallerSide
<1>5. ~Done(c) /\ Done(c)' /\ (kind[c] # "read" => work'[c] = work[c])
  BY <1>2 DEF Done, Mutates
<1>6. /\ CallSound(c)' /\ BufferSound' /\ \A d \in Calls : d # c => Same(d)
  BY ServerSound
<1>7. UNCHANGED <<kind, history>>
  BY DEF CallerSide
<1> HIDE DEF Appended, ResultRevision
<1> QED
  BY <1>3, <1>4, <1>5, <1>6, <1>7, OneCallIsRecorded

\* The steps that keep the operation, its result and the audit as they are.
LEMMA QuietServerAdvances ==
  ASSUME ControlInv, NEW c \in Calls, NEW at \in ServerStages \ {"none", "ended"},
         UNCHANGED <<CallerSide, history, recording, auditVars, work, outcome>>,
         server' = [server EXCEPT ![c] = at], server[c] \notin {"none", "ended"},
         at \in Waiting => server[c] \in Waiting,
         at \in AtWork => server[c] \in AtWork,
         at \in Replying => server[c] \in Replying
  PROVE  Advance
<1>1. Types /\ CallSound(c)
  BY DEF ControlInv
<1>2. PICK now \in WorkStages : now = work[c]
  BY <1>1 DEF Types
<1>3. PICK came \in Outcomes : came = outcome[c]
  BY <1>1 DEF Types
<1>4. ServerSets(c, at, now, came)
  BY <1>1, <1>2, <1>3 DEF ServerSets, Types
<1>5. Follows(c, at, now, came)
  BY <1>1, <1>2, <1>3 DEF Follows, CallSound, ServedInOrder
<1>6. (at = "ended" /\ now # "none") = Done(c)
  BY DEF Done
<1> QED
  BY <1>4, <1>5, <1>6, ServerAdvances

LEMMA PassingAdvances ==
  ASSUME ControlInv, NEW c \in Calls,
         Accept(c) \/ AcquireLease(c) \/ Serialize(c) \/ Serialized(c) \/ Abort(c)
  PROVE  Advance
<1> USE DEF Silent, Server, CallerSide, clientVars, auditVars, At, Waiting, AtWork, Replying,
            ServerStages, Tasks, Leased, stateVars
<1>1. CASE Accept(c)
  BY <1>1, QuietServerAdvances DEF Accept
<1>2. CASE AcquireLease(c)
  BY <1>2, QuietServerAdvances DEF AcquireLease
<1>3. CASE Serialize(c)
  BY <1>3, QuietServerAdvances DEF Serialize
<1>4. CASE Serialized(c)
  <2>1. CASE server[c] = "serializing"
    BY <1>4, <2>1, QuietServerAdvances DEF Serialized
  <2>2. CASE server[c] # "serializing"
    <3>1. BrokerMoves(c)
      BY <1>4, <2>2 DEF Serialized, BrokerMoves, ServerSide
    <3> QED BY <3>1, BrokerAdvances
  <2> QED BY <2>1, <2>2
<1>5. CASE Abort(c)
  BY <1>5, QuietServerAdvances DEF Abort
<1> QED
  BY <1>1, <1>2, <1>3, <1>4, <1>5

LEMMA DispatchAdvances ==
  ASSUME ControlInv, NEW c \in Calls,
         Parsed(c) \/ Unserved(c) \/ HandlerReturns(c) \/ DispatchDeadline(c)
  PROVE  Advance
<1> USE DEF Silent, Server, CallerSide, clientVars, auditVars, At, stateVars
<1>1. Types /\ CallSound(c)
  BY DEF ControlInv
<1>2. PICK now \in WorkStages : now = work[c]
  BY <1>1 DEF Types
<1>3. PICK came \in Outcomes : came = outcome[c]
  BY <1>1 DEF Types
<1> USE DEF Follows, Waiting, AtWork, Replying, Final, CallSound, ServedInOrder, Mutates, Done
<1>4. CASE Parsed(c)
  <2>1. CASE server[c] = "parsing"
    <3>1. ServerSets(c, "running", "queued", came)
      BY <1>1, <1>3, <1>4, <2>1
      DEF ServerSets, Types, Parsed, ServerStages, Tasks, Leased, WorkStages
    <3>2. Follows(c, "running", "queued", came)
      BY <1>1, <2>1
    <3>3. /\ UNCHANGED <<CallerSide, history, recording, auditVars>>
          /\ ("running" = "ended" /\ "queued" # "none") = Done(c)
      BY <1>4, <2>1 DEF Parsed
    <3> HIDE DEF Follows
    <3> QED BY <3>1, <3>2, <3>3, ServerAdvances
  <2>2. CASE server[c] # "parsing"
    <3>1. BrokerMoves(c)
      BY <1>4, <2>2 DEF Parsed, BrokerMoves, ServerSide
    <3> QED BY <3>1, BrokerAdvances
  <2> QED BY <2>1, <2>2
<1>5. CASE Unserved(c)
  <2>1. server[c] \in {"leasing", "parsing"} /\ now = "none"
    BY <1>1, <1>2, <1>5 DEF Unserved
  <2>2. ServerSets(c, "ended", now, came)
    BY <1>1, <1>2, <1>3, <1>5 DEF ServerSets, Types, Unserved, ServerStages
  <2>3. Follows(c, "ended", now, came)
    BY <1>2, <2>1
  <2>4. /\ UNCHANGED <<CallerSide, history, recording, auditVars>>
        /\ ("ended" = "ended" /\ now # "none") = Done(c)
    BY <1>5, <2>1 DEF Unserved
  <2> HIDE DEF Follows
  <2> QED BY <2>2, <2>3, <2>4, ServerAdvances
<1>6. CASE HandlerReturns(c)
  <2>1. /\ server[c] \in {"running", "draining"} /\ now \in Final /\ now \in Outcomes
    BY <1>2, <1>6 DEF HandlerReturns, Outcomes
  <2>2. ServerSets(c, "responding", now, now)
    BY <1>1, <1>2, <1>6, <2>1
    DEF ServerSets, Types, HandlerReturns, ServerStages, Tasks, Leased
  <2>3. Follows(c, "responding", now, now)
    BY <1>2, <2>1
  <2>4. /\ UNCHANGED <<CallerSide, history, recording, auditVars>>
        /\ ("responding" = "ended" /\ now # "none") = Done(c)
    BY <1>6, <2>1 DEF HandlerReturns
  <2> HIDE DEF Follows
  <2> QED BY <2>2, <2>3, <2>4, ServerAdvances
<1>7. CASE DispatchDeadline(c)
  <2>1. CASE Mutates(c)
    <3>1. /\ UNCHANGED <<CallerSide, history, recording, auditVars, work, outcome>>
          /\ server' = [server EXCEPT ![c] = "draining"] /\ server[c] = "running"
      BY <1>7, <2>1 DEF DispatchDeadline, MustReachTerminal
    <3> QED BY <3>1, QuietServerAdvances DEF ServerStages, Tasks, Leased
  <2>2. CASE ~Mutates(c)
    <3>1. /\ ServerSets(c, "responding", "dropped", "deadline") /\ server[c] = "running"
          /\ UNCHANGED <<CallerSide, history, recording, auditVars>>
      BY <1>7, <2>2
      DEF DispatchDeadline, MustReachTerminal, ServerSets, ServerStages, Tasks, Leased,
          WorkStages, Outcomes
    <3>2. /\ Follows(c, "responding", "dropped", "deadline")
          /\ ("responding" = "ended" /\ "dropped" # "none") = Done(c)
      BY <2>2, <3>1
    <3> HIDE DEF Follows
    <3> QED BY <3>1, <3>2, ServerAdvances
  <2> QED BY <2>1, <2>2
<1> QED
  BY <1>4, <1>5, <1>6, <1>7

LEMMA EndingAdvances ==
  ASSUME ControlInv, NEW c \in Calls, PeerLeaves(c) \/ DeliveryFails(c)
  PROVE  Advance
<1> USE DEF Silent, Server, CallerSide, clientVars, At, stateVars
<1>1. Types /\ CallSound(c)
  BY DEF ControlInv
<1>2. PICK now \in WorkStages : now = work[c]
  BY <1>1 DEF Types
<1>3. PICK came \in Outcomes : came = outcome[c]
  BY <1>1 DEF Types
<1>4. CASE PeerLeaves(c) /\ Mutates(c)
  <2>1. /\ UNCHANGED <<CallerSide, history, recording, auditVars, work, outcome>>
        /\ server' = [server EXCEPT ![c] = "draining"] /\ server[c] = "running"
    BY <1>4 DEF PeerLeaves, MustReachTerminal, auditVars, Mutates
  <2> QED
    BY <2>1, QuietServerAdvances
    DEF ServerStages, Tasks, Leased, Waiting, AtWork, Replying
<1>5. CASE PeerLeaves(c) /\ ~Mutates(c)
  <2>1. /\ ServerSets(c, "ended", "dropped", came) /\ server[c] = "running"
        /\ UNCHANGED <<CallerSide, history, recording>> /\ Record(c, "cancelled")
    BY <1>1, <1>3, <1>5
    DEF PeerLeaves, MustReachTerminal, Mutates, ServerSets, Types, ServerStages, WorkStages
  <2>2. Follows(c, "ended", "dropped", came)
    BY <1>5, <2>1 DEF Follows, Waiting, AtWork, Replying
  <2> QED
    BY <1>5, <2>1, <2>2, RecordAdvances
<1>6. CASE DeliveryFails(c)
  <2>1. /\ ServerSets(c, "ended", now, came) /\ server[c] \in Replying
        /\ UNCHANGED <<CallerSide, history, recording>>
    BY <1>1, <1>2, <1>3, <1>6
    DEF DeliveryFails, ServerSets, Types, ServerStages, Replying
  <2>2. /\ now # "none" /\ (Mutates(c) => came = now /\ now \in Final)
    BY <1>1, <1>2, <1>3, <2>1 DEF CallSound, ServedInOrder, AtWork
  <2>3. Follows(c, "ended", now, came)
    BY <1>2, <2>1, <2>2 DEF Follows, Waiting, AtWork, Replying
  <2>4. \E delivery \in {"cancelled", "deadline"} : Record(c, AuditOutcome(c, delivery))
    BY <1>6 DEF DeliveryFails
  <2>5. PICK o : Record(c, o) /\ (Mutates(c) => o = outcome[c])
    BY <2>4 DEF AuditOutcome, Mutates
  <2>6. server[c] # "ended"
    BY <2>1 DEF Replying
  <2> QED
    BY <1>2, <1>3, <2>1, <2>2, <2>3, <2>5, <2>6, RecordAdvances
<1> QED
  BY <1>4, <1>5, <1>6

LEMMA WrittenAdvances ==
  ASSUME ControlInv, NEW c \in Calls, Written(c)
  PROVE  Advance
<1>1. Types /\ BufferSound /\ CallSound(c)
  BY DEF ControlInv
<1>2. PICK a \in Outcomes : a = outcome[c]
  BY <1>1 DEF Types
<1>3. /\ Answer(c, a) /\ server[c] = "writing" /\ call[c] = "awaiting"
      /\ server' = [server EXCEPT ![c] = "ended"]
      /\ UNCHANGED <<kind, session, buffered, history, recording, work, outcome>>
  BY <1>2 DEF Written, Gone, At, Server, clientVars
<1>4. /\ call' \in [Calls -> CallStages] /\ call'[c] \in {"done", "over"}
      /\ answer' \in [Calls -> Answers] /\ answer'[c] = a
      /\ \A d \in Calls : d # c => call'[d] = call[d] /\ answer'[d] = answer[d]
  BY <1>1, <1>3, AnswerSets DEF Answers
<1>5. /\ server' \in [Calls -> ServerStages] /\ server'[c] = "ended"
      /\ \A d \in Calls : d # c => server'[d] = server[d]
  BY <1>1, <1>3 DEF Types, ServerStages
<1>6. /\ work[c] # "none" /\ (Mutates(c) => a = work[c] /\ work[c] \in Final)
  BY <1>1, <1>2, <1>3 DEF CallSound, ServedInOrder, AtWork, Replying
<1>7. PICK o : Record(c, o) /\ (Mutates(c) => o = work[c])
  <2>1. Record(c, AuditOutcome(c, "ok")) /\ AuditOutcome(c, "ok") = outcome[c]
    BY DEF Written, AuditOutcome
  <2> QED BY <1>2, <1>6, <2>1
<1>8. /\ audit' \in Seq(MutationRecord) /\ reads'.calls \in Nat
      /\ IF kind[c] = "read"
         THEN audit' = audit /\ reads'.calls = reads.calls + 1
         ELSE /\ reads' = reads
              /\ audit' = Appended([call |-> c, success |-> work[c] = "ok",
                                   revision |-> IF work[c] = "ok" THEN ResultRevision(c)
                                                                  ELSE 0])
  BY <1>1, <1>7, RecordSets DEF CallSound
<1>9. Types'
  BY <1>1, <1>3, <1>4, <1>5, <1>8 DEF Types
<1>10. BufferSound'
  <2>1. \A d \in Calls : call[d] = "buffered" => call'[d] = "buffered"
    BY <1>3, <1>4
  <2> QED BY <1>1, <1>3, <2>1, BufferStays
<1>11. \A d \in Calls : d # c => Same(d)
  BY <1>3, <1>4, <1>5 DEF Same
<1>12. CallSound(c)'
  <2>1. a # "refused"
    BY ControlAssumption DEF Outcomes, Final
  <2>2. NotYetSent(c)'
    BY <1>4, <2>1 DEF NotYetSent, Pre
  <2>3. ServedInOrder(c)'
    BY <1>2, <1>3, <1>5, <1>6 DEF ServedInOrder, Mutates, Waiting, AtWork, Replying
  <2>4. ToldAsItWas(c)' /\ AppliedAsItWas(c)'
    BY <1>1, <1>3, <1>4, <1>6 DEF CallSound, ToldAsItWas, AppliedAsItWas, Mutates
  <2> QED BY <2>2, <2>3, <2>4 DEF CallSound
<1>13. ~Done(c) /\ Done(c)' /\ work'[c] = work[c]
  BY <1>3, <1>5, <1>6 DEF Done
<1> HIDE DEF Appended, ResultRevision
<1> QED
  BY <1>3, <1>8, <1>9, <1>10, <1>11, <1>12, <1>13, OneCallIsRecorded

(***************************************************************************)
(* The operation.                                                          *)
(***************************************************************************)
\* An operation that ends without effect.
LEMMA WorkAdvances ==
  ASSUME ControlInv, NEW c \in Calls, NEW now \in WorkStages \ {"none"},
         work[c] \in {"queued", "begun"}, work' = [work EXCEPT ![c] = now],
         UNCHANGED <<CallerSide, history, recording, auditVars, server, outcome>>,
         now # "ok" \/ ~Mutates(c)
  PROVE  Advance
<1>1. Types /\ CallSound(c)
  BY DEF ControlInv
<1>2. PICK at \in ServerStages : at = server[c]
  BY <1>1 DEF Types
<1>3. PICK came \in Outcomes : came = outcome[c]
  BY <1>1 DEF Types
<1>4. ServerSets(c, at, now, came)
  BY <1>1, <1>2, <1>3 DEF ServerSets, Types
<1>5. Follows(c, at, now, came)
  BY <1>1, <1>2, <1>3 DEF Follows, CallSound, ServedInOrder, Waiting, Final, Done
<1>6. (at = "ended" /\ now # "none") = Done(c)
  BY <1>2 DEF Done
<1> QED
  BY <1>4, <1>5, <1>6, ServerAdvances

LEMMA RangeAppends ==
  ASSUME NEW seq \in Seq(Calls), NEW c
  PROVE  Range(Append(seq, c)) = Range(seq) \cup {c}
<1>1. /\ Len(Append(seq, c)) = Len(seq) + 1 /\ Append(seq, c)[Len(seq) + 1] = c
      /\ \A i \in 1..Len(seq) : Append(seq, c)[i] = seq[i]
      /\ DOMAIN Append(seq, c) = 1..(Len(seq) + 1) /\ DOMAIN seq = 1..Len(seq)
      /\ Len(seq) \in Nat
  OBVIOUS
<1>2. \A x \in Range(Append(seq, c)) : x \in Range(seq) \cup {c}
  BY <1>1 DEF Range
<1>3. \A x \in Range(seq) \cup {c} : x \in Range(Append(seq, c))
  <2>1. c \in Range(Append(seq, c))
    BY <1>1 DEF Range
  <2>2. \A i \in 1..Len(seq) : seq[i] \in Range(Append(seq, c))
    BY <1>1 DEF Range
  <2> QED BY <1>1, <2>1, <2>2 DEF Range
<1> QED
  BY <1>2, <1>3

LEMMA OperationAdvances ==
  ASSUME ControlInv, NEW c \in Calls, Begin(c) \/ Finish(c)
  PROVE  Advance
<1> USE DEF Silent, Server, CallerSide, clientVars, stateVars
<1>1. Types /\ BufferSound /\ CallSound(c)
  BY DEF ControlInv
<1>2. CASE Begin(c)
  BY <1>2, WorkAdvances DEF Begin, WorkStages
<1>3. CASE Finish(c) /\ (Stale(c) \/ ~Mutates(c))
  <2>1. CASE Stale(c)
    BY <1>3, <2>1, WorkAdvances DEF Finish, WorkStages
  <2>2. CASE ~Stale(c) /\ ~Mutates(c)
    BY <1>3, <2>2, WorkAdvances DEF Finish, WorkStages, Mutates
  <2> QED BY <1>3, <2>1, <2>2
<1>4. CASE Finish(c) /\ ~Stale(c) /\ Mutates(c)
  <2>1. /\ work[c] = "begun" /\ work' = [work EXCEPT ![c] = "ok"]
        /\ UNCHANGED <<CallerSide, auditVars, server, outcome>>
    BY <1>4 DEF Finish
  <2>2. /\ work' \in [Calls -> WorkStages] /\ work'[c] = "ok"
        /\ \A d \in Calls : d # c => work'[d] = work[d]
    BY <1>1, <2>1 DEF Types, WorkStages
  <2>3. c \notin Range(history) /\ c \notin recording
    BY <1>1, <2>1 DEF CallSound, AppliedAsItWas
  <2>4. \/ kind[c] = "mapping" /\ history' = Append(history, c) /\ recording' = recording
        \/ kind[c] = "record" /\ history' = history /\ recording' = recording \cup {c}
    <3>1. kind[c] \in {"mapping", "record"}
      BY <1>1, <1>4 DEF Types, Kinds, Mutates
    <3> QED BY <1>4, <3>1 DEF Finish
  <2>5. /\ Range(history') = IF kind[c] = "mapping" THEN Range(history) \cup {c}
                                                   ELSE Range(history)
        /\ recording' = IF kind[c] = "mapping" THEN recording ELSE recording \cup {c}
        /\ history' \in Seq(Calls) /\ recording' \subseteq Calls
    <3>1. history \in Seq(Calls) /\ recording \subseteq Calls
      BY <1>1 DEF Types
    <3>2. CASE kind[c] = "mapping"
      <4>1. history' = Append(history, c) /\ recording' = recording
        BY <2>4, <3>2
      <4>2. Append(history, c) \in Seq(Calls)
        BY <3>1
      <4>3. Range(Append(history, c)) = Range(history) \cup {c}
        BY <3>1, RangeAppends
      <4> QED BY <3>1, <3>2, <4>1, <4>2, <4>3
    <3>3. CASE kind[c] # "mapping"
      BY <2>4, <3>1, <3>3
    <3> QED BY <3>2, <3>3
  <2>6. Types'
    BY <1>1, <2>1, <2>2, <2>5 DEF Types, auditVars
  <2>7. BufferSound'
    BY <1>1, <2>1, BufferStays
  <2>8. \A d \in Calls : d # c => Same(d)
    BY <2>1, <2>2, <2>5 DEF Same
  <2>9. ~Done(c) /\ server[c] \notin Waiting \cup Replying /\ answer[c] \notin {"ok", "conflict"}
    BY <1>1, <1>4, <2>1 DEF CallSound, ServedInOrder, ToldAsItWas, Final
  <2>10. Done(c)' = Done(c) /\ Settled(c) /\ Grows
    BY <2>1, <2>2, <2>3, <2>4, <2>9 DEF Done, Settled, Grows
  <2>11. NotYetSent(c)'
    BY <1>1, <2>1 DEF CallSound, NotYetSent
  <2>12. ServedInOrder(c)'
    BY <2>1, <2>2, <2>9, <2>10 DEF ServedInOrder
  <2>13. ToldAsItWas(c)'
    BY <2>1, <2>9 DEF ToldAsItWas
  <2>14. AppliedAsItWas(c)'
    BY <2>1, <2>2, <2>3, <2>4, <2>5 DEF AppliedAsItWas
  <2> QED
    BY <2>1, <2>6, <2>7, <2>8, <2>10, <2>11, <2>12, <2>13, <2>14, OneCallAdvances
    DEF CallSound
<1> QED
  BY <1>2, <1>3, <1>4

(***************************************************************************)
(* The audit follows.                                                      *)
(***************************************************************************)
\* A full ring loses its oldest record to a new one.
LEMMA RingAppends ==
  ASSUME NEW seq \in Seq(MutationRecord), NEW r \in MutationRecord,
         Len(seq) <= AuditRecords, NEW next,
         next = Append(IF Len(seq) = AuditRecords THEN Tail(seq) ELSE seq, r)
  PROVE  /\ next \in Seq(MutationRecord)
         /\ Len(next) = (IF Len(seq) = AuditRecords THEN AuditRecords ELSE Len(seq) + 1)
         /\ next[Len(next)] = r
         /\ \E k \in {0, 1} :
              /\ k = 1 <=> Len(seq) = AuditRecords
              /\ \A i \in 1..(Len(next) - 1) : i + k \in 1..Len(seq) /\ next[i] = seq[i + k]
<1>1. AuditRecords \in Nat \ {0} /\ Len(seq) \in Nat
  BY ControlAssumption
<1>2. CASE Len(seq) = AuditRecords
  <2>1. /\ Tail(seq) \in Seq(MutationRecord) /\ Len(Tail(seq)) = Len(seq) - 1
        /\ \A i \in 1..(Len(seq) - 1) : Tail(seq)[i] = seq[i + 1]
    BY <1>1, <1>2
  <2>2. next = Append(Tail(seq), r)
    BY <1>2
  <2>3. /\ next \in Seq(MutationRecord) /\ Len(next) = Len(seq)
        /\ next[Len(next)] = r
        /\ \A i \in 1..(Len(next) - 1) : next[i] = Tail(seq)[i]
    BY <1>1, <1>2, <2>1, <2>2
  <2> QED BY <1>1, <1>2, <2>1, <2>3
<1>3. CASE Len(seq) # AuditRecords
  <2>1. next = Append(seq, r)
    BY <1>3
  <2> QED BY <1>1, <1>3, <2>1
<1> QED
  BY <1>2, <1>3

\* What a record says stays true: a settled call keeps its operation's end,
\* and the history only grows.
LEMMA RecordStays ==
  ASSUME ControlInv, Advance, NEW r \in MutationRecord, RecordSound(r)
  PROVE  RecordSound(r)'
<1>1. PICK c \in Calls : c = r.call
  BY DEF MutationRecord
<1>2. Mutates(c) /\ Done(c) /\ kind' = kind /\ history \in Seq(Calls)
  BY <1>1 DEF RecordSound, Advance, ControlInv, Types
<1>3. Done(c)' /\ work'[c] = work[c]
  BY <1>1, <1>2 DEF Advance, Quiet, Recorded, Settled
<1>4. \A i \in DOMAIN history : i \in DOMAIN history' /\ history'[i] = history[i]
  BY <1>2 DEF Advance, Grows
<1> QED
  BY <1>1, <1>2, <1>3, <1>4 DEF RecordSound, Mutates

LEMMA FiniteCalls ==
  /\ IsFiniteSet(EndedMutations) /\ IsFiniteSet(EndedReads)
  /\ Cardinality(EndedMutations) \in Nat /\ Cardinality(EndedReads) \in Nat
<1>1. EndedMutations \subseteq Calls /\ EndedReads \subseteq Calls
  BY DEF EndedMutations, EndedReads, Mutations
<1> QED
  BY <1>1, ControlAssumption, FS_Subset, FS_CardinalityType

LEMMA HistoryStaysInjective ==
  ASSUME history \in Seq(Calls), IsInjective(history), Grows
  PROVE  IsInjective(history')
<1>1. CASE history' = history
  BY <1>1
<1>2. CASE \E c \in Calls : history' = Append(history, c) /\ c \notin Range(history)
  <2>1. PICK c \in Calls : history' = Append(history, c) /\ c \notin Range(history)
    BY <1>2
  <2>2. /\ Len(history) \in Nat /\ DOMAIN history = 1..Len(history)
        /\ DOMAIN history' = 1..(Len(history) + 1) /\ history'[Len(history) + 1] = c
        /\ \A i \in 1..Len(history) : history'[i] = history[i] /\ history[i] # c
    BY <2>1 DEF Range
  <2> QED
    BY <2>2 DEF IsInjective
<1> QED
  BY <1>1, <1>2 DEF Grows

LEMMA AuditStaysQuiet ==
  ASSUME ControlInv, Advance, Quiet
  PROVE  AuditSound'
<1>1. UNCHANGED <<audit, reads, kind>> /\ \A c \in Calls : Done(c)' = Done(c)
  BY DEF Quiet, auditVars, Advance
<1>2. EndedMutations' = EndedMutations /\ EndedReads' = EndedReads
  BY <1>1 DEF EndedMutations, EndedReads, Mutations
<1>3. ASSUME NEW i \in DOMAIN audit PROVE RecordSound(audit[i])'
  <2>1. PICK r \in MutationRecord : r = audit[i] /\ RecordSound(r)
    BY DEF ControlInv, Types, AuditSound
  <2>2. RecordSound(r)'
    BY <2>1, RecordStays
  <2> QED BY <1>1, <2>1, <2>2
<1> HIDE DEF EndedMutations, EndedReads, RecordSound
<1> QED
  BY <1>1, <1>2, <1>3 DEF ControlInv, AuditSound, RingIsFull, NoneIsLost

LEMMA AuditCountsRead ==
  ASSUME ControlInv, Advance, NEW c \in Calls, Recorded(c), kind[c] = "read"
  PROVE  AuditSound'
<1>1. /\ audit' = audit /\ kind' = kind /\ reads'.calls = reads.calls + 1
      /\ ~Done(c) /\ Done(c)' /\ \A d \in Calls : d # c => Done(d)' = Done(d)
  BY DEF Recorded, Advance
<1>2. EndedMutations' = EndedMutations /\ EndedReads' = EndedReads \cup {c}
      /\ c \notin EndedReads
  BY <1>1 DEF EndedMutations, EndedReads, Mutations
<1>3. Cardinality(EndedReads)' = Cardinality(EndedReads) + 1
  BY <1>2, FiniteCalls, FS_AddElement
<1>4. ASSUME NEW i \in DOMAIN audit PROVE RecordSound(audit[i])'
  <2>1. PICK r \in MutationRecord : r = audit[i] /\ RecordSound(r)
    BY DEF ControlInv, Types, AuditSound
  <2>2. RecordSound(r)'
    BY <2>1, RecordStays
  <2> QED BY <1>1, <2>1, <2>2
<1> HIDE DEF EndedMutations, EndedReads, RecordSound
<1> QED
  BY <1>1, <1>2, <1>3, <1>4 DEF ControlInv, AuditSound, RingIsFull, NoneIsLost

LEMMA AuditTakesMutation ==
  ASSUME ControlInv, Advance, NEW c \in Calls, Recorded(c), kind[c] # "read"
  PROVE  AuditSound'
<1>1. /\ reads' = reads /\ kind' = kind /\ history' = history /\ work'[c] = work[c]
      /\ ~Done(c) /\ Done(c)' /\ \A d \in Calls : d # c => Done(d)' = Done(d)
  BY DEF Recorded, Advance
<1>2. /\ EndedReads' = EndedReads /\ EndedMutations' = EndedMutations \cup {c}
      /\ c \notin EndedMutations
  BY <1>1 DEF EndedMutations, EndedReads, Mutations
<1>3. /\ Cardinality(EndedMutations)' = Cardinality(EndedMutations) + 1
      /\ Cardinality(EndedMutations) \in Nat
  BY <1>2, FiniteCalls, FS_AddElement
<1>4. PICK r : /\ r = [call |-> c, success |-> work[c] = "ok",
                      revision |-> IF work[c] = "ok" THEN ResultRevision(c) ELSE 0]
               /\ audit' = Appended(r)
  BY DEF Recorded
<1>5. r \in MutationRecord
  <2>1. PICK success \in BOOLEAN : success = (work[c] = "ok")
    OBVIOUS
  <2>2. PICK version \in Nat :
          version = IF work[c] = "ok" THEN ResultRevision(c) ELSE 0
    BY DEF ResultRevision, ControlInv, Types
  <2>3. [call |-> c, success |-> success, revision |-> version] \in MutationRecord
    BY DEF MutationRecord
  <2> QED BY <1>4, <2>1, <2>2, <2>3
<1>6. RecordSound(r)'
  <2>1. /\ r.call = c /\ r.success = (work[c] = "ok")
        /\ work[c] = "ok" => r.revision = ResultRevision(c)
    BY <1>4
  <2>2. kind[c] = "mapping" /\ work[c] = "ok"
          => ResultRevision(c) \in DOMAIN history /\ history[ResultRevision(c)] = c
    <3>1. kind[c] = "mapping" /\ work[c] = "ok" => c \in Range(history)
      BY DEF ControlInv, CallSound, AppliedAsItWas, Mutates
    <3> QED BY <3>1 DEF Range, ResultRevision
  <2> HIDE DEF ResultRevision
  <2> QED
    BY <1>1, <2>1, <2>2 DEF RecordSound, Mutates
<1>7. /\ audit \in Seq(MutationRecord) /\ audit' \in Seq(MutationRecord)
      /\ Len(audit) <= AuditRecords /\ AuditRecords \in Nat \ {0}
      /\ Len(audit) = IF Cardinality(EndedMutations) <= AuditRecords
                      THEN Cardinality(EndedMutations) ELSE AuditRecords
  BY <1>3, ControlAssumption DEF ControlInv, Types, Advance, AuditSound, RingIsFull
<1>8. PICK k \in {0, 1} :
        /\ k = 1 <=> Len(audit) = AuditRecords
        /\ Len(audit') = IF Len(audit) = AuditRecords THEN AuditRecords ELSE Len(audit) + 1
        /\ audit'[Len(audit')] = r
        /\ \A i \in 1..(Len(audit') - 1) :
             i + k \in 1..Len(audit) /\ audit'[i] = audit[i + k]
  BY <1>4, <1>5, <1>7, RingAppends DEF Appended
<1>9. /\ DOMAIN audit' = 1..Len(audit') /\ DOMAIN audit = 1..Len(audit)
      /\ Len(audit) \in Nat /\ Len(audit') \in Nat \ {0}
  BY <1>7, <1>8
<1>10. ASSUME NEW i \in DOMAIN audit PROVE RecordSound(audit[i]) /\ audit[i].call # c
  <2>1. RecordSound(audit[i])
    BY DEF ControlInv, AuditSound
  <2> QED BY <1>1, <2>1 DEF RecordSound
<1>11. ASSUME NEW i \in DOMAIN audit' PROVE RecordSound(audit[i])'
  <2>1. CASE i = Len(audit')
    BY <1>6, <1>8, <2>1
  <2>2. CASE i # Len(audit')
    <3>1. i + k \in DOMAIN audit /\ audit'[i] = audit[i + k]
      BY <1>8, <1>9, <2>2
    <3>2. PICK q \in MutationRecord : q = audit[i + k] /\ RecordSound(q)
      BY <1>7, <1>10, <3>1
    <3>3. RecordSound(q)'
      BY <3>2, RecordStays
    <3>4. q = audit'[i]
      BY <3>1, <3>2
    <3> QED BY <3>3, <3>4
  <2> QED BY <2>1, <2>2
<1>12. \A i, j \in DOMAIN audit' : audit'[i].call = audit'[j].call => i = j
  <2>1. r.call = c
    BY <1>4
  <2>2. ASSUME NEW i \in DOMAIN audit', i # Len(audit')
        PROVE  i + k \in DOMAIN audit /\ audit'[i] = audit[i + k] /\ audit'[i].call # c
    <3>1. i + k \in DOMAIN audit /\ audit'[i] = audit[i + k]
      BY <1>8, <1>9, <2>2
    <3> QED BY <1>10, <3>1
  <2>3. \A i, j \in DOMAIN audit : audit[i].call = audit[j].call => i = j
    BY DEF ControlInv, AuditSound
  <2>4. ASSUME NEW i \in DOMAIN audit', NEW j \in DOMAIN audit',
               i # Len(audit'), j # Len(audit'), audit'[i].call = audit'[j].call
        PROVE  i = j
    <3>1. i + k = j + k
      BY <2>2, <2>3, <2>4
    <3> QED BY <1>9, <3>1
  <2> QED
    BY <1>8, <2>1, <2>2, <2>4
<1>13. RingIsFull'
  BY <1>3, <1>7, <1>8 DEF RingIsFull
<1>14. NoneIsLost'
  <2> SUFFICES ASSUME Cardinality(EndedMutations)' <= AuditRecords, NEW d \in EndedMutations'
               PROVE  \E i \in DOMAIN audit' : audit'[i].call = d
    BY DEF NoneIsLost
  <2>1. Cardinality(EndedMutations) < AuditRecords
    BY <1>3, <1>7
  <2>2. k = 0 /\ Len(audit') = Len(audit) + 1
    BY <1>3, <1>7, <1>8, <2>1
  <2>3. CASE d = c
    BY <1>4, <1>8, <1>9, <2>3
  <2>4. CASE d # c
    <3>1. PICK i \in DOMAIN audit : audit[i].call = d
      BY <1>2, <1>3, <1>7, <2>1, <2>4 DEF ControlInv, AuditSound, NoneIsLost
    <3>2. i \in DOMAIN audit' /\ audit'[i] = audit[i]
      BY <1>8, <1>9, <2>2
    <3> QED BY <3>1, <3>2
  <2> QED BY <2>3, <2>4
<1> HIDE DEF EndedMutations, EndedReads, RecordSound
<1> QED
  BY <1>1, <1>2, <1>11, <1>12, <1>13, <1>14 DEF ControlInv, AuditSound

LEMMA AdvanceKeeps ==
  ASSUME ControlInv, Advance
  PROVE  ControlInv'
<1>1. AuditSound'
  BY AuditStaysQuiet, AuditCountsRead, AuditTakesMutation DEF Advance
<1>2. IsInjective(history')
  BY HistoryStaysInjective DEF ControlInv, Types, Advance
<1> QED
  BY <1>1, <1>2 DEF ControlInv, Advance

(***************************************************************************)
(* The theorems.                                                           *)
(***************************************************************************)
LEMMA ControlStarts == Init => ControlInv
<1> SUFFICES ASSUME Init PROVE ControlInv
  OBVIOUS
<1>1. PICK mix \in Mixes : kind = mix.kind /\ session = mix.session
  BY DEF Init
<1>2. mix.kind \in [Calls -> Kinds] /\ mix.session \in [Calls -> Sessions]
  BY ControlAssumption
<1>3. Types
  BY <1>1, <1>2 DEF Init, Types, CallStages, ServerStages, WorkStages, Answers, Outcomes
<1>4. BufferSound
  BY DEF Init, BufferSound
<1>5. history = << >> /\ Range(history) = {} /\ recording = {} /\ IsInjective(history)
  BY DEF Init, Range, IsInjective
<1>6. ASSUME NEW c \in Calls PROVE CallSound(c)
  BY <1>5, ControlAssumption
  DEF Init, CallSound, NotYetSent, ServedInOrder, ToldAsItWas, AppliedAsItWas, Done,
      AtWork, Replying, Tasks, Leased
<1>7. EndedMutations = {} /\ EndedReads = {}
  BY DEF Init, EndedMutations, EndedReads, Mutations, Done
<1>8. AuditSound
  BY <1>7, FS_EmptySet, ControlAssumption DEF Init, AuditSound, RingIsFull, NoneIsLost
<1> QED
  BY <1>3, <1>4, <1>5, <1>6, <1>8 DEF ControlInv

LEMMA ControlStep ==
  ASSUME ControlInv, Next
  PROVE  ControlInv'
<1>1. ASSUME NEW c \in Calls, Expire(c) PROVE Advance
  <2>1. BrokerMoves(c)
    BY <1>1 DEF Expire, BrokerMoves, ServerSide, clientVars, serverVars, stateVars
  <2> QED BY <2>1, BrokerAdvances
<1>2. ASSUME Shutdown PROVE Advance
  <2>1. UNCHANGED <<kind, session, buffered, call, answer, ServerSide>>
    BY <1>2 DEF Shutdown, clientVars, brokerVars, stateVars, ServerSide
  <2>2. Types' /\ BufferSound'
    BY <2>1, BufferStays DEF ControlInv, Types, ServerSide, auditVars
  <2>3. \A d \in Calls : CallSound(d)' /\ Settled(d) /\ Done(d)' = Done(d)
    BY <2>1, SameIsSound, ServerSideStays DEF ControlInv
  <2> QED
    BY <2>1, <2>2, <2>3 DEF Advance, Quiet, Grows, ServerSide
<1>3. ASSUME NEW c \in Calls, Progress(c) PROVE Advance
  BY <1>3, HandlerAdvances, ConnectAdvances, PassingAdvances, DispatchAdvances,
     EndingAdvances, WrittenAdvances, OperationAdvances DEF Progress
<1>4. Advance
  BY <1>1, <1>2, <1>3, ReceiveAdvances, CancelAdvances, DispatchAdvances,
     AdmitBufferedAdvances, DisconnectAdvances DEF Next
<1> QED
  BY <1>4, AdvanceKeeps

LEMMA ControlStutters ==
  ASSUME ControlInv, UNCHANGED vars
  PROVE  ControlInv'
BY DEF ControlInv, vars, clientVars, brokerVars, serverVars, stateVars, auditVars, Types,
       BufferSound, CallSound, NotYetSent, ServedInOrder, ToldAsItWas, AppliedAsItWas,
       AuditSound, RingIsFull, NoneIsLost, RecordSound, EndedMutations, EndedReads,
       Mutations, Mutates, Done

\* At every moment a call is at one side's disposal only, the server returns
\* what a mutation came to, and the audit ring holds the mutations that ended.
THEOREM ControlInvariant == Spec => []ControlInv
<1>1. ControlInv /\ [Next]_vars => ControlInv'
  BY ControlStep, ControlStutters
<1> QED
  BY <1>1, ControlStarts, PTL DEF Spec

\* What is known of the calls is what the properties say of them.
LEMMA ControlIsSound ==
  ASSUME ControlInv
  PROVE  CallsAreAccountedFor
<1>1. ControlInv => AnswersAreTrue
  <2> SUFFICES ASSUME ControlInv PROVE AnswersAreTrue
    OBVIOUS
  <2>1. ASSUME NEW c \in Mutations
        PROVE  /\ answer[c] = "ok" => c \in Applied
               /\ answer[c] \in {"refused", "conflict"} =>
                    c \notin Applied /\ work[c] \notin {"queued", "begun"}
    <3>1. c \in Calls /\ Mutates(c) /\ CallSound(c)
      BY DEF Mutations, Mutates, ControlInv
    <3> QED
      BY <3>1 DEF CallSound, NotYetSent, ServedInOrder, ToldAsItWas, AppliedAsItWas,
                  Applied, Waiting
  <2> QED
    BY <2>1 DEF AnswersAreTrue, ControlInv
<1>2. ControlInv => AuditIsTrue
  <2> SUFFICES ASSUME ControlInv PROVE AuditIsTrue
    OBVIOUS
  <2>1. /\ EndedMutations = {c \in Mutations : server[c] = "ended" /\ Dispatched(c)}
        /\ EndedReads = {c \in Calls \ Mutations : server[c] = "ended" /\ Dispatched(c)}
    BY DEF EndedMutations, EndedReads, Done, Dispatched
  <2>2. Len(audit) <= AuditRecords
    BY FiniteCalls, ControlAssumption DEF ControlInv, AuditSound, RingIsFull
  <2>3. ASSUME NEW c \in Calls PROVE Cardinality(Records(c)) <= 1
    <3>1. \A i, j \in Records(c) : i = j
      BY DEF Records, ControlInv, AuditSound
    <3>2. CASE Records(c) = {}
      BY <3>2, FS_EmptySet
    <3>3. CASE Records(c) # {}
      <4>1. PICK i : Records(c) = {} \cup {i}
        BY <3>1, <3>3
      <4>2. Cardinality({} \cup {i}) = 1
        BY FS_EmptySet, FS_AddElement
      <4> QED BY <4>1, <4>2
    <3> QED BY <3>2, <3>3
  <2>4. ASSUME NEW i \in DOMAIN audit
        PROVE  /\ audit[i].success = (audit[i].call \in Applied)
               /\ kind[audit[i].call] = "mapping" /\ audit[i].success =>
                    history[audit[i].revision] = audit[i].call
    <3>1. PICK r \in MutationRecord : r = audit[i] /\ RecordSound(r)
      BY DEF ControlInv, Types, AuditSound
    <3>2. PICK c \in Calls : c = r.call /\ CallSound(c)
      BY DEF MutationRecord, ControlInv
    <3>3. /\ r.success = (work[c] = "ok") /\ Mutates(c)
          /\ kind[c] = "mapping" /\ r.success => history[r.revision] = c
      BY <3>1, <3>2 DEF RecordSound
    <3>4. (work[c] = "ok") = (c \in Applied)
      BY <3>2, <3>3 DEF CallSound, AppliedAsItWas, Applied
    <3> QED BY <3>1, <3>2, <3>3, <3>4
  <2>5. Cardinality(EndedMutations) <= AuditRecords =>
          \A c \in EndedMutations : Records(c) # {}
    BY DEF ControlInv, AuditSound, NoneIsLost, Records
  <2>6. reads.calls = Cardinality(EndedReads)
    BY DEF ControlInv, AuditSound
  <2> QED
    BY <2>1, <2>2, <2>3, <2>4, <2>5, <2>6 DEF AuditIsTrue
<1> QED
  BY <1>1, <1>2 DEF CallsAreAccountedFor

\* Whatever becomes of a response, the caller, the audit and the settings agree
\* on what happened to a call: nothing is applied twice, refused and applied, or
\* recorded as what it was not.
THEOREM CallsAccountedFor == Spec => []CallsAreAccountedFor
<1>1. ControlInv => CallsAreAccountedFor
  BY ControlIsSound
<1> QED
  BY <1>1, ControlInvariant, PTL

(***************************************************************************)
(* The other half of the broker: whom a call reaches (InstanceSelection).  *)
(* What is known of a call is stated for each phase of it: what the index  *)
(* still names or the scan has found covers whoever was well all the time  *)
(* and is meant, who was probed is counted, and who is chosen is the only  *)
(* one that could have been meant.                                         *)
(***************************************************************************)
QueryFields == {"ask", "at", "index", "candidates", "finished", "live", "stale", "rejected",
                "omitted", "chosen", "answer", "steady", "seen"}
Phases == {"closed", "open", "answered", "index", "reading", "probing", "selecting",
           "calling", "waiting", "checking"}

\* A link that leads somewhere: to bytes of a run, at its endpoint.
LinkSound(l) ==
  /\ l = Link(l.endpoint, l.run, l.revision, l.side, l.representation, l.offset, l.length)
  /\ l.run \in Runs /\ l.endpoint = EndpointOf[l.run] /\ l.revision \in Nat \ {0}
  /\ l.side \in {"request", "response"} /\ l.representation \in {"raw", "decoded"}
  /\ l.offset \in Nat /\ l.length \in 1..MaxLength

\* A call: of a tool with the selector it takes, or of a link as it was given.
AskSound(a) ==
  /\ a.tool \in DOMAIN Tools /\ a.endpoint \in Endpoints \cup {Nobody}
  /\ a.run \in Runs \cup {Nobody} /\ a.pin \in Nat
  /\ Tools[a.tool].call.requirement = "Discovery" => a.endpoint = Nobody /\ a.run = Nobody
  /\ Tools[a.tool].call.requirement = "Wait" => a.endpoint # Nobody
  /\ \/ a.link = << >>
     \/ /\ a.link = <<a.link[1]>> /\ LinkSound(a.link[1])
        /\ a.run = a.link[1].run /\ a.pin = a.link[1].revision

\* At an endpoint is nobody, or a run that was started for it.
WorldSound(stat, list) ==
  /\ stat \in [Runs -> Statuses] /\ list \in [Endpoints -> Runs \cup {Nobody}]
  /\ \A e \in Endpoints : list[e] # Nobody =>
       EndpointOf[list[e]] = e /\ stat[list[e]] # "unborn"

\* The runs that a call has seen, and those that were well all the time.
CallSeen ==
  /\ query.seen \subseteq Runs /\ query.steady \subseteq Healthy(status, listed)
  /\ Present(listed) \subseteq query.seen
  /\ \A r \in query.seen : status[r] # "unborn"
  /\ RequiresRun(Plan.requirement) => query.ask.run # Nobody
  /\ query.at # "checking" => query.answer = NoAnswer

\* What was found: at each endpoint one, of those seen, and where it was asked for.
Founds ==
  /\ query.candidates \subseteq query.seen
  /\ \A r, s \in query.candidates : EndpointOf[r] = EndpointOf[s] => r = s
  /\ query.ask.endpoint # Nobody =>
       \A r \in query.candidates : EndpointOf[r] = query.ask.endpoint
  /\ query.rejected \in Nat /\ query.omitted \in Nat

\* Until the index is read: who is not found yet is still in it.
Reading ==
  /\ query.index \subseteq Endpoints
  /\ query.ask.endpoint # Nobody => query.index \subseteq {query.ask.endpoint}
  /\ \A r \in query.candidates : EndpointOf[r] \notin query.index
  /\ query.finished = {} /\ query.live = {} /\ query.stale = {}
  /\ query.at = "index" => query.candidates = {} /\ query.rejected = 0 /\ query.omitted = 0
  /\ query.at = "reading" =>
       query.omitted > 0 \/ \A r \in query.steady :
         Meant(r) => EndpointOf[r] \in query.index \/ r \in query.candidates

\* From then on: who is meant was found, and who was probed is accounted for.
Probing ==
  /\ query.ask.run # Nobody => query.candidates \subseteq {query.ask.run}
  /\ query.omitted > 0 \/ \A r \in query.steady : Meant(r) => r \in query.candidates
  /\ query.finished \subseteq query.candidates
  /\ query.live \subseteq query.finished /\ query.stale \subseteq query.finished
  /\ \A r \in query.stale : status[r] = "dead"
  /\ query.steady \cap query.finished \subseteq query.live
  /\ Cardinality(query.finished)
       <= Cardinality(query.live) + Cardinality(query.stale) + query.rejected
  /\ query.at = "selecting" => query.finished = query.candidates

\* The chosen one is meant, and nobody else could have been.
Chosen ==
  /\ query.chosen \in Runs /\ Meant(query.chosen) /\ Plan.requirement # "Discovery"
  /\ query.omitted > 0 \/ \A r \in query.steady : Meant(r) => r = query.chosen
  /\ query.at = "checking" =>
       /\ Plan.requirement = "Wait" /\ query.answer.run = Nobody
       /\ query.answer.kind \in {"unavailable", "refused"} /\ query.answer.page = << >>

\* What the properties say of an answer, at any time.
AnswerIsTrue ==
  /\ AnswererIsMeant /\ AbsenceIsTrue /\ RefusalIsTrue /\ PageIsTrue
  /\ query.answer.kind = "ok" /\ Plan.requirement = "Discovery" =>
       query.steady \subseteq query.live \/ (query.answer.warned /\ query.omitted > 0)

SelectionInv ==
  /\ DOMAIN query = QueryFields /\ query.at \in Phases /\ AskSound(query.ask)
  /\ revision \in [Runs -> 1..2] /\ (\A l \in links : LinkSound(l)) /\ ChangesAreMeant
  /\ AnswerIsTrue
  /\ query.at # "closed" => WorldSound(status, listed)
  /\ Working => CallSeen
  /\ query.at \in {"index", "reading", "probing", "selecting"} => Founds
  /\ query.at \in {"index", "reading"} => Reading
  /\ query.at \in {"probing", "selecting"} => Probing
  /\ query.at \in {"calling", "waiting", "checking"} => Chosen

\* What is assumed, in parts.
LEMMA RunsAreKnown ==
  /\ Nobody \notin Runs /\ Nobody \notin Endpoints /\ IsFiniteSet(Runs) /\ IsFiniteSet(Endpoints)
  /\ \A r \in Runs : EndpointOf[r] \in Endpoints /\ EndpointOf[r] \in Nat
  /\ IndexLimit \in Nat \ {0} /\ ProbeLimit \in Nat \ {0}
BY SelectionAssumption

(* What the broker relies on in the table of its tools. *)
ToolSound(f, t) ==
  /\ f[t].call.operation \in Mutating =>
       ~f[t].readOnly /\ f[t].call.requirement = "Mutation"
  /\ t = "read_body" => f[t].call.requirement = "Resource"
  /\ t = "list_instances" => f[t].call.requirement = "Discovery"
ToolsSound(f) == \A t \in DOMAIN f : ToolSound(f, t)

LEMMA JoinedIsSound ==
  ASSUME NEW f, NEW g, ToolsSound(f), ToolsSound(g)
  PROVE  ToolsSound(Joined(f, g)) /\ DOMAIN Joined(f, g) = DOMAIN f \cup DOMAIN g
<1>1. ASSUME NEW t \in DOMAIN f \cup DOMAIN g PROVE ToolSound(Joined(f, g), t)
  <2>1. CASE t \in DOMAIN f
    <3>1. Joined(f, g)[t] = f[t]
      BY <2>1 DEF Joined
    <3> QED BY <2>1, <3>1 DEF ToolsSound, ToolSound
  <2>2. CASE t \notin DOMAIN f
    <3>1. Joined(f, g)[t] = g[t] /\ t \in DOMAIN g
      BY <1>1, <2>2 DEF Joined
    <3> QED BY <3>1 DEF ToolsSound, ToolSound
  <2> QED BY <2>1, <2>2
<1>2. DOMAIN Joined(f, g) = DOMAIN f \cup DOMAIN g
  BY DEF Joined
<1> QED BY <1>1, <1>2 DEF ToolsSound

LEMMA AllToolsAreSound ==
  ToolsSound(Tools) /\ {"read_body", "list_instances"} \subseteq DOMAIN Tools
<1> USE DEF ToolsSound, ToolSound, Mutating, Reads, Adds, Sets, Deletes, Hinted, Sends
<1>1. ToolsSound(StatusTools) /\ "list_instances" \in DOMAIN StatusTools
  BY DEF StatusTools, ListInstances, GetBrokerStatus, GetStatus, SetRecordingEnabled
<1>2. ToolsSound(MappingReads)
  BY DEF MappingReads, GetMappingSettings, ValidateMappingSettings, ExplainMapping,
         PreviewMappingMutation
<1>3. ToolsSound(PresetTools)
  BY DEF PresetTools, MutateMapping
<1>4. ToolsSound(RuleTools)
  BY DEF RuleTools, MutateMapping
<1>5. ToolsSound(CaptureTools)
  BY DEF CaptureTools, SearchCaptures, GetCapture, WaitForCapture
<1>6. ToolsSound(BodyTools)
  BY DEF BodyTools, SearchCaptureBody, ExtractCaptureBody, FindJsonPointers,
         ProbeJsonPointerPattern
<1>7. ToolsSound(Resources) /\ "read_body" \in DOMAIN Resources
  BY DEF Resources, ReadBodyResource, ReadSelectionResource
<1> HIDE DEF ToolsSound, ToolSound, Mutating, Reads, Adds, Sets, Deletes, Hinted, Sends
<1>8. PICK a, b, c : /\ a = Joined(StatusTools, MappingReads) /\ b = Joined(PresetTools, RuleTools)
                     /\ c = Joined(CaptureTools, BodyTools)
  OBVIOUS
<1>9. /\ ToolsSound(a) /\ ToolsSound(b) /\ ToolsSound(c)
      /\ "list_instances" \in DOMAIN a
  BY <1>1, <1>2, <1>3, <1>4, <1>5, <1>6, <1>8, JoinedIsSound
<1>10. PICK f, g : f = Joined(a, b) /\ g = Joined(c, Resources)
  OBVIOUS
<1>11. /\ ToolsSound(f) /\ "list_instances" \in DOMAIN f
       /\ ToolsSound(g) /\ "read_body" \in DOMAIN g
  <2>1. ToolsSound(Joined(a, b)) /\ "list_instances" \in DOMAIN Joined(a, b)
    BY <1>9, JoinedIsSound
  <2>2. ToolsSound(Joined(c, Resources)) /\ "read_body" \in DOMAIN Joined(c, Resources)
    BY <1>7, <1>9, JoinedIsSound
  <2> QED BY <1>10, <2>1, <2>2
<1>12. /\ ToolsSound(Joined(f, g))
       /\ "list_instances" \in DOMAIN Joined(f, g) /\ "read_body" \in DOMAIN Joined(f, g)
  BY <1>11, JoinedIsSound
<1> QED
  BY <1>8, <1>10, <1>12 DEF Tools

\* The two numbers of a URI that the broker wrote are read back.
LEMMA NumbersAreRead ==
  ASSUME NEW o, NEW l, NEW q, q = <<<<"offset", o>>, <<"length", l>>>>
  PROVE  /\ \A d : ValueOf(q, "offset", d) = o /\ ValueOf(q, "length", d) = l
         /\ DOMAIN q = {1, 2} /\ q[1][1] = "offset" /\ q[2][1] = "length"
<1>1. Len(q) = 2 /\ q[1] = <<"offset", o>> /\ q[2] = <<"length", l>> /\ DOMAIN q = {1, 2}
  OBVIOUS
<1>2. {i \in 1..Len(q) : q[i][1] = "offset"} = {1}
  BY <1>1
<1>3. {i \in 1..Len(q) : q[i][1] = "length"} = {2}
  BY <1>1
<1>4. Min({1}) = 1 /\ Min({2}) = 2
  BY DEF Min
<1>5. SelectInSeq(q, LAMBDA pair : pair[1] = "offset") = 1
  BY <1>2, <1>4 DEF SelectInSeq
<1>6. SelectInSeq(q, LAMBDA pair : pair[1] = "length") = 2
  BY <1>3, <1>4 DEF SelectInSeq
<1>7. ASSUME NEW d PROVE ValueOf(q, "offset", d) = o /\ ValueOf(q, "length", d) = l
  BY <1>1, <1>5, <1>6 DEF ValueOf
<1> QED
  BY <1>1, <1>7

\* A link that the broker wrote is read back as it was.
LEMMA LinkIsReadBack ==
  ASSUME NEW l, LinkSound(l)
  PROVE  ParseUri(ToUri(l)) = <<l>>
<1>1. PICK q : q = <<<<"offset", l.offset>>, <<"length", l.length>>>>
  OBVIOUS
<1>2. PICK u : u = ToUri(l)
  OBVIOUS
<1>3. /\ u.spelled = TRUE /\ u.endpoint = l.endpoint /\ u.segments = ContentSegments
      /\ u.run = l.run /\ u.revision = l.revision /\ u.side = l.side
      /\ u.representation = l.representation /\ u.query = q
  BY <1>1, <1>2 DEF ToUri
<1>4. /\ ValueOf(q, "offset", 0) = l.offset /\ ValueOf(q, "length", DefaultLength) = l.length
      /\ DOMAIN q = {1, 2} /\ q[1][1] = "offset" /\ q[2][1] = "length"
  BY <1>1, NumbersAreRead
<1>5. WellFormed(u)
  BY <1>3, <1>4 DEF WellFormed, LinkSound
<1>6. ParseUri(u) = <<Link(l.endpoint, l.run, l.revision, l.side, l.representation,
                           l.offset, l.length)>>
  BY <1>3, <1>4, <1>5 DEF ParseUri
<1> QED
  BY <1>2, <1>6 DEF LinkSound

\* An instance at the first of the endpoints that are left is being probed.
LEMMA SomeoneIsProbed ==
  ASSUME query.candidates \subseteq Runs, Unfinished # {}
  PROVE  BeingProbed # {}
<1>1. Unfinished \subseteq Runs
  BY DEF Unfinished
<1> DEFINE Ends == {EndpointOf[r] : r \in Unfinished}
<1>2. Ends \subseteq Nat /\ Ends # {}
  <2>1. \A r \in Runs : EndpointOf[r] \in Nat
    BY RunsAreKnown
  <2> QED BY <1>1, <2>1
<1>3. PICK e \in Ends : \A x \in Ends : ~(<<x, e>> \in OpToRel(<, Nat))
  <2> HIDE DEF Ends
  <2> QED BY <1>2, NatLessThanWellFounded, WFMin
<1>4. \A x \in Ends : ~(x < e)
  BY <1>2, <1>3 DEF OpToRel
<1>5. PICK r \in Unfinished : EndpointOf[r] = e
  OBVIOUS
<1>6. {s \in Unfinished : EndpointOf[s] < EndpointOf[r]} = {}
  BY <1>4, <1>5
<1>7. Cardinality({s \in Unfinished : EndpointOf[s] < EndpointOf[r]}) = 0
  BY <1>6, FS_EmptySet
<1> QED
  BY <1>5, <1>7, RunsAreKnown DEF BeingProbed

LEMMA OnlyOne ==
  ASSUME NEW S, IsFiniteSet(S), Cardinality(S) <= 1, NEW r \in S
  PROVE  S = {r}
<1>1. IsFiniteSet(S \ {r}) /\ Cardinality(S \ {r}) = Cardinality(S) - 1
  BY FS_RemoveElement
<1>2. Cardinality(S) \in Nat /\ Cardinality(S \ {r}) \in Nat
  BY <1>1, FS_CardinalityType
<1>3. S \ {r} = {}
  BY <1>1, <1>2, FS_EmptySet
<1> QED BY <1>3

(* A step of the broker leaves all of the call but some fields alone. *)
But(fields) ==
  /\ DOMAIN query' = QueryFields
  /\ \A f \in QueryFields \ fields : query'[f] = query[f]

LEMMA ButKeeps ==
  ASSUME NEW F, But(F)
  PROVE  /\ "ask" \notin F => query'.ask = query.ask
         /\ "at" \notin F => query'.at = query.at
         /\ "index" \notin F => query'.index = query.index
         /\ "candidates" \notin F => query'.candidates = query.candidates
         /\ "finished" \notin F => query'.finished = query.finished
         /\ "live" \notin F => query'.live = query.live
         /\ "stale" \notin F => query'.stale = query.stale
         /\ "rejected" \notin F => query'.rejected = query.rejected
         /\ "omitted" \notin F => query'.omitted = query.omitted
         /\ "chosen" \notin F => query'.chosen = query.chosen
         /\ "answer" \notin F => query'.answer = query.answer
         /\ "steady" \notin F => query'.steady = query.steady
         /\ "seen" \notin F => query'.seen = query.seen
BY DEF But, QueryFields

LEMMA NoAnswerIs ==
  /\ NoAnswer.run = Nobody /\ NoAnswer.page = << >> /\ NoAnswer.kind = "none yet"
  /\ \A what : /\ Says(what).kind = what /\ Says(what).run = Nobody
               /\ Says(what).page = << >> /\ Says(what).next = << >>
BY DEF NoAnswer, Says

LEMMA NothingInIt ==
  ASSUME NEW p, p = << >>
  PROVE  DOMAIN p = {}
OBVIOUS

LEMMA NoPage ==
  ASSUME query'.answer.page = << >>
  PROVE  PageIsTrue'
<1>1. DOMAIN query'.answer.page = {}
  BY NothingInIt
<1> QED BY <1>1 DEF PageIsTrue

Harmless == {"none yet", "invalid", "refused", "revision conflict", "cancelled", "deadline"}

\* What is not said is not wrong.
LEMMA NothingIsWrong ==
  ASSUME query'.answer.run = Nobody, query'.answer.page = << >>,
         query'.answer.kind \in Harmless
  PROVE  AnswerIsTrue'
BY NoPage DEF AnswerIsTrue, AnswererIsMeant, AbsenceIsTrue, RefusalIsTrue, Harmless

LEMMA NothingSaid ==
  ASSUME NEW what \in Harmless, query'.answer = Says(what)
  PROVE  AnswerIsTrue'
BY NoAnswerIs, NothingIsWrong

LEMMA NothingYet ==
  ASSUME query'.answer = NoAnswer
  PROVE  AnswerIsTrue'
BY NoAnswerIs, NothingIsWrong DEF Harmless

\* The answer ends the call, and has to be true.
LEMMA AnswerEnds ==
  ASSUME SelectionInv, Working, NEW a, query' = Answered(query, a),
         AnswerIsTrue', ChangesAreMeant', \A l \in links' : LinkSound(l),
         UNCHANGED revision, WorldSound(status', listed')
  PROVE  SelectionInv'
<1>1. But({"at", "answer"}) /\ query'.at = "answered"
  BY DEF Answered, But, QueryFields, SelectionInv
<1>2. query'.ask = query.ask
  BY <1>1, ButKeeps
<1> QED
  BY <1>1, <1>2 DEF SelectionInv, Phases, Working, But

\* What happens to the instances, as far as they are kept apart by it.
LEMMA WorldKeeps ==
  ASSUME SelectionInv, NEW stat, NEW list, World(stat, list), WorldSound(stat, list),
         revision' \in [Runs -> 1..2],
         \A r \in Runs : /\ status[r] = "dead" => stat[r] = "dead"
                         /\ status[r] # "unborn" => stat[r] # "unborn"
  PROVE  SelectionInv'
<1>1. status' = stat /\ listed' = list /\ links' = links /\ changes' = changes
  BY DEF World
<1>2. ChangesAreMeant'
  BY <1>1 DEF SelectionInv, ChangesAreMeant
<1>3. CASE ~Working
  <2>1. query' = query
    BY <1>3 DEF World
  <2>2. AnswerIsTrue'
    BY <2>1 DEF SelectionInv, AnswerIsTrue, AnswererIsMeant, AbsenceIsTrue, RefusalIsTrue,
           PageIsTrue, Meant, Implicit, Plan
  <2> QED
    BY <1>1, <1>2, <1>3, <2>1, <2>2 DEF SelectionInv, Working
<1>4. CASE Working
  <2>1. /\ But({"steady", "seen"})
        /\ query'.steady = query.steady \cap Healthy(stat, list)
        /\ query'.seen = query.seen \cup Present(list)
    BY <1>4 DEF World, But, QueryFields, SelectionInv
  <2>2. /\ query'.ask = query.ask /\ query'.at = query.at /\ query'.index = query.index
        /\ query'.candidates = query.candidates /\ query'.finished = query.finished
        /\ query'.live = query.live /\ query'.stale = query.stale
        /\ query'.rejected = query.rejected /\ query'.omitted = query.omitted
        /\ query'.chosen = query.chosen /\ query'.answer = query.answer
    BY <2>1, ButKeeps
  <2>3. query'.steady \subseteq query.steady /\ query.seen \subseteq query'.seen
    BY <2>1
  <2>4. CallSeen
    BY <1>4 DEF SelectionInv
  <2>5. Present(list) \subseteq Runs /\ \A r \in Present(list) : stat[r] # "unborn"
    <3>1. ASSUME NEW r \in Present(list) PROVE stat[r] # "unborn"
      BY RunsAreKnown DEF Present, WorldSound
    <3> QED BY <3>1 DEF Present
  <2>6. CallSeen'
    <3>1. /\ query'.seen \subseteq Runs /\ \A r \in query'.seen : stat[r] # "unborn"
      BY <2>1, <2>4, <2>5 DEF CallSeen
    <3>2. /\ query'.steady \subseteq Healthy(stat, list) /\ Present(list) \subseteq query'.seen
      BY <2>1
    <3>3. /\ RequiresRun(Plan.requirement) => query.ask.run # Nobody
          /\ query.at # "checking" => query.answer = NoAnswer
      BY <2>4 DEF CallSeen
    <3> QED
      BY <1>1, <2>2, <3>1, <3>2, <3>3 DEF CallSeen, Plan
  <2>7. Founds => Founds'
    BY <2>2, <2>3 DEF Founds
  <2>8. Reading => Reading'
    BY <2>2, <2>3 DEF Reading, Meant
  <2>9. ASSUME Founds, Probing PROVE Probing'
    <3>1. \A r \in query.stale : r \in Runs
      BY <2>4, <2>9 DEF Founds, Probing, CallSeen
    <3>2. \A r \in query'.stale : stat[r] = "dead"
      BY <2>2, <2>9, <3>1 DEF Probing
    <3>3. /\ query'.steady \cap query'.finished \subseteq query'.live
          /\ query'.omitted > 0
               \/ \A r \in query'.steady : Meant(r)' => r \in query'.candidates
      BY <2>2, <2>3, <2>9 DEF Probing, Meant
    <3> QED
      BY <1>1, <2>2, <2>9, <3>2, <3>3 DEF Probing
  <2>10. Chosen => Chosen'
    BY <2>2, <2>3 DEF Chosen, Meant, Plan
  <2>11. AnswerIsTrue'
    <3>1. CASE query.at = "checking"
      <4>1. Chosen /\ AbsenceIsTrue
        BY <3>1 DEF SelectionInv, AnswerIsTrue
      <4>2. AbsenceIsTrue'
        BY <2>2, <2>3, <4>1 DEF AbsenceIsTrue, Meant
      <4>3. /\ query'.answer.run = Nobody /\ query'.answer.page = << >>
            /\ query'.answer.kind \in {"unavailable", "refused"}
        BY <2>2, <3>1, <4>1 DEF Chosen
      <4> QED
        BY <4>2, <4>3, NoPage DEF AnswerIsTrue, AnswererIsMeant, RefusalIsTrue
    <3>2. CASE query.at # "checking"
      <4>1. query'.answer = NoAnswer
        BY <2>2, <2>4, <3>2 DEF CallSeen
      <4> QED BY <4>1, NothingYet
    <3> QED BY <3>1, <3>2
  <2> QED
    BY <1>1, <1>2, <1>4, <2>1, <2>2, <2>6, <2>7, <2>8, <2>9, <2>10, <2>11
    DEF SelectionInv, Working, But
<1> QED BY <1>3, <1>4

(***************************************************************************)
(* The instances.                                                          *)
(***************************************************************************)
LEMMA InstancesKeep ==
  ASSUME SelectionInv, NEW r \in Runs,
         Publish(r) \/ Die(r) \/ Leave(r) \/ Trouble(r) \/ CaptureChanges(r)
  PROVE  SelectionInv'
<1>1. /\ WorldSound(status, listed) /\ revision \in [Runs -> 1..2]
      /\ status \in [Runs -> Statuses] /\ listed \in [Endpoints -> Runs \cup {Nobody}]
  BY DEF SelectionInv, Publish, Die, Leave, Trouble, CaptureChanges, World, WorldSound
<1>2. EndpointOf[r] \in Endpoints /\ r # Nobody
  BY RunsAreKnown
<1>3. ASSUME Publish(r) PROVE SelectionInv'
  <2>1. PICK stat, list : /\ stat = [status EXCEPT ![r] = "live"]
                          /\ list = [listed EXCEPT ![EndpointOf[r]] = r]
    OBVIOUS
  <2>2. WorldSound(stat, list)
    BY <1>1, <1>2, <2>1, RunsAreKnown DEF WorldSound, Statuses
  <2>3. World(stat, list) /\ revision' = revision
    BY <1>3, <2>1 DEF Publish
  <2>4. \A s \in Runs : /\ status[s] = "dead" => stat[s] = "dead"
                        /\ status[s] # "unborn" => stat[s] # "unborn"
    BY <1>1, <1>3, <2>1 DEF Publish
  <2> QED BY <1>1, <2>2, <2>3, <2>4, WorldKeeps
<1>4. ASSUME Die(r) PROVE SelectionInv'
  <2>1. PICK stat, list : stat = [status EXCEPT ![r] = "dead"] /\ list = listed
    OBVIOUS
  <2>2. WorldSound(stat, list)
    BY <1>1, <2>1 DEF WorldSound, Statuses
  <2>3. World(stat, list) /\ revision' = revision
    BY <1>4, <2>1 DEF Die
  <2>4. \A s \in Runs : /\ status[s] = "dead" => stat[s] = "dead"
                        /\ status[s] # "unborn" => stat[s] # "unborn"
    BY <1>1, <2>1
  <2> QED BY <1>1, <2>2, <2>3, <2>4, WorldKeeps
<1>5. ASSUME Leave(r) PROVE SelectionInv'
  <2>1. PICK stat, list : /\ stat = [status EXCEPT ![r] = "dead"]
                          /\ list = [listed EXCEPT ![EndpointOf[r]] = Nobody]
    OBVIOUS
  <2>2. WorldSound(stat, list)
    BY <1>1, <1>2, <2>1 DEF WorldSound, Statuses
  <2>3. World(stat, list) /\ revision' = revision
    BY <1>5, <2>1 DEF Leave
  <2>4. \A s \in Runs : /\ status[s] = "dead" => stat[s] = "dead"
                        /\ status[s] # "unborn" => stat[s] # "unborn"
    BY <1>1, <2>1
  <2> QED BY <1>1, <2>2, <2>3, <2>4, WorldKeeps
<1>6. ASSUME Trouble(r) PROVE SelectionInv'
  <2>1. PICK stat, list :
          /\ stat = [status EXCEPT ![r] = IF @ = "live" THEN "troubled" ELSE "live"]
          /\ list = listed
    OBVIOUS
  <2>2. WorldSound(stat, list)
    BY <1>1, <2>1 DEF WorldSound, Statuses
  <2>3. World(stat, list) /\ revision' = revision
    BY <1>6, <2>1 DEF Trouble
  <2>4. \A s \in Runs : /\ status[s] = "dead" => stat[s] = "dead"
                        /\ status[s] # "unborn" => stat[s] # "unborn"
    BY <1>1, <1>6, <2>1 DEF Trouble
  <2> QED BY <1>1, <2>2, <2>3, <2>4, WorldKeeps
<1>7. ASSUME CaptureChanges(r) PROVE SelectionInv'
  <2>1. World(status, listed) /\ revision' \in [Runs -> 1..2]
    BY <1>1, <1>7 DEF CaptureChanges
  <2> QED BY <1>1, <2>1, WorldKeeps
<1> QED BY <1>3, <1>4, <1>5, <1>6, <1>7

(***************************************************************************)
(* A call comes.                                                           *)
(***************************************************************************)
LEMMA AskIsSound ==
  ASSUME SelectionInv, NEW ask \in Asks \cup ResourceAsks
  PROVE  AskSound(ask)
<1>1. CASE ask \in Asks
  <2>1. AskAssumption(ask)
    BY <1>1, SelectionAssumption
  <2> QED BY <2>1 DEF AskAssumption, AskSound
<1>2. CASE ask \in ResourceAsks
  <2>1. PICK l \in links :
          ask = [tool |-> "read_body", endpoint |-> l.endpoint, run |-> l.run,
                 pin |-> l.revision, link |-> <<l>>]
    BY <1>2 DEF ResourceAsks
  <2>2. LinkSound(l)
    BY DEF SelectionInv
  <2>3. /\ ask.tool = "read_body" /\ ask.endpoint = l.endpoint /\ ask.run = l.run
        /\ ask.pin = l.revision /\ ask.link = <<l>> /\ ask.link[1] = l
    BY <2>1
  <2>4. /\ "read_body" \in DOMAIN Tools
        /\ Tools["read_body"].call.requirement = "Resource"
    BY AllToolsAreSound DEF ToolsSound, ToolSound
  <2>5. ask.run \in Runs /\ ask.endpoint \in Endpoints /\ ask.pin \in Nat
    BY <2>2, <2>3, RunsAreKnown DEF LinkSound
  <2> QED
    BY <2>2, <2>3, <2>4, <2>5 DEF AskSound
<1> QED BY <1>1, <1>2

LEMMA AskKeeps ==
  ASSUME SelectionInv, NEW ask \in Asks \cup ResourceAsks, Ask(ask)
  PROVE  SelectionInv'
<1>1. AskSound(ask)
  BY AskIsSound
<1>2. /\ UNCHANGED <<status, listed, revision, links, changes>>
      /\ WorldSound(status, listed) /\ ~Working
  BY DEF Ask, worldVars, SelectionInv, Working
<1>3. ChangesAreMeant' /\ revision' \in [Runs -> 1..2] /\ \A l \in links' : LinkSound(l)
  BY <1>2 DEF SelectionInv, ChangesAreMeant
<1>4. CASE query' = Answered(Fresh(ask, "answered"), Says("invalid"))
  <2>1. /\ DOMAIN query' = QueryFields /\ query'.ask = ask /\ query'.at = "answered"
        /\ query'.answer = Says("invalid")
    BY <1>4 DEF Answered, Fresh, QueryFields
  <2>2. AnswerIsTrue'
    BY <2>1, NothingSaid DEF Harmless
  <2> QED
    BY <1>1, <1>2, <1>3, <2>1, <2>2 DEF SelectionInv, Phases, Working
<1>5. CASE /\ query' = [Fresh(ask, "index") EXCEPT !.steady = Healthy(status, listed),
                                                   !.seen = Present(listed)]
           /\ ~(RequiresRun(Tools[ask.tool].call.requirement) /\ ask.run = Nobody)
  <2>1. /\ DOMAIN query' = QueryFields /\ query'.ask = ask /\ query'.at = "index"
        /\ query'.answer = NoAnswer /\ query'.steady = Healthy(status, listed)
        /\ query'.seen = Present(listed)
    BY <1>5 DEF Fresh, QueryFields
  <2>2. /\ query'.index = {} /\ query'.candidates = {} /\ query'.finished = {}
        /\ query'.live = {} /\ query'.stale = {} /\ query'.rejected = 0 /\ query'.omitted = 0
    BY <1>5 DEF Fresh
  <2>3. AnswerIsTrue'
    BY <2>1, NothingYet
  <2>4. CallSeen'
    <3>1. ASSUME NEW r \in Present(listed) PROVE r \in Runs /\ status[r] # "unborn"
      BY <1>2, RunsAreKnown DEF Present, WorldSound
    <3> QED
      BY <1>2, <1>5, <2>1, <3>1 DEF CallSeen, Plan
  <2>5. Founds' /\ Reading'
    BY <2>1, <2>2 DEF Founds, Reading
  <2> QED
    BY <1>1, <1>2, <1>3, <2>1, <2>3, <2>4, <2>5 DEF SelectionInv, Phases, Working
<1> QED
  BY <1>4, <1>5 DEF Ask

(***************************************************************************)
(* The broker looks who is there.                                          *)
(***************************************************************************)
Common ==
  /\ DOMAIN query = QueryFields /\ AskSound(query.ask)
  /\ revision \in [Runs -> 1..2] /\ (\A l \in links : LinkSound(l)) /\ ChangesAreMeant
  /\ AnswerIsTrue /\ WorldSound(status, listed) /\ CallSeen

\* What a step on the way leaves as it is.
LEMMA GoesOn ==
  ASSUME SelectionInv, Working, query.at # "checking", query'.at # "checking",
         NEW F, But(F), F \cap {"ask", "answer", "steady", "seen"} = {},
         UNCHANGED <<status, revision, links, changes>>, WorldSound(status, listed'),
         query.steady \subseteq Healthy(status, listed'), Present(listed') \subseteq query.seen
  PROVE  Common'
<1>1. /\ query'.ask = query.ask /\ query'.answer = query.answer
      /\ query'.steady = query.steady /\ query'.seen = query.seen
  BY ButKeeps
<1>2. CallSeen /\ query.answer = NoAnswer
  BY DEF SelectionInv, CallSeen
<1>3. CallSeen'
  BY <1>1, <1>2 DEF CallSeen, Plan
<1>4. AnswerIsTrue'
  BY <1>1, <1>2, NothingYet
<1>5. ChangesAreMeant'
  BY DEF SelectionInv, ChangesAreMeant
<1> QED
  BY <1>1, <1>3, <1>4, <1>5 DEF Common, SelectionInv, But

\* The same of a step that only looks.
LEMMA LooksOn ==
  ASSUME SelectionInv, Working, query.at # "checking", query'.at # "checking",
         NEW F, But(F), F \cap {"ask", "answer", "steady", "seen"} = {},
         Calling, UNCHANGED listed
  PROVE  Common'
<1>1. /\ UNCHANGED <<status, revision, links, changes>> /\ WorldSound(status, listed')
      /\ query.steady \subseteq Healthy(status, listed') /\ Present(listed') \subseteq query.seen
  BY DEF SelectionInv, CallSeen, Calling, Working
<1> QED BY <1>1, GoesOn

\* An answer of a broker that only looks.
LEMMA LooksAndAnswers ==
  ASSUME SelectionInv, Working, NEW a, query' = Answered(query, a), AnswerIsTrue',
         Calling, UNCHANGED listed
  PROVE  SelectionInv'
<1>1. /\ UNCHANGED <<status, revision, links, changes>> /\ WorldSound(status', listed')
      /\ \A l \in links' : LinkSound(l)
  BY DEF SelectionInv, Calling, Working
<1>2. ChangesAreMeant'
  BY <1>1 DEF SelectionInv, ChangesAreMeant
<1> QED BY <1>1, <1>2, AnswerEnds

\* What an answer leaves as it is.
LEMMA AnsweredIs ==
  ASSUME SelectionInv, NEW a, query' = Answered(query, a)
  PROVE  /\ query'.at = "answered" /\ query'.answer = a /\ query'.ask = query.ask
         /\ query'.steady = query.steady /\ query'.seen = query.seen
         /\ query'.live = query.live /\ query'.omitted = query.omitted
<1>1. But({"at", "answer"}) /\ query'.at = "answered" /\ query'.answer = a
  BY DEF Answered, But, QueryFields, SelectionInv
<1> QED BY <1>1, ButKeeps

\* Who was well all the time is in an index that was read whole.
LEMMA IndexIsWhole ==
  ASSUME NEW part \in SUBSET Endpoints, NEW entries \in SUBSET Endpoints,
         part \subseteq entries,
         Cardinality(part) = IF Cardinality(entries) > IndexLimit
                             THEN IndexLimit ELSE Cardinality(entries)
  PROVE  /\ Cardinality(entries \ part) \in Nat
         /\ Cardinality(entries \ part) > 0 \/ part = entries
<1>1. /\ IsFiniteSet(entries) /\ IsFiniteSet(part) /\ IsFiniteSet(entries \ part)
      /\ Cardinality(entries \ part) \in Nat
  BY RunsAreKnown, FS_Subset, FS_CardinalityType
<1>2. Cardinality(entries \ part) = 0 => entries \ part = {}
  BY <1>1, FS_EmptySet
<1> QED BY <1>1, <1>2

LEMMA ReadIndexKeeps ==
  ASSUME SelectionInv, ReadIndex
  PROVE  SelectionInv'
<1> DEFINE entries == {e \in Endpoints : listed[e] # Nobody}
<1>1. query.at = "index" /\ Working /\ Calling /\ UNCHANGED listed
  BY DEF ReadIndex, Looks, Working
<1>2. CallSeen /\ Founds /\ Reading /\ WorldSound(status, listed) /\ AskSound(query.ask)
  BY <1>1 DEF SelectionInv, Working
<1>3. PICK part, missing :
        /\ query' = [query EXCEPT !.at = "reading", !.index = part, !.omitted = missing]
        /\ part \subseteq Endpoints /\ missing \in Nat
        /\ query.ask.endpoint # Nobody => part \subseteq {query.ask.endpoint}
        /\ \/ missing > 0
           \/ \A r \in query.steady : Meant(r) => EndpointOf[r] \in part
  <2>1. \A r \in query.steady : EndpointOf[r] \in entries
    BY <1>2, RunsAreKnown DEF CallSeen, Healthy
  <2>2. CASE query.ask.endpoint # Nobody
    <3>1. query.ask.endpoint \in Endpoints
      BY <1>2, <2>2 DEF AskSound
    <3>2. query' = [query EXCEPT !.at = "reading", !.index = {query.ask.endpoint}]
      BY <2>2 DEF ReadIndex
    <3>3. query' = [query EXCEPT !.at = "reading", !.index = {query.ask.endpoint},
                                 !.omitted = query.omitted]
      BY <3>2 DEF SelectionInv
    <3>4. \A r \in query.steady : Meant(r) => EndpointOf[r] \in {query.ask.endpoint}
      BY <2>2 DEF Meant
    <3>5. PICK part, missing : part = {query.ask.endpoint} /\ missing = query.omitted
      OBVIOUS
    <3>6. query' = [query EXCEPT !.at = "reading", !.index = part, !.omitted = missing]
      BY <3>3, <3>5
    <3>7. part \subseteq Endpoints /\ missing \in Nat
      BY <1>2, <3>1, <3>5 DEF Founds
    <3> QED
      BY <3>4, <3>5, <3>6, <3>7
  <2>3. CASE query.ask.endpoint = Nobody
    <3>1. PICK part \in SUBSET entries :
            /\ Cardinality(part) = IF Cardinality(entries) > IndexLimit
                                   THEN IndexLimit ELSE Cardinality(entries)
            /\ query' = [query EXCEPT !.at = "reading", !.index = part,
                                      !.omitted = Cardinality(entries \ part)]
      BY <2>3 DEF ReadIndex
    <3>2. /\ Cardinality(entries \ part) \in Nat
          /\ Cardinality(entries \ part) > 0 \/ part = entries
      <4>1. part \in SUBSET Endpoints /\ entries \in SUBSET Endpoints /\ part \subseteq entries
        OBVIOUS
      <4> HIDE DEF entries
      <4> QED BY <3>1, <4>1, IndexIsWhole
    <3> QED
      BY <2>1, <2>3, <3>1, <3>2
  <2> QED BY <2>2, <2>3
<1>4. /\ But({"at", "index", "omitted"}) /\ query'.at = "reading" /\ query'.index = part
      /\ query'.omitted = missing
  BY <1>3 DEF But, QueryFields, SelectionInv
<1>5. /\ query'.ask = query.ask /\ query'.steady = query.steady /\ query'.seen = query.seen
      /\ query'.candidates = query.candidates /\ query'.finished = query.finished
      /\ query'.live = query.live /\ query'.stale = query.stale
      /\ query'.rejected = query.rejected
  BY <1>4, ButKeeps
<1>6. Common'
  BY <1>1, <1>4, LooksOn
<1>7. Founds'
  BY <1>2, <1>3, <1>4, <1>5 DEF Founds
<1>8. Reading'
  BY <1>1, <1>2, <1>3, <1>4, <1>5 DEF Reading, Meant
<1> QED
  BY <1>4, <1>6, <1>7, <1>8 DEF Common, SelectionInv, Phases

LEMMA ReadDescriptorKeeps ==
  ASSUME SelectionInv, NEW e \in Endpoints, ReadDescriptor(e)
  PROVE  SelectionInv'
<1>1. query.at = "reading" /\ Working /\ Calling /\ UNCHANGED listed /\ e \in query.index
  BY DEF ReadDescriptor, Looks, Working
<1>2. CallSeen /\ Founds /\ Reading /\ WorldSound(status, listed) /\ AskSound(query.ask)
  BY <1>1 DEF SelectionInv, Working
<1>3. PICK found, bad :
        /\ found = IF listed[e] = Nobody THEN query.candidates
                   ELSE query.candidates \cup {listed[e]}
        /\ bad = IF listed[e] = Nobody /\ query.ask.endpoint = Nobody
                 THEN query.rejected + 1 ELSE query.rejected
  OBVIOUS
<1>4. /\ But({"index", "candidates", "rejected"}) /\ query'.index = query.index \ {e}
      /\ query'.candidates = found /\ query'.rejected = bad
  BY <1>3 DEF ReadDescriptor, But, QueryFields, SelectionInv
<1>5. /\ query'.ask = query.ask /\ query'.steady = query.steady /\ query'.seen = query.seen
      /\ query'.finished = query.finished /\ query'.at = query.at
      /\ query'.live = query.live /\ query'.stale = query.stale
      /\ query'.omitted = query.omitted
  BY <1>4, ButKeeps
<1>6. Common'
  BY <1>1, <1>4, <1>5, LooksOn
<1>7. \A r \in found : r \in query.candidates \/ (r = listed[e] /\ listed[e] # Nobody)
  BY <1>3
<1>8. listed[e] # Nobody => /\ listed[e] \in Runs /\ EndpointOf[listed[e]] = e
                            /\ listed[e] \in query.seen
  BY <1>2 DEF WorldSound, CallSeen, Present
<1>9. Founds'
  <2>1. found \subseteq query.seen
    BY <1>2, <1>7, <1>8 DEF Founds
  <2>2. \A r, s \in found : EndpointOf[r] = EndpointOf[s] => r = s
    BY <1>1, <1>2, <1>7, <1>8 DEF Founds, Reading
  <2>3. query.ask.endpoint # Nobody => \A r \in found : EndpointOf[r] = query.ask.endpoint
    BY <1>1, <1>2, <1>7, <1>8 DEF Founds, Reading
  <2>4. bad \in Nat /\ query.omitted \in Nat
    BY <1>2, <1>3 DEF Founds
  <2> QED BY <1>4, <1>5, <2>1, <2>2, <2>3, <2>4 DEF Founds
<1>10. Reading'
  <2>1. \A r \in found : EndpointOf[r] \notin query'.index
    BY <1>2, <1>4, <1>7, <1>8 DEF Reading
  <2>2. \A r \in query.steady : EndpointOf[r] = e => r \in found
    BY <1>2, <1>3, RunsAreKnown DEF CallSeen, Healthy
  <2>3. query.omitted > 0 \/ \A r \in query.steady :
          Meant(r) => EndpointOf[r] \in query'.index \/ r \in found
    BY <1>1, <1>2, <1>3, <1>4, <2>2 DEF Reading
  <2> QED BY <1>1, <1>2, <1>4, <1>5, <2>1, <2>3 DEF Reading, Meant
<1> QED
  BY <1>1, <1>5, <1>6, <1>9, <1>10 DEF Common, SelectionInv, Phases

LEMMA ScannedKeeps ==
  ASSUME SelectionInv, Scanned
  PROVE  SelectionInv'
<1>1. query.at = "reading" /\ Working /\ Calling /\ UNCHANGED listed /\ query.index = {}
  BY DEF Scanned, Looks, Working
<1>2. CallSeen /\ Founds /\ Reading /\ WorldSound(status, listed) /\ AskSound(query.ask)
  BY <1>1 DEF SelectionInv, Working
<1>3. query.omitted > 0 \/ \A r \in query.steady : Meant(r) => r \in query.candidates
  BY <1>1, <1>2 DEF Reading
<1>4. CASE /\ query.ask.endpoint # Nobody /\ query.ask.run # Nobody
           /\ query.candidates \ {query.ask.run} # {}
           /\ query' = Answered(query, Says("conflict"))
  <2>1. /\ query'.answer = Says("conflict") /\ query'.ask = query.ask
        /\ query'.steady = query.steady /\ query'.seen = query.seen
        /\ query'.omitted = query.omitted
    BY <1>4, AnsweredIs
  <2>2. PICK other \in query.candidates : other # query.ask.run
    BY <1>4
  <2>3. EndpointOf[other] = query.ask.endpoint /\ other \in query.seen
    BY <1>2, <1>4 DEF Founds
  <2>4. query.omitted > 0 \/ \A r \in query.steady : ~Meant(r)
    <3>1. ASSUME NEW r \in query.candidates, Meant(r) PROVE FALSE
      <4>1. r = query.ask.run /\ EndpointOf[r] = query.ask.endpoint
        BY <1>4, <3>1 DEF Meant
      <4> QED BY <1>2, <2>2, <2>3, <4>1 DEF Founds
    <3> QED BY <1>3, <3>1
  <2>5. /\ query'.answer.kind = "conflict" /\ query'.answer.run = Nobody
        /\ query'.answer.page = << >>
    BY <2>1, NoAnswerIs
  <2>6. AbsenceIsTrue'
    BY <2>1, <2>4 DEF AbsenceIsTrue, Meant
  <2>7. RefusalIsTrue'
    BY <2>1, <2>2, <2>3, <2>5 DEF RefusalIsTrue
  <2>8. AnswerIsTrue'
    BY <2>5, <2>6, <2>7, NoPage DEF AnswerIsTrue, AnswererIsMeant
  <2> QED
    BY <1>1, <1>4, <2>8, LooksAndAnswers
<1>5. CASE query' = [query EXCEPT !.at = "probing", !.candidates =
                       IF query.ask.run = Nobody THEN query.candidates
                       ELSE query.candidates \cap {query.ask.run}]
  <2>1. /\ But({"at", "candidates"}) /\ query'.at = "probing"
        /\ query'.candidates = IF query.ask.run = Nobody THEN query.candidates
                               ELSE query.candidates \cap {query.ask.run}
    BY <1>5 DEF But, QueryFields, SelectionInv
  <2>2. /\ query'.ask = query.ask /\ query'.steady = query.steady /\ query'.seen = query.seen
        /\ query'.finished = query.finished /\ query'.live = query.live
        /\ query'.stale = query.stale /\ query'.rejected = query.rejected
        /\ query'.omitted = query.omitted
    BY <2>1, ButKeeps
  <2>3. Common'
    BY <1>1, <2>1, LooksOn
  <2>4. query'.candidates \subseteq query.candidates
    BY <2>1
  <2>5. Founds'
    BY <1>2, <2>2, <2>4 DEF Founds
  <2>6. query.omitted > 0 \/ \A r \in query.steady : Meant(r) => r \in query'.candidates
    BY <1>3, <2>1 DEF Meant
  <2>7. /\ query'.finished = {} /\ query'.live = {} /\ query'.stale = {}
        /\ Cardinality({}) = 0 /\ query.rejected \in Nat
    BY <1>2, <2>2, FS_EmptySet DEF Reading, Founds
  <2>8. Probing'
    BY <2>1, <2>2, <2>6, <2>7 DEF Probing, Meant
  <2> QED
    BY <2>1, <2>3, <2>5, <2>8 DEF Common, SelectionInv, Phases
<1> QED
  BY <1>4, <1>5 DEF Scanned

(***************************************************************************)
(* The broker probes whom it found, and forgets who is dead.               *)
(***************************************************************************)
LEMMA ProbeEndsKeeps ==
  ASSUME SelectionInv, NEW r \in Runs, ProbeEnds(r)
  PROVE  SelectionInv'
<1>1. query.at = "probing" /\ Working /\ Calling /\ UNCHANGED listed /\ r \in Unfinished
  BY DEF ProbeEnds, BeingProbed, Working
<1>2. CallSeen /\ Founds /\ Probing /\ WorldSound(status, listed) /\ AskSound(query.ask)
  BY <1>1 DEF SelectionInv, Working
<1>3. r \in query.candidates /\ r \notin query.finished /\ status[r] \in Statuses \ {"unborn"}
  BY <1>1, <1>2 DEF Unfinished, Founds, CallSeen, WorldSound
<1>4. PICK live, stale, bad :
        /\ live = IF status[r] = "live" THEN query.live \cup {r} ELSE query.live
        /\ stale = IF status[r] = "dead" THEN query.stale \cup {r} ELSE query.stale
        /\ bad = IF status[r] = "troubled" THEN query.rejected + 1 ELSE query.rejected
  OBVIOUS
<1>5. /\ But({"finished", "live", "stale", "rejected"})
      /\ query'.finished = query.finished \cup {r}
      /\ query'.live = live /\ query'.stale = stale /\ query'.rejected = bad
  BY <1>4 DEF ProbeEnds, But, QueryFields, SelectionInv
<1>6. /\ query'.ask = query.ask /\ query'.steady = query.steady /\ query'.seen = query.seen
      /\ query'.candidates = query.candidates /\ query'.at = query.at
      /\ query'.omitted = query.omitted
  BY <1>5, ButKeeps
<1>7. Common'
  BY <1>1, <1>5, <1>6, LooksOn
<1>8. Founds'
  BY <1>2, <1>4, <1>5, <1>6 DEF Founds
<1>9. /\ IsFiniteSet(query.finished) /\ IsFiniteSet(query.live) /\ IsFiniteSet(query.stale)
      /\ Cardinality(query.finished) \in Nat /\ Cardinality(query.live) \in Nat
      /\ Cardinality(query.stale) \in Nat
  <2>1. /\ query.finished \subseteq Runs /\ query.live \subseteq Runs
        /\ query.stale \subseteq Runs
    BY <1>2 DEF Probing, Founds, CallSeen
  <2> QED BY <2>1, RunsAreKnown, FS_Subset, FS_CardinalityType
<1>10. Cardinality(query.finished \cup {r}) <= Cardinality(live) + Cardinality(stale) + bad
  <2>1. r \notin query.live /\ r \notin query.stale
    BY <1>2, <1>3 DEF Probing
  <2>2. /\ Cardinality(query.finished \cup {r}) = Cardinality(query.finished) + 1
        /\ Cardinality(query.live \cup {r}) = Cardinality(query.live) + 1
        /\ Cardinality(query.stale \cup {r}) = Cardinality(query.stale) + 1
    BY <1>3, <1>9, <2>1, FS_AddElement
  <2>3. /\ Cardinality(query.finished)
             <= Cardinality(query.live) + Cardinality(query.stale) + query.rejected
        /\ query.rejected \in Nat
    BY <1>2 DEF Probing, Founds
  <2>4. CASE status[r] = "live"
    BY <1>4, <1>9, <2>2, <2>3, <2>4
  <2>5. CASE status[r] = "dead"
    BY <1>4, <1>9, <2>2, <2>3, <2>5
  <2>6. CASE status[r] = "troubled"
    BY <1>4, <1>9, <2>2, <2>3, <2>6
  <2> QED BY <1>3, <2>4, <2>5, <2>6 DEF Statuses
<1>11. Probing'
  <2>1. /\ query.finished \cup {r} \subseteq query.candidates
        /\ live \subseteq query.finished \cup {r} /\ stale \subseteq query.finished \cup {r}
    BY <1>2, <1>3, <1>4 DEF Probing
  <2>2. \A s \in stale : status[s] = "dead"
    BY <1>2, <1>4 DEF Probing
  <2>3. query.steady \cap (query.finished \cup {r}) \subseteq live
    BY <1>2, <1>4 DEF Probing, CallSeen, Healthy
  <2>4. status' = status
    BY <1>1 DEF Calling
  <2> QED
    BY <1>1, <1>2, <1>5, <1>6, <1>10, <2>1, <2>2, <2>3, <2>4 DEF Probing, Meant
<1> QED
  BY <1>1, <1>6, <1>7, <1>8, <1>11 DEF Common, SelectionInv, Phases

LEMMA PruneKeeps ==
  ASSUME SelectionInv, Prune
  PROVE  SelectionInv'
<1>1. query.at = "probing" /\ Working /\ Calling /\ BeingProbed = {}
  BY DEF Prune, Working
<1>2. CallSeen /\ Founds /\ Probing /\ WorldSound(status, listed) /\ AskSound(query.ask)
  BY <1>1 DEF SelectionInv, Working
<1>3. query.finished = query.candidates
  <2>1. Unfinished = {}
    BY <1>1, <1>2, SomeoneIsProbed DEF Founds, CallSeen
  <2> QED BY <1>2, <2>1 DEF Unfinished, Probing
<1>4. PICK bad : /\ query' = [query EXCEPT !.at = "selecting", !.rejected = bad]
                 /\ bad \in Nat /\ bad >= query.rejected
                 /\ listed' = Pruned(query.stale) \/ listed' = listed
  <2>1. CASE query' = [query EXCEPT !.at = "selecting"] /\ listed' = Pruned(query.stale)
    <3>1. query' = [query EXCEPT !.at = "selecting", !.rejected = query.rejected]
      BY <2>1 DEF SelectionInv
    <3>2. PICK bad : bad = query.rejected
      OBVIOUS
    <3>3. query' = [query EXCEPT !.at = "selecting", !.rejected = bad]
      BY <3>1, <3>2
    <3>4. bad \in Nat /\ bad >= query.rejected
      BY <1>2, <3>2 DEF Founds
    <3> QED BY <2>1, <3>3, <3>4
  <2>2. CASE query' = [query EXCEPT !.at = "selecting", !.rejected = @ + 1] /\ UNCHANGED listed
    <3>1. PICK bad : bad = query.rejected + 1
      OBVIOUS
    <3>2. query' = [query EXCEPT !.at = "selecting", !.rejected = bad]
      BY <2>2, <3>1 DEF SelectionInv
    <3>3. bad \in Nat /\ bad >= query.rejected
      BY <1>2, <3>1 DEF Founds
    <3> QED BY <2>2, <3>2, <3>3
  <2> QED BY <2>1, <2>2 DEF Prune
<1>5. /\ But({"at", "rejected"}) /\ query'.at = "selecting" /\ query'.rejected = bad
  BY <1>4 DEF But, QueryFields, SelectionInv
<1>6. /\ query'.ask = query.ask /\ query'.steady = query.steady /\ query'.seen = query.seen
      /\ query'.candidates = query.candidates /\ query'.finished = query.finished
      /\ query'.live = query.live /\ query'.stale = query.stale
      /\ query'.omitted = query.omitted
  BY <1>5, ButKeeps
<1>7. /\ WorldSound(status, listed') /\ query.steady \subseteq Healthy(status, listed')
      /\ Present(listed') \subseteq query.seen
  <2>1. CASE listed' = listed
    BY <1>2, <2>1 DEF CallSeen
  <2>2. CASE listed' = Pruned(query.stale)
    <3>1. /\ listed' \in [Endpoints -> Runs \cup {Nobody}]
          /\ \A e \in Endpoints : listed'[e] # Nobody => listed'[e] = listed[e]
      BY <1>2, <2>2 DEF Pruned, WorldSound
    <3>2. WorldSound(status, listed')
      BY <1>2, <3>1 DEF WorldSound
    <3>3. ASSUME NEW r \in query.steady PROVE r \in Healthy(status, listed')
      <4>1. /\ r \in Runs /\ status[r] = "live" /\ listed[EndpointOf[r]] = r
            /\ EndpointOf[r] \in Endpoints
        BY <1>2, <3>3, RunsAreKnown DEF CallSeen, Healthy
      <4>2. r \notin query.stale
        BY <1>2, <4>1 DEF Probing
      <4>3. listed'[EndpointOf[r]] = r
        BY <2>2, <4>1, <4>2 DEF Pruned
      <4> QED BY <4>1, <4>3 DEF Healthy
    <3>4. Present(listed') \subseteq query.seen
      BY <1>2, <3>1, RunsAreKnown DEF CallSeen, Present
    <3> QED BY <3>2, <3>3, <3>4
  <2> QED BY <1>4, <2>1, <2>2
<1>8. Common'
  <2>1. UNCHANGED <<status, revision, links, changes>> /\ query'.at # "checking"
    BY <1>1, <1>5 DEF Calling
  <2> QED BY <1>1, <1>5, <1>7, <2>1, GoesOn
<1>9. Founds'
  BY <1>2, <1>4, <1>5, <1>6 DEF Founds
<1>10. Probing'
  <2>1. status' = status
    BY <1>1 DEF Calling
  <2>2. /\ Cardinality(query.finished) \in Nat /\ Cardinality(query.live) \in Nat
        /\ Cardinality(query.stale) \in Nat
    <3>1. /\ query.finished \subseteq Runs /\ query.live \subseteq Runs
          /\ query.stale \subseteq Runs
      BY <1>2 DEF Probing, Founds, CallSeen
    <3> QED BY <3>1, RunsAreKnown, FS_Subset, FS_CardinalityType
  <2>3. Cardinality(query.finished)
          <= Cardinality(query.live) + Cardinality(query.stale) + bad
    BY <1>2, <1>4, <2>2 DEF Probing, Founds
  <2> QED
    BY <1>2, <1>3, <1>5, <1>6, <2>1, <2>3 DEF Probing, Meant
<1> QED
  BY <1>5, <1>8, <1>9, <1>10 DEF Common, SelectionInv, Phases

(***************************************************************************)
(* The broker selects.                                                     *)
(***************************************************************************)
LEMMA LiveAreMeant ==
  ASSUME CallSeen, Founds, Probing, query.at = "selecting"
  PROVE  /\ query.live \subseteq query.seen /\ query.live \subseteq Runs
         /\ \A r \in query.live : Meant(r)
         /\ query.ask.endpoint # Nobody => \A r, s \in query.live : r = s
         /\ query.ask.run # Nobody => \A r, s \in query.live : r = s
         /\ query.omitted > 0 \/ \A r \in query.steady : Meant(r) => r \in query.live
<1>1. query.live \subseteq query.candidates /\ query.candidates \subseteq Runs
  BY DEF Probing, Founds, CallSeen
<1>2. \A r \in query.live : Meant(r)
  BY <1>1 DEF Meant, Probing, Founds
<1>3. query.omitted > 0 \/ \A r \in query.steady : Meant(r) => r \in query.live
  BY DEF Probing
<1> QED BY <1>1, <1>2, <1>3 DEF Founds, Probing

Refuses ==
  /\ Selected.run = Nobody /\ Selected.page = << >>
  /\ \/ Selected.kind \in {"no instances", "not found", "unavailable"} /\ query.live = {}
     \/ Selected.kind = "instance required" /\ Implicit /\ Cardinality(query.live) > 1

Selects ==
  /\ Selected.run \in query.live
  /\ query.omitted > 0 \/ \A r \in query.steady : Meant(r) => r = Selected.run

LEMMA SelectedIs ==
  ASSUME CallSeen, Founds, Probing, query.at = "selecting"
  PROVE  Refuses \/ Selects
<1>1. /\ query.live \subseteq Runs
      /\ query.ask.endpoint # Nobody => \A r, s \in query.live : r = s
      /\ query.ask.run # Nobody => \A r, s \in query.live : r = s
      /\ query.omitted > 0 \/ \A r \in query.steady : Meant(r) => r \in query.live
  BY LiveAreMeant
<1>2. \A what : Says(what).kind = what /\ Says(what).run = Nobody /\ Says(what).page = << >>
  BY NoAnswerIs
<1>3. PICK first : first = CHOOSE r \in query.live : TRUE
  OBVIOUS
<1>4. query.live # {} => first \in query.live
  BY <1>3
<1>5. [NoAnswer EXCEPT !.run = first].run = first
  BY DEF NoAnswer
<1>6. CASE query.ask.endpoint # Nobody
  <2>1. Selected = SelectAt
    BY <1>6 DEF Selected
  <2> QED
    BY <1>1, <1>2, <1>3, <1>4, <1>5, <1>6, <2>1 DEF SelectAt, Refuses, Selects
<1>7. CASE query.ask.endpoint = Nobody /\ query.ask.run # Nobody
  <2>1. Selected = SelectRun
    BY <1>7 DEF Selected
  <2> QED
    BY <1>1, <1>2, <1>3, <1>4, <1>5, <1>7, <2>1 DEF SelectRun, Refuses, Selects
<1>8. CASE Implicit
  <2>1. Selected = SelectOnly
    BY <1>8 DEF Selected, Implicit
  <2>2. CASE query.live = {}
    BY <1>2, <2>1, <2>2 DEF SelectOnly, Refuses
  <2>3. CASE query.live # {} /\ Cardinality(query.live) > 1
    BY <1>2, <1>8, <2>1, <2>3 DEF SelectOnly, Refuses
  <2>4. CASE query.live # {} /\ ~(Cardinality(query.live) > 1)
    <3>1. IsFiniteSet(query.live) /\ Cardinality(query.live) \in Nat
      BY <1>1, RunsAreKnown, FS_Subset, FS_CardinalityType
    <3>2. query.live = {first}
      BY <1>4, <2>4, <3>1, OnlyOne
    <3>3. Selected.run = first
      BY <1>3, <1>5, <2>1, <2>4 DEF SelectOnly
    <3> QED BY <1>1, <3>2, <3>3 DEF Selects
  <2> QED BY <2>2, <2>3, <2>4
<1> QED BY <1>6, <1>7, <1>8 DEF Implicit

LEMMA SelectKeeps ==
  ASSUME SelectionInv, Select
  PROVE  SelectionInv'
<1>1. query.at = "selecting" /\ Working /\ Calling /\ UNCHANGED listed
  BY DEF Select, Looks, Working
<1>2. CallSeen /\ Founds /\ Probing /\ WorldSound(status, listed) /\ AskSound(query.ask)
  BY <1>1 DEF SelectionInv, Working
<1>3. /\ query.live \subseteq query.seen /\ query.live \subseteq Runs
      /\ \A r \in query.live : Meant(r)
      /\ query.omitted > 0 \/ \A r \in query.steady : Meant(r) => r \in query.live
  BY <1>1, <1>2, LiveAreMeant
<1>4. CASE /\ Plan.requirement = "Discovery"
           /\ query' = Answered(query, [Says("ok") EXCEPT !.warned = Degraded])
  <2>1. PICK a : a = [Says("ok") EXCEPT !.warned = Degraded]
    OBVIOUS
  <2>2. /\ a.kind = "ok" /\ a.run = Nobody /\ a.page = << >> /\ a.warned = Degraded
    BY <2>1 DEF Says, NoAnswer
  <2>3. query' = Answered(query, a)
    BY <1>4, <2>1
  <2>4. /\ query'.answer = a /\ query'.steady = query.steady /\ query'.live = query.live
        /\ query'.omitted = query.omitted
    BY <2>3, AnsweredIs
  <2>5. query.ask.endpoint = Nobody /\ query.ask.run = Nobody
    BY <1>2, <1>4 DEF AskSound, Plan
  <2>6. \A r \in query.steady : Meant(r)
    BY <2>5 DEF Meant
  <2>7. query.steady \subseteq query.live \/ (a.warned /\ query.omitted > 0)
    BY <1>3, <2>2, <2>6 DEF Degraded
  <2>8. PageIsTrue'
    BY <2>2, <2>4, NoPage
  <2>9. AnswererIsMeant' /\ AbsenceIsTrue' /\ RefusalIsTrue'
    BY <2>2, <2>4 DEF AnswererIsMeant, AbsenceIsTrue, RefusalIsTrue
  <2>10. AnswerIsTrue'
    BY <2>4, <2>7, <2>8, <2>9 DEF AnswerIsTrue
  <2> QED BY <1>1, <2>3, <2>10, LooksAndAnswers
<1>5. CASE Selected.run = Nobody /\ query' = Answered(query, Selected)
  <2>1. /\ query'.answer = Selected /\ query'.steady = query.steady /\ query'.seen = query.seen
        /\ query'.ask = query.ask /\ query'.omitted = query.omitted
    BY <1>5, AnsweredIs
  <2>2. Refuses
    BY <1>1, <1>2, <1>3, <1>5, SelectedIs, RunsAreKnown DEF Selects
  <2>3. AnswererIsMeant' /\ PageIsTrue'
    BY <2>1, <2>2, NoPage DEF Refuses, AnswererIsMeant
  <2>4. AbsenceIsTrue'
    BY <1>3, <2>1, <2>2 DEF Refuses, AbsenceIsTrue, Meant
  <2>5. RefusalIsTrue'
    <3>1. IsFiniteSet(query.seen)
      BY <1>2, RunsAreKnown, FS_Subset DEF CallSeen
    <3>2. /\ Cardinality(query.live) <= Cardinality(query.seen)
          /\ Cardinality(query.live) \in Nat /\ Cardinality(query.seen) \in Nat
      BY <1>3, <3>1, FS_Subset, FS_CardinalityType
    <3>3. Cardinality(query.live) > 1 => Cardinality(query.seen) > 1
      BY <3>2
    <3>4. Selected.kind = "instance required" => Implicit /\ Cardinality(query.seen) > 1
      BY <2>2, <3>3 DEF Refuses
    <3>5. Selected.kind # "conflict"
      BY <2>2 DEF Refuses
    <3> QED BY <2>1, <3>4, <3>5 DEF RefusalIsTrue, Implicit
  <2>6. Selected.kind # "ok"
    BY <2>2 DEF Refuses
  <2>7. AnswerIsTrue'
    BY <2>1, <2>3, <2>4, <2>5, <2>6 DEF AnswerIsTrue
  <2> QED BY <1>1, <1>5, <2>7, LooksAndAnswers
<1>6. CASE /\ Selected.run # Nobody /\ Plan.requirement # "Discovery"
           /\ query' = [query EXCEPT !.at = "calling", !.chosen = Selected.run]
  <2>1. /\ But({"at", "chosen"}) /\ query'.at = "calling" /\ query'.chosen = Selected.run
    BY <1>6 DEF But, QueryFields, SelectionInv
  <2>2. /\ query'.ask = query.ask /\ query'.steady = query.steady
        /\ query'.omitted = query.omitted
    BY <2>1, ButKeeps
  <2>3. Selects
    BY <1>1, <1>2, <1>6, SelectedIs DEF Refuses
  <2>4. Common'
    BY <1>1, <2>1, LooksOn
  <2>5. Chosen'
    <3>1. query'.chosen \in Runs /\ Meant(query'.chosen)
      BY <1>3, <2>1, <2>3 DEF Selects
    <3>2. query.omitted > 0 \/ \A r \in query.steady : Meant(r) => r = query'.chosen
      BY <2>1, <2>3 DEF Selects
    <3> QED
      BY <1>6, <2>1, <2>2, <3>1, <3>2 DEF Chosen, Meant, Plan
  <2> QED
    BY <2>1, <2>4, <2>5 DEF Common, SelectionInv, Phases
<1> QED
  BY <1>4, <1>5, <1>6 DEF Select

(***************************************************************************)
(* The instance is called, and answers or is lost.                         *)
(***************************************************************************)
LEMMA NextPageIsSound ==
  ASSUME NEW l, LinkSound(l), NEW o \in Nat
  PROVE  LinkSound(NextPage(l, o))
<1>1. PICK n : n = NextPage(l, o)
  OBVIOUS
<1>2. l = [endpoint |-> l.endpoint, run |-> l.run, revision |-> l.revision, side |-> l.side,
           representation |-> l.representation, offset |-> l.offset, length |-> l.length]
  BY DEF LinkSound, Link
<1>3. /\ n.endpoint = l.endpoint /\ n.run = l.run /\ n.revision = l.revision
      /\ n.side = l.side /\ n.representation = l.representation /\ n.length = l.length
      /\ n.offset = o
  BY <1>1, <1>2 DEF NextPage
<1>4. n = [endpoint |-> l.endpoint, run |-> l.run, revision |-> l.revision, side |-> l.side,
           representation |-> l.representation, offset |-> o, length |-> l.length]
  BY <1>1, <1>2 DEF NextPage
<1>5. n = Link(n.endpoint, n.run, n.revision, n.side, n.representation, n.offset, n.length)
  BY <1>3, <1>4 DEF Link
<1> QED
  BY <1>1, <1>3, <1>5 DEF LinkSound

LEMMA BodyLinksAreSound ==
  ASSUME NEW r \in Runs, NEW rev \in Nat \ {0}, NEW responded,
         NEW l \in BodyLinks(EndpointOf[r], r, rev, responded)
  PROVE  LinkSound(l)
<1>1. PICK side \in SidesOf(responded), representation \in {"raw", "decoded"} :
        l = Link(EndpointOf[r], r, rev, side, representation, 0, DefaultLength)
  BY DEF BodyLinks
<1>2. /\ l.endpoint = EndpointOf[r] /\ l.run = r /\ l.revision = rev /\ l.side = side
      /\ l.representation = representation /\ l.offset = 0 /\ l.length = DefaultLength
  BY <1>1 DEF Link
<1>3. side \in {"request", "response"} /\ DefaultLength \in 1..MaxLength
  BY DEF SidesOf, DefaultLength, MaxLength
<1> QED
  BY <1>1, <1>2, <1>3 DEF LinkSound

\* What an instance may answer to a call.
Pages(link, page, reply) ==
  /\ query.ask.link = <<link>> /\ reply.page = <<page>>
  /\ page.run = link.run /\ page.revision = link.revision
  /\ page.from = link.offset /\ page.to \in Nat
  /\ page.to < page.total =>
       page.to > page.from /\ reply.next = <<NextPage(link, page.to)>>
  /\ ~(page.to < page.total) => reply.next = << >>

ReplySound(r, reply) ==
  \/ reply = Says("revision conflict")
  \/ /\ reply.kind = "ok" /\ reply.run = r
     /\ \/ query.ask.link = << >> /\ reply.page = << >> /\ reply.next = << >>
        \/ \E link, page : Pages(link, page, reply)

LEMMA PageIs ==
  ASSUME NEW link, LinkSound(link), NEW r \in Runs, BodyLength[revision[r]] \in Nat
  PROVE  /\ Page(link, r).run = r /\ Page(link, r).revision = revision[r]
         /\ Page(link, r).from = link.offset /\ Page(link, r).to \in Nat
         /\ Page(link, r).to < Page(link, r).total => Page(link, r).to > Page(link, r).from
<1>1. PICK total, end :
        /\ total = BodyLength[revision[r]]
        /\ end = IF link.offset + link.length < total THEN link.offset + link.length ELSE total
  OBVIOUS
<1>2. /\ total \in Nat /\ end \in Nat
      /\ end < total => end > link.offset
  BY <1>1 DEF LinkSound
<1>3. PICK page : page = Page(link, r)
  OBVIOUS
<1>4. page = [run |-> r, revision |-> revision[r], from |-> link.offset, to |-> end,
              total |-> total]
  BY <1>1, <1>3 DEF Page
<1>5. /\ page.run = r /\ page.revision = revision[r] /\ page.from = link.offset
      /\ page.to = end /\ page.total = total
  BY <1>4
<1> QED BY <1>2, <1>3, <1>5

LEMMA ReplyIsSound ==
  ASSUME AskSound(query.ask), NEW r \in Runs, Meant(r), revision[r] \in 1..2
  PROVE  ReplySound(r, Reply(r))
<1>1. CASE query.ask.pin \notin {0, revision[r]}
  BY <1>1 DEF Reply, ReplySound
<1>2. CASE query.ask.pin \in {0, revision[r]} /\ query.ask.link = << >>
  <2>1. Reply(r) = [Says("ok") EXCEPT !.run = r, !.revision = revision[r]]
    BY <1>2 DEF Reply
  <2>2. /\ Reply(r).kind = "ok" /\ Reply(r).run = r /\ Reply(r).page = << >>
        /\ Reply(r).next = << >>
    BY <2>1 DEF Says, NoAnswer
  <2> QED BY <1>2, <2>2 DEF ReplySound
<1>3. CASE query.ask.pin \in {0, revision[r]} /\ query.ask.link # << >>
  <2>1. PICK link : /\ link = query.ask.link[1] /\ query.ask.link = <<link>>
                    /\ LinkSound(link)
                    /\ query.ask.run = link.run /\ query.ask.pin = link.revision
    BY <1>3 DEF AskSound
  <2>2. link.run = r /\ link.revision = revision[r]
    BY <1>3, <2>1, RunsAreKnown DEF Meant, LinkSound
  <2>3. PICK page : page = Page(link, r)
    OBVIOUS
  <2>4. BodyLength[revision[r]] \in Nat
    BY SelectionAssumption
  <2>5. /\ page.run = r /\ page.revision = revision[r] /\ page.from = link.offset
        /\ page.to \in Nat
        /\ page.to < page.total => page.to > page.from
    BY <2>1, <2>3, <2>4, PageIs
  <2>6. PICK next : next = IF page.to < page.total THEN <<NextPage(link, page.to)>> ELSE << >>
    OBVIOUS
  <2>7. Reply(r) = [Says("ok") EXCEPT !.run = r, !.revision = revision[r], !.page = <<page>>,
                                      !.next = next]
    BY <1>3, <2>1, <2>3, <2>6 DEF Reply
  <2>8. /\ Reply(r).kind = "ok" /\ Reply(r).run = r /\ Reply(r).page = <<page>>
        /\ Reply(r).next = next
    BY <2>7 DEF Says, NoAnswer
  <2>9. /\ page.to < page.total =>
             page.to > page.from /\ Reply(r).next = <<NextPage(link, page.to)>>
        /\ ~(page.to < page.total) => Reply(r).next = << >>
    BY <2>5, <2>6, <2>8
  <2>10. Pages(link, page, Reply(r))
    BY <2>1, <2>2, <2>5, <2>8, <2>9 DEF Pages
  <2> QED BY <2>8, <2>10 DEF ReplySound
<1> QED BY <1>1, <1>2, <1>3

LEMMA ServedKeeps ==
  ASSUME SelectionInv, Served
  PROVE  SelectionInv'
<1> DEFINE r == query.chosen
<1>1. /\ query.at \in {"calling", "waiting"} /\ Working
      /\ UNCHANGED <<status, listed, revision>> /\ query' = Answered(query, Reply(r))
      /\ links' = links \cup Given(r, Reply(r))
      /\ changes' = IF Plan.operation \in Mutating
                    THEN changes \cup {[run |-> r, ask |-> query.ask]} ELSE changes
  BY DEF Served, Working, worldVars
<1>2. CallSeen /\ Chosen /\ WorldSound(status, listed) /\ AskSound(query.ask)
  BY <1>1 DEF SelectionInv, Working
<1>3. r \in Runs /\ r # Nobody /\ Meant(r) /\ revision[r] \in 1..2
  BY <1>2, RunsAreKnown DEF Chosen, SelectionInv
<1>4. PICK reply : reply = Reply(r) /\ ReplySound(r, reply)
  BY <1>2, <1>3, ReplyIsSound
<1>5. /\ query'.answer = reply /\ query'.ask = query.ask /\ query'.steady = query.steady
      /\ query'.omitted = query.omitted
  BY <1>1, <1>4, AnsweredIs
<1>6. AnswerIsTrue'
  <2>1. CASE reply = Says("revision conflict")
    BY <1>5, <2>1, NothingSaid DEF Harmless
  <2>2. CASE reply.kind = "ok" /\ reply.run = r
    <3>1. AnswererIsMeant'
      <4>1. Implicit => query.omitted > 0 \/ query.steady \subseteq {r}
        <5>1. Implicit => \A s \in query.steady : Meant(s)
          BY DEF Implicit, Meant
        <5> QED BY <1>2, <5>1 DEF Chosen
      <4> QED
        BY <1>3, <1>5, <2>2, <4>1 DEF AnswererIsMeant, Implicit, Meant
    <3>2. AbsenceIsTrue' /\ RefusalIsTrue'
      BY <1>5, <2>2 DEF AbsenceIsTrue, RefusalIsTrue
    <3>3. Plan'.requirement # "Discovery"
      BY <1>2, <1>5 DEF Chosen, Plan
    <3>4. PageIsTrue'
      <4>1. CASE reply.page = << >>
        BY <1>5, <4>1, NoPage
      <4>2. ASSUME NEW link, NEW page, Pages(link, page, reply) PROVE PageIsTrue'
        <5>1. /\ DOMAIN query'.answer.page = {1} /\ query'.answer.page[1] = page
              /\ query'.ask.link[1] = link
          BY <1>5, <4>2 DEF Pages
        <5>2. /\ page.run = link.run /\ page.revision = link.revision
              /\ page.from = link.offset
          BY <4>2 DEF Pages
        <5>3. IF page.to < page.total
              THEN page.to > page.from
                   /\ query'.answer.next = <<[link EXCEPT !.offset = page.to]>>
              ELSE query'.answer.next = << >>
          BY <1>5, <4>2 DEF Pages, NextPage
        <5> QED BY <5>1, <5>2, <5>3 DEF PageIsTrue
      <4>3. reply.page = << >> \/ \E link, page : Pages(link, page, reply)
        BY <1>4, NoAnswerIs DEF ReplySound
      <4> QED BY <4>1, <4>2, <4>3
    <3> QED
      BY <3>1, <3>2, <3>3, <3>4 DEF AnswerIsTrue
  <2> QED BY <1>4, <2>1, <2>2 DEF ReplySound
<1>7. ASSUME NEW l \in links' PROVE LinkSound(l)
  <2>1. CASE l \in links
    BY <2>1 DEF SelectionInv
  <2>2. CASE l \in Given(r, reply)
    <3>1. CASE l \in BodyLinks(EndpointOf[r], r, revision[r], revision[r] > 1)
      <4>1. revision[r] \in Nat \ {0}
        BY <1>3
      <4> QED BY <1>3, <3>1, <4>1, BodyLinksAreSound
    <3>2. CASE reply.kind = "ok" /\ \E i \in DOMAIN reply.next : l = reply.next[i]
      <4>1. reply # Says("revision conflict")
        BY <3>2, NoAnswerIs
      <4>2. reply.next # << >>
        BY <3>2
      <4>3. PICK link, page : Pages(link, page, reply)
        BY <1>4, <4>1, <4>2 DEF ReplySound
      <4>4. reply.next = <<NextPage(link, page.to)>> /\ page.to \in Nat
        BY <4>2, <4>3 DEF Pages
      <4>5. l = NextPage(link, page.to)
        BY <3>2, <4>4
      <4>6. LinkSound(link)
        BY <1>2, <4>3 DEF AskSound, Pages
      <4> QED BY <4>4, <4>5, <4>6, NextPageIsSound
    <3> QED BY <2>2, <3>1, <3>2 DEF Given
  <2> QED BY <1>1, <1>4, <2>1, <2>2
<1>8. ChangesAreMeant'
  <2>1. CASE Plan.operation \in Mutating
    <3>1. ~Tools[query.ask.tool].readOnly /\ Plan.requirement = "Mutation"
      BY <1>2, <2>1, AllToolsAreSound DEF ToolsSound, ToolSound, AskSound, Plan
    <3>2. query.ask.run = r
      BY <1>2, <1>3, <3>1 DEF CallSeen, RequiresRun, Meant
    <3>3. PICK change : change = [run |-> r, ask |-> query.ask]
      OBVIOUS
    <3>4. change.run = r /\ change.ask = query.ask
      BY <3>3
    <3> QED
      BY <1>1, <2>1, <3>1, <3>2, <3>3, <3>4 DEF SelectionInv, ChangesAreMeant
  <2>2. CASE Plan.operation \notin Mutating
    BY <1>1, <2>2 DEF SelectionInv, ChangesAreMeant
  <2> QED BY <2>1, <2>2
<1>9. WorldSound(status', listed') /\ revision' = revision
  BY <1>1, <1>2
<1> QED
  BY <1>1, <1>6, <1>7, <1>8, <1>9, AnswerEnds

LEMMA WaitBeginsKeeps ==
  ASSUME SelectionInv, WaitBegins
  PROVE  SelectionInv'
<1>1. query.at = "calling" /\ Working /\ Calling /\ UNCHANGED listed
  BY DEF WaitBegins, Looks, Working
<1>2. But({"at"}) /\ query'.at = "waiting"
  BY DEF WaitBegins, But, QueryFields, SelectionInv
<1>3. /\ query'.ask = query.ask /\ query'.steady = query.steady
      /\ query'.omitted = query.omitted /\ query'.chosen = query.chosen
  BY <1>2, ButKeeps
<1>4. Common'
  BY <1>1, <1>2, LooksOn
<1>5. Chosen'
  BY <1>1, <1>2, <1>3 DEF SelectionInv, Chosen, Meant, Plan
<1> QED
  BY <1>2, <1>4, <1>5 DEF Common, SelectionInv, Phases

\* Who is lost was not well, and nobody else was meant.
LEMMA LostIsTrue ==
  ASSUME CallSeen, Chosen, status[query.chosen] # "live"
  PROVE  query.omitted > 0 \/ \A r \in query.steady : ~Meant(r)
BY DEF CallSeen, Chosen, Healthy

LEMMA LostKeeps ==
  ASSUME SelectionInv, Lost
  PROVE  SelectionInv'
<1>1. /\ query.at \in {"calling", "waiting"} /\ Working /\ Calling /\ UNCHANGED listed
      /\ status[query.chosen] # "live"
  BY DEF Lost, Working
<1>2. CallSeen /\ Chosen /\ WorldSound(status, listed) /\ AskSound(query.ask)
  BY <1>1 DEF SelectionInv, Working
<1>3. query.omitted > 0 \/ \A r \in query.steady : ~Meant(r)
  BY <1>1, <1>2, LostIsTrue
<1>4. PICK what, error :
        /\ what \in {"unavailable", "refused"} /\ error = Says(what)
        /\ \/ /\ Plan.requirement = "Wait"
              /\ query' = [query EXCEPT !.at = "checking", !.answer = error]
           \/ query' = Answered(query, error)
  BY DEF Lost
<1>5. error.kind = what /\ error.run = Nobody /\ error.page = << >>
  BY <1>4, NoAnswerIs
<1>6. ASSUME query'.answer = error, query'.ask = query.ask, query'.steady = query.steady,
             query'.omitted = query.omitted
      PROVE  AnswerIsTrue'
  <2>1. AbsenceIsTrue'
    BY <1>3, <1>6 DEF AbsenceIsTrue, Meant
  <2>2. AnswererIsMeant' /\ RefusalIsTrue' /\ query'.answer.kind # "ok"
    BY <1>4, <1>5, <1>6 DEF AnswererIsMeant, RefusalIsTrue
  <2> QED BY <1>5, <1>6, <2>1, <2>2, NoPage DEF AnswerIsTrue
<1>7. CASE query' = Answered(query, error)
  <2>1. AnswerIsTrue'
    BY <1>6, <1>7, AnsweredIs
  <2> QED BY <1>1, <1>7, <2>1, LooksAndAnswers
<1>8. CASE /\ Plan.requirement = "Wait"
           /\ query' = [query EXCEPT !.at = "checking", !.answer = error]
  <2>1. But({"at", "answer"}) /\ query'.at = "checking" /\ query'.answer = error
    BY <1>8 DEF But, QueryFields, SelectionInv
  <2>2. /\ query'.ask = query.ask /\ query'.steady = query.steady /\ query'.seen = query.seen
        /\ query'.omitted = query.omitted /\ query'.chosen = query.chosen
    BY <2>1, ButKeeps
  <2>3. AnswerIsTrue'
    BY <1>6, <2>1, <2>2
  <2>4. UNCHANGED <<status, revision, links, changes>>
    BY <1>1 DEF Calling
  <2>5. ChangesAreMeant'
    BY <2>4 DEF SelectionInv, ChangesAreMeant
  <2>6. CallSeen'
    BY <1>1, <1>2, <2>1, <2>2, <2>4 DEF CallSeen, Plan
  <2>7. Chosen'
    BY <1>2, <1>4, <1>5, <1>8, <2>1, <2>2 DEF Chosen, Meant, Plan
  <2> QED
    BY <1>1, <1>2, <2>1, <2>2, <2>3, <2>4, <2>5, <2>6, <2>7 DEF SelectionInv, Phases, But
<1> QED BY <1>4, <1>7, <1>8

LEMMA ReplacedKeeps ==
  ASSUME SelectionInv, Replaced
  PROVE  SelectionInv'
<1>1. query.at = "checking" /\ Working /\ Calling /\ UNCHANGED listed
  BY DEF Replaced, Looks, Working
<1>2. CallSeen /\ Chosen /\ WorldSound(status, listed) /\ AskSound(query.ask) /\ AnswerIsTrue
  BY <1>1 DEF SelectionInv, Working
<1>3. CASE query' = Answered(query, query.answer)
  <2>1. /\ query'.answer = query.answer /\ query'.ask = query.ask
        /\ query'.steady = query.steady /\ query'.omitted = query.omitted
    BY <1>3, AnsweredIs
  <2>2. /\ query.answer.run = Nobody /\ query.answer.page = << >>
        /\ query.answer.kind \in {"unavailable", "refused"}
    BY <1>1, <1>2 DEF Chosen
  <2>3. AbsenceIsTrue'
    BY <1>2, <2>1 DEF AnswerIsTrue, AbsenceIsTrue, Meant
  <2>4. AnswererIsMeant' /\ RefusalIsTrue' /\ query'.answer.kind # "ok"
    BY <2>1, <2>2 DEF AnswererIsMeant, RefusalIsTrue
  <2>5. AnswerIsTrue'
    BY <2>1, <2>2, <2>3, <2>4, NoPage DEF AnswerIsTrue
  <2> QED BY <1>1, <1>3, <2>5, LooksAndAnswers
<1>4. CASE /\ listed[query.ask.endpoint] \notin {Nobody, query.ask.run}
           /\ query' = Answered(query, Says("conflict"))
  <2>1. PICK current : current = listed[query.ask.endpoint]
    OBVIOUS
  <2>2. /\ query.ask.endpoint \in Endpoints /\ query.ask.run # Nobody
    BY <1>1, <1>2 DEF Chosen, AskSound, CallSeen, Plan, RequiresRun
  <2>3. /\ current \in Runs /\ EndpointOf[current] = query.ask.endpoint
        /\ current # query.ask.run /\ current \in query.seen
    BY <1>2, <1>4, <2>1, <2>2 DEF WorldSound, CallSeen, Present
  <2>4. \A r \in query.steady : ~Meant(r)
    BY <1>2, <2>1, <2>2, <2>3, RunsAreKnown DEF CallSeen, Healthy, Meant
  <2>5. /\ query'.answer = Says("conflict") /\ query'.ask = query.ask
        /\ query'.steady = query.steady /\ query'.seen = query.seen
        /\ query'.omitted = query.omitted
    BY <1>4, AnsweredIs
  <2>6. /\ query'.answer.kind = "conflict" /\ query'.answer.run = Nobody
        /\ query'.answer.page = << >>
    BY <2>5, NoAnswerIs
  <2>7. AbsenceIsTrue'
    BY <2>4, <2>5 DEF AbsenceIsTrue, Meant
  <2>8. RefusalIsTrue'
    BY <2>3, <2>5, <2>6 DEF RefusalIsTrue
  <2>9. AnswerIsTrue'
    BY <2>6, <2>7, <2>8, NoPage DEF AnswerIsTrue, AnswererIsMeant
  <2> QED BY <1>1, <1>4, <2>9, LooksAndAnswers
<1> QED BY <1>3, <1>4 DEF Replaced

LEMMA GiveUpKeeps ==
  ASSUME SelectionInv, GiveUpCall
  PROVE  SelectionInv'
<1>1. PICK what \in {"cancelled", "deadline"} :
        Working /\ Calling /\ UNCHANGED listed /\ query' = Answered(query, Says(what))
  BY DEF GiveUpCall, Looks
<1>2. AnswerIsTrue'
  BY <1>1, AnsweredIs, NothingSaid DEF Harmless
<1> QED BY <1>1, <1>2, LooksAndAnswers

LEMMA SelectionStep ==
  ASSUME SelectionInv, SelectionNext
  PROVE  SelectionInv'
BY InstancesKeep, AskKeeps, ReadIndexKeeps, ReadDescriptorKeeps, ScannedKeeps, ProbeEndsKeeps,
   PruneKeeps, SelectKeeps, ServedKeeps, WaitBeginsKeeps, LostKeeps, ReplacedKeeps,
   GiveUpKeeps DEF SelectionNext

LEMMA SelectionStutters ==
  ASSUME SelectionInv, UNCHANGED selectionVars
  PROVE  SelectionInv'
<1>1. UNCHANGED <<status, listed, revision, query, links, changes>>
  BY DEF selectionVars, worldVars
<1>2. AnswerIsTrue => AnswerIsTrue'
  BY <1>1 DEF AnswerIsTrue, AnswererIsMeant, AbsenceIsTrue, RefusalIsTrue, PageIsTrue, Plan,
              Meant, Implicit
<1>3. CallSeen => CallSeen'
  BY <1>1 DEF CallSeen, Plan
<1>4. (Founds => Founds') /\ (Reading => Reading')
  BY <1>1 DEF Founds, Reading, Meant
<1>5. (Probing => Probing') /\ (Chosen => Chosen')
  BY <1>1 DEF Probing, Chosen, Meant, Plan
<1>6. ChangesAreMeant => ChangesAreMeant'
  BY <1>1 DEF ChangesAreMeant
<1> QED
  BY <1>1, <1>2, <1>3, <1>4, <1>5, <1>6 DEF SelectionInv, Working

LEMMA SelectionStarts ==
  ASSUME NEW at \in {"closed", "open"}, NEW start, SelectionInit(at, start),
         at = "open" => start \in Starts
  PROVE  SelectionInv
<1>1. /\ DOMAIN query = QueryFields /\ query.at = at /\ query.ask = Unasked
      /\ query.answer = NoAnswer
  BY DEF SelectionInit, Fresh, QueryFields
<1>2. AskSound(query.ask)
  <2>1. /\ Unasked.tool = "list_instances" /\ Unasked.endpoint = Nobody
        /\ Unasked.run = Nobody /\ Unasked.pin = 0 /\ Unasked.link = << >>
    BY DEF Unasked
  <2>2. /\ "list_instances" \in DOMAIN Tools
        /\ Tools["list_instances"].call.requirement = "Discovery"
    BY AllToolsAreSound DEF ToolsSound, ToolSound
  <2> QED BY <1>1, <2>1, <2>2 DEF AskSound
<1>3. AnswerIsTrue
  <2>1. /\ query.answer.run = Nobody /\ query.answer.page = << >>
        /\ query.answer.kind = "none yet"
    BY <1>1, NoAnswerIs
  <2>2. DOMAIN query.answer.page = {}
    BY <2>1, NothingInIt
  <2> QED
    BY <2>1, <2>2 DEF AnswerIsTrue, AnswererIsMeant, AbsenceIsTrue, RefusalIsTrue, PageIsTrue
<1>4. at = "open" => WorldSound(status, listed)
  <2>1. ASSUME at = "open" PROVE StartAssumption(start)
    BY <2>1, SelectionAssumption
  <2> QED BY <2>1 DEF StartAssumption, WorldSound, SelectionInit
<1>5. revision \in [Runs -> 1..2] /\ links = {} /\ changes = {}
  BY DEF SelectionInit
<1> QED
  BY <1>1, <1>2, <1>3, <1>4, <1>5 DEF SelectionInv, Phases, Working, ChangesAreMeant

\* What is known of a call is what its client may rely on.
LEMMA SelectionIsSound ==
  ASSUME SelectionInv
  PROVE  CallsReachWhomTheyMean
<1>1. ListIsComplete
  BY DEF SelectionInv, AnswerIsTrue, Probing, ListIsComplete
<1>2. LinksStayTrue
  <2>1. \A l \in links : ParseUri(ToUri(l)) = <<l>> /\ EndpointOf[l.run] = l.endpoint
    BY LinkIsReadBack DEF SelectionInv, LinkSound
  <2> QED BY <2>1 DEF SelectionInv, AnswerIsTrue, PageIsTrue, LinksStayTrue
<1> QED
  BY <1>1, <1>2 DEF SelectionInv, AnswerIsTrue, CallsReachWhomTheyMean

BrokerInv == ControlInv /\ SelectionInv

\* Both halves of the broker keep what is known of them.
THEOREM BrokerInvariant == BrokerSpec => []BrokerInv
<1>1. CallsBegin \/ SelectionBegins => BrokerInv
  <2>1. CallsBegin => BrokerInv
    BY ControlStarts, SelectionStarts DEF CallsBegin, BrokerInv
  <2>2. SelectionBegins => BrokerInv
    BY ControlStarts, SelectionStarts DEF SelectionBegins, BrokerInv
  <2> QED BY <2>1, <2>2
<1>2. BrokerInv /\ [BrokerNext]_<<vars, selectionVars>> => BrokerInv'
  BY ControlStep, ControlStutters, SelectionStep, SelectionStutters DEF BrokerNext, BrokerInv
<1> QED
  BY <1>1, <1>2, PTL DEF BrokerSpec

\* Whoever comes, fails, goes or takes over meanwhile: a call is answered by the
\* run it means, who is said not to be there was not there all the time, and no
\* list, link or change is another's.
THEOREM CallsAreRight == BrokerSpec => []CallsReachWhomTheyMean
<1>1. BrokerInv => CallsReachWhomTheyMean
  BY SelectionIsSound DEF BrokerInv
<1> QED
  BY <1>1, BrokerInvariant, PTL

\* The two halves in one specification: what selection does never disturbs the
\* accounts of the calls (CallsAccountedFor).
THEOREM BrokerAccountsForCalls == BrokerSpec => []CallsAreAccountedFor
<1>1. BrokerInv => CallsAreAccountedFor
  BY ControlIsSound DEF BrokerInv
<1> QED
  BY <1>1, BrokerInvariant, PTL
=============================================================================
