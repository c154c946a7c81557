----------------------- MODULE CaptureLifecycle_proofs -----------------------
(***************************************************************************)
(* Proofs about CaptureLifecycle, for every value of its constants.        *)
(***************************************************************************)
EXTENDS CaptureLifecycle, Sums

(***************************************************************************)
(* The prefix arithmetic: what a fragment retains is no longer than what   *)
(* was asked for, and its charge, overhead included, fits in what the      *)
(* budget has left.  This is why reserve_body_prefix may add the charge    *)
(* to the budget without another comparison with the limit.                *)
(***************************************************************************)
LEMMA PrefixChargeBounds ==
  ASSUME NEW r \in Nat, NEW t \in Nat, NEW a \in Nat
  PROVE  /\ BodyPrefixCharge(r, t, a)[1] \in 0..r
         /\ BodyPrefixCharge(r, t, a)[2] \in Nat
         /\ BodyPrefixCharge(r, t, a)[1] <= BodyPrefixCharge(r, t, a)[2]
         /\ BodyPrefixCharge(r, t, a)[2] <= a
<1> DEFINE most     == (t + Least(r, a)) \div ChunkBytes
           First(k) == /\ Completes(k, r, t, a)
                       /\ \A j \in 0..most : j > k => ~Completes(j, r, t, a)
           nodes    == CHOOSE k \in 0..most : First(k)
           retained == CompletingPrefix(nodes, r, t, a)
<1>1. CASE r = 0 \/ ~(\E k \in 0..most : First(k)) \/ retained = 0
  BY <1>1 DEF BodyPrefixCharge
<1>2. CASE ~(r = 0 \/ ~(\E k \in 0..most : First(k)) \/ retained = 0)
  <2>1. nodes \in 0..most /\ First(nodes)
    BY <1>2
  <2>2. nodes \in Nat /\ nodes * NodeOverhead \in Nat
        /\ (nodes + 1) * ChunkBytes \in Nat
    BY <2>1, ChunkAssumption
  <2>3. nodes * NodeOverhead <= a
    BY <2>1 DEF Completes
  <2>4. retained \in 0..r /\ retained + nodes * NodeOverhead <= a
    <3> DEFINE overhead == nodes * NodeOverhead
               next     == (nodes + 1) * ChunkBytes
    <3>1. overhead \in Nat /\ next \in Nat /\ overhead <= a
      BY <2>2, <2>3
    <3>2. retained = Least(Least(r, SatSub(a, overhead)),
                           SatSub(SatSub(next, t), 1))
      BY DEF CompletingPrefix
    <3> HIDE DEF overhead, next, retained
    <3>3. retained \in 0..r /\ retained + overhead <= a
      BY <3>1, <3>2 DEF Least, SatSub
    <3> QED BY <3>3 DEF overhead
  <2>5. BodyPrefixCharge(r, t, a) = <<retained, retained + nodes * NodeOverhead>>
    BY <1>2 DEF BodyPrefixCharge
  <2> HIDE DEF nodes, retained
  <2> QED BY <2>2, <2>4, <2>5
<1> QED BY <1>1, <1>2

(***************************************************************************)
(* LeaseCoversRecord is inductive once it is known that                    *)
(*   - the budget is never exceeded, so that what a pump or a handler      *)
(*     reserves is a natural number;                                       *)
(*   - try_start and a response being prepared keep the record alive, and  *)
(*     nothing but a response holds a reservation (Custody);               *)
(*   - a queued record is alive and queued once (QueueOwned), so that the  *)
(*     runtime never revives a record whose lease is accounted otherwise.  *)
(***************************************************************************)
Responding(e) == handler[e] \in {"responding", "shrunk"}

Custody(e) ==
  /\ Responding(e) <=> "response" \in refs[e]
  /\ ~Responding(e) => held[e] = 0
  /\ start[e] # "started" => handler[e] = "gone"
  /\ start[e] \in {"leased", "sequenced"} => "producer" \in refs[e]

QueueOwned ==
  /\ \A i \in 1..Len(queue) :
       "queue" \in refs[queue[i]] /\ start[queue[i]] = "started"
  /\ \A i, j \in 1..Len(queue) : queue[i] = queue[j] => i = j

CaptureInv ==
  /\ TypeOK /\ used <= BudgetLimit
  /\ LeaseCoversRecord
  /\ \A e \in Exchanges : Custody(e)
  /\ QueueOwned

(***************************************************************************)
(* The records.                                                            *)
(***************************************************************************)
LEMMA RecordBoundOrRemoved ==
  ASSUME NEW r \in Record
  PROVE  /\ [r EXCEPT !.bound = TRUE] \in Record
         /\ [r EXCEPT !.bound = TRUE].retained = r.retained
         /\ [r EXCEPT !.disabled = TRUE, !.bound = FALSE] \in Record
         /\ [r EXCEPT !.disabled = TRUE, !.bound = FALSE].retained = r.retained
BY DEF Record

LEMMA NoRecordIsRecord == NoRecord \in Record
BY CaptureAssumption DEF NoRecord, Record, Nothing, BodyStatus, Streams, Limits

(***************************************************************************)
(* A step that concerns one exchange.                                      *)
(***************************************************************************)
LeaseTypes ==
  /\ used \in Int /\ used <= BudgetLimit
  /\ rec \in [Exchanges -> Record] /\ refs \in [Exchanges -> SUBSET Owners]
  /\ lease \in [Exchanges -> Nat]

TaskTypes ==
  /\ start \in [Exchanges -> {"idle", "admitted", "leased", "sequenced",
                              "started", "refused"}]
  /\ handler \in [Exchanges -> {"holding", "responding", "shrunk", "gone"}]
  /\ pump \in [Exchanges -> [Sides -> {"off", "running", "ended"}]]
  /\ terminal \in [Exchanges -> SUBSET Sides]
  /\ permit \in [Exchanges -> BOOLEAN]
  /\ held \in [Exchanges -> Nat] /\ seq \in [Exchanges -> Nat]

PublisherTypes ==
  /\ freePermits \in Nat /\ nextSequence \in Nat
  /\ metrics \in [notAdmitted: Nat, pressure: Nat]
  /\ dirty \in BOOLEAN /\ queue \in Seq(Exchanges)
  /\ fed \in [Exchanges -> [kind: Kinds, revision: Nat]]

RuntimeTypes ==
  /\ store \in [bytes: Nat, revision: Nat]
  /\ runtime \in [task: Tasks, todo: SUBSET Exchanges]
  /\ lastPressure \in Nat /\ shutdown \in BOOLEAN

LEMMA TypesTogether ==
  LeaseTypes /\ TaskTypes /\ PublisherTypes /\ RuntimeTypes
    => TypeOK /\ used <= BudgetLimit
BY DEF LeaseTypes, TaskTypes, PublisherTypes, RuntimeTypes, TypeOK

LEMMA TypesTogetherNext ==
  ASSUME LeaseTypes', TaskTypes', PublisherTypes', RuntimeTypes'
  PROVE  TypeOK' /\ (used <= BudgetLimit)'
BY DEF LeaseTypes, TaskTypes, PublisherTypes, RuntimeTypes, TypeOK

\* The drop of Arcs and the release of bytes.
LEMMA SetOwnersKeeps ==
  ASSUME CaptureInv, NEW e \in Exchanges, NEW owners \in SUBSET Owners,
         NEW r \in Record, NEW given \in Nat, given <= lease[e],
         SetOwners(e, owners, r, given)
  PROVE  /\ LeaseTypes'
         /\ \A d \in Exchanges \ {e} :
              refs'[d] = refs[d] /\ rec'[d] = rec[d] /\ lease'[d] = lease[d]
         /\ refs'[e] = owners
         /\ Alive(e)' => rec'[e] = r /\ lease'[e] = lease[e] - given
<1>1. LeaseTypes /\ lease[e] \in Nat
  BY DEF CaptureInv, TypeOK, LeaseTypes
<1>2. refs' = [refs EXCEPT ![e] = owners]
  BY DEF SetOwners
<1>3. rec' = [rec EXCEPT ![e] =
                IF owners \intersect RecordOwners = {} THEN NoRecord ELSE r]
  BY DEF SetOwners
<1> DEFINE back == IF owners = {} THEN lease[e] ELSE given
<1>4. /\ back \in Nat /\ back <= lease[e] /\ used' = used - back
      /\ lease' = [lease EXCEPT ![e] = lease[e] - back]
      /\ owners # {} => back = given
  <2>1. CASE owners = {}
    <3>1. /\ used' = used - lease[e] /\ lease[e] - lease[e] = 0
          /\ lease' = [lease EXCEPT ![e] = 0] /\ back = lease[e]
      BY <1>1, <2>1 DEF SetOwners
    <3>2. back \in Nat /\ back <= lease[e]
      BY <1>1, <3>1
    <3>3. lease[e] - back = 0 /\ used' = used - back
      BY <3>1
    <3> QED BY <2>1, <3>1, <3>2, <3>3
  <2>2. CASE owners # {}
    BY <1>1, <2>2 DEF SetOwners
  <2> QED BY <2>1, <2>2
<1> HIDE DEF back
<1>5. used' \in Int /\ used' <= BudgetLimit
  BY <1>1, <1>4, CaptureAssumption DEF LeaseTypes
<1>6. lease' \in [Exchanges -> Nat]
  BY <1>1, <1>4 DEF LeaseTypes
<1>7. rec' \in [Exchanges -> Record] /\ refs' \in [Exchanges -> SUBSET Owners]
  BY <1>1, <1>2, <1>3, NoRecordIsRecord DEF LeaseTypes
<1>8. \A d \in Exchanges \ {e} :
        refs'[d] = refs[d] /\ rec'[d] = rec[d] /\ lease'[d] = lease[d]
  BY <1>1, <1>2, <1>3, <1>4 DEF LeaseTypes
<1>9. refs'[e] = owners
  BY <1>1, <1>2 DEF LeaseTypes
<1>10. ASSUME Alive(e)'
       PROVE  rec'[e] = r /\ lease'[e] = lease[e] - given
  <2>1. owners \intersect RecordOwners # {}
    BY <1>9, <1>10 DEF Alive
  <2> QED BY <1>1, <1>3, <1>4, <2>1 DEF LeaseTypes
<1> QED BY <1>5, <1>6, <1>7, <1>8, <1>9, <1>10 DEF LeaseTypes

\* What has to be checked when a step concerns the exchange e only.
Rest(e) ==
  \A d \in Exchanges \ {e} :
    /\ refs'[d] = refs[d] /\ rec'[d] = rec[d] /\ lease'[d] = lease[d]
    /\ held'[d] = held[d] /\ handler'[d] = handler[d] /\ start'[d] = start[d]

LEMMA ExchangeKeeps ==
  ASSUME CaptureInv, NEW e \in Exchanges, Rest(e),
         LeaseTypes', TaskTypes', PublisherTypes', RuntimeTypes',
         QueueOwned', Custody(e)',
         Alive(e)' => lease'[e] = rec'[e].retained + held'[e]
  PROVE  CaptureInv'
<1>1. LeaseCoversRecord'
  BY DEF CaptureInv, LeaseCoversRecord, Rest, Alive
<1>2. \A d \in Exchanges : Custody(d)'
  BY DEF CaptureInv, Custody, Responding, Rest
<1>3. TypeOK' /\ (used <= BudgetLimit)'
  BY TypesTogetherNext
<1> QED BY <1>1, <1>2, <1>3 DEF CaptureInv

\* Only the runtime takes a record from the queue.
LEMMA QueueKept ==
  ASSUME CaptureInv, NEW e \in Exchanges, Rest(e), UNCHANGED queue,
         start[e] = "started" => start'[e] = "started",
         start[e] = "started" /\ "queue" \in refs[e] => "queue" \in refs'[e]
  PROVE  QueueOwned'
<1>1. \A i \in 1..Len(queue) : queue[i] \in Exchanges
  BY DEF CaptureInv, TypeOK
<1> QED BY <1>1 DEF CaptureInv, QueueOwned, Rest

\* A step that changes the owners of a record and nothing that it accounts.
LEMMA OwnersChange ==
  ASSUME CaptureInv, NEW e \in Exchanges, NEW owners \in SUBSET Owners,
         NEW r \in Record, r.retained = rec[e].retained,
         SetOwners(e, owners, r, 0),
         owners \intersect RecordOwners # {} => Alive(e),
         "queue" \in refs[e] => "queue" \in owners,
         "response" \in refs[e] <=> "response" \in owners,
         "producer" \in refs[e] => "producer" \in owners,
         UNCHANGED <<held, handler, start, queue>>,
         TaskTypes', PublisherTypes', RuntimeTypes'
  PROVE  CaptureInv'
<1>1. /\ LeaseTypes' /\ Rest(e) /\ refs'[e] = owners
      /\ Alive(e)' => rec'[e] = r /\ lease'[e] = lease[e] - 0
  <2>1. 0 \in Nat /\ 0 <= lease[e]
    BY DEF CaptureInv, TypeOK
  <2> QED BY <2>1, SetOwnersKeeps DEF Rest
<1>2. QueueOwned'
  BY <1>1, QueueKept
<1>3. Custody(e)'
  BY <1>1 DEF CaptureInv, Custody, Responding
<1>4. ASSUME Alive(e)' PROVE lease'[e] = rec'[e].retained + held'[e]
  <2>1. Alive(e)
    BY <1>1, <1>4 DEF Alive
  <2>2. lease[e] = rec[e].retained + held[e] /\ lease[e] \in Nat
    BY <2>1 DEF CaptureInv, LeaseCoversRecord, TypeOK
  <2> QED BY <1>1, <1>4, <2>2
<1> QED BY <1>1, <1>2, <1>3, <1>4, ExchangeKeeps

\* A step that leaves the records and their accounts alone.
LEMMA RecordsUnchanged ==
  ASSUME CaptureInv, UNCHANGED <<recordVars, held, queue>>,
         \A d \in Exchanges :
           /\ Responding(d)' <=> Responding(d)
           /\ start'[d] = "started" <=> start[d] = "started"
           /\ start'[d] # "started" => handler'[d] = "gone"
           /\ start'[d] \in {"leased", "sequenced"} =>
                start[d] \in {"leased", "sequenced"},
         TaskTypes', PublisherTypes', RuntimeTypes'
  PROVE  CaptureInv'
<1>1. LeaseTypes' /\ LeaseCoversRecord'
  <2>1. LeaseTypes'
    BY DEF CaptureInv, TypeOK, LeaseTypes, recordVars
  <2>2. LeaseCoversRecord'
    BY DEF CaptureInv, LeaseCoversRecord, recordVars, Alive
  <2> QED BY <2>1, <2>2
<1>2. \A d \in Exchanges : Custody(d)'
  BY DEF CaptureInv, Custody, recordVars
<1>3. QueueOwned'
  BY SMTT(30) DEF CaptureInv, TypeOK, QueueOwned, recordVars
<1> QED BY <1>1, <1>2, <1>3, TypesTogetherNext DEF CaptureInv

LEMMA TasksUnchanged ==
  ASSUME CaptureInv, UNCHANGED <<recordVars, taskVars, queue>>,
         TaskTypes', PublisherTypes', RuntimeTypes'
  PROVE  CaptureInv'
<1>1. UNCHANGED <<recordVars, held, queue, handler, start>>
  BY DEF taskVars
<1>2. \A d \in Exchanges :
        /\ Responding(d)' <=> Responding(d)
        /\ start'[d] # "started" => handler'[d] = "gone"
  BY <1>1 DEF CaptureInv, Custody, Responding
<1> QED BY <1>1, <1>2, RecordsUnchanged

LEMMA CaptureInit == Init => CaptureInv
<1> SUFFICES ASSUME Init PROVE CaptureInv
  OBVIOUS
<1>1. LeaseTypes /\ TaskTypes
  BY CaptureAssumption, NoRecordIsRecord DEF Init, LeaseTypes, TaskTypes
<1>2. PublisherTypes /\ RuntimeTypes
  <2>1. MaxConcurrent \in Nat
    BY CaptureAssumption
  <2>2. fed \in [Exchanges -> [kind: Kinds, revision: Nat]]
    BY DEF Init, Kinds
  <2>3. queue \in Seq(Exchanges)
    BY DEF Init
  <2>4. runtime \in [task: Tasks, todo: SUBSET Exchanges]
    BY DEF Init, Tasks
  <2> QED BY <2>1, <2>2, <2>3, <2>4 DEF Init, PublisherTypes, RuntimeTypes
<1>3. LeaseCoversRecord /\ QueueOwned
  BY DEF Init, LeaseCoversRecord, QueueOwned, Alive
<1>4. \A e \in Exchanges : Custody(e)
  BY DEF Init, Custody, Responding
<1> QED BY <1>1, <1>2, <1>3, <1>4, TypesTogether DEF CaptureInv

(***************************************************************************)
(* try_start.                                                              *)
(***************************************************************************)
LEMMA TypesNow ==
  ASSUME CaptureInv
  PROVE  LeaseTypes /\ TaskTypes /\ PublisherTypes /\ RuntimeTypes
BY DEF CaptureInv, TypeOK, LeaseTypes, TaskTypes, PublisherTypes, RuntimeTypes

\* Counters, notifications and permits keep their types.
LEMMA PressureTypes ==
  ASSUME CaptureInv, NEW k \in Nat,
         metrics' = [metrics EXCEPT !.pressure = metrics.pressure + k]
  PROVE  metrics' \in [notAdmitted: Nat, pressure: Nat]
<1> DEFINE n == metrics.pressure + k
<1>1. metrics \in [notAdmitted: Nat, pressure: Nat] /\ n \in Nat
  BY DEF CaptureInv, TypeOK
<1>2. metrics' = [metrics EXCEPT !.pressure = n]
  OBVIOUS
<1> HIDE DEF n
<1> QED BY <1>1, <1>2

LEMMA PublishTypes ==
  ASSUME CaptureInv, NEW e \in Exchanges, NEW kind \in Kinds, NEW v \in Nat,
         PublishIfBound(e, kind, v) \/ Publish(e, kind, v)
  PROVE  fed' \in [Exchanges -> [kind: Kinds, revision: Nat]]
<1>1. fed \in [Exchanges -> [kind: Kinds, revision: Nat]]
  BY DEF CaptureInv, TypeOK
<1> DEFINE new == [kind |-> kind, revision |-> v]
<1>2. UNCHANGED fed \/ fed' = [fed EXCEPT ![e] = new]
  BY DEF PublishIfBound, Publish
<1>3. new \in [kind: Kinds, revision: Nat]
  OBVIOUS
<1> HIDE DEF new
<1>4. CASE fed' = [fed EXCEPT ![e] = new]
  BY <1>1, <1>3, <1>4
<1>5. CASE UNCHANGED fed
  BY <1>1, <1>5
<1> QED BY <1>2, <1>4, <1>5

LEMMA ReturnPermitTypes ==
  ASSUME CaptureInv, NEW e \in Exchanges, NEW sides, NEW h, NEW p,
         ReturnPermit(e, sides, h, p)
  PROVE  freePermits' \in Nat /\ permit' \in [Exchanges -> BOOLEAN]
<1>1. freePermits \in Nat /\ permit \in [Exchanges -> BOOLEAN]
  BY DEF CaptureInv, TypeOK
<1>2. CASE permit[e] /\ (sides = Sides \/ ~Handled(e, h, p))
  <2>1. permit' = [permit EXCEPT ![e] = FALSE] /\ freePermits' = freePermits + 1
    BY <1>2 DEF ReturnPermit
  <2> QED BY <1>1, <2>1
<1>3. CASE ~(permit[e] /\ (sides = Sides \/ ~Handled(e, h, p)))
  <2>1. UNCHANGED <<permit, freePermits>>
    BY <1>3 DEF ReturnPermit
  <2> QED BY <1>1, <2>1
<1> QED BY <1>2, <1>3

\* What Refuse leaves of the types, whoever calls it.
LEMMA RefuseTypes ==
  ASSUME CaptureInv, NEW e \in Exchanges, NEW n \in Nat, Refuse(e, n),
         UNCHANGED <<nextSequence, seq, runtimeVars>>
  PROVE  TaskTypes' /\ PublisherTypes' /\ RuntimeTypes'
<1>1. TaskTypes'
  BY TypesNow DEF TaskTypes, Refuse
<1>2. PublisherTypes'
  <2>1. freePermits' \in Nat
    BY TypesNow DEF PublisherTypes, Refuse
  <2>2. metrics' \in [notAdmitted: Nat, pressure: Nat]
    <3>1. /\ metrics.notAdmitted + 1 \in Nat /\ metrics.pressure + n \in Nat
          /\ metrics \in [notAdmitted: Nat, pressure: Nat]
      BY TypesNow DEF PublisherTypes
    <3> DEFINE a == metrics.notAdmitted + 1
               b == metrics.pressure + n
    <3>2. metrics' = [metrics EXCEPT !.notAdmitted = a, !.pressure = b]
      BY DEF Refuse
    <3> HIDE DEF a, b
    <3> QED BY <3>1, <3>2 DEF a, b
  <2> QED BY <2>1, <2>2, TypesNow DEF PublisherTypes, Refuse
<1>3. RuntimeTypes'
  BY TypesNow DEF RuntimeTypes, runtimeVars
<1> QED BY <1>1, <1>2, <1>3

LEMMA StartAcquireKeeps ==
  ASSUME CaptureInv, NEW e \in Exchanges, StartAcquire(e)
  PROVE  CaptureInv'
<1>1. /\ start[e] = "idle" /\ UNCHANGED <<runtimeVars, recordVars, seq>>
      /\ UNCHANGED <<handler, pump, terminal, held, queue, fed, nextSequence>>
      /\ \E to \in {"admitted", "refused"} : start' = [start EXCEPT ![e] = to]
  BY DEF StartAcquire, Refuse
<1>2. TaskTypes' /\ PublisherTypes' /\ RuntimeTypes'
  <2>1. CASE Refuse(e, 0)
    BY <1>1, <2>1, RefuseTypes
  <2>2. CASE ~Refuse(e, 0)
    <3>1. /\ freePermits > 0 /\ freePermits' = freePermits - 1
          /\ permit' = [permit EXCEPT ![e] = TRUE]
          /\ UNCHANGED <<metrics, dirty>>
      BY <2>2 DEF StartAcquire
    <3>2. freePermits' \in Nat
      BY <3>1, TypesNow DEF PublisherTypes
    <3>3. TaskTypes'
      BY <1>1, <3>1, TypesNow DEF TaskTypes
    <3>4. PublisherTypes'
      BY <1>1, <3>1, <3>2, TypesNow DEF PublisherTypes
    <3>5. RuntimeTypes'
      BY <1>1, TypesNow DEF RuntimeTypes, runtimeVars
    <3> QED BY <3>3, <3>4, <3>5
  <2> QED BY <2>1, <2>2
<1>3. \A d \in Exchanges :
        /\ Responding(d)' <=> Responding(d)
        /\ start'[d] = "started" <=> start[d] = "started"
        /\ start'[d] # "started" => handler'[d] = "gone"
        /\ start'[d] \in {"leased", "sequenced"} =>
             start[d] \in {"leased", "sequenced"}
  BY <1>1, TypesNow DEF CaptureInv, Responding, Custody, TaskTypes
<1> QED BY <1>1, <1>2, <1>3, RecordsUnchanged

LEMMA StartSequenceKeeps ==
  ASSUME CaptureInv, NEW e \in Exchanges, StartSequence(e)
  PROVE  CaptureInv'
<1>1. /\ start[e] = "leased" /\ start' = [start EXCEPT ![e] = "sequenced"]
      /\ seq' = [seq EXCEPT ![e] = nextSequence]
      /\ nextSequence' = nextSequence + 1
      /\ UNCHANGED <<runtimeVars, recordVars, freePermits, metrics, dirty,
                     queue, handler, pump, terminal, permit, held, fed>>
  BY DEF StartSequence
<1>2. TaskTypes' /\ PublisherTypes' /\ RuntimeTypes'
  BY <1>1, TypesNow, SMTT(30)
     DEF TaskTypes, PublisherTypes, RuntimeTypes, runtimeVars
<1>3. \A d \in Exchanges :
        /\ Responding(d)' <=> Responding(d)
        /\ start'[d] = "started" <=> start[d] = "started"
        /\ start'[d] # "started" => handler'[d] = "gone"
        /\ start'[d] \in {"leased", "sequenced"} =>
             start[d] \in {"leased", "sequenced"}
  BY <1>1, TypesNow DEF CaptureInv, Responding, Custody, TaskTypes
<1> QED BY <1>1, <1>2, <1>3, RecordsUnchanged

LEMMA StartLeaseKeeps ==
  ASSUME CaptureInv, NEW e \in Exchanges, StartLease(e)
  PROVE  CaptureInv'
<1>1. /\ start[e] = "admitted"
      /\ UNCHANGED <<runtimeVars, nextSequence, seq>>
      /\ UNCHANGED <<handler, pump, terminal, held, queue, fed>>
      /\ \E to \in {"leased", "refused"} : start' = [start EXCEPT ![e] = to]
  BY DEF StartLease, Refuse
<1>2. CASE Refuse(e, 1) /\ UNCHANGED recordVars
  <2>1. TaskTypes' /\ PublisherTypes' /\ RuntimeTypes'
    BY <1>1, <1>2, RefuseTypes
  <2>2. \A d \in Exchanges :
          /\ Responding(d)' <=> Responding(d)
          /\ start'[d] = "started" <=> start[d] = "started"
          /\ start'[d] # "started" => handler'[d] = "gone"
          /\ start'[d] \in {"leased", "sequenced"} =>
               start[d] \in {"leased", "sequenced"}
    BY <1>1, <1>2, TypesNow
       DEF CaptureInv, Responding, Custody, TaskTypes, Refuse
  <2> QED BY <1>1, <1>2, <2>1, <2>2, RecordsUnchanged
<1>3. CASE ~(Refuse(e, 1) /\ UNCHANGED recordVars)
  <2>1. PICK n \in RequestSizes :
          /\ used + n <= BudgetLimit /\ used' = used + n
          /\ lease' = [lease EXCEPT ![e] = n]
          /\ refs' = [refs EXCEPT ![e] = {"producer"}]
          /\ rec' = [rec EXCEPT ![e] = [rec[e] EXCEPT !.retained = n]]
          /\ UNCHANGED <<permit, freePermits, metrics, dirty>>
    BY <1>3 DEF StartLease
  <2>2. n \in Nat
    BY CaptureAssumption
  <2> DEFINE r == [rec[e] EXCEPT !.retained = n]
  <2>3. r \in Record /\ r.retained = n
    BY <2>2, TypesNow DEF LeaseTypes, Record
  <2> HIDE DEF r
  <2>4. LeaseTypes'
    <3>1. rec' = [rec EXCEPT ![e] = r]
      BY <2>1 DEF r
    <3>2. used' \in Int /\ used' <= BudgetLimit
      BY <2>1, <2>2, TypesNow DEF LeaseTypes
    <3>3. lease' \in [Exchanges -> Nat]
          /\ refs' \in [Exchanges -> SUBSET Owners]
      BY <2>1, <2>2, TypesNow DEF LeaseTypes, Owners
    <3> QED BY <2>3, <3>1, <3>2, <3>3, TypesNow DEF LeaseTypes
  <2>5. TaskTypes' /\ PublisherTypes' /\ RuntimeTypes'
    BY <1>1, <2>1, TypesNow
       DEF TaskTypes, PublisherTypes, RuntimeTypes, runtimeVars
  <2>6. Rest(e)
    BY <1>1, <2>1, TypesNow DEF Rest, LeaseTypes, TaskTypes
  <2>7. QueueOwned'
    BY <1>1, <2>6, QueueKept
  <2>8. /\ rec'[e] = r /\ lease'[e] = n /\ refs'[e] = {"producer"}
        /\ handler'[e] = "gone" /\ held'[e] = 0
    BY <1>1, <2>1, TypesNow
       DEF LeaseTypes, CaptureInv, Custody, Responding, r
  <2>9. Custody(e)' /\ lease'[e] = rec'[e].retained + held'[e]
    BY <2>2, <2>3, <2>8 DEF Custody, Responding
  <2> QED BY <2>4, <2>5, <2>6, <2>7, <2>9, ExchangeKeeps
<1> QED BY <1>2, <1>3

LEMMA StartSendKeeps ==
  ASSUME CaptureInv, NEW e \in Exchanges, StartSend(e)
  PROVE  CaptureInv'
<1>1. /\ start[e] = "sequenced" /\ UNCHANGED <<runtimeVars, nextSequence, seq>>
      /\ UNCHANGED <<terminal, held, fed>>
      /\ rec[e] \in Record /\ 0 \in Nat /\ 0 <= lease[e]
      /\ handler[e] = "gone" /\ held[e] = 0 /\ "producer" \in refs[e]
  BY TypesNow DEF StartSend, Refuse, LeaseTypes, CaptureInv, Custody,
                  Responding
<1>2. CASE Refuse(e, 0) /\ SetOwners(e, {}, rec[e], 0)
  <2>1. /\ LeaseTypes' /\ refs'[e] = {}
        /\ \A d \in Exchanges \ {e} :
             refs'[d] = refs[d] /\ rec'[d] = rec[d] /\ lease'[d] = lease[d]
    BY <1>1, <1>2, SetOwnersKeeps
  <2>2. TaskTypes' /\ PublisherTypes' /\ RuntimeTypes'
    BY <1>1, <1>2, RefuseTypes
  <2>3. /\ start' = [start EXCEPT ![e] = "refused"]
        /\ UNCHANGED <<handler, queue>>
    BY <1>2 DEF Refuse
  <2>4. Rest(e)
    BY <1>1, <2>1, <2>3, TypesNow DEF Rest, TaskTypes
  <2>5. QueueOwned'
    BY <1>1, <2>3, <2>4, QueueKept
  <2>6. Custody(e)' /\ ~Alive(e)'
    BY <1>1, <2>1, <2>3, TypesNow DEF Custody, Responding, Alive, TaskTypes
  <2> QED BY <2>1, <2>2, <2>4, <2>5, <2>6, ExchangeKeeps
<1>3. CASE ~(Refuse(e, 0) /\ SetOwners(e, {}, rec[e], 0))
  <2>1. /\ queue' = Append(queue, e) /\ SetOwners(e, {"queue"}, rec[e], 0)
        /\ dirty' = TRUE /\ start' = [start EXCEPT ![e] = "started"]
        /\ handler' = [handler EXCEPT ![e] = "holding"]
        /\ pump' = [pump EXCEPT ![e]["request"] = "running"]
        /\ UNCHANGED <<permit, freePermits, metrics>>
    BY <1>3 DEF StartSend
  <2>2. {"queue"} \in SUBSET Owners
    BY DEF Owners
  <2>3. /\ LeaseTypes' /\ refs'[e] = {"queue"}
        /\ Alive(e)' => rec'[e] = rec[e] /\ lease'[e] = lease[e] - 0
        /\ \A d \in Exchanges \ {e} :
             refs'[d] = refs[d] /\ rec'[d] = rec[d] /\ lease'[d] = lease[d]
    BY <1>1, <2>1, <2>2, SetOwnersKeeps
  <2>4. TaskTypes'
    BY <1>1, <2>1, TypesNow DEF TaskTypes, Sides
  <2>5. PublisherTypes' /\ RuntimeTypes'
    BY <1>1, <2>1, TypesNow DEF PublisherTypes, RuntimeTypes, runtimeVars
  <2>6. Rest(e)
    BY <1>1, <2>1, <2>3, TypesNow DEF Rest, TaskTypes
  <2>7. /\ start'[e] = "started" /\ handler'[e] = "holding" /\ held'[e] = 0
    BY <1>1, <2>1, TypesNow DEF TaskTypes
  <2>8. QueueOwned'
    <3>1. /\ queue \in Seq(Exchanges) /\ Len(queue') = Len(queue) + 1
          /\ \A i \in 1..Len(queue) : queue'[i] = queue[i]
          /\ queue'[Len(queue')] = e
      BY <2>1, TypesNow DEF PublisherTypes
    <3>2. \A i \in 1..Len(queue) :
            /\ queue[i] \in Exchanges \ {e} /\ "queue" \in refs[queue[i]]
            /\ start[queue[i]] = "started"
      BY <1>1, <3>1 DEF CaptureInv, QueueOwned
    <3>3. \A i \in 1..Len(queue') : i = Len(queue') \/ i \in 1..Len(queue)
      BY <3>1
    <3>4. ASSUME NEW i \in 1..Len(queue')
          PROVE  "queue" \in refs'[queue'[i]] /\ start'[queue'[i]] = "started"
      BY <2>3, <2>6, <2>7, <3>1, <3>2, <3>3 DEF Rest
    <3>5. ASSUME NEW i \in 1..Len(queue'), NEW j \in 1..Len(queue'),
                 queue'[i] = queue'[j]
          PROVE  i = j
      BY <3>1, <3>2, <3>3, <3>5 DEF CaptureInv, QueueOwned
    <3> QED BY <3>4, <3>5 DEF QueueOwned
  <2>9. Custody(e)'
    BY <2>3, <2>7 DEF Custody, Responding
  <2>10. lease[e] = rec[e].retained + held[e] /\ lease[e] \in Nat
    BY <1>1, TypesNow
       DEF CaptureInv, LeaseCoversRecord, Alive, RecordOwners, Owners,
           LeaseTypes
  <2>11. Alive(e)' => lease'[e] = rec'[e].retained + held'[e]
    BY <1>1, <2>3, <2>7, <2>10
  <2> QED BY <2>3, <2>4, <2>5, <2>6, <2>8, <2>9, <2>11, ExchangeKeeps
<1> QED BY <1>2, <1>3

(***************************************************************************)
(* set_response_at.                                                        *)
(***************************************************************************)
LEMMA RespondReserveKeeps ==
  ASSUME CaptureInv, NEW e \in Exchanges, RespondReserve(e)
  PROVE  CaptureInv'
<1>1. /\ handler[e] = "holding" /\ Alive(e) /\ start[e] = "started"
      /\ held[e] = 0 /\ lease[e] = rec[e].retained + held[e]
      /\ rec[e] \in Record /\ lease[e] \in Nat
  BY TypesNow DEF RespondReserve, CaptureInv, Custody, Responding,
                  LeaseCoversRecord, LeaseTypes
<1>2. rec[e].retained \in Nat
  BY <1>1 DEF Record
<1>3. PICK h \in HeaderSizes :
        LET requested == ResponseBase + h
            got       == Least(requested, SatSub(BudgetLimit, used))
        IN  /\ used' = used + got
            /\ lease' = [lease EXCEPT ![e] = lease[e] + got]
            /\ held' = [held EXCEPT ![e] = got]
            /\ handler' = [handler EXCEPT ![e] =
                              IF got < requested THEN "responding" ELSE "shrunk"]
            /\ metrics' = [metrics EXCEPT !.pressure =
                             metrics.pressure + (IF got < requested THEN 1 ELSE 0)]
  BY DEF RespondReserve
<1> DEFINE requested == ResponseBase + h
           got       == Least(requested, SatSub(BudgetLimit, used))
<1>4. got \in Nat /\ used + got <= BudgetLimit /\ used + got \in Int
  <2>1. /\ requested \in Nat /\ BudgetLimit \in Nat /\ used \in Int
        /\ used <= BudgetLimit
    BY TypesNow, CaptureAssumption DEF LeaseTypes
  <2> HIDE DEF requested
  <2> QED BY <2>1 DEF Least, SatSub
<1>5. /\ used' = used + got /\ lease' = [lease EXCEPT ![e] = lease[e] + got]
      /\ held' = [held EXCEPT ![e] = got]
      /\ refs' = [refs EXCEPT ![e] = refs[e] \union {"response"}]
      /\ \E to \in {"responding", "shrunk"} :
           handler' = [handler EXCEPT ![e] = to]
      /\ \E more \in {0, 1} :
           metrics' = [metrics EXCEPT !.pressure = metrics.pressure + more]
      /\ UNCHANGED <<runtimeVars, rec, freePermits, nextSequence, dirty, queue,
                     start, pump, terminal, permit, seq, fed>>
  BY <1>3 DEF RespondReserve
<1> HIDE DEF got
<1>6. LeaseTypes' /\ TaskTypes'
  BY <1>1, <1>4, <1>5, TypesNow DEF LeaseTypes, TaskTypes, Owners
<1>7. PublisherTypes' /\ RuntimeTypes'
  <2>1. metrics' \in [notAdmitted: Nat, pressure: Nat]
    BY <1>5, PressureTypes
  <2> QED BY <1>5, <2>1, TypesNow
          DEF PublisherTypes, RuntimeTypes, runtimeVars
<1>8. Rest(e)
  BY <1>5, TypesNow DEF Rest, LeaseTypes, TaskTypes
<1>9. QueueOwned'
  BY <1>5, <1>8, TypesNow, QueueKept DEF LeaseTypes
<1>10. Custody(e)'
  BY <1>1, <1>5, TypesNow
     DEF CaptureInv, Custody, Responding, LeaseTypes, TaskTypes
<1>11. lease'[e] = rec'[e].retained + held'[e]
  BY <1>1, <1>2, <1>4, <1>5, TypesNow DEF LeaseTypes, TaskTypes
<1> QED BY <1>6, <1>7, <1>8, <1>9, <1>10, <1>11, ExchangeKeeps

LEMMA RespondShrinkKeeps ==
  ASSUME CaptureInv, NEW e \in Exchanges, RespondShrink(e)
  PROVE  CaptureInv'
<1>1. /\ handler[e] = "responding" /\ "response" \in refs[e]
      /\ held[e] \in Nat /\ lease[e] \in Nat /\ rec[e] \in Record
      /\ refs[e] \in SUBSET Owners /\ start[e] = "started"
  BY TypesNow DEF RespondShrink, CaptureInv, Custody, Responding, LeaseTypes,
                  TaskTypes
<1>2. rec[e].retained \in Nat /\ lease[e] = rec[e].retained + held[e]
  BY <1>1 DEF Record, CaptureInv, LeaseCoversRecord, Alive, RecordOwners,
              Owners
<1>3. PICK actual \in IF held[e] < ResponseBase THEN {0}
                                               ELSE ResponseBase..held[e] :
        /\ SetOwners(e, refs[e], rec[e], held[e] - actual)
        /\ held' = [held EXCEPT ![e] = actual]
  BY DEF RespondShrink
<1>4. actual \in Nat /\ held[e] - actual \in Nat /\ held[e] - actual <= lease[e]
  BY <1>1, <1>2, <1>3, CaptureAssumption
<1>5. /\ LeaseTypes' /\ refs'[e] = refs[e]
      /\ Alive(e)' =>
           rec'[e] = rec[e] /\ lease'[e] = lease[e] - (held[e] - actual)
      /\ \A d \in Exchanges \ {e} :
           refs'[d] = refs[d] /\ rec'[d] = rec[d] /\ lease'[d] = lease[d]
  BY <1>1, <1>3, <1>4, SetOwnersKeeps
<1>6. /\ handler' = [handler EXCEPT ![e] = "shrunk"]
      /\ UNCHANGED <<publisherVars, runtimeVars, start, pump, terminal, permit,
                     seq, fed>>
  BY DEF RespondShrink
<1>7. TaskTypes' /\ PublisherTypes' /\ RuntimeTypes'
  BY <1>3, <1>4, <1>6, TypesNow
     DEF TaskTypes, PublisherTypes, RuntimeTypes, publisherVars, runtimeVars
<1>8. Rest(e)
  BY <1>3, <1>5, <1>6, TypesNow DEF Rest, TaskTypes
<1>9. QueueOwned'
  BY <1>5, <1>6, <1>8, QueueKept DEF publisherVars
<1>10. handler'[e] = "shrunk" /\ held'[e] = actual /\ start'[e] = "started"
  BY <1>1, <1>3, <1>6, TypesNow DEF TaskTypes
<1>11. Custody(e)'
  BY <1>1, <1>5, <1>10 DEF Custody, Responding
<1>12. Alive(e)' => lease'[e] = rec'[e].retained + held'[e]
  BY <1>1, <1>2, <1>4, <1>5, <1>10
<1> QED BY <1>5, <1>7, <1>8, <1>9, <1>11, <1>12, ExchangeKeeps

LEMMA RespondCommitKeeps ==
  ASSUME CaptureInv, NEW e \in Exchanges, RespondCommit(e)
  PROVE  CaptureInv'
<1> DEFINE owners == refs[e] \ {"response"}
           r == [rec[e] EXCEPT !.responseStarted = TRUE,
                               !.retained = rec[e].retained + held[e],
                               !.revision = rec[e].revision + 1,
                               !.body["response"].stream = "Streaming"]
<1>1. /\ handler[e] = "shrunk" /\ "response" \in refs[e]
      /\ held[e] \in Nat /\ lease[e] \in Nat /\ rec[e] \in Record
      /\ owners \in SUBSET Owners /\ start[e] = "started"
  BY TypesNow DEF RespondCommit, CaptureInv, Custody, Responding, LeaseTypes,
                  TaskTypes
<1>2. /\ rec[e].retained \in Nat /\ rec[e].revision \in Nat
      /\ lease[e] = rec[e].retained + held[e]
  BY <1>1 DEF Record, CaptureInv, LeaseCoversRecord, Alive, RecordOwners,
              Owners
<1>3. r \in Record /\ r.retained = rec[e].retained + held[e]
      /\ r.revision \in Nat
  <2> DEFINE n == rec[e].retained + held[e]
             v == rec[e].revision + 1
  <2>1. n \in Nat /\ v \in Nat
    BY <1>1, <1>2
  <2>2. r = [rec[e] EXCEPT !.responseStarted = TRUE, !.retained = n,
                           !.revision = v,
                           !.body["response"].stream = "Streaming"]
    OBVIOUS
  <2> HIDE DEF n, v, r
  <2>3. r \in Record /\ r.retained = n
    BY <1>1, <2>1, <2>2, ZenonT(60) DEF Record, BodyStatus, Streams, Sides
  <2>4. r.revision \in Nat
    BY <2>3 DEF Record
  <2> QED BY <2>3, <2>4 DEF n
<1>4. /\ held' = [held EXCEPT ![e] = 0]
      /\ handler' = [handler EXCEPT ![e] = "gone"]
      /\ pump' = [pump EXCEPT ![e]["response"] = "running"]
      /\ UNCHANGED <<runtimeVars, freePermits, nextSequence, metrics, queue,
                     start, terminal, permit, seq>>
  BY DEF RespondCommit, StartResponsePump
<1>5. TaskTypes' /\ RuntimeTypes'
  BY <1>4, TypesNow DEF TaskTypes, RuntimeTypes, runtimeVars, Sides
<1>6. held'[e] = 0 /\ handler'[e] = "gone" /\ start'[e] = "started"
  BY <1>1, <1>4, TypesNow DEF TaskTypes
<1>7. CASE Settable(e)
  <2>1. /\ SetOwners(e, owners, r, 0) /\ dirty' = TRUE
        /\ PublishIfBound(e, "RecordUpdated", r.revision)
    BY <1>7 DEF RespondCommit
  <2> HIDE DEF owners, r
  <2>2. PublisherTypes'
    <3>1. fed' \in [Exchanges -> [kind: Kinds, revision: Nat]]
      BY <1>3, <2>1, PublishTypes DEF Kinds
    <3> QED BY <1>4, <2>1, <3>1, TypesNow DEF PublisherTypes
  <2>3. /\ LeaseTypes' /\ refs'[e] = owners
        /\ Alive(e)' => rec'[e] = r /\ lease'[e] = lease[e] - 0
        /\ \A d \in Exchanges \ {e} :
             refs'[d] = refs[d] /\ rec'[d] = rec[d] /\ lease'[d] = lease[d]
    <3>1. 0 \in Nat /\ 0 <= lease[e]
      BY <1>1
    <3> QED BY <1>1, <1>3, <2>1, <3>1, SetOwnersKeeps
  <2>4. Rest(e)
    BY <1>4, <2>3, TypesNow DEF Rest, TaskTypes
  <2>5. QueueOwned'
    BY <1>4, <2>3, <2>4, QueueKept DEF owners
  <2>6. Custody(e)'
    BY <1>6, <2>3 DEF Custody, Responding, owners
  <2>7. Alive(e)' => lease'[e] = rec'[e].retained + held'[e]
    BY <1>1, <1>2, <1>3, <1>6, <2>3
  <2> QED BY <1>5, <2>2, <2>3, <2>4, <2>5, <2>6, <2>7, ExchangeKeeps
<1>8. CASE ~Settable(e)
  <2>1. SetOwners(e, owners, rec[e], held[e]) /\ UNCHANGED <<fed, dirty>>
    BY <1>8 DEF RespondCommit
  <2> HIDE DEF owners, r
  <2>2. PublisherTypes'
    BY <1>4, <2>1, TypesNow DEF PublisherTypes
  <2>3. /\ LeaseTypes' /\ refs'[e] = owners
        /\ Alive(e)' => rec'[e] = rec[e] /\ lease'[e] = lease[e] - held[e]
        /\ \A d \in Exchanges \ {e} :
             refs'[d] = refs[d] /\ rec'[d] = rec[d] /\ lease'[d] = lease[d]
    <3>1. held[e] <= lease[e]
      BY <1>1, <1>2
    <3> QED BY <1>1, <2>1, <3>1, SetOwnersKeeps
  <2>4. Rest(e)
    BY <1>4, <2>3, TypesNow DEF Rest, TaskTypes
  <2>5. QueueOwned'
    BY <1>4, <2>3, <2>4, QueueKept DEF owners
  <2>6. Custody(e)'
    BY <1>6, <2>3 DEF Custody, Responding, owners
  <2>7. Alive(e)' => lease'[e] = rec'[e].retained + held'[e]
    BY <1>1, <1>2, <1>6, <2>3
  <2> QED BY <1>5, <2>2, <2>3, <2>4, <2>5, <2>6, <2>7, ExchangeKeeps
<1> QED BY <1>7, <1>8

\* The handler goes without touching the record.
LEMMA HandlerGoneKeeps ==
  ASSUME CaptureInv, NEW e \in Exchanges, RespondUnreachable(e) \/ Abandon(e)
  PROVE  CaptureInv'
<1>1. /\ handler[e] = "holding" /\ handler' = [handler EXCEPT ![e] = "gone"]
      /\ UNCHANGED <<runtimeVars, recordVars, nextSequence, metrics, dirty,
                     queue, start, terminal, held, seq, fed>>
      /\ UNCHANGED <<permit, freePermits>> \/ ReturnPermit(e, terminal[e],
                                                          handler', pump)
      /\ \/ UNCHANGED pump
         \/ pump' = [pump EXCEPT ![e]["response"] = "running"]
  BY DEF RespondUnreachable, Abandon, StartResponsePump, publisherVars
<1>2. freePermits' \in Nat /\ permit' \in [Exchanges -> BOOLEAN]
  BY <1>1, TypesNow, ReturnPermitTypes DEF PublisherTypes, TaskTypes
<1>3. TaskTypes' /\ PublisherTypes' /\ RuntimeTypes'
  <2>1. pump' \in [Exchanges -> [Sides -> {"off", "running", "ended"}]]
    BY <1>1, TypesNow DEF TaskTypes, Sides
  <2> QED BY <1>1, <1>2, <2>1, TypesNow
          DEF TaskTypes, PublisherTypes, RuntimeTypes, runtimeVars
<1>4. \A d \in Exchanges :
        /\ Responding(d)' <=> Responding(d)
        /\ start'[d] = "started" <=> start[d] = "started"
        /\ start'[d] # "started" => handler'[d] = "gone"
        /\ start'[d] \in {"leased", "sequenced"} =>
             start[d] \in {"leased", "sequenced"}
  BY <1>1, TypesNow DEF CaptureInv, Responding, Custody, TaskTypes
<1> QED BY <1>1, <1>3, <1>4, RecordsUnchanged

(***************************************************************************)
(* The body pumps.                                                         *)
(***************************************************************************)

\* append_body: what a fragment charges fits in the budget, and the record and
\* its lease grow by the same amount.
LEMMA FrameKeeps ==
  ASSUME CaptureInv, NEW e \in Exchanges, NEW s \in Sides,
         NEW n \in FrameSizes, Frame(e, s, n)
  PROVE  CaptureInv'
<1> DEFINE b     == rec[e].body[s]
           got   == BodyPrefixCharge(PreviewWanted(b, n),
                                     b.retained % ChunkBytes,
                                     SatSub(BudgetLimit, used))
           limit == LimitAfter(b, n, got[1])
           seen  == [b EXCEPT !.stream = "Streaming", !.observed = b.observed + n]
           kept  == [seen EXCEPT !.retained = b.retained + got[1],
                                 !.limit = limit]
<1>1. /\ b \in BodyStatus /\ rec[e] \in Record /\ n \in Nat /\ Alive(e)
      /\ b.observed + n <= MaxObserved /\ rec[e].retained \in Nat
      /\ rec[e].revision \in Nat
  BY TypesNow, CaptureAssumption DEF LeaseTypes, Record, Frame
<1>2. /\ b.observed \in 0..MaxObserved /\ b.retained \in 0..PreviewLimit
      /\ b.limit \in Limits /\ PreviewLimit \in Nat /\ MaxObserved \in Nat
      /\ BudgetLimit \in Nat /\ used \in Int /\ used <= BudgetLimit
  BY <1>1, TypesNow, CaptureAssumption DEF LeaseTypes, BodyStatus
<1> DEFINE wanted == PreviewWanted(b, n)
           room   == SatSub(BudgetLimit, used)
<1>3. wanted \in Nat /\ wanted <= PreviewLimit - b.retained
      /\ room \in Nat /\ used + room <= BudgetLimit
  <2> HIDE DEF b
  <2> QED BY <1>1, <1>2 DEF PreviewWanted, Least, SatSub
<1>4. b.retained % ChunkBytes \in Nat
  <2> HIDE DEF b
  <2> QED BY <1>2, ChunkAssumption
<1>5. /\ got[1] \in 0..wanted /\ got[2] \in Nat /\ got[2] <= room
  <2> HIDE DEF b, wanted, room
  <2> QED BY <1>3, <1>4, PrefixChargeBounds DEF b, wanted, room
<1>6. limit \in Limits
  BY <1>2 DEF LimitAfter, Limits
<1> DEFINE g1 == got[1]
           g2 == got[2]
<1>7. seen \in BodyStatus /\ kept \in BodyStatus
  <2> DEFINE o == b.observed + n
             k == b.retained + got[1]
  <2>1. o \in 0..MaxObserved /\ k \in 0..PreviewLimit
    <3> HIDE DEF b, got, wanted
    <3> QED BY <1>1, <1>2, <1>3, <1>5
  <2>2. /\ seen = [b EXCEPT !.stream = "Streaming", !.observed = o]
        /\ kept = [seen EXCEPT !.retained = k, !.limit = limit]
    OBVIOUS
  <2> HIDE DEF b, seen, kept, o, k, limit
  <2>3. seen \in BodyStatus
    BY <1>1, <2>1, <2>2 DEF BodyStatus, Streams
  <2> QED BY <1>6, <2>1, <2>2, <2>3 DEF BodyStatus
<1>8. /\ UNCHANGED <<runtimeVars, taskVars, refs, freePermits, nextSequence,
                     queue, seq>>
  BY DEF Frame
<1>9. TaskTypes' /\ RuntimeTypes' /\ refs' \in [Exchanges -> SUBSET Owners]
  BY <1>8, TypesNow
     DEF TaskTypes, RuntimeTypes, LeaseTypes, taskVars, runtimeVars
<1>10. lease[e] = rec[e].retained + held[e] /\ held[e] \in Nat
       /\ lease[e] \in Nat
  BY <1>1, TypesNow
     DEF CaptureInv, LeaseCoversRecord, LeaseTypes, TaskTypes
<1>11. Custody(e)'
  BY <1>8 DEF CaptureInv, Custody, Responding, taskVars
<1>12. CASE rec[e].disabled
  <2> DEFINE r == [rec[e] EXCEPT !.body[s] = seen]
  <2>1. /\ rec' = [rec EXCEPT ![e] = r]
        /\ UNCHANGED <<used, lease, metrics, dirty, fed>>
    BY <1>12 DEF Frame
  <2>2. r \in Record /\ r.retained = rec[e].retained
    <3> HIDE DEF seen
    <3> QED BY <1>1, <1>7 DEF Record
  <2> HIDE DEF r
  <2>3. LeaseTypes' /\ PublisherTypes'
    BY <1>8, <1>9, <2>1, <2>2, TypesNow DEF LeaseTypes, PublisherTypes
  <2>4. Rest(e)
    BY <1>8, <2>1, TypesNow DEF Rest, LeaseTypes, taskVars
  <2>5. QueueOwned'
    BY <1>8, <2>4, QueueKept DEF taskVars
  <2>6. rec'[e] = r /\ lease'[e] = lease[e] /\ held'[e] = held[e]
    BY <1>8, <2>1, TypesNow DEF LeaseTypes, taskVars
  <2>7. lease'[e] = rec'[e].retained + held'[e]
    BY <1>10, <2>2, <2>6
  <2> QED BY <1>9, <1>11, <2>3, <2>4, <2>5, <2>7, ExchangeKeeps
<1>13. CASE ~rec[e].disabled
  <2> DEFINE m == rec[e].retained + g2
             v == rec[e].revision + 1
             r == [rec[e] EXCEPT !.body[s] = kept, !.retained = m,
                                 !.revision = v]
             more == IF b.limit = "None" /\ limit = "TotalMemoryLimit"
                       THEN 1 ELSE 0
  <2>1. /\ rec' = [rec EXCEPT ![e] = r]
        /\ used' = used + g2 /\ lease' = [lease EXCEPT ![e] = lease[e] + g2]
        /\ PublishIfBound(e, "RecordUpdated", v)
        /\ metrics' = [metrics EXCEPT !.pressure = metrics.pressure + more]
        /\ dirty' = TRUE
    <3>1. rec' = [rec EXCEPT ![e] = r]
      BY <1>13 DEF Frame
    <3>2. /\ used' = used + g2 /\ lease' = [lease EXCEPT ![e] = lease[e] + g2]
          /\ PublishIfBound(e, "RecordUpdated", v)
      BY <1>13 DEF Frame
    <3>3. /\ metrics' = [metrics EXCEPT !.pressure = metrics.pressure + more]
          /\ dirty' = TRUE
      BY <1>13 DEF Frame
    <3> QED BY <3>1, <3>2, <3>3
  <2> more \in Nat
    OBVIOUS
  <2>2. g2 \in Nat /\ used + g2 <= BudgetLimit /\ m \in Nat /\ v \in Nat
    <3> HIDE DEF got, room
    <3> QED BY <1>1, <1>2, <1>3, <1>5
  <2> HIDE DEF g2, kept, m, v, more
  <2>3. r \in Record /\ r.retained = m
    BY <1>1, <1>7, <2>2 DEF Record
  <2> HIDE DEF r
  <2>4. LeaseTypes'
    BY <1>2, <1>9, <1>10, <2>1, <2>2, <2>3, TypesNow DEF LeaseTypes
  <2>5. PublisherTypes'
    <3>1. fed' \in [Exchanges -> [kind: Kinds, revision: Nat]]
      BY <2>1, <2>2, PublishTypes DEF Kinds
    <3>2. metrics' \in [notAdmitted: Nat, pressure: Nat]
      BY <2>1, PressureTypes
    <3> QED BY <1>8, <2>1, <3>1, <3>2, TypesNow DEF PublisherTypes
  <2>6. Rest(e)
    BY <1>8, <2>1, TypesNow DEF Rest, LeaseTypes, taskVars
  <2>7. QueueOwned'
    BY <1>8, <2>6, QueueKept DEF taskVars
  <2>8. rec'[e] = r /\ lease'[e] = lease[e] + g2 /\ held'[e] = held[e]
    BY <1>8, <2>1, TypesNow DEF LeaseTypes, taskVars
  <2>9. lease'[e] = rec'[e].retained + held'[e]
    BY <1>1, <1>10, <2>2, <2>3, <2>8 DEF m
  <2> QED BY <1>9, <1>11, <2>4, <2>5, <2>6, <2>7, <2>9, ExchangeKeeps
<1> QED BY <1>12, <1>13

LEMMA FinishKeeps ==
  ASSUME CaptureInv, NEW e \in Exchanges, NEW s \in Sides,
         NEW kind \in Endings, Finish(e, s, kind)
  PROVE  CaptureInv'
<1> DEFINE v == rec[e].revision + 1
           r == [rec[e] EXCEPT !.body[s].stream = kind, !.revision = v]
<1>1. /\ rec[e] \in Record /\ v \in Nat /\ kind \in Terminals
      /\ pump' = [pump EXCEPT ![e][s] = "ended"]
      /\ terminal' = [terminal EXCEPT ![e] = terminal[e] \union {s}]
      /\ ReturnPermit(e, terminal[e] \union {s}, handler, pump')
      /\ UNCHANGED <<runtimeVars, refs, lease, used, nextSequence, metrics,
                     queue, start, handler, held, seq>>
  BY TypesNow, CaptureAssumption DEF Finish, LeaseTypes, Record, Terminals
<1>2. TaskTypes' /\ RuntimeTypes' /\ freePermits' \in Nat
  <2>1. freePermits' \in Nat /\ permit' \in [Exchanges -> BOOLEAN]
    BY <1>1, ReturnPermitTypes
  <2> QED BY <1>1, <2>1, TypesNow DEF TaskTypes, RuntimeTypes, runtimeVars
<1>3. \/ UNCHANGED <<rec, fed, dirty>>
      \/ /\ rec' = [rec EXCEPT ![e] = r] /\ dirty' = TRUE
         /\ PublishIfBound(e, "RecordUpdated", r.revision)
  BY DEF Finish
<1>4. r \in Record /\ r.retained = rec[e].retained /\ r.revision \in Nat
  <2> HIDE DEF v
  <2>1. r \in Record /\ r.retained = rec[e].retained
    BY <1>1, ZenonT(60) DEF Record, BodyStatus, Terminals, Streams
  <2> QED BY <2>1 DEF Record
<1> HIDE DEF r, v
<1>5. /\ rec' \in [Exchanges -> Record] /\ rec'[e].retained = rec[e].retained
      /\ \A d \in Exchanges \ {e} : rec'[d] = rec[d]
  BY <1>3, <1>4, TypesNow DEF LeaseTypes
<1>6. LeaseTypes'
  BY <1>1, <1>5, TypesNow DEF LeaseTypes
<1>7. PublisherTypes'
  <2>1. fed' \in [Exchanges -> [kind: Kinds, revision: Nat]] /\ dirty' \in BOOLEAN
    <3>1. CASE UNCHANGED <<rec, fed, dirty>>
      BY <3>1, TypesNow DEF PublisherTypes
    <3>2. CASE dirty' = TRUE /\ PublishIfBound(e, "RecordUpdated", r.revision)
      BY <1>4, <3>2, PublishTypes DEF Kinds
    <3> QED BY <1>3, <3>1, <3>2
  <2> QED BY <1>1, <1>2, <2>1, TypesNow DEF PublisherTypes
<1>8. Rest(e)
  BY <1>1, <1>5 DEF Rest
<1>9. QueueOwned'
  BY <1>1, <1>8, QueueKept
<1>10. Custody(e)'
  BY <1>1 DEF CaptureInv, Custody, Responding
<1>11. Alive(e)' => lease'[e] = rec'[e].retained + held'[e]
  BY <1>1, <1>5 DEF CaptureInv, LeaseCoversRecord, Alive
<1> QED BY <1>2, <1>6, <1>7, <1>8, <1>9, <1>10, <1>11, ExchangeKeeps

LEMMA TaskKeeps ==
  ASSUME CaptureInv, NEW e \in Exchanges, Task(e)
  PROVE  CaptureInv'
<1>1. CASE StartAcquire(e) \/ StartLease(e) \/ StartSequence(e) \/ StartSend(e)
  BY <1>1, StartAcquireKeeps, StartLeaseKeeps, StartSequenceKeeps,
     StartSendKeeps
<1>2. CASE RespondReserve(e) \/ RespondShrink(e) \/ RespondCommit(e)
  BY <1>2, RespondReserveKeeps, RespondShrinkKeeps, RespondCommitKeeps
<1>3. CASE RespondUnreachable(e) \/ Abandon(e)
  BY <1>3, HandlerGoneKeeps
<1>4. ASSUME NEW s \in Sides, NEW n \in FrameSizes, Frame(e, s, n)
      PROVE  CaptureInv'
  BY <1>4, FrameKeeps
<1>5. ASSUME NEW s \in Sides, NEW kind \in Endings, Finish(e, s, kind)
      PROVE  CaptureInv'
  BY <1>5, FinishKeeps
<1> QED BY <1>1, <1>2, <1>3, <1>4, <1>5 DEF Task

(***************************************************************************)
(* The runtime and the readers: what they do to a record is to drop an     *)
(* owner, or to take one while the record is alive.                        *)
(***************************************************************************)
LEMMA StoredIsAlive ==
  ASSUME CaptureInv, NEW e \in Exchanges
  PROVE  /\ rec[e] \in Record /\ refs[e] \in SUBSET Owners
         /\ rec[e].retained \in Nat /\ rec[e].revision \in Nat
         /\ refs[e] \intersect RecordOwners # {} => Alive(e)
BY TypesNow DEF LeaseTypes, Record, Alive

\* remove_from_store: the record keeps its bytes until its last owner goes.
LEMMA RemoveRecordKeeps ==
  ASSUME CaptureInv, NEW e \in Exchanges, NEW kind \in Removals,
         NEW owners, owners = refs[e] \/ owners = refs[e] \ {"store"},
         RemoveRecord(e, kind, owners),
         UNCHANGED <<taskVars, freePermits, nextSequence, metrics, queue, seq>>,
         dirty' \in BOOLEAN, RuntimeTypes'
  PROVE  CaptureInv'
<1> DEFINE r == [rec[e] EXCEPT !.disabled = TRUE, !.bound = FALSE]
<1>1. r \in Record /\ r.retained = rec[e].retained
  BY StoredIsAlive DEF Record
<1>2. SetOwners(e, owners, r, 0) /\ PublishIfBound(e, kind, rec[e].revision)
  BY DEF RemoveRecord
<1> HIDE DEF r
<1>3. /\ owners \in SUBSET Owners
      /\ owners \intersect RecordOwners # {} => Alive(e)
      /\ "queue" \in refs[e] => "queue" \in owners
      /\ "response" \in refs[e] <=> "response" \in owners
      /\ "producer" \in refs[e] => "producer" \in owners
  BY StoredIsAlive
<1>4. fed' \in [Exchanges -> [kind: Kinds, revision: Nat]]
  BY <1>2, StoredIsAlive, PublishTypes DEF Kinds
<1>5. TaskTypes' /\ PublisherTypes'
  BY <1>4, TypesNow DEF TaskTypes, PublisherTypes, taskVars
<1> QED BY <1>1, <1>2, <1>3, <1>5, OwnersChange DEF taskVars

LEMMA EvictOldestKeeps ==
  ASSUME CaptureInv, EvictOldest,
         UNCHANGED <<taskVars, freePermits, nextSequence, metrics, queue, seq,
                     shutdown>>,
         dirty' \in BOOLEAN, lastPressure' \in Nat,
         runtime' \in [task: Tasks, todo: SUBSET Exchanges]
  PROVE  CaptureInv'
<1>1. PICK e \in Exchanges :
        /\ RemoveRecord(e, "RetentionEviction", refs[e] \ {"store"})
        /\ store' = [bytes |-> SatSub(store.bytes, rec[e].retained),
                     revision |-> store.revision + 1]
  BY DEF EvictOldest
<1>2. store' \in [bytes: Nat, revision: Nat]
  BY <1>1, StoredIsAlive, TypesNow DEF RuntimeTypes, SatSub
<1>3. RuntimeTypes'
  BY <1>2, TypesNow DEF RuntimeTypes
<1>4. "RetentionEviction" \in Removals
  BY DEF Removals
<1> QED BY <1>1, <1>3, <1>4, RemoveRecordKeeps

\* The runtime's variables that a store operation leaves alone.
LEMMA RuntimeFrameKeeps ==
  ASSUME CaptureInv, RuntimeFrame
  PROVE  UNCHANGED <<taskVars, freePermits, nextSequence, metrics, seq, shutdown>>
BY DEF RuntimeFrame

LEMMA RecvCaptureKeeps ==
  ASSUME CaptureInv, RecvCapture
  PROVE  CaptureInv'
<1>0. PICK e \in Exchanges : e = Head(queue)
  BY TypesNow DEF PublisherTypes, RecvCapture
<1> DEFINE r == [rec[e] EXCEPT !.bound = TRUE]
           owners == (refs[e] \ {"queue"}) \union {"store"}
<1>1. /\ queue \in Seq(Exchanges) /\ queue # <<>> /\ e = queue[1]
      /\ 1 \in 1..Len(queue) /\ e \in Exchanges
      /\ queue' = Tail(queue) /\ queue' \in Seq(Exchanges)
      /\ Len(queue') = Len(queue) - 1
      /\ \A i \in 1..Len(queue') : queue'[i] = queue[i + 1]
  BY <1>0, TypesNow DEF PublisherTypes, RecvCapture
<1>2. "queue" \in refs[e] /\ start[e] = "started"
  BY <1>1 DEF CaptureInv, QueueOwned
<1>3. /\ SetOwners(e, owners, r, 0) /\ Publish(e, "Admitted", rec[e].revision)
      /\ store' = [bytes |-> store.bytes + rec[e].retained,
                   revision |-> store.revision + 1]
      /\ \E task \in {"retain", "idle"} :
           runtime' = [task |-> task, todo |-> {}]
      /\ UNCHANGED <<dirty, lastPressure, freePermits, nextSequence, metrics,
                     taskVars, seq, shutdown>>
  BY <1>0 DEF RecvCapture, RuntimeFrame, Busy
<1>4. rec[e] \in Record /\ r \in Record /\ r.retained = rec[e].retained
      /\ rec[e].revision \in Nat /\ rec[e].retained \in Nat
      /\ owners \in SUBSET Owners /\ lease[e] \in Nat
  BY <1>1, TypesNow DEF LeaseTypes, Record, Owners
<1> HIDE DEF r, owners
<1>5. /\ LeaseTypes' /\ refs'[e] = owners
      /\ Alive(e)' => rec'[e] = r /\ lease'[e] = lease[e] - 0
      /\ \A d \in Exchanges \ {e} :
           refs'[d] = refs[d] /\ rec'[d] = rec[d] /\ lease'[d] = lease[d]
  <2>1. 0 \in Nat /\ 0 <= lease[e]
    BY <1>4
  <2> QED BY <1>1, <1>3, <1>4, <2>1, SetOwnersKeeps
<1>6. TaskTypes' /\ PublisherTypes' /\ RuntimeTypes'
  <2>1. fed' \in [Exchanges -> [kind: Kinds, revision: Nat]]
    BY <1>1, <1>3, <1>4, PublishTypes DEF Kinds
  <2>2. store' \in [bytes: Nat, revision: Nat]
    BY <1>3, <1>4, TypesNow DEF RuntimeTypes
  <2>3. runtime' \in [task: Tasks, todo: SUBSET Exchanges]
    BY <1>3 DEF Tasks
  <2>4. TaskTypes'
    BY <1>3, TypesNow DEF TaskTypes, taskVars
  <2>5. PublisherTypes'
    BY <1>1, <1>3, <2>1, TypesNow DEF PublisherTypes
  <2> QED BY <1>3, <2>2, <2>3, <2>4, <2>5, TypesNow DEF RuntimeTypes
<1>7. Rest(e)
  BY <1>3, <1>5 DEF Rest, taskVars
<1>8. QueueOwned'
  <2>1. ASSUME NEW i \in 1..Len(queue')
        PROVE  /\ queue'[i] \in Exchanges \ {e}
               /\ "queue" \in refs'[queue'[i]]
               /\ start'[queue'[i]] = "started"
    <3>1. i + 1 \in 1..Len(queue) /\ queue'[i] = queue[i + 1] /\ i + 1 # 1
      BY <1>1
    <3>2. queue'[i] \in Exchanges /\ queue'[i] # e
          /\ "queue" \in refs[queue'[i]] /\ start[queue'[i]] = "started"
      BY <1>1, <3>1 DEF CaptureInv, QueueOwned
    <3> QED BY <1>7, <3>2 DEF Rest
  <2>2. ASSUME NEW i \in 1..Len(queue'), NEW j \in 1..Len(queue'),
               queue'[i] = queue'[j]
        PROVE  i = j
    <3>1. i + 1 \in 1..Len(queue) /\ j + 1 \in 1..Len(queue)
          /\ queue[i + 1] = queue[j + 1]
      BY <1>1, <2>2
    <3>2. i + 1 = j + 1
      BY <3>1 DEF CaptureInv, QueueOwned
    <3> QED BY <1>1, <3>2
  <2> QED BY <2>1, <2>2 DEF QueueOwned
<1>9. Custody(e)'
  BY <1>1, <1>2, <1>3, <1>5 DEF CaptureInv, Custody, Responding, owners,
                                taskVars
<1>10. Alive(e)' => lease'[e] = rec'[e].retained + held'[e]
  <2>1. Alive(e)
    BY <1>2 DEF Alive, RecordOwners, Owners
  <2>2. lease[e] = rec[e].retained + held[e]
    BY <1>1, <2>1 DEF CaptureInv, LeaseCoversRecord
  <2> QED BY <1>3, <1>4, <1>5, <2>2 DEF taskVars
<1> QED BY <1>1, <1>5, <1>6, <1>7, <1>8, <1>9, <1>10, ExchangeKeeps

\* A step of the runtime that finds nothing to do to the records.
LEMMA FrameOnlyKeeps ==
  ASSUME CaptureInv, UNCHANGED <<recordVars, fed, store, queue>>,
         UNCHANGED <<freePermits, nextSequence, metrics, taskVars, seq, shutdown>>,
         dirty' \in BOOLEAN, lastPressure' \in Nat,
         runtime' \in [task: Tasks, todo: SUBSET Exchanges]
  PROVE  CaptureInv'
<1>1. TaskTypes' /\ PublisherTypes' /\ RuntimeTypes'
  BY TypesNow DEF TaskTypes, PublisherTypes, RuntimeTypes, taskVars
<1> QED BY <1>1, TasksUnchanged

LEMMA NotifyDirtyKeeps ==
  ASSUME CaptureInv, NotifyDirty
  PROVE  CaptureInv'
<1>1. /\ dirty' = FALSE /\ runtime' = [task |-> "notified", todo |-> {}]
      /\ UNCHANGED <<recordVars, fed, store, lastPressure, queue>>
      /\ RuntimeFrame
  BY DEF NotifyDirty, Busy
<1>2. /\ lastPressure' \in Nat /\ dirty' \in BOOLEAN
      /\ runtime' \in [task: Tasks, todo: SUBSET Exchanges]
  BY <1>1, TypesNow DEF RuntimeTypes, Tasks
<1>3. UNCHANGED <<recordVars, fed, store, queue>>
  BY <1>1
<1> QED BY <1>1, <1>2, <1>3, RuntimeFrameKeeps, FrameOnlyKeeps

LEMMA ReadPressureKeeps ==
  ASSUME CaptureInv, ReadPressure
  PROVE  CaptureInv'
<1>1. /\ lastPressure' = metrics.pressure
      /\ runtime' = [task |-> "idle", todo |-> {}]
      /\ UNCHANGED <<dirty, queue, freePermits, nextSequence, metrics,
                     taskVars, seq, shutdown>>
  BY DEF ReadPressure, RuntimeFrame, Busy
<1>2. /\ lastPressure' \in Nat /\ dirty' \in BOOLEAN
      /\ runtime' \in [task: Tasks, todo: SUBSET Exchanges]
  BY <1>1, TypesNow DEF PublisherTypes, Tasks
<1>3. CASE EvictOldest
  BY <1>1, <1>2, <1>3, EvictOldestKeeps
<1>4. CASE UNCHANGED <<recordVars, fed, store>>
  <2>1. UNCHANGED <<recordVars, fed, store, queue>>
    BY <1>1, <1>4
  <2> QED BY <1>1, <1>2, <2>1, FrameOnlyKeeps
<1> QED BY <1>3, <1>4 DEF ReadPressure, EvictUnderPressure

LEMMA RuntimeKeeps ==
  ASSUME CaptureInv, Runtime
  PROVE  CaptureInv'
<1>1. CASE Retain
  <2>1. /\ EvictOldest /\ UNCHANGED <<dirty, lastPressure, queue>>
        /\ RuntimeFrame
        /\ \E task \in {"retain", "idle"} :
             runtime' = [task |-> task, todo |-> {}]
    BY <1>1 DEF Retain, Busy
  <2> QED BY <2>1, TypesNow, RuntimeFrameKeeps, EvictOldestKeeps
          DEF RuntimeTypes, PublisherTypes, Tasks
<1>2. CASE Delete \/ Clear
  <2>1. /\ UNCHANGED <<recordVars, fed, store, dirty, lastPressure, queue>>
        /\ RuntimeFrame
        /\ \E task \in {"delete", "clear"} : \E todo \in SUBSET Exchanges :
             runtime' = [task |-> task, todo |-> todo]
    BY <1>2 DEF Delete, Clear, Busy, Stored
  <2> QED BY <2>1, TypesNow, RuntimeFrameKeeps, FrameOnlyKeeps
          DEF RuntimeTypes, PublisherTypes, Tasks
<1>3. CASE DeleteOne
  <2>1. PICK e \in Exchanges :
          LET left == runtime.todo \ {e}
          IN  /\ RemoveRecord(e, "ExplicitDelete", refs[e] \ {"store"})
              /\ store' = [bytes |-> SatSub(store.bytes, rec[e].retained),
                           revision |-> store.revision +
                                          (IF left = {} THEN 1 ELSE 0)]
              /\ Busy(IF left = {} THEN "idle" ELSE "delete", left)
    BY <1>3 DEF DeleteOne
  <2>2. UNCHANGED <<dirty, lastPressure, queue>> /\ RuntimeFrame
    BY <1>3 DEF DeleteOne
  <2>3. store' \in [bytes: Nat, revision: Nat]
    BY <2>1, StoredIsAlive, TypesNow DEF RuntimeTypes, SatSub
  <2>4. runtime' \in [task: Tasks, todo: SUBSET Exchanges]
    <3>1. runtime.todo \ {e} \in SUBSET Exchanges
      BY TypesNow DEF RuntimeTypes
    <3> QED BY <2>1, <3>1 DEF Busy, Tasks
  <2>5. RuntimeTypes' /\ dirty' \in BOOLEAN /\ "ExplicitDelete" \in Removals
    BY <2>2, <2>3, <2>4, TypesNow, RuntimeFrameKeeps
       DEF RuntimeTypes, PublisherTypes, Removals
  <2> QED BY <2>1, <2>2, <2>5, RuntimeFrameKeeps, RemoveRecordKeeps
<1>4. CASE ClearOne
  <2>1. PICK e \in Exchanges :
          LET left == runtime.todo \ {e}
          IN  /\ RemoveRecord(e, "Clear", refs[e])
              /\ IF left = {} THEN Busy("drop", Stored) ELSE Busy("clear", left)
    BY <1>4 DEF ClearOne
  <2>2. UNCHANGED <<store, dirty, lastPressure, queue>> /\ RuntimeFrame
    BY <1>4 DEF ClearOne
  <2>3. runtime' \in [task: Tasks, todo: SUBSET Exchanges]
    <3>1. runtime.todo \ {e} \in SUBSET Exchanges /\ Stored \in SUBSET Exchanges
      BY TypesNow DEF RuntimeTypes, Stored
    <3>2. \E task \in {"drop", "clear"} : \E todo \in SUBSET Exchanges :
            runtime' = [task |-> task, todo |-> todo]
      BY <2>1, <3>1 DEF Busy
    <3> QED BY <3>2 DEF Tasks
  <2>4. RuntimeTypes' /\ dirty' \in BOOLEAN /\ "Clear" \in Removals
    BY <2>2, <2>3, TypesNow, RuntimeFrameKeeps
       DEF RuntimeTypes, PublisherTypes, Removals
  <2> QED BY <2>1, <2>2, <2>4, RuntimeFrameKeeps, RemoveRecordKeeps
<1>5. CASE DropOne
  <2>1. PICK e \in Exchanges :
          LET left == runtime.todo \ {e}
          IN  /\ SetOwners(e, refs[e] \ {"store"}, rec[e], 0)
              /\ Busy(IF left = {} THEN "idle" ELSE "drop", left)
              /\ store' = IF left = {}
                            THEN [bytes |-> 0, revision |-> store.revision + 1]
                            ELSE store
    BY <1>5 DEF DropOne
  <2>2. UNCHANGED <<fed, dirty, lastPressure, queue>> /\ RuntimeFrame
    BY <1>5 DEF DropOne
  <2>3. runtime' \in [task: Tasks, todo: SUBSET Exchanges]
    <3>1. runtime.todo \ {e} \in SUBSET Exchanges
      BY TypesNow DEF RuntimeTypes
    <3> QED BY <2>1, <3>1 DEF Busy, Tasks
  <2>4. store' \in [bytes: Nat, revision: Nat]
    BY <2>1, TypesNow DEF RuntimeTypes
  <2>5. RuntimeTypes' /\ PublisherTypes' /\ TaskTypes'
    BY <2>2, <2>3, <2>4, TypesNow, RuntimeFrameKeeps
       DEF RuntimeTypes, PublisherTypes, TaskTypes, taskVars
  <2>6. /\ refs[e] \ {"store"} \in SUBSET Owners
        /\ (refs[e] \ {"store"}) \intersect RecordOwners # {} => Alive(e)
    BY StoredIsAlive
  <2>7. UNCHANGED <<held, handler, start, queue>>
    BY <2>2, RuntimeFrameKeeps DEF taskVars
  <2> QED BY <2>1, <2>5, <2>6, <2>7, StoredIsAlive, OwnersChange
<1> QED BY <1>1, <1>2, <1>3, <1>4, <1>5, RecvCaptureKeeps, NotifyDirtyKeeps,
           ReadPressureKeeps DEF Runtime

LEMMA ReaderKeeps ==
  ASSUME CaptureInv, NEW e \in Readable, Reader(e)
  PROVE  CaptureInv'
<1>1. e \in Exchanges
  BY CaptureAssumption
<1>2. PICK owners \in SUBSET Owners :
        /\ Reading(e, owners)
        /\ \A o \in {"queue", "response", "producer"} :
             o \in refs[e] <=> o \in owners
        /\ owners \intersect RecordOwners # {} => Alive(e)
  <2>1. refs[e] \in SUBSET Owners /\ {"store", "reader"} \subseteq RecordOwners
    BY <1>1, StoredIsAlive DEF RecordOwners, Owners
  <2>2. CASE ReaderOpen(e)
    BY <2>1, <2>2 DEF ReaderOpen, Alive, RecordOwners, Owners
  <2>3. CASE ReaderSnapshot(e)
    BY <2>1, <2>3 DEF ReaderSnapshot, Alive, RecordOwners, Owners
  <2>4. CASE ReaderClose(e)
    BY <2>1, <2>4 DEF ReaderClose, Alive
  <2>5. CASE SnapshotDrop(e)
    BY <2>1, <2>5 DEF SnapshotDrop, Alive
  <2> QED BY <2>2, <2>3, <2>4, <2>5 DEF Reader
<1>3. /\ SetOwners(e, owners, rec[e], 0)
      /\ UNCHANGED <<publisherVars, taskVars, runtimeVars, seq, fed>>
  BY <1>2 DEF Reading
<1>4. TaskTypes' /\ PublisherTypes' /\ RuntimeTypes'
  BY <1>3, TypesNow
     DEF TaskTypes, PublisherTypes, RuntimeTypes, publisherVars, taskVars,
         runtimeVars
<1>5. UNCHANGED <<held, handler, start, queue>>
  BY <1>3 DEF taskVars, publisherVars
<1> QED BY <1>1, <1>2, <1>3, <1>4, <1>5, StoredIsAlive, OwnersChange

LEMMA CaptureStep == CaptureInv /\ [Next]_vars => CaptureInv'
<1> SUFFICES ASSUME CaptureInv, [Next]_vars PROVE CaptureInv'
  OBVIOUS
<1>1. CASE Shutdown
  <2>1. /\ UNCHANGED <<publisherVars, taskVars, recordVars, store, runtime,
                       lastPressure, seq, fed>>
        /\ shutdown' = TRUE
    BY <1>1 DEF Shutdown
  <2>2. TaskTypes' /\ PublisherTypes' /\ RuntimeTypes'
    BY <2>1, TypesNow
       DEF TaskTypes, PublisherTypes, RuntimeTypes, publisherVars, taskVars
  <2> QED BY <2>1, <2>2, TasksUnchanged DEF publisherVars
<1>2. CASE UNCHANGED vars
  <2>1. TaskTypes' /\ PublisherTypes' /\ RuntimeTypes'
    BY <1>2, TypesNow
       DEF vars, TaskTypes, PublisherTypes, RuntimeTypes, publisherVars,
           taskVars, runtimeVars
  <2> QED BY <1>2, <2>1, TasksUnchanged DEF vars, publisherVars
<1> QED BY <1>1, <1>2, TaskKeeps, RuntimeKeeps, ReaderKeeps DEF Next

(***************************************************************************)
(* Every reachable state satisfies the inductive invariant, with the types *)
(* of every variable: the queue between try_start and the runtime holds    *)
(* each live record once, and a reservation of set_response_at belongs to  *)
(* an exchange that is responding.                                         *)
(***************************************************************************)
THEOREM CaptureInvariant == Spec => []CaptureInv
BY CaptureInit, CaptureStep, PTL DEF Spec

(***************************************************************************)
(* What a record accounts for and what its lease holds never drift apart,  *)
(* and the process never holds more than the budget, for every number of   *)
(* exchanges, sizes and limits, whoever drops the last Arc.                *)
(***************************************************************************)
THEOREM LeasesCoverRecords ==
  Spec => [](TypeOK /\ LeaseCoversRecord /\ used <= BudgetLimit)
<1>1. CaptureInv => TypeOK /\ LeaseCoversRecord /\ used <= BudgetLimit
  BY DEF CaptureInv
<1> QED BY <1>1, CaptureInvariant, PTL

(***************************************************************************)
(* The admission permits, for any number of exchanges.                     *)
(*                                                                         *)
(* PermitFollowsExchange is inductive once it is known that an exchange    *)
(* that has not been started has no handler, no pump and no finished side: *)
(* the send in try_start hands the permit over to a fresh lifecycle.       *)
(***************************************************************************)
PermitTypes ==
  /\ freePermits \in Nat
  /\ start \in [Exchanges -> {"idle", "admitted", "leased", "sequenced",
                              "started", "refused"}]
  /\ handler \in [Exchanges -> {"holding", "responding", "shrunk", "gone"}]
  /\ pump \in [Exchanges -> [Sides -> {"off", "running", "ended"}]]
  /\ terminal \in [Exchanges -> SUBSET Sides]
  /\ permit \in [Exchanges -> BOOLEAN]

Holders == {e \in Exchanges : permit[e]}

Due(e) ==
  \/ start[e] \in {"admitted", "leased", "sequenced"}
  \/ Handled(e, handler, pump) /\ terminal[e] # Sides

Fresh(e) ==
  start[e] # "started" =>
    /\ handler[e] = "gone" /\ terminal[e] = {}
    /\ \A s \in Sides : pump[e][s] # "running"

PermitInv ==
  /\ PermitTypes
  /\ freePermits + Cardinality(Holders) = MaxConcurrent
  /\ \A e \in Exchanges : (permit[e] <=> Due(e)) /\ Fresh(e)

LEMMA HoldersFinite ==
  /\ IsFiniteSet(Holders) /\ Cardinality(Holders) \in Nat
  /\ IsFiniteSet(Holders') /\ Cardinality(Holders') \in Nat
BY CaptureAssumption, FS_Subset, FS_CardinalityType DEF Holders

\* A permit taken.
LEMMA Taking ==
  ASSUME PermitInv, NEW e \in Exchanges, ~permit[e], freePermits > 0,
         permit' = [permit EXCEPT ![e] = TRUE], freePermits' = freePermits - 1
  PROVE  /\ freePermits' \in Nat /\ permit' \in [Exchanges -> BOOLEAN]
         /\ freePermits' + Cardinality(Holders') = MaxConcurrent
<1>1. freePermits' \in Nat /\ permit' \in [Exchanges -> BOOLEAN]
  BY DEF PermitInv, PermitTypes
<1>2. Holders' = Holders \union {e} /\ e \notin Holders
  BY DEF PermitInv, PermitTypes, Holders
<1>3. Cardinality(Holders') = Cardinality(Holders) + 1
  BY <1>2, HoldersFinite, FS_AddElement
<1>4. freePermits + Cardinality(Holders) = MaxConcurrent /\ freePermits \in Nat
  BY DEF PermitInv, PermitTypes
<1>5. freePermits' + Cardinality(Holders') = MaxConcurrent
  BY <1>3, <1>4, HoldersFinite
<1> QED BY <1>1, <1>5

\* A permit given back, by an exchange that has one.
LEMMA Returning ==
  ASSUME PermitInv, NEW e \in Exchanges, permit[e],
         permit' = [permit EXCEPT ![e] = FALSE], freePermits' = freePermits + 1
  PROVE  /\ freePermits' \in Nat /\ permit' \in [Exchanges -> BOOLEAN]
         /\ freePermits' + Cardinality(Holders') = MaxConcurrent
<1>1. freePermits' \in Nat /\ permit' \in [Exchanges -> BOOLEAN]
  BY DEF PermitInv, PermitTypes
<1>2. Holders' = Holders \ {e} /\ e \in Holders
  BY DEF PermitInv, PermitTypes, Holders
<1>3. Cardinality(Holders') = Cardinality(Holders) - 1
  BY <1>2, HoldersFinite, FS_RemoveElement
<1> QED BY <1>1, <1>3, HoldersFinite DEF PermitInv, PermitTypes

LEMMA Keeping ==
  ASSUME PermitInv, UNCHANGED <<permit, freePermits>>
  PROVE  /\ freePermits' \in Nat /\ permit' \in [Exchanges -> BOOLEAN]
         /\ freePermits' + Cardinality(Holders') = MaxConcurrent
<1>1. Holders' = Holders
  BY DEF Holders
<1> QED BY <1>1 DEF PermitInv, PermitTypes

\* What the tasks of one exchange do leaves the others as they were.
OthersStay(e) ==
  \A d \in Exchanges \ {e} :
    /\ start'[d] = start[d] /\ handler'[d] = handler[d] /\ pump'[d] = pump[d]
    /\ terminal'[d] = terminal[d] /\ permit'[d] = permit[d]

LEMMA OneExchangeMoves ==
  ASSUME PermitInv, NEW e \in Exchanges, OthersStay(e), PermitTypes',
         freePermits' + Cardinality(Holders') = MaxConcurrent,
         permit'[e] <=> Due(e)', Fresh(e)'
  PROVE  PermitInv'
<1>1. \A d \in Exchanges \ {e} : (permit'[d] <=> Due(d)') /\ Fresh(d)'
  BY DEF PermitInv, OthersStay, Due, Fresh, Handled
<1> QED BY <1>1 DEF PermitInv

LEMMA PermitInit == Init => PermitInv
<1> SUFFICES ASSUME Init PROVE PermitInv
  OBVIOUS
<1>1. Holders = {}
  BY DEF Init, Holders
<1>2. PermitTypes
  BY CaptureAssumption DEF Init, PermitTypes
<1>3. \A e \in Exchanges : (permit[e] <=> Due(e)) /\ Fresh(e)
  BY DEF Init, Due, Fresh, Handled
<1> QED BY <1>1, <1>2, <1>3, FS_EmptySet, CaptureAssumption DEF PermitInv, Init

(***************************************************************************)
(* try_start.                                                              *)
(***************************************************************************)
LEMMA RefuseKeeps ==
  ASSUME PermitInv, NEW e \in Exchanges, NEW n, Refuse(e, n),
         start[e] # "started"
  PROVE  PermitInv'
<1>1. /\ start' = [start EXCEPT ![e] = "refused"]
      /\ permit' = [permit EXCEPT ![e] = FALSE]
      /\ freePermits' = freePermits + (IF permit[e] THEN 1 ELSE 0)
      /\ UNCHANGED <<handler, pump, terminal>>
  BY DEF Refuse
<1>2. PermitTypes' /\ freePermits' + Cardinality(Holders') = MaxConcurrent
  <2>1. CASE permit[e]
    <3>1. freePermits' = freePermits + 1
      BY <1>1, <2>1
    <3> QED BY <1>1, <2>1, <3>1, Returning DEF PermitInv, PermitTypes
  <2>2. CASE ~permit[e]
    <3>1. UNCHANGED <<permit, freePermits>>
      BY <1>1, <2>2 DEF PermitInv, PermitTypes
    <3> QED BY <1>1, <3>1, Keeping DEF PermitInv, PermitTypes
  <2> QED BY <2>1, <2>2
<1>3. OthersStay(e)
  BY <1>1 DEF OthersStay, PermitInv, PermitTypes
<1>4. ~permit'[e] /\ ~Due(e)' /\ Fresh(e)'
  BY <1>1 DEF PermitInv, PermitTypes, Due, Fresh, Handled
<1> QED BY <1>2, <1>3, <1>4, OneExchangeMoves

LEMMA StartKeeps ==
  ASSUME PermitInv, NEW e \in Exchanges,
         \/ StartAcquire(e) \/ StartLease(e) \/ StartSequence(e) \/ StartSend(e)
  PROVE  PermitInv'
<1>1. CASE StartAcquire(e)
  <2>1. CASE Refuse(e, 0)
    BY <1>1, <2>1, RefuseKeeps DEF StartAcquire
  <2>2. CASE ~Refuse(e, 0)
    <3>1. /\ start[e] = "idle" /\ freePermits > 0
          /\ freePermits' = freePermits - 1
          /\ permit' = [permit EXCEPT ![e] = TRUE]
          /\ start' = [start EXCEPT ![e] = "admitted"]
          /\ UNCHANGED <<handler, pump, terminal>>
      BY <1>1, <2>2 DEF StartAcquire
    <3>2. ~permit[e]
      BY <3>1 DEF PermitInv, Due, Fresh, Handled
    <3>3. PermitTypes' /\ freePermits' + Cardinality(Holders') = MaxConcurrent
      BY <3>1, <3>2, Taking DEF PermitInv, PermitTypes
    <3>4. OthersStay(e) /\ permit'[e] /\ Due(e)' /\ Fresh(e)'
      BY <3>1 DEF OthersStay, PermitInv, PermitTypes, Due, Fresh
    <3> QED BY <3>3, <3>4, OneExchangeMoves
  <2> QED BY <2>1, <2>2
<1>2. CASE StartLease(e)
  <2>1. CASE Refuse(e, 1)
    BY <1>2, <2>1, RefuseKeeps DEF StartLease
  <2>2. CASE ~Refuse(e, 1)
    <3>1. /\ start[e] = "admitted" /\ UNCHANGED <<permit, freePermits>>
          /\ start' = [start EXCEPT ![e] = "leased"]
          /\ UNCHANGED <<handler, pump, terminal>>
      BY <1>2, <2>2 DEF StartLease
    <3>2. PermitTypes' /\ freePermits' + Cardinality(Holders') = MaxConcurrent
      BY <3>1, Keeping DEF PermitInv, PermitTypes
    <3>3. OthersStay(e) /\ permit'[e] /\ Due(e)' /\ Fresh(e)'
      BY <3>1 DEF OthersStay, PermitInv, PermitTypes, Due, Fresh
    <3> QED BY <3>2, <3>3, OneExchangeMoves
  <2> QED BY <2>1, <2>2
<1>3. CASE StartSequence(e)
  <2>1. /\ start[e] = "leased" /\ UNCHANGED <<permit, freePermits>>
        /\ start' = [start EXCEPT ![e] = "sequenced"]
        /\ UNCHANGED <<handler, pump, terminal>>
    BY <1>3 DEF StartSequence
  <2>2. PermitTypes' /\ freePermits' + Cardinality(Holders') = MaxConcurrent
    BY <2>1, Keeping DEF PermitInv, PermitTypes
  <2>3. OthersStay(e) /\ permit'[e] /\ Due(e)' /\ Fresh(e)'
    BY <2>1 DEF OthersStay, PermitInv, PermitTypes, Due, Fresh
  <2> QED BY <2>2, <2>3, OneExchangeMoves
<1>4. CASE StartSend(e)
  <2>1. CASE Refuse(e, 0)
    BY <1>4, <2>1, RefuseKeeps DEF StartSend
  <2>2. CASE ~Refuse(e, 0)
    <3>1. /\ start[e] = "sequenced" /\ UNCHANGED <<permit, freePermits>>
          /\ start' = [start EXCEPT ![e] = "started"]
          /\ handler' = [handler EXCEPT ![e] = "holding"]
          /\ pump' = [pump EXCEPT ![e]["request"] = "running"]
          /\ UNCHANGED terminal
      BY <1>4, <2>2 DEF StartSend
    <3>2. PermitTypes' /\ freePermits' + Cardinality(Holders') = MaxConcurrent
      BY <3>1, Keeping DEF PermitInv, PermitTypes, Sides
    <3>3. OthersStay(e)
      BY <3>1 DEF OthersStay, PermitInv, PermitTypes
    <3>4. permit[e] /\ terminal[e] = {}
      BY <3>1 DEF PermitInv, Due, Fresh
    <3>5. /\ start'[e] = "started" /\ handler'[e] = "holding"
          /\ permit'[e] /\ terminal'[e] = {}
      BY <3>1, <3>4 DEF PermitInv, PermitTypes
    <3>6. Due(e)' /\ Fresh(e)'
      BY <3>5 DEF Due, Fresh, Handled, Sides
    <3> QED BY <3>2, <3>3, <3>5, <3>6, OneExchangeMoves
  <2> QED BY <2>1, <2>2
<1> QED BY <1>1, <1>2, <1>3, <1>4

(***************************************************************************)
(* The handler and the pumps.                                              *)
(***************************************************************************)

\* mark_terminal, or the drop of the last clone of the handle.
LEMMA ReturnPermitKeeps ==
  ASSUME PermitInv, NEW e \in Exchanges, start[e] = "started",
         ReturnPermit(e, terminal'[e], handler', pump'),
         \A d \in Exchanges \ {e} :
           /\ handler'[d] = handler[d] /\ pump'[d] = pump[d]
           /\ terminal'[d] = terminal[d],
         start' = start,
         handler' \in [Exchanges -> {"holding", "responding", "shrunk", "gone"}],
         pump' \in [Exchanges -> [Sides -> {"off", "running", "ended"}]],
         terminal' \in [Exchanges -> SUBSET Sides],
         terminal[e] \subseteq terminal'[e],
         Handled(e, handler', pump') => Handled(e, handler, pump)
  PROVE  PermitInv'
<1> DEFINE done == terminal'[e] = Sides \/ ~Handled(e, handler', pump')
<1>1. permit[e] <=> Handled(e, handler, pump) /\ terminal[e] # Sides
  BY DEF PermitInv, Due
<1>2. Fresh(e)'
  BY DEF Fresh
<1>3. CASE permit[e] /\ done
  <2>1. /\ permit' = [permit EXCEPT ![e] = FALSE]
        /\ freePermits' = freePermits + 1
    BY <1>3 DEF ReturnPermit
  <2>2. PermitTypes' /\ freePermits' + Cardinality(Holders') = MaxConcurrent
    BY <1>3, <2>1, Returning DEF PermitInv, PermitTypes
  <2>3. OthersStay(e)
    BY <2>1 DEF OthersStay, PermitInv, PermitTypes
  <2>4. ~permit'[e]
    BY <2>1 DEF PermitInv, PermitTypes
  <2>5. ~Due(e)'
    BY <1>3 DEF Due
  <2> QED BY <1>2, <2>2, <2>3, <2>4, <2>5, OneExchangeMoves
<1>4. CASE ~(permit[e] /\ done)
  <2>1. UNCHANGED <<permit, freePermits>>
    BY <1>4 DEF ReturnPermit
  <2>2. PermitTypes' /\ freePermits' + Cardinality(Holders') = MaxConcurrent
    BY <2>1, Keeping DEF PermitInv, PermitTypes
  <2>3. OthersStay(e)
    BY <2>1 DEF OthersStay
  <2>4. permit'[e] <=> Due(e)'
    <3>1. terminal[e] = Sides => terminal'[e] = Sides
      BY DEF Sides
    <3>2. Due(e)' <=> ~done
      BY DEF Due
    <3> QED BY <1>1, <1>4, <2>1, <3>1, <3>2
  <2> QED BY <1>2, <2>2, <2>3, <2>4, OneExchangeMoves
<1> QED BY <1>3, <1>4

\* A task of a started exchange that stays handled and ends no side.
LEMMA HandledKeeps ==
  ASSUME PermitInv, NEW e \in Exchanges, handler[e] # "gone", OthersStay(e),
         UNCHANGED <<start, terminal, permit, freePermits>>,
         handler' \in [Exchanges -> {"holding", "responding", "shrunk", "gone"}],
         pump' \in [Exchanges -> [Sides -> {"off", "running", "ended"}]],
         Handled(e, handler', pump')
  PROVE  PermitInv'
<1>1. start[e] = "started"
  BY DEF PermitInv, Fresh
<1>2. PermitTypes' /\ freePermits' + Cardinality(Holders') = MaxConcurrent
  BY Keeping DEF PermitInv, PermitTypes
<1>3. (permit'[e] <=> Due(e)') /\ Fresh(e)'
  BY <1>1 DEF PermitInv, Due, Fresh, Handled
<1> QED BY <1>2, <1>3, OneExchangeMoves

LEMMA StartResponsePumpKeeps ==
  ASSUME PermitInv, NEW e \in Exchanges, handler[e] # "gone",
         StartResponsePump(e),
         UNCHANGED <<start, terminal, permit, freePermits>>
  PROVE  PermitInv'
<1>1. /\ handler' = [handler EXCEPT ![e] = "gone"]
      /\ pump' = [pump EXCEPT ![e]["response"] = "running"]
      /\ "response" \in Sides
  BY DEF StartResponsePump, Sides
<1>2. /\ handler' \in [Exchanges -> {"holding", "responding", "shrunk", "gone"}]
      /\ pump' \in [Exchanges -> [Sides -> {"off", "running", "ended"}]]
      /\ pump'[e]["response"] = "running"
  BY <1>1 DEF PermitInv, PermitTypes
<1>3. OthersStay(e)
  BY <1>1 DEF OthersStay, PermitInv, PermitTypes
<1> QED BY <1>1, <1>2, <1>3, HandledKeeps DEF Handled

LEMMA TaskKeepsPermits ==
  ASSUME PermitInv, NEW e \in Exchanges, Task(e)
  PROVE  PermitInv'
<1>1. CASE RespondReserve(e) \/ RespondShrink(e)
  <2>1. /\ handler[e] # "gone" /\ UNCHANGED <<start, pump, terminal, permit>>
        /\ freePermits' = freePermits
    BY <1>1 DEF RespondReserve, RespondShrink, publisherVars
  <2>2. \E to \in {"responding", "shrunk"} :
          handler' = [handler EXCEPT ![e] = to]
    BY <1>1 DEF RespondReserve, RespondShrink
  <2>3. /\ handler' \in [Exchanges -> {"holding", "responding", "shrunk",
                                       "gone"}]
        /\ handler'[e] # "gone" /\ OthersStay(e)
    BY <2>1, <2>2 DEF PermitInv, PermitTypes, OthersStay
  <2>4. pump' \in [Exchanges -> [Sides -> {"off", "running", "ended"}]]
    BY <2>1 DEF PermitInv, PermitTypes
  <2> QED BY <2>1, <2>3, <2>4, HandledKeeps DEF Handled
<1>2. CASE RespondCommit(e) \/ RespondUnreachable(e)
  <2>1. /\ handler[e] # "gone" /\ StartResponsePump(e)
        /\ UNCHANGED <<start, terminal, permit, freePermits>>
    BY <1>2 DEF RespondCommit, RespondUnreachable, publisherVars
  <2> QED BY <2>1, StartResponsePumpKeeps
<1>3. CASE Abandon(e)
  <2>1. /\ handler[e] = "holding" /\ handler' = [handler EXCEPT ![e] = "gone"]
        /\ ReturnPermit(e, terminal[e], handler', pump)
        /\ UNCHANGED <<start, pump, terminal>>
    BY <1>3 DEF Abandon
  <2>2. start[e] = "started"
    BY <2>1 DEF PermitInv, Fresh
  <2>3. handler' \in [Exchanges -> {"holding", "responding", "shrunk", "gone"}]
        /\ \A d \in Exchanges \ {e} : handler'[d] = handler[d]
    BY <2>1 DEF PermitInv, PermitTypes
  <2>4. Handled(e, handler, pump)
    BY <2>1 DEF Handled
  <2>5. ReturnPermit(e, terminal'[e], handler', pump')
    BY <2>1
  <2>6. /\ pump' \in [Exchanges -> [Sides -> {"off", "running", "ended"}]]
        /\ terminal' \in [Exchanges -> SUBSET Sides]
    BY <2>1 DEF PermitInv, PermitTypes
  <2> QED BY <2>1, <2>2, <2>3, <2>4, <2>5, <2>6, ReturnPermitKeeps
<1>4. ASSUME NEW s \in Sides, NEW kind \in Endings, Finish(e, s, kind)
      PROVE  PermitInv'
  <2>1. /\ pump[e][s] = "running" /\ pump' = [pump EXCEPT ![e][s] = "ended"]
        /\ terminal' = [terminal EXCEPT ![e] = @ \union {s}]
        /\ ReturnPermit(e, terminal[e] \union {s}, handler, pump')
        /\ UNCHANGED <<start, handler>>
    BY <1>4 DEF Finish
  <2>2. start[e] = "started" /\ Handled(e, handler, pump)
    BY <2>1 DEF PermitInv, Fresh, Handled
  <2>3. /\ pump' \in [Exchanges -> [Sides -> {"off", "running", "ended"}]]
        /\ terminal' \in [Exchanges -> SUBSET Sides]
        /\ terminal'[e] = terminal[e] \union {s}
        /\ \A d \in Exchanges \ {e} :
             pump'[d] = pump[d] /\ terminal'[d] = terminal[d]
    BY <2>1 DEF PermitInv, PermitTypes
  <2>4. ReturnPermit(e, terminal'[e], handler', pump')
    BY <2>1, <2>3
  <2>5. handler' \in [Exchanges -> {"holding", "responding", "shrunk", "gone"}]
    BY <2>1 DEF PermitInv, PermitTypes
  <2> QED BY <2>1, <2>2, <2>3, <2>4, <2>5, ReturnPermitKeeps
<1>5. ASSUME NEW s \in Sides, NEW n \in FrameSizes, Frame(e, s, n)
      PROVE  PermitInv'
  <2>1. UNCHANGED <<taskVars, freePermits>>
    BY <1>5 DEF Frame
  <2> QED BY <2>1 DEF taskVars, PermitInv, PermitTypes, Holders, Due, Fresh,
                      Handled
<1> QED BY <1>1, <1>2, <1>3, <1>4, <1>5, StartKeeps DEF Task

(***************************************************************************)
(* The runtime, the readers and a shutdown touch no task and no permit:    *)
(* eviction, deletion and clearing leave the admission of new exchanges    *)
(* alone.                                                                  *)
(***************************************************************************)
LEMMA ElsewhereKeeps ==
  ASSUME PermitInv,
         \/ Runtime \/ Shutdown \/ \E e \in Readable : Reader(e)
         \/ UNCHANGED vars
  PROVE  PermitInv'
<1>1. UNCHANGED <<taskVars, freePermits>>
  <2>1. Runtime => UNCHANGED <<taskVars, freePermits>>
    BY DEF Runtime, RecvCapture, Retain, NotifyDirty, ReadPressure, Delete, DeleteOne, Clear,
           ClearOne, DropOne, RuntimeFrame
  <2>2. ASSUME NEW e \in Readable, Reader(e)
        PROVE  UNCHANGED <<taskVars, freePermits>>
    BY <2>2 DEF Reader, ReaderOpen, ReaderSnapshot, ReaderClose, SnapshotDrop,
                Reading, publisherVars
  <2>3. Shutdown \/ UNCHANGED vars => UNCHANGED <<taskVars, freePermits>>
    BY DEF Shutdown, vars, publisherVars
  <2> QED BY <2>1, <2>2, <2>3
<1> QED BY <1>1 DEF taskVars, PermitInv, PermitTypes, Holders, Due, Fresh, Handled

LEMMA PermitStep == PermitInv /\ [Next]_vars => PermitInv'
BY TaskKeepsPermits, ElsewhereKeeps DEF Next

(***************************************************************************)
(* No permit is leaked and none is returned twice, for any number of       *)
(* exchanges and permits: an exchange holds one exactly while try_start    *)
(* runs, or a clone of its handle is alive and a side is not terminal.     *)
(***************************************************************************)
THEOREM PermitsFollowExchanges == Spec => []PermitFollowsExchange
<1>1. PermitInv => PermitFollowsExchange
  BY DEF PermitInv, PermitFollowsExchange, Holders, Due
<1> QED BY <1>1, PermitInit, PermitStep, PTL DEF Spec

(***************************************************************************)
(* The records and what is announced of them: the change feed keeps the    *)
(* promise of RecordView, record by record, a record that left the store   *)
(* takes no more bytes, and a preview is cut only for the reason it        *)
(* reports.                                                                *)
(***************************************************************************)

(***************************************************************************)
(* What holds between the steps, for each exchange.                        *)
(***************************************************************************)
Public == {"Admitted", "RecordUpdated"}

\* Nothing is said of a record before the runtime took it from the queue.
Unannounced(e) ==
  start[e] # "started" \/ "queue" \in refs[e] =>
    fed[e].kind = "None" /\ ~rec[e].disabled /\ "store" \notin refs[e]

\* The store and the feed agree, but for the records a clear has marked.
Listed(e) ==
  /\ rec[e].bound <=> fed[e].kind \in Public
  /\ rec[e].bound => "store" \in refs[e] /\ fed[e].revision = rec[e].revision

\* Where the store operation in progress has come.
Removing(e) ==
  /\ runtime.task \in {"delete", "clear"} /\ e \in runtime.todo => "store" \in refs[e]
  /\ runtime.task = "drop" => (e \in runtime.todo <=> "store" \in refs[e])
  /\ "store" \in refs[e] =>
       (rec[e].bound <=> ~ \/ runtime.task = "drop"
                           \/ runtime.task = "clear" /\ e \notin runtime.todo)

FeedInv == \A e \in Exchanges : Unannounced(e) /\ Listed(e) /\ Removing(e)

(***************************************************************************)
(* What a task or a reader does to its record and to the feed.             *)
(***************************************************************************)
Others(e) ==
  \A d \in Exchanges \ {e} :
    refs'[d] = refs[d] /\ rec'[d] = rec[d] /\ fed'[d] = fed[d] /\ start'[d] = start[d]

SameState(e) == rec'[e].bound = rec[e].bound /\ rec'[e].disabled = rec[e].disabled

Silent(e) == SameState(e) /\ rec'[e].revision = rec[e].revision /\ fed'[e] = fed[e]

Announced(e) ==
  /\ SameState(e) /\ rec'[e].revision = rec[e].revision + 1
  /\ fed'[e] = IF rec[e].bound
                 THEN [kind |-> "RecordUpdated", revision |-> rec[e].revision + 1]
                 ELSE fed[e]

Dropped(e) == rec'[e] = NoRecord /\ fed'[e] = fed[e] /\ "store" \notin refs'[e]

SameBytes(r, q) ==
  /\ q.retained = r.retained
  /\ \A s \in Sides : q.body[s].retained = r.body[s].retained

\* PreviewIsPrefix, of one record.
PreviewRight(r) ==
  \A s \in Sides :
    LET b == r.body[s]
    IN  /\ b.retained <= Least(b.observed, PreviewLimit)
        /\ ~r.disabled => (b.limit = "None" <=> b.retained = b.observed)
        /\ b.limit = "PerBodyLimit" => b.retained = PreviewLimit

\* What no step may do to a record, and what every step keeps.
Keeps(e) ==
  /\ rec[e].disabled /\ rec'[e].disabled => SameBytes(rec[e], rec'[e])
  /\ PreviewRight(rec[e]) => PreviewRight(rec'[e])

LEMMA NoRecordIsRight == PreviewRight(NoRecord)
  BY CaptureAssumption DEF PreviewRight, NoRecord, Nothing, Least

\* What no preview notices.
LEMMA PreviewStays ==
  ASSUME NEW r, NEW q, r.disabled => q.disabled,
         \A s \in Sides : /\ q.body[s].retained = r.body[s].retained
                         /\ q.body[s].observed = r.body[s].observed
                         /\ q.body[s].limit = r.body[s].limit
  PROVE  PreviewRight(r) => PreviewRight(q)
  BY DEF PreviewRight

Handles(e) ==
  /\ Others(e) /\ UNCHANGED runtime
  /\ start[e] = "started" => start'[e] = "started"
  /\ start[e] = "started" /\ "queue" \in refs'[e] => "queue" \in refs[e]
  /\ "store" \in refs'[e] <=> "store" \in refs[e]
  /\ Silent(e) \/ Announced(e) \/ Dropped(e)
  /\ Keeps(e)

LEMMA HandledKeepsFeed ==
  ASSUME FeedInv, NEW e \in Exchanges, Handles(e)
  PROVE  FeedInv'
  <1>1. \A d \in Exchanges \ {e} : Unannounced(d)' /\ Listed(d)' /\ Removing(d)'
    BY DEF FeedInv, Handles, Others, Unannounced, Listed, Removing
  <1>2. Unannounced(e) /\ Listed(e) /\ Removing(e)
    BY DEF FeedInv
  <1>3. Listed(e)'
    BY <1>2 DEF Handles, Silent, Announced, Dropped, SameState, Listed, NoRecord, Public
  <1>4. Unannounced(e)'
    BY <1>2 DEF Handles, Silent, Announced, Dropped, SameState, Unannounced, Listed,
                NoRecord, Public
  <1>5. Removing(e)'
    BY <1>2 DEF Handles, Silent, Announced, Dropped, SameState, Removing, NoRecord
  <1> QED
    BY <1>1, <1>3, <1>4, <1>5 DEF FeedInv

\* The shared effects, seen from the record they are about.
LEMMA OwnersMove ==
  ASSUME CaptureInv, NEW e \in Exchanges, NEW owners, NEW r, NEW given,
         SetOwners(e, owners, r, given)
  PROVE  /\ refs'[e] = owners
         /\ rec'[e] = IF owners \intersect RecordOwners = {} THEN NoRecord ELSE r
         /\ \A d \in Exchanges \ {e} : refs'[d] = refs[d] /\ rec'[d] = rec[d]
  BY TypesNow DEF SetOwners, LeaseTypes

LEMMA FedMoves ==
  ASSUME CaptureInv, NEW e \in Exchanges, NEW kind, NEW revision,
         PublishIfBound(e, kind, revision)
  PROVE  /\ fed'[e] = IF rec[e].bound THEN [kind |-> kind, revision |-> revision]
                                      ELSE fed[e]
         /\ \A d \in Exchanges \ {e} : fed'[d] = fed[d]
  BY TypesNow DEF PublishIfBound, Publish, PublisherTypes

\* The owners of a record move and nothing else happens to it.
LEMMA ReleaseHandles ==
  ASSUME CaptureInv, NEW e \in Exchanges, NEW owners, NEW given,
         SetOwners(e, owners, rec[e], given), UNCHANGED <<fed, runtime>>,
         \A d \in Exchanges \ {e} : start'[d] = start[d],
         start[e] = "started" => start'[e] = "started",
         start[e] = "started" /\ "queue" \in owners => "queue" \in refs[e],
         "store" \in owners <=> "store" \in refs[e]
  PROVE  Handles(e)
  <1>1. /\ refs'[e] = owners
        /\ rec'[e] = IF owners \intersect RecordOwners = {} THEN NoRecord ELSE rec[e]
        /\ \A d \in Exchanges \ {e} : refs'[d] = refs[d] /\ rec'[d] = rec[d]
    BY OwnersMove
  <1>2. CASE owners \intersect RecordOwners = {}
    <2>1. Dropped(e) /\ ~rec'[e].disabled
      BY <1>1, <1>2 DEF Dropped, NoRecord, RecordOwners, Owners
    <2> QED
      BY <1>1, <1>2, <2>1, NoRecordIsRight DEF Handles, Others, Keeps
  <1>3. CASE owners \intersect RecordOwners # {}
    BY <1>1, <1>3 DEF Handles, Others, Keeps, SameBytes, Silent, SameState
  <1> QED
    BY <1>2, <1>3

\* No record changes and nothing is announced.
LEMMA NothingHandles ==
  ASSUME NEW e \in Exchanges, UNCHANGED <<rec, refs, fed, runtime>>,
         \A d \in Exchanges \ {e} : start'[d] = start[d],
         start[e] = "started" => start'[e] = "started"
  PROVE  Handles(e)
  BY DEF Handles, Others, Keeps, SameBytes, Silent, SameState

(***************************************************************************)
(* try_start and the handler.                                              *)
(***************************************************************************)
LEMMA StartHandles ==
  ASSUME CaptureInv, FeedInv, NEW e \in Exchanges,
         StartAcquire(e) \/ StartLease(e) \/ StartSequence(e) \/ StartSend(e)
  PROVE  Handles(e)
  <1>1. /\ start[e] # "started" /\ "store" \notin refs[e] /\ ~rec[e].disabled
        /\ UNCHANGED <<fed, runtime>>
        /\ \A d \in Exchanges \ {e} : start'[d] = start[d]
    BY TypesNow DEF StartAcquire, StartLease, StartSequence, StartSend, Refuse,
                    FeedInv, Unannounced, TaskTypes, runtimeVars
  <1>2. CASE StartAcquire(e) \/ StartSequence(e)
    BY <1>1, <1>2, NothingHandles DEF StartAcquire, StartSequence, recordVars
  <1>3. CASE StartLease(e)
    <2>1. PICK n \in RequestSizes :
            \/ /\ refs' = [refs EXCEPT ![e] = {"producer"}]
               /\ rec' = [rec EXCEPT ![e] = [rec[e] EXCEPT !.retained = n]]
            \/ UNCHANGED recordVars
      BY <1>3 DEF StartLease
    <2>2. CASE UNCHANGED recordVars
      BY <1>1, <2>2, NothingHandles DEF recordVars
    <2>3. CASE /\ refs' = [refs EXCEPT ![e] = {"producer"}]
               /\ rec' = [rec EXCEPT ![e] = [rec[e] EXCEPT !.retained = n]]
      <3>1. /\ rec'[e].bound = rec[e].bound /\ rec'[e].disabled = rec[e].disabled
            /\ rec'[e].revision = rec[e].revision /\ rec'[e].body = rec[e].body
        BY <2>3, TypesNow DEF LeaseTypes, Record
      <3>2. PreviewRight(rec[e]) => PreviewRight(rec'[e])
        BY <3>1, PreviewStays
      <3> QED
        BY <1>1, <2>3, <3>1, <3>2, TypesNow
        DEF Handles, Others, Keeps, Silent, SameState, LeaseTypes
    <2> QED
      BY <2>1, <2>2, <2>3
  <1>4. CASE StartSend(e)
    <2>1. SetOwners(e, {"queue"}, rec[e], 0) \/ SetOwners(e, {}, rec[e], 0)
      BY <1>4 DEF StartSend
    <2> QED
      BY <1>1, <2>1, ReleaseHandles
  <1> QED
    BY <1>2, <1>3, <1>4

LEMMA RespondHandles ==
  ASSUME CaptureInv, FeedInv, NEW e \in Exchanges,
         \/ RespondReserve(e) \/ RespondShrink(e) \/ RespondCommit(e)
         \/ RespondUnreachable(e) \/ Abandon(e)
  PROVE  Handles(e)
  <1>1. UNCHANGED <<start, runtime>>
    BY DEF RespondReserve, RespondShrink, RespondCommit, RespondUnreachable, Abandon,
           runtimeVars
  <1>2. CASE RespondReserve(e)
    <2>1. refs' = [refs EXCEPT ![e] = refs[e] \union {"response"}]
          /\ UNCHANGED <<rec, fed>>
      BY <1>2 DEF RespondReserve
    <2> QED
      BY <1>1, <2>1, TypesNow
      DEF Handles, Others, Keeps, SameBytes, Silent, SameState, LeaseTypes
  <1>3. CASE RespondShrink(e)
    <2>1. \E given : SetOwners(e, refs[e], rec[e], given)
      BY <1>3 DEF RespondShrink
    <2>2. UNCHANGED fed
      BY <1>3 DEF RespondShrink
    <2> QED
      BY <1>1, <2>1, <2>2, ReleaseHandles
  <1>4. CASE RespondUnreachable(e) \/ Abandon(e)
    BY <1>1, <1>4, NothingHandles DEF RespondUnreachable, Abandon, recordVars
  <1>5. CASE RespondCommit(e) /\ ~Settable(e)
    <2>1. SetOwners(e, refs[e] \ {"response"}, rec[e], held[e]) /\ UNCHANGED fed
      BY <1>5 DEF RespondCommit
    <2> QED
      BY <1>1, <2>1, ReleaseHandles
  <1>6. CASE RespondCommit(e) /\ Settable(e)
    <2> DEFINE owners == refs[e] \ {"response"}
               n == rec[e].retained + held[e]
               v == rec[e].revision + 1
               r == [rec[e] EXCEPT !.responseStarted = TRUE, !.retained = n,
                                   !.revision = v,
                                   !.body["response"].stream = "Streaming"]
    <2>1. r.bound = rec[e].bound /\ r.disabled = rec[e].disabled /\ r.revision = v
      <3> HIDE DEF n, v
      <3> QED
        BY TypesNow DEF LeaseTypes, Record
    <2>9. PreviewRight(rec[e]) => PreviewRight(r)
      <3> HIDE DEF n, v
      <3>1. \A s \in Sides : /\ r.body[s].retained = rec[e].body[s].retained
                            /\ r.body[s].observed = rec[e].body[s].observed
                            /\ r.body[s].limit = rec[e].body[s].limit
        BY TypesNow DEF LeaseTypes, Record, BodyStatus
      <3> HIDE DEF r
      <3> QED
        BY <2>1, <3>1, PreviewStays
    <2>2. SetOwners(e, owners, r, 0) /\ PublishIfBound(e, "RecordUpdated", r.revision)
      BY <1>6 DEF RespondCommit
    <2> HIDE DEF r
    <2>3. /\ refs'[e] = owners
          /\ rec'[e] = IF owners \intersect RecordOwners = {} THEN NoRecord ELSE r
          /\ \A d \in Exchanges \ {e} : refs'[d] = refs[d] /\ rec'[d] = rec[d]
      BY <2>2, OwnersMove
    <2>4. /\ fed'[e] = IF rec[e].bound
                         THEN [kind |-> "RecordUpdated", revision |-> v] ELSE fed[e]
          /\ \A d \in Exchanges \ {e} : fed'[d] = fed[d]
      BY <2>1, <2>2, FedMoves
    <2>5. ~rec[e].disabled
      BY <1>6 DEF Settable
    <2>6. CASE owners \intersect RecordOwners # {}
      BY <1>1, <2>1, <2>3, <2>4, <2>5, <2>6, <2>9
      DEF Handles, Others, Keeps, Announced, SameState
    <2>7. CASE owners \intersect RecordOwners = {}
      BY <1>1, <2>3, <2>4, <2>5, <2>7, NoRecordIsRight
      DEF Handles, Others, Keeps, Dropped, RecordOwners, Owners, FeedInv, Listed
    <2> QED
      BY <2>6, <2>7
  <1> QED
    BY <1>2, <1>3, <1>4, <1>5, <1>6

(***************************************************************************)
(* The body pumps and the readers.                                         *)
(***************************************************************************)
\* A fragment keeps a preview right: it is cut where the smaller of the two
\* limits says, and never grows again.
LEMMA PreviewGrows ==
  ASSUME NEW b \in BodyStatus, NEW n \in Nat \ {0}, NEW g \in 0..PreviewWanted(b, n),
         b.retained <= Least(b.observed, PreviewLimit),
         b.limit = "None" <=> b.retained = b.observed,
         b.limit = "PerBodyLimit" => b.retained = PreviewLimit
  PROVE  /\ b.retained + g <= Least(b.observed + n, PreviewLimit)
         /\ LimitAfter(b, n, g) = "None" <=> b.retained + g = b.observed + n
         /\ LimitAfter(b, n, g) = "PerBodyLimit" => b.retained + g = PreviewLimit
  <1>1. b.observed \in Nat /\ b.retained \in Nat /\ PreviewLimit \in Nat /\ g \in Nat
    BY CaptureAssumption DEF BodyStatus
  <1>2. CASE b.limit = "None"
    BY <1>1, <1>2 DEF LimitAfter, PreviewWanted, Least, SatSub
  <1>3. CASE b.limit # "None"
    <2>1. g = 0 /\ LimitAfter(b, n, g) = b.limit /\ b.retained < b.observed
      BY <1>1, <1>3 DEF LimitAfter, PreviewWanted, Least
    <2> QED
      BY <1>1, <1>3, <2>1 DEF Least
  <1> QED
    BY <1>2, <1>3

LEMMA FrameHandles ==
  ASSUME CaptureInv, NEW e \in Exchanges, NEW s \in Sides, NEW n \in FrameSizes,
         Frame(e, s, n)
  PROVE  Handles(e)
  <1> DEFINE b    == rec[e].body[s]
             got  == BodyPrefixCharge(PreviewWanted(b, n), b.retained % ChunkBytes,
                                      SatSub(BudgetLimit, used))
             seen == [b EXCEPT !.stream = "Streaming", !.observed = b.observed + n]
             kept == [seen EXCEPT !.retained = b.retained + got[1],
                                  !.limit = LimitAfter(b, n, got[1])]
  <1>1. rec[e] \in Record /\ b \in BodyStatus
    BY TypesNow DEF LeaseTypes, Record
  <1>2. UNCHANGED <<refs, start, runtime>>
    BY DEF Frame, taskVars, runtimeVars
  <1>3. PreviewLimit \in Nat /\ MaxObserved \in Nat /\ n \in Nat \ {0}
    BY CaptureAssumption
  <1>4. CASE rec[e].disabled
    <2> DEFINE r == [rec[e] EXCEPT !.body[s] = seen]
    <2>1. rec' = [rec EXCEPT ![e] = r] /\ UNCHANGED fed
      BY <1>4 DEF Frame
    <2>2. /\ seen.retained = b.retained /\ seen.observed = b.observed + n
          /\ seen.limit = b.limit
      <3> DEFINE o == b.observed + n
      <3> HIDE DEF b, o
      <3> QED
        BY <1>1 DEF BodyStatus
    <2>3. /\ r.bound = rec[e].bound /\ r.disabled = rec[e].disabled
          /\ r.revision = rec[e].revision /\ SameBytes(rec[e], r)
      <3> HIDE DEF seen
      <3> QED
        BY <1>1, <2>2 DEF Record, SameBytes
    <2>4. PreviewRight(rec[e]) => PreviewRight(r)
      <3>1. r.disabled /\ r.body = [rec[e].body EXCEPT ![s] = seen]
        <4> HIDE DEF seen
        <4> QED
          BY <1>1, <1>4 DEF Record
      <3> HIDE DEF r, seen
      <3>2. \A t \in Sides \ {s} : r.body[t] = rec[e].body[t]
        BY <1>1, <3>1 DEF Record
      <3>3. r.body[s] = seen
        BY <1>1, <3>1 DEF Record
      <3> SUFFICES ASSUME PreviewRight(rec[e]) PROVE PreviewRight(r)
        OBVIOUS
      <3>4. /\ b.retained <= Least(b.observed, PreviewLimit)
            /\ b.limit = "PerBodyLimit" => b.retained = PreviewLimit
        BY DEF PreviewRight
      <3>5. seen.retained <= Least(seen.observed, PreviewLimit)
        <4> HIDE DEF b
        <4> QED
          BY <1>1, <1>3, <2>2, <3>4 DEF Least, BodyStatus
      <3>6. ASSUME NEW t \in Sides \ {s}
            PROVE  /\ r.body[t].retained <= Least(r.body[t].observed, PreviewLimit)
                   /\ r.body[t].limit = "PerBodyLimit" => r.body[t].retained = PreviewLimit
        BY <3>2 DEF PreviewRight
      <3> QED
        BY <1>4, <2>2, <3>1, <3>3, <3>4, <3>5, <3>6 DEF PreviewRight
    <2> HIDE DEF r
    <2> QED
      BY <1>2, <2>1, <2>3, <2>4, TypesNow
      DEF Handles, Others, Keeps, Silent, SameState, LeaseTypes
  <1>5. CASE ~rec[e].disabled
    <2> DEFINE m == rec[e].retained + got[2]
               v == rec[e].revision + 1
               r == [rec[e] EXCEPT !.body[s] = kept, !.retained = m, !.revision = v]
    <2>1. rec' = [rec EXCEPT ![e] = r] /\ PublishIfBound(e, "RecordUpdated", v)
      BY <1>5 DEF Frame
    <2>2. r.bound = rec[e].bound /\ r.disabled = rec[e].disabled /\ r.revision = v
      <3> HIDE DEF kept, m, v
      <3> QED
        BY <1>1 DEF Record
    <2>5. PreviewRight(rec[e]) => PreviewRight(r)
      <3>1. ~r.disabled /\ r.body = [rec[e].body EXCEPT ![s] = kept]
        <4> HIDE DEF kept, m, v
        <4> QED
          BY <1>1, <1>5 DEF Record
      <3>2. got[1] \in 0..PreviewWanted(b, n)
        <4> HIDE DEF b
        <4>1. /\ PreviewWanted(b, n) \in Nat /\ b.retained % ChunkBytes \in Nat
              /\ SatSub(BudgetLimit, used) \in Nat
          BY <1>1, <1>3, ChunkAssumption, CaptureAssumption, TypesNow
          DEF PreviewWanted, Least, SatSub, BodyStatus, LeaseTypes
        <4> QED
          BY <4>1, PrefixChargeBounds
      <3>3. /\ kept.retained = b.retained + got[1] /\ kept.observed = b.observed + n
            /\ kept.limit = LimitAfter(b, n, got[1])
        <4> DEFINE o == b.observed + n
                   k == b.retained + got[1]
                   l == LimitAfter(b, n, got[1])
        <4> HIDE DEF b, o, k, l
        <4> QED
          BY <1>1 DEF BodyStatus
      <3> HIDE DEF r, kept, got
      <3>4. r.body[s] = kept /\ \A t \in Sides \ {s} : r.body[t] = rec[e].body[t]
        BY <1>1, <3>1 DEF Record
      <3> SUFFICES ASSUME PreviewRight(rec[e]) PROVE PreviewRight(r)
        OBVIOUS
      <3>5. /\ b.retained <= Least(b.observed, PreviewLimit)
            /\ b.limit = "None" <=> b.retained = b.observed
            /\ b.limit = "PerBodyLimit" => b.retained = PreviewLimit
        BY <1>5 DEF PreviewRight
      <3>6. /\ kept.retained <= Least(kept.observed, PreviewLimit)
            /\ kept.limit = "None" <=> kept.retained = kept.observed
            /\ kept.limit = "PerBodyLimit" => kept.retained = PreviewLimit
        <4> HIDE DEF b
        <4> QED
          BY <1>1, <1>3, <3>2, <3>3, <3>5, PreviewGrows
      <3>7. ASSUME NEW t \in Sides \ {s}
            PROVE  /\ r.body[t].retained <= Least(r.body[t].observed, PreviewLimit)
                   /\ r.body[t].limit = "None" <=> r.body[t].retained = r.body[t].observed
                   /\ r.body[t].limit = "PerBodyLimit" => r.body[t].retained = PreviewLimit
        BY <1>5, <3>4 DEF PreviewRight
      <3> QED
        BY <3>4, <3>6, <3>7 DEF PreviewRight
    <2> HIDE DEF r
    <2>3. rec'[e] = r /\ \A d \in Exchanges \ {e} : rec'[d] = rec[d]
      BY <2>1, TypesNow DEF LeaseTypes
    <2>4. /\ fed'[e] = IF rec[e].bound
                         THEN [kind |-> "RecordUpdated", revision |-> v] ELSE fed[e]
          /\ \A d \in Exchanges \ {e} : fed'[d] = fed[d]
      BY <2>1, FedMoves
    <2> QED
      BY <1>2, <1>5, <2>2, <2>3, <2>4, <2>5
      DEF Handles, Others, Keeps, Announced, SameState
  <1> QED
    BY <1>4, <1>5

LEMMA FinishHandles ==
  ASSUME CaptureInv, NEW e \in Exchanges, NEW s \in Sides, NEW kind \in Endings,
         Finish(e, s, kind)
  PROVE  Handles(e)
  <1> DEFINE v == rec[e].revision + 1
             r == [rec[e] EXCEPT !.body[s].stream = kind, !.revision = v]
  <1>1. UNCHANGED <<refs, start, runtime>>
    BY DEF Finish, runtimeVars
  <1>2. CASE UNCHANGED <<rec, fed>>
    BY <1>1, <1>2, NothingHandles
  <1>3. CASE rec' = [rec EXCEPT ![e] = r] /\ PublishIfBound(e, "RecordUpdated", v)
    <2>1. /\ r.bound = rec[e].bound /\ r.disabled = rec[e].disabled /\ r.revision = v
          /\ SameBytes(rec[e], r)
      <3>1. rec[e] \in Record
        BY TypesNow DEF LeaseTypes
      <3> HIDE DEF v
      <3>2. r.bound = rec[e].bound /\ r.disabled = rec[e].disabled /\ r.revision = v
            /\ r.retained = rec[e].retained
        BY <3>1 DEF Record
      <3>3. ASSUME NEW t \in Sides
            PROVE  r.body[t].retained = rec[e].body[t].retained
        BY <3>1 DEF Record, BodyStatus
      <3> QED
        BY <3>2, <3>3 DEF SameBytes
    <2>9. PreviewRight(rec[e]) => PreviewRight(r)
      <3> HIDE DEF v
      <3>1. \A t \in Sides : /\ r.body[t].retained = rec[e].body[t].retained
                            /\ r.body[t].observed = rec[e].body[t].observed
                            /\ r.body[t].limit = rec[e].body[t].limit
        BY TypesNow DEF LeaseTypes, Record, BodyStatus
      <3>2. r.disabled = rec[e].disabled
        BY TypesNow DEF LeaseTypes, Record
      <3> HIDE DEF r
      <3> QED
        BY <3>1, <3>2, PreviewStays
    <2> HIDE DEF r
    <2>2. rec'[e] = r /\ \A d \in Exchanges \ {e} : rec'[d] = rec[d]
      BY <1>3, TypesNow DEF LeaseTypes
    <2>3. /\ fed'[e] = IF rec[e].bound
                         THEN [kind |-> "RecordUpdated", revision |-> v] ELSE fed[e]
          /\ \A d \in Exchanges \ {e} : fed'[d] = fed[d]
      BY <1>3, FedMoves
    <2> QED
      BY <1>1, <2>1, <2>2, <2>3, <2>9 DEF Handles, Others, Keeps, Announced, SameState
  <1>4. \/ UNCHANGED <<rec, fed>>
        \/ rec' = [rec EXCEPT ![e] = r] /\ PublishIfBound(e, "RecordUpdated", r.revision)
    BY DEF Finish
  <1>5. r.revision = v
    <2> HIDE DEF v
    <2> QED
      BY TypesNow DEF LeaseTypes, Record
  <1> QED
    BY <1>2, <1>3, <1>4, <1>5

LEMMA ReaderHandles ==
  ASSUME CaptureInv, NEW e \in Exchanges, Reader(e)
  PROVE  Handles(e)
  <1>1. PICK owners : /\ Reading(e, owners)
                      /\ "queue" \in owners <=> "queue" \in refs[e]
                      /\ "store" \in owners <=> "store" \in refs[e]
    BY DEF Reader, ReaderOpen, ReaderSnapshot, ReaderClose, SnapshotDrop
  <1>2. SetOwners(e, owners, rec[e], 0) /\ UNCHANGED <<fed, start, runtime>>
    BY <1>1 DEF Reading, taskVars, runtimeVars
  <1> QED
    BY <1>1, <1>2, ReleaseHandles

LEMMA TaskHandles ==
  ASSUME CaptureInv, FeedInv, NEW e \in Exchanges, Task(e)
  PROVE  Handles(e)
  BY StartHandles, RespondHandles, FrameHandles, FinishHandles DEF Task

(***************************************************************************)
(* The runtime.                                                            *)
(***************************************************************************)
\* A record is taken out: it was bound, so its removal is announced.
Removed(e, kind) ==
  /\ \A d \in Exchanges \ {e} : refs'[d] = refs[d] /\ rec'[d] = rec[d] /\ fed'[d] = fed[d]
  /\ rec[e].bound /\ ~rec'[e].bound
  /\ fed'[e] = [kind |-> kind, revision |-> rec[e].revision]
  /\ Keeps(e)

LEMMA RemoveRecordRemoves ==
  ASSUME CaptureInv, NEW e \in Exchanges, NEW kind, NEW owners,
         RemoveRecord(e, kind, owners), rec[e].bound
  PROVE  Removed(e, kind) /\ refs'[e] = owners
  <1> DEFINE r == [rec[e] EXCEPT !.disabled = TRUE, !.bound = FALSE]
  <1>1. ~r.bound /\ SameBytes(rec[e], r) /\ (PreviewRight(rec[e]) => PreviewRight(r))
    <2>1. ~r.bound /\ r.disabled /\ r.body = rec[e].body /\ r.retained = rec[e].retained
      BY TypesNow DEF LeaseTypes, Record
    <2> HIDE DEF r
    <2> QED
      BY <2>1, PreviewStays DEF SameBytes
  <1>2. SetOwners(e, owners, r, 0) /\ PublishIfBound(e, kind, rec[e].revision)
    BY DEF RemoveRecord
  <1> HIDE DEF r
  <1>3. /\ refs'[e] = owners
        /\ rec'[e] = IF owners \intersect RecordOwners = {} THEN NoRecord ELSE r
        /\ \A d \in Exchanges \ {e} : refs'[d] = refs[d] /\ rec'[d] = rec[d]
    BY <1>2, OwnersMove
  <1>4. /\ fed'[e] = [kind |-> kind, revision |-> rec[e].revision]
        /\ \A d \in Exchanges \ {e} : fed'[d] = fed[d]
    BY <1>2, FedMoves
  <1> QED
    BY <1>1, <1>3, <1>4, NoRecordIsRight DEF Removed, Keeps, NoRecord

\* The other records do not notice, unless the store operation is about them.
LEMMA OthersKeepFeed ==
  ASSUME FeedInv, NEW e \in Exchanges, UNCHANGED start,
         \A d \in Exchanges \ {e} : refs'[d] = refs[d] /\ rec'[d] = rec[d] /\ fed'[d] = fed[d],
         Unannounced(e)', Listed(e)', \A d \in Exchanges : Removing(d)'
  PROVE  FeedInv'
  BY DEF FeedInv, Unannounced, Listed

LEMMA RecvAdmits ==
  ASSUME CaptureInv, FeedInv, RecvCapture
  PROVE  /\ FeedInv' /\ \A e \in Exchanges : Keeps(e)
         /\ \E e \in Exchanges :
              /\ fed[e].kind = "None"
              /\ fed' = [fed EXCEPT ![e] = [kind |-> "Admitted",
                                            revision |-> rec[e].revision]]
  <1>1. PICK e \in Exchanges :
          e = Head(queue) /\ "queue" \in refs[e] /\ start[e] = "started"
    <2>1. queue \in Seq(Exchanges) /\ queue # <<>>
      BY TypesNow DEF PublisherTypes, RecvCapture
    <2>2. 1 \in 1..Len(queue) /\ Head(queue) = queue[1] /\ queue[1] \in Exchanges
      BY <2>1
    <2> QED
      BY <2>2 DEF CaptureInv, QueueOwned
  <1> DEFINE r == [rec[e] EXCEPT !.bound = TRUE]
             owners == (refs[e] \ {"queue"}) \union {"store"}
  <1>2. /\ runtime.task = "idle"
        /\ SetOwners(e, owners, r, 0) /\ Publish(e, "Admitted", rec[e].revision)
        /\ runtime'.task \in {"retain", "idle"} /\ UNCHANGED start
    BY <1>1 DEF RecvCapture, Idle, RuntimeFrame, taskVars, Busy
  <1>3. Unannounced(e) /\ Listed(e)
    BY DEF FeedInv
  <1>4. /\ r.bound /\ r.revision = rec[e].revision /\ r.disabled = rec[e].disabled
        /\ r.body = rec[e].body
    BY <1>2, TypesNow DEF LeaseTypes, Record
  <1> HIDE DEF r
  <1>5. /\ refs'[e] = owners /\ rec'[e] = r
        /\ \A d \in Exchanges \ {e} : refs'[d] = refs[d] /\ rec'[d] = rec[d]
    BY <1>1, <1>2, OwnersMove DEF RecordOwners, Owners
  <1>6. fed' = [fed EXCEPT ![e] = [kind |-> "Admitted", revision |-> rec[e].revision]]
    BY <1>2 DEF Publish
  <1>7. Unannounced(e)' /\ Listed(e)'
    <2>1. fed'[e] = [kind |-> "Admitted", revision |-> rec[e].revision]
      BY <1>2, <1>6, TypesNow DEF PublisherTypes
    <2>2. Unannounced(e)'
      BY <1>1, <1>2, <1>5 DEF Unannounced
    <2>3. Listed(e)'
      BY <1>4, <1>5, <2>1 DEF Listed, Public
    <2> QED
      BY <2>2, <2>3
  <1>8. ASSUME NEW d \in Exchanges PROVE Removing(d)'
    BY <1>2, <1>4, <1>5 DEF FeedInv, Removing
  <1>9. FeedInv'
    <2>1. \A d \in Exchanges \ {e} : fed'[d] = fed[d]
      BY <1>6, TypesNow DEF PublisherTypes
    <2> QED
      BY <1>1, <1>2, <1>5, <1>7, <1>8, <2>1, OthersKeepFeed
  <1>10. \A d \in Exchanges : Keeps(d)
    BY <1>1, <1>3, <1>4, <1>5, PreviewStays DEF Unannounced, Keeps, SameBytes
  <1> QED
    BY <1>1, <1>3, <1>6, <1>9, <1>10 DEF Unannounced

\* Eviction, deletion and the marks of a clear: the record that is taken out
\* is stored and bound, and "runtime" goes on to the next one.
LEMMA RemovalKeepsFeed ==
  ASSUME CaptureInv, FeedInv, NEW e \in Exchanges, NEW kind \in Removals,
         Removed(e, kind), refs'[e] \subseteq refs[e], UNCHANGED start,
         \A d \in Exchanges : Removing(d)'
  PROVE  FeedInv' /\ \A d \in Exchanges : Keeps(d)
  <1>1. Unannounced(e) /\ Listed(e)
    BY DEF FeedInv
  <1>2. kind \notin Public
    BY DEF Removals, Public
  <1>3. Listed(e)'
    BY <1>2 DEF Removed, Listed
  <1>4. Unannounced(e)'
    BY <1>1 DEF Removed, Unannounced, Listed, Public
  <1>5. FeedInv'
    BY <1>3, <1>4, OthersKeepFeed DEF Removed
  <1> QED
    BY <1>5 DEF Removed, Keeps, SameBytes

\* EvictOldest evicts a bound record: no clear is going on.
LEMMA EvictionRemoves ==
  ASSUME CaptureInv, FeedInv, EvictOldest, runtime.task \in {"notified", "retain"},
         runtime'.task \in {"idle", "retain"}, UNCHANGED start
  PROVE  /\ FeedInv' /\ \A d \in Exchanges : Keeps(d)
         /\ \E e \in Exchanges, kind \in Removals : Removed(e, kind)
  <1>1. PICK e \in Exchanges : /\ "store" \in refs[e]
                               /\ RemoveRecord(e, "RetentionEviction", refs[e] \ {"store"})
    BY DEF EvictOldest, IsOldest, Stored
  <1>2. rec[e].bound
    BY <1>1 DEF FeedInv, Removing
  <1>3. Removed(e, "RetentionEviction") /\ refs'[e] = refs[e] \ {"store"}
    BY <1>1, <1>2, RemoveRecordRemoves
  <1>4. ASSUME NEW d \in Exchanges PROVE Removing(d)'
    BY <1>3 DEF FeedInv, Removing, Removed
  <1>5. "RetentionEviction" \in Removals
    BY DEF Removals
  <1> QED
    BY <1>3, <1>4, <1>5, RemovalKeepsFeed

LEMMA DeletionRemoves ==
  ASSUME CaptureInv, FeedInv, DeleteOne
  PROVE  /\ FeedInv' /\ \A d \in Exchanges : Keeps(d)
         /\ \E e \in Exchanges, kind \in Removals : Removed(e, kind)
  <1>1. PICK e \in Exchanges :
          /\ e \in runtime.todo
          /\ RemoveRecord(e, "ExplicitDelete", refs[e] \ {"store"})
          /\ Busy(IF runtime.todo \ {e} = {} THEN "idle" ELSE "delete", runtime.todo \ {e})
    BY DEF DeleteOne, IsOldest
  <1>2. runtime.task = "delete" /\ UNCHANGED start
    BY DEF DeleteOne, RuntimeFrame, taskVars
  <1>3. "store" \in refs[e] /\ rec[e].bound
    BY <1>1, <1>2 DEF FeedInv, Removing
  <1>4. Removed(e, "ExplicitDelete") /\ refs'[e] = refs[e] \ {"store"}
    BY <1>1, <1>3, RemoveRecordRemoves
  <1>5. ASSUME NEW d \in Exchanges PROVE Removing(d)'
    BY <1>1, <1>2, <1>4 DEF FeedInv, Removing, Removed, Busy
  <1>6. "ExplicitDelete" \in Removals
    BY DEF Removals
  <1> QED
    BY <1>2, <1>4, <1>5, <1>6, RemovalKeepsFeed

LEMMA ClearRemoves ==
  ASSUME CaptureInv, FeedInv, ClearOne
  PROVE  /\ FeedInv' /\ \A d \in Exchanges : Keeps(d)
         /\ \E e \in Exchanges, kind \in Removals : Removed(e, kind)
  <1>1. PICK e \in Exchanges :
          /\ e \in runtime.todo /\ RemoveRecord(e, "Clear", refs[e])
          /\ IF runtime.todo \ {e} = {} THEN Busy("drop", Stored)
                                        ELSE Busy("clear", runtime.todo \ {e})
    BY DEF ClearOne, IsOldest
  <1>2. runtime.task = "clear" /\ UNCHANGED start
    BY DEF ClearOne, RuntimeFrame, taskVars
  <1>3. "store" \in refs[e] /\ rec[e].bound
    BY <1>1, <1>2 DEF FeedInv, Removing
  <1>4. Removed(e, "Clear") /\ refs'[e] = refs[e]
    BY <1>1, <1>3, RemoveRecordRemoves
  <1>5. ASSUME NEW d \in Exchanges PROVE Removing(d)'
    BY <1>1, <1>2, <1>4 DEF FeedInv, Removing, Removed, Busy, Stored
  <1>6. "Clear" \in Removals
    BY DEF Removals
  <1> QED
    BY <1>2, <1>4, <1>5, <1>6, RemovalKeepsFeed

\* The end of a clear: the marked records leave the map one by one.
LEMMA DropKeepsFeed ==
  ASSUME CaptureInv, FeedInv, DropOne
  PROVE  FeedInv' /\ UNCHANGED fed /\ \A d \in Exchanges : Keeps(d)
  <1>1. PICK e \in Exchanges :
          /\ e \in runtime.todo /\ SetOwners(e, refs[e] \ {"store"}, rec[e], 0)
          /\ Busy(IF runtime.todo \ {e} = {} THEN "idle" ELSE "drop", runtime.todo \ {e})
    BY DEF DropOne, IsOldest
  <1>2. runtime.task = "drop" /\ UNCHANGED <<start, fed>>
    BY DEF DropOne, RuntimeFrame, taskVars
  <1>3. "store" \in refs[e] /\ ~rec[e].bound /\ Unannounced(e) /\ Listed(e)
    BY <1>1, <1>2 DEF FeedInv, Removing
  <1>4. /\ refs'[e] = refs[e] \ {"store"} /\ rec'[e] \in {rec[e], NoRecord}
        /\ \A d \in Exchanges \ {e} : refs'[d] = refs[d] /\ rec'[d] = rec[d]
    BY <1>1, OwnersMove
  <1>5. Unannounced(e)' /\ Listed(e)'
    BY <1>2, <1>3, <1>4 DEF Unannounced, Listed, NoRecord
  <1>6. ASSUME NEW d \in Exchanges PROVE Removing(d)'
    BY <1>1, <1>2, <1>3, <1>4 DEF FeedInv, Removing, Busy
  <1>7. FeedInv'
    BY <1>2, <1>4, <1>5, <1>6, OthersKeepFeed
  <1>8. \A d \in Exchanges : Keeps(d)
    <2>1. Keeps(e)
      <3>1. CASE rec'[e] = rec[e]
        BY <3>1 DEF Keeps, SameBytes
      <3>2. CASE rec'[e] = NoRecord
        <4>1. ~NoRecord.disabled
          BY DEF NoRecord
        <4> QED
          BY <3>2, <4>1, NoRecordIsRight DEF Keeps
      <3> QED
        BY <1>4, <3>1, <3>2
    <2>2. \A d \in Exchanges \ {e} : Keeps(d)
      BY <1>4 DEF Keeps, SameBytes
    <2> QED
      BY <2>1, <2>2
  <1> QED
    BY <1>2, <1>7, <1>8

(***************************************************************************)
(* The step.                                                               *)
(***************************************************************************)
\* What a step may say: the first word about a record, the next revision of a
\* listed one, its removal, or nothing.
Admits(e) ==
  /\ fed[e].kind = "None"
  /\ fed' = [fed EXCEPT ![e] = [kind |-> "Admitted", revision |-> rec[e].revision]]

Says ==
  \/ UNCHANGED fed
  \/ \E e \in Exchanges : Admits(e)
  \/ \E e \in Exchanges : Others(e) /\ Announced(e)
  \/ \E e \in Exchanges, kind \in Removals : Removed(e, kind)

StepIsRight == FeedInv' /\ (\A e \in Exchanges : Keeps(e)) /\ Says

LEMMA HandledIsRight ==
  ASSUME CaptureInv, CaptureInv', FeedInv, NEW e \in Exchanges, Handles(e)
  PROVE  StepIsRight
  <1>1. \A d \in Exchanges : Keeps(d)
    BY DEF Handles, Others, Keeps, SameBytes
  <1>2. Announced(e) \/ fed'[e] = fed[e]
    BY DEF Handles, Silent, Dropped
  <1>3. /\ fed \in [Exchanges -> [kind: Kinds, revision: Nat]]
        /\ fed' \in [Exchanges -> [kind: Kinds, revision: Nat]]
    BY DEF CaptureInv, TypeOK
  <1>4. CASE fed'[e] = fed[e]
    <2>1. UNCHANGED fed
      BY <1>3, <1>4 DEF Handles, Others
    <2> QED
      BY <1>1, <2>1, HandledKeepsFeed DEF StepIsRight, Says
  <1> QED
    BY <1>1, <1>2, <1>4, HandledKeepsFeed DEF StepIsRight, Says, Handles

LEMMA RuntimeIsRight ==
  ASSUME CaptureInv, FeedInv, Runtime \/ Shutdown
  PROVE  StepIsRight
  <1>1. CASE RecvCapture
    BY <1>1, RecvAdmits DEF StepIsRight, Says, Admits
  <1>2. CASE Retain
    <2>1. /\ EvictOldest /\ runtime.task = "retain" /\ UNCHANGED start
          /\ runtime'.task \in {"idle", "retain"}
      BY <1>2 DEF Retain, Busy, RuntimeFrame, taskVars
    <2> QED
      BY <2>1, EvictionRemoves DEF StepIsRight, Says
  <1>3. CASE DeleteOne \/ ClearOne
    BY <1>3, DeletionRemoves, ClearRemoves DEF StepIsRight, Says
  <1>4. CASE DropOne
    BY <1>4, DropKeepsFeed DEF StepIsRight, Says
  <1>5. ASSUME UNCHANGED <<recordVars, fed, start>>, \A d \in Exchanges : Removing(d)'
        PROVE  StepIsRight
    BY <1>5 DEF StepIsRight, Says, FeedInv, Unannounced, Listed, Keeps, SameBytes,
                recordVars
  <1>6. CASE ReadPressure
    <2>1. /\ runtime.task = "notified" /\ runtime'.task = "idle" /\ UNCHANGED start
          /\ EvictOldest \/ UNCHANGED <<recordVars, fed>>
      BY <1>6 DEF ReadPressure, EvictUnderPressure, Busy, RuntimeFrame, taskVars
    <2>2. CASE EvictOldest
      BY <2>1, <2>2, EvictionRemoves DEF StepIsRight, Says
    <2>3. CASE UNCHANGED <<recordVars, fed>>
      BY <1>5, <2>1, <2>3 DEF FeedInv, Removing, recordVars
    <2> QED
      BY <2>1, <2>2, <2>3
  <1>9. CASE NotifyDirty
    <2>1. /\ runtime.task = "idle" /\ runtime'.task = "notified"
          /\ UNCHANGED <<recordVars, fed, start>>
      BY <1>9 DEF NotifyDirty, Idle, Busy, RuntimeFrame, taskVars
    <2> QED
      BY <1>5, <2>1 DEF FeedInv, Removing, recordVars
  <1>7. CASE Delete \/ Clear
    <2>1. /\ runtime.task = "idle" /\ UNCHANGED <<recordVars, fed, start>>
          /\ \E S \in SUBSET Stored : Busy("delete", S) \/ Busy("clear", Stored)
      BY <1>7 DEF Delete, Clear, Idle, RuntimeFrame, taskVars
    <2>2. \A d \in Exchanges : Removing(d)'
      BY <2>1 DEF FeedInv, Removing, Busy, Stored, recordVars
    <2> QED
      BY <1>5, <2>1, <2>2
  <1>8. CASE Shutdown
    <2>1. UNCHANGED <<recordVars, fed, start, runtime>>
      BY <1>8 DEF Shutdown, taskVars
    <2> QED
      BY <1>5, <2>1 DEF FeedInv, Removing, recordVars
  <1> QED
    BY <1>1, <1>2, <1>3, <1>4, <1>6, <1>7, <1>8, <1>9 DEF Runtime

LEMMA FeedStep ==
  ASSUME CaptureInv, CaptureInv', FeedInv, Next
  PROVE  StepIsRight
  <1>1. ASSUME NEW e \in Exchanges, Task(e) PROVE StepIsRight
    BY <1>1, TaskHandles, HandledIsRight
  <1>2. ASSUME NEW e \in Readable, Reader(e) PROVE StepIsRight
    BY <1>2, ReaderHandles, HandledIsRight, CaptureAssumption
  <1> QED
    BY <1>1, <1>2, RuntimeIsRight DEF Next

LEMMA FeedStutters ==
  ASSUME FeedInv, UNCHANGED vars
  PROVE  FeedInv' /\ UNCHANGED fed /\ \A e \in Exchanges : Keeps(e)
  BY DEF vars, recordVars, runtimeVars, taskVars, FeedInv, Unannounced, Listed, Removing,
         Keeps, SameBytes

LEMMA FeedInit == Init => FeedInv
  BY DEF Init, FeedInv, Unannounced, Listed, Removing, NoRecord, Public

(***************************************************************************)
(* The theorems.                                                           *)
(***************************************************************************)
LEMMA FeedNext == CaptureInv /\ FeedInv /\ [Next]_vars => FeedInv'
  <1> SUFFICES ASSUME CaptureInv, FeedInv, [Next]_vars PROVE FeedInv'
    OBVIOUS
  <1>1. CASE Next
    BY <1>1, CaptureStep, FeedStep DEF StepIsRight
  <1> QED
    BY <1>1, FeedStutters

\* FeedInv is invariant: nothing is announced of a record before it is stored,
\* and while it is stored its last change names its revision.
THEOREM FeedInvariant == Spec => []FeedInv
  BY FeedInit, FeedNext, CaptureInvariant, PTL DEF Spec

\* The feed and the store describe the same records (CaptureStore and
\* CaptureChangeFeed, whichever pump, reader or store operation runs).
THEOREM FeedAlwaysMatchesStore == Spec => []FeedMatchesStore
  <1>1. FeedInv => FeedMatchesStore
    BY DEF FeedInv, Listed, Removing, FeedMatchesStore, Public
  <1> QED
    BY <1>1, FeedInvariant, PTL

\* A record that left the store takes no more bytes, whatever its pumps still
\* forward (append_body and set_response_at on a disabled record).
THEOREM RemovedNeverGrow == Spec => RemovedNeverGrows
  <1>1. ASSUME CaptureInv, CaptureInv', FeedInv, [Next]_vars, NEW e \in Exchanges
        PROVE  Keeps(e)
    BY <1>1, FeedStep, FeedStutters DEF StepIsRight
  <1>2. CaptureInv /\ CaptureInv' /\ FeedInv /\ [Next]_vars =>
          [\A e \in Exchanges :
             rec[e].disabled /\ rec'[e].disabled =>
               /\ rec'[e].retained = rec[e].retained
               /\ \A s \in Sides :
                    rec'[e].body[s].retained = rec[e].body[s].retained]_vars
    BY <1>1 DEF Keeps, SameBytes
  <1> QED
    BY <1>2, FeedInvariant, CaptureInvariant, PTL DEF Spec, RemovedNeverGrows

(***************************************************************************)
(* A preview that was cut keeps its limit and its length: what each step   *)
(* does to a record that has one (the sticky preview_limit).               *)
(***************************************************************************)
CutStays(r, q) ==
  \A s \in Sides :
    r.body[s].limit # "None" =>
      q.body[s].limit = r.body[s].limit /\ q.body[s].retained = r.body[s].retained

CutHeld(e) == Alive(e)' => CutStays(rec[e], rec'[e])

LEMMA RecordsStandCut ==
  ASSUME UNCHANGED rec
  PROVE  \A d \in Exchanges : CutHeld(d)
BY DEF CutHeld, CutStays

LEMMA OneRecordCut ==
  ASSUME CaptureInv, NEW e \in Exchanges, NEW r,
         rec' = [rec EXCEPT ![e] = r], CutStays(rec[e], r)
  PROVE  \A d \in Exchanges : CutHeld(d)
<1>1. rec'[e] = r /\ \A d \in Exchanges \ {e} : rec'[d] = rec[d]
  BY TypesNow DEF LeaseTypes
<1>2. ASSUME NEW d \in Exchanges \ {e} PROVE CutHeld(d)
  BY <1>1 DEF CutHeld, CutStays
<1>3. CutHeld(e)
  BY <1>1 DEF CutHeld
<1> QED BY <1>2, <1>3

LEMMA OwnersCut ==
  ASSUME CaptureInv, NEW e \in Exchanges, NEW owners, NEW r, NEW given,
         SetOwners(e, owners, r, given), CutStays(rec[e], r)
  PROVE  \A d \in Exchanges : CutHeld(d)
<1>1. /\ refs'[e] = owners
      /\ rec'[e] = IF owners \intersect RecordOwners = {} THEN NoRecord ELSE r
      /\ \A d \in Exchanges \ {e} : rec'[d] = rec[d]
  BY OwnersMove
<1>2. ASSUME NEW d \in Exchanges \ {e} PROVE CutHeld(d)
  BY <1>1 DEF CutHeld, CutStays
<1>3. CutHeld(e)
  BY <1>1 DEF CutHeld, Alive
<1> QED BY <1>2, <1>3

LEMMA OwnersOnlyCut ==
  ASSUME CaptureInv, NEW e \in Exchanges, NEW owners, NEW given,
         SetOwners(e, owners, rec[e], given)
  PROVE  \A d \in Exchanges : CutHeld(d)
<1>1. CutStays(rec[e], rec[e])
  BY DEF CutStays
<1> QED BY <1>1, OwnersCut

LEMMA RemovalCut ==
  ASSUME CaptureInv, NEW e \in Exchanges, NEW owners, NEW kind,
         RemoveRecord(e, kind, owners)
  PROVE  \A d \in Exchanges : CutHeld(d)
<1> DEFINE r == [rec[e] EXCEPT !.disabled = TRUE, !.bound = FALSE]
<1>1. SetOwners(e, owners, r, 0)
  BY DEF RemoveRecord
<1>2. r.body = rec[e].body
  BY TypesNow DEF LeaseTypes, Record
<1>3. CutStays(rec[e], r)
  BY <1>2 DEF CutStays
<1> HIDE DEF r
<1> QED BY <1>1, <1>3, OwnersCut

LEMMA RuntimeCut ==
  ASSUME CaptureInv, Runtime
  PROVE  \A d \in Exchanges : CutHeld(d)
<1>1. CASE NotifyDirty \/ Delete \/ Clear
  BY <1>1, RecordsStandCut DEF NotifyDirty, Delete, Clear, recordVars
<1>2. CASE RecvCapture
  <2>1. PICK e \in Exchanges : e = Head(queue)
    BY <1>2, TypesNow DEF PublisherTypes, RecvCapture
  <2> DEFINE r == [rec[e] EXCEPT !.bound = TRUE]
             owners == (refs[e] \ {"queue"}) \union {"store"}
  <2>2. SetOwners(e, owners, r, 0)
    BY <1>2, <2>1 DEF RecvCapture
  <2>3. r.body = rec[e].body
    BY TypesNow DEF LeaseTypes, Record
  <2>4. CutStays(rec[e], r)
    BY <2>3 DEF CutStays
  <2> HIDE DEF r, owners
  <2> QED BY <2>2, <2>4, OwnersCut
<1>3. CASE EvictOldest
  BY <1>3, RemovalCut DEF EvictOldest
<1>4. CASE Retain \/ ReadPressure
  BY <1>3, <1>4, RecordsStandCut DEF Retain, ReadPressure, EvictUnderPressure, recordVars
<1>5. CASE DeleteOne
  BY <1>5, RemovalCut DEF DeleteOne
<1>6. CASE ClearOne
  BY <1>6, RemovalCut DEF ClearOne
<1>7. CASE DropOne
  BY <1>7, OwnersOnlyCut DEF DropOne
<1> QED BY <1>1, <1>2, <1>4, <1>5, <1>6, <1>7 DEF Runtime

LEMMA StartCut ==
  ASSUME CaptureInv, NEW e \in Exchanges,
         StartAcquire(e) \/ StartLease(e) \/ StartSequence(e) \/ StartSend(e)
  PROVE  \A d \in Exchanges : CutHeld(d)
<1>1. CASE StartAcquire(e) \/ StartSequence(e)
  BY <1>1, RecordsStandCut DEF StartAcquire, StartSequence, recordVars
<1>2. CASE StartLease(e)
  <2>1. PICK n \in RequestSizes :
          \/ rec' = [rec EXCEPT ![e] = [rec[e] EXCEPT !.retained = n]]
          \/ UNCHANGED rec
    BY <1>2 DEF StartLease, recordVars
  <2> DEFINE r == [rec[e] EXCEPT !.retained = n]
  <2>2. r.body = rec[e].body
    BY TypesNow DEF LeaseTypes, Record
  <2>3. CutStays(rec[e], r)
    BY <2>2 DEF CutStays
  <2>4. rec' = [rec EXCEPT ![e] = r] \/ UNCHANGED rec
    BY <2>1
  <2> HIDE DEF r
  <2> QED BY <2>3, <2>4, OneRecordCut, RecordsStandCut
<1>3. CASE StartSend(e)
  BY <1>3, OwnersOnlyCut DEF StartSend
<1> QED BY <1>1, <1>2, <1>3

LEMMA RespondCut ==
  ASSUME CaptureInv, NEW e \in Exchanges,
         \/ RespondReserve(e) \/ RespondShrink(e) \/ RespondCommit(e)
         \/ RespondUnreachable(e) \/ Abandon(e)
  PROVE  \A d \in Exchanges : CutHeld(d)
<1>1. CASE RespondReserve(e) \/ RespondUnreachable(e) \/ Abandon(e)
  BY <1>1, RecordsStandCut DEF RespondReserve, RespondUnreachable, Abandon, recordVars
<1>2. CASE RespondShrink(e)
  BY <1>2, OwnersOnlyCut DEF RespondShrink
<1>3. CASE RespondCommit(e) /\ ~Settable(e)
  BY <1>3, OwnersOnlyCut DEF RespondCommit
<1>4. CASE RespondCommit(e) /\ Settable(e)
  <2> DEFINE n == rec[e].retained + held[e]
             v == rec[e].revision + 1
             r == [rec[e] EXCEPT !.responseStarted = TRUE, !.retained = n,
                                 !.revision = v,
                                 !.body["response"].stream = "Streaming"]
  <2>1. CutStays(rec[e], r)
    <3> HIDE DEF n, v
    <3>1. \A s \in Sides : /\ r.body[s].retained = rec[e].body[s].retained
                          /\ r.body[s].limit = rec[e].body[s].limit
      BY TypesNow DEF LeaseTypes, Record, BodyStatus
    <3> QED BY <3>1 DEF CutStays
  <2>2. SetOwners(e, refs[e] \ {"response"}, r, 0)
    BY <1>4 DEF RespondCommit
  <2> HIDE DEF r
  <2> QED BY <2>1, <2>2, OwnersCut
<1> QED BY <1>1, <1>2, <1>3, <1>4

\* append_body asks for nothing once a limit is set.
LEMMA NothingIsWanted ==
  ASSUME NEW b \in BodyStatus, NEW n, b.limit # "None", NEW g \in 0..PreviewWanted(b, n)
  PROVE  g = 0 /\ LimitAfter(b, n, g) = b.limit
BY DEF PreviewWanted, LimitAfter

LEMMA FrameCut ==
  ASSUME CaptureInv, NEW e \in Exchanges, NEW s \in Sides, NEW n \in FrameSizes,
         Frame(e, s, n)
  PROVE  \A d \in Exchanges : CutHeld(d)
  <1> DEFINE b    == rec[e].body[s]
             got  == BodyPrefixCharge(PreviewWanted(b, n), b.retained % ChunkBytes,
                                      SatSub(BudgetLimit, used))
             seen == [b EXCEPT !.stream = "Streaming", !.observed = b.observed + n]
             kept == [seen EXCEPT !.retained = b.retained + got[1],
                                  !.limit = LimitAfter(b, n, got[1])]
  <1>1. rec[e] \in Record /\ b \in BodyStatus
    BY TypesNow DEF LeaseTypes, Record
  <1>2. seen.retained = b.retained /\ seen.limit = b.limit
    <2> DEFINE o == b.observed + n
    <2> HIDE DEF b, o
    <2> QED BY <1>1 DEF BodyStatus
  <1>3. CASE rec[e].disabled
    <2> DEFINE r == [rec[e] EXCEPT !.body[s] = seen]
    <2>1. rec' = [rec EXCEPT ![e] = r]
      BY <1>3 DEF Frame
    <2>2. CutStays(rec[e], r)
      <3> HIDE DEF seen
      <3>1. r.body[s] = seen /\ \A t \in Sides \ {s} : r.body[t] = rec[e].body[t]
        BY <1>1 DEF Record
      <3> QED BY <1>2, <3>1 DEF CutStays
    <2> HIDE DEF r
    <2> QED BY <2>1, <2>2, OneRecordCut
  <1>4. CASE ~rec[e].disabled
    <2> DEFINE m == rec[e].retained + got[2]
               v == rec[e].revision + 1
               r == [rec[e] EXCEPT !.body[s] = kept, !.retained = m, !.revision = v]
    <2>1. rec' = [rec EXCEPT ![e] = r]
      BY <1>4 DEF Frame
    <2>2. got[1] \in 0..PreviewWanted(b, n)
      <3> HIDE DEF b
      <3>1. /\ PreviewWanted(b, n) \in Nat /\ b.retained % ChunkBytes \in Nat
            /\ SatSub(BudgetLimit, used) \in Nat
        BY <1>1, ChunkAssumption, CaptureAssumption, TypesNow
        DEF PreviewWanted, Least, SatSub, BodyStatus, LeaseTypes
      <3> QED BY <3>1, PrefixChargeBounds
    <2>3. kept.retained = b.retained + got[1] /\ kept.limit = LimitAfter(b, n, got[1])
      <3> DEFINE o == b.observed + n
                 k == b.retained + got[1]
                 l == LimitAfter(b, n, got[1])
      <3> HIDE DEF b, o, k, l
      <3> QED BY <1>1 DEF BodyStatus
    <2> HIDE DEF kept, got
    <2>4. b.limit # "None" => kept.retained = b.retained /\ kept.limit = b.limit
      <3> HIDE DEF b
      <3>1. b.retained \in Nat
        BY <1>1 DEF BodyStatus
      <3> QED BY <1>1, <2>2, <2>3, <3>1, NothingIsWanted
    <2>5. CutStays(rec[e], r)
      <3> HIDE DEF m, v
      <3>1. r.body[s] = kept /\ \A t \in Sides \ {s} : r.body[t] = rec[e].body[t]
        BY <1>1 DEF Record
      <3> HIDE DEF r
      <3> QED BY <2>4, <3>1 DEF CutStays
    <2> HIDE DEF r
    <2> QED BY <2>1, <2>5, OneRecordCut
  <1> QED BY <1>3, <1>4

LEMMA FinishCut ==
  ASSUME CaptureInv, NEW e \in Exchanges, NEW s \in Sides, NEW kind \in Endings,
         Finish(e, s, kind)
  PROVE  \A d \in Exchanges : CutHeld(d)
<1> DEFINE v == rec[e].revision + 1
           r == [rec[e] EXCEPT !.body[s].stream = kind, !.revision = v]
<1>1. rec' = [rec EXCEPT ![e] = r] \/ UNCHANGED rec
  BY DEF Finish
<1>2. CutStays(rec[e], r)
  <2> HIDE DEF v
  <2>1. \A t \in Sides : /\ r.body[t].retained = rec[e].body[t].retained
                        /\ r.body[t].limit = rec[e].body[t].limit
    BY TypesNow DEF LeaseTypes, Record, BodyStatus
  <2> QED BY <2>1 DEF CutStays
<1> HIDE DEF r
<1> QED BY <1>1, <1>2, OneRecordCut, RecordsStandCut

LEMMA ReaderCut ==
  ASSUME CaptureInv, NEW e \in Exchanges, Reader(e)
  PROVE  \A d \in Exchanges : CutHeld(d)
<1>1. \E owners : SetOwners(e, owners, rec[e], 0)
  BY DEF Reader, ReaderOpen, ReaderSnapshot, ReaderClose, SnapshotDrop, Reading
<1> QED BY <1>1, OwnersOnlyCut

LEMMA NextCut ==
  ASSUME CaptureInv, [Next]_vars
  PROVE  \A d \in Exchanges : CutHeld(d)
<1>1. ASSUME NEW e \in Exchanges, Task(e) PROVE \A d \in Exchanges : CutHeld(d)
  BY <1>1, StartCut, RespondCut, FrameCut, FinishCut DEF Task
<1>2. ASSUME NEW e \in Readable, Reader(e) PROVE \A d \in Exchanges : CutHeld(d)
  BY <1>2, ReaderCut, CaptureAssumption
<1>3. CASE Shutdown \/ UNCHANGED vars
  BY <1>3, RecordsStandCut DEF Shutdown, vars, recordVars
<1> QED BY <1>1, <1>2, <1>3, RuntimeCut DEF Next

\* A preview is cut only for the reason it reports, one without a limit is the
\* whole body so far, and once cut it stays as it is (append_body, with two
\* limits and a shared budget).
THEOREM PreviewsArePrefixes == Spec => PreviewsStayPrefixes
  <1>1. Init => PreviewIsPrefix
    BY NoRecordIsRight DEF Init, PreviewIsPrefix, PreviewRight
  <1>2. ASSUME CaptureInv, CaptureInv', FeedInv, [Next]_vars, PreviewIsPrefix
        PROVE  PreviewIsPrefix'
    <2>1. \A e \in Exchanges : PreviewRight(rec[e])
      BY <1>2 DEF PreviewIsPrefix, PreviewRight
    <2>2. \A e \in Exchanges : Keeps(e)
      BY <1>2, FeedStep, FeedStutters DEF StepIsRight
    <2>3. \A e \in Exchanges : PreviewRight(rec'[e])
      BY <2>1, <2>2 DEF Keeps
    <2> QED
      BY <2>3 DEF PreviewIsPrefix, PreviewRight
  <1>3. CaptureInv /\ [Next]_vars =>
          [\A e \in Exchanges, s \in Sides :
             LET b == rec[e].body[s]  c == rec'[e].body[s]
             IN  b.limit # "None" /\ Alive(e)' =>
                   c.limit = b.limit /\ c.retained = b.retained]_vars
    BY NextCut DEF CutHeld, CutStays
  <1>4. Spec => []PreviewIsPrefix
    BY <1>1, <1>2, FeedInvariant, CaptureInvariant, PTL DEF Spec
  <1>5. Spec => CutIsFinal
    BY <1>3, CaptureInvariant, PTL DEF Spec, CutIsFinal
  <1> QED
    BY <1>4, <1>5, PTL DEF PreviewsStayPrefixes

LEMMA ViewStep ==
  ASSUME CaptureInv, CaptureInv', FeedInv, Next
  PROVE  [View!viewNext]_fed
  <1>1. Says
    BY FeedStep DEF StepIsRight
  <1>2. /\ fed \in [Exchanges -> [kind: Kinds, revision: Nat]]
        /\ fed' \in [Exchanges -> [kind: Kinds, revision: Nat]]
        /\ rec \in [Exchanges -> Record]
    BY DEF CaptureInv, TypeOK
  <1>3. ASSUME NEW e \in Exchanges, Admits(e)
        PROVE  View!Admit(e)
    <2>1. fed'[e] = [kind |-> "Admitted", revision |-> rec[e].revision]
      BY <1>2, <1>3 DEF Admits
    <2>2. fed'[e].revision = rec[e].revision /\ rec[e].revision \in Nat
      BY <1>2, <2>1 DEF Record
    <2>3. fed' = [fed EXCEPT ![e] = [kind |-> "Admitted", revision |-> fed'[e].revision]]
      BY <1>3, <2>2 DEF Admits
    <2> QED
      BY <1>3, <2>2, <2>3 DEF Admits, View!Admit, View!Announce
  <1>4. ASSUME NEW e \in Exchanges, Others(e), Announced(e)
        PROVE  UNCHANGED fed \/ View!Update(e)
    <2>1. CASE ~rec[e].bound
      BY <1>2, <1>4, <2>1 DEF Others, Announced
    <2>2. CASE rec[e].bound
      <3>1. fed[e].kind \in Public /\ fed[e].revision = rec[e].revision
        BY <2>2 DEF FeedInv, Listed
      <3>2. fed' = [fed EXCEPT ![e] = [kind |-> "RecordUpdated",
                                       revision |-> fed[e].revision + 1]]
        BY <1>2, <1>4, <2>2, <3>1 DEF Others, Announced
      <3> QED
        BY <3>1, <3>2 DEF View!Update, View!Announce, Public
    <2> QED
      BY <2>1, <2>2
  <1>5. ASSUME NEW e \in Exchanges, NEW kind \in Removals, Removed(e, kind)
        PROVE  View!Remove(e)
    <2>1. fed[e].kind \in Public /\ fed[e].revision = rec[e].revision
      BY <1>5 DEF FeedInv, Listed, Removed
    <2>2. fed' = [fed EXCEPT ![e] = [kind |-> kind, revision |-> fed[e].revision]]
      BY <1>2, <1>5, <2>1 DEF Removed
    <2> QED
      BY <2>1, <2>2 DEF View!Remove, View!Announce, Public
  <1> QED
    BY <1>1, <1>3, <1>4, <1>5 DEF Says, View!viewNext

\* Every step of the pumps, the runtime and the readers is a step of RecordView
\* or says nothing: a record is admitted once, each of its revisions is
\* announced in order and without a hole, and after its removal it is never
\* mentioned again.
THEOREM FeedKeepsItsPromise == Spec => FeedKeepsPromise
  <1>1. Init => View!viewInit
    BY DEF Init, View!viewInit
  <1>2. CaptureInv /\ CaptureInv' /\ FeedInv /\ [Next]_vars => [View!viewNext]_fed
    BY ViewStep, FeedStutters
  <1> QED
    BY <1>1, <1>2, FeedInvariant, CaptureInvariant, PTL
    DEF Spec, FeedKeepsPromise, View!viewSpec

(***************************************************************************)
(* The two counts of bytes.  The budget is the sum of the leases: each step *)
(* changes the lease of one exchange, and the budget by as much.  The count *)
(* of stored bytes never exceeds what the stored records hold, so that the  *)
(* retention loop, which goes on until one record is left, ends within the  *)
(* policy also when it evicts that one.                                     *)
(***************************************************************************)
Retained == [e \in Exchanges |-> rec[e].retained]

\* RetentionBound, with the sum as Total.
WithinPolicy ==
  /\ runtime.task # "retain" => ~OverLimit(Cardinality(Stored), store.bytes)
  /\ runtime.task # "drop" => store.bytes <= Total(Retained, Stored)

\* Nothing is charged to an exchange that has no lease yet.
Unleased(e) == start[e] \in {"idle", "admitted"} => lease[e] = 0 /\ refs[e] = {}

BytesInv ==
  /\ used = Total(lease, Exchanges)
  /\ \A e \in Exchanges : Unleased(e)
  /\ WithinPolicy

\* What a step may do to the leases.
OneLease(e) ==
  /\ \A d \in Exchanges \ {e} :
       lease'[d] = lease[d] /\ refs'[d] = refs[d] /\ start'[d] = start[d]
  /\ used' = used - lease[e] + lease'[e]
  /\ Unleased(e)'

LEMMA StoredFinite ==
  ASSUME CaptureInv
  PROVE  /\ IsFiniteSet(Exchanges) /\ IsFiniteSet(Stored) /\ Stored \in SUBSET Exchanges
         /\ Cardinality(Stored) \in Nat
         /\ \A e \in Exchanges : Retained[e] = rec[e].retained /\ Retained[e] \in Nat
<1>1. IsFiniteSet(Exchanges) /\ Stored \in SUBSET Exchanges
  BY CaptureAssumption DEF Stored
<1>2. IsFiniteSet(Stored) /\ Cardinality(Stored) \in Nat
  BY <1>1, FS_Subset, FS_CardinalityType
<1> QED BY <1>1, <1>2, StoredIsAlive DEF Retained

LEMMA RetainedSum ==
  ASSUME CaptureInv
  PROVE  MapThenSumSet(LAMBDA e : rec[e].retained, Stored) = Total(Retained, Stored)
<1> DEFINE Sum(x) == x = [s \in SUBSET Stored |->
                IF s = {} THEN 0 ELSE rec[AnyOf(s)].retained + x[s \ {AnyOf(s)}]]
<1>1. PICK h : h = CHOOSE x : Sum(x)
  OBVIOUS
<1>2. MapThenSumSet(LAMBDA e : rec[e].retained, Stored) = h[Stored]
  BY <1>1 DEF MapThenSumSet, MapThenFoldSet, AnyOf
<1>3. ASSUME NEW x PROVE Sum(x) <=> Summing(Retained, Stored, x)
  <2>1. \A s \in SUBSET Stored : s # {} => AnyOf(s) \in Exchanges
    BY DEF AnyOf, Stored
  <2>2. \A s \in SUBSET Stored : s # {} => Retained[AnyOf(s)] = rec[AnyOf(s)].retained
    BY <2>1 DEF Retained
  <2> HIDE DEF Retained
  <2>3. [s \in SUBSET Stored |->
           IF s = {} THEN 0 ELSE rec[AnyOf(s)].retained + x[s \ {AnyOf(s)}]]
      = [s \in SUBSET Stored |-> IF s = {} THEN 0 ELSE Retained[AnyOf(s)] + x[s \ {AnyOf(s)}]]
    BY <2>2
  <2> QED BY <2>3 DEF Summing
<1>4. Summing(Retained, Stored, h)
  <2>1. \E x : Summing(Retained, Stored, x)
    BY StoredFinite, SummingExists
  <2>2. \E x : Sum(x)
    BY <1>3, <2>1
  <2> HIDE DEF Sum
  <2>3. Sum(h)
    BY <1>1, <2>2
  <2> QED BY <1>3, <2>3
<1>5. Total(Retained, Stored) = h[Stored]
  BY <1>4, StoredFinite, TotalIs
<1> QED BY <1>2, <1>5

LEMMA LeasesCount ==
  ASSUME CaptureInv, CaptureInv', NEW e \in Exchanges, OneLease(e),
         used = Total(lease, Exchanges), \A d \in Exchanges : Unleased(d)
  PROVE  (used = Total(lease, Exchanges))' /\ (\A d \in Exchanges : Unleased(d))'
<1>1. \A d \in Exchanges : lease[d] \in Nat /\ lease'[d] \in Nat
  BY DEF CaptureInv, TypeOK
<1>2. Total(lease', Exchanges) = Total(lease, Exchanges) - lease[e] + lease'[e]
  BY <1>1, CaptureAssumption, TotalChanges DEF OneLease
<1> QED BY <1>2 DEF OneLease, Unleased

LEMMA SetOwnersCounts ==
  ASSUME CaptureInv, NEW e \in Exchanges, NEW owners, NEW r, NEW given \in Nat,
         SetOwners(e, owners, r, given)
  PROVE  /\ \A d \in Exchanges \ {e} : lease'[d] = lease[d] /\ refs'[d] = refs[d]
         /\ used' = used - lease[e] + lease'[e]
<1>1. /\ lease \in [Exchanges -> Nat] /\ used \in Int
      /\ refs \in [Exchanges -> SUBSET Owners]
  BY DEF CaptureInv, TypeOK
<1>2. CASE owners = {}
  BY <1>1, <1>2 DEF SetOwners
<1>3. CASE owners # {}
  BY <1>1, <1>3 DEF SetOwners
<1> QED BY <1>2, <1>3

LEMMA LeasesStay ==
  ASSUME CaptureInv, NEW e \in Exchanges, UNCHANGED <<lease, refs, used>>, Unleased(e),
         \A d \in Exchanges \ {e} : start'[d] = start[d],
         start'[e] \in {"idle", "admitted"} => start[e] \in {"idle", "admitted"}
  PROVE  OneLease(e)
<1>1. lease[e] \in Nat /\ used \in Int
  BY DEF CaptureInv, TypeOK
<1> QED BY <1>1 DEF OneLease, Unleased

\* A task or a reader may let a stored record grow, and leaves the store alone.
Grows(e) ==
  /\ UNCHANGED <<store, runtime>>
  /\ "store" \in refs[e] => rec'[e].retained >= rec[e].retained

LEMMA SameBytesGrow ==
  ASSUME CaptureInv, NEW e \in Exchanges, UNCHANGED <<rec, store, runtime>>
  PROVE  Grows(e)
BY StoredIsAlive DEF Grows

LEMMA OwnersGrow ==
  ASSUME CaptureInv, NEW e \in Exchanges, NEW owners, NEW r \in Record, NEW given,
         SetOwners(e, owners, r, given), UNCHANGED <<store, runtime>>,
         r.retained >= rec[e].retained, "store" \in refs[e] => "store" \in owners
  PROVE  Grows(e)
BY OwnersMove DEF Grows, RecordOwners, Owners

LEMMA StartCounts ==
  ASSUME CaptureInv, FeedInv, NEW e \in Exchanges, Unleased(e),
         StartAcquire(e) \/ StartLease(e) \/ StartSequence(e) \/ StartSend(e)
  PROVE  OneLease(e) /\ Grows(e)
<1>1. /\ "store" \notin refs[e] /\ UNCHANGED <<store, runtime>>
      /\ \A d \in Exchanges \ {e} : start'[d] = start[d]
  BY TypesNow DEF StartAcquire, StartLease, StartSequence, StartSend, Refuse,
                  FeedInv, Unannounced, TaskTypes, runtimeVars
<1>2. Grows(e)
  BY <1>1 DEF Grows
<1>3. /\ lease \in [Exchanges -> Nat] /\ used \in Int
      /\ refs \in [Exchanges -> SUBSET Owners]
      /\ start \in [Exchanges -> {"idle", "admitted", "leased", "sequenced",
                                  "started", "refused"}]
  BY DEF CaptureInv, TypeOK
<1>4. CASE StartAcquire(e) \/ StartSequence(e)
  <2>1. UNCHANGED <<lease, refs, used>>
    BY <1>4 DEF StartAcquire, StartSequence, recordVars
  <2>2. start'[e] \in {"idle", "admitted"} => start[e] \in {"idle", "admitted"}
    BY <1>3, <1>4 DEF StartAcquire, StartSequence, Refuse
  <2> QED BY <1>1, <1>2, <2>1, <2>2, LeasesStay
<1>5. CASE StartLease(e)
  <2>1. lease[e] = 0 /\ RequestSizes \subseteq Nat
    BY <1>5, CaptureAssumption DEF Unleased, StartLease
  <2>2. PICK n \in RequestSizes :
          \/ /\ used' = used + n /\ lease' = [lease EXCEPT ![e] = n]
             /\ refs' = [refs EXCEPT ![e] = {"producer"}]
             /\ start' = [start EXCEPT ![e] = "leased"]
          \/ Refuse(e, 1) /\ UNCHANGED <<lease, refs, used>>
    BY <1>5 DEF StartLease, recordVars
  <2>3. CASE /\ used' = used + n /\ lease' = [lease EXCEPT ![e] = n]
             /\ refs' = [refs EXCEPT ![e] = {"producer"}]
             /\ start' = [start EXCEPT ![e] = "leased"]
    BY <1>1, <1>2, <1>3, <2>1, <2>3 DEF OneLease, Unleased
  <2>4. CASE Refuse(e, 1) /\ UNCHANGED <<lease, refs, used>>
    <3>1. start'[e] = "refused"
      BY <1>3, <2>4 DEF Refuse
    <3> QED BY <1>1, <1>2, <2>4, <3>1, LeasesStay
  <2> QED BY <2>2, <2>3, <2>4
<1>6. CASE StartSend(e)
  <2>1. \E owners : SetOwners(e, owners, rec[e], 0)
    BY <1>6 DEF StartSend
  <2>2. start'[e] \in {"started", "refused"}
    BY <1>3, <1>6 DEF StartSend, Refuse
  <2>3. /\ \A d \in Exchanges \ {e} : lease'[d] = lease[d] /\ refs'[d] = refs[d]
        /\ used' = used - lease[e] + lease'[e]
    BY <2>1, SetOwnersCounts
  <2> QED BY <1>1, <1>2, <2>2, <2>3 DEF OneLease, Unleased
<1> QED BY <1>4, <1>5, <1>6

LEMMA RespondCounts ==
  ASSUME CaptureInv, NEW e \in Exchanges, Unleased(e),
         \/ RespondReserve(e) \/ RespondShrink(e) \/ RespondCommit(e)
         \/ RespondUnreachable(e) \/ Abandon(e)
  PROVE  OneLease(e) /\ Grows(e)
<1>1. UNCHANGED <<start, store, runtime>>
  BY DEF RespondReserve, RespondShrink, RespondCommit, RespondUnreachable, Abandon,
         runtimeVars
<1>2. /\ lease \in [Exchanges -> Nat] /\ used \in Int /\ rec[e] \in Record
      /\ held[e] \in Nat /\ rec[e].retained \in Nat
      /\ refs \in [Exchanges -> SUBSET Owners]
  BY StoredIsAlive DEF CaptureInv, TypeOK
<1>3. start[e] = "started" /\ ~(start'[e] \in {"idle", "admitted"})
  <2>1. handler[e] # "gone"
    BY DEF RespondReserve, RespondShrink, RespondCommit, RespondUnreachable, Abandon
  <2> QED BY <1>1, <2>1 DEF CaptureInv, Custody
<1>4. CASE RespondReserve(e)
  <2>1. \E got : used' = used + got /\ lease' = [lease EXCEPT ![e] = lease[e] + got]
                /\ got \in Int
    <3>1. PICK h \in HeaderSizes :
            LET got == Least(ResponseBase + h, SatSub(BudgetLimit, used))
            IN  used' = used + got /\ lease' = [lease EXCEPT ![e] = lease[e] + got]
      BY <1>4 DEF RespondReserve
    <3>2. Least(ResponseBase + h, SatSub(BudgetLimit, used)) \in Int
      BY <1>2, CaptureAssumption DEF Least, SatSub
    <3> QED BY <3>1, <3>2
  <2>2. UNCHANGED rec /\ \A d \in Exchanges \ {e} : refs'[d] = refs[d]
    BY <1>2, <1>4 DEF RespondReserve
  <2>3. OneLease(e)
    BY <1>1, <1>2, <1>3, <2>1, <2>2 DEF OneLease, Unleased
  <2> QED BY <1>1, <2>2, <2>3, SameBytesGrow
<1>5. ASSUME NEW owners, NEW r \in Record, NEW given \in Nat,
             SetOwners(e, owners, r, given), r.retained >= rec[e].retained,
             "store" \in refs[e] => "store" \in owners
      PROVE  OneLease(e) /\ Grows(e)
  <2>1. Grows(e)
    BY <1>1, <1>5, OwnersGrow
  <2> QED BY <1>1, <1>3, <1>5, <2>1, SetOwnersCounts DEF OneLease, Unleased
<1>6. CASE RespondShrink(e)
  <2>1. PICK actual \in IF held[e] < ResponseBase THEN {0} ELSE ResponseBase..held[e] :
          SetOwners(e, refs[e], rec[e], held[e] - actual)
    BY <1>6 DEF RespondShrink
  <2> DEFINE given == held[e] - actual
  <2>2. given \in Nat
    BY <1>2, CaptureAssumption
  <2>3. SetOwners(e, refs[e], rec[e], given) /\ rec[e].retained >= rec[e].retained
    BY <1>2, <2>1
  <2> HIDE DEF given
  <2> QED BY <1>2, <1>5, <2>2, <2>3
<1>7. CASE RespondCommit(e)
  <2> DEFINE owners == refs[e] \ {"response"}
             n == rec[e].retained + held[e]
             v == rec[e].revision + 1
             r == [rec[e] EXCEPT !.responseStarted = TRUE, !.retained = n,
                                 !.revision = v,
                                 !.body["response"].stream = "Streaming"]
  <2>1. SetOwners(e, owners, r, 0) \/ SetOwners(e, owners, rec[e], held[e])
    BY <1>7 DEF RespondCommit
  <2>2. r \in Record /\ r.retained >= rec[e].retained
    <3>1. n \in Nat /\ n >= rec[e].retained /\ v \in Nat
      BY <1>2, StoredIsAlive
    <3>2. PICK status : status = [rec[e].body["response"] EXCEPT !.stream = "Streaming"]
      OBVIOUS
    <3>3. PICK body : body = [rec[e].body EXCEPT !["response"] = status]
      OBVIOUS
    <3>4. rec[e].body["response"] \in BodyStatus /\ rec[e].body \in [Sides -> BodyStatus]
      BY <1>2 DEF Record, Sides
    <3>5. status \in BodyStatus
      BY <3>2, <3>4 DEF BodyStatus, Streams
    <3>6. body \in [Sides -> BodyStatus]
      BY <3>3, <3>4, <3>5
    <3> HIDE DEF n, v
    <3>7. r = [rec[e] EXCEPT !.responseStarted = TRUE, !.retained = n, !.revision = v,
                             !.body = body]
      BY <3>2, <3>3
    <3> HIDE DEF r
    <3>8. r \in Record /\ r.retained = n
      BY <1>2, <3>1, <3>6, <3>7 DEF Record
    <3> QED BY <3>1, <3>8
  <2> HIDE DEF r, owners
  <2>3. "store" \in refs[e] => "store" \in owners
    BY DEF owners
  <2>4. 0 \in Nat /\ rec[e].retained >= rec[e].retained
    BY <1>2
  <2>5. CASE SetOwners(e, owners, r, 0)
    BY <1>5, <2>2, <2>3, <2>4, <2>5
  <2>6. CASE SetOwners(e, owners, rec[e], held[e])
    BY <1>2, <1>5, <2>3, <2>4, <2>6
  <2> QED BY <2>1, <2>5, <2>6
<1>8. CASE RespondUnreachable(e) \/ Abandon(e)
  <2>1. UNCHANGED <<rec, lease, refs, used>>
    BY <1>8 DEF RespondUnreachable, Abandon, recordVars
  <2> QED BY <1>1, <2>1, LeasesStay, SameBytesGrow
<1> QED BY <1>4, <1>6, <1>7, <1>8

LEMMA FrameCounts ==
  ASSUME CaptureInv, NEW e \in Exchanges, Unleased(e), NEW s \in Sides,
         NEW n \in FrameSizes, Frame(e, s, n)
  PROVE  OneLease(e) /\ Grows(e)
<1> DEFINE b    == rec[e].body[s]
           room == SatSub(BudgetLimit, used)
           got  == BodyPrefixCharge(PreviewWanted(b, n), b.retained % ChunkBytes, room)
<1>1. /\ rec[e] \in Record /\ b \in BodyStatus /\ n \in Nat /\ rec[e].retained \in Nat
      /\ lease \in [Exchanges -> Nat] /\ used \in Int /\ BudgetLimit \in Nat
      /\ PreviewLimit \in Nat
  BY StoredIsAlive, TypesNow, CaptureAssumption DEF LeaseTypes, Record
<1>2. UNCHANGED <<refs, start, store, runtime>> /\ start[e] \notin {"idle", "admitted"}
  BY DEF Frame, taskVars, runtimeVars, Unleased, Alive
<1>3. got[2] \in Nat
  <2>1. PreviewWanted(b, n) \in Nat /\ b.retained % ChunkBytes \in Nat /\ room \in Nat
    <3>1. b.retained \in Nat
      BY <1>1 DEF BodyStatus
    <3> HIDE DEF b
    <3> QED BY <1>1, <3>1, ChunkAssumption DEF PreviewWanted, Least, SatSub
  <2> HIDE DEF b, room
  <2> QED BY <2>1, PrefixChargeBounds
<1>4. CASE rec[e].disabled
  <2> DEFINE seen == [b EXCEPT !.stream = "Streaming", !.observed = b.observed + n]
  <2>1. rec' = [rec EXCEPT ![e] = [rec[e] EXCEPT !.body[s] = seen]]
        /\ UNCHANGED <<used, lease>>
    BY <1>4 DEF Frame
  <2> HIDE DEF seen
  <2>2. rec'[e].retained = rec[e].retained
    BY <1>1, <2>1, TypesNow DEF LeaseTypes, Record
  <2> QED BY <1>1, <1>2, <2>1, <2>2, LeasesStay DEF Grows
<1>5. CASE ~rec[e].disabled
  <2> DEFINE g == got[2]
             m == rec[e].retained + g
             v == rec[e].revision + 1
             seen == [b EXCEPT !.stream = "Streaming", !.observed = b.observed + n]
             kept == [seen EXCEPT !.retained = b.retained + got[1],
                                  !.limit = LimitAfter(b, n, got[1])]
  <2>1. /\ rec' = [rec EXCEPT ![e] = [rec[e] EXCEPT !.body[s] = kept, !.retained = m,
                                                   !.revision = v]]
        /\ used' = used + g /\ lease' = [lease EXCEPT ![e] = lease[e] + g]
    BY <1>5 DEF Frame
  <2>2. g \in Nat /\ m >= rec[e].retained
    <3> HIDE DEF got
    <3> QED BY <1>1, <1>3
  <2> HIDE DEF g, m, v, seen, kept
  <2>3. rec'[e].retained = m
    BY <1>1, <2>1, TypesNow DEF LeaseTypes, Record
  <2>4. Grows(e)
    BY <1>2, <2>2, <2>3 DEF Grows
  <2>5. lease'[e] = lease[e] + g /\ \A d \in Exchanges \ {e} : lease'[d] = lease[d]
    BY <1>1, <2>1
  <2>6. used' = used - lease[e] + lease'[e]
    BY <1>1, <2>1, <2>2, <2>5
  <2> QED BY <1>2, <2>4, <2>5, <2>6 DEF OneLease, Unleased
<1> QED BY <1>4, <1>5

LEMMA FinishCounts ==
  ASSUME CaptureInv, NEW e \in Exchanges, Unleased(e), NEW s \in Sides,
         NEW kind \in Endings, Finish(e, s, kind)
  PROVE  OneLease(e) /\ Grows(e)
<1> DEFINE v == rec[e].revision + 1
           r == [rec[e] EXCEPT !.body[s].stream = kind, !.revision = v]
<1>1. UNCHANGED <<lease, refs, used, start, store, runtime>>
  BY DEF Finish, runtimeVars
<1>2. UNCHANGED rec \/ rec' = [rec EXCEPT ![e] = r]
  BY DEF Finish
<1>3. r.retained = rec[e].retained
  <2> HIDE DEF v
  <2> QED BY StoredIsAlive DEF Record
<1> HIDE DEF r
<1>4. rec'[e].retained >= rec[e].retained
  BY <1>2, <1>3, StoredIsAlive, TypesNow DEF LeaseTypes
<1> QED BY <1>1, <1>4, LeasesStay DEF Grows

LEMMA ReaderCounts ==
  ASSUME CaptureInv, NEW e \in Exchanges, Unleased(e), Reader(e)
  PROVE  OneLease(e) /\ Grows(e)
<1>1. PICK owners : /\ Reading(e, owners) /\ refs[e] # {}
                    /\ "store" \in refs[e] => "store" \in owners
  BY DEF Reader, ReaderOpen, ReaderSnapshot, ReaderClose, SnapshotDrop
<1>2. SetOwners(e, owners, rec[e], 0) /\ UNCHANGED <<start, store, runtime>>
  BY <1>1 DEF Reading, taskVars, runtimeVars
<1>3. rec[e] \in Record /\ rec[e].retained >= rec[e].retained /\ 0 \in Nat
  BY StoredIsAlive
<1>4. Grows(e)
  BY <1>1, <1>2, <1>3, OwnersGrow
<1> QED BY <1>1, <1>2, <1>3, <1>4, SetOwnersCounts DEF OneLease, Unleased

\* A step of a task or a reader keeps both counts.
LEMMA GrowthKeepsPolicy ==
  ASSUME CaptureInv, CaptureInv', NEW e \in Exchanges, Handles(e), Grows(e), WithinPolicy
  PROVE  WithinPolicy'
<1>1. Stored' = Stored
  BY DEF Stored, Handles, Others
<1>2. /\ IsFiniteSet(Stored) /\ Stored \in SUBSET Exchanges
      /\ \A d \in Exchanges : Retained[d] = rec[d].retained /\ Retained[d] \in Nat
      /\ \A d \in Exchanges : Retained'[d] = rec'[d].retained /\ Retained'[d] \in Nat
  <2>1. \A d \in Exchanges : rec'[d].retained \in Nat
    BY DEF CaptureInv, TypeOK, Record
  <2> QED BY <2>1, StoredFinite DEF Retained
<1>3. Total(Retained, Stored) <= Total(Retained', Stored)
  <2>1. \A d \in Stored : /\ Retained[d] \in Nat /\ Retained'[d] \in Nat
                          /\ Retained[d] <= Retained'[d]
    BY <1>2 DEF Grows, Handles, Others, Stored
  <2>2. \A d \in Stored \ {e} : Retained[d] = Retained'[d]
    BY <1>2 DEF Handles, Others
  <2> QED BY <1>2, <2>1, <2>2, TotalGrows
<1>4. Total(Retained, Stored) \in Nat /\ Total(Retained', Stored) \in Nat
  BY <1>2, TotalAdds
<1>5. store.bytes \in Nat
  BY TypesNow DEF RuntimeTypes
<1>6. UNCHANGED <<store, runtime>>
  BY DEF Grows
<1> QED BY <1>1, <1>3, <1>4, <1>5, <1>6 DEF WithinPolicy, OverLimit

(***************************************************************************)
(* The store.                                                              *)
(***************************************************************************)
\* What a removal leaves of the counts of the store: the record takes along
\* what it holds, and the sum of the rest still covers the count.
Shrinks(bytes) ==
  /\ Cardinality(Stored') = Cardinality(Stored) - 1 /\ Cardinality(Stored') \in Nat
  /\ bytes \in Nat /\ bytes <= store.bytes
  /\ store.bytes <= Total(Retained, Stored) => bytes <= Total(Retained', Stored')
  /\ Cardinality(Stored) <= 1 => Total(Retained', Stored') = 0

LEMMA RemovalShrinks ==
  ASSUME CaptureInv, CaptureInv', NEW e \in Exchanges, "store" \in refs[e],
         refs'[e] = refs[e] \ {"store"},
         \A d \in Exchanges \ {e} : refs'[d] = refs[d] /\ rec'[d] = rec[d]
  PROVE  Shrinks(SatSub(store.bytes, rec[e].retained))
<1>1. Stored' = Stored \ {e} /\ e \in Stored
  BY DEF Stored
<1>2. /\ IsFiniteSet(Stored) /\ Stored \in SUBSET Exchanges /\ Cardinality(Stored) \in Nat
      /\ \A d \in Exchanges : Retained[d] = rec[d].retained /\ Retained[d] \in Nat
      /\ \A d \in Exchanges : Retained'[d] = rec'[d].retained
  BY StoredFinite DEF Retained
<1>3. Cardinality(Stored') = Cardinality(Stored) - 1 /\ Cardinality(Stored') \in Nat
  <2>1. IsFiniteSet(Stored \ {e})
    BY <1>2, FS_Subset
  <2> QED BY <1>1, <1>2, <2>1, FS_RemoveElement, FS_CardinalityType
<1>4. /\ Total(Retained, Stored \ {e}) \in Nat
      /\ Total(Retained, Stored) = rec[e].retained + Total(Retained, Stored \ {e})
  <2>1. \A d \in Stored : Retained[d] \in Nat
    BY <1>2
  <2> QED BY <1>1, <1>2, <2>1, TotalRemoves
<1>5. Total(Retained', Stored') = Total(Retained, Stored \ {e})
  <2>1. IsFiniteSet(Stored \ {e})
    BY <1>2, FS_Subset
  <2>2. \A d \in Stored \ {e} : Retained[d] \in Nat /\ Retained[d] = Retained'[d]
    BY <1>2
  <2>3. Total(Retained, Stored \ {e}) = Total(Retained', Stored \ {e})
    BY <2>1, <2>2, TotalAgrees
  <2> QED BY <1>1, <2>3
<1>6. store.bytes \in Nat /\ rec[e].retained \in Nat
  BY StoredIsAlive, TypesNow DEF RuntimeTypes
<1>7. Cardinality(Stored) <= 1 => Total(Retained', Stored') = 0
  <2>1. ASSUME Cardinality(Stored) <= 1 PROVE Stored \ {e} = {}
    <3>1. Cardinality(Stored \ {e}) = 0 /\ IsFiniteSet(Stored \ {e})
      BY <1>1, <1>2, <1>3, <2>1, FS_Subset
    <3> QED BY <3>1, FS_EmptySet
  <2>2. Total(Retained, {}) = 0
    BY <1>2, TotalAdds
  <2> QED BY <1>5, <2>1, <2>2
<1> QED BY <1>3, <1>4, <1>5, <1>6, <1>7 DEF Shrinks, SatSub

\* Nothing of what the store counts changes.
LEMMA PolicyStays ==
  ASSUME CaptureInv, WithinPolicy, UNCHANGED <<rec, refs, store>>,
         runtime'.task # "retain" => runtime.task # "retain",
         runtime'.task # "drop" => runtime.task # "drop"
  PROVE  WithinPolicy'
BY DEF WithinPolicy, Stored, Retained, OverLimit

\* The runtime works on records that have an owner.
LEMMA OwnedCounts ==
  ASSUME CaptureInv, NEW e \in Exchanges, Unleased(e), refs[e] # {}, UNCHANGED start,
         NEW owners, NEW r, SetOwners(e, owners, r, 0)
  PROVE  OneLease(e)
<1>1. /\ \A d \in Exchanges \ {e} : lease'[d] = lease[d] /\ refs'[d] = refs[d]
      /\ used' = used - lease[e] + lease'[e]
  <2>1. 0 \in Nat
    OBVIOUS
  <2> QED BY <2>1, SetOwnersCounts
<1> QED BY <1>1 DEF OneLease, Unleased

\* One record leaves the store, or is marked: what the removals have in common.
LEMMA TakenOut ==
  ASSUME CaptureInv, BytesInv, NEW e \in Exchanges, "store" \in refs[e],
         NEW owners, NEW kind, RemoveRecord(e, kind, owners), UNCHANGED start
  PROVE  /\ OneLease(e) /\ refs'[e] = owners
         /\ \A d \in Exchanges \ {e} : refs'[d] = refs[d] /\ rec'[d] = rec[d]
         /\ "store" \in owners => rec'[e].retained = rec[e].retained
<1> DEFINE r == [rec[e] EXCEPT !.disabled = TRUE, !.bound = FALSE]
<1>1. SetOwners(e, owners, r, 0)
  BY DEF RemoveRecord
<1>2. r.retained = rec[e].retained
  BY StoredIsAlive DEF Record
<1> HIDE DEF r
<1>3. /\ refs'[e] = owners
      /\ rec'[e] = IF owners \intersect RecordOwners = {} THEN NoRecord ELSE r
      /\ \A d \in Exchanges \ {e} : refs'[d] = refs[d] /\ rec'[d] = rec[d]
  BY <1>1, OwnersMove
<1>4. OneLease(e)
  BY <1>1, OwnedCounts DEF BytesInv
<1> QED BY <1>2, <1>3, <1>4 DEF RecordOwners, Owners

\* CaptureStore::evict_oldest, whoever calls it.
LEMMA EvictionShrinks ==
  ASSUME CaptureInv, CaptureInv', BytesInv, EvictOldest, UNCHANGED start
  PROVE  /\ \E e \in Exchanges : OneLease(e)
         /\ Shrinks(store'.bytes)
<1>1. PICK e \in Exchanges :
        /\ "store" \in refs[e] /\ RemoveRecord(e, "RetentionEviction", refs[e] \ {"store"})
        /\ store'.bytes = SatSub(store.bytes, rec[e].retained)
  <2>1. PICK e \in Exchanges :
          /\ "store" \in refs[e]
          /\ RemoveRecord(e, "RetentionEviction", refs[e] \ {"store"})
          /\ store' = [bytes |-> SatSub(store.bytes, rec[e].retained),
                       revision |-> store.revision + 1]
    BY DEF EvictOldest, IsOldest, Stored
  <2>2. store'.bytes = SatSub(store.bytes, rec[e].retained)
    BY <2>1
  <2> QED BY <2>1, <2>2
<1>2. /\ OneLease(e) /\ refs'[e] = refs[e] \ {"store"}
      /\ \A d \in Exchanges \ {e} : refs'[d] = refs[d] /\ rec'[d] = rec[d]
  BY <1>1, TakenOut
<1>3. Shrinks(SatSub(store.bytes, rec[e].retained))
  BY <1>1, <1>2, RemovalShrinks
<1> QED BY <1>1, <1>2, <1>3

LEMMA ShrinkKeepsPolicy ==
  ASSUME CaptureInv, WithinPolicy, Shrinks(store'.bytes),
         runtime.task \notin {"retain", "drop"}
  PROVE  WithinPolicy'
BY StoredFinite, TypesNow, CaptureAssumption
   DEF WithinPolicy, Shrinks, OverLimit, RuntimeTypes

LEMMA RetainKeepsPolicy ==
  ASSUME CaptureInv, CaptureInv', BytesInv, Retain
  PROVE  WithinPolicy' /\ \E e \in Exchanges : OneLease(e)
<1>1. /\ runtime.task = "retain" /\ EvictOldest /\ UNCHANGED start
      /\ runtime'.task = IF OverLimit(Cardinality(Stored) - 1, store'.bytes)
                               /\ Cardinality(Stored) > 1
                           THEN "retain" ELSE "idle"
  BY DEF Retain, Busy, RuntimeFrame, taskVars
<1>2. Shrinks(store'.bytes) /\ \E e \in Exchanges : OneLease(e)
  BY <1>1, EvictionShrinks
<1>3. store.bytes <= Total(Retained, Stored)
  BY <1>1 DEF BytesInv, WithinPolicy
<1>4. store'.bytes <= Total(Retained', Stored')
  BY <1>2, <1>3 DEF Shrinks
<1>5. ASSUME runtime'.task # "retain"
      PROVE  ~OverLimit(Cardinality(Stored'), store'.bytes)
  <2>1. CASE ~OverLimit(Cardinality(Stored) - 1, store'.bytes)
    BY <1>2, <2>1 DEF Shrinks
  <2>2. CASE ~(Cardinality(Stored) > 1)
    <3>1. Cardinality(Stored) \in Nat
      BY StoredFinite
    <3>2. Cardinality(Stored') = 0 /\ store'.bytes = 0
      BY <1>2, <1>4, <2>2, <3>1 DEF Shrinks
    <3> QED BY <3>2, CaptureAssumption DEF OverLimit
  <2> QED BY <1>1, <1>5, <2>1, <2>2
<1> QED BY <1>2, <1>4, <1>5 DEF WithinPolicy

LEMMA RecvKeepsPolicy ==
  ASSUME CaptureInv, CaptureInv', FeedInv, BytesInv, RecvCapture
  PROVE  WithinPolicy' /\ \E e \in Exchanges : OneLease(e)
<1>1. PICK e \in Exchanges : e = Head(queue) /\ "queue" \in refs[e]
  <2>1. queue \in Seq(Exchanges) /\ queue # <<>>
    BY TypesNow DEF PublisherTypes, RecvCapture
  <2>2. 1 \in 1..Len(queue) /\ Head(queue) = queue[1] /\ queue[1] \in Exchanges
    BY <2>1
  <2> QED BY <2>2 DEF CaptureInv, QueueOwned
<1> DEFINE r == [rec[e] EXCEPT !.bound = TRUE]
           owners == (refs[e] \ {"queue"}) \union {"store"}
           bytes == store.bytes + rec[e].retained
<1>2. /\ SetOwners(e, owners, r, 0) /\ UNCHANGED start /\ runtime.task = "idle"
      /\ store'.bytes = bytes
      /\ runtime'.task = IF OverLimit(Cardinality(Stored) + 1, bytes) THEN "retain"
                                                                     ELSE "idle"
  BY <1>1 DEF RecvCapture, Idle, RuntimeFrame, taskVars, Busy
<1>3. "store" \notin refs[e]
  BY <1>1 DEF FeedInv, Unannounced
<1>4. r.retained = rec[e].retained
  BY StoredIsAlive DEF Record
<1> HIDE DEF r
<1>5. /\ refs'[e] = owners /\ rec'[e] = r
      /\ \A d \in Exchanges \ {e} : refs'[d] = refs[d] /\ rec'[d] = rec[d]
  BY <1>2, OwnersMove DEF RecordOwners, Owners
<1>6. OneLease(e)
  BY <1>1, <1>2, OwnedCounts DEF BytesInv
<1>7. Stored' = Stored \union {e} /\ e \notin Stored
  BY <1>3, <1>5 DEF Stored
<1>8. /\ IsFiniteSet(Exchanges) /\ Stored \in SUBSET Exchanges
      /\ Cardinality(Stored) \in Nat /\ Cardinality(Stored') = Cardinality(Stored) + 1
      /\ \A d \in Exchanges : Retained[d] = rec[d].retained /\ Retained[d] \in Nat
      /\ \A d \in Exchanges : Retained'[d] = Retained[d]
  <2>1. \A d \in Exchanges : Retained'[d] = rec'[d].retained
    BY DEF Retained
  <2>2. \A d \in Exchanges : Retained[d] = rec[d].retained /\ Retained[d] \in Nat
    BY StoredFinite
  <2>3. \A d \in Exchanges : rec'[d].retained = rec[d].retained
    BY <1>4, <1>5
  <2>4. \A d \in Exchanges : Retained'[d] = Retained[d]
    BY <2>1, <2>2, <2>3
  <2>5. IsFiniteSet(Stored) /\ IsFiniteSet(Exchanges) /\ Cardinality(Stored) \in Nat
        /\ Stored \in SUBSET Exchanges
    BY StoredFinite
  <2>6. Cardinality(Stored') = Cardinality(Stored) + 1
    BY <1>7, <2>5, FS_AddElement
  <2> QED BY <2>2, <2>4, <2>5, <2>6
<1>9. Total(Retained', Stored') = rec[e].retained + Total(Retained, Stored)
  <2>1. Total(Retained, Stored \union {e}) = Retained[e] + Total(Retained, Stored)
    BY <1>7, <1>8, TotalAdds
  <2>2. IsFiniteSet(Stored') /\ \A d \in Stored' : /\ Retained[d] \in Nat
                                                /\ Retained[d] = Retained'[d]
    BY <1>7, <1>8, FS_Subset
  <2>3. Total(Retained, Stored') = Total(Retained', Stored')
    BY <2>2, TotalAgrees
  <2> QED BY <1>7, <1>8, <2>1, <2>3
<1>10. /\ store.bytes <= Total(Retained, Stored) /\ Total(Retained, Stored) \in Nat
       /\ store.bytes \in Nat /\ rec[e].retained \in Nat
  BY <1>2, <1>8, TotalAdds, StoredIsAlive, TypesNow DEF BytesInv, WithinPolicy, RuntimeTypes
<1>11. store'.bytes <= Total(Retained', Stored')
  BY <1>2, <1>9, <1>10
<1>12. runtime'.task # "retain" => ~OverLimit(Cardinality(Stored'), store'.bytes)
  BY <1>2, <1>8
<1> QED BY <1>6, <1>11, <1>12 DEF WithinPolicy

LEMMA DeleteKeepsPolicy ==
  ASSUME CaptureInv, CaptureInv', FeedInv, BytesInv, DeleteOne
  PROVE  WithinPolicy' /\ \E e \in Exchanges : OneLease(e)
<1>1. PICK e \in Exchanges :
        /\ e \in runtime.todo
        /\ RemoveRecord(e, "ExplicitDelete", refs[e] \ {"store"})
        /\ \E v : store' = [bytes |-> SatSub(store.bytes, rec[e].retained), revision |-> v]
  BY DEF DeleteOne, IsOldest
<1>2. runtime.task = "delete" /\ UNCHANGED start
  BY DEF DeleteOne, RuntimeFrame, taskVars
<1>3. "store" \in refs[e]
  BY <1>1, <1>2 DEF FeedInv, Removing
<1>4. /\ OneLease(e) /\ refs'[e] = refs[e] \ {"store"}
      /\ \A d \in Exchanges \ {e} : refs'[d] = refs[d] /\ rec'[d] = rec[d]
  BY <1>1, <1>2, <1>3, TakenOut
<1>5. Shrinks(SatSub(store.bytes, rec[e].retained))
  BY <1>3, <1>4, RemovalShrinks
<1>6. store'.bytes = SatSub(store.bytes, rec[e].retained)
  BY <1>1
<1>7. WithinPolicy'
  BY <1>2, <1>5, <1>6, ShrinkKeepsPolicy DEF BytesInv
<1> QED BY <1>4, <1>7

LEMMA ClearKeepsPolicy ==
  ASSUME CaptureInv, CaptureInv', FeedInv, BytesInv, ClearOne
  PROVE  WithinPolicy' /\ \E e \in Exchanges : OneLease(e)
<1>1. PICK e \in Exchanges : e \in runtime.todo /\ RemoveRecord(e, "Clear", refs[e])
  BY DEF ClearOne, IsOldest
<1>2. /\ runtime.task = "clear" /\ UNCHANGED <<start, store>>
      /\ runtime'.task \in {"clear", "drop"}
  BY DEF ClearOne, RuntimeFrame, taskVars, Busy
<1>3. "store" \in refs[e]
  BY <1>1, <1>2 DEF FeedInv, Removing
<1>4. /\ OneLease(e) /\ refs'[e] = refs[e] /\ rec'[e].retained = rec[e].retained
      /\ \A d \in Exchanges \ {e} : refs'[d] = refs[d] /\ rec'[d] = rec[d]
  BY <1>1, <1>2, <1>3, TakenOut
<1>5. Stored' = Stored /\ Retained' = Retained
  BY <1>4 DEF Stored, Retained
<1> QED BY <1>2, <1>4, <1>5 DEF BytesInv, WithinPolicy, OverLimit

LEMMA DropKeepsPolicy ==
  ASSUME CaptureInv, CaptureInv', FeedInv, BytesInv, DropOne
  PROVE  WithinPolicy' /\ \E e \in Exchanges : OneLease(e)
<1>1. PICK e \in Exchanges :
        /\ e \in runtime.todo /\ SetOwners(e, refs[e] \ {"store"}, rec[e], 0)
        /\ \/ runtime'.task = "idle"
              /\ store' = [bytes |-> 0, revision |-> store.revision + 1]
           \/ runtime'.task = "drop" /\ UNCHANGED store
  <2>1. PICK e \in Exchanges :
          /\ IsOldest(e, runtime.todo)
          /\ SetOwners(e, refs[e] \ {"store"}, rec[e], 0)
          /\ Busy(IF runtime.todo \ {e} = {} THEN "idle" ELSE "drop",
                  runtime.todo \ {e})
          /\ store' = IF runtime.todo \ {e} = {}
                        THEN [bytes |-> 0, revision |-> store.revision + 1]
                        ELSE store
    BY DEF DropOne
  <2> QED BY <2>1 DEF IsOldest, Busy
<1>2. runtime.task = "drop" /\ UNCHANGED start
  BY DEF DropOne, RuntimeFrame, taskVars
<1>3. "store" \in refs[e]
  BY <1>1, <1>2 DEF FeedInv, Removing
<1>4. OneLease(e)
  BY <1>1, <1>2, <1>3, OwnedCounts DEF BytesInv
<1>5. /\ refs'[e] = refs[e] \ {"store"}
      /\ \A d \in Exchanges \ {e} : refs'[d] = refs[d] /\ rec'[d] = rec[d]
  BY <1>1, OwnersMove
<1>6. Cardinality(Stored') = Cardinality(Stored) - 1 /\ Cardinality(Stored') \in Nat
      /\ Cardinality(Stored) \in Nat
  BY <1>3, <1>5, RemovalShrinks, StoredFinite DEF Shrinks
<1>7. ~OverLimit(Cardinality(Stored), store.bytes) /\ store.bytes \in Nat
  BY <1>2, TypesNow DEF BytesInv, WithinPolicy, RuntimeTypes
<1>8. Total(Retained', Stored') \in Nat
  <2>1. \A d \in Exchanges : rec'[d].retained \in Nat
    BY DEF CaptureInv, TypeOK, Record
  <2>2. \A d \in Exchanges : Retained'[d] \in Nat
    BY <2>1 DEF Retained
  <2>3. Stored' \in SUBSET Exchanges /\ IsFiniteSet(Exchanges)
    BY CaptureAssumption DEF Stored
  <2> QED BY <2>2, <2>3, TotalAdds
<1>9. CASE runtime'.task = "idle"
           /\ store' = [bytes |-> 0, revision |-> store.revision + 1]
  <2>1. store'.bytes = 0
    BY <1>9
  <2>2. ~OverLimit(Cardinality(Stored'), store'.bytes)
    BY <1>6, <1>7, <2>1, CaptureAssumption DEF OverLimit
  <2> QED BY <1>4, <1>8, <1>9, <2>1, <2>2 DEF WithinPolicy
<1>10. CASE runtime'.task = "drop" /\ UNCHANGED store
  <2>1. ~OverLimit(Cardinality(Stored'), store'.bytes)
    BY <1>6, <1>7, <1>10, CaptureAssumption DEF OverLimit
  <2> QED BY <1>4, <1>10, <2>1 DEF WithinPolicy
<1> QED BY <1>1, <1>9, <1>10

\* The budget and the leases stay as they are.
LEMMA NoLease ==
  ASSUME BytesInv, UNCHANGED <<used, lease, refs, start>>
  PROVE  (used = Total(lease, Exchanges))' /\ (\A d \in Exchanges : Unleased(d))'
BY DEF BytesInv, Unleased

LEMMA RuntimeCounts ==
  ASSUME CaptureInv, CaptureInv', FeedInv, BytesInv, Runtime \/ Shutdown
  PROVE  BytesInv'
<1>1. ASSUME WithinPolicy', NEW e \in Exchanges, OneLease(e) PROVE BytesInv'
  BY <1>1, LeasesCount DEF BytesInv
<1>2. CASE RecvCapture \/ Retain \/ DeleteOne \/ ClearOne \/ DropOne
  <2>1. WithinPolicy' /\ \E e \in Exchanges : OneLease(e)
    BY <1>2, RecvKeepsPolicy, RetainKeepsPolicy, DeleteKeepsPolicy, ClearKeepsPolicy,
       DropKeepsPolicy
  <2> QED BY <1>1, <2>1
<1>3. CASE ReadPressure
  <2>1. /\ runtime.task = "notified" /\ runtime'.task = "idle" /\ UNCHANGED start
        /\ EvictOldest \/ UNCHANGED <<recordVars, store>>
    BY <1>3 DEF ReadPressure, EvictUnderPressure, Busy, RuntimeFrame, taskVars
  <2>2. CASE EvictOldest
    <3>1. Shrinks(store'.bytes) /\ \E e \in Exchanges : OneLease(e)
      BY <2>1, <2>2, EvictionShrinks
    <3>2. WithinPolicy'
      BY <2>1, <3>1, ShrinkKeepsPolicy DEF BytesInv
    <3> QED BY <1>1, <3>1, <3>2
  <2>3. CASE UNCHANGED <<recordVars, store>>
    <3>1. WithinPolicy'
      BY <2>1, <2>3, PolicyStays DEF BytesInv, recordVars
    <3> QED BY <2>1, <2>3, <3>1, NoLease DEF BytesInv, recordVars
  <2> QED BY <2>1, <2>2, <2>3
<1>4. CASE NotifyDirty \/ Delete \/ Clear \/ Shutdown
  <2>1. /\ UNCHANGED <<recordVars, start, store>>
        /\ \/ /\ runtime.task = "idle"
              /\ runtime'.task \in {"notified", "delete", "clear"}
           \/ UNCHANGED runtime
    BY <1>4 DEF NotifyDirty, Delete, Clear, Shutdown, Busy, Idle, RuntimeFrame, taskVars
  <2>2. WithinPolicy'
    BY <2>1, PolicyStays DEF BytesInv, recordVars
  <2> QED BY <2>1, <2>2, NoLease DEF BytesInv, recordVars
<1> QED BY <1>2, <1>3, <1>4 DEF Runtime

LEMMA TaskCounts ==
  ASSUME CaptureInv, CaptureInv', FeedInv, BytesInv, NEW e \in Exchanges,
         Task(e) \/ Reader(e)
  PROVE  BytesInv'
<1>1. Unleased(e)
  BY DEF BytesInv
<1>2. OneLease(e) /\ Grows(e)
  BY <1>1, StartCounts, RespondCounts, FrameCounts, FinishCounts, ReaderCounts DEF Task
<1>3. Handles(e)
  BY TaskHandles, ReaderHandles
<1>4. WithinPolicy'
  BY <1>2, <1>3, GrowthKeepsPolicy DEF BytesInv
<1> QED BY <1>2, <1>4, LeasesCount DEF BytesInv

LEMMA BytesInit == Init => BytesInv
<1> SUFFICES ASSUME Init PROVE BytesInv
  OBVIOUS
<1>1. CaptureInv
  BY CaptureInit
<1>2. \A e \in Exchanges : Unleased(e) /\ lease[e] = 0
  BY DEF Init, Unleased
<1>3. Stored = {} /\ store.bytes = 0 /\ runtime.task = "idle"
  BY DEF Init, Stored
<1>4. Total(lease, Exchanges) = 0
  <2> DEFINE G == {T \in SUBSET Exchanges : Total(lease, T) = 0}
  <2>1. \A e \in Exchanges : lease[e] \in Nat
    BY <1>2
  <2>2. ASSUME NEW U \in SUBSET Exchanges, \A V \in SUBSET U : V # U => V \in G
        PROVE  U \in G
    <3>1. CASE U = {}
      BY <2>1, <3>1, CaptureAssumption, TotalAdds
    <3>2. CASE U # {}
      <4>1. PICK y \in U : TRUE
        BY <3>2
      <4>2. PICK V \in SUBSET U : V = U \ {y}
        OBVIOUS
      <4>3. V \in G /\ y \notin V /\ U = V \union {y} /\ V \in SUBSET Exchanges
        BY <2>2, <4>1, <4>2
      <4>4. Total(lease, U) = lease[y] + Total(lease, V)
        BY <2>1, <4>1, <4>3, CaptureAssumption, TotalAdds
      <4> QED BY <1>2, <4>3, <4>4
    <3> QED BY <3>1, <3>2
  <2>3. Exchanges \in G
    <3> HIDE DEF G
    <3> QED BY <2>2, CaptureAssumption, SetInduction
  <2> QED BY <2>3
<1>5. Total(Retained, Stored) = 0
  BY <1>1, <1>3, StoredFinite, TotalAdds
<1>6. Cardinality(Stored) = 0
  BY <1>3, FS_EmptySet
<1> QED
  BY <1>2, <1>3, <1>4, <1>5, <1>6, CaptureAssumption
  DEF Init, BytesInv, WithinPolicy, OverLimit

LEMMA BytesNext == CaptureInv /\ FeedInv /\ BytesInv /\ [Next]_vars => BytesInv'
<1> SUFFICES ASSUME CaptureInv, FeedInv, BytesInv, [Next]_vars PROVE BytesInv'
  OBVIOUS
<1>1. CASE Next
  <2>1. CaptureInv'
    BY <1>1, CaptureStep
  <2>2. ASSUME NEW e \in Readable, Reader(e) PROVE BytesInv'
    BY <2>1, <2>2, TaskCounts, CaptureAssumption
  <2> QED BY <1>1, <2>1, <2>2, TaskCounts, RuntimeCounts DEF Next
<1>2. CASE UNCHANGED vars
  BY <1>2 DEF vars, recordVars, runtimeVars, taskVars, BytesInv, Unleased, WithinPolicy,
              Stored, Retained, OverLimit
<1> QED BY <1>1, <1>2

\* BytesInv is invariant, for any number of exchanges and any sizes.
THEOREM BytesInvariant == Spec => []BytesInv
BY BytesInit, BytesNext, CaptureInvariant, FeedInvariant, PTL DEF Spec

\* Both counts of bytes are right: the budget is exactly the sum of the leases
\* that are alive, and the count of stored bytes stays within the policy and
\* below what the records hold (CaptureBudgetLease::drop, CaptureStore).
THEOREM BytesStayAccounted == Spec => []BytesAccounted
<1>1. CaptureInv /\ FeedInv /\ BytesInv => BytesAccounted
  <2> SUFFICES ASSUME CaptureInv, FeedInv, BytesInv PROVE BytesAccounted
    OBVIOUS
  <2>1. BudgetConserved
    BY DEF CaptureInv, BytesInv, BudgetConserved, Total
  <2>2. FeedMatchesStore
    BY DEF FeedInv, Listed, Removing, FeedMatchesStore, Public
  <2>3. RetentionBound
    BY RetainedSum DEF BytesInv, WithinPolicy, RetentionBound
  <2> QED BY <2>1, <2>2, <2>3 DEF BytesAccounted, StoreAccounted
<1> QED BY <1>1, BytesInvariant, CaptureInvariant, FeedInvariant, PTL
=============================================================================
