---------------------- MODULE InstanceRegistry_proofs ----------------------
(***************************************************************************)
(* Proofs about InstanceRegistry, for any runs, brokers, endpoints and     *)
(* faults: a run that answers keeps its entry, and whatever is published   *)
(* or left behind stays usable.                                            *)
(***************************************************************************)
EXTENDS InstanceRegistry, TLAPS

(***************************************************************************)
(* What holds between the steps.                                           *)
(***************************************************************************)

\* The steps at which a process holds the mutation lock, and those at which it
\* has removed the descriptors its names stand for.
Removing == {"replace_socket", "replace_index", "drop_socket", "drop_index",
             "prune_descriptor", "prune_socket"}
Linking  == {"publish_link", "publish_unlink", "publish_index"}

LockHeld == \A a \in Actors : lock = a <=> pc[a] \in Removing \cup Linking

\* A run that will not bind its socket or link its descriptor any more.
PastLink == {"publish_unlink", "publish_index", "running", "leave", "drop",
             "drop_socket", "drop_index", "gone"}
Past == {r \in Runs : pc[r] \in PastLink}

\* What a process knows of others from descriptors: runs that are past their
\* link, so that a socket which refused a connection refuses for ever.
KnownArePast ==
  /\ published \subseteq Past
  /\ \A e \in Present : descriptor[e] \in Past /\ EndpointOf[descriptor[e]] = e
  /\ \A a \in Actors : found[a] \cup stale[a] \subseteq Past
StaleAreDead == \A a \in Actors : stale[a] \cap serving = {}
OneProbed ==
  \A r \in Runs : /\ \A c, d \in found[r] : c = d
                  /\ \A c, d \in stale[r] : c = d

\* Who answers, and who has a socket to answer on.
Accepting == \A r \in serving :
                pc[r] \notin {"new", "bind", "drop", "drop_socket", "drop_index", "gone"}
Bound == \A r \in Runs :
           pc[r] \in {"read", "probe", "replace", "replace_socket", "replace_index",
                      "publish", "publish_link"} => r \in sockets

\* What each step may rely on: the endpoint it links is free, the descriptor it
\* has linked is there, and what it has removed is gone.
LinkIsOwned ==
  \A r \in Runs :
    /\ pc[r] = "publish_link" => descriptor[EndpointOf[r]] = None
    /\ pc[r] \in {"publish_unlink", "publish_index"} => Unchanged(r)
    /\ pc[r] = "running" => r \in published
    /\ \/ pc[r] \in {"leave", "drop"} /\ r \notin published
       \/ pc[r] \in {"drop_socket", "drop_index"}
       => ~Unchanged(r)
RemovedIsGone ==
  \A a \in Actors :
    /\ pc[a] \notin Removing \cup {"inspect"} => names[a] = {}
    /\ pc[a] \in Removing => \A e \in names[a] : descriptor[e] = None
    /\ pc[a] = "replace_socket" => \A d \in stale[a] : ~Unchanged(d)
    /\ pc[a] = "prune_socket" => \A d \in found[a] : ~Unchanged(d)

RegistryInv ==
  /\ TypeOK /\ LockHeld /\ KnownArePast /\ StaleAreDead /\ OneProbed
  /\ Accepting /\ Bound /\ LinkIsOwned /\ RemovedIsGone
  /\ PublishedIsListed /\ DescriptorHasSocket

(***************************************************************************)
(* The start and the end of a run.  A conjunct that reads what the action  *)
(* writes has a step of its own; the last step holds the others.           *)
(***************************************************************************)
LEMMA ReconcileKeeps ==
  ASSUME RegistryInv, NEW a \in Actors, Reconcile(a)
  PROVE  RegistryInv'
  <1> USE RegistryAssumption DEF RegistryInv, TypeOK, Actors, Goto, Removing,
      Linking, Past, PastLink, Present, Unchanged, Reconcile, Reconciled, Valid,
      TooManyEntries
  <1>1. TypeOK'
    BY DEF Steps
  <1>2. LockHeld'
    BY DEF LockHeld
  <1>3. KnownArePast'
    BY DEF KnownArePast
  <1>4. Accepting'
    BY DEF Accepting
  <1>5. Bound'
    BY DEF Bound
  <1>6. LinkIsOwned'
    BY DEF LinkIsOwned
  <1>7. RemovedIsGone'
    BY DEF RemovedIsGone
  <1>8. PublishedIsListed'
    BY DEF PublishedIsListed
  <1>9. StaleAreDead' /\ OneProbed' /\ DescriptorHasSocket'
    BY DEF StaleAreDead, OneProbed, DescriptorHasSocket
  <1> QED
    BY <1>1, <1>2, <1>3, <1>4, <1>5, <1>6, <1>7, <1>8, <1>9

LEMMA BindKeeps ==
  ASSUME RegistryInv, NEW r \in Runs, Bind(r)
  PROVE  RegistryInv'
  <1> USE RegistryAssumption DEF RegistryInv, TypeOK, Actors, Goto, Removing,
      Linking, Past, PastLink, Present, Unchanged, Bind
  <1>1. TypeOK'
    BY DEF Steps
  <1>2. LockHeld'
    BY DEF LockHeld
  <1>3. KnownArePast'
    BY DEF KnownArePast
  <1>4. StaleAreDead'
    BY DEF StaleAreDead, KnownArePast
  <1>5. Accepting'
    BY DEF Accepting
  <1>6. Bound'
    BY DEF Bound
  <1>7. LinkIsOwned'
    BY DEF LinkIsOwned
  <1>8. RemovedIsGone'
    BY DEF RemovedIsGone
  <1>9. PublishedIsListed'
    BY DEF PublishedIsListed
  <1>10. DescriptorHasSocket'
    BY DEF DescriptorHasSocket
  <1>11. OneProbed'
    BY DEF OneProbed
  <1> QED
    BY <1>1, <1>2, <1>3, <1>4, <1>5, <1>6, <1>7, <1>8, <1>9, <1>10, <1>11

LEMMA ReadEndpointKeeps ==
  ASSUME RegistryInv, NEW r \in Runs, ReadEndpoint(r)
  PROVE  RegistryInv'
  <1> USE RegistryAssumption DEF RegistryInv, TypeOK, Actors, Goto, Removing,
      Linking, Past, PastLink, Present, Unchanged, ReadEndpoint, Valid, files
  <1>1. TypeOK'
    BY DEF Steps
  <1>2. LockHeld'
    BY DEF LockHeld
  <1>3. KnownArePast'
    BY DEF KnownArePast
  <1>4. OneProbed'
    BY DEF OneProbed
  <1>5. Accepting'
    BY DEF Accepting
  <1>6. Bound'
    BY DEF Bound
  <1>7. LinkIsOwned'
    BY DEF LinkIsOwned
  <1>8. RemovedIsGone'
    BY DEF RemovedIsGone
  <1>9. PublishedIsListed'
    BY DEF PublishedIsListed
  <1>10. StaleAreDead' /\ DescriptorHasSocket'
    BY DEF StaleAreDead, DescriptorHasSocket
  <1> QED
    BY <1>1, <1>2, <1>3, <1>4, <1>5, <1>6, <1>7, <1>8, <1>9, <1>10

LEMMA ProbeExistingKeeps ==
  ASSUME RegistryInv, NEW r \in Runs, ProbeExisting(r)
  PROVE  RegistryInv'
  <1> USE RegistryAssumption DEF RegistryInv, TypeOK, Actors, Goto, Removing,
      Linking, Past, PastLink, Present, Unchanged, ProbeExisting, DefinitiveStale,
      files
  <1>1. TypeOK'
    BY DEF Steps
  <1>2. LockHeld'
    BY DEF LockHeld
  <1>3. KnownArePast'
    BY DEF KnownArePast
  <1>4. StaleAreDead'
    BY DEF StaleAreDead
  <1>5. OneProbed'
    BY DEF OneProbed
  <1>6. Accepting'
    BY DEF Accepting
  <1>7. Bound'
    BY DEF Bound
  <1>8. LinkIsOwned'
    BY DEF LinkIsOwned, KnownArePast
  <1>9. RemovedIsGone'
    BY DEF RemovedIsGone
  <1>10. PublishedIsListed'
    BY DEF PublishedIsListed
  <1>11. DescriptorHasSocket'
    BY DEF DescriptorHasSocket
  <1> QED
    BY <1>1, <1>2, <1>3, <1>4, <1>5, <1>6, <1>7, <1>8, <1>9, <1>10, <1>11

LEMMA ReplaceKeeps ==
  ASSUME RegistryInv, NEW r \in Runs, Replace(r)
  PROVE  RegistryInv'
  <1> USE RegistryAssumption DEF RegistryInv, TypeOK, Actors, Goto, Removing,
      Linking, Past, PastLink, Present, Unchanged, Replace,
      RemoveStaleForReplacement, Lock, Unlock, RemoveDescriptor, WriteIndex
  <1>1. TypeOK'
    BY DEF Steps
  <1>2. LockHeld'
    BY DEF LockHeld
  <1>3. KnownArePast'
    BY DEF KnownArePast
  <1>4. StaleAreDead'
    BY DEF StaleAreDead
  <1>5. OneProbed'
    BY DEF OneProbed
  <1>6. Accepting'
    BY DEF Accepting
  <1>7. Bound'
    BY DEF Bound, KnownArePast
  <1>8. LinkIsOwned'
    BY DEF LinkIsOwned, KnownArePast, LockHeld
  <1>9. RemovedIsGone'
    BY DEF RemovedIsGone, OneProbed
  <1>10. PublishedIsListed'
    BY DEF PublishedIsListed, RemovedIsGone, StaleAreDead
  <1>11. DescriptorHasSocket'
    BY DEF DescriptorHasSocket, KnownArePast, RemovedIsGone
  <1> QED
    BY <1>1, <1>2, <1>3, <1>4, <1>5, <1>6, <1>7, <1>8, <1>9, <1>10, <1>11

LEMMA PublishKeeps ==
  ASSUME RegistryInv, NEW r \in Runs, Publish(r)
  PROVE  RegistryInv'
  <1> USE RegistryAssumption DEF RegistryInv, TypeOK, Actors, Goto, Removing,
      Linking, Past, PastLink, Present, Unchanged, Publish, MayPublish, Retained,
      Lock, Unlock, WriteIndex
  <1>1. TypeOK'
    BY DEF Steps
  <1>2. LockHeld'
    BY DEF LockHeld
  <1>3. KnownArePast'
    BY DEF KnownArePast
  <1>4. Accepting'
    BY DEF Accepting
  <1>5. Bound'
    BY DEF Bound
  <1>6. LinkIsOwned'
    BY DEF LinkIsOwned, KnownArePast, LockHeld
  <1>7. RemovedIsGone'
    BY DEF RemovedIsGone, LockHeld
  <1>8. PublishedIsListed'
    BY DEF PublishedIsListed, LinkIsOwned, DescriptorHasSocket
  <1>9. DescriptorHasSocket'
    BY DEF DescriptorHasSocket, Bound
  <1>10. StaleAreDead' /\ OneProbed'
    BY DEF StaleAreDead, OneProbed
  <1> QED
    BY <1>1, <1>2, <1>3, <1>4, <1>5, <1>6, <1>7, <1>8, <1>9, <1>10

LEMMA PublishFailsKeeps ==
  ASSUME RegistryInv, NEW r \in Runs, PublishFails(r)
  PROVE  RegistryInv'
  <1> USE RegistryAssumption DEF RegistryInv, TypeOK, Actors, Goto, Removing,
      Linking, Past, PastLink, Present, Unchanged, PublishFails, Fault, Linked,
      Retained, Unlock
  <1>1. TypeOK'
    BY DEF Steps
  <1>2. LockHeld'
    BY DEF LockHeld
  <1>3. KnownArePast'
    BY DEF KnownArePast
  <1>4. Accepting'
    BY DEF Accepting
  <1>5. Bound'
    BY DEF Bound
  <1>6. LinkIsOwned'
    BY DEF LinkIsOwned
  <1>7. RemovedIsGone'
    BY DEF RemovedIsGone
  <1>8. PublishedIsListed'
    BY DEF PublishedIsListed, LinkIsOwned
  <1>9. DescriptorHasSocket'
    BY DEF DescriptorHasSocket
  <1>10. StaleAreDead' /\ OneProbed'
    BY DEF StaleAreDead, OneProbed
  <1> QED
    BY <1>1, <1>2, <1>3, <1>4, <1>5, <1>6, <1>7, <1>8, <1>9, <1>10

LEMMA CleanupBestEffortKeeps ==
  ASSUME RegistryInv, NEW r \in Runs, CleanupBestEffort(r)
  PROVE  RegistryInv'
  <1> USE RegistryAssumption DEF RegistryInv, TypeOK, Actors, Goto, Removing,
      Linking, Past, PastLink, Present, Unchanged, CleanupBestEffort, Lock, Unlock,
      RemoveDescriptor, WriteIndex, files
  <1>1. TypeOK'
    BY DEF Steps
  <1>2. LockHeld'
    BY DEF LockHeld
  <1>3. KnownArePast'
    BY DEF KnownArePast
  <1>4. Accepting'
    BY DEF Accepting
  <1>5. Bound'
    BY DEF Bound
  <1>6. LinkIsOwned'
    BY DEF LinkIsOwned
  <1>7. RemovedIsGone'
    BY DEF RemovedIsGone
  <1>8. PublishedIsListed'
    BY DEF PublishedIsListed, RemovedIsGone
  <1>9. DescriptorHasSocket'
    BY DEF DescriptorHasSocket, KnownArePast, LinkIsOwned
  <1>10. StaleAreDead' /\ OneProbed'
    BY DEF StaleAreDead, OneProbed
  <1> QED
    BY <1>1, <1>2, <1>3, <1>4, <1>5, <1>6, <1>7, <1>8, <1>9, <1>10

LEMMA StartGivesUpKeeps ==
  ASSUME RegistryInv, NEW r \in Runs, StartGivesUp(r)
  PROVE  RegistryInv'
  <1> USE RegistryAssumption DEF RegistryInv, TypeOK, Actors, Goto, Removing,
      Linking, Past, PastLink, Present, Unchanged, StartGivesUp, files
  <1>1. TypeOK'
    BY DEF Steps
  <1>2. LockHeld'
    BY DEF LockHeld
  <1>3. KnownArePast'
    BY DEF KnownArePast
  <1>4. Accepting'
    BY DEF Accepting
  <1>5. Bound'
    BY DEF Bound
  <1>6. LinkIsOwned'
    BY DEF LinkIsOwned, KnownArePast
  <1>7. RemovedIsGone'
    BY DEF RemovedIsGone
  <1>8. PublishedIsListed'
    BY DEF PublishedIsListed
  <1>9. StaleAreDead' /\ OneProbed' /\ DescriptorHasSocket'
    BY DEF StaleAreDead, OneProbed, DescriptorHasSocket
  <1> QED
    BY <1>1, <1>2, <1>3, <1>4, <1>5, <1>6, <1>7, <1>8, <1>9

LEMMA StopKeeps ==
  ASSUME RegistryInv, NEW r \in Runs, Stop(r)
  PROVE  RegistryInv'
  <1> USE RegistryAssumption DEF RegistryInv, TypeOK, Actors, Goto, Removing,
      Linking, Past, PastLink, Present, Unchanged, Stop, files
  <1>1. TypeOK'
    BY DEF Steps
  <1>2. LockHeld'
    BY DEF LockHeld
  <1>3. KnownArePast'
    BY DEF KnownArePast
  <1>4. Accepting'
    BY DEF Accepting
  <1>5. Bound'
    BY DEF Bound
  <1>6. LinkIsOwned'
    BY DEF LinkIsOwned, KnownArePast
  <1>7. RemovedIsGone'
    BY DEF RemovedIsGone
  <1>8. PublishedIsListed'
    BY DEF PublishedIsListed
  <1>9. StaleAreDead' /\ OneProbed' /\ DescriptorHasSocket'
    BY DEF StaleAreDead, OneProbed, DescriptorHasSocket
  <1> QED
    BY <1>1, <1>2, <1>3, <1>4, <1>5, <1>6, <1>7, <1>8, <1>9

LEMMA StopServingKeeps ==
  ASSUME RegistryInv, NEW r \in Runs, StopServing(r)
  PROVE  RegistryInv'
  <1> USE RegistryAssumption DEF RegistryInv, TypeOK, Actors, Goto, Removing,
      Linking, Past, PastLink, Present, Unchanged, StopServing, files
  <1>1. TypeOK'
    BY DEF Steps
  <1>2. LockHeld'
    BY DEF LockHeld
  <1>3. KnownArePast'
    BY DEF KnownArePast
  <1>4. StaleAreDead'
    BY DEF StaleAreDead
  <1>5. Accepting'
    BY DEF Accepting
  <1>6. Bound'
    BY DEF Bound
  <1>7. LinkIsOwned'
    BY DEF LinkIsOwned
  <1>8. RemovedIsGone'
    BY DEF RemovedIsGone
  <1>9. PublishedIsListed'
    BY DEF PublishedIsListed
  <1>10. OneProbed' /\ DescriptorHasSocket'
    BY DEF OneProbed, DescriptorHasSocket
  <1> QED
    BY <1>1, <1>2, <1>3, <1>4, <1>5, <1>6, <1>7, <1>8, <1>9, <1>10

LEMMA ControlServiceFailsKeeps ==
  ASSUME RegistryInv, NEW r \in Runs, ControlServiceFails(r)
  PROVE  RegistryInv'
  <1> USE RegistryAssumption DEF RegistryInv, TypeOK, Actors, Goto, Removing,
      Linking, Past, PastLink, Present, Unchanged, ControlServiceFails, Fault, files
  <1>1. TypeOK'
    BY DEF Steps
  <1>2. StaleAreDead'
    BY DEF StaleAreDead
  <1>3. Accepting'
    BY DEF Accepting
  <1>4. PublishedIsListed'
    BY DEF PublishedIsListed
  <1>5. LockHeld' /\ KnownArePast' /\ OneProbed' /\ Bound' /\ LinkIsOwned' /\
      RemovedIsGone' /\ DescriptorHasSocket'
    BY DEF LockHeld, KnownArePast, OneProbed, Bound, LinkIsOwned, RemovedIsGone,
           DescriptorHasSocket
  <1> QED
    BY <1>1, <1>2, <1>3, <1>4, <1>5

(***************************************************************************)
(* The brokers, and whoever is killed.                                     *)
(***************************************************************************)
LEMMA ScanAllKeeps ==
  ASSUME RegistryInv, NEW b \in Brokers, ScanAll(b)
  PROVE  RegistryInv'
  <1> USE RegistryAssumption DEF RegistryInv, TypeOK, Actors, Goto, Removing,
      Linking, Past, PastLink, Present, Unchanged, ScanAll, files
  <1>1. TypeOK'
    BY DEF Steps
  <1>2. LockHeld'
    BY DEF LockHeld
  <1>3. KnownArePast'
    BY DEF KnownArePast
  <1>4. StaleAreDead'
    BY DEF StaleAreDead
  <1>5. OneProbed'
    BY DEF OneProbed
  <1>6. Accepting'
    BY DEF Accepting
  <1>7. Bound'
    BY DEF Bound
  <1>8. LinkIsOwned'
    BY DEF LinkIsOwned
  <1>9. RemovedIsGone'
    BY DEF RemovedIsGone
  <1>10. PublishedIsListed'
    BY DEF PublishedIsListed
  <1>11. DescriptorHasSocket'
    BY DEF DescriptorHasSocket
  <1> QED
    BY <1>1, <1>2, <1>3, <1>4, <1>5, <1>6, <1>7, <1>8, <1>9, <1>10, <1>11

LEMMA InspectKeeps ==
  ASSUME RegistryInv, NEW b \in Brokers, Inspect(b)
  PROVE  RegistryInv'
  <1> USE RegistryAssumption DEF RegistryInv, TypeOK, Actors, Goto, Removing,
      Linking, Past, PastLink, Present, Unchanged, Inspect, Valid, files
  <1>1. TypeOK'
    BY DEF Steps
  <1>2. LockHeld'
    BY DEF LockHeld
  <1>3. KnownArePast'
    BY DEF KnownArePast
  <1>4. OneProbed'
    BY DEF OneProbed
  <1>5. Accepting'
    BY DEF Accepting
  <1>6. Bound'
    BY DEF Bound
  <1>7. LinkIsOwned'
    BY DEF LinkIsOwned
  <1>8. RemovedIsGone'
    BY DEF RemovedIsGone
  <1>9. PublishedIsListed'
    BY DEF PublishedIsListed
  <1>10. StaleAreDead' /\ DescriptorHasSocket'
    BY DEF StaleAreDead, DescriptorHasSocket
  <1> QED
    BY <1>1, <1>2, <1>3, <1>4, <1>5, <1>6, <1>7, <1>8, <1>9, <1>10

LEMMA ProbeKeeps ==
  ASSUME RegistryInv, NEW b \in Brokers, Probe(b)
  PROVE  RegistryInv'
  <1> USE RegistryAssumption DEF RegistryInv, TypeOK, Actors, Goto, Removing,
      Linking, Past, PastLink, Present, Unchanged, Probe, DefinitiveStale, files
  <1>1. TypeOK'
    BY DEF Steps
  <1>2. LockHeld'
    BY DEF LockHeld
  <1>3. KnownArePast'
    BY DEF KnownArePast
  <1>4. StaleAreDead'
    BY DEF StaleAreDead
  <1>5. OneProbed'
    BY DEF OneProbed
  <1>6. Accepting'
    BY DEF Accepting
  <1>7. Bound'
    BY DEF Bound
  <1>8. LinkIsOwned'
    BY DEF LinkIsOwned
  <1>9. RemovedIsGone'
    BY DEF RemovedIsGone
  <1>10. PublishedIsListed'
    BY DEF PublishedIsListed
  <1>11. DescriptorHasSocket'
    BY DEF DescriptorHasSocket
  <1> QED
    BY <1>1, <1>2, <1>3, <1>4, <1>5, <1>6, <1>7, <1>8, <1>9, <1>10, <1>11

LEMMA AcquireToPruneKeeps ==
  ASSUME RegistryInv, NEW b \in Brokers, AcquireToPrune(b)
  PROVE  RegistryInv'
  <1> USE RegistryAssumption DEF RegistryInv, TypeOK, Actors, Goto, Removing,
      Linking, Past, PastLink, Present, Unchanged, AcquireToPrune, Lock, files
  <1>1. TypeOK'
    BY DEF Steps
  <1>2. LockHeld'
    BY DEF LockHeld
  <1>3. KnownArePast'
    BY DEF KnownArePast
  <1>4. Accepting'
    BY DEF Accepting
  <1>5. Bound'
    BY DEF Bound
  <1>6. LinkIsOwned'
    BY DEF LinkIsOwned
  <1>7. RemovedIsGone'
    BY DEF RemovedIsGone
  <1>8. PublishedIsListed'
    BY DEF PublishedIsListed
  <1>9. StaleAreDead' /\ OneProbed' /\ DescriptorHasSocket'
    BY DEF StaleAreDead, OneProbed, DescriptorHasSocket
  <1> QED
    BY <1>1, <1>2, <1>3, <1>4, <1>5, <1>6, <1>7, <1>8, <1>9

LEMMA PruneBatchKeeps ==
  ASSUME RegistryInv, NEW b \in Brokers, PruneBatch(b)
  PROVE  RegistryInv'
  <1> USE RegistryAssumption DEF RegistryInv, TypeOK, Actors, Goto, Removing,
      Linking, Past, PastLink, Present, Unchanged, PruneBatch, RemoveStaleBatch,
      RemoveDescriptor
  <1>1. TypeOK'
    BY DEF Steps
  <1>2. LockHeld'
    BY DEF LockHeld
  <1>3. KnownArePast'
    BY DEF KnownArePast
  <1>4. StaleAreDead'
    BY DEF StaleAreDead
  <1>5. OneProbed'
    BY DEF OneProbed
  <1>6. Accepting'
    BY DEF Accepting
  <1>7. Bound'
    BY DEF Bound, KnownArePast
  <1>8. LinkIsOwned'
    BY DEF LinkIsOwned, LockHeld
  <1>9. RemovedIsGone'
    BY DEF RemovedIsGone
  <1>10. PublishedIsListed'
    BY DEF PublishedIsListed, RemovedIsGone, StaleAreDead
  <1>11. DescriptorHasSocket'
    BY DEF DescriptorHasSocket, KnownArePast, RemovedIsGone
  <1> QED
    BY <1>1, <1>2, <1>3, <1>4, <1>5, <1>6, <1>7, <1>8, <1>9, <1>10, <1>11

LEMMA FinishBatchKeeps ==
  ASSUME RegistryInv, NEW b \in Brokers, FinishBatch(b)
  PROVE  RegistryInv'
  <1> USE RegistryAssumption DEF RegistryInv, TypeOK, Actors, Goto, Removing,
      Linking, Past, PastLink, Present, Unchanged, FinishBatch, Fault, WriteIndex,
      Unlock
  <1>1. TypeOK'
    BY DEF Steps
  <1>2. LockHeld'
    BY DEF LockHeld
  <1>3. KnownArePast'
    BY DEF KnownArePast
  <1>4. StaleAreDead'
    BY DEF StaleAreDead
  <1>5. OneProbed'
    BY DEF OneProbed
  <1>6. Accepting'
    BY DEF Accepting
  <1>7. Bound'
    BY DEF Bound
  <1>8. LinkIsOwned'
    BY DEF LinkIsOwned
  <1>9. RemovedIsGone'
    BY DEF RemovedIsGone
  <1>10. PublishedIsListed'
    BY DEF PublishedIsListed, RemovedIsGone
  <1>11. DescriptorHasSocket'
    BY DEF DescriptorHasSocket
  <1> QED
    BY <1>1, <1>2, <1>3, <1>4, <1>5, <1>6, <1>7, <1>8, <1>9, <1>10, <1>11

LEMMA BrokerGivesUpKeeps ==
  ASSUME RegistryInv, NEW b \in Brokers, BrokerGivesUp(b)
  PROVE  RegistryInv'
  <1> USE RegistryAssumption DEF RegistryInv, TypeOK, Actors, Goto, Removing,
      Linking, Past, PastLink, Present, Unchanged, BrokerGivesUp, Fault, files
  <1>1. TypeOK'
    BY DEF Steps
  <1>2. LockHeld'
    BY DEF LockHeld
  <1>3. KnownArePast'
    BY DEF KnownArePast
  <1>4. StaleAreDead'
    BY DEF StaleAreDead
  <1>5. OneProbed'
    BY DEF OneProbed
  <1>6. Accepting'
    BY DEF Accepting
  <1>7. Bound'
    BY DEF Bound
  <1>8. LinkIsOwned'
    BY DEF LinkIsOwned
  <1>9. RemovedIsGone'
    BY DEF RemovedIsGone
  <1>10. PublishedIsListed'
    BY DEF PublishedIsListed
  <1>11. DescriptorHasSocket'
    BY DEF DescriptorHasSocket
  <1> QED
    BY <1>1, <1>2, <1>3, <1>4, <1>5, <1>6, <1>7, <1>8, <1>9, <1>10, <1>11

LEMMA KillKeeps ==
  ASSUME RegistryInv, NEW a \in Actors, Kill(a)
  PROVE  RegistryInv'
  <1> USE RegistryAssumption DEF RegistryInv, TypeOK, Actors, Goto, Removing,
      Linking, Past, PastLink, Present, Unchanged, Kill, Fault
  <1>1. TypeOK'
    BY DEF Steps
  <1>2. LockHeld'
    BY DEF LockHeld
  <1>3. KnownArePast'
    BY DEF KnownArePast
  <1>4. StaleAreDead'
    BY DEF StaleAreDead
  <1>5. OneProbed'
    BY DEF OneProbed
  <1>6. Accepting'
    BY DEF Accepting
  <1>7. Bound'
    BY DEF Bound
  <1>8. LinkIsOwned'
    BY DEF LinkIsOwned
  <1>9. RemovedIsGone'
    BY DEF RemovedIsGone
  <1>10. PublishedIsListed'
    BY DEF PublishedIsListed
  <1>11. DescriptorHasSocket'
    BY DEF DescriptorHasSocket
  <1> QED
    BY <1>1, <1>2, <1>3, <1>4, <1>5, <1>6, <1>7, <1>8, <1>9, <1>10, <1>11

(***************************************************************************)
(* The theorems.                                                           *)
(***************************************************************************)
LEMMA RegistryInit == Init => RegistryInv
  BY RegistryAssumption
  DEF Init, RegistryInv, TypeOK, Steps, LockHeld, KnownArePast, Past, PastLink, Present,
      StaleAreDead, OneProbed, Accepting, Bound, LinkIsOwned, RemovedIsGone, Unchanged,
      PublishedIsListed, DescriptorHasSocket, Actors, Removing, Linking

LEMMA RegistryStep ==
  ASSUME RegistryInv, [Next]_vars
  PROVE  RegistryInv'
  <1>1. CASE UNCHANGED vars
    BY <1>1
    DEF vars, files, RegistryInv, TypeOK, LockHeld, KnownArePast, Past, PastLink, Present,
        StaleAreDead, OneProbed, Accepting, Bound, LinkIsOwned, RemovedIsGone, Unchanged,
        PublishedIsListed, DescriptorHasSocket
  <1>2. ASSUME NEW r \in Runs,
               RunStep(r) \/ PublishFails(r) \/ Stop(r) \/ ControlServiceFails(r)
        PROVE  RegistryInv'
    BY <1>2, ReconcileKeeps, BindKeeps, ReadEndpointKeeps, ProbeExistingKeeps, ReplaceKeeps,
       PublishKeeps, CleanupBestEffortKeeps, StartGivesUpKeeps, StopServingKeeps,
       PublishFailsKeeps, StopKeeps, ControlServiceFailsKeeps
    DEF RunStep, Actors
  <1>3. ASSUME NEW b \in Brokers, BrokerStep(b) \/ BrokerGivesUp(b)
        PROVE  RegistryInv'
    BY <1>3, ReconcileKeeps, ScanAllKeeps, InspectKeeps, ProbeKeeps, AcquireToPruneKeeps,
       PruneBatchKeeps, FinishBatchKeeps, BrokerGivesUpKeeps
    DEF BrokerStep, Actors
  <1>4. ASSUME NEW a \in Actors, Kill(a)
        PROVE  RegistryInv'
    BY <1>4, KillKeeps
  <1> QED
    BY <1>1, <1>2, <1>3, <1>4 DEF Next

\* RegistryInv is invariant: who holds the lock, which runs a process may know
\* of, and what each step of replace, publish, drop and prune relies on.
THEOREM RegistryInvariant == Spec => []RegistryInv
  BY RegistryInit, RegistryStep, PTL DEF Spec

\* A running instance stays listed, with its descriptor and its socket, and no
\* descriptor outlives its socket file, whatever the others publish, replace,
\* prune and reconcile and wherever they are killed (registry.rs).
THEOREM EntriesStayUsable == Spec => []EntriesAreUsable
  <1>1. RegistryInv => EntriesAreUsable
    BY DEF RegistryInv, EntriesAreUsable
  <1> QED
    BY <1>1, RegistryInvariant, PTL

\* Only five actions write a descriptor; none takes the place of a run that
\* answers, unless that run itself holds the lock.
LEMMA LiveEntryStep ==
  ASSUME RegistryInv, Next, NEW e \in Endpoints, descriptor[e] \in serving
  PROVE  descriptor'[e] = descriptor[e] \/ lock = descriptor[e]
  <1> USE RegistryAssumption DEF RegistryInv, TypeOK, Unchanged, Goto
  <1>1. ASSUME NEW r \in Runs, Replace(r)
        PROVE  descriptor'[e] = descriptor[e]
    BY <1>1 DEF Replace, RemoveStaleForReplacement, RemoveDescriptor, StaleAreDead, Actors
  <1>2. ASSUME NEW r \in Runs, Publish(r)
        PROVE  descriptor'[e] = descriptor[e]
    BY <1>2 DEF Publish, LinkIsOwned, Actors
  <1>3. ASSUME NEW r \in Runs, PublishFails(r)
        PROVE  descriptor'[e] = descriptor[e] \/ lock = descriptor[e]
    BY <1>3 DEF PublishFails, Linked, LinkIsOwned, LockHeld, Linking, Removing, Actors
  <1>4. ASSUME NEW r \in Runs, CleanupBestEffort(r)
        PROVE  descriptor'[e] = descriptor[e]
    BY <1>4 DEF CleanupBestEffort, RemoveDescriptor, Accepting, files
  <1>5. ASSUME NEW b \in Brokers, PruneBatch(b)
        PROVE  descriptor'[e] = descriptor[e]
    BY <1>5 DEF PruneBatch, RemoveStaleBatch, RemoveDescriptor, StaleAreDead, Actors
  <1>6. \/ \E r \in Runs : \/ Replace(r) \/ Publish(r) \/ PublishFails(r)
                           \/ CleanupBestEffort(r)
        \/ \E b \in Brokers : PruneBatch(b)
        \/ UNCHANGED descriptor
    BY DEF Next, RunStep, BrokerStep, Reconcile, Bind, ReadEndpoint, ProbeExisting,
           StartGivesUp, Stop, StopServing, ControlServiceFails, ScanAll, Inspect, Probe,
           AcquireToPrune, FinishBatch, BrokerGivesUp, Kill, files
  <1> QED
    BY <1>1, <1>2, <1>3, <1>4, <1>5, <1>6

\* While a run answers on its control socket nobody takes its endpoint: what a
\* probe found dead stays dead, although the lock is taken only afterwards
\* (remove_stale_batch_internal, remove_stale_for_replacement).
THEOREM LiveEntriesStay == Spec => LiveEntryStays
  <1>1. RegistryInv /\ [Next]_vars =>
          [\A e \in Endpoints :
             descriptor[e] \in serving =>
               descriptor'[e] = descriptor[e] \/ lock = descriptor[e]]_vars
    BY LiveEntryStep
  <1> QED
    BY <1>1, RegistryInvariant, PTL DEF Spec, LiveEntryStays
===========================================================================
