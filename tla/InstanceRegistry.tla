------------------------- MODULE InstanceRegistry -------------------------
(***************************************************************************)
(* The registry through which brokers find running instances: a directory  *)
(* with one descriptor file per proxy endpoint, an index file naming them, *)
(* one socket file per run, and a mutation lock taken with flock, which    *)
(* the system frees when its holder dies.  Every file operation is a step, *)
(* so a process may be killed between any two of them.                     *)
(*                                                                         *)
(* The proxy port keeps two runs of one host apart, but homes are shared   *)
(* between containers too, so two live runs may want the same endpoint:    *)
(* the probe and the lock have to keep them apart by themselves.           *)
(***************************************************************************)
EXTENDS Integers, FiniteSets

CONSTANTS
    Runs,           \* one life of a proxy process: its run ID is never reused
    Earlier,        \* those of them that were killed before the behaviour starts
    Brokers,        \* processes that discover instances
    Endpoints,
    EndpointOf,     \* Runs -> Endpoints
    None,
    MaxScan,        \* MAX_SCAN_FILES
    MaxFaults       \* bound: kills, failed operations, deadlines of brokers

Actors == Runs \cup Brokers
IndexTemp == "index"    \* .registry-index.tmp

ASSUME RegistryAssumption ==
    /\ EndpointOf \in [Runs -> Endpoints]
    /\ Earlier \subseteq Runs
    /\ None \notin Actors
    /\ Runs \cap Brokers = {}
    /\ IndexTemp \notin Runs
    /\ MaxScan \in Nat \ {0}
    /\ MaxFaults \in Nat

VARIABLES
    lock,           \* who holds the mutation lock
    descriptor,     \* the descriptor file of an endpoint: the run it names
    index,          \* the endpoints whose descriptors the index file names
    sockets,        \* the runs whose socket file exists
    temporaries,    \* leftover temporary files of the instances directory
    serving,        \* the runs whose control socket accepts connections
    published,      \* the publishers whose publish() succeeded
    pc,             \* where a process is
    found,          \* the runs a process has read from descriptors
    stale,          \* those its probes found dead
    names,          \* the index entries it works on: those a scan has still to
                    \* inspect, or those whose descriptor it has removed
    faults

files == <<descriptor, index, sockets, temporaries>>
vars == <<lock, files, serving, published, pc, found, stale, names, faults>>

Present == {e \in Endpoints : descriptor[e] # None}

\* Descriptors that read_descriptor accepts: validate_socket wants the socket.
Valid == {e \in Present : descriptor[e] \in sockets}

Goto(a, where) == pc' = [pc EXCEPT ![a] = where]
Fault == faults < MaxFaults /\ faults' = faults + 1
Lock(a) == lock = None /\ lock' = a
Unlock == lock' = None

\* What a killed run leaves: its descriptor and socket, perhaps no index entry
\* yet, perhaps the temporary file its descriptor was linked from.
Init ==
    /\ lock = None
    /\ descriptor \in [Endpoints -> Earlier \cup {None}]
    /\ \A e \in Endpoints : descriptor[e] # None => EndpointOf[descriptor[e]] = e
    /\ index \in SUBSET Present
    /\ sockets = {descriptor[e] : e \in Present}
    /\ temporaries \in SUBSET sockets
    /\ serving = {} /\ published = {}
    /\ pc = [a \in Actors |-> IF a \in Earlier THEN "gone" ELSE "new"]
    /\ found = [a \in Actors |-> {}]
    /\ stale = [a \in Actors |-> {}]
    /\ names = [a \in Actors |-> {}]
    /\ faults = 0

---------------------------------------------------------------------------
(* What both kinds of process do first: RegistryScanner::initialize.       *)

\* The directory holds the index, the descriptors and what crashes left.
TooManyEntries ==
    \/ 1 + Cardinality(Present) + Cardinality(temporaries) > MaxScan + 2
    \/ Cardinality(Present) > MaxScan

\* reconcile_registry_index: valid descriptors the index misses are added.
\* It writes one file, so the lock it takes is back at the end of the step.
Reconciled == index \cup Valid

Reconcile(a) ==
    /\ pc[a] = "new"
    /\ lock = None
    /\ \/ /\ TooManyEntries \/ Cardinality(Reconciled) > MaxScan
          /\ Goto(a, "gone")
          /\ UNCHANGED index
       \/ /\ ~TooManyEntries /\ Cardinality(Reconciled) <= MaxScan
          /\ index' = Reconciled
          /\ Goto(a, IF a \in Runs THEN "bind" ELSE "idle")
    /\ temporaries' = IF index' # index THEN temporaries \ {IndexTemp}
                                        ELSE temporaries
    /\ UNCHANGED <<lock, descriptor, sockets, serving, published, found, stale,
                   names, faults>>

---------------------------------------------------------------------------
(* A run.                                                                  *)

\* The rest of RegistryPublisher::prepare: the socket is bound and listens.
Bind(r) ==
    /\ pc[r] = "bind"
    /\ sockets' = sockets \cup {r}
    /\ serving' = serving \cup {r}
    /\ Goto(r, "read")
    /\ UNCHANGED <<lock, descriptor, index, temporaries, published, found,
                   stale, names, faults>>

\* publish_after_probe looks, without the lock, who has the endpoint.
ReadEndpoint(r) ==
    /\ pc[r] = "read"
    /\ LET e == EndpointOf[r]
       IN  IF e \in Valid
           THEN /\ found' = [found EXCEPT ![r] = {descriptor[e]}]
                /\ Goto(r, "probe")
           ELSE Goto(r, "publish") /\ UNCHANGED found
    /\ UNCHANGED <<lock, files, serving, published, stale, names, faults>>

\* connect_failure: no socket, or nobody behind it.
MissingSocket(d) == d \notin sockets
DefinitiveStale(d) == d \notin serving

\* Only a refused connection proves the other run dead; an answer is a
\* conflict and any other error ends the start as well.
ProbeExisting(r) ==
    /\ pc[r] = "probe"
    /\ \/ /\ \A d \in found[r] : DefinitiveStale(d)
          /\ stale' = [stale EXCEPT ![r] = found[r]]
          /\ Goto(r, "replace")
       \/ Goto(r, "leave") /\ UNCHANGED stale
    /\ found' = [found EXCEPT ![r] = {}]
    /\ UNCHANGED <<lock, files, serving, published, names, faults>>

\* Still the run that was probed?  The lock is held from here on.
StillThere(d) == EndpointOf[d] \in Present
Unchanged(d) == descriptor[EndpointOf[d]] = d

RemoveDescriptor(a, d) ==
    /\ descriptor' = [descriptor EXCEPT ![EndpointOf[d]] = None]
    /\ names' = [names EXCEPT ![a] = @ \cup {EndpointOf[d]}]

WriteIndex(entries) ==
    /\ index' = entries
    /\ temporaries' = temporaries \ {IndexTemp}

\* remove_stale_for_replacement_if: lock, compare, then three file steps.
RemoveStaleForReplacement(r) ==
    \/ /\ pc[r] = "replace"
       /\ \E d \in stale[r] :
            IF Unchanged(d)
            THEN /\ Lock(r)
                 /\ RemoveDescriptor(r, d)
                 /\ Goto(r, "replace_socket")
            ELSE /\ lock = None
                 /\ Goto(r, "leave")
                 /\ UNCHANGED <<lock, descriptor, names>>
       /\ UNCHANGED <<index, sockets, temporaries, stale>>
    \/ /\ pc[r] = "replace_socket"
       /\ sockets' = sockets \ stale[r]
       /\ stale' = [stale EXCEPT ![r] = {}]
       /\ Goto(r, "replace_index")
       /\ UNCHANGED <<lock, descriptor, index, temporaries, names>>
    \/ /\ pc[r] = "replace_index"
       /\ WriteIndex(index \ names[r])
       /\ names' = [names EXCEPT ![r] = {}]
       /\ Unlock
       /\ Goto(r, "publish")
       /\ UNCHANGED <<descriptor, sockets, stale>>

Replace(r) ==
    /\ RemoveStaleForReplacement(r)
    /\ UNCHANGED <<serving, published, found, faults>>

\* The index a publisher starts from: names without a file are forgotten.
Retained == index \cap Present

MayPublish(r) ==
    /\ EndpointOf[r] \notin Present
    /\ Cardinality(Retained) < MaxScan

\* publish(): a temporary file, a hard link that fails if the name exists,
\* and the index last.
Publish(r) ==
    /\ \/ /\ pc[r] = "publish"
          /\ IF MayPublish(r)
             THEN /\ Lock(r)
                  /\ temporaries' = temporaries \cup {r}
                  /\ Goto(r, "publish_link")
             ELSE /\ lock = None
                  /\ Goto(r, "leave")
                  /\ UNCHANGED <<lock, temporaries>>
          /\ UNCHANGED <<descriptor, index, sockets, published>>
       \/ /\ pc[r] = "publish_link"
          /\ descriptor' = [descriptor EXCEPT ![EndpointOf[r]] = r]
          /\ Goto(r, "publish_unlink")
          /\ UNCHANGED <<lock, index, sockets, temporaries, published>>
       \/ /\ pc[r] = "publish_unlink"
          /\ temporaries' = temporaries \ {r}
          /\ Goto(r, "publish_index")
          /\ UNCHANGED <<lock, descriptor, index, sockets, published>>
       \/ /\ pc[r] = "publish_index"
          /\ WriteIndex(Retained \cup {EndpointOf[r]})
          /\ published' = published \cup {r}
          /\ Unlock
          /\ Goto(r, "running")
          /\ UNCHANGED <<descriptor, sockets>>
    /\ UNCHANGED <<serving, found, stale, names, faults>>

LinkedAtIndex(r) == pc[r] = "publish_index"
Linked(r) == pc[r] \in {"publish_unlink", "publish_index"}

\* A file operation of publish() fails: what it created is taken back.  The
\* index may have been renamed into place before its directory failed to sync.
PublishFails(r) ==
    /\ pc[r] \in {"publish_link", "publish_unlink", "publish_index"}
    /\ Fault
    /\ descriptor' = IF Linked(r)
                     THEN [descriptor EXCEPT ![EndpointOf[r]] = None]
                     ELSE descriptor
    /\ temporaries' = temporaries \ {r}
    /\ \/ UNCHANGED index
       \/ pc[r] = "publish_index" /\ index' = Retained \cup {EndpointOf[r]}
    /\ Unlock
    /\ Goto(r, "leave")
    /\ UNCHANGED <<sockets, serving, published, found, stale, names>>

\* Taking the lock may time out.
StartGivesUp(r) ==
    /\ pc[r] \in {"new", "replace", "publish"}
    /\ lock # None
    /\ Goto(r, IF pc[r] = "new" THEN "gone" ELSE "leave")
    /\ UNCHANGED <<lock, files, serving, published, found, stale, names, faults>>

\* The user quits, or the control service or another one failed: all
\* services are shut down before the publisher is dropped.
Stop(r) ==
    /\ pc[r] \in {"read", "probe", "replace", "publish", "running"}
    /\ Goto(r, "leave")
    /\ UNCHANGED <<lock, files, serving, published, found, stale, names, faults>>

StopServing(r) ==
    /\ pc[r] = "leave"
    /\ serving' = serving \ {r}
    /\ Goto(r, "drop")
    /\ UNCHANGED <<lock, files, published, found, stale, names, faults>>

ControlServiceFails(r) ==
    /\ r \in serving
    /\ Fault
    /\ serving' = serving \ {r}
    /\ UNCHANGED <<lock, files, published, pc, found, stale, names>>

\* Drop of the publisher.  An unpublished one removes its socket only; a
\* published one needs the lock at once or leaves its files behind.
CleanupBestEffort(r) ==
    /\ \/ /\ pc[r] = "drop" /\ r \notin published
          /\ sockets' = sockets \ {r}
          /\ Goto(r, "gone")
          /\ UNCHANGED <<lock, descriptor, index, temporaries, names>>
       \/ /\ pc[r] = "drop" /\ r \in published
          /\ lock # None \/ ~Unchanged(r)
          /\ Goto(r, "gone")
          /\ UNCHANGED <<lock, files, names>>
       \/ /\ pc[r] = "drop" /\ r \in published /\ Unchanged(r)
          /\ Lock(r)
          /\ RemoveDescriptor(r, r)
          /\ Goto(r, "drop_socket")
          /\ UNCHANGED <<index, sockets, temporaries>>
       \/ /\ pc[r] = "drop_socket"
          /\ sockets' = sockets \ {r}
          /\ Goto(r, "drop_index")
          /\ UNCHANGED <<lock, descriptor, index, temporaries, names>>
       \/ /\ pc[r] = "drop_index"
          /\ WriteIndex(index \ names[r])
          /\ names' = [names EXCEPT ![r] = {}]
          /\ Unlock
          /\ Goto(r, "gone")
          /\ UNCHANGED <<descriptor, sockets>>
    /\ UNCHANGED <<serving, published, found, stale, faults>>

---------------------------------------------------------------------------
(* A broker discovers: scan, probe, prune.                                 *)

\* scan_all reads the index and then each descriptor, without the lock.
ScanAll(b) ==
    /\ pc[b] = "idle"
    /\ names' = [names EXCEPT ![b] = index]
    /\ stale' = [stale EXCEPT ![b] = {}]
    /\ found' = [found EXCEPT ![b] = {}]
    /\ Goto(b, "inspect")
    /\ UNCHANGED <<lock, files, serving, published, faults>>

Inspect(b) ==
    /\ pc[b] = "inspect"
    /\ \/ \E e \in names[b] :
            /\ names' = [names EXCEPT ![b] = @ \ {e}]
            /\ found' = IF e \in Valid
                        THEN [found EXCEPT ![b] = @ \cup {descriptor[e]}]
                        ELSE found
            /\ UNCHANGED pc
       \/ /\ names[b] = {}
          /\ Goto(b, "probe")
          /\ UNCHANGED <<names, found>>
    /\ UNCHANGED <<lock, files, serving, published, stale, faults>>

\* probe_scan: refused connections make a batch; the other errors are only
\* reported.
Probe(b) ==
    /\ pc[b] = "probe"
    /\ \/ \E d \in found[b] :
            /\ found' = [found EXCEPT ![b] = @ \ {d}]
            /\ stale' = IF DefinitiveStale(d)
                        THEN [stale EXCEPT ![b] = @ \cup {d}] ELSE stale
            /\ UNCHANGED pc
       \/ /\ found[b] = {}
          /\ Goto(b, IF stale[b] = {} THEN "idle" ELSE "prune")
          /\ UNCHANGED <<found, stale>>
    /\ UNCHANGED <<lock, files, serving, published, names, faults>>

AcquireToPrune(b) ==
    /\ pc[b] = "prune"
    /\ Lock(b)
    /\ Goto(b, "prune_descriptor")
    /\ UNCHANGED <<files, serving, published, found, stale, names, faults>>

\* remove_stale_batch_internal, one entry of the batch at a time.
RemoveStaleBatch(b) ==
    \/ /\ pc[b] = "prune_descriptor"
       /\ \E d \in stale[b] :
            IF Unchanged(d)
            THEN /\ RemoveDescriptor(b, d)
                 /\ found' = [found EXCEPT ![b] = {d}]
                 /\ Goto(b, "prune_socket")
                 /\ UNCHANGED stale
            ELSE /\ stale' = [stale EXCEPT ![b] = @ \ {d}]
                 /\ UNCHANGED <<descriptor, names, found, pc>>
       /\ UNCHANGED sockets
    \/ /\ pc[b] = "prune_socket"
       /\ sockets' = sockets \ found[b]
       /\ stale' = [stale EXCEPT ![b] = @ \ found[b]]
       /\ found' = [found EXCEPT ![b] = {}]
       /\ Goto(b, "prune_descriptor")
       /\ UNCHANGED <<descriptor, names>>

PruneBatch(b) ==
    /\ RemoveStaleBatch(b)
    /\ UNCHANGED <<lock, index, temporaries, serving, published, faults>>

\* The batch is done, or the deadline or a cancellation ended it: a socket
\* may stay behind, never a name of a removed descriptor.
FinishBatch(b) ==
    /\ \/ pc[b] = "prune_descriptor" /\ stale[b] = {} /\ UNCHANGED faults
       \/ pc[b] \in {"prune_descriptor", "prune_socket"} /\ Fault
    /\ IF names[b] = {} THEN UNCHANGED <<index, temporaries>>
                         ELSE WriteIndex(index \ names[b])
    /\ names' = [names EXCEPT ![b] = {}]
    /\ stale' = [stale EXCEPT ![b] = {}]
    /\ found' = [found EXCEPT ![b] = {}]
    /\ Unlock
    /\ Goto(b, "idle")
    /\ UNCHANGED <<descriptor, sockets, serving, published>>

\* The deadline of a call, its cancellation, or the short limit of a cleanup.
BrokerGivesUp(b) ==
    /\ \/ pc[b] \in {"inspect", "probe", "prune"}
       \/ pc[b] = "new" /\ lock # None
    /\ Fault
    /\ Goto(b, IF pc[b] = "new" THEN "gone" ELSE "idle")
    /\ found' = [found EXCEPT ![b] = {}]
    /\ stale' = [stale EXCEPT ![b] = {}]
    /\ names' = [names EXCEPT ![b] = {}]
    /\ UNCHANGED <<lock, files, serving, published>>

---------------------------------------------------------------------------

\* Where a kill may leave the new index half written.
Writing == {"replace_index", "publish_index", "drop_index", "prune_descriptor"}

\* Killed: the system closes its sockets and frees its lock.  A temporary
\* index may be left; a broker is started again by its client.
Kill(a) ==
    /\ pc[a] \notin {"new", "gone"}
    /\ Fault
    /\ serving' = serving \ {a}
    /\ lock' = IF lock = a THEN None ELSE lock
    /\ \/ UNCHANGED temporaries
       \/ pc[a] \in Writing /\ temporaries' = temporaries \cup {IndexTemp}
    /\ Goto(a, IF a \in Runs THEN "gone" ELSE "new")
    /\ found' = [found EXCEPT ![a] = {}]
    /\ stale' = [stale EXCEPT ![a] = {}]
    /\ names' = [names EXCEPT ![a] = {}]
    /\ UNCHANGED <<descriptor, index, sockets, published>>

RunStep(r) ==
    \/ Reconcile(r) \/ Bind(r) \/ ReadEndpoint(r)
    \/ ProbeExisting(r) \/ Replace(r) \/ Publish(r) \/ CleanupBestEffort(r)
    \/ StartGivesUp(r) \/ StopServing(r)

BrokerStep(b) ==
    \/ Reconcile(b) \/ ScanAll(b) \/ Inspect(b)
    \/ Probe(b) \/ AcquireToPrune(b) \/ PruneBatch(b) \/ FinishBatch(b)

Next ==
    \/ \E r \in Runs : RunStep(r) \/ PublishFails(r) \/ Stop(r)
                       \/ ControlServiceFails(r)
    \/ \E b \in Brokers : BrokerStep(b) \/ BrokerGivesUp(b)
    \/ \E a \in Actors : Kill(a)

Spec == Init /\ [][Next]_vars

\* Whoever holds the lock goes on unless it is killed, and discovery is asked
\* for again and again.
Fairness ==
    /\ WF_vars(\E r \in Runs : lock = r /\ RunStep(r))
    /\ \A b \in Brokers : WF_vars(BrokerStep(b))

FairSpec == Spec /\ Fairness

---------------------------------------------------------------------------

Steps ==
    {"new", "bind", "read", "probe", "replace", "replace_socket", "replace_index",
     "publish", "publish_link", "publish_unlink", "publish_index", "running",
     "leave", "drop", "drop_socket", "drop_index", "gone",
     "idle", "inspect", "prune", "prune_descriptor", "prune_socket"}

TypeOK ==
    /\ lock \in Actors \cup {None}
    /\ descriptor \in [Endpoints -> Runs \cup {None}]
    /\ index \subseteq Endpoints
    /\ sockets \subseteq Runs
    /\ temporaries \subseteq Runs \cup {IndexTemp}
    /\ serving \subseteq Runs
    /\ published \subseteq Runs
    /\ pc \in [Actors -> Steps]
    /\ found \in [Actors -> SUBSET Runs]
    /\ stale \in [Actors -> SUBSET Runs]
    /\ names \in [Actors -> SUBSET Endpoints]
    /\ faults \in Nat

\* While a run answers on its control socket, nobody else takes its endpoint
\* from it: what was found dead by a probe may be another run by the time the
\* lock is held (remove_stale_batch_internal, remove_stale_for_replacement).
LiveEntryStays ==
    [][\A e \in Endpoints :
         descriptor[e] \in serving =>
            descriptor'[e] = descriptor[e] \/ lock = descriptor[e]]_vars

\* A running instance can be discovered: its descriptor, its socket and its
\* index entry survive whatever other processes publish, prune, reconcile or
\* leave half done when they are killed.
PublishedIsListed ==
    \A r \in published :
        pc[r] = "running" /\ r \in serving =>
            Unchanged(r) /\ EndpointOf[r] \in index /\ r \in sockets

\* A descriptor never outlives its socket file.  Without the socket it would
\* be rejected and not probed, so nothing would remove it, and publish() would
\* refuse its endpoint for ever.
DescriptorHasSocket == \A e \in Present : descriptor[e] \in sockets

\* The entries of the living are found and those of the dead can be recognised.
EntriesAreUsable == PublishedIsListed /\ DescriptorHasSocket

\* The descriptor of a dead run that discovery can see goes away, although
\* readers and pruners work without the lock for most of the time.
DeadAreForgotten ==
    \A e \in Endpoints :
        (e \in index /\ e \in Present /\ descriptor[e] \notin serving)
            ~> \/ e \notin Present \/ descriptor[e] \in serving
               \/ \A b \in Brokers : pc[b] = "gone"
===========================================================================
