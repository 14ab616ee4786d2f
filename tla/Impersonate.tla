---------------------------- MODULE Impersonate ----------------------------
(***************************************************************************)
(* pilot-load adsc-impersonate: XDS simulations in the name of the pods of *)
(* a live cluster.  One worker handles the keys of pods that changed, by   *)
(* what the informer's store says of them when it gets to the key: it adds *)
(* the replicas of a selected pod, each with a goroutine that runs it, and *)
(* cleans up those of a pod that is gone, without an address, or no longer *)
(* selected.  Cleanup waits for the worker, then cleans up the rest.       *)
(*                                                                         *)
(* The queue (istio's controllers.Queue: one worker, keys queued once, a   *)
(* key that tells when it has synced, what is left handled after the stop) *)
(* and the informer are external.                                          *)
(***************************************************************************)
EXTENDS Execute, Sequences

CONSTANTS
    Keys,        \* pods of the live cluster
    ReplicasOf,  \* of each, its XDS simulations: --replicas of them
    MaxChanges   \* bound: changes of the live cluster

ASSUME ImpersonateAssumption ==
    /\ None \notin Keys /\ IsFiniteSet(Keys)
    /\ ReplicasOf \in [Keys -> Seq(Clients)]
    /\ MaxChanges \in Nat

VARIABLES store,    \* what the informer knows of each pod
          changes,  \* number of changes so far
          queue,    \* keys to handle
          worker,   \* what the worker does: idle, a step on a pod, or "closed"
          known,    \* knownPods
          synced,   \* the queue has synced
          cleaning  \* the replica Cleanup waits for

impersonateVars == <<store, changes, queue, worker, known, synced, cleaning>>

Sync == None  \* the key that the queue adds for itself
Idle == [at |-> "idle", key |-> Sync, r |-> 0]
Replica(w) == ReplicasOf[w.key][w.r]
LastReplica(w) == w.r = Len(ReplicasOf[w.key])
RangeOf(k) == {ReplicasOf[k][r] : r \in DOMAIN ReplicasOf[k]}
PodStates == {"absent", "noIP", "unselected", "selected"}

ImpersonateTypeOK ==
    /\ store \in [Keys -> PodStates] /\ changes \in 0..MaxChanges
    /\ queue \in Seq(Keys \cup {Sync})
    /\ worker \in [at : {"idle", "add", "close", "wait", "closed"},
                   key : Keys \cup {Sync}, r : Nat]
    /\ known \subseteq Keys /\ synced \in BOOLEAN
    /\ cleaning \in {None} \cup Clients

\* Run: the store has synced, every pod is queued, then the queue is started.
ImpersonateInit ==
    /\ store \in [Keys -> {"absent", "selected"}]
    /\ changes = 0
    /\ LET there == {k \in Keys : store[k] # "absent"}
       IN  \E s \in [1..Cardinality(there) -> there] :
              /\ \A k \in there : \E i \in DOMAIN s : s[i] = k
              /\ queue = Append(s, Sync)
    /\ worker = Idle
    /\ known = {}
    /\ synced = FALSE
    /\ cleaning = None

Queued(k) == \E i \in DOMAIN queue : queue[i] = k

\* A pod of the live cluster changes, and its key is queued.
PodChanges ==
    /\ changes < MaxChanges /\ ~ctxDone
    /\ \E k \in Keys : \E s \in PodStates \ {store[k]} :
          /\ store' = [store EXCEPT ![k] = s]
          /\ queue' = IF Queued(k) THEN queue ELSE Append(queue, k)
    /\ changes' = changes + 1
    /\ UNCHANGED <<baseVars, worker, known, synced, cleaning>>

\* WaitForCacheSync of the queue: it has synced, or the context is done.
QueueSynced ==
    /\ synced \/ ctxDone
    /\ RunReturns
    /\ UNCHANGED <<kubeVars, ctxDone, client, impersonateVars>>
-----------------------------------------------------------------------------
(* The worker *)

\* The reconciler: add a selected pod, del any other.
Begin(k) ==
    IF k # Sync /\ store[k] = "selected" /\ k \notin known
    THEN [at |-> "add", key |-> k, r |-> 1]
    ELSE IF k # Sync /\ store[k] # "selected" /\ k \in known
    THEN [at |-> "close", key |-> k, r |-> 1]
    ELSE Idle

Reconcile ==
    /\ worker.at = "idle" /\ queue # <<>>
    /\ worker' = Begin(Head(queue))
    /\ synced' = (synced \/ Head(queue) = Sync)
    /\ queue' = Tail(queue)
    /\ UNCHANGED <<baseVars, store, changes, known, cleaning>>

\* add: one replica, which a goroutine of its own runs later
AddReplica ==
    /\ worker.at = "add"
    /\ MakeClient(Replica(worker))
    /\ IF LastReplica(worker)
       THEN worker' = Idle /\ known' = known \cup {worker.key}
       ELSE worker' = [worker EXCEPT !.r = @ + 1] /\ UNCHANGED known
    /\ UNCHANGED <<kubeVars, phase, ctxDone, store, changes, queue, synced, cleaning>>

\* go xsim.Run(ctx)
ReplicaRuns(c) ==
    /\ client[c] = "made"
    /\ RunClient(c)
    /\ UNCHANGED <<kubeVars, phase, ctxDone, impersonateVars>>

\* del: Simulation.Cleanup of one replica after the other
CloseReplica ==
    /\ worker.at = "close"
    /\ CancelClient(Replica(worker))
    /\ worker' = [worker EXCEPT !.at = "wait"]
    /\ UNCHANGED <<kubeVars, phase, ctxDone, store, changes, queue, known, synced, cleaning>>

\* A slip: the pod stays in knownPods
ReplicaClosedKnown ==
    /\ worker.at = "wait"
    /\ \/ HangsOn(Replica(worker)) /\ UNCHANGED worker
       \/ /\ client[Replica(worker)] = "closed"
          /\ UNCHANGED client
          /\ worker' = IF LastReplica(worker) THEN Idle
                       ELSE [at |-> "close", key |-> worker.key, r |-> worker.r + 1]
    /\ UNCHANGED <<kubeVars, phase, ctxDone, store, changes, queue, known, synced, cleaning>>

\* <-x.done of a replica that has not run yet waits for ever.
ReplicaClosed ==
    /\ worker.at = "wait"
    /\ \/ /\ HangsOn(Replica(worker))
          /\ UNCHANGED <<worker, known>>
       \/ /\ client[Replica(worker)] = "closed"
          /\ UNCHANGED client
          /\ IF LastReplica(worker)
             THEN worker' = Idle /\ known' = known \ {worker.key}
             ELSE worker' = [at |-> "close", key |-> worker.key, r |-> worker.r + 1] /\ UNCHANGED known
    /\ UNCHANGED <<kubeVars, phase, ctxDone, store, changes, queue, synced, cleaning>>

\* The queue is shut down once the context is done, and closes when it is empty.
QueueCloses ==
    /\ worker.at = "idle" /\ queue = <<>> /\ ctxDone
    /\ worker' = [worker EXCEPT !.at = "closed"]
    /\ UNCHANGED <<baseVars, store, changes, queue, known, synced, cleaning>>
-----------------------------------------------------------------------------
(* Cleanup: <-queue.Closed(), then every replica of every known pod *)

Uncleaned(k) == {r \in DOMAIN ReplicasOf[k] : client[ReplicasOf[k][r]] # "nil"}

CleanReplica ==
    /\ phase = "cleaning" /\ worker.at = "closed" /\ cleaning = None
    /\ \E k \in known : \E r \in Uncleaned(k) :
          /\ \A s \in Uncleaned(k) : s >= r
          /\ CancelClient(ReplicasOf[k][r])
          /\ cleaning' = ReplicasOf[k][r]
    /\ UNCHANGED <<kubeVars, phase, ctxDone, store, changes, queue, worker, known, synced>>

\* A replica that has been cleaned up is not looked at again: "nil".
CleanedReplica ==
    /\ cleaning # None
    /\ \/ HangsOn(cleaning) /\ UNCHANGED cleaning
       \/ /\ client[cleaning] = "closed"
          /\ client' = [client EXCEPT ![cleaning] = "nil"]
          /\ cleaning' = None
    /\ UNCHANGED <<kubeVars, phase, ctxDone, store, changes, queue, worker, known, synced>>

ImpersonateExits ==
    /\ worker.at = "closed" /\ cleaning = None
    /\ \A k \in known : Uncleaned(k) = {}
    /\ Exit
    /\ UNCHANGED <<kubeVars, impersonateVars>>
-----------------------------------------------------------------------------
ImpersonateStep(p) ==
    \/ p = "main" /\ (QueueSynced \/ CleanReplica \/ CleanedReplica \/ ImpersonateExits)
    \/ p = "worker" /\ (Reconcile \/ AddReplica \/ CloseReplica \/ ReplicaClosed \/ QueueCloses)

\* The worker waits for a replica that was run after the worker had looked for
\* its cancel function.
Missed == worker.at = "wait" /\ client[Replica(worker)] = "running"

\* The worker has caught up: the selected pods are those with running replicas.
Impersonates ==
    /\ known = {k \in Keys : store[k] = "selected"}
    /\ \A k \in Keys : \A c \in RangeOf(k) : client[c] = "running" <=> k \in known
=============================================================================
