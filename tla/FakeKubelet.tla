---------------------------- MODULE FakeKubelet ----------------------------
(***************************************************************************)
(* sims/cluster/cluster.go, watchPods: the simulated kubelet.  It watches  *)
(* the pods of the cluster and marks those bound to a fake node as running *)
(* with an address of their own, and asks once more for the deletion of    *)
(* those being deleted.                                                    *)
(*                                                                         *)
(* The API server and the informer are external.  A pod has a resource     *)
(* version that every write moves; the informer sees the versions of a pod *)
(* in order and late; a status write carries the version it was made from  *)
(* and is refused when the pod has moved on.  A request may also fail by   *)
(* itself, before or after it took effect.                                 *)
(***************************************************************************)
EXTENDS PodQueue

CONSTANTS Ours,       \* the keys whose pods select a fake node
          MaxWrites,  \* bound: the writes of others to each key
          MaxFaults,  \* bound: requests that fail for no reason of their own
          NoPod       \* no pod of that name

\* A pod: its version, whether it has a node, whether it is being deleted, and
\* its address: 0 for none; GetIP never returns the same one again, so the
\* version of the write that set it stands for it.  A pod with an address is
\* in phase Running.
Pod == [rv : Nat, node : BOOLEAN, deleting : BOOLEAN, ip : Nat]

ASSUME FakeKubeletAssumption ==
    /\ Ours \subseteq Keys
    /\ MaxWrites \in [Keys -> Nat]
    /\ MaxFaults \in Nat
    /\ NoPod \notin Pod

PodOrNone == Pod \cup {NoPod}

VARIABLES
    api,     \* the API server: the pod of each key
    version, \* the last version the API server gave out for each key
    watch,   \* the versions of each pod the informer has yet to see
    store,   \* the informer's store, which pods.Get reads
    step,    \* where the reconciler a worker runs is
    pod,     \* the pod that reconciler read
    faults,  \* how many requests have failed
    givenUp  \* history: keys whose last retry was spent on such a failure

clusterVars == <<api, version, watch, store>>
workVars == <<step, pod, faults, givenUp>>
kubeletVars == <<queueVars, clusterVars, workVars>>

KubeletInit ==
    /\ QueueInit
    /\ api = [k \in Keys |-> NoPod]
    /\ version = [k \in Keys |-> 0]
    /\ watch = [k \in Keys |-> <<>>]
    /\ store = [k \in Keys |-> NoPod]
    /\ step = [w \in Workers |-> "get"]
    /\ pod = [w \in Workers |-> NoPod]
    /\ faults = 0
    /\ givenUp = {}
-----------------------------------------------------------------------------
(* The API server, and what others do to the pods *)

\* A write makes p the pod of key k, under the next version.
Write(k, p) ==
    /\ version' = [version EXCEPT ![k] = @ + 1]
    /\ LET new == IF p = NoPod THEN NoPod ELSE [p EXCEPT !.rv = version[k] + 1]
       IN  /\ api' = [api EXCEPT ![k] = new]
           /\ watch' = [watch EXCEPT ![k] = Append(@, new)]
    /\ UNCHANGED store

\* Somebody else writes the pod of k.
OtherWrite(k, p) ==
    /\ version[k] < MaxWrites[k]
    /\ Write(k, p)
    /\ UNCHANGED <<queueVars, workVars>>

\* app.Pod creates its pods bound, podstartup leaves it to the scheduler.
Create(k) ==
    /\ api[k] = NoPod
    /\ \E bound \in BOOLEAN :
          OtherWrite(k, [rv |-> 0, node |-> bound, deleting |-> FALSE, ip |-> 0])

Bind(k) ==
    /\ api[k] # NoPod
    /\ ~api[k].node
    /\ ~api[k].deleting
    /\ OtherWrite(k, [api[k] EXCEPT !.node = TRUE])

\* Another controller changes the pod's metadata.
Touch(k) ==
    /\ api[k] # NoPod
    /\ OtherWrite(k, api[k])

\* A deletion with a grace period, or of a pod with finalizers, marks the pod;
\* one without removes it, also when it was marked before.
Terminate(k) ==
    /\ api[k] # NoPod
    /\ ~api[k].deleting
    /\ OtherWrite(k, [api[k] EXCEPT !.deleting = TRUE])

Remove(k) ==
    /\ api[k] # NoPod
    /\ OtherWrite(k, NoPod)

\* The informer sees the next version and calls the event handler, which adds
\* the key.
Observe(k) ==
    /\ watch[k] # <<>>
    /\ store' = [store EXCEPT ![k] = Head(watch[k])]
    /\ watch' = [watch EXCEPT ![k] = Tail(@)]
    /\ Add(k)
    /\ UNCHANGED <<api, version, workVars>>
-----------------------------------------------------------------------------
(* Slips *)

\* the status is written without the version it was made from
StatusConflictIgnored(k, p) == api[k] = NoPod

\* the node is not looked at
NeedsRunningUnbound(p) == p # NoPod /\ ~p.deleting /\ p.ip = 0

\* the error of the status write is dropped
RequestFailsSilently(w) ==
    /\ step[w] \in {"status", "delete"}
    /\ faults < MaxFaults
    /\ faults' = faults + 1
    /\ step' = [step EXCEPT ![w] = "get"]
    /\ Succeed(w)
    /\ UNCHANGED <<clusterVars, pod, givenUp>>
-----------------------------------------------------------------------------
(* The reconciler, run by worker w for the key it holds *)

\* A pod that has a node and no address yet.
NeedsRunning(p) == p # NoPod /\ ~p.deleting /\ p.ip = 0 /\ p.node

NeedsDelete(p) == p # NoPod /\ p.deleting

\* processNextItem hands the key to the reconciler, which reads the store.
Reconcile(w) ==
    /\ step[w] = "get"
    /\ held[w] \in Keys
    /\ LET p == IF held[w] \in Ours THEN store[held[w]] ELSE NoPod
       IN  /\ pod' = [pod EXCEPT ![w] = p]
           /\ step' = [step EXCEPT ![w] =
                          IF NeedsDelete(p) THEN "delete"
                          ELSE IF NeedsRunning(p) THEN "status"
                          ELSE "nothing"]
    /\ UNCHANGED <<queueVars, clusterVars, faults, givenUp>>

\* not our pod, gone, running, or not yet scheduled
ReconcileNothing(w) ==
    /\ step[w] = "nothing"
    /\ step' = [step EXCEPT ![w] = "get"]
    /\ Succeed(w)
    /\ UNCHANGED <<clusterVars, pod, faults, givenUp>>

\* A server-side apply that names a version is refused when the pod has
\* another one, or is gone.
StatusConflict(k, p) == ~(api[k] # NoPod /\ api[k].rv = p.rv)

StatusEffect(k) == Write(k, [api[k] EXCEPT !.ip = version[k] + 1])

\* ApplyStatusRealSSA succeeds.
StatusApplied(w) ==
    /\ step[w] = "status"
    /\ ~StatusConflict(held[w], pod[w])
    /\ StatusEffect(held[w])
    /\ step' = [step EXCEPT ![w] = "get"]
    /\ Succeed(w)
    /\ UNCHANGED <<pod, faults, givenUp>>

StatusRefused(w) ==
    /\ step[w] = "status"
    /\ StatusConflict(held[w], pod[w])
    /\ step' = [step EXCEPT ![w] = "get"]
    /\ Fail(w)
    /\ UNCHANGED <<clusterVars, pod, faults, givenUp>>

\* pods.Delete, by name alone and without options; a pod not found is no error.
\* The API server ignores it while a deletion is pending: only a grace period
\* of 0 would cut that short.  A pod created under the name since is removed,
\* or marked if it has a grace period or finalizers.
DeleteEffect(k) ==
    IF api[k] = NoPod \/ api[k].deleting
    THEN UNCHANGED clusterVars
    ELSE Write(k, NoPod) \/ Write(k, [api[k] EXCEPT !.deleting = TRUE])

Deleted(w) ==
    /\ step[w] = "delete"
    /\ DeleteEffect(held[w])
    /\ step' = [step EXCEPT ![w] = "get"]
    /\ Succeed(w)
    /\ UNCHANGED <<pod, faults, givenUp>>

FaultCounted(w) ==
    /\ faults < MaxFaults
    /\ faults' = faults + 1
    /\ givenUp' = IF RetriesLeft(held[w]) THEN givenUp
                  ELSE givenUp \cup {held[w]}

\* The request never reached the API server, or was turned down.
RequestFails(w) ==
    /\ step[w] \in {"status", "delete"}
    /\ FaultCounted(w)
    /\ step' = [step EXCEPT ![w] = "get"]
    /\ Fail(w)
    /\ UNCHANGED <<clusterVars, pod>>

\* The request took effect, and its answer was lost.
AnswerLost(w) ==
    /\ \/ /\ step[w] = "status"
          /\ ~StatusConflict(held[w], pod[w])
          /\ StatusEffect(held[w])
       \/ /\ step[w] = "delete"
          /\ DeleteEffect(held[w])
    /\ FaultCounted(w)
    /\ step' = [step EXCEPT ![w] = "get"]
    /\ Fail(w)
    /\ UNCHANGED pod
-----------------------------------------------------------------------------
Worker(w) ==
    \/ (Get(w) \/ Quit(w) \/ SignalSynced(w)) /\ UNCHANGED <<clusterVars, workVars>>
    \/ Reconcile(w)
    \/ ReconcileNothing(w)
    \/ StatusApplied(w)
    \/ StatusRefused(w)
    \/ Deleted(w)

Fault(w) == RequestFails(w) \/ AnswerLost(w)

Environment(k) == Create(k) \/ Bind(k) \/ Touch(k) \/ Terminate(k) \/ Remove(k)

Timer(k) == DelayOver(k) /\ UNCHANGED <<clusterVars, workVars>>

KubeletNext ==
    \/ \E k \in Keys : Environment(k) \/ Observe(k) \/ Timer(k)
    \/ \E w \in Workers : Worker(w) \/ Fault(w)
    \/ (RunQueue \/ StopQueue) /\ UNCHANGED <<clusterVars, workVars>>

KubeletSpec == KubeletInit /\ [][KubeletNext]_kubeletVars

\* The queue is run, the goroutines go on, the informer catches up and timers
\* fire.  A request is answered, and faults are bounded, so that a worker that
\* keeps trying gets through; nobody has to create or change a pod.
KubeletFairness ==
    /\ WF_kubeletVars(RunQueue /\ UNCHANGED <<clusterVars, workVars>>)
    /\ \A k \in Keys : WF_kubeletVars(Observe(k)) /\ WF_kubeletVars(Timer(k))
    /\ \A w \in Workers : WF_kubeletVars(Worker(w))

KubeletFairSpec == KubeletSpec /\ KubeletFairness
-----------------------------------------------------------------------------
(* Properties *)

\* The queue, the API server, the informer and the workers keep their shape.
KubeletTypeOK ==
    /\ QueueTypeOK
    /\ api \in [Keys -> PodOrNone]
    /\ version \in [Keys -> Nat]
    /\ watch \in [Keys -> Seq(PodOrNone)]
    /\ store \in [Keys -> PodOrNone]
    /\ step \in [Workers -> {"get", "nothing", "status", "delete"}]
    /\ pod \in [Workers -> PodOrNone]
    /\ faults \in 0..MaxFaults
    /\ givenUp \subseteq Keys

\* A published address is final: as long as a pod lives, no retry after a lost
\* answer, no second worker and no stale store gives it another one.
AddressIsFinal ==
    [][\A k \in Keys :
          api[k] # NoPod /\ api[k].ip # 0 /\ api'[k] # NoPod
              => api'[k].ip = api[k].ip]_kubeletVars

\* The kubelet starts a pod only if it is bound and not being deleted at that
\* moment, although it decides on what the informer saw some time ago.
StartsOnlyBoundPods ==
    [][\A k \in Keys :
          api'[k] # NoPod /\ api'[k].ip # 0 /\ (api[k] = NoPod \/ api[k].ip = 0)
              => api[k] # NoPod /\ api[k].node /\ ~api[k].deleting]_kubeletVars

\* What watchPods is for: a pod of ours that has a node is eventually running,
\* being deleted or gone, unless the watch is stopped or the key's last retry
\* was spent on a request that failed by itself.  Conflicts with stale reads
\* do not strand a pod, even when they use up every attempt.
BoundPodStarts ==
    \A k \in Ours :
        (api[k] # NoPod /\ api[k].node)
            ~> \/ api[k] = NoPod \/ api[k].deleting \/ api[k].ip # 0
               \/ shutdown \/ k \in givenUp

\* A step of a worker deletes a pod, or marks it.
EndedByKubelet(k) ==
    /\ step' # step
    /\ api[k] # NoPod /\ ~api[k].deleting
    /\ api'[k] = NoPod \/ api'[k].deleting

\* The kubelet's deletion goes by name, on what the informer saw, and may hit a
\* pod created under that name since; but never one that runs: a pod is started
\* by the one worker of its key, once the store has come to the present pod.
RunningPodIsKept ==
    [][\A k \in Keys : EndedByKubelet(k) => api[k].ip = 0]_kubeletVars
=============================================================================
