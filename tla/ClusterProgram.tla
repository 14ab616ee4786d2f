--------------------------- MODULE ClusterProgram ---------------------------
(***************************************************************************)
(* pilot-load cluster: Cluster.Run starts nodes and namespaces one after   *)
(* the other, an application's simulations in parallel, and then the       *)
(* scaler, which refreshes a workload or a configuration at every tick.    *)
(* The scaler is never waited for: it goes on until it sees the end of the *)
(* context, beside the cleanup that the same event starts.                 *)
(*                                                                         *)
(* Followed are one node at most, and one namespace with one application:  *)
(* what several of them add is done one after the other in Run, and in     *)
(* goroutines that share nothing in Cleanup.  So the node a pod is placed  *)
(* on need not be one that is followed.  Pods of the application have a    *)
(* proxy.  A pod that is refreshed gets a new name (GenUID), from the set  *)
(* PodNames, which bounds the refreshes.  The kubelet is FakeKubelet.      *)
(***************************************************************************)
EXTENDS Execute, Sequences

CONSTANTS
    Configs,      \* configurations: whether a node is followed, and its ztunnel;
                  \* an application of which kind or "none", its pods, a namespace
                  \* with a template; what may be found in the cluster
    AppObjects,   \* of each kind of application, what it has besides pods
    Refreshable,  \* the configuration among it that the scaler refreshes
    Templated,    \* what is applied by server-side apply
    PodNames,
    PodAttempts,  \* attempts to create a pod, 10
    NsAttempts    \* attempts to create a namespace, 100

VARIABLES config,   \* the configuration
          next,     \* the next simulation Cluster.Run starts
          at,       \* where each goroutine is
          pods,     \* Application.pods
          created,  \* pods whose field created is true
          left,     \* attempts left to a goroutine that retries
          swap      \* the new and the removed pod of a refresh

clusterVars == <<config, next, at, pods, created, left, swap>>

AppOwn == UNION {AppObjects[k] : k \in DOMAIN AppObjects}
AppSims == AppOwn \cup PodNames
FixedNames == {"node", "lease", "account", "config"}
ClusterProcs == {"main", "lease", "scaler", "nodes", "space"} \cup AppSims

\* Names are names of one thing each; the pods are in the application's namespace.
ASSUME ClusterAssumption ==
    /\ Configs \subseteq [nodes : BOOLEAN, ztunnel : BOOLEAN, template : BOOLEAN, pods : Nat,
                          app : DOMAIN AppObjects \cup {"none"}, found : SUBSET Objects]
    /\ "none" \notin DOMAIN AppObjects
    /\ \A k \in DOMAIN AppObjects : AppObjects[k] \cap PodNames = {}
    /\ {"main", "lease", "scaler", "nodes", "space"} \cap AppSims = {}
    /\ "ns" \in Namespaces
    /\ FixedNames \cup AppSims \subseteq Objects \ Namespaces
    /\ FixedNames \cap AppSims = {}
    /\ Refreshable \cap PodNames = {}
    /\ \A p, q \in PodNames : NsOf[p] = NsOf[q]
    /\ PodAttempts \in Nat \ {0, 1} /\ NsAttempts \in Nat \ {0}

\* Application.getSims
GetSims ==
    IF config.app = "none" THEN {}
    ELSE AppObjects[config.app] \cup {pods[i] : i \in DOMAIN pods}

\* Cluster.Run, Namespace.getSims: what is started one after the other
RunOrder ==
    (IF config.nodes THEN <<"node">> ELSE <<>>) \o
    (IF config.app = "none" THEN <<>> ELSE <<"ns">> \o (IF config.template THEN <<"config">> ELSE <<>>) \o <<"account", "app">>)

Stations == {"idle", "on", "begin", "create", "make", "start", "failed", "delete", "deleting",
             "close", "wait", "refresh", "lease", "app", "account", "config", "ns", "done"}

ClusterTypeOK ==
    /\ config \in Configs
    /\ next \in 1..Len(RunOrder) + 1
    /\ at \in [ClusterProcs -> Stations]
    /\ pods \in Seq(PodNames) /\ created \subseteq PodNames
    /\ left \in [ClusterProcs -> 0..PodAttempts + NsAttempts]
    /\ swap \in [new : PodNames \cup {None}, old : PodNames \cup {None}]

\* NewCluster: the application's pods get their names.
ClusterInit ==
    /\ config \in Configs
    /\ next = 1
    /\ at = [q \in ClusterProcs |-> "idle"]
    /\ \E s \in [1..config.pods -> PodNames] :
          /\ \A i, j \in DOMAIN s : i # j => s[i] # s[j]
          /\ pods = s
    /\ created = {}
    /\ left = [q \in ClusterProcs |-> 0]
    /\ swap = [new |-> None, old |-> None]

ApplyOp(o) == IF o \in Templated THEN "ssa" ELSE "apply"
Goes(q, place) == at' = [at EXCEPT ![q] = place]
-----------------------------------------------------------------------------
(* Pod.Run, by goroutine q for the pod it runs *)

RunPod(q) == IF q = "scaler" THEN swap.new ELSE q

PodApplies(q) ==
    /\ at[q] = "begin" /\ RunPod(q) \in PodNames
    /\ Ask(q, "ssa", RunPod(q))
    /\ left' = [left EXCEPT ![q] = PodAttempts - 1]
    /\ Goes(q, "create")
    /\ UNCHANGED <<lifeVars, config, next, pods, created, swap>>

PodRetries(q) ==
    /\ at[q] = "create" /\ RunPod(q) \in PodNames
    /\ Answered(q, "failed") /\ left[q] > 0
    /\ left' = [left EXCEPT ![q] = @ - 1]
    /\ Ask(q, "ssa", RunPod(q))
    /\ UNCHANGED <<lifeVars, config, next, at, pods, created, swap>>

\* The error of the refresh is logged, that of a start ends Cluster.Run.
PodFails(q) ==
    /\ at[q] = "create" /\ RunPod(q) \in PodNames
    /\ Answered(q, "failed") /\ left[q] = 0
    /\ Goes(q, IF q = "scaler" THEN "on" ELSE "failed")
    /\ Forget(q)
    /\ UNCHANGED <<lifeVars, config, next, pods, created, left, swap>>

PodCreated(q) ==
    /\ at[q] = "create" /\ RunPod(q) \in PodNames
    /\ Answered(q, "ok")
    /\ created' = created \cup {RunPod(q)}
    /\ left' = [left EXCEPT ![q] = 0]
    /\ Goes(q, "make")
    /\ Forget(q)
    /\ UNCHANGED <<lifeVars, config, next, pods, swap>>

\* p.xds = &xds.Simulation{...}
PodMakesClient(q) ==
    /\ at[q] = "make"
    /\ MakeClient(RunPod(q))
    /\ Goes(q, "start")
    /\ UNCHANGED <<kubeVars, phase, ctxDone, config, next, pods, created, left, swap>>

\* p.xds.Run
PodRunsClient(q) ==
    /\ at[q] = "start"
    /\ RunClient(RunPod(q))
    /\ Goes(q, IF q = "scaler" THEN "delete" ELSE "done")
    /\ UNCHANGED <<kubeVars, phase, ctxDone, config, next, pods, created, left, swap>>

PodRun(q) ==
    \/ PodApplies(q) \/ PodRetries(q) \/ PodFails(q) \/ PodCreated(q)
    \/ PodMakesClient(q) \/ PodRunsClient(q)
-----------------------------------------------------------------------------
(* Pod.Cleanup, by goroutine q; and Node.Cleanup of a ztunnel's client *)

CleanPod(q) == IF q = "scaler" THEN swap.old ELSE q
Cleaned(q) == IF q = "scaler" THEN "on" ELSE "done"

PodDeletes(q) ==
    /\ at[q] = "delete" /\ CleanPod(q) \in PodNames
    /\ IF CleanPod(q) \in created
       THEN Ask(q, "delete", CleanPod(q)) /\ Goes(q, "deleting")
       ELSE Goes(q, "close") /\ UNCHANGED kubeVars
    /\ UNCHANGED <<lifeVars, config, next, pods, created, left, swap>>

\* An error leaves the client alone.
PodDeleted(q) ==
    /\ at[q] = "deleting" /\ CleanPod(q) \in PodNames
    /\ \/ Answered(q, "ok") /\ Goes(q, "close")
       \/ Answered(q, "failed") /\ Goes(q, Cleaned(q))
    /\ Forget(q)
    /\ UNCHANGED <<lifeVars, config, next, pods, created, left, swap>>

\* Simulation.Cleanup, of nil and otherwise.
PodCloses(q) ==
    /\ at[q] = "close"
    /\ Goes(q, IF client[CleanPod(q)] = "nil" THEN Cleaned(q) ELSE "wait")
    /\ CancelClient(CleanPod(q))
    /\ UNCHANGED <<kubeVars, phase, ctxDone, config, next, pods, created, left, swap>>

\* <-x.done, for ever when the channel is not there yet
PodClosed(q) ==
    /\ at[q] = "wait"
    /\ \/ client[CleanPod(q)] = "closed" /\ Goes(q, Cleaned(q)) /\ UNCHANGED client
       \/ HangsOn(CleanPod(q)) /\ UNCHANGED at
    /\ UNCHANGED <<kubeVars, phase, ctxDone, config, next, pods, created, left, swap>>

PodCleanup(q) == PodDeletes(q) \/ PodDeleted(q) \/ PodCloses(q) \/ PodClosed(q)
-----------------------------------------------------------------------------
(* The other simulations of an application: one request each *)

SimAsks(q) ==
    /\ q \notin PodNames
    /\ \/ at[q] = "begin" /\ Ask(q, ApplyOp(q), q) /\ Goes(q, "create")
       \/ at[q] = "delete" /\ Ask(q, "delete", q) /\ Goes(q, "deleting")
    /\ UNCHANGED <<lifeVars, config, next, pods, created, left, swap>>

SimAnswered(q) ==
    /\ q \notin PodNames
    /\ \/ at[q] = "create" /\ Goes(q, IF Answered(q, "ok") THEN "done" ELSE "failed")
       \/ at[q] = "deleting" /\ Goes(q, "done")
    /\ req[q].at \in Answers
    /\ Forget(q)
    /\ UNCHANGED <<lifeVars, config, next, pods, created, left, swap>>

AppStep(q) == PodRun(q) \/ PodCleanup(q) \/ SimAsks(q) \/ SimAnswered(q)
-----------------------------------------------------------------------------
(* Cluster.Run, Namespace.Run: AggregateSimulation.Run of one after the other *)

RunNext ==
    /\ phase = "running" /\ Free("main") /\ ~ctxDone
    /\ next <= Len(RunOrder) /\ RunOrder[next] # "app"
    /\ LET o == RunOrder[next]
       IN  /\ Ask("main", ApplyOp(o), o)
           /\ left' = [left EXCEPT !["main"] = IF o = "ns" THEN NsAttempts - 1 ELSE 0]
    /\ UNCHANGED <<lifeVars, config, next, at, pods, created, swap>>

\* KubernetesNamespace.Run tries again, unless the context is done.
NamespaceRetries ==
    /\ req["main"].op = "apply" /\ req["main"].o = "ns"
    /\ req["main"].at \in {"failed", "exists"}
    /\ left["main"] > 0 /\ ~ctxDone
    /\ Ask("main", "apply", "ns")
    /\ left' = [left EXCEPT !["main"] = @ - 1]
    /\ UNCHANGED <<lifeVars, config, next, at, pods, created, swap>>

\* ServiceAccount.Run: IgnoreExists
RunOk == Answered("main", "ok") \/ (Answered("main", "exists") /\ req["main"].o = "account")

\* Node.Run also starts the goroutine of the lease and a ztunnel's client.
RunSucceeds ==
    /\ phase = "running" /\ RunOk
    /\ next' = next + 1
    /\ left' = [left EXCEPT !["main"] = 0]
    /\ IF req["main"].o = "node" THEN Goes("lease", "on") ELSE UNCHANGED at
    /\ IF req["main"].o = "node" /\ config.ztunnel THEN RunClient("ztunnel") ELSE UNCHANGED client
    /\ Forget("main")
    /\ UNCHANGED <<phase, ctxDone, config, pods, created, swap>>

RunError ==
    /\ req["main"].at \in Answers /\ ~RunOk
    /\ req["main"].o = "ns" => left["main"] = 0 \/ ctxDone
    /\ RunFails
    /\ left' = [left EXCEPT !["main"] = 0]
    /\ Forget("main")
    /\ UNCHANGED <<ctxDone, client, config, next, at, pods, created, swap>>

\* Application.Run: AggregateSimulation.RunParallel
AppStarts ==
    /\ phase = "running" /\ ~ctxDone
    /\ next <= Len(RunOrder) /\ RunOrder[next] = "app"
    /\ \A q \in GetSims : at[q] = "idle"
    /\ at' = [q \in ClusterProcs |-> IF q \in GetSims THEN "begin" ELSE at[q]]
    /\ UNCHANGED <<baseVars, config, next, pods, created, left, swap>>

AppStarted ==
    /\ phase = "running"
    /\ next <= Len(RunOrder) /\ RunOrder[next] = "app"
    /\ \A q \in GetSims : at[q] \in {"done", "failed"}
    /\ IF \E q \in GetSims : at[q] = "failed"
       THEN RunFails /\ UNCHANGED next
       ELSE next' = next + 1 /\ UNCHANGED phase
    /\ UNCHANGED <<kubeVars, ctxDone, client, config, at, pods, created, left, swap>>

\* "exiting early; context cancelled"
RunStops ==
    /\ phase = "running" /\ Free("main") /\ ctxDone
    /\ next <= Len(RunOrder)
    /\ \A q \in GetSims : at[q] = "idle"
    /\ next' = Len(RunOrder) + 1
    /\ UNCHANGED <<baseVars, config, at, pods, created, left, swap>>

\* ClusterScaler.Run; an interrupt during a grace period ends Run before it.
RunEnds ==
    /\ next = Len(RunOrder) + 1
    /\ RunReturns
    /\ \/ Goes("scaler", "on")
       \/ ctxDone /\ config.app # "none" /\ UNCHANGED at
    /\ UNCHANGED <<kubeVars, ctxDone, client, config, next, pods, created, left, swap>>
-----------------------------------------------------------------------------
(* Cluster.Cleanup: nodes and namespaces in parallel *)

Places == {q \in {"nodes", "space"} : IF q = "nodes" THEN config.nodes ELSE config.app # "none"}

CleanupStarts ==
    /\ phase = "cleaning"
    /\ \E q \in Places : at[q] = "idle"
    /\ at' = [q \in ClusterProcs |->
                IF q \notin Places THEN at[q] ELSE IF q = "nodes" THEN "close" ELSE "begin"]
    /\ UNCHANGED <<baseVars, config, next, pods, created, left, swap>>

\* Application.Cleanup: AggregateSimulation.CleanupParallel of what getSims
\* returns now
AppCleanupStarts ==
    /\ at["space"] = "begin"
    /\ at' = [q \in ClusterProcs |->
                IF q \in GetSims THEN "delete" ELSE IF q = "space" THEN "app" ELSE at[q]]
    /\ UNCHANGED <<baseVars, config, next, pods, created, left, swap>>

\* Namespace.Cleanup: AggregateSimulation.Cleanup of the rest in reverse order;
\* an error does not stop it.
After == [app |-> "account", account |-> IF config.template THEN "config" ELSE "ns", config |-> "ns"]

\* A slip: the first error ends the cleanup
SpaceNextUnlessError ==
    /\ \/ at["space"] = "app" /\ \A q \in AppSims : at[q] \in {"idle", "done", "failed"}
       \/ at["space"] \in {"account", "config"} /\ req["space"].at \in Answers
    /\ IF Answered("space", "failed")
       THEN Forget("space") /\ Goes("space", "done")
       ELSE Ask("space", "delete", After[at["space"]]) /\ Goes("space", After[at["space"]])
    /\ UNCHANGED <<lifeVars, config, next, pods, created, left, swap>>

SpaceNext ==
    /\ \/ at["space"] = "app" /\ \A q \in AppSims : at[q] \in {"idle", "done", "failed"}
       \/ at["space"] \in {"account", "config"} /\ req["space"].at \in Answers
    /\ Ask("space", "delete", After[at["space"]])
    /\ Goes("space", After[at["space"]])
    /\ UNCHANGED <<lifeVars, config, next, pods, created, left, swap>>

SpaceDone ==
    /\ at["space"] = "ns" /\ req["space"].at \in Answers
    /\ Goes("space", "done")
    /\ Forget("space")
    /\ UNCHANGED <<lifeVars, config, next, pods, created, left, swap>>

\* Node.Cleanup: the client, the node, the lease
NodeCloses ==
    /\ at["nodes"] = "close"
    /\ CancelClient("ztunnel")
    /\ Goes("nodes", "wait")
    /\ UNCHANGED <<kubeVars, phase, ctxDone, config, next, pods, created, left, swap>>

NodeDeletes ==
    /\ at["nodes"] = "wait" /\ client["ztunnel"] \in {"nil", "closed"}
    /\ Ask("nodes", "delete", "node")
    /\ Goes("nodes", "deleting")
    /\ UNCHANGED <<lifeVars, config, next, pods, created, left, swap>>

LeaseDeletes ==
    /\ at["nodes"] = "deleting" /\ req["nodes"].at \in Answers
    /\ Ask("nodes", "delete", "lease")
    /\ Goes("nodes", "lease")
    /\ UNCHANGED <<lifeVars, config, next, pods, created, left, swap>>

NodeDone ==
    /\ at["nodes"] = "lease" /\ req["nodes"].at \in Answers
    /\ Goes("nodes", "done")
    /\ Forget("nodes")
    /\ UNCHANGED <<lifeVars, config, next, pods, created, left, swap>>

CleanupEnds ==
    /\ \A q \in Places : at[q] = "done"
    /\ Exit
    /\ UNCHANGED <<kubeVars, clusterVars>>
-----------------------------------------------------------------------------
(* Goroutines that nobody waits for *)

\* Node.Run: the lease, at once and every 20 seconds, sooner after an error
LeaseTicks ==
    /\ at["lease"] = "on" /\ Free("lease")
    /\ Ask("lease", "apply", "lease")
    /\ UNCHANGED <<lifeVars, clusterVars>>

LeaseRenewed ==
    /\ req["lease"].at \in Answers
    /\ Forget("lease")
    /\ UNCHANGED <<lifeVars, clusterVars>>

LeaseStops ==
    /\ at["lease"] = "on" /\ Free("lease") /\ ctxDone
    /\ Goes("lease", "idle")
    /\ UNCHANGED <<baseVars, config, next, pods, created, left, swap>>

\* IntnRange(0, n - 1) never draws the last one of several.
Drawn == IF Len(pods) > 1 THEN 1..Len(pods) - 1 ELSE DOMAIN pods
Unused ==
    {p \in PodNames \ (created \cup {pods[i] : i \in DOMAIN pods} \cup {swap.new, swap.old}) :
        ~There(p) /\ at[p] = "idle"}

\* A slip: the new pod is not put into the list
WorkloadTickOutside ==
    /\ at["scaler"] = "on" /\ Free("scaler")
    /\ \E i \in Drawn : \E p \in Unused : swap' = [new |-> p, old |-> pods[i]]
    /\ Goes("scaler", "begin")
    /\ UNCHANGED <<baseVars, config, next, pods, created, left>>

\* Application.Refresh: the new pod takes its place in the list, then it is run.
\* A tick may still win against the end of the context.
WorkloadTick ==
    /\ at["scaler"] = "on" /\ Free("scaler")
    /\ \E i \in Drawn : \E p \in Unused :
          /\ swap' = [new |-> p, old |-> pods[i]]
          /\ pods' = [pods EXCEPT ![i] = p]
    /\ Goes("scaler", "begin")
    /\ UNCHANGED <<baseVars, config, next, created, left>>

\* Templated.Refresh, WorkloadEntry.Refresh: the object is applied again.
ConfigTick ==
    /\ at["scaler"] = "on" /\ Free("scaler")
    /\ \E o \in Refreshable \cap GetSims : Ask("scaler", ApplyOp(o), o)
    /\ Goes("scaler", "refresh")
    /\ UNCHANGED <<lifeVars, config, next, pods, created, left, swap>>

ConfigRefreshed ==
    /\ at["scaler"] = "refresh" /\ req["scaler"].at \in Answers
    /\ Goes("scaler", "on")
    /\ Forget("scaler")
    /\ UNCHANGED <<lifeVars, config, next, pods, created, left, swap>>

ScalerStops ==
    /\ at["scaler"] = "on" /\ ctxDone
    /\ Goes("scaler", "idle")
    /\ UNCHANGED <<baseVars, config, next, pods, created, left, swap>>

\* The controller of service accounts gives a namespace its default account.
AccountCreated ==
    /\ "account" \in config.found
    /\ ~There("account") /\ There("ns") /\ MayCreate("account")
    /\ obj' = [obj EXCEPT !["account"] = "others"]
    /\ UNCHANGED <<dying, req, faults, unsure, lifeVars, clusterVars>>

\* The garbage collector: a lease goes with the node that owns it, as what is
\* in a namespace with the namespace.
Owner(o) == IF o = "lease" THEN "node" ELSE NsOf[o]

CollectLease ==
    /\ There("lease") /\ ~There("node")
    /\ obj' = [obj EXCEPT !["lease"] = "absent"]
    /\ UNCHANGED <<dying, req, faults, unsure, lifeVars, clusterVars>>
-----------------------------------------------------------------------------
MainStep ==
    \/ RunNext \/ NamespaceRetries \/ RunSucceeds \/ RunError \/ AppStarts \/ AppStarted
    \/ RunStops \/ RunEnds \/ CleanupStarts \/ CleanupEnds

ClusterStep(q) ==
    \/ q = "main" /\ MainStep
    \/ q \in AppSims /\ AppStep(q)
    \/ q = "space" /\ (AppCleanupStarts \/ SpaceNext \/ SpaceDone)
    \/ q = "nodes" /\ (NodeCloses \/ NodeDeletes \/ LeaseDeletes \/ NodeDone)
    \/ q = "lease" /\ (LeaseTicks \/ LeaseRenewed \/ LeaseStops)
    \/ q = "scaler" /\ (PodRun(q) \/ PodCleanup(q) \/ ConfigRefreshed \/ ScalerStops)

ClusterChance == WorkloadTick \/ ConfigTick \/ AccountCreated

\* Pods the program will still delete, or is about to create.
PodsRemembered ==
    {pods[i] : i \in DOMAIN pods} \cup
    (IF at["scaler"] \in {"idle", "on", "refresh"} THEN {} ELSE {swap.new, swap.old})
=============================================================================
