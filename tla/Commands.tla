------------------------------ MODULE Commands ------------------------------
(***************************************************************************)
(* The program: it runs one of its commands under ExecuteSimulations.      *)
(* (adsc and victoriapush have programs of their own, AdscProgram and      *)
(* VictoriaPush.)  The commands share the requests to the API server, the  *)
(* life cycle and the XDS simulations, and what must be true of a load     *)
(* generator whatever it generates: it ends when it is told to, and takes  *)
(* along what it made.                                                     *)
(***************************************************************************)
EXTENDS ClusterProgram, Impersonate, Reproduce, Latency, Startup

CONSTANT CommandNames

ASSUME CommandsAssumption == ClusterProcs \cup {"worker"} \cup Workers \subseteq Procs

VARIABLE command  \* the one that runs

commandVars == <<clusterVars, impersonateVars, reproduceVars, latencyVars, startupVars, command>>
vars == <<baseVars, commandVars>>

\* In a cluster that others use: objects of the dump may be there, and a
\* namespace of a stable name that an earlier run left.
Init ==
    /\ command \in CommandNames
    /\ KubeInit /\ LifeInit
    /\ ClusterInit /\ ImpersonateInit /\ ReproduceInit /\ LatencyInit /\ StartupInit
    /\ command # "cluster" => config = CHOOSE c \in Configs : TRUE
    /\ command # "impersonate" => store = [k \in Keys |-> "absent"]
    /\ \E before \in SUBSET CASE command = "cluster" -> config.found
                              [] command = "reproduce" -> {Docs[i].o : i \in Listed} \cap Objects
                              [] OTHER -> {} :
          /\ \A o \in before : NsOf[o] \in before \cup {None}
          /\ obj = [o \in Objects |-> IF o \in before THEN "others" ELSE "absent"]
-----------------------------------------------------------------------------
\* What only the running command changes
OfCluster == command = "cluster" /\ UNCHANGED <<impersonateVars, reproduceVars, latencyVars, startupVars, command>>
OfImpersonate == command = "impersonate" /\ UNCHANGED <<clusterVars, reproduceVars, latencyVars, startupVars, command>>
OfReproduce == command = "reproduce" /\ UNCHANGED <<clusterVars, impersonateVars, latencyVars, startupVars, command>>
OfLatency == command = "latency" /\ UNCHANGED <<clusterVars, impersonateVars, reproduceVars, startupVars, command>>
OfStartup == command = "startup" /\ UNCHANGED <<clusterVars, impersonateVars, reproduceVars, latencyVars, command>>

\* A step of a goroutine: a call, a step of its own, or ExecuteSimulations.
Goroutine(p) ==
    /\ phase # "exited"
    /\ \/ command # "latency" /\ Call(p) /\ UNCHANGED <<lifeVars, commandVars>>
       \/ OfLatency /\ LatencyCall(p)
       \/ p = "main" /\ StopWaiting /\ UNCHANGED commandVars
       \/ OfCluster /\ ClusterStep(p)
       \/ OfImpersonate /\ ImpersonateStep(p)
       \/ OfReproduce /\ ReproduceStep(p)
       \/ OfLatency /\ LatencyStep(p)
       \/ OfStartup /\ StartupStep(p)

\* A step of an XDS simulation's goroutine
ClientStep(c) ==
    /\ phase # "exited"
    /\ \/ ClientReturns(c) /\ UNCHANGED commandVars
       \/ OfImpersonate /\ ReplicaRuns(c)

\* The cluster's controllers and istiod do what they are there for.
Controllers ==
    \/ \E n \in Namespaces : FinishDeletion(n) /\ UNCHANGED <<lifeVars, commandVars>>
    \/ OfCluster /\ CollectLease

Pushes == phase # "exited" /\ OfLatency /\ PushClusters
Connects == phase # "exited" /\ OfLatency /\ LatencyConnects

\* What may happen
Chance ==
    /\ phase # "exited"
    /\ \/ Signal /\ UNCHANGED commandVars
       \/ OfCluster /\ ClusterChance
       \/ OfImpersonate /\ PodChanges
       \/ OfReproduce /\ OthersCreate
       \/ OfLatency /\ LatencyChance
       \/ OfStartup /\ PodReady

AfterExit ==
    /\ phase = "exited"
    /\ \E p \in Procs : Lands(p)
    /\ UNCHANGED <<lifeVars, commandVars>>

Next ==
    \/ \E p \in Procs : Goroutine(p)
    \/ \E c \in Clients : ClientStep(c)
    \/ Controllers \/ Pushes \/ Connects \/ Chance \/ AfterExit

\* Goroutines that can go on do and requests are answered.  Those that end by
\* themselves are fair together: which goes first does not matter.  Nobody waits
\* for the goroutines of leases and of the scaler, and no fairness of theirs is
\* assumed.  A push that waits for room in the channel is the next that gets it.
Loops == {"main", "worker", "lease", "scaler"}

Fairness ==
    /\ WF_vars(Goroutine("main")) /\ WF_vars(Goroutine("worker"))
    /\ WF_vars(\E p \in Procs \ Loops : Goroutine(p))
    /\ WF_vars(\E c \in Clients : ClientStep(c))
    /\ WF_vars(Controllers)
    /\ WF_vars(Connects) /\ SF_vars(Pushes)

Spec == Init /\ [][Next]_vars /\ Fairness
-----------------------------------------------------------------------------
(* Properties *)

\* The state keeps its shape.
CommandsTypeOK ==
    /\ command \in CommandNames
    /\ KubeTypeOK /\ LifeTypeOK
    /\ ClusterTypeOK /\ ImpersonateTypeOK /\ ReproduceTypeOK /\ LatencyTypeOK /\ StartupTypeOK

Ours == {o \in Objects : obj[o] = "ours"}

\* Objects of ours that no list, goroutine or deferred call of the program leads
\* to any more, apart from the deletion of the whole namespace.
Orphans ==
    CASE command = "cluster" /\ phase \in {"running", "waiting"} ->
            (Ours \cap PodNames) \ PodsRemembered
      [] command = "reproduce" /\ phase \in {"running", "waiting"} ->
            Ours \ {Docs[sims[i]].o : i \in {j \in DOMAIN sims : sims[j] \notin skipCleanup}}
      [] command = "latency" -> {Entries[i] : i \in Configured} \ {Cfg}
      [] command = "startup" -> (Ours \cap StartupPods) \ PodsHeld
      [] OTHER -> {}

\* A failed request loses at most one object, and nothing else loses any: not the
\* exchange of pods in Application.Refresh (application.go:175), not the create
\* retries of a pod (pod.go:66), not a start-up worker (podstartup.go:105).
NothingForgotten == Cardinality(Orphans) <= faults

\* Once the program has ended, what it made goes away, except objects whose own
\* last request failed, or their owner's: one step of the cleanup that fails
\* does not keep the others from being done (model.go:280), and a refresh or a
\* lease renewal that overtakes the cleanup leaves nothing behind.
LeavesNothing ==
    []<>(phase = "exited" => \A o \in Ours : {o, Owner(o)} \cap unsure # {})

\* An interrupted program ends (simulations.go:80), whatever its goroutines were
\* doing; except that one which waits for an XDS simulation whose Run has not
\* stored its channel yet waits for ever (xds.go:83).
InterruptedEnds == []<>(ctxDone => phase = "exited" \/ Hung)

\* Reproducing a cluster deletes no object that somebody else made, except one
\* whose creation failed with an error (sim.go:190: an error does not set
\* skipCleanup), and what is in a namespace that goes.
DeletesOnlyItsOwn ==
    [][\A o \in Objects :
          /\ command = "reproduce" /\ obj[o] = "others"
          /\ obj'[o] = "absent" \/ o \in dying'
          => o \in unsure \/ {o, NsOf[o]} \cap dying # {}]_vars

\* The pods that are impersonated become those that are selected, however events
\* and the worker interleave (sim.go:78); unless the worker waits for a replica
\* that it could not cancel, which ends with the program only.
FollowsPods == []<>(command = "impersonate" => Impersonates \/ ctxDone \/ Hung \/ Missed)

\* The latency benchmark gets the push it waits for: none is drained or taken for
\* another one so that Run waits for a push that nobody owes (sim.go:123).
PushArrives == []<>(command = "latency" => ~Waiting)
=============================================================================
