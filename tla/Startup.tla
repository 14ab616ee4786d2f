------------------------------- MODULE Startup -------------------------------
(***************************************************************************)
(* pilot-load pod-startup: workers that create a pod, look it up until it  *)
(* is ready, delete it and report to Run over an unbuffered channel, until *)
(* the context is done; Run then waits for the workers.  Looking up is the *)
(* one request made under the context: it fails once that is done.         *)
(*                                                                         *)
(* Abstracted: the times that are measured, and the pauses.                *)
(***************************************************************************)
EXTENDS Execute, Sequences

\* The workers, and the names of the pods of each (GenUID), which bound its rounds
CONSTANTS Workers, PodsOf

\* The pod of the configuration has no status.
ASSUME StartupAssumption ==
    /\ PodsOf \in [Workers -> Seq(Objects \ (Namespaces \cup HasStatus))]
    /\ "main" \notin Workers
    /\ \A w \in Workers : \A i \in DOMAIN PodsOf[w] :
          \A v \in Workers : \A j \in DOMAIN PodsOf[v] :
              PodsOf[w][i] = PodsOf[v][j] => w = v /\ i = j

VARIABLES doing,     \* what each worker does
          turn,      \* the pod of its present round
          gather,    \* what Run does: start the workers, collect reports, wait
          ready      \* pods that are ready

startupVars == <<doing, turn, gather, ready>>

StartupPods == UNION {{PodsOf[w][i] : i \in DOMAIN PodsOf[w]} : w \in Workers}

StartupTypeOK ==
    /\ doing \in [Workers -> {"none", "loop", "apply", "poll", "delete", "report", "over"}]
    /\ turn \in [Workers -> Nat \ {0}]
    /\ \A w \in Workers : turn[w] <= Len(PodsOf[w]) + 1
    /\ gather \in {"start", "collect", "wait"}
    /\ ready \subseteq StartupPods

StartupInit ==
    /\ doing = [w \in Workers |-> "none"]
    /\ turn = [w \in Workers |-> 1]
    /\ gather = "start"
    /\ ready = {}

PodOf(w) == PodsOf[w][turn[w]]
IsPodReady(w) == There(PodOf(w)) /\ PodOf(w) \in ready
Does(w, d) == doing' = [doing EXCEPT ![w] = d]
-----------------------------------------------------------------------------
(* Run *)

StartWorker ==
    /\ gather = "start"
    /\ \E w \in Workers : doing[w] = "none" /\ Does(w, "loop")
    /\ UNCHANGED <<baseVars, turn, gather, ready>>

Collect ==
    /\ gather = "start"
    /\ \A w \in Workers : doing[w] # "none"
    /\ gather' = "collect"
    /\ UNCHANGED <<baseVars, doing, turn, ready>>

\* ctx.Done: nobody receives reports any more.
StopCollecting ==
    /\ gather = "collect" /\ ctxDone
    /\ gather' = "wait"
    /\ UNCHANGED <<baseVars, doing, turn, ready>>

\* wg.Wait
WorkersDone ==
    /\ gather = "wait"
    /\ \A w \in Workers : doing[w] = "over"
    /\ RunReturns
    /\ UNCHANGED <<kubeVars, ctxDone, client, startupVars>>

\* Cleanup does nothing.
StartupExits ==
    /\ Exit
    /\ UNCHANGED <<kubeVars, startupVars>>
-----------------------------------------------------------------------------
(* runWorker *)

WorkerStarts(w) ==
    /\ doing[w] = "loop" /\ ~ctxDone
    /\ turn[w] <= Len(PodsOf[w])
    /\ Ask(w, "apply", PodOf(w))
    /\ Does(w, "apply")
    /\ UNCHANGED <<lifeVars, turn, gather, ready>>

WorkerEnds(w) ==
    /\ doing[w] = "loop" /\ ctxDone
    /\ Does(w, "over")
    /\ UNCHANGED <<baseVars, turn, gather, ready>>

\* A pod whose creation failed is not deleted.
WorkerApplied(w) ==
    /\ doing[w] = "apply" /\ req[w].at \in Answers
    /\ Does(w, IF Answered(w, "ok") THEN "poll" ELSE "report")
    /\ Forget(w)
    /\ UNCHANGED <<lifeVars, turn, gather, ready>>

\* The pod is ready, or the lookup fails, with the context or otherwise: the
\* deferred call deletes it.  Else the worker looks again.
WorkerLooked(w) ==
    /\ doing[w] = "poll"
    /\ \/ IsPodReady(w) /\ UNCHANGED faults
       \/ ctxDone /\ UNCHANGED faults
       \/ faults < MaxFaults /\ faults' = faults + 1
    /\ Sends(w, "delete", PodOf(w))
    /\ Does(w, "delete")
    /\ UNCHANGED <<obj, dying, unsure, lifeVars, turn, gather, ready>>

WorkerDeleted(w) ==
    /\ doing[w] = "delete" /\ req[w].at \in Answers
    /\ Does(w, "report")
    /\ Forget(w)
    /\ UNCHANGED <<lifeVars, turn, gather, ready>>

\* A slip: a report that nobody receives is not given up
WorkerReportsOnly(w) ==
    /\ doing[w] = "report" /\ gather = "collect"
    /\ Does(w, "loop") /\ turn' = [turn EXCEPT ![w] = @ + 1]
    /\ UNCHANGED <<baseVars, gather, ready>>

\* report <- res, which Run receives; or the context is done
WorkerReports(w) ==
    /\ doing[w] = "report"
    /\ \/ gather = "collect" /\ Does(w, "loop") /\ turn' = [turn EXCEPT ![w] = @ + 1]
       \/ ctxDone /\ Does(w, "over") /\ UNCHANGED turn
    /\ UNCHANGED <<baseVars, gather, ready>>

\* The kubelet of the cluster
PodReady ==
    /\ \E p \in StartupPods \ ready : There(p) /\ ready' = ready \cup {p}
    /\ UNCHANGED <<baseVars, doing, turn, gather>>
-----------------------------------------------------------------------------
StartupStep(p) ==
    \/ p = "main" /\ (StartWorker \/ Collect \/ StopCollecting \/ WorkersDone \/ StartupExits)
    \/ /\ p \in Workers
       /\ \/ WorkerStarts(p) \/ WorkerEnds(p) \/ WorkerApplied(p) \/ WorkerLooked(p)
          \/ WorkerDeleted(p) \/ WorkerReports(p)

\* Pods that a worker holds: the deferred call will delete them.
PodsHeld == {PodOf(w) : w \in {v \in Workers : doing[v] \in {"apply", "poll", "delete"}}}
=============================================================================
