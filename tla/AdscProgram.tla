---------------------------- MODULE AdscProgram ----------------------------
(***************************************************************************)
(* pilot-load adsc: simulations.Adsc makes an AggregateSimulation of XDS   *)
(* simulations, and ExecuteSimulations runs it, waits for a signal and     *)
(* cleans it up, one simulation after the other.                           *)
(***************************************************************************)
EXTENDS XdsConnect

CONSTANT Count  \* --count; 0 stands for 1

ASSUME AdscProgramAssumption == Count \in Nat \ {0} /\ Sims = 1..Count

VARIABLES main,  \* where ExecuteSimulations is
          next   \* the simulation it runs or cleans up next

programVars == <<main, next>>
allVars == <<connVars, programVars>>

ProgramInit ==
    /\ ConnInit
    /\ main = "run"
    /\ next = 1
-----------------------------------------------------------------------------
\* AggregateSimulation.Run, one simulation; none after the context is done
RunNext ==
    /\ main = "run"
    /\ next <= Count
    /\ ~ctxDone
    /\ SimRun(next)
    /\ next' = next + 1
    /\ UNCHANGED main

\* AggregateSimulation.Run returns, early when the context is done.
RunEnd ==
    /\ main = "run"
    /\ next > Count \/ ctxDone
    /\ main' = "wait"
    /\ UNCHANGED <<connVars, next>>

\* <-ctx.Done()
WaitEnd ==
    /\ main = "wait"
    /\ ctxDone
    /\ main' = "cleanup"
    /\ next' = 1
    /\ UNCHANGED connVars

\* AggregateSimulation.Cleanup
CleanNext ==
    /\ main = "cleanup"
    /\ next <= Count
    /\ CleanupCall(next)
    /\ UNCHANGED programVars

CleanedNext ==
    /\ main = "cleanup"
    /\ next <= Count
    /\ CleanupReturn(next)
    /\ next' = next + 1
    /\ UNCHANGED main

Exit ==
    /\ main = "cleanup"
    /\ next > Count
    /\ main' = "exit"
    /\ UNCHANGED <<connVars, next>>

MainStep == RunNext \/ RunEnd \/ WaitEnd \/ CleanNext \/ CleanedNext \/ Exit

ProgramNext ==
    \/ MainStep
    \/ CancelContext /\ UNCHANGED programVars
    \/ \E s \in Sims : (ConnectStep(s) \/ ReceiverStep(s)) /\ UNCHANGED programVars

ProgramSpec == ProgramInit /\ [][ProgramNext]_allVars

\* Goroutines that can go on do, timers fire, a dial succeeds or fails.  No
\* stream has to deliver anything or to break, and nobody has to interrupt.
ProgramFairness ==
    /\ WF_allVars(MainStep)
    /\ \A s \in Sims :
          /\ WF_allVars(ConnectStep(s) /\ UNCHANGED programVars)
          /\ WF_allVars(ReceiverEnds(s) /\ UNCHANGED programVars)

ProgramFairSpec == ProgramSpec /\ ProgramFairness
-----------------------------------------------------------------------------
(* Properties *)

\* The program and its connections keep their shape.
ProgramTypeOK ==
    /\ ConnTypeOK
    /\ main \in {"run", "wait", "cleanup", "exit"}
    /\ next \in 1..Count + 1

\* An interrupted program whose simulations were all run exits.
ExitsOnceRun ==
    ctxDone /\ (\A s \in Sims : pc[s] # "idle") ~> main = "exit"

\* "Cleanup tears down the simulation" (model.go:24): an interrupted program
\* exits, also when the signal came while simulations were being started.
Exits == ctxDone ~> main = "exit"
=============================================================================
