------------------------------ MODULE Execute ------------------------------
(***************************************************************************)
(* ExecuteSimulations, under which every command but dump runs: Run, then  *)
(* Cleanup after an interrupt, or at once when Run failed.  In the second  *)
(* case the context is still live while the cleanup runs, and with it the  *)
(* goroutines that wait for its end.                                       *)
(* Also the XDS simulations that the commands start, which live under this *)
(* context: what is inside Connect is the subject of XdsConnect.           *)
(***************************************************************************)
EXTENDS KubeRequests

CONSTANT Clients  \* XDS simulations of a command

VARIABLES phase,    \* where ExecuteSimulations is
          ctxDone,  \* its context is done
          client    \* the state of each XDS simulation

lifeVars == <<phase, ctxDone, client>>
baseVars == <<kubeVars, lifeVars>>

LifeTypeOK ==
    /\ phase \in {"running", "waiting", "cleaning", "exited"}
    /\ ctxDone \in BOOLEAN
    /\ client \in [Clients -> {"nil", "made", "running", "cancelled", "closed", "stuck"}]

LifeInit ==
    /\ phase = "running"
    /\ ctxDone = FALSE
    /\ client = [c \in Clients |-> "nil"]

\* CaptureTermination
Signal ==
    /\ phase # "exited" /\ ~ctxDone
    /\ ctxDone' = TRUE
    /\ UNCHANGED <<kubeVars, phase, client>>

\* Run has returned an error: cleanup starts at once.
RunFails == phase = "running" /\ phase' = "cleaning"

\* Run has returned nil: <-ctx.Done()
RunReturns == phase = "running" /\ phase' = "waiting"

StopWaiting ==
    /\ phase = "waiting" /\ ctxDone
    /\ phase' = "cleaning"
    /\ UNCHANGED <<kubeVars, ctxDone, client>>

\* Cleanup has returned: the process ends, and every goroutine with it.
Exit ==
    /\ phase = "cleaning"
    /\ phase' = "exited"
    /\ ctxDone' = TRUE
    /\ client' = [c \in Clients |-> "nil"]
-----------------------------------------------------------------------------
(* An XDS simulation: allocated, then Run, which stores its cancel function *)
(* and its channel and starts Connect, in one step.                         *)

MakeClient(c) == client' = [client EXCEPT ![c] = "made"]
RunClient(c) == client' = [client EXCEPT ![c] = IF @ = "stuck" THEN @ ELSE "running"]

\* Cleanup: cancel, when Run has stored the function.
CancelClient(c) ==
    client' = [client EXCEPT ![c] = IF @ = "running" THEN "cancelled" ELSE @]

\* <-x.done, of a simulation that has not stored its channel yet: for ever
HangsOn(c) == client[c] = "made" /\ client' = [client EXCEPT ![c] = "stuck"]

\* Connect returns once its context is done, and the channel is closed.
ClientReturns(c) ==
    /\ client[c] = "cancelled" \/ (client[c] = "running" /\ ctxDone)
    /\ client' = [client EXCEPT ![c] = "closed"]
    /\ UNCHANGED <<kubeVars, phase, ctxDone>>

\* A goroutine waits on a channel that is not there.
Hung == \E c \in Clients : client[c] = "stuck"
=============================================================================
