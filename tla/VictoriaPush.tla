---------------------------- MODULE VictoriaPush ----------------------------
(***************************************************************************)
(* sims/victoriapush: a Pusher reads lines from standard input and reports *)
(* every record through a BatchReporter; ExecuteSimulations runs it, waits *)
(* for the context to be done, and cleans it up, which closes the          *)
(* reporter.  The end of the input and a signal both cancel the context.   *)
(***************************************************************************)
EXTENDS BatchReporter

CONSTANTS Pusher,    \* the goroutine that runs the simulation
          MaxLines   \* bound: lines on standard input

ASSUME VictoriaPushAssumption ==
    /\ Producers = {Pusher}
    /\ MaxLines \in Nat
    /\ MaxLines <= MaxReports
    /\ MaxArgs >= 1

VARIABLES
    run,      \* where Pusher.Run is: "scan", "report" or "returned"
    lines,    \* how many lines were read
    ctxDone   \* has the context been cancelled?

pushVars == <<run, lines, ctxDone>>
allVars == <<vars, pushVars>>

PushInit ==
    /\ Init
    /\ run = "scan"
    /\ lines = 0
    /\ ctxDone = FALSE
-----------------------------------------------------------------------------
(* A slip: Cleanup does not wait for Run to return. *)
CleanupEarly ==
    /\ ctxDone
    /\ CloseCall
    /\ UNCHANGED pushVars
-----------------------------------------------------------------------------
\* CaptureTermination: SIGINT or SIGTERM
Signal ==
    /\ ~ctxDone
    /\ ctxDone' = TRUE
    /\ UNCHANGED <<vars, run, lines>>

\* scanner.Scan() yields a line although the context is done
ScanCancelled ==
    /\ run = "scan"
    /\ lines < MaxLines
    /\ ctxDone
    /\ run' = "returned"
    /\ lines' = lines + 1
    /\ UNCHANGED <<vars, ctxDone>>

\* an empty line, or one that does not parse
ScanSkip ==
    /\ run = "scan"
    /\ lines < MaxLines
    /\ ~ctxDone
    /\ lines' = lines + 1
    /\ UNCHANGED <<vars, run, ctxDone>>

ScanRecord ==
    /\ run = "scan"
    /\ lines < MaxLines
    /\ ~ctxDone
    /\ ReportCall(Pusher, 1)
    /\ run' = "report"
    /\ lines' = lines + 1
    /\ UNCHANGED ctxDone

\* Report pushes its entry and returns to the loop.
PushRecord ==
    /\ run = "report"
    /\ ReportStep(Pusher)
    /\ run' = IF want'[Pusher] = <<>> THEN "scan" ELSE "report"
    /\ UNCHANGED <<lines, ctxDone>>

\* scanner.Scan() is false: the input ended or could not be read
ScanEnd ==
    /\ run = "scan"
    /\ ctxDone' = TRUE
    /\ run' = "returned"
    /\ UNCHANGED <<vars, lines>>

\* ExecuteSimulations: Run has returned, <-ctx.Done() has passed
Cleanup ==
    /\ run = "returned"
    /\ ctxDone
    /\ CloseCall
    /\ UNCHANGED pushVars

PushNext ==
    \/ Signal
    \/ ScanCancelled \/ ScanSkip \/ ScanRecord \/ PushRecord \/ ScanEnd
    \/ Cleanup
    \/ CloseReturn /\ UNCHANGED pushVars
    \/ FlusherNext /\ UNCHANGED pushVars

PushSpec == PushInit /\ [][PushNext]_allVars

\* Standard input yields another line or ends: a Scan blocked on a terminal
\* looks at the context only when it gets one of the two.
PushFairness ==
    /\ WF_allVars(ScanCancelled \/ ScanSkip \/ ScanRecord \/ ScanEnd)
    /\ WF_allVars(PushRecord)
    /\ WF_allVars(Cleanup)
    /\ WF_allVars(CloseReturn /\ UNCHANGED pushVars)
    /\ WF_allVars(FlusherNext /\ UNCHANGED pushVars)

PushFairSpec == PushSpec /\ PushFairness
-----------------------------------------------------------------------------
(* Properties *)

\* Nothing the input held is lost on the way out: when Cleanup has returned,
\* every record given to Report was sent, once and in the order of the input,
\* whether the program ended by itself or was interrupted.
AllRecordsSent == closer = "returned" => sent = Numbers(0, reported)

\* An interrupted program exits.
Exits == ctxDone ~> closer = "returned"

Log == INSTANCE DeliveryLog WITH
    accepted <- Len(accepted),
    delivered <- Len(sent),
    closed <- closer = "returned"

\* The reporter with its channel, batches and ticker is a delivery log.
ImplementsDeliveryLog == Log!Spec
=============================================================================
