------------------------- MODULE AdscProgram_proofs -------------------------
(***************************************************************************)
(* Proofs about pilot-load adsc: its type invariant, that a simulation     *)
(* has one stream at a time and that Cleanup leaves no stream open, for    *)
(* every number of simulations and every capacity of the channels.         *)
(***************************************************************************)
EXTENDS AdscProgram, TLAPS

\* What any step of the program does to the connections.
ConnNext ==
    \/ \E s \in Sims : SimRun(s) \/ CleanupCall(s) \/ CleanupReturn(s)
    \/ \E s \in Sims : ConnectStep(s) \/ ReceiverStep(s)
    \/ CancelContext

\* While Connect runs: there is a receiver only in its loop or after it, a
\* receiver that saw the end has closed the connection, "close" is the last
\* thing it says, and Connect closes what it has before it returns.
StreamsInv ==
    /\ \A s \in Sims : recv[s] \in {"recv", "report"} => pc[s] \in {"loop", "done"}
    /\ \A s \in Sims : recv[s] \in {"report", "ended"} /\ pc[s] # "failed"
                          => conn[s] # "open"
    /\ \A s \in Sims : \A i \in 1..Len(updates[s]) :
          updates[s][i] = "close" => recv[s] = "ended"
    /\ \A s \in Sims : pc[s] \in {"idle", "dial", "broken", "done"} => conn[s] # "open"
    /\ \A s \in Sims : cleanup[s] = "returned" => pc[s] = "done"

ConnInv == ConnTypeOK /\ StreamsInv

\* What the connections are when the program starts.
LEMMA ConnStart == ConnInit => ConnInv
<1>1. ConnInit => StreamsInv
  BY DEF ConnInit, StreamsInv
<1>2. ConnInit => ConnTypeOK
  <2> SUFFICES ASSUME ConnInit PROVE ConnTypeOK
    OBVIOUS
  <2>1. updates \in [Sims -> Seq({"update", "close"})]
    BY DEF ConnInit
  <2>2. \A s \in Sims : Len(updates[s]) = 0
    BY DEF ConnInit
  <2>3. \A s \in Sims : Len(updates[s]) <= UpdCap
    <3> TAKE s \in Sims
    <3>1. 0 <= UpdCap
      BY XdsConnectAssumption
    <3> QED
      BY <2>2, <3>1
  <2>4. fails \in 0..MaxFails /\ breaks \in 0..MaxBreaks
    BY XdsConnectAssumption DEF ConnInit
  <2>5. lost \in [Sims -> Nat]
    BY DEF ConnInit
  <2> QED
    BY <2>1, <2>3, <2>4, <2>5 DEF ConnInit, ConnTypeOK
<1> QED
  BY <1>1, <1>2 DEF ConnInv

\* No step takes a connection's state out of its types.
LEMMA ConnTyping == ConnTypeOK /\ [ConnNext]_connVars => ConnTypeOK'
<1> SUFFICES ASSUME ConnTypeOK, [ConnNext]_connVars PROVE ConnTypeOK'
  OBVIOUS
<1> USE XdsConnectAssumption
<1>1. ASSUME NEW s \in Sims, SimRun(s) PROVE ConnTypeOK'
  BY <1>1 DEF SimRun, ConnTypeOK
<1>2. ASSUME NEW s \in Sims, CleanupCall(s) PROVE ConnTypeOK'
  BY <1>2 DEF CleanupCall, ConnTypeOK
<1>3. ASSUME NEW s \in Sims, CleanupReturn(s) PROVE ConnTypeOK'
  BY <1>3 DEF CleanupReturn, ConnTypeOK
<1>4. ASSUME NEW s \in Sims, Dialled(s) PROVE ConnTypeOK'
  BY <1>4 DEF Dialled, ConnTypeOK, Cancelled
<1>5. ASSUME NEW s \in Sims, DialFailed(s) PROVE ConnTypeOK'
  <2>1. fails' \in 0..MaxFails
    BY <1>5 DEF DialFailed, Cancelled, ConnTypeOK
  <2>2. pc' \in [Sims -> {"idle", "dial", "failed", "loop", "broken", "done"}]
    BY <1>5 DEF DialFailed, ConnTypeOK
  <2>3. /\ conn' \in [Sims -> {"none", "open", "closed"}]
        /\ lost' \in [Sims -> Nat]
    <3>1. PICK c \in {"none", "open", "closed"} : conn' = [conn EXCEPT ![s] = c]
      BY <1>5 DEF DialFailed
    <3>2. lost' = lost \/ lost' = [lost EXCEPT ![s] = @ + 1]
      BY <1>5 DEF DialFailed
    <3> QED
      BY <3>1, <3>2 DEF ConnTypeOK
  <2> QED
    BY <1>5, <2>1, <2>2, <2>3 DEF DialFailed, ConnTypeOK
<1>6. ASSUME NEW s \in Sims, FailedRetry(s) PROVE ConnTypeOK'
  BY <1>6 DEF FailedRetry, ConnTypeOK
<1>7. ASSUME NEW s \in Sims, FailedCancelled(s) PROVE ConnTypeOK'
  BY <1>7 DEF FailedCancelled, ConnTypeOK, Cancelled, Closed
<1>8. ASSUME NEW s \in Sims, LoopUpdate(s) PROVE ConnTypeOK'
  BY <1>8 DEF LoopUpdate, ConnTypeOK
<1>9. ASSUME NEW s \in Sims, LoopClose(s) PROVE ConnTypeOK'
  BY <1>9 DEF LoopClose, ConnTypeOK, Cancelled, Closed
<1>10. ASSUME NEW s \in Sims, LoopCancelled(s) PROVE ConnTypeOK'
  BY <1>10 DEF LoopCancelled, ConnTypeOK, Cancelled, Closed
<1>11. ASSUME NEW s \in Sims, BrokenRetry(s) PROVE ConnTypeOK'
  BY <1>11 DEF BrokenRetry, ConnTypeOK
<1>12. ASSUME NEW s \in Sims, BrokenCancelled(s) PROVE ConnTypeOK'
  BY <1>12 DEF BrokenCancelled, ConnTypeOK, Cancelled, Closed
<1>13. ASSUME NEW s \in Sims, Receive(s) PROVE ConnTypeOK'
  BY <1>13 DEF Receive, ConnTypeOK, Cancelled
<1>14. ASSUME NEW s \in Sims, RecvError(s) PROVE ConnTypeOK'
  BY <1>14 DEF RecvError, ConnTypeOK, Cancelled
<1>15. ASSUME NEW s \in Sims, RecvReport(s) PROVE ConnTypeOK'
  BY <1>15 DEF RecvReport, ConnTypeOK
<1>16. CASE CancelContext
  BY <1>16 DEF CancelContext, ConnTypeOK
<1>17. CASE UNCHANGED connVars
  BY <1>17 DEF connVars, ConnTypeOK
<1> QED
  BY <1>1, <1>2, <1>3, <1>4, <1>5, <1>6, <1>7, <1>8, <1>9, <1>10, <1>11, <1>12, <1>13, <1>14, <1>15, <1>16, <1>17
  DEF ConnNext, ConnectStep, ReceiverStep

\* The streams' invariant is inductive.
LEMMA StreamsStep == ConnInv /\ [ConnNext]_connVars => StreamsInv'
<1> SUFFICES ASSUME ConnTypeOK, StreamsInv, [ConnNext]_connVars PROVE StreamsInv'
  BY DEF ConnInv
<1>1. ASSUME NEW s \in Sims, SimRun(s) PROVE StreamsInv'
  BY <1>1 DEF SimRun, ConnTypeOK, StreamsInv
<1>2. ASSUME NEW s \in Sims, CleanupCall(s) PROVE StreamsInv'
  BY <1>2 DEF CleanupCall, ConnTypeOK, StreamsInv
<1>3. ASSUME NEW s \in Sims, CleanupReturn(s) PROVE StreamsInv'
  BY <1>3 DEF CleanupReturn, ConnTypeOK, StreamsInv
<1>4. ASSUME NEW s \in Sims, Dialled(s) PROVE StreamsInv'
  BY <1>4 DEF Dialled, ConnTypeOK, StreamsInv, Cancelled
<1>5. ASSUME NEW s \in Sims, DialFailed(s) PROVE StreamsInv'
  BY <1>5 DEF DialFailed, ConnTypeOK, StreamsInv, Cancelled
<1>6. ASSUME NEW s \in Sims, FailedRetry(s) PROVE StreamsInv'
  BY <1>6 DEF FailedRetry, ConnTypeOK, StreamsInv
<1>7. ASSUME NEW s \in Sims, FailedCancelled(s) PROVE StreamsInv'
  BY <1>7 DEF FailedCancelled, ConnTypeOK, StreamsInv, Cancelled, Closed
<1>8. ASSUME NEW s \in Sims, LoopUpdate(s) PROVE StreamsInv'
  BY <1>8 DEF LoopUpdate, ConnTypeOK, StreamsInv
<1>9. ASSUME NEW s \in Sims, LoopClose(s) PROVE StreamsInv'
  BY <1>9 DEF LoopClose, ConnTypeOK, StreamsInv, Cancelled, Closed
<1>10. ASSUME NEW s \in Sims, LoopCancelled(s) PROVE StreamsInv'
  BY <1>10 DEF LoopCancelled, ConnTypeOK, StreamsInv, Cancelled, Closed
<1>11. ASSUME NEW s \in Sims, BrokenRetry(s) PROVE StreamsInv'
  BY <1>11 DEF BrokenRetry, ConnTypeOK, StreamsInv
<1>12. ASSUME NEW s \in Sims, BrokenCancelled(s) PROVE StreamsInv'
  BY <1>12 DEF BrokenCancelled, ConnTypeOK, StreamsInv, Cancelled, Closed
<1>13. ASSUME NEW s \in Sims, Receive(s) PROVE StreamsInv'
  BY <1>13 DEF Receive, ConnTypeOK, StreamsInv, Cancelled
<1>14. ASSUME NEW s \in Sims, RecvError(s) PROVE StreamsInv'
  BY <1>14 DEF RecvError, ConnTypeOK, StreamsInv, Cancelled
<1>15. ASSUME NEW s \in Sims, RecvReport(s) PROVE StreamsInv'
  BY <1>15 DEF RecvReport, ConnTypeOK, StreamsInv
<1>16. CASE CancelContext
  BY <1>16 DEF CancelContext, ConnTypeOK, StreamsInv
<1>17. CASE UNCHANGED connVars
  BY <1>17 DEF connVars, ConnTypeOK, StreamsInv
<1> QED
  BY <1>1, <1>2, <1>3, <1>4, <1>5, <1>6, <1>7, <1>8, <1>9, <1>10, <1>11, <1>12, <1>13, <1>14, <1>15, <1>16, <1>17
  DEF ConnNext, ConnectStep, ReceiverStep

\* A step of the program is a step of its connections, or leaves them alone.
LEMMA ProgramIsConn ==
    ProgramTypeOK /\ [ProgramNext]_allVars => [ConnNext]_connVars
<1> SUFFICES ASSUME ProgramTypeOK, [ProgramNext]_allVars PROVE [ConnNext]_connVars
  OBVIOUS
<1>1. next <= Count => next \in Sims
  BY AdscProgramAssumption DEF ProgramTypeOK
<1> QED
  BY <1>1 DEF ProgramNext, MainStep, RunNext, RunEnd, WaitEnd, CleanNext,
              CleanedNext, Exit, ConnNext, allVars

\* Nor does a step take the program's own variables out of their types.
LEMMA MainTyping ==
    ProgramTypeOK /\ [ProgramNext]_allVars
      => /\ main' \in {"run", "wait", "cleanup", "exit"}
         /\ next' \in 1..Count + 1
  BY AdscProgramAssumption
  DEF ProgramTypeOK, ProgramNext, MainStep, RunNext, RunEnd, WaitEnd, CleanNext,
      CleanedNext, Exit, allVars, programVars

\* The inductive invariant holds in every reachable state.
LEMMA ProgramInvariant == ProgramSpec => [](ProgramTypeOK /\ ConnInv)
<1>1. ProgramInit => ProgramTypeOK /\ ConnInv
  BY ConnStart, AdscProgramAssumption DEF ProgramInit, ProgramTypeOK, ConnInv
<1>2. ProgramTypeOK /\ ConnInv /\ [ProgramNext]_allVars => (ProgramTypeOK /\ ConnInv)'
  BY ProgramIsConn, ConnTyping, StreamsStep, MainTyping DEF ProgramTypeOK, ConnInv
<1> QED
  BY <1>1, <1>2, PTL DEF ProgramSpec

\* The program and its connections keep their types.
THEOREM ProgramTyping == ProgramSpec => []ProgramTypeOK
  BY ProgramInvariant, PTL

\* Connect dials again only after the stream before has ended, with its
\* connection closed and its receiver gone.
THEOREM OneStream == ProgramSpec => []OneStreamAtATime
<1>1. ProgramTypeOK /\ ConnInv => OneStreamAtATime
  BY DEF ProgramTypeOK, ConnInv, ConnTypeOK, StreamsInv, OneStreamAtATime
<1> QED
  BY <1>1, ProgramInvariant, PTL

\* When Cleanup returns, the last stream is closed and Connect is over.
THEOREM CleanupIsFinal == ProgramSpec => []CleanupCloses
<1>1. ConnInv => CleanupCloses
  BY DEF ConnInv, StreamsInv, CleanupCloses
<1> QED
  BY <1>1, ProgramInvariant, PTL
=============================================================================
