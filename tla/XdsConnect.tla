----------------------------- MODULE XdsConnect -----------------------------
(***************************************************************************)
(* The life of XDS connections: pkg/simulation/xds (Run, Cleanup), the     *)
(* loop of adsc.Connect in adsc/load.go, and the goroutine that receives   *)
(* on a stream, ADSC.handleRecv or deltaClient.handleRecv.                 *)
(*                                                                         *)
(* A simulation runs Connect in a goroutine.  Connect dials, waits for     *)
(* updates until the receiver reports "close", waits out a backoff and     *)
(* dials again, until the context is done.  What travels on the stream is  *)
(* left to DeltaClient; here a stream delivers something or breaks.        *)
(***************************************************************************)
EXTENDS Integers, Sequences

CONSTANTS Sims,      \* the simulations
          UpdCap,    \* capacity of the updates channel (100)
          MaxFails,  \* bound: dials that fail although the context is live
          MaxBreaks  \* bound: streams that break by themselves

ASSUME XdsConnectAssumption ==
    /\ UpdCap \in Nat \ {0}
    /\ MaxFails \in Nat
    /\ MaxBreaks \in Nat

VARIABLES
    delta,    \* delta[s]: is s a delta client? (--delta)
    ctxDone,  \* has the context given to Run been cancelled?
    cancel,   \* cancel[s]: has Cleanup called x.cancel?
    pc,       \* pc[s]: where Connect is; "idle" before Run, "done" after
              \* close(x.done)
    conn,     \* conn[s]: the connection con refers to: "none", "open", "closed"
    lost,     \* lost[s]: open connections nothing refers to any more
    recv,     \* recv[s]: the receiver of the last stream
    updates,  \* updates[s]: the channel between receiver and Connect
    cleanup,  \* cleanup[s]: where a call of Cleanup is
    fails,    \* how many dials have failed
    breaks    \* how many streams have broken

connVars == <<delta, ctxDone, cancel, pc, conn, lost, recv, updates, cleanup,
              fails, breaks>>

ConnInit ==
    /\ delta \in [Sims -> BOOLEAN]
    /\ ctxDone = FALSE
    /\ cancel = [s \in Sims |-> FALSE]
    /\ pc = [s \in Sims |-> "idle"]
    /\ conn = [s \in Sims |-> "none"]
    /\ lost = [s \in Sims |-> 0]
    /\ recv = [s \in Sims |-> "none"]
    /\ updates = [s \in Sims |-> <<>>]
    /\ cleanup = [s \in Sims |-> "no"]
    /\ fails = 0
    /\ breaks = 0

\* config.Context.Done() of s is closed.
Cancelled(s) == ctxDone \/ cancel[s]
-----------------------------------------------------------------------------
(* Simulation *)

\* Run starts the goroutine that calls Connect.
SimRun(s) ==
    /\ pc[s] = "idle"
    /\ pc' = [pc EXCEPT ![s] = "dial"]
    /\ UNCHANGED <<delta, ctxDone, cancel, conn, lost, recv, updates, cleanup,
                   fails, breaks>>

\* Cleanup cancels the context Run made, if there is one.
CleanupCall(s) ==
    /\ cleanup[s] = "no"
    /\ cleanup' = [cleanup EXCEPT ![s] = "waiting"]
    /\ cancel' = [cancel EXCEPT ![s] = pc[s] # "idle"]
    /\ UNCHANGED <<delta, ctxDone, pc, conn, lost, recv, updates, fails, breaks>>

\* <-x.done: a nil channel before Run, closed once Connect has returned
CleanupReturn(s) ==
    /\ cleanup[s] = "waiting"
    /\ pc[s] = "done"
    /\ cleanup' = [cleanup EXCEPT ![s] = "returned"]
    /\ UNCHANGED <<delta, ctxDone, cancel, pc, conn, lost, recv, updates,
                   fails, breaks>>

\* The context of the program is cancelled.
CancelContext ==
    /\ ~ctxDone
    /\ ctxDone' = TRUE
    /\ UNCHANGED <<delta, cancel, pc, conn, lost, recv, updates, cleanup,
                   fails, breaks>>
-----------------------------------------------------------------------------
(* Slips *)

\* the receiver does not empty the channel before it reports
RecvErrorNoClear(s) ==
    /\ recv[s] = "recv"
    /\ Cancelled(s) \/ conn[s] = "closed" \/ breaks < MaxBreaks
    /\ breaks' = IF Cancelled(s) \/ conn[s] = "closed" THEN breaks ELSE breaks + 1
    /\ conn' = [conn EXCEPT ![s] = "closed"]
    /\ recv' = [recv EXCEPT ![s] = "report"]
    /\ UNCHANGED <<delta, ctxDone, cancel, pc, lost, updates, cleanup, fails>>

\* the receiver does not close the connection
RecvErrorNoClose(s) ==
    /\ recv[s] = "recv"
    /\ Cancelled(s) \/ conn[s] = "closed" \/ breaks < MaxBreaks
    /\ breaks' = IF Cancelled(s) \/ conn[s] = "closed" THEN breaks ELSE breaks + 1
    /\ updates' = [updates EXCEPT ![s] = <<>>]
    /\ recv' = [recv EXCEPT ![s] = "report"]
    /\ UNCHANGED <<delta, ctxDone, cancel, pc, conn, lost, cleanup, fails>>

\* the loop returns without closing
LoopCancelledOpen(s) ==
    /\ pc[s] = "loop"
    /\ Cancelled(s)
    /\ pc' = [pc EXCEPT ![s] = "done"]
    /\ UNCHANGED <<delta, ctxDone, cancel, conn, lost, recv, updates, cleanup,
                   fails, breaks>>

\* a failed dial is waited out before anything looks at the context
DialFailedSleeps(s) ==
    /\ pc[s] = "dial"
    /\ Cancelled(s) \/ fails < MaxFails
    /\ fails' = IF Cancelled(s) THEN fails ELSE fails + 1
    /\ pc' = [pc EXCEPT ![s] = "failed"]
    /\ conn' = [conn EXCEPT ![s] = "none"]
    /\ UNCHANGED <<delta, ctxDone, cancel, lost, recv, updates, cleanup, breaks>>

\* an update is sent although the channel is full
ReceiveUnbounded(s) ==
    /\ recv[s] = "recv"
    /\ conn[s] = "open"
    /\ ~Cancelled(s)
    /\ ~delta[s]
    /\ updates' = [updates EXCEPT ![s] = Append(@, "update")]
    /\ UNCHANGED <<delta, ctxDone, cancel, pc, conn, lost, recv, cleanup,
                   fails, breaks>>
-----------------------------------------------------------------------------
(* Connect *)

\* Dial succeeds, and Watch is called.  No stream is opened on a context that
\* is done.
Dialled(s) ==
    /\ pc[s] = "dial"
    /\ ~Cancelled(s)
    /\ pc' = [pc EXCEPT ![s] = "loop"]
    /\ conn' = [conn EXCEPT ![s] = "open"]
    /\ recv' = [recv EXCEPT ![s] = "recv"]
    /\ updates' = [updates EXCEPT ![s] = <<>>]
    /\ UNCHANGED <<delta, ctxDone, cancel, lost, cleanup, fails, breaks>>

\* Dial fails: without a connection, or with one on which no stream could be
\* opened.  DialDelta then returns no client, and the connection is lost; Dial
\* returns the client that has it.  With the context done the select after it
\* returns at once, and closes what it has.
DialFailed(s) ==
    /\ pc[s] = "dial"
    /\ Cancelled(s) \/ fails < MaxFails
    /\ fails' = IF Cancelled(s) THEN fails ELSE fails + 1
    /\ pc' = [pc EXCEPT ![s] = IF Cancelled(s) THEN "done" ELSE "failed"]
    /\ \/ /\ conn' = [conn EXCEPT ![s] = "none"]
          /\ UNCHANGED lost
       \/ IF delta[s]
          THEN /\ conn' = [conn EXCEPT ![s] = "none"]
               /\ lost' = [lost EXCEPT ![s] = @ + 1]
          ELSE /\ conn' = [conn EXCEPT ![s] = IF Cancelled(s) THEN "closed" ELSE "open"]
               /\ UNCHANGED lost
    /\ UNCHANGED <<delta, ctxDone, cancel, recv, updates, cleanup, breaks>>

\* <-time.After(bo): the loop goes on, and con is overwritten
FailedRetry(s) ==
    /\ pc[s] = "failed"
    /\ pc' = [pc EXCEPT ![s] = "dial"]
    /\ lost' = [lost EXCEPT ![s] = IF conn[s] = "open" THEN @ + 1 ELSE @]
    /\ conn' = [conn EXCEPT ![s] = "none"]
    /\ UNCHANGED <<delta, ctxDone, cancel, recv, updates, cleanup, fails, breaks>>

Closed(c) == IF c = "open" THEN "closed" ELSE c

\* The context is done while Connect waits after a failed dial.
FailedCancelled(s) ==
    /\ pc[s] = "failed"
    /\ Cancelled(s)
    /\ pc' = [pc EXCEPT ![s] = "done"]
    /\ conn' = [conn EXCEPT ![s] = Closed(@)]
    /\ UNCHANGED <<delta, ctxDone, cancel, lost, recv, updates, cleanup,
                   fails, breaks>>

\* An update resets the backoff and is otherwise only logged.
LoopUpdate(s) ==
    /\ pc[s] = "loop"
    /\ updates[s] # <<>>
    /\ Head(updates[s]) = "update"
    /\ updates' = [updates EXCEPT ![s] = Tail(@)]
    /\ UNCHANGED <<delta, ctxDone, cancel, pc, conn, lost, recv, cleanup,
                   fails, breaks>>

\* "close" leaves the loop.  The select that follows returns at once if the
\* context is done.
LoopClose(s) ==
    /\ pc[s] = "loop"
    /\ updates[s] # <<>>
    /\ Head(updates[s]) = "close"
    /\ updates' = [updates EXCEPT ![s] = Tail(@)]
    /\ pc' = [pc EXCEPT ![s] = IF Cancelled(s) THEN "done" ELSE "broken"]
    /\ conn' = [conn EXCEPT ![s] = IF Cancelled(s) THEN Closed(@) ELSE @]
    /\ UNCHANGED <<delta, ctxDone, cancel, lost, recv, cleanup, fails, breaks>>

LoopCancelled(s) ==
    /\ pc[s] = "loop"
    /\ Cancelled(s)
    /\ pc' = [pc EXCEPT ![s] = "done"]
    /\ conn' = [conn EXCEPT ![s] = Closed(@)]
    /\ UNCHANGED <<delta, ctxDone, cancel, lost, recv, updates, cleanup,
                   fails, breaks>>

\* <-time.After(bo) after a stream broke
BrokenRetry(s) ==
    /\ pc[s] = "broken"
    /\ pc' = [pc EXCEPT ![s] = "dial"]
    /\ UNCHANGED <<delta, ctxDone, cancel, conn, lost, recv, updates, cleanup,
                   fails, breaks>>

BrokenCancelled(s) ==
    /\ pc[s] = "broken"
    /\ Cancelled(s)
    /\ pc' = [pc EXCEPT ![s] = "done"]
    /\ conn' = [conn EXCEPT ![s] = Closed(@)]
    /\ UNCHANGED <<delta, ctxDone, cancel, lost, recv, updates, cleanup,
                   fails, breaks>>
-----------------------------------------------------------------------------
(* The receiver *)

\* A response has been handled.  ADSC reports it unless the channel is full,
\* deltaClient reports none.
Receive(s) ==
    /\ recv[s] = "recv"
    /\ conn[s] = "open"
    /\ ~Cancelled(s)
    /\ ~delta[s]
    /\ Len(updates[s]) < UpdCap
    /\ updates' = [updates EXCEPT ![s] = Append(@, "update")]
    /\ UNCHANGED <<delta, ctxDone, cancel, pc, conn, lost, recv, cleanup,
                   fails, breaks>>

\* Recv fails: the stream broke, was closed or its context is done.  The
\* receiver closes the connection, and ADSC's empties the channel (WaitClear).
RecvError(s) ==
    /\ recv[s] = "recv"
    /\ Cancelled(s) \/ conn[s] = "closed" \/ breaks < MaxBreaks
    /\ breaks' = IF Cancelled(s) \/ conn[s] = "closed" THEN breaks ELSE breaks + 1
    /\ conn' = [conn EXCEPT ![s] = "closed"]
    /\ updates' = [updates EXCEPT ![s] = <<>>]
    /\ recv' = [recv EXCEPT ![s] = "report"]
    /\ UNCHANGED <<delta, ctxDone, cancel, pc, lost, cleanup, fails>>

\* updates <- "close", which waits for room
RecvReport(s) ==
    /\ recv[s] = "report"
    /\ Len(updates[s]) < UpdCap
    /\ updates' = [updates EXCEPT ![s] = Append(@, "close")]
    /\ recv' = [recv EXCEPT ![s] = "ended"]
    /\ UNCHANGED <<delta, ctxDone, cancel, pc, conn, lost, cleanup, fails, breaks>>
-----------------------------------------------------------------------------
ConnectStep(s) ==
    \/ Dialled(s) \/ DialFailed(s)
    \/ FailedRetry(s) \/ FailedCancelled(s)
    \/ LoopUpdate(s) \/ LoopClose(s) \/ LoopCancelled(s)
    \/ BrokenRetry(s) \/ BrokenCancelled(s)

ReceiverStep(s) == Receive(s) \/ RecvError(s) \/ RecvReport(s)

\* The receiver of a stream that cannot go on ends.
ReceiverEnds(s) ==
    \/ RecvReport(s)
    \/ (Cancelled(s) \/ conn[s] = "closed") /\ RecvError(s)
-----------------------------------------------------------------------------
(* Properties *)

ConnTypeOK ==
    /\ delta \in [Sims -> BOOLEAN]
    /\ ctxDone \in BOOLEAN
    /\ cancel \in [Sims -> BOOLEAN]
    /\ pc \in [Sims -> {"idle", "dial", "failed", "loop", "broken", "done"}]
    /\ conn \in [Sims -> {"none", "open", "closed"}]
    /\ lost \in [Sims -> Nat]
    /\ recv \in [Sims -> {"none", "recv", "report", "ended"}]
    /\ updates \in [Sims -> Seq({"update", "close"})]
    /\ \A s \in Sims : Len(updates[s]) <= UpdCap
    /\ cleanup \in [Sims -> {"no", "waiting", "returned"}]
    /\ fails \in 0..MaxFails
    /\ breaks \in 0..MaxBreaks

\* Connect dials again only when the stream before has ended: its connection
\* is closed, although Connect itself closes none on this path, and its
\* receiver is gone, so that no two receivers serve one simulation.
OneStreamAtATime ==
    \A s \in Sims : pc[s] \in {"dial", "broken"} =>
                        conn[s] # "open" /\ recv[s] \in {"none", "ended"}

\* When Cleanup returns, the connection of the last stream is closed and
\* Connect dials no more.
CleanupCloses ==
    \A s \in Sims : cleanup[s] = "returned" => pc[s] = "done" /\ conn[s] # "open"

\* No receiver stays behind once Connect has returned, blocked on a channel
\* nobody reads.
ReceiversEnd == \A s \in Sims : pc[s] = "done" ~> recv[s] \in {"none", "ended"}

\* "We are really done now. Shut everything down and stop" (load.go:99): when
\* Connect leaves its loop because the context is done, no connection it ever
\* dialled stays open.
EverythingShutDown ==
    [][\A s \in Sims : LoopCancelled(s) => lost'[s] = 0 /\ conn'[s] # "open"]_connVars
=============================================================================
