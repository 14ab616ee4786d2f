--------------------------- MODULE BatchReporter ---------------------------
(***************************************************************************)
(* pkg/victoria/batch.go: callers of Report push entries into a bounded    *)
(* channel; one goroutine, the flusher, collects them into batches that it *)
(* posts when they are full, when the ticker fires, and when Close is      *)
(* called.  Close closes a second channel and waits for the flusher.       *)
(*                                                                         *)
(* An entry is its serial number: what it says is never looked at.         *)
(***************************************************************************)
EXTENDS Integers, Sequences

CONSTANTS Producers,   \* the goroutines that call Report
          ChanCap,     \* capacity of entryChan (500)
          MaxBatch,    \* MAX_BATCH (500)
          MaxArgs,     \* bound: entries given to one call of Report
          MaxReports   \* bound: entries given to all calls of Report

ASSUME BatchReporterAssumption ==
    /\ ChanCap \in Nat \ {0}
    /\ MaxBatch \in Nat \ {0}
    /\ MaxArgs \in Nat
    /\ MaxReports \in Nat

VARIABLES
    want,       \* want[p]: the entries left in p's current call of Report
    reported,   \* how many entries were ever given to Report
    entryChan,  \* the buffered channel
    closeChan,  \* has closeChan been closed?
    batch,      \* the flusher's slice
    flusher,    \* where the flusher is
    closer,     \* where the one caller of Close is
    \* history
    accepted,   \* every entry put into entryChan, in order
    sent,       \* every entry a finished send was given, in order
    atClose     \* Len(accepted) when Close was called

vars == <<want, reported, entryChan, closeChan, batch, flusher, closer,
          accepted, sent, atClose>>

Entries == Seq(Nat)

Numbers(from, k) == [i \in 1..k |-> from + i]

Init ==
    /\ want = [p \in Producers |-> <<>>]
    /\ reported = 0
    /\ entryChan = <<>>
    /\ closeChan = FALSE
    /\ batch = <<>>
    /\ flusher = "select"
    /\ closer = "open"
    /\ accepted = <<>>
    /\ sent = <<>>
    /\ atClose = 0
-----------------------------------------------------------------------------
(* Slips: each is an action below with a plausible mistake, which some       *)
(* property has to notice.  They are not part of Next.                       *)

\* the send does not wait for room in the channel
ReportSendUnbounded(p) ==
    /\ want[p] # <<>>
    /\ entryChan' = Append(entryChan, Head(want[p]))
    /\ accepted' = Append(accepted, Head(want[p]))
    /\ want' = [want EXCEPT ![p] = Tail(@)]
    /\ UNCHANGED <<reported, closeChan, batch, flusher, closer, sent, atClose>>

\* Report is a plain send, without the closeChan case
ReportGiveUpMissing(p) == FALSE

\* len(batch) > MAX_BATCH
FlusherReceiveLate ==
    /\ flusher = "select"
    /\ entryChan # <<>>
    /\ batch' = Append(batch, Head(entryChan))
    /\ entryChan' = Tail(entryChan)
    /\ flusher' = IF Len(batch') > MaxBatch THEN "post" ELSE "select"
    /\ UNCHANGED <<want, reported, closeChan, closer, accepted, sent, atClose>>

\* the select has no ticker case
FlusherTickMissing == FALSE

\* send without batch = batch[0:0]
FlusherSendKeeps ==
    /\ flusher \in {"post", "postLast"}
    /\ sent' = sent \o batch
    /\ flusher' = IF flusher = "post" THEN "select" ELSE "done"
    /\ UNCHANGED <<want, reported, entryChan, closeChan, batch, closer,
                   accepted, atClose>>

\* the closeChan case sends the slice and returns without draining
FlusherClosedNoDrain ==
    /\ flusher = "select"
    /\ closeChan
    /\ flusher' = IF Len(batch) > 0 THEN "postLast" ELSE "done"
    /\ UNCHANGED <<want, reported, entryChan, closeChan, batch, closer,
                   accepted, sent, atClose>>

\* the default case breaks out of the select only, not out of the loop
FlusherDrainedBreak ==
    /\ flusher = "drain"
    /\ entryChan = <<>>
    /\ flusher' = IF Len(batch) > 0 THEN "post" ELSE "drain"
    /\ UNCHANGED <<want, reported, entryChan, closeChan, batch, closer,
                   accepted, sent, atClose>>
-----------------------------------------------------------------------------
(* Report *)

\* Report(entries...) is called with k entries.
ReportCall(p, k) ==
    /\ want[p] = <<>>
    /\ reported + k <= MaxReports
    /\ want' = [want EXCEPT ![p] = Numbers(reported, k)]
    /\ reported' = reported + k
    /\ UNCHANGED <<entryChan, closeChan, batch, flusher, closer,
                   accepted, sent, atClose>>

\* case br.entryChan <- entry
ReportSend(p) ==
    /\ want[p] # <<>>
    /\ Len(entryChan) < ChanCap
    /\ entryChan' = Append(entryChan, Head(want[p]))
    /\ accepted' = Append(accepted, Head(want[p]))
    /\ want' = [want EXCEPT ![p] = Tail(@)]
    /\ UNCHANGED <<reported, closeChan, batch, flusher, closer, sent, atClose>>

\* case <-br.closeChan: the entries not yet pushed are given up
ReportGiveUp(p) ==
    /\ want[p] # <<>>
    /\ closeChan
    /\ want' = [want EXCEPT ![p] = <<>>]
    /\ UNCHANGED <<reported, entryChan, closeChan, batch, flusher, closer,
                   accepted, sent, atClose>>
-----------------------------------------------------------------------------
(* Close *)

CloseCall ==
    /\ closer = "open"
    /\ closeChan' = TRUE
    /\ closer' = "waiting"
    /\ atClose' = Len(accepted)
    /\ UNCHANGED <<want, reported, entryChan, batch, flusher, accepted, sent>>

\* br.wg.Wait returns
CloseReturn ==
    /\ closer = "waiting"
    /\ flusher = "done"
    /\ closer' = "returned"
    /\ UNCHANGED <<want, reported, entryChan, closeChan, batch, flusher,
                   accepted, sent, atClose>>
-----------------------------------------------------------------------------
(* flusher: "select" and "drain" are the two select statements, "post" and  *)
(* "postLast" the calls of send made from them, which block on the server.  *)

FlusherReceive ==
    /\ flusher = "select"
    /\ entryChan # <<>>
    /\ batch' = Append(batch, Head(entryChan))
    /\ entryChan' = Tail(entryChan)
    /\ flusher' = IF Len(batch') >= MaxBatch THEN "post" ELSE "select"
    /\ UNCHANGED <<want, reported, closeChan, closer, accepted, sent, atClose>>

\* case <-ticker.C with entries to send; a tick with none changes nothing
FlusherTick ==
    /\ flusher = "select"
    /\ Len(batch) > 0
    /\ flusher' = "post"
    /\ UNCHANGED <<want, reported, entryChan, closeChan, batch, closer,
                   accepted, sent, atClose>>

\* The POST is answered.  An error is logged and the batch is gone all the
\* same, so success and failure take the same step.
FlusherSendReturn ==
    /\ flusher \in {"post", "postLast"}
    /\ sent' = sent \o batch
    /\ batch' = <<>>
    /\ flusher' = IF flusher = "post" THEN "select" ELSE "done"
    /\ UNCHANGED <<want, reported, entryChan, closeChan, closer,
                   accepted, atClose>>

\* case <-br.closeChan
FlusherClosed ==
    /\ flusher = "select"
    /\ closeChan
    /\ flusher' = "drain"
    /\ UNCHANGED <<want, reported, entryChan, closeChan, batch, closer,
                   accepted, sent, atClose>>

FlusherDrain ==
    /\ flusher = "drain"
    /\ entryChan # <<>>
    /\ batch' = Append(batch, Head(entryChan))
    /\ entryChan' = Tail(entryChan)
    /\ UNCHANGED <<want, reported, closeChan, flusher, closer,
                   accepted, sent, atClose>>

\* default: nothing is left in the channel
FlusherDrained ==
    /\ flusher = "drain"
    /\ entryChan = <<>>
    /\ flusher' = IF Len(batch) > 0 THEN "postLast" ELSE "done"
    /\ UNCHANGED <<want, reported, entryChan, closeChan, batch, closer,
                   accepted, sent, atClose>>
-----------------------------------------------------------------------------
FlusherNext ==
    \/ FlusherReceive \/ FlusherTick \/ FlusherSendReturn
    \/ FlusherClosed \/ FlusherDrain \/ FlusherDrained

ReportStep(p) == ReportSend(p) \/ ReportGiveUp(p)

Next ==
    \/ \E p \in Producers : \/ \E k \in 1..MaxArgs : ReportCall(p, k)
                            \/ ReportStep(p)
    \/ CloseCall
    \/ CloseReturn
    \/ FlusherNext

Spec == Init /\ [][Next]_vars

\* The Go scheduler runs every goroutine that can go on, the ticker fires
\* again and again, and the server answers every POST.
Fairness ==
    /\ WF_vars(FlusherNext)
    /\ WF_vars(CloseReturn)
    /\ \A p \in Producers : WF_vars(ReportStep(p))

FairSpec == Spec /\ Fairness
-----------------------------------------------------------------------------
(* Properties *)

\* The state has the shape the Go types give it, and the channel never holds
\* more than its capacity.
TypeOK ==
    /\ want \in [Producers -> Entries]
    /\ reported \in Nat
    /\ entryChan \in Entries
    /\ Len(entryChan) <= ChanCap
    /\ closeChan \in BOOLEAN
    /\ batch \in Entries
    /\ flusher \in {"select", "post", "drain", "postLast", "done"}
    /\ closer \in {"open", "waiting", "returned"}
    /\ accepted \in Entries
    /\ sent \in Entries
    /\ atClose \in Nat

\* Conservation: however Report, Close, the ticker and the server interleave,
\* the entries Report pushed are the ones sent, followed by the ones in the
\* slice, followed by the ones in the channel: none lost, doubled, reordered.
Accounting == accepted = sent \o batch \o entryChan

\* A batch posted while the reporter is open never exceeds MAX_BATCH, and the
\* flusher never waits in its select with a full batch.  The batch posted at
\* Close takes what was in the slice and in the channel, and beyond that only
\* what callers got into the channel after Close was called.
BatchWithinMax ==
    /\ flusher = "select" => Len(batch) < MaxBatch
    /\ flusher = "post" => Len(batch) \in 1..MaxBatch
    /\ flusher \in {"drain", "postLast"} =>
          Len(batch) + Len(entryChan) < MaxBatch + ChanCap + Len(accepted) - atClose

\* Close is a flush: once it has returned, every entry pushed before it was
\* called has been sent, although reporters may have raced with it.
CloseFlushes == closer = "returned" => Len(sent) >= atClose

\* Report returns: a caller blocked on a full channel is released by the
\* flusher or by Close, even if the flusher is gone.
ReportReturns == \A p \in Producers : want[p] # <<>> ~> want[p] = <<>>

\* An entry in the channel or the slice of an open reporter does not wait for
\* MAX_BATCH entries: the ticker sends it.
AcceptedIsSent ==
    \A n \in 1..MaxReports :
        Len(accepted) >= n ~> (Len(sent) >= n \/ closeChan)
=============================================================================
