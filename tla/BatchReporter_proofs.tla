------------------------ MODULE BatchReporter_proofs ------------------------
(***************************************************************************)
(* What the runs of BatchReporter show on a channel of two, proved for     *)
(* every capacity, batch size, set of callers and number of entries.       *)
(***************************************************************************)
EXTENDS BatchReporter, SequenceTheorems, TLAPS

-----------------------------------------------------------------------------
(* Sequences of entries *)

\* The channel operations stay within the type: what is pushed, taken and
\* concatenated are sequences of entries again.
LEMMA EntriesClosed ==
    ASSUME NEW s \in Entries, NEW t \in Entries
    PROVE  /\ s \o t \in Entries
           /\ Len(s \o t) = Len(s) + Len(t)
           /\ Len(s) \in Nat
           /\ \A e \in Nat : /\ Append(s, e) \in Entries
                            /\ Len(Append(s, e)) = Len(s) + 1
           /\ s # <<>> => /\ Head(s) \in Nat
                          /\ Tail(s) \in Entries
                          /\ Len(Tail(s)) = Len(s) - 1
           /\ Len(s) = 0 <=> s = <<>>
  BY DEF Entries

\* The empty channel and slice.
LEMMA EmptyEntries == <<>> \in Entries /\ Len(<<>>) = 0
  BY DEF Entries

\* The entries of one call of Report.
LEMMA NumbersEntries ==
    ASSUME NEW from \in Nat, NEW k \in Nat
    PROVE  Numbers(from, k) \in Entries
  BY DEF Numbers, Entries

\* Concatenation is associative.
LEMMA ConcatAssoc ==
    ASSUME NEW s \in Entries, NEW t \in Entries, NEW u \in Entries
    PROVE  (s \o t) \o u = s \o (t \o u)
  BY SMTT(30) DEF Entries

\* Moving the head of the channel to the end of the slice keeps what is
\* before, in and after them: the step of FlusherReceive and FlusherDrain.
LEMMA MoveHead ==
    ASSUME NEW s \in Entries, NEW t \in Entries, NEW u \in Entries, u # <<>>
    PROVE  (s \o Append(t, Head(u))) \o Tail(u) = (s \o t) \o u
  <1> DEFINE h == <<Head(u)>>
  <1>1. h \in Entries /\ Tail(u) \in Entries /\ s \o t \in Entries
    BY EntriesClosed DEF Entries
  <1>2. Append(t, Head(u)) = t \o h
    BY SMTT(30) DEF Entries
  <1>3. u = h \o Tail(u)
    BY SMTT(30) DEF Entries
  <1> HIDE DEF h
  <1>4. s \o (t \o h) = (s \o t) \o h
    BY <1>1, ConcatAssoc, SMTT(60)
  <1>5. ((s \o t) \o h) \o Tail(u) = (s \o t) \o (h \o Tail(u))
    BY <1>1, ConcatAssoc, SMTT(60)
  <1>6. QED
    BY <1>2, <1>3, <1>4, <1>5

\* A send to the channel appends to the whole.
LEMMA AppendLast ==
    ASSUME NEW s \in Entries, NEW t \in Entries, NEW e \in Nat
    PROVE  s \o Append(t, e) = Append(s \o t, e)
  BY DEF Entries
-----------------------------------------------------------------------------
(* Type correctness *)

\* The state of the reporter keeps its shape, and the channel its capacity,
\* whatever its callers do.
THEOREM Typing == Spec => []TypeOK
  <1>1. Init => TypeOK
    <2> SUFFICES ASSUME Init PROVE TypeOK
      OBVIOUS
    <2>1. want \in [Producers -> Entries]
      BY EmptyEntries DEF Init
    <2>2. Len(entryChan) <= ChanCap /\ entryChan \in Entries
      BY EmptyEntries, BatchReporterAssumption DEF Init
    <2>3. QED
      BY <2>1, <2>2, EmptyEntries DEF Init, TypeOK
  <1>2. TypeOK /\ [Next]_vars => TypeOK'
    <2> SUFFICES ASSUME TypeOK, [Next]_vars
                 PROVE  TypeOK'
      OBVIOUS
    <2> USE BatchReporterAssumption DEF TypeOK
    <2>1. ASSUME NEW p \in Producers, NEW k \in 1..MaxArgs, ReportCall(p, k)
          PROVE  TypeOK'
      <3>1. Numbers(reported, k) \in Entries /\ reported + k \in Nat
        BY NumbersEntries
      <3>2. QED
        BY <2>1, <3>1 DEF ReportCall
    <2>2. ASSUME NEW p \in Producers, ReportSend(p)
          PROVE  TypeOK'
      <3>1. want[p] \in Entries /\ want[p] # <<>>
        BY <2>2 DEF ReportSend
      <3>2. Head(want[p]) \in Nat /\ Tail(want[p]) \in Entries
        BY <3>1, EntriesClosed
      <3>3. /\ Append(entryChan, Head(want[p])) \in Entries
            /\ Len(Append(entryChan, Head(want[p]))) = Len(entryChan) + 1
            /\ Append(accepted, Head(want[p])) \in Entries
            /\ Len(entryChan) \in Nat
        BY <3>2, EntriesClosed
      <3>4. QED
        BY <2>2, <3>2, <3>3 DEF ReportSend
    <2>3. ASSUME NEW p \in Producers, ReportGiveUp(p)
          PROVE  TypeOK'
      BY <2>3, EmptyEntries DEF ReportGiveUp
    <2>4. ASSUME CloseCall
          PROVE  TypeOK'
      BY <2>4, EntriesClosed DEF CloseCall
    <2>5. ASSUME CloseReturn
          PROVE  TypeOK'
      BY <2>5 DEF CloseReturn
    <2>6. ASSUME FlusherReceive
          PROVE  TypeOK'
      <3>1. Head(entryChan) \in Nat /\ Tail(entryChan) \in Entries /\ Len(Tail(entryChan)) = Len(entryChan) - 1
        BY <2>6, EntriesClosed DEF FlusherReceive
      <3>2. Append(batch, Head(entryChan)) \in Entries /\ Len(entryChan) \in Nat
        BY <3>1, EntriesClosed
      <3>3. QED
        BY <2>6, <3>1, <3>2 DEF FlusherReceive
    <2>7. ASSUME FlusherTick
          PROVE  TypeOK'
      BY <2>7 DEF FlusherTick
    <2>8. ASSUME FlusherSendReturn
          PROVE  TypeOK'
      BY <2>8, EntriesClosed, EmptyEntries DEF FlusherSendReturn
    <2>9. ASSUME FlusherClosed
          PROVE  TypeOK'
      BY <2>9 DEF FlusherClosed
    <2>10. ASSUME FlusherDrain
          PROVE  TypeOK'
      <3>1. Head(entryChan) \in Nat /\ Tail(entryChan) \in Entries /\ Len(Tail(entryChan)) = Len(entryChan) - 1
        BY <2>10, EntriesClosed DEF FlusherDrain
      <3>2. Append(batch, Head(entryChan)) \in Entries /\ Len(entryChan) \in Nat
        BY <3>1, EntriesClosed
      <3>3. QED
        BY <2>10, <3>1, <3>2 DEF FlusherDrain
    <2>11. ASSUME FlusherDrained
          PROVE  TypeOK'
      BY <2>11 DEF FlusherDrained
    <2>12. CASE UNCHANGED vars
      BY <2>12 DEF vars, TypeOK
    <2>13. QED
      BY <2>1, <2>2, <2>3, <2>4, <2>5, <2>6, <2>7, <2>8, <2>9, <2>10, <2>11, <2>12
      DEF Next, ReportStep, FlusherNext
  <1>3. QED
    BY <1>1, <1>2, PTL DEF Spec
-----------------------------------------------------------------------------
(* Conservation *)

\* No interleaving of Report, Close, the ticker and the server loses, doubles
\* or reorders an entry that Report pushed.
THEOREM Conservation == Spec => []Accounting
  <1>1. Init => Accounting
    BY DEF Init, Accounting
  <1>2. TypeOK /\ Accounting /\ [Next]_vars => Accounting'
    <2> SUFFICES ASSUME TypeOK, Accounting, [Next]_vars
                 PROVE  Accounting'
      OBVIOUS
    <2>t. /\ sent \in Entries /\ batch \in Entries /\ entryChan \in Entries
          /\ sent \o batch \in Entries
      BY EntriesClosed DEF TypeOK
    <2> USE DEF Accounting
    <2>1. ASSUME NEW p \in Producers, NEW k \in 1..MaxArgs, ReportCall(p, k)
          PROVE  Accounting'
      BY <2>1 DEF ReportCall
    <2>2. ASSUME NEW p \in Producers, ReportSend(p)
          PROVE  Accounting'
      <3>1. Head(want[p]) \in Nat
        BY <2>2, EntriesClosed DEF ReportSend, TypeOK
      <3>2. QED
        BY <2>2, <2>t, <3>1, AppendLast DEF ReportSend
    <2>3. ASSUME NEW p \in Producers, ReportGiveUp(p)
          PROVE  Accounting'
      BY <2>3 DEF ReportGiveUp
    <2>4. ASSUME CloseCall
          PROVE  Accounting'
      BY <2>4 DEF CloseCall
    <2>5. ASSUME CloseReturn
          PROVE  Accounting'
      BY <2>5 DEF CloseReturn
    <2>6. ASSUME FlusherReceive
          PROVE  Accounting'
      BY <2>6, <2>t, MoveHead DEF FlusherReceive
    <2>7. ASSUME FlusherTick
          PROVE  Accounting'
      BY <2>7 DEF FlusherTick
    <2>8. ASSUME FlusherSendReturn
          PROVE  Accounting'
      <3>1. (sent \o batch) \o <<>> = sent \o batch
        BY <2>t, ConcatEmptySeq DEF Entries
      <3>2. QED
        BY <2>8, <3>1 DEF FlusherSendReturn
    <2>9. ASSUME FlusherClosed
          PROVE  Accounting'
      BY <2>9 DEF FlusherClosed
    <2>10. ASSUME FlusherDrain
          PROVE  Accounting'
      BY <2>10, <2>t, MoveHead DEF FlusherDrain
    <2>11. ASSUME FlusherDrained
          PROVE  Accounting'
      BY <2>11 DEF FlusherDrained
    <2>12. CASE UNCHANGED vars
      BY <2>12 DEF vars, Accounting
    <2>13. QED
      BY <2>1, <2>2, <2>3, <2>4, <2>5, <2>6, <2>7, <2>8, <2>9, <2>10, <2>11, <2>12
      DEF Next, ReportStep, FlusherNext
  <1>3. QED
    BY <1>1, <1>2, Typing, PTL DEF Spec
-----------------------------------------------------------------------------
(* Close is a flush *)

\* Where Close and the flusher are, together: the flusher leaves its select
\* only after Close was called, and once it has drained the channel, what was
\* pushed before Close is sent or in the slice.
CloseInv ==
    /\ closeChan <=> closer # "open"
    /\ flusher \in {"drain", "postLast", "done"} => closeChan
    /\ closer = "returned" => flusher = "done"
    /\ atClose <= Len(accepted)
    /\ flusher = "postLast" => Len(sent) + Len(batch) >= atClose
    /\ flusher = "done" => Len(sent) >= atClose

LEMMA Closing == Spec => []CloseInv
  <1>1. Init => CloseInv
    BY EmptyEntries DEF Init, CloseInv
  <1>2. TypeOK /\ Accounting /\ CloseInv /\ [Next]_vars => CloseInv'
    <2> SUFFICES ASSUME TypeOK, Accounting, CloseInv, [Next]_vars
                 PROVE  CloseInv'
      OBVIOUS
    <2>t. /\ sent \in Entries /\ batch \in Entries /\ entryChan \in Entries
          /\ accepted \in Entries /\ atClose \in Nat
          /\ Len(sent) \in Nat /\ Len(batch) \in Nat /\ Len(accepted) \in Nat
          /\ Len(sent \o batch) = Len(sent) + Len(batch)
          /\ flusher \in {"select", "post", "drain", "postLast", "done"}
          /\ closer \in {"open", "waiting", "returned"}
      BY EntriesClosed DEF TypeOK
    <2> USE DEF CloseInv
    <2>1. ASSUME NEW p \in Producers, NEW k \in 1..MaxArgs, ReportCall(p, k)
          PROVE  CloseInv'
      BY <2>1, <2>t DEF ReportCall
    <2>2. ASSUME NEW p \in Producers, ReportSend(p)
          PROVE  CloseInv'
      <3>1. Len(accepted') = Len(accepted) + 1
        <4>1. Head(want[p]) \in Nat
          BY <2>2, EntriesClosed DEF ReportSend, TypeOK
        <4>2. QED
          BY <2>2, <2>t, <4>1, EntriesClosed DEF ReportSend
      <3>2. QED
        BY <2>2, <2>t, <3>1 DEF ReportSend
    <2>3. ASSUME NEW p \in Producers, ReportGiveUp(p)
          PROVE  CloseInv'
      BY <2>3, <2>t DEF ReportGiveUp
    <2>4. ASSUME CloseCall
          PROVE  CloseInv'
      BY <2>4, <2>t DEF CloseCall
    <2>5. ASSUME CloseReturn
          PROVE  CloseInv'
      BY <2>5, <2>t DEF CloseReturn
    <2>6. ASSUME FlusherReceive
          PROVE  CloseInv'
      BY <2>6, <2>t DEF FlusherReceive
    <2>7. ASSUME FlusherTick
          PROVE  CloseInv'
      BY <2>7, <2>t DEF FlusherTick
    <2>8. ASSUME FlusherSendReturn
          PROVE  CloseInv'
      BY <2>8, <2>t DEF FlusherSendReturn
    <2>9. ASSUME FlusherClosed
          PROVE  CloseInv'
      BY <2>9, <2>t DEF FlusherClosed
    <2>10. ASSUME FlusherDrain
          PROVE  CloseInv'
      BY <2>10, <2>t DEF FlusherDrain
    <2>11. ASSUME FlusherDrained
          PROVE  CloseInv'
      <3>1. Len(accepted) = Len(sent) + Len(batch)
        <4>1. (sent \o batch) \o <<>> = sent \o batch
          BY <2>t, EntriesClosed, ConcatEmptySeq DEF Entries
        <4>2. QED
          BY <2>11, <2>t, <4>1 DEF FlusherDrained, Accounting
      <3>2. QED
        BY <2>11, <2>t, <3>1 DEF FlusherDrained
    <2>12. CASE UNCHANGED vars
      BY <2>12 DEF vars, CloseInv
    <2>13. QED
      BY <2>1, <2>2, <2>3, <2>4, <2>5, <2>6, <2>7, <2>8, <2>9, <2>10, <2>11, <2>12
      DEF Next, ReportStep, FlusherNext
  <1>3. QED
    BY <1>1, <1>2, Typing, Conservation, PTL DEF Spec

\* Close returns only when everything pushed before it was called was sent,
\* even if callers of Report race with it.
THEOREM CloseIsFlush == Spec => []CloseFlushes
  <1>1. CloseInv => CloseFlushes
    BY DEF CloseInv, CloseFlushes
  <1>2. QED
    BY <1>1, Closing, PTL
-----------------------------------------------------------------------------
(* Batches *)

\* What the select and the posts made from it see of the slice, and what the
\* drain adds to it.
THEOREM BatchBound == Spec => []BatchWithinMax
  <1>1. Init => BatchWithinMax
    BY EmptyEntries, BatchReporterAssumption DEF Init, BatchWithinMax
  <1>2. TypeOK /\ CloseInv /\ BatchWithinMax /\ [Next]_vars => BatchWithinMax'
    <2> SUFFICES ASSUME TypeOK, CloseInv, BatchWithinMax, [Next]_vars
                 PROVE  BatchWithinMax'
      OBVIOUS
    <2>t. /\ batch \in Entries /\ Len(batch) \in Nat /\ entryChan \in Entries
          /\ accepted \in Entries /\ Len(accepted) \in Nat /\ atClose \in Nat
          /\ Len(entryChan) \in Nat /\ Len(entryChan) <= ChanCap
          /\ MaxBatch \in Nat /\ ChanCap \in Nat
      BY EntriesClosed, BatchReporterAssumption DEF TypeOK
    <2>c. atClose <= Len(accepted) /\ (flusher \in {"drain", "postLast"} => closer # "open")
      BY DEF CloseInv
    <2> USE BatchReporterAssumption DEF BatchWithinMax
    <2>1. ASSUME NEW p \in Producers, NEW k \in 1..MaxArgs, ReportCall(p, k)
          PROVE  BatchWithinMax'
      BY <2>1 DEF ReportCall
    <2>2. ASSUME NEW p \in Producers, ReportSend(p)
          PROVE  BatchWithinMax'
      <3>1. /\ Len(accepted') = Len(accepted) + 1 /\ Len(entryChan') = Len(entryChan) + 1
        <4>1. Head(want[p]) \in Nat
          BY <2>2, EntriesClosed DEF ReportSend, TypeOK
        <4>2. QED
          BY <2>2, <2>t, <4>1, EntriesClosed DEF ReportSend
      <3>2. UNCHANGED <<batch, flusher, atClose>>
        BY <2>2 DEF ReportSend
      <3>3. QED
        BY <2>t, <3>1, <3>2
    <2>3. ASSUME NEW p \in Producers, ReportGiveUp(p)
          PROVE  BatchWithinMax'
      BY <2>3 DEF ReportGiveUp
    <2>4. ASSUME CloseCall
          PROVE  BatchWithinMax'
      BY <2>4, <2>c DEF CloseCall
    <2>5. ASSUME CloseReturn
          PROVE  BatchWithinMax'
      BY <2>5 DEF CloseReturn
    <2>6. ASSUME FlusherReceive
          PROVE  BatchWithinMax'
      <3>1. Head(entryChan) \in Nat
        BY <2>6, <2>t, EntriesClosed DEF FlusherReceive
      <3>2. Len(batch') = Len(batch) + 1
        BY <2>6, <2>t, <3>1, EntriesClosed DEF FlusherReceive
      <3>3. QED
        BY <2>6, <2>t, <3>2 DEF FlusherReceive
    <2>7. ASSUME FlusherTick
          PROVE  BatchWithinMax'
      BY <2>7, <2>t DEF FlusherTick
    <2>8. ASSUME FlusherSendReturn
          PROVE  BatchWithinMax'
      BY <2>8, EmptyEntries DEF FlusherSendReturn
    <2>9. ASSUME FlusherClosed
          PROVE  BatchWithinMax'
      BY <2>9, <2>t, <2>c DEF FlusherClosed
    <2>10. ASSUME FlusherDrain
          PROVE  BatchWithinMax'
      <3>1. /\ Head(entryChan) \in Nat /\ Len(entryChan') = Len(entryChan) - 1
        BY <2>10, <2>t, EntriesClosed DEF FlusherDrain
      <3>2. Len(batch') = Len(batch) + 1
        BY <2>10, <2>t, <3>1, EntriesClosed DEF FlusherDrain
      <3>3. UNCHANGED <<flusher, accepted, atClose>> /\ flusher = "drain"
        BY <2>10 DEF FlusherDrain
      <3>4. QED
        BY <2>t, <3>1, <3>2, <3>3
    <2>11. ASSUME FlusherDrained
          PROVE  BatchWithinMax'
      BY <2>11 DEF FlusherDrained
    <2>12. CASE UNCHANGED vars
      BY <2>12 DEF vars, BatchWithinMax
    <2>13. QED
      BY <2>1, <2>2, <2>3, <2>4, <2>5, <2>6, <2>7, <2>8, <2>9, <2>10, <2>11, <2>12
      DEF Next, ReportStep, FlusherNext
  <1>3. QED
    BY <1>1, <1>2, Typing, Closing, PTL DEF Spec
=============================================================================
