------------------------- MODULE VictoriaPush_proofs -------------------------
(***************************************************************************)
(* victoriapush keeps what it promises, whatever the length of its input,  *)
(* the capacity of the channel and the size of a batch: it implements      *)
(* DeliveryLog, and exits with every record sent.                          *)
(***************************************************************************)
EXTENDS VictoriaPush, BatchReporter_proofs

-----------------------------------------------------------------------------
(* The program is a use of the reporter                                      *)

\* What holds of the reporter under all callers holds of it in the program.
LEMMA UsesReporter == PushSpec => Spec
<1>1. PushInit => Init
  BY DEF PushInit
<1>2. [PushNext]_allVars => [Next]_vars
  <2> SUFFICES ASSUME [PushNext]_allVars PROVE [Next]_vars
    OBVIOUS
  <2>1. Pusher \in Producers /\ 1 \in 1..MaxArgs
    BY VictoriaPushAssumption, BatchReporterAssumption
  <2>2. CASE Signal \/ ScanCancelled \/ ScanSkip \/ ScanEnd
    BY <2>2 DEF Signal, ScanCancelled, ScanSkip, ScanEnd
  <2>3. CASE ScanRecord
    BY <2>1, <2>3 DEF ScanRecord, Next
  <2>4. CASE PushRecord
    BY <2>1, <2>4 DEF PushRecord, Next
  <2>5. CASE Cleanup \/ CloseReturn \/ FlusherNext
    BY <2>5 DEF Cleanup, Next
  <2>6. CASE UNCHANGED allVars
    BY <2>6 DEF allVars
  <2> QED
    BY <2>2, <2>3, <2>4, <2>5, <2>6 DEF PushNext
<1> QED
  BY <1>1, <1>2, PTL DEF PushSpec, Spec
-----------------------------------------------------------------------------
(* Records and their numbers *)

\* A sequence is continued by the one that holds the next element alone.
LEMMA OneMore ==
    ASSUME NEW n \in Nat, NEW p \in Entries, NEW q \in Entries, NEW t \in Entries,
           Len(p) = n, Len(q) = 1, Len(t) = n + 1,
           \A i \in 1..n : p[i] = t[i], q[1] = t[n + 1]
    PROVE  p \o q = t
<1>1. p \o q \in Entries /\ Len(p \o q) = n + 1
  <2>1. p \o q \in Entries /\ Len(p \o q) = Len(p) + Len(q)
    BY Zenon, EntriesClosed
  <2> QED
    BY <2>1
<1>2. \A i \in 1..n + 1 : (p \o q)[i] = IF i <= n THEN p[i] ELSE q[i - n]
  <2>1. p \in Seq(Nat) /\ q \in Seq(Nat)
    BY DEF Entries
  <2>2. \A i \in 1..Len(p) + Len(q) :
            (p \o q)[i] = IF i <= Len(p) THEN p[i] ELSE q[i - Len(p)]
    BY <2>1, Zenon, ConcatProperties
  <2> QED
    BY <2>2
<1>3. ASSUME NEW i \in 1..n + 1 PROVE (p \o q)[i] = t[i]
  <2>1. CASE i <= n
    <3>1. i \in 1..n
      BY <2>1
    <3> QED
      BY <1>2, <2>1, <3>1
  <2>2. CASE ~(i <= n)
    <3>1. i = n + 1 /\ i - n = 1
      BY <2>2
    <3> QED
      BY <1>2, <2>2, <3>1
  <2> QED
    BY <2>1, <2>2
<1> DEFINE s == p \o q
<1>4. s \in Seq(Nat) /\ Len(s) = Len(t) /\ \A i \in 1..Len(s) : s[i] = t[i]
  BY <1>1, <1>3 DEF Entries
<1> HIDE DEF s
<1>5. s = t
  BY <1>4, SeqEqual DEF Entries
<1> QED
  BY <1>5 DEF s

\* One more record continues the numbers.
LEMMA NumbersNext ==
    ASSUME NEW n \in Nat
    PROVE  Numbers(0, n) \o Numbers(n, 1) = Numbers(0, n + 1)
<1>1. /\ Numbers(0, n) \in Entries /\ Numbers(n, 1) \in Entries
      /\ Numbers(0, n + 1) \in Entries
      /\ Len(Numbers(0, n)) = n /\ Len(Numbers(n, 1)) = 1 /\ Len(Numbers(0, n + 1)) = n + 1
  BY DEF Numbers, Entries
<1>2. \A i \in 1..n : Numbers(0, n)[i] = Numbers(0, n + 1)[i]
  BY DEF Numbers
<1>3. Numbers(n, 1)[1] = Numbers(0, n + 1)[n + 1]
  BY DEF Numbers
<1> QED
  BY <1>1, <1>2, <1>3, OneMore

\* A record that moves from the caller's list to the history keeps the whole.
LEMMA PushHead ==
    ASSUME NEW s \in Entries, NEW u \in Entries, u # <<>>
    PROVE  Append(s, Head(u)) \o Tail(u) = s \o u
<1>1. <<>> \in Entries /\ Append(s, Head(u)) \in Entries
  BY EntriesClosed, EmptyEntries
<1>2. (<<>> \o Append(s, Head(u))) \o Tail(u) = (<<>> \o s) \o u
  BY <1>1, MoveHead
<1>3. <<>> \o s = s /\ <<>> \o Append(s, Head(u)) = Append(s, Head(u))
  BY <1>1, ConcatEmptySeq DEF Entries
<1> QED
  BY <1>2, <1>3
-----------------------------------------------------------------------------
(* The invariant of the program *)

\* Run reports one record at a time, and Close comes after Run: what was
\* accepted, and what the present call still wants, is what was reported; when
\* the flusher is past its drain, nothing comes into the channel any more.
PushInv ==
    /\ run \in {"scan", "report", "returned"}
    /\ closeChan <=> closer # "open"
    /\ closeChan => run = "returned"
    /\ run # "report" => want[Pusher] = <<>>
    /\ accepted \o want[Pusher] = Numbers(0, reported)
    /\ flusher \in {"drain", "postLast", "done"} => closeChan
    /\ flusher \in {"postLast", "done"} => entryChan = <<>>
    /\ flusher = "done" => batch = <<>>
    /\ closer = "returned" => flusher = "done"

LEMMA PushStart == PushInit => PushInv
<1> SUFFICES ASSUME PushInit PROVE PushInv
  OBVIOUS
<1>1. want[Pusher] = <<>> /\ accepted = <<>> /\ reported = 0
  BY VictoriaPushAssumption DEF PushInit, Init
<1>2. <<>> \o <<>> = <<>> /\ Numbers(0, 0) = <<>>
  BY DEF Numbers
<1> QED
  BY <1>1, <1>2 DEF PushInit, Init, PushInv

LEMMA PushStep == TypeOK /\ PushInv /\ [PushNext]_allVars => PushInv'
<1> SUFFICES ASSUME TypeOK, PushInv, [PushNext]_allVars PROVE PushInv'
  OBVIOUS
<1>1. /\ Pusher \in Producers /\ want[Pusher] \in Entries /\ want \in [Producers -> Entries]
      /\ accepted \in Entries /\ batch \in Entries /\ entryChan \in Entries /\ reported \in Nat
      /\ closer \in {"open", "waiting", "returned"} /\ closeChan \in BOOLEAN
      /\ flusher \in {"select", "post", "drain", "postLast", "done"}
  BY VictoriaPushAssumption DEF TypeOK
<1>2. CASE Signal \/ ScanCancelled \/ ScanSkip \/ ScanEnd
  <2>1. UNCHANGED <<want, reported, entryChan, closeChan, batch, flusher, closer, accepted>>
    BY <1>2 DEF Signal, ScanCancelled, ScanSkip, ScanEnd, vars
  <2>2. \/ run' = run
        \/ run = "scan" /\ run' = "returned"
    BY <1>2 DEF Signal, ScanCancelled, ScanSkip, ScanEnd
  <2> QED
    BY <2>1, <2>2 DEF PushInv
<1>3. CASE ScanRecord
  <2>1. /\ want' = [want EXCEPT ![Pusher] = Numbers(reported, 1)] /\ reported' = reported + 1
        /\ UNCHANGED <<entryChan, closeChan, batch, flusher, closer, accepted>>
        /\ run = "scan" /\ run' = "report"
    BY <1>3 DEF ScanRecord, ReportCall
  <2>2. accepted = Numbers(0, reported)
    <3>1. accepted \o <<>> = accepted
      BY <1>1, ConcatEmptySeq DEF Entries
    <3> QED
      BY <2>1, <3>1 DEF PushInv
  <2>3. want'[Pusher] = Numbers(reported, 1)
    BY <1>1, <2>1
  <2>4. accepted' \o want'[Pusher] = Numbers(0, reported')
    BY <1>1, <2>1, <2>2, <2>3, NumbersNext
  <2> QED
    BY <2>1, <2>4 DEF PushInv
<1>4. CASE PushRecord
  <2>1. run = "report" /\ ~closeChan /\ ReportSend(Pusher)
    BY <1>4 DEF PushRecord, PushInv, ReportStep, ReportGiveUp
  <2>2. /\ want[Pusher] # <<>> /\ entryChan' = Append(entryChan, Head(want[Pusher]))
        /\ accepted' = Append(accepted, Head(want[Pusher]))
        /\ want' = [want EXCEPT ![Pusher] = Tail(@)]
        /\ UNCHANGED <<reported, closeChan, batch, flusher, closer>>
    BY <2>1 DEF ReportSend
  <2>3. want'[Pusher] = Tail(want[Pusher])
    BY <1>1, <2>2
  <2>4. accepted' \o want'[Pusher] = Numbers(0, reported')
    BY <1>1, <2>2, <2>3, PushHead DEF PushInv
  <2>5. run' = IF want'[Pusher] = <<>> THEN "scan" ELSE "report"
    BY <1>4 DEF PushRecord
  <2> QED
    BY <2>1, <2>2, <2>4, <2>5 DEF PushInv
<1>5. CASE Cleanup
  BY <1>5 DEF Cleanup, CloseCall, pushVars, PushInv
<1>6. CASE CloseReturn /\ UNCHANGED pushVars
  BY <1>6 DEF CloseReturn, pushVars, PushInv
<1>7. CASE FlusherNext /\ UNCHANGED pushVars
  <2>1. UNCHANGED <<want, reported, closeChan, closer, accepted>> /\ run' = run
    BY <1>7 DEF FlusherNext, FlusherReceive, FlusherTick, FlusherSendReturn, FlusherClosed,
                FlusherDrain, FlusherDrained, pushVars
  <2>2. Len(batch) = 0 => batch = <<>>
    BY <1>1, EntriesClosed
  <2>3. /\ flusher' \in {"drain", "postLast", "done"} => closeChan
        /\ flusher' \in {"postLast", "done"} => entryChan' = <<>>
        /\ flusher' = "done" => batch' = <<>>
        /\ flusher # "done"
    BY <1>1, <1>7, <2>2 DEF FlusherNext, FlusherReceive, FlusherTick, FlusherSendReturn,
                FlusherClosed, FlusherDrain, FlusherDrained, PushInv
  <2> QED
    BY <2>1, <2>3 DEF PushInv
<1>8. CASE UNCHANGED allVars
  BY <1>8 DEF allVars, vars, pushVars, PushInv
<1> QED
  BY <1>2, <1>3, <1>4, <1>5, <1>6, <1>7, <1>8 DEF PushNext

LEMMA PushSafe == PushSpec => [](TypeOK /\ Accounting /\ PushInv)
<1>1. PushSpec => []TypeOK /\ []Accounting
  BY UsesReporter, Typing, Conservation, PTL
<1> QED
  BY <1>1, PushStart, PushStep, PTL DEF PushSpec
-----------------------------------------------------------------------------
(* Theorems *)

\* What is in none of slice and channel has been sent.
LEMMA AllSent ==
    ASSUME TypeOK, Accounting, PushInv, flusher = "done"
    PROVE  accepted = sent
<1>1. sent \in Entries /\ batch = <<>> /\ entryChan = <<>>
  BY DEF TypeOK, PushInv
<1>2. sent \o <<>> = sent
  BY <1>1, ConcatEmptySeq DEF Entries
<1> QED
  BY <1>1, <1>2 DEF Accounting

\* When Cleanup has returned, every record that was given to Report has been
\* sent, once and in the order of the input (command.go:100).
THEOREM NothingLost == PushSpec => []AllRecordsSent
<1>1. TypeOK /\ Accounting /\ PushInv => AllRecordsSent
  <2> SUFFICES ASSUME TypeOK, Accounting, PushInv, closer = "returned"
               PROVE  sent = Numbers(0, reported)
    BY DEF AllRecordsSent
  <2>1. flusher = "done" /\ want[Pusher] = <<>>
    BY DEF PushInv
  <2>2. accepted = sent
    BY <2>1, AllSent
  <2>3. accepted \o <<>> = accepted
    BY ConcatEmptySeq DEF TypeOK, Entries
  <2> QED
    BY <2>1, <2>2, <2>3 DEF PushInv
<1> QED
  BY <1>1, PushSafe, PTL

\* Every step of the program is a step of the delivery log, or none.
LEMMA LogStep ==
    ASSUME TypeOK, TypeOK', Accounting, PushInv, [PushNext]_allVars
    PROVE  [Log!Next]_Log!vars
<1> USE DEF Log!Next, Log!Accept, Log!Deliver, Log!Close, Log!vars
<1>1. /\ sent \in Entries /\ batch \in Entries /\ entryChan \in Entries /\ accepted \in Entries
      /\ Len(sent) \in Nat /\ Len(batch) \in Nat /\ Len(entryChan) \in Nat
      /\ Len(sent \o batch) = Len(sent) + Len(batch) /\ sent \o batch \in Entries
  BY EntriesClosed DEF TypeOK
<1>2. Len(accepted) = Len(sent) + Len(batch) + Len(entryChan)
  BY <1>1, EntriesClosed DEF Accounting
<1>3. ASSUME UNCHANGED <<accepted, sent, closer>> PROVE [Log!Next]_Log!vars
  BY <1>3
<1>4. CASE Signal \/ ScanCancelled \/ ScanSkip \/ ScanEnd
  BY <1>3, <1>4 DEF Signal, ScanCancelled, ScanSkip, ScanEnd, vars
<1>5. CASE ScanRecord
  BY <1>3, <1>5 DEF ScanRecord, ReportCall
<1>6. CASE PushRecord
  <2>1. closer = "open" /\ ReportSend(Pusher) /\ Pusher \in Producers
    BY <1>6, VictoriaPushAssumption
       DEF PushRecord, PushInv, ReportStep, ReportGiveUp
  <2>2. Head(want[Pusher]) \in Nat
    BY <2>1, EntriesClosed DEF ReportSend, TypeOK
  <2>3. Len(accepted') = Len(accepted) + 1 /\ sent' = sent /\ closer' = closer
    BY <1>1, <2>1, <2>2, EntriesClosed DEF ReportSend
  <2> QED
    BY <2>1, <2>3
<1>7. CASE Cleanup
  BY <1>7 DEF Cleanup, CloseCall
<1>8. CASE CloseReturn
  <2>1. accepted = sent
    BY <1>8, AllSent DEF CloseReturn
  <2> QED
    BY <1>8, <2>1 DEF CloseReturn
<1>9. CASE FlusherSendReturn
  <2>1. closer # "returned" /\ closer' = closer /\ accepted' = accepted
        /\ Len(sent') = Len(sent) + Len(batch)
    BY <1>1, <1>9 DEF FlusherSendReturn, PushInv
  <2>2. CASE Len(batch) = 0
    BY <1>1, <2>1, <2>2
  <2>3. CASE Len(batch) # 0
    <3>1. Len(sent') \in Len(sent) + 1 .. Len(accepted)
      BY <1>1, <1>2, <2>1, <2>3
    <3> QED
      BY <2>1, <3>1
  <2> QED
    BY <2>2, <2>3
<1>10. CASE FlusherNext /\ ~FlusherSendReturn
  BY <1>3, <1>10 DEF FlusherNext, FlusherReceive, FlusherTick, FlusherClosed, FlusherDrain,
                     FlusherDrained
<1>11. CASE UNCHANGED allVars
  BY <1>3, <1>11 DEF allVars, vars
<1> QED
  BY <1>4, <1>5, <1>6, <1>7, <1>8, <1>9, <1>10, <1>11 DEF PushNext

\* The program with its channel, batches, ticker, signals and end of input is
\* a delivery log (batch.go, command.go): records are delivered in the order in
\* which they were accepted, and it closes when all of them are.
THEOREM Refinement == PushSpec => ImplementsDeliveryLog
<1>1. PushInit => Log!Init
  BY EmptyEntries DEF PushInit, Init, Log!Init
<1>2. TypeOK /\ TypeOK' /\ Accounting /\ PushInv /\ [PushNext]_allVars => [Log!Next]_Log!vars
  BY LogStep
<1> QED
  BY <1>1, <1>2, PushSafe, PTL DEF PushSpec, ImplementsDeliveryLog, Log!Spec
=============================================================================
