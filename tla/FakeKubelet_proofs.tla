------------------------- MODULE FakeKubelet_proofs -------------------------
(***************************************************************************)
(* Proofs about the work queue and the simulated kubelet, for every number *)
(* of pods and workers: that a key has one worker at a time and is never   *)
(* forgotten, that an address is final and given to bound pods only.       *)
(***************************************************************************)
EXTENDS FakeKubelet, TLAPS

\* What any step of the kubelet does to the queue.
QueueNext ==
    \/ \E k \in Keys : Add(k) \/ DelayOver(k)
    \/ \E w \in Workers :
          Get(w) \/ Quit(w) \/ SignalSynced(w) \/ Succeed(w) \/ Fail(w)
    \/ RunQueue \/ StopQueue

\* The workqueue's own invariant: an item waits once, and only if it needs work
\* and nobody has it; one that needs work waits, or is being worked on; one that
\* is being worked on is held by one worker; the sync signal comes with Run.
WorkInv ==
    /\ \A i \in 1..Len(queue) : queue[i] \in dirty /\ queue[i] \notin processing
    /\ \A x \in dirty : x \in processing \/ \E i \in 1..Len(queue) : queue[i] = x
    /\ \A w \in Workers : held[w] # NoKey => held[w] \in processing
    /\ \A v, w \in Workers : held[v] # NoKey /\ held[v] = held[w] => v = w
    /\ \A k \in processing \cap Keys : \E w \in Workers : held[w] = k
    /\ started \/ dirty \subseteq Keys

QueueInv == QueueTypeOK /\ WorkInv

LEMMA QueueStart == QueueInit => QueueInv
<1> SUFFICES ASSUME QueueInit PROVE QueueInv
  OBVIOUS
<1>1. queue \in Seq(Items) /\ Len(queue) = 0
  BY DEF QueueInit
<1>2. requeues \in [Keys -> Nat] /\ held \in [Workers -> Items \cup {NoKey}]
  BY DEF QueueInit
<1>3. QueueTypeOK
  <2>1. \A i, j \in 1..Len(queue) : queue[i] = queue[j] => i = j
    BY <1>1
  <2> QED
    BY <1>1, <1>2, <2>1 DEF QueueInit, QueueTypeOK
<1> QED
  BY <1>1, <1>3 DEF QueueInit, QueueInv, WorkInv

\* An item that is appended to a queue without it leaves the items distinct.
LEMMA AppendDistinct ==
    ASSUME NEW s \in Seq(Items), NEW x \in Items,
           \A i, j \in 1..Len(s) : s[i] = s[j] => i = j,
           \A i \in 1..Len(s) : s[i] # x
    PROVE  /\ Append(s, x) \in Seq(Items)
           /\ \A i, j \in 1..Len(Append(s, x)) : Append(s, x)[i] = Append(s, x)[j] => i = j
           /\ \A i \in 1..Len(Append(s, x)) :
                 Append(s, x)[i] = x \/ \E j \in 1..Len(s) : Append(s, x)[i] = s[j]
           /\ \A i \in 1..Len(s) : \E j \in 1..Len(Append(s, x)) : Append(s, x)[j] = s[i]
           /\ \E j \in 1..Len(Append(s, x)) : Append(s, x)[j] = x
<1> DEFINE t == Append(s, x)
<1>1. t \in Seq(Items) /\ Len(t) = Len(s) + 1 /\ Len(s) \in Nat
  OBVIOUS
<1>2. t[Len(s) + 1] = x
  OBVIOUS
<1>3. \A i \in 1..Len(s) : t[i] = s[i]
  OBVIOUS
<1>4. 1..Len(t) = 1..Len(s) \cup {Len(s) + 1}
  BY <1>1
<1> HIDE DEF t
<1>5. \A i, j \in 1..Len(t) : t[i] = t[j] => i = j
  BY <1>2, <1>3, <1>4
<1>6. \A i \in 1..Len(t) : t[i] = x \/ \E j \in 1..Len(s) : t[i] = s[j]
  BY <1>2, <1>3, <1>4
<1>7. \A i \in 1..Len(s) : \E j \in 1..Len(t) : t[j] = s[i]
  BY <1>3, <1>4
<1>8. \E j \in 1..Len(t) : t[j] = x
  BY <1>2, <1>4
<1> QED
  BY <1>1, <1>5, <1>6, <1>7, <1>8 DEF t

\* What is left when the first item is taken.
LEMMA TailDistinct ==
    ASSUME NEW s \in Seq(Items), s # <<>>,
           \A i, j \in 1..Len(s) : s[i] = s[j] => i = j
    PROVE  /\ Head(s) \in Items /\ Tail(s) \in Seq(Items)
           /\ \E i \in 1..Len(s) : s[i] = Head(s)
           /\ \A i, j \in 1..Len(Tail(s)) : Tail(s)[i] = Tail(s)[j] => i = j
           /\ \A i \in 1..Len(Tail(s)) :
                 Tail(s)[i] # Head(s) /\ \E j \in 1..Len(s) : Tail(s)[i] = s[j]
           /\ \A i \in 1..Len(s) :
                 s[i] = Head(s) \/ \E j \in 1..Len(Tail(s)) : Tail(s)[j] = s[i]
<1> DEFINE t == Tail(s)
<1>1. Len(s) \in Nat \ {0} /\ t \in Seq(Items) /\ Len(t) = Len(s) - 1
  OBVIOUS
<1>2. Head(s) = s[1] /\ s[1] \in Items
  OBVIOUS
<1>3. \A i \in 1..Len(t) : t[i] = s[i + 1] /\ i + 1 \in 1..Len(s)
  BY <1>1
<1>4. \A i \in 2..Len(s) : i - 1 \in 1..Len(t) /\ t[i - 1] = s[i]
  BY <1>1
<1> HIDE DEF t
<1>5. \A i, j \in 1..Len(t) : t[i] = t[j] => i = j
  <2> TAKE i, j \in 1..Len(t)
  <2> HAVE t[i] = t[j]
  <2>1. i + 1 = j + 1
    BY <1>3
  <2> QED
    BY <1>1, <2>1
<1>6. \A i \in 1..Len(t) : t[i] # s[1] /\ \E j \in 1..Len(s) : t[i] = s[j]
  <2> TAKE i \in 1..Len(t)
  <2>1. 1 \in 1..Len(s) /\ i + 1 # 1
    BY <1>1
  <2> QED
    BY <1>3, <2>1
<1>7. \A i \in 1..Len(s) : s[i] = s[1] \/ \E j \in 1..Len(t) : t[j] = s[i]
  <2> TAKE i \in 1..Len(s)
  <2>1. CASE i = 1
    BY <2>1
  <2>2. CASE i \in 2..Len(s)
    BY <1>4, <2>2
  <2> QED
    BY <1>1, <2>1, <2>2
<1>8. 1 \in 1..Len(s)
  BY <1>1
<1> QED
  BY <1>1, <1>2, <1>5, <1>6, <1>7, <1>8 DEF t

\* Add of an item keeps the invariant, whatever happens to what it leaves alone.
LEMMA EnqueueInv ==
    ASSUME QueueInv, NEW x \in Items, Enqueue(x), UNCHANGED <<processing, held>>,
           started' \/ (x \in Keys /\ UNCHANGED started)
    PROVE  /\ queue' \in Seq(Items) /\ dirty' \subseteq Items
           /\ \A i, j \in 1..Len(queue') : queue'[i] = queue'[j] => i = j
           /\ WorkInv'
<1> USE DEF QueueInv
<1>1. CASE shutdown \/ x \in dirty
  BY <1>1 DEF Enqueue, QueueTypeOK, WorkInv
<1>2. CASE ~(shutdown \/ x \in dirty) /\ x \in processing
  BY <1>2 DEF Enqueue, QueueTypeOK, WorkInv
<1>3. CASE ~(shutdown \/ x \in dirty) /\ x \notin processing
  <2>1. queue' = Append(queue, x) /\ dirty' = dirty \cup {x}
    BY <1>3 DEF Enqueue
  <2>2. queue \in Seq(Items) /\ \A i \in 1..Len(queue) : queue[i] # x
    BY <1>3 DEF QueueTypeOK, WorkInv
  <2>3. \A i, j \in 1..Len(queue) : queue[i] = queue[j] => i = j
    BY DEF QueueTypeOK
  <2>4. /\ queue' \in Seq(Items)
        /\ \A i, j \in 1..Len(queue') : queue'[i] = queue'[j] => i = j
        /\ \A i \in 1..Len(queue') :
              queue'[i] = x \/ \E j \in 1..Len(queue) : queue'[i] = queue[j]
        /\ \A i \in 1..Len(queue) : \E j \in 1..Len(queue') : queue'[j] = queue[i]
        /\ \E j \in 1..Len(queue') : queue'[j] = x
    BY <2>1, <2>2, <2>3, AppendDistinct
  <2>5. \A i \in 1..Len(queue') : queue'[i] \in dirty' /\ queue'[i] \notin processing'
    BY <1>3, <2>1, <2>4 DEF WorkInv
  <2>6. \A y \in dirty' : y \in processing' \/ \E i \in 1..Len(queue') : queue'[i] = y
    BY <2>1, <2>4 DEF WorkInv
  <2>7. started' \/ dirty' \subseteq Keys
    BY <2>1 DEF WorkInv
  <2>8. WorkInv'
    BY <2>5, <2>6, <2>7 DEF WorkInv
  <2> QED
    BY <2>1, <2>4, <2>8 DEF QueueTypeOK
<1> QED
  BY <1>1, <1>2, <1>3

\* A worker that is done with a key leaves the invariant true.
LEMMA DoneInv ==
    ASSUME QueueInv, NEW w \in Workers, held[w] \in Keys, Done(held[w]),
           held' = [held EXCEPT ![w] = NoKey], UNCHANGED <<dirty, started>>
    PROVE  /\ queue' \in Seq(Items) /\ processing' \subseteq Items
           /\ held' \in [Workers -> Items \cup {NoKey}]
           /\ \A i, j \in 1..Len(queue') : queue'[i] = queue'[j] => i = j
           /\ WorkInv'
<1> USE DEF QueueInv
<1> DEFINE x == held[w]
<1>1. /\ x \in Keys /\ x \in Items /\ x # NoKey /\ x \in processing
      /\ held \in [Workers -> Items \cup {NoKey}]
      /\ processing' = processing \ {x} /\ dirty' = dirty /\ started' = started
  BY PodQueueAssumption DEF Items, QueueTypeOK, WorkInv, Done
<1>2. \A v \in Workers : v # w => held'[v] = held[v] /\ held[v] # x
  BY <1>1 DEF WorkInv
<1>3. held'[w] = NoKey /\ held' \in [Workers -> Items \cup {NoKey}]
  BY <1>1
<1>4. \A i \in 1..Len(queue) : queue[i] # x
  BY <1>1 DEF WorkInv
<1>5. queue \in Seq(Items) /\ \A i, j \in 1..Len(queue) : queue[i] = queue[j] => i = j
  BY DEF QueueTypeOK
<1>6. /\ queue' = IF x \in dirty THEN Append(queue, x) ELSE queue
  BY DEF Done
<1> HIDE DEF x
<1>7. /\ queue' \in Seq(Items)
      /\ \A i, j \in 1..Len(queue') : queue'[i] = queue'[j] => i = j
      /\ \A i \in 1..Len(queue') :
            (queue'[i] = x /\ x \in dirty) \/ \E j \in 1..Len(queue) : queue'[i] = queue[j]
      /\ \A i \in 1..Len(queue) : \E j \in 1..Len(queue') : queue'[j] = queue[i]
      /\ x \in dirty => \E j \in 1..Len(queue') : queue'[j] = x
  <2>1. CASE x \in dirty
    BY <2>1, <1>1, <1>4, <1>5, <1>6, AppendDistinct
  <2>2. CASE x \notin dirty
    BY <2>2, <1>5, <1>6
  <2> QED
    BY <2>1, <2>2
<1>8. \A i \in 1..Len(queue') : queue'[i] \in dirty' /\ queue'[i] \notin processing'
  BY <1>1, <1>7 DEF WorkInv
<1>9. \A y \in dirty' : y \in processing' \/ \E i \in 1..Len(queue') : queue'[i] = y
  <2> TAKE y \in dirty'
  <2>1. CASE y = x
    BY <1>1, <1>7, <2>1
  <2>2. CASE y # x
    BY <1>1, <1>7, <2>2 DEF WorkInv
  <2> QED
    BY <2>1, <2>2
<1>10. \A v \in Workers : held'[v] # NoKey => held'[v] \in processing'
  BY <1>1, <1>2, <1>3 DEF WorkInv
<1>11. \A u, v \in Workers : held'[u] # NoKey /\ held'[u] = held'[v] => u = v
  BY <1>2, <1>3 DEF WorkInv
<1>12. \A k \in processing' \cap Keys : \E v \in Workers : held'[v] = k
  <2> TAKE k \in processing' \cap Keys
  <2>1. PICK v \in Workers : held[v] = k
    BY <1>1 DEF WorkInv
  <2>2. v # w
    BY <1>1, <2>1 DEF x
  <2> QED
    BY <1>2, <2>1, <2>2
<1>13. WorkInv'
  BY <1>8, <1>9, <1>10, <1>11, <1>12 DEF WorkInv
<1> QED
  BY <1>1, <1>3, <1>7, <1>13 DEF QueueTypeOK

\* No step takes the queue out of its invariant.
LEMMA QueueStep == QueueInv /\ [QueueNext]_queueVars => QueueInv'
<1> SUFFICES ASSUME QueueInv, [QueueNext]_queueVars PROVE QueueInv'
  OBVIOUS
<1>1. ASSUME NEW k \in Keys, Add(k) PROVE QueueInv'
  <2>1. Enqueue(k) /\ k \in Items /\ UNCHANGED <<processing, held>>
    BY <1>1 DEF Add, Items
  <2>2. UNCHANGED <<delayed, requeues, shutdown, started, synced, exited, initial, handled>>
    BY <1>1 DEF Add
  <2> QED
    BY <2>1, <2>2, EnqueueInv DEF QueueInv, QueueTypeOK
<1>2. ASSUME NEW k \in Keys, DelayOver(k) PROVE QueueInv'
  <2>1. Enqueue(k) /\ k \in Items /\ UNCHANGED <<processing, held>>
    BY <1>2 DEF DelayOver, Items
  <2>2. /\ delayed' = delayed \ {k}
        /\ UNCHANGED <<requeues, shutdown, started, synced, exited, initial, handled>>
    BY <1>2 DEF DelayOver
  <2> QED
    BY <2>1, <2>2, EnqueueInv DEF QueueInv, QueueTypeOK
<1>3. ASSUME NEW w \in Workers, Get(w) PROVE QueueInv'
  <2> DEFINE x == Head(queue)
  <2>1. /\ queue \in Seq(Items) /\ queue # <<>>
        /\ \A i, j \in 1..Len(queue) : queue[i] = queue[j] => i = j
    BY <1>3 DEF Get, QueueInv, QueueTypeOK
  <2>2. /\ queue' = Tail(queue) /\ dirty' = dirty \ {x} /\ processing' = processing \cup {x}
        /\ held' = [held EXCEPT ![w] = x] /\ held[w] = NoKey
        /\ UNCHANGED <<delayed, requeues, shutdown, started, synced, exited, initial, handled>>
    BY <1>3 DEF Get, Idle
  <2>3. /\ x \in Items /\ queue' \in Seq(Items)
        /\ \E i \in 1..Len(queue) : queue[i] = x
        /\ \A i, j \in 1..Len(queue') : queue'[i] = queue'[j] => i = j
        /\ \A i \in 1..Len(queue') :
              queue'[i] # x /\ \E j \in 1..Len(queue) : queue'[i] = queue[j]
        /\ \A i \in 1..Len(queue) :
              queue[i] = x \/ \E j \in 1..Len(queue') : queue'[j] = queue[i]
    BY <2>1, <2>2, TailDistinct
  <2> HIDE DEF x
  <2>4. x \notin processing /\ x # NoKey
    BY <2>3, PodQueueAssumption DEF QueueInv, WorkInv, Items
  <2>5. QueueTypeOK'
    BY <2>2, <2>3 DEF QueueInv, QueueTypeOK
  <2>6. held'[w] = x /\ \A v \in Workers : v # w => held'[v] = held[v] /\ held[v] # x
    BY <2>2, <2>4 DEF QueueInv, QueueTypeOK, WorkInv
  <2>7. \A i \in 1..Len(queue') : queue'[i] \in dirty' /\ queue'[i] \notin processing'
    BY <2>2, <2>3 DEF QueueInv, WorkInv
  <2>8. \A y \in dirty' : y \in processing' \/ \E i \in 1..Len(queue') : queue'[i] = y
    BY <2>2, <2>3 DEF QueueInv, WorkInv
  <2>9. \A v \in Workers : held'[v] # NoKey => held'[v] \in processing'
    BY <2>2, <2>6 DEF QueueInv, WorkInv
  <2>10. \A u, v \in Workers : held'[u] # NoKey /\ held'[u] = held'[v] => u = v
    BY <2>6 DEF QueueInv, WorkInv
  <2>11. \A k \in processing' \cap Keys : \E v \in Workers : held'[v] = k
    <3> TAKE k \in processing' \cap Keys
    <3>1. CASE k = x
      BY <3>1, <2>6
    <3>2. CASE k # x
      <4>1. PICK v \in Workers : held[v] = k
        BY <3>2, <2>2 DEF QueueInv, WorkInv
      <4>2. v # w
        BY <4>1, <2>2, PodQueueAssumption
      <4> QED
        BY <4>1, <4>2, <2>6
    <3> QED
      BY <3>1, <3>2
  <2>12. started' \/ dirty' \subseteq Keys
    BY <2>2 DEF QueueInv, WorkInv
  <2>13. WorkInv'
    BY <2>7, <2>8, <2>9, <2>10, <2>11, <2>12 DEF WorkInv
  <2> QED
    BY <2>5, <2>13 DEF QueueInv
<1>4. ASSUME NEW w \in Workers, Quit(w) PROVE QueueInv'
  BY <1>4 DEF Quit, QueueInv, QueueTypeOK, WorkInv
<1>5. ASSUME NEW w \in Workers, SignalSynced(w) PROVE QueueInv'
  <2>1. /\ held[w] = SyncSignal /\ held' = [held EXCEPT ![w] = NoKey] /\ synced' = TRUE
        /\ UNCHANGED <<queue, dirty, processing, delayed, requeues, shutdown, started, exited,
                       initial, handled>>
    BY <1>5 DEF SignalSynced
  <2>2. held'[w] = NoKey /\ \A v \in Workers : v # w => held'[v] = held[v]
    BY <2>1 DEF QueueInv, QueueTypeOK
  <2>3. QueueTypeOK'
    BY <2>1 DEF QueueInv, QueueTypeOK
  <2>4. \A k \in processing' \cap Keys : \E v \in Workers : held'[v] = k
    <3> TAKE k \in processing' \cap Keys
    <3>1. PICK v \in Workers : held[v] = k
      BY <2>1 DEF QueueInv, WorkInv
    <3>2. v # w
      BY <3>1, <2>1, PodQueueAssumption
    <3> QED
      BY <3>1, <3>2, <2>2
  <2>5. \A u, v \in Workers : held'[u] # NoKey /\ held'[u] = held'[v] => u = v
    BY <2>2 DEF QueueInv, WorkInv
  <2>6. \A v \in Workers : held'[v] # NoKey => held'[v] \in processing'
    BY <2>1, <2>2 DEF QueueInv, WorkInv
  <2>7. WorkInv'
    BY <2>1, <2>4, <2>5, <2>6 DEF QueueInv, WorkInv
  <2> QED
    BY <2>3, <2>7 DEF QueueInv
<1>6. ASSUME NEW w \in Workers, Succeed(w) PROVE QueueInv'
  <2>1. /\ held[w] \in Keys /\ Done(held[w]) /\ held' = [held EXCEPT ![w] = NoKey]
        /\ UNCHANGED <<dirty, started>>
    BY <1>6 DEF Succeed
  <2>2. /\ requeues' = [requeues EXCEPT ![held[w]] = 0]
        /\ handled' = handled \cup {held[w]}
        /\ UNCHANGED <<delayed, shutdown, started, synced, exited, initial>>
    BY <1>6 DEF Succeed
  <2>3. requeues' \in [Keys -> Nat] /\ handled' \subseteq Keys
    BY <2>1, <2>2 DEF QueueInv, QueueTypeOK
  <2> QED
    BY <2>1, <2>2, <2>3, DoneInv DEF QueueInv, QueueTypeOK
<1>7. ASSUME NEW w \in Workers, Fail(w) PROVE QueueInv'
  <2>1. /\ held[w] \in Keys /\ Done(held[w]) /\ held' = [held EXCEPT ![w] = NoKey]
        /\ UNCHANGED <<dirty, started>>
    BY <1>7 DEF Fail
  <2>2. /\ handled' = handled \cup {held[w]}
        /\ delayed' \subseteq delayed \cup {held[w]}
        /\ UNCHANGED <<shutdown, started, synced, exited, initial>>
    BY <1>7 DEF Fail
  <2>3. requeues' \in [Keys -> Nat]
    BY <1>7, <2>1 DEF Fail, QueueInv, QueueTypeOK
  <2> QED
    BY <2>1, <2>2, <2>3, DoneInv DEF QueueInv, QueueTypeOK
<1>8. CASE RunQueue
  <2>1. Enqueue(SyncSignal) /\ SyncSignal \in Items /\ UNCHANGED <<processing, held>>
    BY <1>8 DEF RunQueue, Items
  <2>2. /\ started' = TRUE /\ initial' = dirty
        /\ UNCHANGED <<delayed, requeues, shutdown, synced, exited, handled>>
    BY <1>8 DEF RunQueue
  <2>3. dirty \subseteq Keys
    BY <1>8 DEF RunQueue, QueueInv, WorkInv
  <2> QED
    BY <2>1, <2>2, <2>3, EnqueueInv DEF QueueInv, QueueTypeOK
<1>9. CASE StopQueue
  BY <1>9 DEF StopQueue, QueueInv, QueueTypeOK, WorkInv
<1>10. CASE UNCHANGED queueVars
  BY <1>10 DEF queueVars, QueueInv, QueueTypeOK, WorkInv
<1> QED
  BY <1>1, <1>2, <1>3, <1>4, <1>5, <1>6, <1>7, <1>8, <1>9, <1>10 DEF QueueNext
-----------------------------------------------------------------------------
(* The kubelet *)

\* Every step of the kubelet is one of the queue, or leaves the queue alone.
LEMMA KubeletStepIsQueueStep == [KubeletNext]_kubeletVars => [QueueNext]_queueVars
<1> SUFFICES ASSUME [KubeletNext]_kubeletVars PROVE [QueueNext]_queueVars
  OBVIOUS
<1>1. ASSUME NEW k \in Keys, Environment(k) PROVE UNCHANGED queueVars
  BY <1>1 DEF Environment, Create, Bind, Touch, Terminate, Remove, OtherWrite
<1>2. ASSUME NEW k \in Keys, Observe(k) \/ Timer(k) PROVE QueueNext
  BY <1>2 DEF Observe, Timer, QueueNext
<1>3. ASSUME NEW w \in Workers, Reconcile(w) PROVE UNCHANGED queueVars
  BY <1>3 DEF Reconcile
<1>4. ASSUME NEW w \in Workers, Worker(w) \/ Fault(w), ~Reconcile(w) PROVE QueueNext
  BY <1>4 DEF Worker, Fault, ReconcileNothing, StatusApplied, StatusRefused, Deleted,
              RequestFails, AnswerLost, QueueNext
<1>5. CASE UNCHANGED kubeletVars
  BY <1>5 DEF kubeletVars
<1> QED
  BY <1>1, <1>2, <1>3, <1>4, <1>5 DEF KubeletNext, QueueNext

\* p is a pod that was seen when the last version was v, or before: if the pod
\* of that key, a, still has the version of p, it is p.
Fits(v, a, p) == p # NoPod => p.rv <= v /\ (a # NoPod /\ a.rv = p.rv => a = p)

\* All that the informer has seen or will see fits.
ClusterInv ==
    /\ api \in [Keys -> PodOrNone]
    /\ version \in [Keys -> Nat]
    /\ watch \in [Keys -> Seq(PodOrNone)]
    /\ store \in [Keys -> PodOrNone]
    /\ \A k \in Keys : Fits(version[k], api[k], api[k])
    /\ \A k \in Keys : Fits(version[k], api[k], store[k])
    /\ \A k \in Keys : \A i \in 1..Len(watch[k]) : Fits(version[k], api[k], watch[k][i])

\* What a reconciler has read fits, and called for what it is about to do.
ReadsFit ==
    \A w \in Workers :
        /\ step[w] # "get" => /\ held[w] \in Keys
                              /\ Fits(version[held[w]], api[held[w]], pod[w])
        /\ step[w] = "status" => NeedsRunning(pod[w])

WorkerInv ==
    /\ step \in [Workers -> {"get", "nothing", "status", "delete"}]
    /\ pod \in [Workers -> PodOrNone]
    /\ faults \in 0..MaxFaults
    /\ givenUp \subseteq Keys
    /\ ReadsFit

KubeletInv == QueueInv /\ ClusterInv /\ WorkerInv

\* What fitted fits after a step.
StillFits ==
    \A k \in Keys, p \in PodOrNone :
        Fits(version[k], api[k], p) => Fits(version'[k], api'[k], p)

\* A write gives a version nobody has seen.
LEMMA WriteInv ==
    ASSUME ClusterInv, NEW k \in Keys, NEW p \in PodOrNone, Write(k, p)
    PROVE  ClusterInv' /\ StillFits
<1> DEFINE v == version[k] + 1
           new == IF p = NoPod THEN NoPod ELSE [p EXCEPT !.rv = v]
<1>1. /\ version' = [version EXCEPT ![k] = v]
      /\ api' = [api EXCEPT ![k] = new]
      /\ watch' = [watch EXCEPT ![k] = Append(@, new)]
      /\ store' = store
  BY DEF Write, ClusterInv
<1>2. v \in Nat /\ new \in PodOrNone /\ (new # NoPod => new.rv = v)
  <2>1. v \in Nat
    BY DEF ClusterInv
  <2>2. CASE p = NoPod
    BY <2>1, <2>2
  <2>3. CASE p # NoPod
    <3>1. p \in Pod
      BY <2>3 DEF PodOrNone
    <3> HIDE DEF v
    <3>2. [p EXCEPT !.rv = v] \in Pod /\ [p EXCEPT !.rv = v].rv = v
      BY <2>1, <3>1 DEF Pod
    <3> QED
      BY <2>1, <2>3, <3>2 DEF PodOrNone
  <2> QED
    BY <2>2, <2>3
<1>3. version[k] \in Nat /\ v = version[k] + 1
  BY DEF ClusterInv
<1> HIDE DEF v, new
<1>4. /\ version' \in [Keys -> Nat] /\ api' \in [Keys -> PodOrNone]
      /\ store' \in [Keys -> PodOrNone]
      /\ version'[k] = v /\ api'[k] = new /\ watch'[k] = Append(watch[k], new)
      /\ watch[k] \in Seq(PodOrNone)
  BY <1>1, <1>2 DEF ClusterInv
<1>5. \A j \in Keys : j # k => version'[j] = version[j] /\ api'[j] = api[j] /\ watch'[j] = watch[j]
  BY <1>1 DEF ClusterInv
<1>6. watch' \in [Keys -> Seq(PodOrNone)]
  BY <1>1, <1>2 DEF ClusterInv
<1>7. StillFits
  <2> SUFFICES ASSUME NEW j \in Keys, NEW q \in PodOrNone, Fits(version[j], api[j], q)
               PROVE  Fits(version'[j], api'[j], q)
    BY DEF StillFits
  <2>1. CASE j # k
    BY <1>5, <2>1
  <2>2. CASE j = k
    <3> SUFFICES ASSUME q # NoPod PROVE Fits(v, new, q)
      BY <1>4, <2>2 DEF Fits
    <3>1. q.rv <= version[k] /\ q.rv \in Nat
      BY <2>2 DEF Fits, PodOrNone, Pod
    <3>2. q.rv <= v /\ q.rv # v
      BY <3>1, <1>3
    <3> QED
      BY <3>2, <1>2 DEF Fits
  <2> QED
    BY <2>1, <2>2
<1>8. Fits(v, new, new)
  BY <1>2 DEF Fits
<1>9. \A j \in Keys : Fits(version'[j], api'[j], api'[j])
  <2> TAKE j \in Keys
  <2>1. CASE j = k
    BY <1>4, <1>8, <2>1
  <2>2. CASE j # k
    BY <1>5, <2>2 DEF ClusterInv
  <2> QED
    BY <2>1, <2>2
<1>10. \A j \in Keys : Fits(version'[j], api'[j], store'[j])
  BY <1>1, <1>7 DEF ClusterInv, StillFits
<1>11. \A j \in Keys : \A i \in 1..Len(watch'[j]) : Fits(version'[j], api'[j], watch'[j][i])
  <2> TAKE j \in Keys
  <2> TAKE i \in 1..Len(watch'[j])
  <2>1. \A n \in 1..Len(watch[j]) : Fits(version'[j], api'[j], watch[j][n])
    <3> TAKE n \in 1..Len(watch[j])
    <3>1. watch[j] \in Seq(PodOrNone)
      BY DEF ClusterInv
    <3>2. watch[j][n] \in PodOrNone
      BY <3>1
    <3> QED
      BY <1>7, <3>2 DEF ClusterInv, StillFits
  <2>2. CASE j # k
    BY <1>5, <2>1, <2>2
  <2>3. CASE j = k
    <3>1. CASE i = Len(watch[k]) + 1
      <4>1. watch'[j][i] = new
        BY <1>4, <2>3, <3>1
      <4> QED
        BY <4>1, <1>4, <1>8, <2>3
    <3>2. CASE i \in 1..Len(watch[k])
      <4>1. watch'[j][i] = watch[j][i]
        BY <1>4, <2>3, <3>2
      <4> QED
        BY <4>1, <2>1, <2>3, <3>2
    <3>3. Len(watch'[k]) = Len(watch[k]) + 1 /\ Len(watch[k]) \in Nat
      BY <1>4
    <3> QED
      BY <2>3, <3>1, <3>2, <3>3
  <2> QED
    BY <2>2, <2>3
<1>12. ClusterInv'
  BY <1>4, <1>6, <1>9, <1>10, <1>11 DEF ClusterInv
<1> QED
  BY <1>7, <1>12

\* The informer takes a version from its watch to its store.
LEMMA ObserveInv ==
    ASSUME ClusterInv, NEW k \in Keys, watch[k] # <<>>,
           store' = [store EXCEPT ![k] = Head(watch[k])],
           watch' = [watch EXCEPT ![k] = Tail(@)],
           UNCHANGED <<api, version>>
    PROVE  ClusterInv'
<1> DEFINE s == watch[k]
<1>1. s \in Seq(PodOrNone) /\ s # <<>>
  BY DEF ClusterInv
<1>2. \A i \in 1..Len(s) : Fits(version[k], api[k], s[i])
  BY DEF ClusterInv
<1>3. store'[k] = Head(s) /\ watch'[k] = Tail(s)
  BY DEF ClusterInv
<1>4. \A j \in Keys : j # k => store'[j] = store[j] /\ watch'[j] = watch[j]
  BY DEF ClusterInv
<1> HIDE DEF s
<1>5. 1 \in 1..Len(s) /\ Head(s) = s[1] /\ Head(s) \in PodOrNone /\ Tail(s) \in Seq(PodOrNone)
  BY <1>1
<1>6. \A i \in 1..Len(Tail(s)) : Tail(s)[i] = s[i + 1] /\ i + 1 \in 1..Len(s)
  BY <1>1
<1>7. store' \in [Keys -> PodOrNone] /\ watch' \in [Keys -> Seq(PodOrNone)]
  BY <1>5 DEF s, ClusterInv
<1>8. \A j \in Keys : Fits(version[j], api[j], store'[j])
  BY <1>2, <1>3, <1>4, <1>5 DEF ClusterInv
<1>9. \A j \in Keys : \A i \in 1..Len(watch'[j]) : Fits(version[j], api[j], watch'[j][i])
  <2> TAKE j \in Keys
  <2>1. CASE j = k
    BY <1>2, <1>3, <1>6, <2>1
  <2>2. CASE j # k
    BY <1>4, <2>2 DEF ClusterInv
  <2> QED
    BY <2>1, <2>2
<1> QED
  BY <1>7, <1>8, <1>9 DEF ClusterInv

\* A worker whose reconciler has returned.
LEMMA FinishInv ==
    ASSUME WorkerInv, QueueTypeOK, StillFits, NEW w \in Workers,
           step' = [step EXCEPT ![w] = "get"],
           held' = [held EXCEPT ![w] = NoKey],
           pod' = pod, faults' \in 0..MaxFaults, givenUp' \subseteq Keys
    PROVE  WorkerInv'
<1>1. step'[w] = "get" /\ step' \in [Workers -> {"get", "nothing", "status", "delete"}]
  BY DEF WorkerInv
<1>2. \A v \in Workers : v # w => step'[v] = step[v] /\ held'[v] = held[v]
  BY DEF WorkerInv, QueueTypeOK
<1>3. \A v \in Workers : pod[v] \in PodOrNone
  BY DEF WorkerInv
<1>4. ReadsFit'
  BY <1>1, <1>2, <1>3 DEF ReadsFit, WorkerInv, StillFits
<1> QED
  BY <1>1, <1>4 DEF WorkerInv

\* A step that leaves the reconcilers alone, and the keys they hold.
LEMMA BesideInv ==
    ASSUME WorkerInv, StillFits, UNCHANGED workVars,
           \A v \in Workers : held[v] \in Keys => held'[v] = held[v]
    PROVE  WorkerInv'
<1>1. step' = step /\ pod' = pod /\ faults' = faults /\ givenUp' = givenUp
  BY DEF workVars
<1>2. \A v \in Workers : pod[v] \in PodOrNone
  BY DEF WorkerInv
<1>3. ReadsFit'
  BY <1>1, <1>2 DEF ReadsFit, WorkerInv, StillFits
<1> QED
  BY <1>1, <1>3 DEF WorkerInv

LEMMA KubeletStart == KubeletInit => KubeletInv
<1> SUFFICES ASSUME KubeletInit PROVE KubeletInv
  OBVIOUS
<1>1. QueueInv
  BY QueueStart DEF KubeletInit
<1>2. \A k \in Keys : Len(watch[k]) = 0
  BY DEF KubeletInit
<1>3. watch \in [Keys -> Seq(PodOrNone)]
  BY DEF KubeletInit
<1>4. api \in [Keys -> PodOrNone] /\ store \in [Keys -> PodOrNone] /\ version \in [Keys -> Nat]
  BY DEF KubeletInit, PodOrNone
<1>5. \A k \in Keys : api[k] = NoPod /\ store[k] = NoPod
  BY DEF KubeletInit
<1>6. \A k \in Keys : \A i \in 1..Len(watch[k]) : Fits(version[k], api[k], watch[k][i])
  BY <1>2
<1>7. ClusterInv
  BY <1>3, <1>4, <1>5, <1>6 DEF ClusterInv, Fits
<1>8. WorkerInv
  BY FakeKubeletAssumption DEF KubeletInit, WorkerInv, ReadsFit, PodOrNone
<1> QED
  BY <1>1, <1>7, <1>8 DEF KubeletInv

\* The written pods are pods.
LEMMA OtherWriteInv ==
    ASSUME KubeletInv, NEW k \in Keys, NEW p \in PodOrNone, OtherWrite(k, p)
    PROVE  ClusterInv' /\ WorkerInv'
<1>1. ClusterInv' /\ StillFits
  BY WriteInv DEF OtherWrite, KubeletInv
<1>2. UNCHANGED workVars /\ held' = held
  BY DEF OtherWrite, queueVars
<1> QED
  BY <1>1, <1>2, BesideInv DEF KubeletInv

LEMMA EnvironmentInv ==
    ASSUME KubeletInv, NEW k \in Keys, Environment(k)
    PROVE  ClusterInv' /\ WorkerInv'
<1>1. api[k] \in PodOrNone /\ NoPod \in PodOrNone
  BY DEF KubeletInv, ClusterInv, PodOrNone
<1>2. PICK p \in PodOrNone : OtherWrite(k, p)
  <2>1. CASE Create(k)
    <3>1. PICK bound \in BOOLEAN :
             OtherWrite(k, [rv |-> 0, node |-> bound, deleting |-> FALSE, ip |-> 0])
      BY <2>1 DEF Create
    <3>2. [rv |-> 0, node |-> bound, deleting |-> FALSE, ip |-> 0] \in PodOrNone
      BY DEF PodOrNone, Pod
    <3> QED
      BY <3>1, <3>2
  <2>2. CASE Bind(k)
    <3>1. [api[k] EXCEPT !.node = TRUE] \in PodOrNone
      BY <1>1, <2>2 DEF Bind, PodOrNone, Pod
    <3> QED
      BY <2>2, <3>1 DEF Bind
  <2>3. CASE Touch(k)
    BY <1>1, <2>3 DEF Touch
  <2>4. CASE Terminate(k)
    <3>1. [api[k] EXCEPT !.deleting = TRUE] \in PodOrNone
      BY <1>1, <2>4 DEF Terminate, PodOrNone, Pod
    <3> QED
      BY <2>4, <3>1 DEF Terminate
  <2>5. CASE Remove(k)
    BY <1>1, <2>5 DEF Remove
  <2> QED
    BY <2>1, <2>2, <2>3, <2>4, <2>5 DEF Environment
<1> QED
  BY <1>2, OtherWriteInv

\* The writes of the kubelet itself
LEMMA EffectInv ==
    ASSUME KubeletInv, NEW k \in Keys,
           (api[k] # NoPod /\ StatusEffect(k)) \/ DeleteEffect(k) \/ UNCHANGED clusterVars
    PROVE  ClusterInv' /\ StillFits
<1>1. api[k] \in PodOrNone /\ version[k] \in Nat
  BY DEF KubeletInv, ClusterInv
<1>2. CASE api[k] # NoPod /\ StatusEffect(k)
  <2>1. [api[k] EXCEPT !.ip = version[k] + 1] \in PodOrNone
    BY <1>1, <1>2 DEF PodOrNone, Pod
  <2> QED
    BY <1>2, <2>1, WriteInv DEF StatusEffect, KubeletInv
<1>3. CASE UNCHANGED clusterVars
  BY <1>3 DEF clusterVars, KubeletInv, ClusterInv, StillFits
<1>4. CASE DeleteEffect(k) /\ ~UNCHANGED clusterVars
  <2>1. NoPod \in PodOrNone /\ (api[k] # NoPod => [api[k] EXCEPT !.deleting = TRUE] \in PodOrNone)
    BY <1>1 DEF PodOrNone, Pod
  <2> QED
    BY <1>4, <2>1, WriteInv DEF DeleteEffect, KubeletInv
<1> QED
  BY <1>2, <1>3, <1>4

\* No step takes the kubelet out of its invariant.
LEMMA KubeletStep == KubeletInv /\ [KubeletNext]_kubeletVars => KubeletInv'
<1> SUFFICES ASSUME KubeletInv, [KubeletNext]_kubeletVars PROVE KubeletInv'
  OBVIOUS
<1>1. QueueInv'
  BY QueueStep, KubeletStepIsQueueStep DEF KubeletInv
<1>2. QueueTypeOK /\ ClusterInv /\ WorkerInv
  BY DEF KubeletInv, QueueInv
<1>3. (UNCHANGED clusterVars) => ClusterInv' /\ StillFits
  BY <1>2 DEF clusterVars, ClusterInv, StillFits
<1>4. ASSUME NEW k \in Keys, Environment(k) PROVE ClusterInv' /\ WorkerInv'
  BY <1>4, EnvironmentInv
<1>5. ASSUME NEW k \in Keys, Observe(k) PROVE ClusterInv' /\ WorkerInv'
  <2>1. ClusterInv'
    BY <1>2, <1>5, ObserveInv DEF Observe
  <2>2. StillFits /\ UNCHANGED workVars /\ held' = held
    BY <1>5 DEF Observe, Add, StillFits
  <2> QED
    BY <1>2, <2>1, <2>2, BesideInv
<1>6. ASSUME NEW k \in Keys, Timer(k) PROVE ClusterInv' /\ WorkerInv'
  <2>1. UNCHANGED <<clusterVars, workVars>> /\ held' = held
    BY <1>6 DEF Timer, DelayOver
  <2> QED
    BY <1>2, <1>3, <2>1, BesideInv
<1>7. ASSUME NEW w \in Workers, Get(w) \/ Quit(w) \/ SignalSynced(w),
             UNCHANGED <<clusterVars, workVars>>
      PROVE  ClusterInv' /\ WorkerInv'
  <2>1. \A v \in Workers : held[v] \in Keys => held'[v] = held[v]
    BY <1>2, <1>7, PodQueueAssumption DEF Get, Quit, Idle, SignalSynced, QueueTypeOK
  <2> QED
    BY <1>2, <1>3, <1>7, <2>1, BesideInv
<1>8. ASSUME NEW w \in Workers, Reconcile(w) PROVE ClusterInv' /\ WorkerInv'
  <2> DEFINE k == held[w]
             p == IF k \in Ours THEN store[k] ELSE NoPod
             s == IF NeedsDelete(p) THEN "delete"
                  ELSE IF NeedsRunning(p) THEN "status" ELSE "nothing"
  <2>1. /\ k \in Keys /\ pod' = [pod EXCEPT ![w] = p] /\ step' = [step EXCEPT ![w] = s]
        /\ UNCHANGED <<queueVars, clusterVars, faults, givenUp>>
    BY <1>8 DEF Reconcile
  <2>2. /\ UNCHANGED clusterVars /\ held' = held /\ faults' = faults /\ givenUp' = givenUp
        /\ version' = version /\ api' = api
    BY <2>1 DEF queueVars, clusterVars
  <2>3. p \in PodOrNone /\ Fits(version[k], api[k], p)
    BY <1>2, <2>1 DEF ClusterInv, PodOrNone, Fits
  <2>4. s \in {"nothing", "status", "delete"} /\ (s = "status" => NeedsRunning(p))
    OBVIOUS
  <2> HIDE DEF s, p
  <2>5. /\ step' \in [Workers -> {"get", "nothing", "status", "delete"}]
        /\ pod' \in [Workers -> PodOrNone]
        /\ step'[w] = s /\ pod'[w] = p
        /\ \A v \in Workers : v # w => step'[v] = step[v] /\ pod'[v] = pod[v]
    BY <1>2, <2>1, <2>3, <2>4 DEF WorkerInv
  <2>6. ReadsFit'
    <3> SUFFICES ASSUME NEW v \in Workers
                 PROVE  /\ step'[v] # "get" => /\ held'[v] \in Keys
                                               /\ Fits(version'[held'[v]], api'[held'[v]], pod'[v])
                        /\ step'[v] = "status" => NeedsRunning(pod'[v])
      BY DEF ReadsFit, NeedsRunning
    <3>1. CASE v = w
      BY <2>1, <2>2, <2>3, <2>4, <2>5, <3>1
    <3>2. CASE v # w
      BY <1>2, <2>2, <2>5, <3>2 DEF WorkerInv, ReadsFit
    <3> QED
      BY <3>1, <3>2
  <2>7. WorkerInv'
    BY <1>2, <2>2, <2>5, <2>6 DEF WorkerInv
  <2> QED
    BY <1>3, <2>2, <2>7
<1>9. ASSUME NEW w \in Workers,
             ReconcileNothing(w) \/ StatusApplied(w) \/ StatusRefused(w) \/ Deleted(w)
             \/ RequestFails(w) \/ AnswerLost(w)
      PROVE  ClusterInv' /\ WorkerInv'
  <2>1. Succeed(w) \/ Fail(w)
    BY <1>9 DEF ReconcileNothing, StatusApplied, StatusRefused, Deleted, RequestFails, AnswerLost
  <2>2. held[w] \in Keys /\ held' = [held EXCEPT ![w] = NoKey]
    BY <2>1 DEF Succeed, Fail
  <2>3. \/ api[held[w]] # NoPod /\ StatusEffect(held[w])
        \/ DeleteEffect(held[w])
        \/ UNCHANGED clusterVars
    BY <1>9 DEF ReconcileNothing, StatusApplied, StatusRefused, Deleted, RequestFails, AnswerLost,
                StatusConflict
  <2>4. ClusterInv' /\ StillFits
    BY <2>2, <2>3, EffectInv
  <2>5. step' = [step EXCEPT ![w] = "get"] /\ pod' = pod
    BY <1>9 DEF ReconcileNothing, StatusApplied, StatusRefused, Deleted, RequestFails, AnswerLost
  <2>6. (faults' = faults /\ givenUp' = givenUp) \/ FaultCounted(w)
    BY <1>9 DEF ReconcileNothing, StatusApplied, StatusRefused, Deleted, RequestFails, AnswerLost
  <2>7. faults' \in 0..MaxFaults /\ givenUp' \subseteq Keys
    BY <1>2, <2>2, <2>6, FakeKubeletAssumption DEF FaultCounted, WorkerInv
  <2> QED
    BY <1>2, <2>2, <2>4, <2>5, <2>7, FinishInv
<1>10. ASSUME UNCHANGED clusterVars, UNCHANGED workVars, held' = held
       PROVE  ClusterInv' /\ WorkerInv'
  <2>1. \A v \in Workers : held[v] \in Keys => held'[v] = held[v]
    BY <1>10
  <2> QED
    BY <1>2, <1>3, <1>10, <2>1, BesideInv
<1>11. ASSUME RunQueue \/ StopQueue, UNCHANGED <<clusterVars, workVars>>
       PROVE  ClusterInv' /\ WorkerInv'
  <2>1. UNCHANGED clusterVars /\ UNCHANGED workVars
    BY <1>11 DEF clusterVars, workVars
  <2>2. held' = held
    BY <1>11 DEF RunQueue, StopQueue
  <2> QED
    BY <1>10, <2>1, <2>2
<1>12. ASSUME UNCHANGED kubeletVars PROVE ClusterInv' /\ WorkerInv'
  <2>1. UNCHANGED clusterVars /\ UNCHANGED workVars /\ held' = held
    BY <1>12 DEF kubeletVars, queueVars, clusterVars, workVars
  <2> QED
    BY <1>10, <2>1
<1>13. ASSUME NEW w \in Workers, Worker(w) \/ Fault(w) PROVE ClusterInv' /\ WorkerInv'
  <2>1. CASE Reconcile(w)
    BY <1>8, <2>1
  <2>2. CASE (Get(w) \/ Quit(w) \/ SignalSynced(w)) /\ UNCHANGED <<clusterVars, workVars>>
    BY <1>7, <2>2
  <2>3. CASE \/ ReconcileNothing(w) \/ StatusApplied(w) \/ StatusRefused(w) \/ Deleted(w)
             \/ RequestFails(w) \/ AnswerLost(w)
    BY <1>9, <2>3
  <2> QED
    BY <1>13, <2>1, <2>2, <2>3 DEF Worker, Fault
<1>14. ClusterInv' /\ WorkerInv'
  <2>1. CASE UNCHANGED kubeletVars
    BY <1>12, <2>1
  <2>2. CASE KubeletNext
    BY <1>4, <1>5, <1>6, <1>11, <1>13, <2>2 DEF KubeletNext
  <2> QED
    BY <2>1, <2>2
<1> QED
  BY <1>1, <1>14 DEF KubeletInv

\* The invariant holds throughout.
LEMMA KubeletSafe == KubeletSpec => []KubeletInv
<1> QED
  BY KubeletStart, KubeletStep, PTL DEF KubeletSpec
-----------------------------------------------------------------------------
(* Theorems *)

\* The queue, the API server, the informer and the workers keep their shape,
\* for every number of workers and pods (queue_fork.go, cluster.go).
THEOREM KubeletTyping == KubeletSpec => []KubeletTypeOK
<1>1. KubeletInv => KubeletTypeOK
  BY DEF KubeletInv, QueueInv, ClusterInv, WorkerInv, KubeletTypeOK
<1> QED
  BY <1>1, KubeletSafe, PTL

\* No two workers reconcile the same key at the same time, however many there
\* are and whenever it is added (queue_fork.go:119).
THEOREM WorkersApart == KubeletSpec => []OneWorkerPerKey
<1>1. KubeletInv => OneWorkerPerKey
  BY PodQueueAssumption DEF KubeletInv, QueueInv, WorkInv, OneWorkerPerKey
<1> QED
  BY <1>1, KubeletSafe, PTL

\* A key that needs work waits in the queue, or is held by a worker that will
\* put it back (queue_fork.go:162).
THEOREM NothingDropped == KubeletSpec => []DirtyIsQueued
<1>1. KubeletInv => DirtyIsQueued
  BY DEF KubeletInv, QueueInv, WorkInv, DirtyIsQueued
<1> QED
  BY <1>1, KubeletSafe, PTL

\* The only step that gives an address gives it to a pod that has none, is
\* bound and not being deleted.
LEMMA AddressStep ==
    ASSUME KubeletInv, [KubeletNext]_kubeletVars, NEW k \in Keys
    PROVE  \/ api'[k] = api[k] \/ api'[k] = NoPod
           \/ api[k] = NoPod /\ api'[k].ip = 0
           \/ api[k] # NoPod /\ api'[k].ip = api[k].ip
           \/ api[k] # NoPod /\ api[k].ip = 0 /\ api[k].node /\ ~api[k].deleting
<1>1. /\ api \in [Keys -> PodOrNone]
      /\ version \in [Keys -> Nat]
  BY DEF KubeletInv, ClusterInv
<1>2. ASSUME NEW j \in Keys, NEW p, Write(j, p)
      PROVE  /\ j # k => api'[k] = api[k]
             /\ j = k => api'[k] = IF p = NoPod THEN NoPod ELSE [p EXCEPT !.rv = version[k] + 1]
  BY <1>1, <1>2 DEF Write
<1>3. ASSUME NEW j \in Keys, Environment(j)
      PROVE  \/ api'[k] = api[k] \/ api'[k] = NoPod
             \/ api[k] = NoPod /\ api'[k].ip = 0
             \/ api[k] # NoPod /\ api'[k].ip = api[k].ip
  <2>1. CASE j # k
    BY <1>2, <1>3, <2>1 DEF Environment, Create, Bind, Touch, Terminate, Remove, OtherWrite
  <2>2. CASE j = k /\ Create(k)
    <3>1. PICK bound \in BOOLEAN :
             Write(k, [rv |-> 0, node |-> bound, deleting |-> FALSE, ip |-> 0])
      BY <2>2 DEF Create, OtherWrite
    <3> DEFINE p == [rv |-> 0, node |-> bound, deleting |-> FALSE, ip |-> 0]
    <3>2. api'[k] = NoPod \/ api'[k] = [p EXCEPT !.rv = version[k] + 1]
      BY <1>2, <3>1
    <3> QED
      BY <2>2, <3>2 DEF Create
  <2>3. CASE j = k /\ ~Create(k)
    <3>1. api[k] # NoPod => api[k] \in Pod
      BY <1>1 DEF PodOrNone
    <3>2. ASSUME NEW p \in Pod, api[k] # NoPod, p.ip = api[k].ip, Write(k, p)
          PROVE  api'[k] = NoPod \/ api'[k].ip = api[k].ip
      <4>1. [p EXCEPT !.rv = version[k] + 1].ip = p.ip
        BY <3>2 DEF Pod
      <4>2. api'[k] = NoPod \/ api'[k] = [p EXCEPT !.rv = version[k] + 1]
        BY <1>2, <3>2
      <4> QED
        BY <3>2, <4>1, <4>2
    <3>3. CASE Bind(k)
      <4>1. /\ api[k] # NoPod /\ [api[k] EXCEPT !.node = TRUE] \in Pod
            /\ [api[k] EXCEPT !.node = TRUE].ip = api[k].ip
        BY <3>1, <3>3 DEF Bind, Pod
      <4> QED
        BY <3>3, <3>2, <4>1 DEF Bind, OtherWrite
    <3>4. CASE Touch(k)
      BY <3>1, <3>4, <3>2 DEF Touch, OtherWrite
    <3>5. CASE Terminate(k)
      <4>1. /\ api[k] # NoPod /\ [api[k] EXCEPT !.deleting = TRUE] \in Pod
            /\ [api[k] EXCEPT !.deleting = TRUE].ip = api[k].ip
        BY <3>1, <3>5 DEF Terminate, Pod
      <4> QED
        BY <3>5, <3>2, <4>1 DEF Terminate, OtherWrite
    <3>6. CASE Remove(k)
      BY <1>2, <3>6 DEF Remove, OtherWrite
    <3> QED
      BY <1>3, <2>3, <3>3, <3>4, <3>5, <3>6 DEF Environment
  <2> QED
    BY <2>1, <2>2, <2>3
<1>4. ASSUME NEW w \in Workers, held[w] \in Keys, step[w] = "status",
             ~StatusConflict(held[w], pod[w]), StatusEffect(held[w])
      PROVE  \/ api'[k] = api[k]
             \/ api[k] # NoPod /\ api[k].ip = 0 /\ api[k].node /\ ~api[k].deleting
  <2>1. CASE held[w] # k
    BY <1>2, <1>4, <2>1 DEF StatusEffect
  <2>2. CASE held[w] = k
    <3>1. NeedsRunning(pod[w]) /\ Fits(version[k], api[k], pod[w])
      BY <1>4, <2>2 DEF KubeletInv, WorkerInv, ReadsFit
    <3>2. api[k] # NoPod /\ api[k] = pod[w]
      BY <1>4, <2>2, <3>1 DEF StatusConflict, Fits, NeedsRunning
    <3> QED
      BY <3>1, <3>2 DEF NeedsRunning
  <2> QED
    BY <2>1, <2>2
<1>5. ASSUME NEW w \in Workers, held[w] \in Keys, DeleteEffect(held[w])
      PROVE  \/ api'[k] = api[k] \/ api'[k] = NoPod
             \/ api[k] # NoPod /\ api'[k].ip = api[k].ip
  <2>1. CASE held[w] # k
    BY <1>2, <1>5, <2>1 DEF DeleteEffect, clusterVars
  <2>2. CASE held[w] = k
    <3>1. DeleteEffect(k)
      BY <1>5, <2>2
    <3>2. CASE api[k] # NoPod /\ Write(k, [api[k] EXCEPT !.deleting = TRUE])
      <4> DEFINE p == [api[k] EXCEPT !.deleting = TRUE]
      <4>1. p \in Pod /\ p.ip = api[k].ip
        BY <1>1, <3>2 DEF PodOrNone, Pod
      <4>2. api'[k] = NoPod \/ api'[k] = [p EXCEPT !.rv = version[k] + 1]
        BY <1>2, <3>2
      <4> HIDE DEF p
      <4>3. [p EXCEPT !.rv = version[k] + 1].ip = p.ip
        BY <4>1 DEF Pod
      <4> QED
        BY <3>2, <4>1, <4>2, <4>3
    <3>3. CASE Write(k, NoPod) \/ UNCHANGED clusterVars
      BY <1>2, <3>3 DEF clusterVars
    <3> QED
      BY <3>1, <3>2, <3>3 DEF DeleteEffect
  <2> QED
    BY <2>1, <2>2
<1>6. ASSUME NEW w \in Workers, Worker(w) \/ Fault(w)
      PROVE  \/ api' = api
             \/ held[w] \in Keys /\ step[w] = "status" /\ ~StatusConflict(held[w], pod[w])
                /\ StatusEffect(held[w])
             \/ held[w] \in Keys /\ DeleteEffect(held[w])
  BY <1>6 DEF Worker, Fault, Reconcile, ReconcileNothing, StatusApplied, StatusRefused, Deleted,
              RequestFails, AnswerLost, Succeed, Fail, clusterVars
<1>7. CASE api' = api
  BY <1>7
<1>8. ASSUME NEW j \in Keys, Observe(j) \/ Timer(j) PROVE api' = api
  BY <1>8 DEF Observe, Timer, clusterVars
<1>9. CASE (RunQueue \/ StopQueue) /\ UNCHANGED <<clusterVars, workVars>>
  BY <1>9 DEF clusterVars
<1>10. CASE UNCHANGED kubeletVars
  BY <1>10 DEF kubeletVars, clusterVars
<1> QED
  BY <1>3, <1>4, <1>5, <1>6, <1>7, <1>8, <1>9, <1>10 DEF KubeletNext

\* A published address is final, whatever is retried and however stale the
\* store is (cluster.go:223).
THEOREM AddressesFinal == KubeletSpec => AddressIsFinal
<1>1. KubeletInv /\ [KubeletNext]_kubeletVars =>
        [\A k \in Keys :
            api[k] # NoPod /\ api[k].ip # 0 /\ api'[k] # NoPod
              => api'[k].ip = api[k].ip]_kubeletVars
  BY AddressStep
<1> QED
  BY <1>1, KubeletSafe, PTL DEF KubeletSpec, AddressIsFinal

\* A pod is started only while it is bound and not being deleted (cluster.go:176).
THEOREM StartsBound == KubeletSpec => StartsOnlyBoundPods
<1>1. KubeletInv /\ [KubeletNext]_kubeletVars =>
        [\A k \in Keys :
            api'[k] # NoPod /\ api'[k].ip # 0 /\ (api[k] = NoPod \/ api[k].ip = 0)
              => api[k] # NoPod /\ api[k].node /\ ~api[k].deleting]_kubeletVars
  BY AddressStep
<1> QED
  BY <1>1, KubeletSafe, PTL DEF KubeletSpec, StartsOnlyBoundPods
-----------------------------------------------------------------------------
(* Running pods are kept *)

\* p is a later version than q.
Newer(p, q) == p # NoPod /\ q # NoPod => q.rv < p.rv

\* All that the informer has yet to see of k is newer than q.
Ahead(k, q) == \A i \in 1..Len(watch[k]) : Newer(watch[k][i], q)

\* A pod has the last version given out; the informer sees versions in order.
OrderInv ==
    \A k \in Keys :
        /\ api[k] # NoPod => api[k].rv = version[k]
        /\ Ahead(k, store[k])
        /\ \A i, j \in 1..Len(watch[k]) : i < j => Newer(watch[k][j], watch[k][i])

\* What a reconciler has read is not newer than the store is by now.
ReadsOld ==
    \A w \in Workers : step[w] # "get" =>
        /\ pod[w] # NoPod /\ store[held[w]] # NoPod => pod[w].rv <= store[held[w]].rv
        /\ Ahead(held[w], pod[w])

Runs(p) == p # NoPod /\ p.ip # 0 /\ ~p.deleting

\* Nothing that the informer has or will see calls for a deletion.
Calm(k) ==
    /\ ~NeedsDelete(store[k])
    /\ \A i \in 1..Len(watch[k]) : ~NeedsDelete(watch[k][i])

\* Once a pod runs, no deletion of its predecessors is on its way.
RunningInv ==
    \A k \in Keys : Runs(api[k]) =>
        Calm(k) /\ \A w \in Workers : step[w] = "delete" => held[w] # k

KeepInv == KubeletInv /\ OrderInv /\ ReadsOld /\ RunningInv

\* What a write leaves behind.
LEMMA WriteShape ==
    ASSUME ClusterInv, NEW k \in Keys, NEW p \in PodOrNone, Write(k, p)
    PROVE  /\ version[k] \in Nat /\ version'[k] = version[k] + 1
           /\ p = NoPod => api'[k] = NoPod
           /\ p # NoPod => /\ api'[k] # NoPod /\ api'[k].rv = version'[k]
                           /\ api'[k].ip = p.ip /\ api'[k].deleting = p.deleting
           /\ Len(watch[k]) \in Nat /\ Len(watch'[k]) = Len(watch[k]) + 1
           /\ watch'[k][Len(watch[k]) + 1] = api'[k]
           /\ \A i \in 1..Len(watch[k]) : watch'[k][i] = watch[k][i]
           /\ store' = store
           /\ \A j \in Keys : j # k =>
                 version'[j] = version[j] /\ api'[j] = api[j] /\ watch'[j] = watch[j]
<1> DEFINE v == version[k] + 1
           new == IF p = NoPod THEN NoPod ELSE [p EXCEPT !.rv = v]
<1>1. /\ version' = [version EXCEPT ![k] = v]
      /\ api' = [api EXCEPT ![k] = new]
      /\ watch' = [watch EXCEPT ![k] = Append(@, new)]
      /\ store' = store
  BY DEF Write
<1>2. version[k] \in Nat /\ watch[k] \in Seq(PodOrNone)
  BY DEF ClusterInv
<1>3. p # NoPod =>
         /\ new # NoPod /\ new.rv = v
         /\ new.ip = p.ip /\ new.deleting = p.deleting
  <2> SUFFICES ASSUME p # NoPod
               PROVE  /\ new # NoPod /\ new.rv = v
                      /\ new.ip = p.ip /\ new.deleting = p.deleting
    OBVIOUS
  <2>1. p \in Pod /\ new = [p EXCEPT !.rv = v] /\ v \in Nat
    BY <1>2 DEF PodOrNone
  <2> HIDE DEF v, new
  <2>2. new \in Pod
    BY <2>1 DEF Pod
  <2> QED
    BY <2>1, <2>2, FakeKubeletAssumption DEF Pod
<1>4. p = NoPod => new = NoPod
  OBVIOUS
<1>5. new \in PodOrNone
  <2>1. CASE p = NoPod
    BY <2>1 DEF PodOrNone
  <2>2. CASE p # NoPod
    <3>1. p \in Pod /\ v \in Nat
      BY <1>2, <2>2 DEF PodOrNone
    <3> HIDE DEF v
    <3> QED
      BY <2>2, <3>1 DEF PodOrNone, Pod
  <2> QED
    BY <2>1, <2>2
<1> HIDE DEF new
<1>6. version'[k] = v /\ api'[k] = new /\ watch'[k] = Append(watch[k], new)
  BY <1>1 DEF ClusterInv
<1>7. \A j \in Keys : j # k =>
         version'[j] = version[j] /\ api'[j] = api[j] /\ watch'[j] = watch[j]
  BY <1>1 DEF ClusterInv
<1> QED
  BY <1>1, <1>2, <1>3, <1>4, <1>5, <1>6, <1>7

\* A write is newer than all there was.
LEMMA WriteOrder ==
    ASSUME ClusterInv, OrderInv, NEW k \in Keys, NEW p \in PodOrNone, Write(k, p)
    PROVE  /\ OrderInv'
           /\ \A j \in Keys, q \in PodOrNone :
                 Fits(version[j], api[j], q) /\ Ahead(j, q) => Ahead(j, q)'
<1>1. \A q \in PodOrNone : Fits(version[k], api[k], q) => Newer(api'[k], q)
  <2> SUFFICES ASSUME NEW q \in PodOrNone, Fits(version[k], api[k], q),
                      api'[k] # NoPod, q # NoPod
               PROVE  q.rv < api'[k].rv
    BY DEF Newer
  <2>1. q.rv \in Nat /\ q.rv <= version[k]
    BY DEF Fits, PodOrNone, Pod
  <2>2. version[k] \in Nat /\ api'[k].rv = version[k] + 1
    BY WriteShape
  <2> QED
    BY <2>1, <2>2
<1>2. ASSUME NEW j \in Keys, NEW q \in PodOrNone, Fits(version[j], api[j], q), Ahead(j, q)
      PROVE  \A i \in 1..Len(watch'[j]) : Newer(watch'[j][i], q)
  <2>1. CASE j # k
    BY <1>2, <2>1, WriteShape DEF Ahead
  <2>2. CASE j = k
    <3> TAKE i \in 1..Len(watch'[j])
    <3>1. /\ Len(watch[k]) \in Nat /\ Len(watch'[k]) = Len(watch[k]) + 1
          /\ watch'[k][Len(watch[k]) + 1] = api'[k]
          /\ \A n \in 1..Len(watch[k]) : watch'[k][n] = watch[k][n]
      BY WriteShape
    <3>2. CASE i = Len(watch[k]) + 1
      BY <1>1, <1>2, <2>2, <3>1, <3>2
    <3>3. CASE i \in 1..Len(watch[k])
      BY <1>2, <2>2, <3>1, <3>3 DEF Ahead
    <3> QED
      BY <2>2, <3>1, <3>2, <3>3
  <2> QED
    BY <2>1, <2>2
<1>3. ASSUME NEW j \in Keys PROVE api'[j] # NoPod => api'[j].rv = version'[j]
  BY WriteShape DEF OrderInv
<1>4. ASSUME NEW j \in Keys PROVE Ahead(j, store[j])'
  <2>1. store'[j] = store[j] /\ store[j] \in PodOrNone
    BY WriteShape DEF ClusterInv
  <2>2. Fits(version[j], api[j], store[j]) /\ Ahead(j, store[j])
    BY DEF ClusterInv, OrderInv
  <2> QED
    BY <1>2, <2>1, <2>2 DEF Ahead
<1>5. ASSUME NEW j \in Keys, NEW m \in 1..Len(watch'[j]), NEW n \in 1..Len(watch'[j]), m < n
      PROVE  Newer(watch'[j][n], watch'[j][m])
  <2>1. CASE j # k
    BY <1>5, <2>1, WriteShape DEF OrderInv
  <2>2. CASE j = k
    <3>1. /\ Len(watch[k]) \in Nat /\ Len(watch'[k]) = Len(watch[k]) + 1
          /\ watch'[k][Len(watch[k]) + 1] = api'[k]
          /\ \A i \in 1..Len(watch[k]) : watch'[k][i] = watch[k][i]
      BY WriteShape
    <3>2. m \in 1..Len(watch[k]) /\ watch'[k][m] = watch[k][m]
      BY <1>5, <2>2, <3>1
    <3>3. watch[k][m] \in PodOrNone /\ Fits(version[k], api[k], watch[k][m])
      <4>1. watch[k] \in Seq(PodOrNone)
        BY DEF ClusterInv
      <4> QED
        BY <3>2, <4>1 DEF ClusterInv
    <3>4. CASE n = Len(watch[k]) + 1
      BY <1>1, <2>2, <3>1, <3>2, <3>3, <3>4
    <3>5. CASE n \in 1..Len(watch[k])
      BY <1>5, <2>2, <3>1, <3>2, <3>5 DEF OrderInv
    <3> QED
      BY <2>2, <3>1, <3>4, <3>5
  <2> QED
    BY <2>1, <2>2
<1>6. OrderInv'
  BY <1>3, <1>4, <1>5 DEF OrderInv
<1> QED
  BY <1>2, <1>6 DEF Ahead

\* The informer goes on to the next version.
LEMMA ObserveOrder ==
    ASSUME ClusterInv, OrderInv, NEW k \in Keys, watch[k] # <<>>,
           store' = [store EXCEPT ![k] = Head(watch[k])],
           watch' = [watch EXCEPT ![k] = Tail(@)],
           UNCHANGED <<api, version>>
    PROVE  /\ OrderInv'
           /\ \A j \in Keys, q \in PodOrNone :
                 /\ Ahead(j, q) => Ahead(j, q)'
                 /\ /\ Ahead(j, q)
                    /\ q # NoPod /\ store[j] # NoPod => q.rv <= store[j].rv
                    => (q # NoPod /\ store'[j] # NoPod => q.rv <= store'[j].rv)
           /\ \A j \in Keys : Calm(j) => Calm(j)'
<1> DEFINE s == watch[k]
<1>1. s \in Seq(PodOrNone) /\ s # <<>>
  BY DEF ClusterInv
<1>2. store'[k] = Head(s) /\ watch'[k] = Tail(s)
  BY DEF ClusterInv
<1>3. \A j \in Keys : j # k => store'[j] = store[j] /\ watch'[j] = watch[j]
  BY DEF ClusterInv
<1>4. \A m, n \in 1..Len(s) : m < n => Newer(s[n], s[m])
  BY DEF OrderInv
<1>5. \A q \in PodOrNone : Ahead(k, q) => \A i \in 1..Len(s) : Newer(s[i], q)
  BY DEF Ahead
<1>6. Calm(k) => \A i \in 1..Len(s) : ~NeedsDelete(s[i])
  BY DEF Calm
<1> HIDE DEF s
<1>7. /\ Len(s) \in Nat /\ 1 \in 1..Len(s) /\ Head(s) = s[1] /\ Head(s) \in PodOrNone
      /\ Len(Tail(s)) = Len(s) - 1
  BY <1>1
<1>8. \A i \in 1..Len(Tail(s)) : Tail(s)[i] = s[i + 1] /\ i + 1 \in 1..Len(s)
  BY <1>1
<1>9. ASSUME NEW j \in Keys, NEW q \in PodOrNone, Ahead(j, q) PROVE Ahead(j, q)'
  <2>1. CASE j = k
    BY <1>2, <1>5, <1>8, <1>9, <2>1 DEF Ahead
  <2>2. CASE j # k
    BY <1>3, <1>9, <2>2 DEF Ahead
  <2> QED
    BY <2>1, <2>2
<1>10. ASSUME NEW j \in Keys, NEW q \in PodOrNone, Ahead(j, q),
              q # NoPod /\ store[j] # NoPod => q.rv <= store[j].rv,
              q # NoPod, store'[j] # NoPod
       PROVE  q.rv <= store'[j].rv
  <2>1. CASE j = k
    <3>1. q.rv < s[1].rv
      BY <1>2, <1>5, <1>7, <1>10, <2>1 DEF Newer
    <3>2. q.rv \in Nat /\ s[1].rv \in Nat
      BY <1>2, <1>7, <1>10, <2>1 DEF PodOrNone, Pod
    <3> QED
      BY <1>2, <1>7, <2>1, <3>1, <3>2
  <2>2. CASE j # k
    BY <1>3, <1>10, <2>2
  <2> QED
    BY <2>1, <2>2
<1>11. ASSUME NEW j \in Keys, Calm(j) PROVE Calm(j)'
  <2>1. CASE j = k
    <3>1. ~NeedsDelete(s[1]) /\ \A i \in 1..Len(Tail(s)) : ~NeedsDelete(Tail(s)[i])
      BY <1>6, <1>7, <1>8, <1>11, <2>1
    <3> QED
      BY <1>2, <1>7, <2>1, <3>1 DEF Calm, NeedsDelete
  <2>2. CASE j # k
    BY <1>3, <1>11, <2>2 DEF Calm, NeedsDelete
  <2> QED
    BY <2>1, <2>2
<1>12. ASSUME NEW j \in Keys PROVE Ahead(j, store[j])'
  <2>1. CASE j = k
    <3>1. \A i \in 1..Len(Tail(s)) : Newer(Tail(s)[i], s[1])
      BY <1>4, <1>7, <1>8
    <3> QED
      BY <1>2, <1>7, <2>1, <3>1 DEF Ahead
  <2>2. CASE j # k
    BY <1>3, <2>2 DEF Ahead, OrderInv
  <2> QED
    BY <2>1, <2>2
<1>13. ASSUME NEW j \in Keys
       PROVE  \A m, n \in 1..Len(watch'[j]) : m < n => Newer(watch'[j][n], watch'[j][m])
  <2>1. CASE j = k
    <3> SUFFICES ASSUME NEW m \in 1..Len(Tail(s)), NEW n \in 1..Len(Tail(s)), m < n
                 PROVE  Newer(Tail(s)[n], Tail(s)[m])
      BY <1>2, <2>1
    <3>1. m + 1 < n + 1
      BY <1>7
    <3> QED
      BY <1>4, <1>8, <3>1
  <2>2. CASE j # k
    BY <1>3, <2>2 DEF OrderInv
  <2> QED
    BY <2>1, <2>2
<1>14. OrderInv'
  BY <1>12, <1>13 DEF OrderInv
<1> QED
  BY <1>9, <1>10, <1>11, <1>14

\* A pod that is written keeps its key calm unless it comes to run.
LEMMA WriteCalm ==
    ASSUME ClusterInv, NEW k \in Keys, NEW p \in PodOrNone, Write(k, p)
    PROVE  /\ \A j \in Keys : j # k /\ Calm(j) => Calm(j)'
           /\ Runs(api'[k]) => Runs(p)
           /\ Runs(p) /\ Calm(k) => Calm(k)'
<1>1. \A j \in Keys : j # k /\ Calm(j) => Calm(j)'
  BY WriteShape DEF Calm, NeedsDelete
<1>2. Runs(api'[k]) => Runs(p)
  BY WriteShape DEF Runs
<1>3. ASSUME Runs(p), Calm(k) PROVE Calm(k)'
  <2>1. /\ Len(watch[k]) \in Nat /\ Len(watch'[k]) = Len(watch[k]) + 1
        /\ watch'[k][Len(watch[k]) + 1] = api'[k] /\ ~api'[k].deleting
        /\ \A i \in 1..Len(watch[k]) : watch'[k][i] = watch[k][i]
        /\ store' = store
    BY <1>3, WriteShape DEF Runs
  <2>2. \A i \in 1..Len(watch'[k]) : i = Len(watch[k]) + 1 \/ i \in 1..Len(watch[k])
    BY <2>1
  <2>3. \A i \in 1..Len(watch'[k]) : ~NeedsDelete(watch'[k][i])
    BY <1>3, <2>1, <2>2 DEF Calm, NeedsDelete
  <2> QED
    BY <1>3, <2>1, <2>3 DEF Calm, NeedsDelete
<1> QED
  BY <1>1, <1>2, <1>3

\* Others write any pod, but none that runs if there was none.
LEMMA EnvironmentWrites ==
    ASSUME KubeletInv, NEW k \in Keys, Environment(k)
    PROVE  \E p \in PodOrNone : OtherWrite(k, p) /\ (Runs(p) => Runs(api[k]))
<1>1. api[k] \in PodOrNone /\ NoPod \in PodOrNone /\ (api[k] # NoPod => api[k] \in Pod)
  BY DEF KubeletInv, ClusterInv, PodOrNone
<1>2. CASE Create(k)
  <2>1. PICK bound \in BOOLEAN :
           OtherWrite(k, [rv |-> 0, node |-> bound, deleting |-> FALSE, ip |-> 0])
    BY <1>2 DEF Create
  <2>2. /\ [rv |-> 0, node |-> bound, deleting |-> FALSE, ip |-> 0] \in PodOrNone
        /\ ~Runs([rv |-> 0, node |-> bound, deleting |-> FALSE, ip |-> 0])
    BY DEF PodOrNone, Pod, Runs
  <2> QED
    BY <2>1, <2>2
<1>3. CASE Bind(k)
  <2> DEFINE p == [api[k] EXCEPT !.node = TRUE]
  <2>1. api[k] # NoPod /\ OtherWrite(k, p)
    BY <1>3 DEF Bind
  <2>2. p \in PodOrNone /\ p.ip = api[k].ip /\ p.deleting = api[k].deleting
    BY <1>1, <2>1 DEF PodOrNone, Pod
  <2> QED
    BY <2>1, <2>2 DEF Runs
<1>4. CASE Touch(k)
  BY <1>1, <1>4 DEF Touch
<1>5. CASE Terminate(k)
  <2> DEFINE p == [api[k] EXCEPT !.deleting = TRUE]
  <2>1. api[k] # NoPod /\ OtherWrite(k, p)
    BY <1>5 DEF Terminate
  <2>2. p \in PodOrNone /\ p.deleting
    BY <1>1, <2>1 DEF PodOrNone, Pod
  <2> QED
    BY <2>1, <2>2 DEF Runs
<1>6. CASE Remove(k)
  BY <1>1, <1>6 DEF Remove, Runs
<1> QED
  BY <1>2, <1>3, <1>4, <1>5, <1>6 DEF Environment

\* A status write that is not refused was made from the present pod, so that
\* the informer has seen all that came before it.
LEMMA StartCalm ==
    ASSUME KeepInv, NEW w \in Workers, step[w] = "status", held[w] \in Keys,
           ~StatusConflict(held[w], pod[w])
    PROVE  Calm(held[w]) /\ api[held[w]] # NoPod /\ ~api[held[w]].deleting
<1> DEFINE k == held[w]
           v == version[k]
<1>1. /\ ClusterInv /\ ReadsOld /\ k \in Keys
      /\ Fits(v, api[k], pod[w]) /\ NeedsRunning(pod[w]) /\ pod[w] \in PodOrNone
  BY DEF KeepInv, KubeletInv, WorkerInv, ReadsFit
<1>2. api[k] # NoPod /\ api[k] = pod[w] /\ ~NeedsDelete(api[k]) /\ ~api[k].deleting
  BY <1>1 DEF StatusConflict, Fits, NeedsRunning, NeedsDelete
<1>3. v \in Nat /\ pod[w].rv = v
  BY <1>1, <1>2 DEF KeepInv, OrderInv, ClusterInv
<1>4. ASSUME NeedsDelete(store[k]) PROVE FALSE
  <2>1. store[k] # NoPod /\ store[k] \in PodOrNone /\ Fits(v, api[k], store[k])
    BY <1>1, <1>4 DEF ClusterInv, NeedsDelete
  <2>2. store[k].rv \in Nat /\ store[k].rv <= v /\ v <= store[k].rv
    BY <1>1, <1>2, <1>3, <2>1 DEF ReadsOld, Fits, PodOrNone, Pod
  <2>3. store[k] = api[k]
    BY <1>2, <1>3, <2>1, <2>2 DEF Fits
  <2> QED
    BY <1>2, <1>4, <2>3
<1>5. ASSUME NEW i \in 1..Len(watch[k]), NeedsDelete(watch[k][i]) PROVE FALSE
  <2> DEFINE q == watch[k][i]
  <2>1. watch[k] \in Seq(PodOrNone)
    BY <1>1 DEF ClusterInv
  <2>2. q # NoPod /\ q \in PodOrNone /\ Fits(v, api[k], q)
    BY <1>1, <1>5, <2>1 DEF ClusterInv, NeedsDelete
  <2>3. Newer(q, pod[w])
    BY <1>1 DEF ReadsOld, Ahead
  <2> HIDE DEF q
  <2>4. q.rv \in Nat /\ q.rv <= v /\ v < q.rv
    BY <1>2, <1>3, <2>2, <2>3 DEF Fits, Newer, PodOrNone, Pod
  <2> QED
    BY <1>3, <2>4
<1> QED
  BY <1>2, <1>4, <1>5 DEF Calm

LEMMA KeepStart == KubeletInit => KeepInv
<1> SUFFICES ASSUME KubeletInit PROVE KeepInv
  OBVIOUS
<1>1. KubeletInv
  BY KubeletStart
<1>2. \A k \in Keys : api[k] = NoPod /\ store[k] = NoPod /\ Len(watch[k]) = 0
  BY DEF KubeletInit
<1>3. \A w \in Workers : step[w] = "get"
  BY DEF KubeletInit
<1> QED
  BY <1>1, <1>2, <1>3 DEF KeepInv, OrderInv, ReadsOld, RunningInv, Ahead, Runs

\* A worker is done with a key, and may have written it.
LEMMA FinishKeeps ==
    ASSUME KeepInv, NEW w \in Workers, NEW k \in Keys, held[w] = k, step[w] # "get",
           step' = [step EXCEPT ![w] = "get"],
           held' = [held EXCEPT ![w] = NoKey], pod' = pod,
           \/ UNCHANGED clusterVars
           \/ \E p \in PodOrNone :
                 Write(k, p) /\ (Runs(p) => Runs(api[k]) \/ Calm(k))
    PROVE  OrderInv' /\ ReadsOld' /\ RunningInv'
<1>1. /\ ClusterInv /\ OrderInv /\ ReadsOld /\ RunningInv /\ QueueTypeOK /\ WorkInv
      /\ ReadsFit /\ step \in [Workers -> {"get", "nothing", "status", "delete"}]
      /\ pod \in [Workers -> PodOrNone]
  BY DEF KeepInv, KubeletInv, QueueInv, WorkerInv
<1>2. step'[w] = "get" /\ \A v \in Workers : v # w => step'[v] = step[v] /\ held'[v] = held[v]
  BY <1>1 DEF QueueTypeOK
<1>3. \A v \in Workers : v # w => held[v] # k
  BY <1>1, PodQueueAssumption DEF WorkInv
<1>4. CASE UNCHANGED clusterVars
  <2>1. api' = api /\ version' = version /\ watch' = watch /\ store' = store
    BY <1>4 DEF clusterVars
  <2>2. OrderInv'
    BY <1>1, <2>1 DEF OrderInv, Ahead
  <2>3. ReadsOld'
    BY <1>1, <1>2, <2>1 DEF ReadsOld, Ahead
  <2>4. RunningInv'
    BY <1>1, <1>2, <2>1 DEF RunningInv, Calm, NeedsDelete
  <2> QED
    BY <2>2, <2>3, <2>4
<1>5. ASSUME NEW p \in PodOrNone, Write(k, p), Runs(p) => Runs(api[k]) \/ Calm(k)
      PROVE  OrderInv' /\ ReadsOld' /\ RunningInv'
  <2>1. /\ OrderInv'
        /\ \A j \in Keys, q \in PodOrNone :
              Fits(version[j], api[j], q) /\ Ahead(j, q)
                 => \A i \in 1..Len(watch'[j]) : Newer(watch'[j][i], q)
    BY <1>1, <1>5, WriteOrder DEF Ahead
  <2>2. store' = store /\ \A j \in Keys : j # k => api'[j] = api[j]
    BY <1>1, <1>5, WriteShape
  <2>3. ReadsOld'
    <3> SUFFICES ASSUME NEW v \in Workers, step'[v] # "get"
                 PROVE  /\ pod'[v] # NoPod /\ store'[held'[v]] # NoPod
                              => pod'[v].rv <= store'[held'[v]].rv
                        /\ \A i \in 1..Len(watch'[held'[v]]) :
                              Newer(watch'[held'[v]][i], pod'[v])
      BY DEF ReadsOld, Ahead, Newer
    <3>1. step[v] # "get" /\ held'[v] = held[v] /\ held[v] \in Keys /\ pod[v] \in PodOrNone
      BY <1>1, <1>2 DEF ReadsFit
    <3>2. \A i \in 1..Len(watch'[held[v]]) : Newer(watch'[held[v]][i], pod[v])
      BY <1>1, <2>1, <3>1 DEF ReadsFit, ReadsOld
    <3> QED
      BY <1>1, <2>2, <3>1, <3>2 DEF ReadsOld
  <2>4. RunningInv'
    <3> SUFFICES ASSUME NEW j \in Keys, Runs(api'[j])
                 PROVE  Calm(j)' /\ \A v \in Workers : step'[v] = "delete" => held'[v] # j
      BY DEF RunningInv, Runs
    <3>1. CASE j # k
      BY <1>1, <1>2, <1>5, <2>2, <3>1, WriteCalm DEF RunningInv
    <3>2. CASE j = k
      <4>1. Runs(p) /\ Calm(k)
        BY <1>1, <1>5, <3>2, WriteCalm DEF RunningInv
      <4>2. Calm(k)'
        BY <1>1, <1>5, <4>1, WriteCalm
      <4> QED
        BY <1>2, <1>3, <3>2, <4>2
    <3> QED
      BY <3>1, <3>2
  <2> QED
    BY <2>1, <2>3, <2>4
<1> QED
  BY <1>4, <1>5

\* Another step leaves the reconcilers alone, whatever happens to the cluster.
LEMMA BesideKeeps ==
    ASSUME KeepInv, UNCHANGED workVars,
           \A v \in Workers : held[v] \in Keys => held'[v] = held[v],
           OrderInv',
           \A j \in Keys, q \in PodOrNone :
              /\ Fits(version[j], api[j], q) /\ Ahead(j, q)
                    => \A i \in 1..Len(watch'[j]) : Newer(watch'[j][i], q)
              /\ /\ Ahead(j, q)
                 /\ q # NoPod /\ store[j] # NoPod => q.rv <= store[j].rv
                 => (q # NoPod /\ store'[j] # NoPod => q.rv <= store'[j].rv),
           \A j \in Keys :
              /\ Runs(api'[j]) => Runs(api[j])
              /\ Runs(api'[j]) /\ Calm(j) => Calm(j)'
    PROVE  OrderInv' /\ ReadsOld' /\ RunningInv'
<1>1. /\ ReadsOld /\ RunningInv /\ ReadsFit /\ step' = step /\ pod' = pod
      /\ \A v \in Workers : pod[v] \in PodOrNone
  BY DEF KeepInv, KubeletInv, WorkerInv, workVars
<1>2. \A v \in Workers : step[v] # "get" => held[v] \in Keys /\ held'[v] = held[v]
  BY <1>1 DEF ReadsFit
<1>3. ReadsOld'
  <2> SUFFICES ASSUME NEW v \in Workers, step[v] # "get"
               PROVE  /\ pod[v] # NoPod /\ store'[held[v]] # NoPod
                            => pod[v].rv <= store'[held[v]].rv
                      /\ \A i \in 1..Len(watch'[held[v]]) : Newer(watch'[held[v]][i], pod[v])
    BY <1>1, <1>2 DEF ReadsOld, Ahead, Newer
  <2>1. /\ held[v] \in Keys /\ pod[v] \in PodOrNone /\ Ahead(held[v], pod[v])
        /\ Fits(version[held[v]], api[held[v]], pod[v])
        /\ pod[v] # NoPod /\ store[held[v]] # NoPod => pod[v].rv <= store[held[v]].rv
    BY <1>1, <1>2 DEF ReadsOld, ReadsFit
  <2> QED
    BY <2>1
<1>4. RunningInv'
  BY <1>1, <1>2 DEF RunningInv, Runs
<1> QED
  BY <1>3, <1>4

LEMMA KeepStep == KeepInv /\ [KubeletNext]_kubeletVars => KeepInv'
<1> SUFFICES ASSUME KeepInv, [KubeletNext]_kubeletVars PROVE KeepInv'
  OBVIOUS
<1>1. KubeletInv'
  BY KubeletStep DEF KeepInv
<1>2. /\ KubeletInv /\ ClusterInv /\ OrderInv /\ ReadsOld /\ RunningInv /\ QueueTypeOK
      /\ WorkerInv /\ ReadsFit
  BY DEF KeepInv, KubeletInv, QueueInv, WorkerInv
<1>3. ASSUME NEW k \in Keys, Environment(k) PROVE OrderInv' /\ ReadsOld' /\ RunningInv'
  <2>1. PICK p \in PodOrNone : OtherWrite(k, p) /\ (Runs(p) => Runs(api[k]))
    BY <1>2, <1>3, EnvironmentWrites
  <2>2. Write(k, p) /\ UNCHANGED workVars /\ held' = held
    BY <2>1 DEF OtherWrite, queueVars
  <2>3. /\ OrderInv'
        /\ \A j \in Keys, q \in PodOrNone :
              Fits(version[j], api[j], q) /\ Ahead(j, q)
                 => \A i \in 1..Len(watch'[j]) : Newer(watch'[j][i], q)
    BY <1>2, <2>2, WriteOrder DEF Ahead
  <2>4. store' = store /\ \A j \in Keys : j # k => api'[j] = api[j]
    BY <1>2, <2>2, WriteShape
  <2>5. /\ Runs(api'[k]) => Runs(p)
        /\ Runs(p) /\ Calm(k) => Calm(k)'
        /\ \A j \in Keys : j # k /\ Calm(j) => Calm(j)'
    BY <1>2, <2>2, WriteCalm
  <2>6. \A j \in Keys :
           /\ Runs(api'[j]) => Runs(api[j])
           /\ Runs(api'[j]) /\ Calm(j) => Calm(j)'
    BY <2>1, <2>4, <2>5
  <2> QED
    BY <2>2, <2>3, <2>4, <2>6, BesideKeeps
<1>4. ASSUME NEW k \in Keys, Observe(k) PROVE OrderInv' /\ ReadsOld' /\ RunningInv'
  <2>1. /\ watch[k] # <<>> /\ store' = [store EXCEPT ![k] = Head(watch[k])]
        /\ watch' = [watch EXCEPT ![k] = Tail(@)]
        /\ UNCHANGED <<api, version>> /\ UNCHANGED workVars /\ held' = held
    BY <1>4 DEF Observe, Add
  <2>2. /\ OrderInv'
        /\ \A j \in Keys, q \in PodOrNone :
              /\ Ahead(j, q) => \A i \in 1..Len(watch'[j]) : Newer(watch'[j][i], q)
              /\ /\ Ahead(j, q)
                 /\ q # NoPod /\ store[j] # NoPod => q.rv <= store[j].rv
                 => (q # NoPod /\ store'[j] # NoPod => q.rv <= store'[j].rv)
        /\ \A j \in Keys : Calm(j) => Calm(j)'
    BY <1>2, <2>1, ObserveOrder DEF Ahead
  <2> QED
    BY <2>1, <2>2, BesideKeeps
<1>5. ASSUME UNCHANGED clusterVars, UNCHANGED workVars,
             \A v \in Workers : held[v] \in Keys => held'[v] = held[v]
      PROVE  OrderInv' /\ ReadsOld' /\ RunningInv'
  <2>1. api' = api /\ version' = version /\ watch' = watch /\ store' = store
    BY <1>5 DEF clusterVars
  <2>2. OrderInv' /\ \A j \in Keys : Calm(j) => Calm(j)'
    BY <1>2, <2>1 DEF OrderInv, Ahead, Calm, NeedsDelete
  <2>3. \A j \in Keys, q \in PodOrNone :
           Ahead(j, q) => \A i \in 1..Len(watch'[j]) : Newer(watch'[j][i], q)
    BY <2>1 DEF Ahead
  <2> QED
    BY <1>5, <2>1, <2>2, <2>3, BesideKeeps
<1>6. ASSUME NEW w \in Workers, Reconcile(w) PROVE OrderInv' /\ ReadsOld' /\ RunningInv'
  <2> DEFINE k == held[w]
             p == IF k \in Ours THEN store[k] ELSE NoPod
             s == IF NeedsDelete(p) THEN "delete"
                  ELSE IF NeedsRunning(p) THEN "status" ELSE "nothing"
  <2>1. /\ k \in Keys /\ pod' = [pod EXCEPT ![w] = p] /\ step' = [step EXCEPT ![w] = s]
        /\ UNCHANGED <<queueVars, clusterVars>>
    BY <1>6 DEF Reconcile
  <2>2. api' = api /\ version' = version /\ watch' = watch /\ store' = store /\ held' = held
    BY <2>1 DEF clusterVars, queueVars
  <2>3. p = NoPod \/ p = store[k]
    OBVIOUS
  <2>4. s = "delete" => NeedsDelete(p)
    OBVIOUS
  <2>5. store[k] \in PodOrNone /\ Ahead(k, store[k])
    BY <1>2, <2>1 DEF ClusterInv, OrderInv
  <2> HIDE DEF s, p
  <2>6. /\ step'[w] = s /\ pod'[w] = p
        /\ \A v \in Workers : v # w => step'[v] = step[v] /\ pod'[v] = pod[v]
    BY <1>2, <2>1 DEF WorkerInv
  <2>7. OrderInv'
    BY <1>2, <2>2 DEF OrderInv, Ahead
  <2>8. ReadsOld'
    <3> SUFFICES ASSUME NEW v \in Workers, step'[v] # "get"
                 PROVE  /\ pod'[v] # NoPod /\ store[held[v]] # NoPod
                              => pod'[v].rv <= store[held[v]].rv
                        /\ \A i \in 1..Len(watch[held[v]]) : Newer(watch[held[v]][i], pod'[v])
      BY <2>2 DEF ReadsOld, Ahead, Newer
    <3>1. CASE v # w
      BY <1>2, <2>6, <3>1 DEF ReadsOld, Ahead
    <3>2. CASE v = w /\ p = NoPod
      BY <2>6, <3>2 DEF Newer
    <3>3. CASE v = w /\ p = store[k]
      <4>1. store[k] # NoPod => store[k].rv \in Nat
        BY <2>5 DEF PodOrNone, Pod
      <4> QED
        BY <2>5, <2>6, <3>3, <4>1 DEF Ahead
    <3> QED
      BY <2>3, <3>1, <3>2, <3>3
  <2>9. RunningInv'
    <3> SUFFICES ASSUME NEW j \in Keys, Runs(api[j])
                 PROVE  Calm(j) /\ \A v \in Workers : step'[v] = "delete" => held[v] # j
      BY <2>2 DEF RunningInv, Runs, Calm, NeedsDelete
    <3>1. Calm(j) /\ \A v \in Workers : step[v] = "delete" => held[v] # j
      BY <1>2 DEF RunningInv
    <3>2. step'[w] = "delete" => held[w] # j
      BY <2>3, <2>4, <2>6, <3>1 DEF Calm, NeedsDelete
    <3> QED
      BY <2>6, <3>1, <3>2
  <2> QED
    BY <2>7, <2>8, <2>9
<1>7. ASSUME NEW w \in Workers,
             ReconcileNothing(w) \/ StatusApplied(w) \/ StatusRefused(w) \/ Deleted(w)
             \/ RequestFails(w) \/ AnswerLost(w)
      PROVE  OrderInv' /\ ReadsOld' /\ RunningInv'
  <2>1. Succeed(w) \/ Fail(w)
    BY <1>7 DEF ReconcileNothing, StatusApplied, StatusRefused, Deleted, RequestFails, AnswerLost
  <2>2. held[w] \in Keys /\ held' = [held EXCEPT ![w] = NoKey]
    BY <2>1 DEF Succeed, Fail
  <2>3. step[w] # "get" /\ step' = [step EXCEPT ![w] = "get"] /\ pod' = pod
    BY <1>7 DEF ReconcileNothing, StatusApplied, StatusRefused, Deleted, RequestFails, AnswerLost
  <2>4. \/ step[w] = "status" /\ ~StatusConflict(held[w], pod[w]) /\ StatusEffect(held[w])
        \/ DeleteEffect(held[w])
        \/ UNCHANGED clusterVars
    BY <1>7 DEF ReconcileNothing, StatusApplied, StatusRefused, Deleted, RequestFails, AnswerLost
  <2>5. PICK k \in Keys : held[w] = k
    BY <2>2
  <2>6. api[k] \in PodOrNone /\ version[k] \in Nat /\ (api[k] # NoPod => api[k] \in Pod)
    BY <1>2 DEF ClusterInv, PodOrNone
  <2>7. CASE step[w] = "status" /\ ~StatusConflict(held[w], pod[w]) /\ StatusEffect(held[w])
    <3> DEFINE p == [api[k] EXCEPT !.ip = version[k] + 1]
    <3>1. Calm(k) /\ api[k] # NoPod
      BY <2>5, <2>7, StartCalm
    <3>2. Write(k, p)
      BY <2>5, <2>7 DEF StatusEffect
    <3>3. p \in PodOrNone
      BY <2>6, <3>1 DEF PodOrNone, Pod
    <3> QED
      BY <2>2, <2>3, <2>5, <3>1, <3>2, <3>3, FinishKeeps
  <2>8. CASE DeleteEffect(held[w]) /\ ~UNCHANGED clusterVars
    <3>1. api[k] # NoPod /\ (Write(k, NoPod) \/ Write(k, [api[k] EXCEPT !.deleting = TRUE]))
      BY <2>5, <2>8 DEF DeleteEffect
    <3>2. /\ NoPod \in PodOrNone /\ ~Runs(NoPod)
          /\ [api[k] EXCEPT !.deleting = TRUE] \in PodOrNone
          /\ ~Runs([api[k] EXCEPT !.deleting = TRUE])
      BY <2>6, <3>1 DEF PodOrNone, Pod, Runs
    <3> QED
      BY <2>2, <2>3, <2>5, <3>1, <3>2, FinishKeeps
  <2>9. CASE UNCHANGED clusterVars
    BY <2>2, <2>3, <2>5, <2>9, FinishKeeps
  <2> QED
    BY <2>4, <2>7, <2>8, <2>9
<1>8. ASSUME (\E k \in Keys : Timer(k)) \/ RunQueue \/ StopQueue \/ UNCHANGED kubeletVars,
             UNCHANGED <<clusterVars, workVars>>
      PROVE  OrderInv' /\ ReadsOld' /\ RunningInv'
  <2>1. held' = held
    BY <1>8 DEF Timer, DelayOver, RunQueue, StopQueue, kubeletVars, queueVars
  <2> QED
    BY <1>5, <1>8, <2>1 DEF clusterVars, workVars
<1>9. ASSUME NEW w \in Workers, Worker(w) \/ Fault(w)
      PROVE  OrderInv' /\ ReadsOld' /\ RunningInv'
  <2>1. CASE Reconcile(w)
    BY <1>6, <2>1
  <2>2. CASE (Get(w) \/ Quit(w) \/ SignalSynced(w)) /\ UNCHANGED <<clusterVars, workVars>>
    <3>1. \A v \in Workers : held[v] \in Keys => held'[v] = held[v]
      BY <1>2, <2>2, PodQueueAssumption DEF Get, Quit, Idle, SignalSynced, QueueTypeOK
    <3> QED
      BY <1>5, <2>2, <3>1 DEF clusterVars, workVars
  <2>3. CASE \/ ReconcileNothing(w) \/ StatusApplied(w) \/ StatusRefused(w) \/ Deleted(w)
             \/ RequestFails(w) \/ AnswerLost(w)
    BY <1>7, <2>3
  <2> QED
    BY <1>9, <2>1, <2>2, <2>3 DEF Worker, Fault
<1>10. OrderInv' /\ ReadsOld' /\ RunningInv'
  <2>1. CASE UNCHANGED kubeletVars
    BY <1>8, <2>1 DEF kubeletVars
  <2>2. CASE KubeletNext
    BY <1>3, <1>4, <1>8, <1>9, <2>2 DEF KubeletNext, Timer
  <2> QED
    BY <2>1, <2>2
<1> QED
  BY <1>1, <1>10 DEF KeepInv

\* A deletion of the kubelet may hit a pod created under the name since, but
\* never one that runs, for every number of workers and pods (cluster.go:184).
THEOREM RunningPodsKept == KubeletSpec => RunningPodIsKept
<1>1. ASSUME KeepInv, [KubeletNext]_kubeletVars, NEW k \in Keys, EndedByKubelet(k)
      PROVE  api[k].ip = 0
  <2>1. KubeletInv /\ ClusterInv /\ RunningInv
    BY <1>1 DEF KeepInv, KubeletInv
  <2>2. /\ step' # step /\ api[k] # NoPod /\ ~api[k].deleting
        /\ api'[k] = NoPod \/ api'[k].deleting
    BY <1>1 DEF EndedByKubelet
  <2>3. PICK w \in Workers : Worker(w) \/ Fault(w)
    <3>1. \A j \in Keys : (Environment(j) \/ Observe(j) \/ Timer(j)) => step' = step
      BY DEF Environment, Create, Bind, Touch, Terminate, Remove, OtherWrite, Observe, Timer,
             workVars
    <3>2. (RunQueue \/ StopQueue) /\ UNCHANGED <<clusterVars, workVars>> => step' = step
      BY DEF workVars
    <3>3. (UNCHANGED kubeletVars) => step' = step
      BY DEF kubeletVars, workVars
    <3> QED
      BY <1>1, <2>2, <3>1, <3>2, <3>3 DEF KubeletNext
  <2>4. \/ api' = api
        \/ held[w] \in Keys /\ step[w] = "status" /\ ~StatusConflict(held[w], pod[w])
           /\ StatusEffect(held[w])
        \/ held[w] \in Keys /\ step[w] = "delete" /\ DeleteEffect(held[w])
    BY <2>3 DEF Worker, Fault, Reconcile, ReconcileNothing, StatusApplied, StatusRefused, Deleted,
                RequestFails, AnswerLost, Succeed, Fail, clusterVars
  <2>5. api[k] \in Pod
    BY <2>1, <2>2 DEF ClusterInv, PodOrNone
  <2>6. api' # api
    BY <2>2
  <2>7. held[w] = k
    BY <2>1, <2>2, <2>4, <2>6 DEF StatusEffect, DeleteEffect, Write, clusterVars, ClusterInv
  <2>8. CASE step[w] = "status" /\ StatusEffect(k)
    <3> DEFINE p == [api[k] EXCEPT !.ip = version[k] + 1]
    <3>1. p \in PodOrNone /\ p # NoPod /\ ~p.deleting /\ Write(k, p)
      <4>1. version[k] \in Nat
        BY <2>1 DEF ClusterInv
      <4>2. p \in Pod /\ ~p.deleting
        BY <2>2, <2>5, <4>1 DEF Pod
      <4>3. p \in PodOrNone /\ p # NoPod
        BY <4>2, FakeKubeletAssumption DEF PodOrNone
      <4> QED
        BY <2>8, <4>2, <4>3 DEF StatusEffect
    <3> HIDE DEF p
    <3>2. api'[k] # NoPod /\ api'[k].deleting = p.deleting
      BY <2>1, <3>1, WriteShape
    <3> QED
      BY <2>2, <3>1, <3>2
  <2>9. CASE step[w] = "delete"
    BY <2>1, <2>2, <2>5, <2>7, <2>9 DEF RunningInv, Runs
  <2> QED
    BY <2>4, <2>6, <2>7, <2>8, <2>9
<1>2. KeepInv /\ [KubeletNext]_kubeletVars =>
        [\A k \in Keys : EndedByKubelet(k) => api[k].ip = 0]_kubeletVars
  BY <1>1
<1>3. KubeletSpec => []KeepInv
  BY KeepStart, KeepStep, PTL DEF KubeletSpec
<1> QED
  BY <1>2, <1>3, PTL DEF KubeletSpec, RunningPodIsKept
=============================================================================
