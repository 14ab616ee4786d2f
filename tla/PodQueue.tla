------------------------------ MODULE PodQueue ------------------------------
(***************************************************************************)
(* sims/cluster/queue_fork.go: a queue of keys worked off by several       *)
(* goroutines, over client-go's rate limiting workqueue.                   *)
(*                                                                         *)
(* The workqueue is external.  It keeps the keys that wait (queue, in      *)
(* order), the keys that need work (dirty) and the keys being worked on    *)
(* (processing); a key added while it is processed waits for Done.  A      *)
(* rate limited add is held back for a while (delayed).                    *)
(***************************************************************************)
EXTENDS Integers, Sequences

CONSTANTS Keys,         \* names of the objects
          Workers,      \* the goroutines of WithWorkers
          MaxAttempts,  \* WithMaxAttempts
          SyncSignal,   \* defaultSyncSignal
          NoKey         \* a worker that holds nothing

ASSUME PodQueueAssumption ==
    /\ MaxAttempts \in Nat
    /\ SyncSignal \notin Keys
    /\ NoKey \notin Keys \cup {SyncSignal}

Items == Keys \cup {SyncSignal}

VARIABLES
    queue,       \* workqueue: what Get will hand out, in order
    dirty,       \* workqueue: the items that need work
    processing,  \* workqueue: the items handed out and not Done
    delayed,     \* workqueue: the items AddRateLimited holds back
    requeues,    \* workqueue: NumRequeues
    shutdown,    \* workqueue: ShutDown was called
    started,     \* has Run been called?
    synced,      \* initialSync
    held,        \* held[w]: the item worker w got
    exited,      \* the workers whose loop has ended
    \* history
    initial,     \* the keys added before Run
    handled      \* the keys whose reconciler has returned at least once

queueVars == <<queue, dirty, processing, delayed, requeues, shutdown, started,
               synced, held, exited, initial, handled>>

QueueInit ==
    /\ queue = <<>>
    /\ dirty = {}
    /\ processing = {}
    /\ delayed = {}
    /\ requeues = [k \in Keys |-> 0]
    /\ shutdown = FALSE
    /\ started = FALSE
    /\ synced = FALSE
    /\ held = [w \in Workers |-> NoKey]
    /\ exited = {}
    /\ initial = {}
    /\ handled = {}
-----------------------------------------------------------------------------
(* Slips: operators below with a plausible mistake, for some property to     *)
(* notice.                                                                   *)

\* Add does not look whether the item waits already
EnqueueTwice(i) ==
    IF shutdown
    THEN UNCHANGED <<queue, dirty>>
    ELSE /\ dirty' = dirty \cup {i}
         /\ queue' = IF i \in processing THEN queue ELSE Append(queue, i)

\* Done is called at once, not deferred to the end of the work
GetDone(w) ==
    /\ started
    /\ held[w] = NoKey
    /\ queue # <<>>
    /\ held' = [held EXCEPT ![w] = Head(queue)]
    /\ queue' = Tail(queue)
    /\ dirty' = dirty \ {Head(queue)}
    /\ UNCHANGED <<processing, delayed, requeues, shutdown, started, synced,
                   exited, initial, handled>>

\* the early return after AddRateLimited comes without Done
FailWithoutDone(w) ==
    /\ held[w] \in Keys
    /\ requeues' = [requeues EXCEPT ![held[w]] = 0]
    /\ delayed' = IF shutdown THEN delayed ELSE delayed \cup {held[w]}
    /\ handled' = handled \cup {held[w]}
    /\ held' = [held EXCEPT ![w] = NoKey]
    /\ UNCHANGED <<queue, dirty, processing, shutdown, started, synced,
                   exited, initial>>
-----------------------------------------------------------------------------
(* workqueue *)

\* Add, also by the timer of AddRateLimited
Enqueue(i) ==
    IF shutdown \/ i \in dirty
    THEN UNCHANGED <<queue, dirty>>
    ELSE /\ dirty' = dirty \cup {i}
         /\ queue' = IF i \in processing THEN queue ELSE Append(queue, i)

\* Done: an item that became dirty meanwhile is handed out again
Done(i) ==
    /\ processing' = processing \ {i}
    /\ queue' = IF i \in dirty THEN Append(queue, i) ELSE queue
-----------------------------------------------------------------------------
(* Queue *)

\* Queue.Add and Queue.AddObject
Add(k) ==
    /\ Enqueue(k)
    /\ UNCHANGED <<processing, delayed, requeues, shutdown, started, synced,
                   held, exited, initial, handled>>

\* Run adds the sync signal and starts the workers.
RunQueue ==
    /\ ~started
    /\ started' = TRUE
    /\ initial' = dirty
    /\ Enqueue(SyncSignal)
    /\ UNCHANGED <<processing, delayed, requeues, shutdown, synced, held,
                   exited, handled>>

\* <-stop: the deferred ShutDown
StopQueue ==
    /\ started
    /\ ~shutdown
    /\ shutdown' = TRUE
    /\ UNCHANGED <<queue, dirty, processing, delayed, requeues, started,
                   synced, held, exited, initial, handled>>

Idle(w) == started /\ held[w] = NoKey /\ w \notin exited

\* Get hands out the first item.
Get(w) ==
    /\ Idle(w)
    /\ queue # <<>>
    /\ held' = [held EXCEPT ![w] = Head(queue)]
    /\ queue' = Tail(queue)
    /\ dirty' = dirty \ {Head(queue)}
    /\ processing' = processing \cup {Head(queue)}
    /\ UNCHANGED <<delayed, requeues, shutdown, started, synced, exited,
                   initial, handled>>

\* Get returns quit: the queue was shut down and is empty
Quit(w) ==
    /\ Idle(w)
    /\ shutdown
    /\ queue = <<>>
    /\ exited' = exited \cup {w}
    /\ UNCHANGED <<queue, dirty, processing, delayed, requeues, shutdown,
                   started, synced, held, initial, handled>>

\* The signal is noted, and returned from without Done.
SignalSynced(w) ==
    /\ held[w] = SyncSignal
    /\ synced' = TRUE
    /\ held' = [held EXCEPT ![w] = NoKey]
    /\ UNCHANGED <<queue, dirty, processing, delayed, requeues, shutdown,
                   started, exited, initial, handled>>

\* The reconciler returned nil: Forget, then the deferred Done.
Succeed(w) ==
    /\ held[w] \in Keys
    /\ requeues' = [requeues EXCEPT ![held[w]] = 0]
    /\ Done(held[w])
    /\ handled' = handled \cup {held[w]}
    /\ held' = [held EXCEPT ![w] = NoKey]
    /\ UNCHANGED <<dirty, delayed, shutdown, started, synced, exited, initial>>

\* retryCount < maxAttempts, with retryCount = NumRequeues + 1
RetriesLeft(k) == requeues[k] + 1 < MaxAttempts

\* The reconciler returned an error: AddRateLimited while retries are left,
\* otherwise Forget; then the deferred Done.
Fail(w) ==
    /\ held[w] \in Keys
    /\ requeues' = [requeues EXCEPT
                        ![held[w]] = IF RetriesLeft(held[w]) THEN @ + 1 ELSE 0]
    /\ delayed' = IF RetriesLeft(held[w]) /\ ~shutdown
                  THEN delayed \cup {held[w]}
                  ELSE delayed
    /\ Done(held[w])
    /\ handled' = handled \cup {held[w]}
    /\ held' = [held EXCEPT ![w] = NoKey]
    /\ UNCHANGED <<dirty, shutdown, started, synced, exited, initial>>

\* The timer of a rate limited add fires.
DelayOver(k) ==
    /\ k \in delayed
    /\ delayed' = delayed \ {k}
    /\ Enqueue(k)
    /\ UNCHANGED <<processing, requeues, shutdown, started, synced, held,
                   exited, initial, handled>>
-----------------------------------------------------------------------------
(* Properties *)

\* The queue keeps its shape and never holds an item twice.
QueueTypeOK ==
    /\ queue \in Seq(Items)
    /\ \A i, j \in 1..Len(queue) : queue[i] = queue[j] => i = j
    /\ dirty \subseteq Items
    /\ processing \subseteq Items
    /\ delayed \subseteq Keys
    /\ requeues \in [Keys -> Nat]
    /\ shutdown \in BOOLEAN
    /\ started \in BOOLEAN
    /\ synced \in BOOLEAN
    /\ held \in [Workers -> Items \cup {NoKey}]
    /\ exited \subseteq Workers
    /\ initial \subseteq Keys
    /\ handled \subseteq Keys

\* A key is reconciled by one worker at a time, however often and whenever it
\* is added: reconciles of one object never overlap.
OneWorkerPerKey ==
    \A v, w \in Workers : held[v] \in Keys /\ held[v] = held[w] => v = w

\* A key that needs work is never forgotten: it waits in the queue, or a
\* worker holds it and Done will put it back.
DirtyIsQueued ==
    \A k \in dirty \cap Keys :
        \/ \E i \in 1..Len(queue) : queue[i] = k
        \/ \E w \in Workers : held[w] = k

\* What HasSynced says (queue_fork.go:137-139): every key added before Run
\* was processed at least once.
SyncedIsHandled == synced => initial \subseteq handled
=============================================================================
