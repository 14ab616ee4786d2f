# Specifications of pilot-load

pilot-load puts load on istiod and on a Kubernetes API server. It simulates the
clients of a mesh: XDS connections, pods, namespaces, whole clusters, and the
kubelet of nodes that do not exist. This directory holds TLA+ specifications of
the parts of it that run concurrently, the TLC runs that check them on small
instances, and TLAPS proofs for any instance.

    tlc -config MCBatchReporter.cfg MCBatchReporter.tla     # one run
    tlapm BatchReporter_proofs.tla                          # the proofs

`PROJECT.json` lists the components, the runs with their properties, which
lines of the source each definition models, the hazards of the code, the
findings and the theorems.

## The system

| component | state | operations | what makes it hard |
|---|---|---|---|
| batch reporter (`pkg/victoria/batch.go`) | a bounded channel, the flusher's slice, a ticker, a close channel | `Report`, `Close`, the `flusher` goroutine | `Close` races with reporters and the ticker |
| `victoriapush` (`sims/victoriapush`) | the scanner's position, the context | `Run`, `Cleanup` | the input ends, or a signal comes, while batches are under way |
| work queue (`sims/cluster/queue_fork.go`) | client-go's queue, dirty and processing sets, retry counts, the sync flag | `Add`, `Run`, workers, retries | several workers; keys added while they are processed |
| simulated kubelet (`sims/cluster/cluster.go`, `watchPods`) | none of its own: the informer's store and the API server | the reconciler: mark as running, delete by name | late reads, conflicts, lost answers, a retry budget |
| delta XDS client (`adsc/delta.go`) | tree of resources, names per type, the stream | `Watch`, `handleRecv`, `deleteNode` | pushes, subscriptions and removals cross on the stream |
| connection loop (`adsc/load.go`, `pkg/simulation/xds`) | a connection, its receiver, the updates channel, a backoff | `Connect`, `Run`, `Cleanup` | dials fail, streams break, a context is cancelled anywhere |
| program life cycle (`pkg/simulation/simulations.go`, `model`) | the context, the list of simulations | `ExecuteSimulations`, `AggregateSimulation.Run` and `Cleanup` | a signal in the middle of the start |
| state-of-the-world client (`adsc/adsc.go`) | watches, responses, the updates channel | `handleRecv`, `Watch`, `ack`, `Fetch` | requests with an old nonce are ignored; responses hold some of the names; a fetch must end |
| Kubernetes requests (`pkg/kube`) | none | create, delete, apply with a status, server-side apply | a request is several calls; conflicts and their retries; answers that are lost |
| pods and applications (`pkg/simulation/app`) | the pods an application has, whether each was created | `Run`, `Refresh`, `Cleanup` | requests fail after they took effect; a refresh overlaps a cleanup |
| cluster and scaler (`sims/cluster`) | nodes, namespaces, applications, leases | `Run`, `Cleanup`, the scaler, the lease goroutine | nobody waits for the scaler and for leases, and they share what is cleaned up |
| impersonation (`sims/adscimpersonate`) | replicas by pod, a queue with one worker | the reconciler, `add`, `del`, `Cleanup` | a replica may be cleaned up before the goroutine that runs it |
| reproduction of a dump (`sims/reproducecluster`) | the simulations started, which of them to leave alone | `Run`, `Cleanup` | what was there before has to survive |
| XDS latency (`sims/xdslatency`) | a channel of pushes | `Run` and its deferred call | pushes are taken for the answer to a change that they did not come from |
| pod start-up benchmark (`sims/podstartup`) | a pod for each worker | `Run`, the workers | workers report to a loop that may have stopped reading |
| templates, tokens, addresses, dump, flags, monitoring | little | straight-line | - |

How they interact: a command makes a `Simulation` and hands it to
`ExecuteSimulations`, which runs it, waits for its context to be done and cleans
it up. An `AggregateSimulation` does the same for a list. `xds.Simulation`
starts `adsc.Connect` in a goroutine; `Connect` makes a client, whose receiver
goroutine answers the server and talks to `Connect` through a channel of
updates. The cluster simulation creates objects in the API server and runs
`watchPods` beside it, which turns the events of an informer into keys in a
work queue, and the keys into writes to the API server. `victoriapush` feeds the
batch reporter. The other commands make requests through `pkg/kube` and start XDS
simulations, all of them under `ExecuteSimulations`.

What makes each part correct is said by its properties, below.

## Modules

| module | models | extends |
|---|---|---|
| `BatchReporter` | `pkg/victoria/batch.go` | |
| `DeliveryLog` | abstract: what `victoriapush` promises about its input | |
| `VictoriaPush` | the `victoriapush` program | `BatchReporter`; implements `DeliveryLog` |
| `PodQueue` | `sims/cluster/queue_fork.go`; client-go's workqueue is external | |
| `FakeKubelet` | `watchPods` and the status write of `pkg/kube`; API server and informer are external | `PodQueue` |
| `DeltaClient` | `adsc/delta.go`; istiod is external | |
| `AdscClient` | `adsc/adsc.go`, and `Fetch` of `adsc/load.go`; istiod is external | |
| `XdsConnect` | `Connect`, `xds.Simulation`, how both clients dial, close and end their receivers | |
| `AdscProgram` | the `adsc` command, `AggregateSimulation`, `ExecuteSimulations` | `XdsConnect` |
| `KubeRequests` | the requests of `pkg/kube` call by call; API server and namespace controller are external | |
| `Execute` | `ExecuteSimulations` around any command, and the XDS simulations it starts | `KubeRequests` |
| `ClusterProgram` | `cluster`: `sims/cluster`, `pkg/simulation/app`, `pkg/simulation/config` | `Execute` |
| `Impersonate` | `adsc-impersonate`; informer and istio's queue are external | `Execute` |
| `Reproduce` | `reproduce-cluster` | `Execute` |
| `Latency` | `xds-latency`; istiod is external | `Execute` |
| `Startup` | `pod-startup` | `Execute` |
| `Commands` | the program: one of these five commands | the five |
| `BatchReporter_proofs`, `VictoriaPush_proofs`, `FakeKubelet_proofs`, `AdscProgram_proofs`, `DeltaClient_proofs`, `AdscClient_proofs`, `Commands_proofs`, `Forgotten_proofs` | theorems and proofs; the last extends the one before | |
| `MC...` | constants of the runs | |

Every module has the same layout: constants and the assumptions on them,
variables, the initial state, one action per operation or step of a goroutine,
the next-state relation, fairness, properties. Definitions under "Slips", or
marked "A slip", are variants of others with a plausible mistake (a dropped guard, a swapped
order, a missing reset). They are not part of any next-state relation. Putting
one in the place of the definition it varies breaks the property `PROJECT.json`
pairs it with, which shows that the property depends on that line of the code.

### BatchReporter

`entryChan`, `closeChan` and `batch` are the variables of the code. `flusher` is
the place of the goroutine: "select" is the outer select, "post" and "postLast"
the two calls of `send`, which block on the server, "drain" the inner select.
`want` holds what is left of a caller's `Report`. Entries are serial numbers.
`accepted`, `sent` and `atClose` are history. A POST ends after the server read
the batch, whether it answers with success or not: the code logs a failure and
drops the batch, so `sent` means "handed to a finished POST", not "stored". One
goroutine calls `Close`, once, as the code's callers do.

Properties: `Accounting` (accepted = sent, then slice, then channel),
`BatchWithinMax` (also of the batch posted at `Close`), `CloseFlushes`, and
`ReportReturns` and `AcceptedIsSent`, the last two under fairness.

### VictoriaPush

`Producers` is the one goroutine that runs `Pusher.Run`. A line is read, then
perhaps skipped, or pushed. `Signal` and the end of the input both cancel the
context; `Cleanup` comes after `Run` has returned. `AllRecordsSent` says that
the program exits with every record sent once, in the order of the input.
`ImplementsDeliveryLog` is the refinement: `Len(accepted)`, `Len(sent)` and
"Close has returned" are the abstract accepted, delivered and closed.

### PodQueue and FakeKubelet

The workqueue is modelled with its queue, dirty and processing sets, and with
`delayed` for the rate limited adds. A worker's `Get`, its reconciler and the
deferred `Done` are separate steps. A reconciler is two steps: it reads the
informer's store, then it makes its one request. The API server gives each
write to a pod a version. A status write names the version it was made from,
and is refused when the pod has another. The informer sees the versions of one
pod in order and late. A request may fail before it takes effect
(`RequestFails`) or after (`AnswerLost`). `Create`, `Bind`, `Touch`,
`Terminate` and `Remove` are what others do to the pod: the simulation that
created it, the scheduler, other controllers.

`AddressIsFinal` and `StartsOnlyBoundPods` are action properties: what no write
may do to a pod, although the kubelet decides on old reads and retries.
`BoundPodStarts` is what the kubelet is for. It excepts keys in `givenUp`: keys
whose last attempt was spent on a request that failed by itself. The exception is what the code does. Conflicts use up the same
budget of attempts, but a conflict comes with a newer version still on its way,
which brings the key back; a failure does not, so that a single failure after a
few conflicts leaves the pod pending for good.

Nothing is said of a pod that is being deleted, on purpose. `watchPods` asks for
its deletion once more, without options (`cluster.go:184`), and the API server
ignores that while a deletion with a grace period is pending: only a deletion
with a grace period of 0 removes the pod. So in `DeleteEffect` the call does
nothing to a marked pod, and such a pod stays until somebody else removes it
(`Remove`). The program's own pods are not concerned: they have a grace period
of 0 (`pkg/simulation/app/pod.go:150`), and the program deletes with one
(`pkg/kube/kube.go:290`). Those of `podstartup` come from the user's file and
may be.

What the call can do is hit another pod, as it names the pod and not its UID: one
that was created under the name after the reconciler read the store. Whether that
pod is removed or marked depends on its node, grace period and finalizers, and
both are allowed. `RunningPodIsKept` bounds the harm: the pod that is hit does not
run yet. Only the worker of its key can start it, that worker waits for its
deletion, and once a pod was started the store has left its predecessors
behind, so that no retry is decided on them. The run needs four writes of others for
this (create, delete, remove, create again). It is assumed that a request takes
effect before it is answered or fails, if ever: a deletion which the API server
carried out after the client had seen it fail could hit a running pod.

`SyncedIsHandled` is what the documentation of the sync flag says, and does not
hold (below).

### DeltaClient

A node's `Parents` and `Children` are one relation, `edges`: the code always
changes both ends together. The two root nodes are left out. `Parents` (the
constant) are clusters and listeners, `Leaves` endpoints and routes. Handling a
response is one action, as a composition of what the code does in order: match,
enter, relate, remove, subscribe and unsubscribe, acknowledge. `Watch` sends its
requests from another goroutine, so `SendWatch` interleaves with it. The server
keeps what it pushed on this stream and what the stream is subscribed to, and
answers requests in order. `Redial` starts again with a new client. One
simplification: the requests one response leads to are appended together, so
that an initial watch of the other type cannot come between them. Those requests
do not depend on each other.

`TreeMatchesConfig` says that the client has what it was sent. It says
inclusion, not equality, for references: a listener that stops referring to a
route keeps its edge, in the code as in the model. `TreeIsSubscribed` and
`NoStraySubscription` relate the tree to the subscriptions once every request on
its way has arrived. The first excepts leaves in `cut`, the second leaves in
`dropped`; both exceptions are behaviour of the code, and the first is a
finding.

### AdscClient

`watches` and `responses` are the maps of the code; `updates` is its channel.
Handling a response is one action: `ack`, then the requests the response leads
to, then the update. Nobody else reads what lies between except `Fetch`, which
sees `responses` either before or after. A response of clusters or listeners is
the set of names it refers to. `fetch` is "none" when `Connect` keeps the
client; otherwise it is the place of `Fetch`, whose loop reads the updates, whose
`Close` ends the stream, and which reads `responses` only then.

The server follows the protocol as istiod does: it ignores a request whose
nonce is not the last it sent, a request without names ends a watch, and new
names are answered, with or without the others. So the list a client sends may
be ignored, and it has to reach the server with a later acknowledgement. For
endpoints it does (`EndpointsWatched`), as `ack` repeats the whole list. For
routes it does not: `RoutesWatched` is a finding. `AllAcknowledged`: after every
exchange the server has its last response acknowledged. `FollowsConfig`: a
stream that lasts brings the client to watch what the configuration refers to.
`FetchedIsComplete`: a fetch returns endpoints and routes that belong to its
clusters and listeners, if the server did not change meanwhile. `FetchEnds`
assumes that there are endpoints and routes at all: without any, `Fetch` waits
until its context is done, as the code does.

### XdsConnect and AdscProgram

`pc` follows `Connect`: a dial, the backoff after a failed dial, the loop, the
backoff after a broken stream. `conn` is the connection the variable `con`
refers to; `lost` counts open connections nothing refers to any more. `recv` is
the receiver of the current stream. What travels on the stream is left to
`DeltaClient`: here something is received, or the stream breaks. Each
simulation may use either client, for both of which `Connect` is the same code;
they differ in what a failed dial leaves behind and in whether updates are
reported. `AdscProgram` starts the simulations in order, waits for the context
and cleans up in order.

`OneStreamAtATime`: `Connect` never closes the stream that broke, and must rely
on the receiver having done so before it says "close". `CleanupCloses`: after
`Cleanup`, nothing is dialled and the last stream is closed. `ReceiversEnd`: no
receiver blocks for ever on a channel `Connect` has left. `ExitsOnceRun`: an
interrupted program whose simulations were all started exits.

### KubeRequests and Execute

Everything the other commands do goes through a few functions of `pkg/kube`, so
they are modelled once, with the goroutine that makes the request as parameter.
`req[p]` is the request of goroutine `p` and the call it has come to: `Apply`
gets the object, creates or updates it, and updates its status when it has one.
`Ask` begins a request and `Forget` is the caller going on with the answer;
between the two, calls of other goroutines interleave. A call may be refused, may
meet a conflict (an object in `Contended` is also written by controllers, and
`RetryOnConflict` gives up after `Tries`), may fail before its effect or lose its
answer after it. `unsure` holds the objects whose last request ended in an
error; the program knows no better. An object is absent, "ours" or of "others".
A namespace is deleted in two steps, like in a cluster: first it accepts nothing
new, then it goes with all it holds. A call that is under way when the process
exits may still land.

`Execute` is `ExecuteSimulations`: `phase` is its place. If `Run` fails, the
cleanup starts with a context that is still live, and with it the goroutines
that wait for its end. An XDS simulation is allocated ("made"), then run, and
ends when it is cancelled; what goes on inside is the subject of `XdsConnect`.
Cleaning up one that is made but not run waits on a channel that is not there
("stuck"). `AdscProgram` shows this for `adsc` as a finding; here the
properties except it (`Hung`), so that they still say something of the rest.

### ClusterProgram

`at` gives the place of each goroutine: the main one, one for each simulation of
an application (they are run and cleaned up in parallel), one each for the
cleanup of a node and of a namespace, the lease, the scaler. `pods` is the list of
the application, `created` the field of the pods. A pod has ten attempts to be
created, a namespace a hundred; both are constants.

A configuration follows a node or a namespace, with at most one application.
`Cluster.Run` starts them one after the other; their cleanups run in
goroutines that share nothing but the context. So several of them add orders
among steps that do not touch each other. What they do share, the scaler and the
context, is in both.

### Impersonate, Reproduce, Latency, Startup

*Impersonate.* An event of the informer queues the key of a pod; the one worker
reads the store when it gets to the key. It adds replicas, each with a goroutine
that runs it later (`ReplicaRuns`), and closes them one after the other.

*Reproduce.* `Docs` is the file, `todo` what `Run` has still to get to. `Earlier` is
the order in which it does: by kind in the order of `order`, and within a kind as
in the file. What is denied is skipped. `skipCleanup` is the field of the
simulations, which `sims` holds in the order they were made; `Cleanup` takes them
from its end.

*Latency.* `updates` is the channel, `owed` says that istiod will push clusters.
`Run` drains the channel before each change, then waits for clusters, deletes
the configuration and waits again. A value receiver makes `Cleanup` find nil
fields, and do nothing.

*Startup.* A worker creates a pod, polls until it is ready, deletes it in a
deferred call, and reports. The report and the end of the context race.

### Commands

One state space, in which `command` says which of the five runs. Its properties
are those that any command of a load generator has to have:

- `NothingForgotten`: objects that nothing in the program leads to any more are
  never more than the requests that failed.
- `LeavesNothing`: after the exit, all that the program made goes away, but for
  objects in `unsure` or whose owner is. Objects go with their namespace, leases
  with their node.
- `InterruptedEnds`: an interrupted program exits, unless it is `Hung`.
- `DeletesOnlyItsOwn`: `reproduce-cluster` deletes nothing that others made. It
  excepts objects in `unsure`, which is what the code does: after an
  error, the object is deleted whoever made it.
- `FollowsPods`: the replicas become those of the selected pods, unless the worker
  is `Hung`, or has `Missed` the cancel function: it looked for it just before the
  replica's `Run` stored it, and waits for a replica that nobody cancels.
- `PushArrives`: `xds-latency` does not wait for a push that istiod does not owe.

The exceptions name behaviour of the code that no document rules out, and are
listed as hazards.

## Runs

| run | bounds | states | why these bounds |
|---|---|---|---|
| `batch_reporter` | 2 reporters, channel 2, batch 2, calls of at most 2, 5 entries | 70k | batches fill, the channel fills during a POST, entries are left at `Close`, reporters contend |
| `victoria_push` | 7 lines, channel 2, batch 3 | 2k | the last batch exceeds the batch size; `Report` blocks |
| `fake_kubelet` | 1 pod, 2 workers, 2 attempts, 4 writes of others, 2 faults | 1.06M | enough to create, delete, remove and create again; a budget spent on conflicts, on faults, on both |
| `delta_client` | 2 listeners that may share a route, 1 cluster, 2 changes | 131k | from any configuration: a shared route, a removal and a return, changes that cross requests |
| `adsc_client` | 2 clusters, 1 route, 1 secret in 3 configurations, 1 change, channel 20 | 145k | lists that grow, shrink and vanish while pushes and requests cross; the channel never fills, as the code's hundred places do not |
| `adsc_program` | 2 simulations, channel 1, 1 failed dial, 1 broken stream | 34k | interrupt before, between and after the starts; a full channel when a stream ends |
| `commands` | 4 cluster configurations (a node with and without a ztunnel, a namespace with a sidecar pod, one with virtual machines and a template), 2 pod names, a pod to impersonate with 2 replicas, a dump of 6 documents, 2 configurations to time, 2 start-up workers; 2 failed calls, 3 attempts at a conflict, 2 attempts at a pod and at a namespace, 3 changes of the live pod, channel 2, 1 broken stream | 267k | two faults exhaust a budget of attempts, or fail a start and then its cleanup; three changes are a pod that is added, removed and comes back while the worker is busy; a second pod name gives one refresh, which may run at any point of the cleanup |

The other five runs show that a statement in the source does not hold:

- `has_synced` - with several workers `HasSynced` is true before every earlier
  key was processed (`queue_fork.go:137`).
- `delta_shared` - a route two listeners share is unsubscribed when one of them
  goes, and not subscribed to again (`delta.go:346`).
- `routes_narrowed` - "in ack envoy should ack for all" (`adsc.go:706`) is done for
  endpoints only; the acknowledgement of some of the routes ends the watch of the
  others.
- `connect_leak` - "Shut everything down" (`load.go:99`) leaves the connections
  of failed dials open.
- `adsc_hang` - a signal during the start makes the program hang in `Cleanup`
  (`xds.go:83`).

Deadlock checking is off everywhere: each of these programs may end or wait for
input.

Bounds are constants: `MaxReports`, `MaxArgs`, `MaxLines`, `MaxWrites`,
`MaxFaults`, `MaxChanges`, `MaxFails`, `MaxBreaks`. They limit what the
environment does. Generated names (`PodNames`, `PodsOf`) come from finite sets,
which bounds the refreshes of the scaler and the rounds of a start-up worker;
the names in `Entries` come again, so `xds-latency` runs without a bound. Sizes that
are constants of the code (500 entries, 100 updates, 5 or 10 or 100 attempts) are
parameters, made small. In `commands` the goroutines and XDS simulations of
different commands share their names, since only one command runs.

### Fairness

Weak fairness, on what the runtime and the other end do by themselves:

- a goroutine that can go on does so;
- tickers and timers fire;
- a POST ends, standard input yields another line or ends;
- the informer catches up, a request is answered;
- a stream that is up delivers in order, and istiod pushes what changed.

Nothing obliges others to create pods, istiod to send anything, a stream to
break or a user to interrupt. `CatchesUp` assumes in its formula that streams
do not break for ever. In `FakeKubelet` fairness is on each worker. A fault can
take the place of the step, but faults are bounded, so a worker that keeps
trying gets through.

In `Commands` it is on the main goroutine, on the worker of a queue, on the
goroutines that end by themselves taken together, on the XDS simulations, on
connecting, and on the cluster's controllers. A request is answered for the same
reason as a goroutine goes on. None is assumed of the scaler and of leases:
nobody waits for them, and the properties hold whether they get to run or not. A
push of istiod has strong fairness: it waits for room in the channel, and a sender
that waits there is served before a later one, so it cannot be overtaken for
ever by other updates. Others need not touch the cluster, pods need not become
ready, and nobody has to interrupt.

## Proofs

For every value of the constants that satisfies the named assumptions:

| theorem | states |
|---|---|
| `BatchReporter_proofs!Typing` | `Spec => []TypeOK` |
| `Conservation` | `Spec => []Accounting` |
| `BatchBound` | `Spec => []BatchWithinMax` |
| `CloseIsFlush` | `Spec => []CloseFlushes` |
| `VictoriaPush_proofs!NothingLost` | `PushSpec => []AllRecordsSent` |
| `Refinement` | `PushSpec => ImplementsDeliveryLog` |
| `FakeKubelet_proofs!KubeletTyping` | `KubeletSpec => []KubeletTypeOK` |
| `WorkersApart` | `KubeletSpec => []OneWorkerPerKey` |
| `NothingDropped` | `KubeletSpec => []DirtyIsQueued` |
| `AddressesFinal` | `KubeletSpec => AddressIsFinal` |
| `StartsBound` | `KubeletSpec => StartsOnlyBoundPods` |
| `RunningPodsKept` | `KubeletSpec => RunningPodIsKept` |
| `AdscProgram_proofs!ProgramTyping` | `ProgramSpec => []ProgramTypeOK` |
| `OneStream` | `ProgramSpec => []OneStreamAtATime` |
| `CleanupIsFinal` | `ProgramSpec => []CleanupCloses` |
| `DeltaClient_proofs!DeltaTyping` | `Spec => []TypeOK` |
| `NoStray` | `Spec => []NoStraySubscription` |
| `TreeSubscribed` | `Spec => []TreeIsSubscribed` |
| `TreeMatches` | `Spec => []TreeMatchesConfig` |
| `EveryResponseAcked` | `Spec => []AllAcknowledged` |
| `AdscClient_proofs!AdscTyping` | `Spec => []TypeOK` |
| `EndpointsInStep` | `Spec => []EndpointsWatched` |
| `EveryNonceAcked` | `Spec => []AllAcknowledged` |
| `FetchComplete` | `Spec => []FetchedIsComplete` |
| `Commands_proofs!CommandsTyping` | `Spec => []CommandsTypeOK` |
| `ReproduceDeletesOwn` | `Spec => DeletesOnlyItsOwn` |
| `Forgotten_proofs!NothingIsForgotten` | `Spec => []NothingForgotten` |

*BatchReporter.* `Accounting` is inductive given types. The work is in the
lemmas on sequences: concatenation is associative, and moving the head of the
channel to the end of the slice leaves the whole unchanged. `CloseFlushes` is
not inductive. `CloseInv` adds that the number accepted at the time of `Close`
is reached at the latest when the flusher has drained the channel: from "drain"
on, what is in `sent`, slice and channel covers it, in "postLast" `sent` and
slice do, in "done" `sent` alone does. `BatchWithinMax` needs it as well: the drain
begins only after `Close`, with what slice and channel can hold, and grows by what
is accepted after `atClose`. Nothing is assumed but that capacity and
batch size are positive.

*VictoriaPush.* `UsesReporter` shows that the program is one of the callers
the reporter's specification allows, so `TypeOK` and `Accounting` are had for
nothing. `PushInv` adds what is special about this caller: it reports one
record at a time, so that what was accepted and what the present call wants are
the numbers up to `reported`; it closes only after `Run` has returned, so that
nothing enters the channel once the flusher has drained it. Then "done" means
that channel and slice are empty, and `accepted = sent`. The refinement follows
step by step (`LogStep`): a push is an `Accept`, a POST that ends a `Deliver`
(or nothing, when the slice was empty), the return of `Close` the `Close`. It is
assumed that the channel has a capacity, that a batch holds something, and that a
call of `Report` may have one entry.

*FakeKubelet.* The two properties of the queue need `WorkInv`: what waits is
dirty and nobody's, what is dirty waits or is being worked on, what is being worked
on is held by exactly one worker. The properties of the pods need `Fits`: a
version of a pod that anyone still holds, in the watch, in the store or in a
reconciler, is no newer than what the API server gave out last, and if it has
the version of the present pod it is that pod. So a status write that the
server accepts was decided on the pod as it is, however late the informer was and
however often the write was tried; this is all that `AddressIsFinal` and
`StartsOnlyBoundPods` need. The proof goes through each step of the queue, then
of the cluster, then of the workers, and holds for any number of keys, workers,
attempts and faults. `RunningPodIsKept` needs the order in which versions are seen:
`OrderInv` (the present pod has the last version; the informer sees versions in
order) and `ReadsOld` (what a reconciler read is not newer than the store). By
them, a status write that is accepted finds nothing but its own pod in the store and
no older one in the watch, so that starting it establishes `RunningInv`: while a pod
runs, neither the store, nor the watch, nor a reconciler calls for a deletion. It is
assumed that `NoPod` is not a pod.

*AdscProgram.* `OneStreamAtATime` is not inductive either: nothing in it says
why "close" in the channel means that the receiver is gone. `StreamsInv` says so
(a receiver puts "close" last; it has closed the connection before), and also
where a receiver can be alive, and in which states of `Connect` a connection can
be open. It is proved of `ConnNext`, the steps of the connections alone; a lemma
shows that every step of the program is such a step or leaves the connections
alone. The assumptions are that there is at least one simulation and that the
channel has room for one update.

*DeltaClient.* `NoStraySubscription` and `TreeIsSubscribed` speak of the
subscriptions as they will be once the requests on their way have arrived
(`SubscribedAfter`), so each is kept by every step by itself; the lemmas on
`SubscribedAfter` say what one more request at the end, or one less at the front, does to
it. `AllAcknowledged` needs the count: acknowledgements due are the responses and
the acknowledgements on their way. `TreeMatchesConfig` holds only when nothing is on
its way, and the invariant behind it, `Agrees`, says where the tree stands
otherwise. It looks at one parent at a time: if no response on its way mentions the
parent, the tree has it as the server sent it last (`Settled`); otherwise the last response
that mentions it has it so (`LastIsCurrent`). The third part, `RemovalIsMadeUp`, was
missing at first, and the proof of handling a response failed without it: a
response that removes a leaf tears the edges to it, and what keeps the tree complete is that
the parents that still refer to the leaf are mentioned again afterwards.

*AdscClient.* `EndpointsWatched` and `AllAcknowledged` hold although the server
throws requests away. `NonceInv` says that the nonces of a type grow along the
stream, from the one the client noted to the one the server sent last.
`RequestInv` says that the last request of a type on its way carries the
client's present nonce, and for endpoints its present list. So either that nonce is the
server's, and the request will be accepted, or a response is still on its way,
which will make the client send again; when neither is on its way, the server is
in step. That every response is followed by an acknowledgement sent after the list
has changed is what carries this, and what the proof of `handleRecv` shows.
`FetchComplete` needs `StreamIsFinal`: while the configuration is the first one, every
message of a type holds the same names, those of endpoints and routes are not
empty, and what is watched of them is no more than that. It assumes what the module assumes:
every name has a type, the four types differ from each other and from secrets and
extensions, of which there are finitely many, and none of them is the word
"close", which the client puts into the same channel (types are URLs).

*Commands.* `TypeInv` is `CommandsTypeOK` and what the types need: a request is for
an object, with a call or answer its operation can have; `Run` asks for the next
of `RunOrder` and never for the application; the simulations of a dump are in the
order of the documents, and before those that are still to do.

`DeletesOnlyItsOwn` rests on `OwnInv`. It calls a simulation of the dump held when
`Cleanup` will delete its object: its creation has ended and was no "exists".
What is held is ours, or its creation failed with an error. That stays so because
each object has one document, because only the main goroutine asks for anything,
and because namespaces come first in the dump and so last in the cleanup: a
namespace that is being deleted takes no object with it that is still held. It is
assumed of a dump that it has one document of an object, and of the objects that
namespaces are those whose document says so (`ReproduceAssumption`).

`NothingForgotten` counts, and what is counted appears several steps after the
failure it is charged to: when a goroutine gives up. So for each command a larger
set is followed, of objects that are forgotten or will be unless a retry
succeeds. It grows in the step in which a call fails, and by one object.

- `reproduce-cluster` forgets nothing at all: a simulation is recorded before its
  object is asked for (`RememberedBySims`). Nor does `xds-latency`: no
  configuration but that of the round is there (`OneConfiguration`).
- A start-up worker `Holds` its pod until its request has failed (`WorkersInv`).
- A refresh of the scaler has two pods at stake. The new one is in the list of the
  application from the start, but the cleanup deletes only what is marked as
  created, and the mark comes with an answer. The removed one is deleted if the
  new one starts. So a first failed attempt may leave the removed pod behind,
  and a second one the new pod as well, when its answer was lost (`Failures`,
  `Safe`); a deletion that fails loses one. `StagesInv` and `RequestFits` say who
  may ask for a pod and when: the goroutines of the application's start, or the
  scaler after it. `SpacesInv` says that a pod that is there has its namespace; so
  when the server refuses a pod, which is no failure of a call, nothing was there
  to be forgotten.

The last argument needs `PodAttempts > 1` (the code has 10). With one attempt the
theorem is false, which TLC shows too: one lost answer leaves behind the removed
pod and, unmarked, the new one. It also assumes that the application's pods share
their namespace, and that the pod of a start-up configuration has no status: a
status is a second write, and one that gives up after conflicts makes the worker
forget a pod without any call having failed.

The invariants were model-checked in the configuration of `commands` before they
were proved, that of the scaler also with three pod names and four failures.

Only model-checked: everything under fairness, which the prover cannot treat. Of
`Commands` these are `LeavesNothing`, `InterruptedEnds`, `FollowsPods` and
`PushArrives`. All invariants and action properties of the passing runs are proved.

## Plan

What is left, in this order:

1. The safety behind `LeavesNothing`: what the program made is, in every state
   of the cleanup, still to be deleted, or unsure, or in a namespace that is.
2. Abstract specifications: of the work queue (a set of keys, each handled
   after its last add), of a simulation (started, then cleaned up), implemented
   by `PodQueue` and `AdscProgram`.
3. A POST that ends before its body was read, in `BatchReporter`.

## Not modelled

- `pkg/victoria/logs.go`: the goroutine that encodes a batch may still read the
  slice when the server answers early, while the flusher reuses it. The models
  assume that a server answers after it read the request. A POST the server
  rejects counts as sent, as in the code.
- Code that no command calls: `Application.Scale`, `ApplyFast`, `Finalize`,
  `DeleteRaw` and the raw patches of `pkg/kube`, `RunSimulation`, the package
  `pkg/simulation/impersonate`, which repeats `sims/adscimpersonate`, and `Wait` of
  the XDS client.
- `dump`, and `ExecuteOneshot`, which serves it alone: one fetched configuration
  is turned into files, in a straight line.
- The contents of objects: templates and their rendering, the parsing of
  configurations and dumps, what is cleared in an object before it is created.
  The byte arithmetic of `GetIP`: addresses are values that do not repeat.
- The token cache, where two callers at worst request the same token; TLS,
  flags, monitoring.
- The watches of a ztunnel node; in `ClusterProgram` its client is one of the XDS
  simulations.
- Durations: backoffs, tickers, grace periods and rate limits are steps that may
  come at any time. The times the two benchmarks measure are left out.
