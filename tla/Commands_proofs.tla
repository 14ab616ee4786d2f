--------------------------- MODULE Commands_proofs ---------------------------
(***************************************************************************)
(* Proofs about Commands, for any objects, goroutines and configurations:  *)
(* the state keeps its shape, and reproduce-cluster deletes no object that *)
(* somebody else made.                                                     *)
(***************************************************************************)
EXTENDS Commands, FiniteSetTheorems, SequenceTheorems, TLAPS

USE KubeAssumption
-----------------------------------------------------------------------------
(* Requests to the API server *)

\* The calls and answers of an operation
CallsOf(op) ==
    Answers \cup CASE op = "apply" -> {"get", "create", "update", "status"}
                   [] op = "ssa" -> {"patch"}
                   [] op = "create" -> {"create"}
                   [] op = "delete" -> {"delete"}
                   [] OTHER -> {}

Operations == {"apply", "ssa", "create", "delete"}

\* A goroutine makes no request, or one for an object.
ReqOK(r) ==
    \/ r = NoRequest
    \/ /\ r.op \in Operations
       /\ r.o \in Objects
       /\ r.at \in CallsOf(r.op)

KubeInv == KubeTypeOK /\ \A p \in Procs : ReqOK(req[p])

Requests == [op : {"none"} \cup Operations, o : Objects \cup {None},
             at : {"none"} \cup Calls \cup Answers, tries : 0..Tries - 1]

LEMMA CallsTyped ==
    ASSUME NEW op \in Operations
    PROVE  CallsOf(op) \subseteq Calls \cup Answers
BY DEF CallsOf, Operations, Calls

LEMMA ReqTyped ==
    ASSUME KubeInv
    PROVE  req \in [Procs -> Requests] /\ \A p \in Procs : ReqOK(req[p])
BY DEF KubeInv, KubeTypeOK, Requests, Operations

\* A goroutine that does not make a request has none; one that does makes it for
\* an object.
LEMMA Requesting ==
    ASSUME KubeInv, NEW p \in Procs, req[p].at # "none"
    PROVE  req[p].op \in Operations /\ req[p].o \in Objects /\ req[p].at \in CallsOf(req[p].op)
BY DEF KubeInv, KubeTypeOK, ReqOK, NoRequest

LEMMA ProceedTyped ==
    ASSUME KubeInv, NEW p \in Procs, req[p].at # "none",
           NEW a \in CallsOf(req[p].op), Proceed(p, a)
    PROVE  req' \in [Procs -> Requests] /\ \A q \in Procs : ReqOK(req'[q])
<1> DEFINE r == [op |-> req[p].op, o |-> req[p].o, at |-> a, tries |-> 0]
<1>1. req' = [req EXCEPT ![p] = r]
  BY DEF Proceed
<1>3. req[p].op \in Operations /\ req[p].o \in Objects
  BY Requesting
<1>4. a \in Calls \cup Answers
  BY <1>3, CallsTyped
<1>5. r \in Requests /\ ReqOK(r)
  BY <1>3, <1>4 DEF Requests, ReqOK
<1> HIDE DEF r
<1> QED
  BY <1>1, <1>5, ReqTyped

LEMMA KubeParts ==
    ASSUME req' \in [Procs -> Requests] /\ \A q \in Procs : ReqOK(req'[q]),
           obj' \in [Objects -> {"absent", "ours", "others"}],
           dying' \subseteq {n \in Namespaces : obj'[n] # "absent"},
           faults' \in 0..MaxFaults, unsure' \subseteq Objects
    PROVE  KubeInv'
BY DEF KubeInv, KubeTypeOK, Requests, Operations

LEMMA SendsTyped ==
    ASSUME KubeInv, NEW p \in Procs, NEW o \in Objects, NEW op \in Operations, Sends(p, op, o)
    PROVE  req' \in [Procs -> Requests] /\ \A q \in Procs : ReqOK(req'[q])
<1> DEFINE r == [op |-> op, o |-> o, at |-> FirstCall[op], tries |-> 0]
<1>1. FirstCall[op] \in CallsOf(op) \cap Calls
  BY DEF FirstCall, CallsOf, Calls, Operations
<1>2. r \in Requests /\ ReqOK(r)
  BY <1>1 DEF Requests, ReqOK
<1>3. req' = [req EXCEPT ![p] = r]
  BY DEF Sends
<1> HIDE DEF r
<1> QED
  BY <1>2, <1>3, ReqTyped

LEMMA AskTyped ==
    ASSUME KubeInv, NEW p \in Procs, NEW o \in Objects, NEW op \in Operations, Ask(p, op, o)
    PROVE  KubeInv' /\ \A q \in Procs \ {p} : req'[q] = req[q]
<1>1. \A q \in Procs \ {p} : req'[q] = req[q]
  BY ReqTyped DEF Ask, Sends
<1> QED
  BY <1>1, SendsTyped, KubeParts DEF Ask, KubeInv, KubeTypeOK

LEMMA ForgetTyped ==
    ASSUME KubeInv, NEW p \in Procs, Forget(p)
    PROVE  /\ KubeInv'
           /\ req'[p] = NoRequest
           /\ \A q \in Procs \ {p} : req'[q] = req[q]
<1>1. NoRequest \in Requests /\ ReqOK(NoRequest)
  BY DEF NoRequest, Requests, ReqOK
<1> QED
  BY <1>1, ReqTyped, KubeParts DEF Forget, KubeInv, KubeTypeOK

LEMMA EffectTyped ==
    ASSUME KubeInv, NEW p \in Procs, Possible(p), Effect(p), Calling(p)
    PROVE  /\ obj' \in [Objects -> {"absent", "ours", "others"}]
           /\ dying' \subseteq {n \in Namespaces : obj'[n] # "absent"}
BY DEF KubeInv, KubeTypeOK, ReqOK, Effect, Possible, There, Calling, Calls, Answers

LEMMA CallTyped ==
    ASSUME KubeInv, NEW p \in Procs, Call(p)
    PROVE  KubeInv' /\ req[p].at # "none" /\ \A q \in Procs \ {p} : req'[q] = req[q]
<1> USE DEF KubeInv, KubeTypeOK
<1>0. req[p].at # "none"
  BY DEF Call, Get, Accepted, Refused, QuotaExceeded, Conflict, RequestFails, AnswerLost, Calling,
         Calls, Answered
<1>9. \A q \in Procs \ {p} : req'[q] = req[q]
  BY ReqTyped DEF Call, Get, Accepted, Refused, QuotaExceeded, Conflict, RequestFails, AnswerLost, Proceed
<1> SUFFICES KubeInv'
  BY <1>0, <1>9
<1>1. CASE Get(p)
  <2>1. req[p].op = "apply"
    BY <1>0, <1>1, Requesting DEF Get, Answered, CallsOf, Answers, Operations
  <2> QED
    BY <1>0, <1>1, <2>1, ProceedTyped, KubeParts DEF Get, CallsOf
<1>2. CASE Accepted(p)
  <2>1. AfterCall(p) \in CallsOf(req[p].op)
    BY DEF AfterCall, CallsOf, Answers
  <2> QED
    BY <1>0, <1>2, <2>1, ProceedTyped, EffectTyped, KubeParts DEF Accepted
<1>3. CASE Refused(p)
  <2>1. Refusal(p) \in CallsOf(req[p].op)
    BY DEF Refusal, CallsOf, Answers
  <2>2. unsure' \subseteq Objects
    BY <1>0, <1>3, Requesting DEF Refused
  <2> QED
    BY <1>0, <1>3, <2>1, <2>2, ProceedTyped, KubeParts DEF Refused
<1>4. CASE QuotaExceeded(p)
  BY <1>0, <1>4, ProceedTyped, KubeParts DEF QuotaExceeded, CallsOf, Answers
<1>5. CASE Conflict(p)
  <2>1. CASE req[p].tries + 1 < Tries
    <3> DEFINE r == [req[p] EXCEPT !.tries = @ + 1]
    <3>1. req' = [req EXCEPT ![p] = r] /\ UNCHANGED unsure
      BY <1>5, <2>1, ReqTyped DEF Conflict, Requests
    <3>2. r = [op |-> req[p].op, o |-> req[p].o, at |-> req[p].at, tries |-> req[p].tries + 1]
      BY ReqTyped DEF Requests
    <3>3. r \in Requests /\ ReqOK(r)
      BY <1>0, <2>1, <3>2, ReqTyped, Requesting DEF Requests, ReqOK
    <3> HIDE DEF r
    <3> QED
      BY <1>5, <3>1, <3>3, ReqTyped, KubeParts DEF Conflict
  <2>2. CASE ~(req[p].tries + 1 < Tries)
    <3>1. Proceed(p, "failed") /\ unsure' \subseteq Objects
      BY <1>0, <1>5, <2>2, Requesting DEF Conflict
    <3> QED
      BY <1>0, <1>5, <3>1, ProceedTyped, KubeParts DEF Conflict, CallsOf, Answers
  <2> QED
    BY <2>1, <2>2
<1>6. CASE RequestFails(p)
  <2> DEFINE a == IF Answered(p, "get") THEN "update" ELSE "failed"
  <2>1. Answered(p, "get") => req[p].op = "apply"
    BY <1>0, Requesting DEF Answered, CallsOf, Answers, Operations
  <2>2. a \in CallsOf(req[p].op)
    BY <2>1 DEF CallsOf, Answers
  <2>3. faults' \in 0..MaxFaults /\ unsure' \subseteq Objects
    BY <1>0, <1>6, Requesting DEF RequestFails, Fault
  <2> QED
    BY <1>0, <1>6, <2>2, <2>3, ProceedTyped, KubeParts DEF RequestFails
<1>7. CASE AnswerLost(p)
  <2>1. faults' \in 0..MaxFaults /\ unsure' \subseteq Objects
    BY <1>0, <1>7, Requesting DEF AnswerLost, Fault
  <2> QED
    BY <1>0, <1>7, <2>1, ProceedTyped, EffectTyped, KubeParts DEF AnswerLost, CallsOf, Answers
<1> QED
  BY <1>1, <1>2, <1>3, <1>4, <1>5, <1>6, <1>7 DEF Call

LEMMA LandsTyped ==
    ASSUME KubeInv, NEW p \in Procs, Lands(p)
    PROVE  KubeInv'
<1>1. NoRequest \in Requests
  BY DEF NoRequest, Requests
<1>2. req' \in [Procs -> Requests] /\ \A q \in Procs : ReqOK(req'[q])
  BY <1>1, ReqTyped DEF Lands, ReqOK
<1>3. /\ obj' \in [Objects -> {"absent", "ours", "others"}]
      /\ dying' \subseteq {n \in Namespaces : obj'[n] # "absent"}
  BY EffectTyped DEF Lands, KubeInv, KubeTypeOK
<1> QED
  BY <1>2, <1>3, KubeParts DEF Lands, KubeInv, KubeTypeOK

LEMMA FinishDeletionTyped ==
    ASSUME KubeInv, NEW n \in Namespaces, FinishDeletion(n)
    PROVE  KubeInv'
BY DEF FinishDeletion, KubeInv, KubeTypeOK, ReqOK
-----------------------------------------------------------------------------
(* The shape of the state *)

\* A request of Run is made for the next simulation.
ClusterInv ==
    /\ ClusterTypeOK
    /\ command = "cluster" /\ phase = "running" /\ req["main"].at # "none" =>
          next <= Len(RunOrder) /\ RunOrder[next] # "app"

ImpersonateInv ==
    /\ ImpersonateTypeOK
    /\ worker.at = "add" => worker.key \in Keys

\* Documents that become simulations
Kept == {i \in Listed : ~ShouldSkip(i)}

\* The simulations are in the order of the documents, and before what is to do.
SimsInv ==
    /\ todo \subseteq Listed
    /\ sims \in Seq(Kept)
    /\ \A a, b \in 1..Len(sims) : a < b => sims[a] # sims[b] /\ Earlier(sims[a], sims[b])
    /\ \A a \in 1..Len(sims) : sims[a] \notin todo /\ \A i \in todo : Earlier(sims[a], i)

\* A request is for the last simulation, which is to be created or deleted; that
\* Cleanup waits for is a client.
ReproduceInv ==
    /\ SimsInv
    /\ skipCleanup \subseteq {i \in Listed \ todo : ~IsClient(i)}
    /\ command = "reproduce" /\ req["main"].at # "none" =>
          /\ phase \in {"running", "cleaning"}
          /\ sims # <<>> /\ ~IsClient(Current) /\ Current \notin skipCleanup
    /\ closing \in BOOLEAN
    /\ closing => /\ command = "reproduce" /\ phase = "cleaning"
                  /\ sims # <<>> /\ IsClient(Current)

\* A worker with a pod of the round has not used up its names.
StartupInv ==
    /\ StartupTypeOK
    /\ \A w \in Workers :
          doing[w] \in {"apply", "poll", "delete", "report"} => turn[w] <= Len(PodsOf[w])

TypeInv ==
    /\ command \in CommandNames
    /\ KubeInv /\ LifeTypeOK
    /\ ClusterInv /\ ImpersonateInv /\ ReproduceInv /\ LatencyTypeOK /\ StartupInv

LEMMA RunOrderTyped ==
    /\ RunOrder \in Seq({"node", "ns", "config", "account", "app"})
    /\ Len(RunOrder) \in Nat
<1> DEFINE S == {"node", "ns", "config", "account", "app"}
<1>0. <<>> \in Seq(S) /\ <<"node">> \in Seq(S) /\ <<"config">> \in Seq(S)
  BY EmptySeq
<1>1. (IF config.nodes THEN <<"node">> ELSE <<>>) \in Seq(S)
  BY <1>0, Zenon
<1>2. (IF config.template THEN <<"config">> ELSE <<>>) \in Seq(S)
  BY <1>0, Zenon
<1>3. <<"ns">> \in Seq(S) /\ <<"account", "app">> \in Seq(S)
  OBVIOUS
<1>4. \A s, t \in Seq(S) : s \o t \in Seq(S)
  OBVIOUS
<1>5. <<"ns">> \o (IF config.template THEN <<"config">> ELSE <<>>) \o <<"account", "app">> \in Seq(S)
  BY <1>2, <1>3, <1>4
<1>6. (IF config.app = "none" THEN <<>>
       ELSE <<"ns">> \o (IF config.template THEN <<"config">> ELSE <<>>) \o <<"account", "app">>)
         \in Seq(S)
  BY <1>5, EmptySeq
<1>7. RunOrder \in Seq(S)
  BY <1>1, <1>4, <1>6 DEF RunOrder
<1> QED
  BY <1>7

LEMMA InitTyped == Init => TypeInv
<1> SUFFICES ASSUME Init PROVE TypeInv
  OBVIOUS
<1>1. KubeInv
  <2>1. NoRequest \in Requests
    BY DEF NoRequest, Requests
  <2>2. req \in [Procs -> Requests] /\ \A p \in Procs : ReqOK(req[p])
    BY <2>1 DEF Init, KubeInit, ReqOK
  <2>3. obj \in [Objects -> {"absent", "ours", "others"}]
    BY DEF Init
  <2> QED
    BY <2>2, <2>3 DEF Init, KubeInit, KubeInv, KubeTypeOK, Requests, Operations
<1>2. LifeTypeOK
  BY DEF Init, LifeInit, LifeTypeOK
<1>3. ClusterInv
  <2>1. config \in Configs /\ config.pods \in Nat
    BY ClusterAssumption DEF Init, ClusterInit
  <2>2. pods \in Seq(PodNames)
    BY <2>1 DEF Init, ClusterInit
  <2>3. req["main"].at = "none"
    BY CommandsAssumption DEF Init, KubeInit, NoRequest, ClusterProcs
  <2> QED
    BY <2>1, <2>2, <2>3, RunOrderTyped, ClusterAssumption
    DEF Init, ClusterInit, ClusterInv, ClusterTypeOK, Stations
<1>4. ImpersonateInv
  <2> DEFINE there == {k \in Keys : store[k] # "absent"}
  <2>1. PICK s \in [1..Cardinality(there) -> there] : queue = Append(s, Sync)
    BY DEF Init, ImpersonateInit
  <2>2. Cardinality(there) \in Nat
    BY ImpersonateAssumption, FS_Subset, FS_CardinalityType
  <2>3. s \in Seq(Keys \cup {Sync})
    <3>1. \A n \in Nat : \A f \in [1..n -> there] : f \in Seq(Keys \cup {Sync})
      OBVIOUS
    <3> QED
      BY <2>1, <2>2, <3>1
  <2>4. queue \in Seq(Keys \cup {Sync})
    BY <2>1, <2>3
  <2> HIDE DEF there
  <2>5. store \in [Keys -> PodStates]
    BY DEF Init, ImpersonateInit, PodStates
  <2>6. worker = [at |-> "idle", key |-> Sync, r |-> 0]
    BY DEF Init, ImpersonateInit, Idle
  <2>7. worker \in [at : {"idle", "add", "close", "wait", "closed"}, key : Keys \cup {Sync}, r : Nat]
        /\ worker.at = "idle"
    BY <2>6
  <2>8. changes = 0 /\ known = {} /\ synced \in BOOLEAN /\ cleaning = None
    BY Zenon DEF Init, ImpersonateInit
  <2> QED
    BY <2>4, <2>5, <2>7, <2>8, ImpersonateAssumption DEF ImpersonateInv, ImpersonateTypeOK
<1>5. ReproduceInv
  <2>1. sims \in Seq(Kept) /\ Len(sims) = 0 /\ todo = Listed /\ skipCleanup = {}
    BY EmptySeq DEF Init, ReproduceInit
  <2>2. closing \in BOOLEAN /\ ~closing
    BY Zenon DEF Init, ReproduceInit
  <2>3. req["main"].at = "none"
    BY CommandsAssumption DEF Init, KubeInit, NoRequest, ClusterProcs
  <2> QED
    BY <2>1, <2>2, <2>3 DEF ReproduceInv, SimsInv
<1>6. LatencyTypeOK
  <2>1. Len(Entries) \in Nat \ {0}
    BY LatencyAssumption, EmptySeq
  <2>2. updates \in Seq({"cds", "eds", "close"}) /\ Len(updates) = 0
    BY EmptySeq DEF Init, LatencyInit
  <2> QED
    <3>1. stage = "apply" /\ round = 1 /\ stream \in BOOLEAN /\ owed \in BOOLEAN /\ breaks = 0
      BY Zenon DEF Init, LatencyInit
    <3> QED
      BY <2>1, <2>2, <3>1, LatencyAssumption DEF LatencyTypeOK
<1>7. StartupInv
  BY StartupAssumption DEF Init, StartupInit, StartupInv, StartupTypeOK
<1> QED
  BY <1>1, <1>2, <1>3, <1>4, <1>5, <1>6, <1>7 DEF Init, TypeInv

LEMMA ClusterFrame ==
    ASSUME ClusterInv, UNCHANGED <<clusterVars, command>>,
           command = "cluster" =>
              /\ phase' = phase \/ phase' # "running"
              /\ req'["main"].at # "none" => req["main"].at # "none"
    PROVE  ClusterInv'
BY DEF ClusterInv, ClusterTypeOK, clusterVars, RunOrder

LEMMA ImpersonateFrame ==
    ASSUME ImpersonateInv, UNCHANGED impersonateVars PROVE ImpersonateInv'
BY DEF ImpersonateInv, ImpersonateTypeOK, impersonateVars

LEMMA ReproduceFrame ==
    ASSUME ReproduceInv, UNCHANGED <<reproduceVars, command>>,
           command = "reproduce" =>
              /\ phase' = phase \/ (phase = "waiting" /\ phase' = "cleaning")
              /\ req'["main"].at # "none" => req["main"].at # "none"
    PROVE  ReproduceInv'
BY DEF ReproduceInv, SimsInv, Current, reproduceVars

LEMMA LatencyFrame ==
    ASSUME LatencyTypeOK, UNCHANGED latencyVars PROVE LatencyTypeOK'
BY DEF LatencyTypeOK, latencyVars

LEMMA StartupFrame ==
    ASSUME StartupInv, UNCHANGED startupVars PROVE StartupInv'
BY DEF StartupInv, StartupTypeOK, startupVars

LEMMA LifeFrame ==
    ASSUME LifeTypeOK, UNCHANGED lifeVars PROVE LifeTypeOK'
BY DEF LifeTypeOK, lifeVars

LEMMA KubeFrame ==
    ASSUME KubeInv, UNCHANGED kubeVars PROVE KubeInv'
BY DEF KubeInv, KubeTypeOK, kubeVars

\* What changes the state of an XDS simulation keeps its type.
LEMMA ClientTyped ==
    ASSUME LifeTypeOK, NEW c, UNCHANGED <<phase, ctxDone>>,
           MakeClient(c) \/ RunClient(c) \/ CancelClient(c) \/ HangsOn(c)
    PROVE  LifeTypeOK'
BY DEF LifeTypeOK, MakeClient, RunClient, CancelClient, HangsOn

LEMMA LifeSteps ==
    ASSUME LifeTypeOK
    PROVE  /\ Signal => LifeTypeOK'
           /\ StopWaiting => LifeTypeOK'
           /\ RunFails /\ UNCHANGED <<ctxDone, client>> => LifeTypeOK'
           /\ RunReturns /\ UNCHANGED <<ctxDone, client>> => LifeTypeOK'
           /\ Exit => LifeTypeOK'
           /\ \A c \in Clients : ClientReturns(c) => LifeTypeOK'
BY DEF LifeTypeOK, Signal, StopWaiting, RunFails, RunReturns, Exit, ClientReturns
-----------------------------------------------------------------------------
(* Steps of the cluster simulation *)

\* What a goroutine other than main may change
LEMMA ClusterParts ==
    ASSUME ClusterInv, UNCHANGED <<config, next, command, phase>>,
           req'["main"] = req["main"],
           at' \in [ClusterProcs -> Stations],
           pods' \in Seq(PodNames), created' \subseteq PodNames,
           left' \in [ClusterProcs -> 0..PodAttempts + NsAttempts],
           swap' \in [new : PodNames \cup {None}, old : PodNames \cup {None}]
    PROVE  ClusterInv'
BY DEF ClusterInv, ClusterTypeOK, RunOrder

LEMMA ClusterObjects ==
    FixedNames \cup {"ns"} \cup AppSims \subseteq Objects /\ PodNames \subseteq AppSims
<1>1. PodNames \subseteq AppSims
  BY DEF AppSims
<1>2. FixedNames \cup AppSims \subseteq Objects
  BY ClusterAssumption
<1>3. "ns" \in Objects
  BY ClusterAssumption
<1> QED
  BY <1>1, <1>2, <1>3

LEMMA ProcsTyped == ClusterProcs \subseteq Procs /\ "main" \in Procs /\ Workers \subseteq Procs
BY CommandsAssumption DEF ClusterProcs

LEMMA PodStepTyped ==
    ASSUME KubeInv, LifeTypeOK, ClusterInv, UNCHANGED command,
           NEW q \in ClusterProcs, q # "main", PodRun(q) \/ PodCleanup(q)
    PROVE  KubeInv' /\ LifeTypeOK' /\ ClusterInv'
<1> USE ProcsTyped DEF ClusterInv, ClusterTypeOK
<1>0. \A s \in Stations : Goes(q, s) => at' \in [ClusterProcs -> Stations]
  BY DEF Goes
<1>1. PodNames \subseteq Objects /\ PodAttempts - 1 \in 0..PodAttempts + NsAttempts
  BY ClusterAssumption, ClusterObjects
<1>2. CASE PodApplies(q)
  <2>1. KubeInv' /\ req'["main"] = req["main"]
    BY <1>1, <1>2, AskTyped DEF PodApplies, Operations
  <2>2. at' \in [ClusterProcs -> Stations]
    BY <1>0, <1>2 DEF PodApplies, Stations
  <2>3. left' \in [ClusterProcs -> 0..PodAttempts + NsAttempts]
    BY <1>1, <1>2 DEF PodApplies
  <2> QED
    BY <1>2, <2>1, <2>2, <2>3, LifeFrame, ClusterParts DEF PodApplies, lifeVars
<1>3. CASE PodRetries(q)
  <2>1. KubeInv' /\ req'["main"] = req["main"]
    BY <1>1, <1>3, AskTyped DEF PodRetries, Operations
  <2>2. left' \in [ClusterProcs -> 0..PodAttempts + NsAttempts]
    BY <1>3, ClusterAssumption DEF PodRetries
  <2> QED
    BY <1>3, <2>1, <2>2, LifeFrame, ClusterParts DEF PodRetries, lifeVars
<1>4. CASE PodFails(q)
  BY <1>0, <1>4, ForgetTyped, LifeFrame, ClusterParts DEF PodFails, lifeVars, Stations
<1>5. CASE PodCreated(q)
  <2>1. left' \in [ClusterProcs -> 0..PodAttempts + NsAttempts]
    BY <1>5, ClusterAssumption DEF PodCreated
  <2> QED
    BY <1>0, <1>5, <2>1, ForgetTyped, LifeFrame, ClusterParts DEF PodCreated, lifeVars, Stations
<1>6. CASE PodMakesClient(q)
  BY <1>0, <1>6, KubeFrame, ClientTyped, ClusterParts DEF PodMakesClient, kubeVars, Stations
<1>7. CASE PodRunsClient(q)
  BY <1>0, <1>7, KubeFrame, ClientTyped, ClusterParts DEF PodRunsClient, kubeVars, Stations
<1>8. CASE PodDeletes(q)
  <2>1. KubeInv' /\ req'["main"] = req["main"]
    BY <1>1, <1>8, AskTyped, KubeFrame DEF PodDeletes, Operations, kubeVars
  <2> QED
    BY <1>0, <1>8, <2>1, LifeFrame, ClusterParts DEF PodDeletes, lifeVars, Stations
<1>9. CASE PodDeleted(q)
  BY <1>0, <1>9, ForgetTyped, LifeFrame, ClusterParts DEF PodDeleted, Cleaned, lifeVars, Stations
<1>10. CASE PodCloses(q)
  BY <1>0, <1>10, KubeFrame, ClientTyped, ClusterParts DEF PodCloses, Cleaned, kubeVars, Stations
<1>11. CASE PodClosed(q)
  <2>1. LifeTypeOK'
    BY <1>11, ClientTyped, LifeFrame DEF PodClosed, lifeVars
  <2> QED
    BY <1>0, <1>11, <2>1, KubeFrame, ClusterParts DEF PodClosed, Cleaned, kubeVars, Stations
<1> QED
  BY <1>2, <1>3, <1>4, <1>5, <1>6, <1>7, <1>8, <1>9, <1>10, <1>11 DEF PodRun, PodCleanup

LEMMA SimStepTyped ==
    ASSUME KubeInv, LifeTypeOK, ClusterInv, UNCHANGED command,
           NEW q \in AppSims, SimAsks(q) \/ SimAnswered(q)
    PROVE  KubeInv' /\ LifeTypeOK' /\ ClusterInv'
<1> USE ProcsTyped DEF ClusterInv, ClusterTypeOK
<1>1. q \in ClusterProcs /\ q \in Procs /\ q # "main" /\ q \in Objects
  BY ClusterAssumption, ClusterObjects DEF ClusterProcs
<1>2. \A s \in Stations : Goes(q, s) => at' \in [ClusterProcs -> Stations]
  BY DEF Goes
<1>3. CASE SimAsks(q)
  <2>1. ApplyOp(q) \in Operations /\ "delete" \in Operations
    BY DEF ApplyOp, Operations
  <2>2. KubeInv' /\ req'["main"] = req["main"]
    BY <1>1, <1>3, <2>1, AskTyped DEF SimAsks
  <2>3. at' \in [ClusterProcs -> Stations]
    BY <1>2, <1>3 DEF SimAsks, Stations
  <2> QED
    BY <1>3, <2>2, <2>3, LifeFrame, ClusterParts DEF SimAsks, lifeVars
<1>4. CASE SimAnswered(q)
  <2>1. KubeInv' /\ req'["main"] = req["main"]
    BY <1>1, <1>4, ForgetTyped DEF SimAnswered
  <2>2. at' \in [ClusterProcs -> Stations]
    BY <1>2, <1>4 DEF SimAnswered, Stations
  <2> QED
    BY <1>4, <2>1, <2>2, LifeFrame, ClusterParts DEF SimAnswered, lifeVars
<1> QED
  BY <1>3, <1>4

LEMMA StationsStay ==
    ASSUME ClusterTypeOK, NEW q, NEW s \in Stations, Goes(q, s)
    PROVE  at' \in [ClusterProcs -> Stations]
BY DEF ClusterTypeOK, Goes

\* Steps of main; in them the position in RunOrder grows with an answer only.
LEMMA MainParts ==
    ASSUME ClusterInv, UNCHANGED <<config, command, pods, created, swap>>,
           next' \in 1..Len(RunOrder) + 1,
           phase' = "running" /\ req'["main"].at # "none" =>
               next' <= Len(RunOrder) /\ RunOrder[next'] # "app",
           at' \in [ClusterProcs -> Stations],
           left' \in [ClusterProcs -> 0..PodAttempts + NsAttempts]
    PROVE  ClusterInv'
BY DEF ClusterInv, ClusterTypeOK, RunOrder

LEMMA MainStepTyped ==
    ASSUME KubeInv, LifeTypeOK, ClusterInv, command = "cluster", UNCHANGED command, MainStep
    PROVE  KubeInv' /\ LifeTypeOK' /\ ClusterInv'
<1> USE ProcsTyped, RunOrderTyped DEF ClusterInv, ClusterTypeOK
<1>0. PodAttempts \in Nat \ {0} /\ NsAttempts \in Nat \ {0}
  BY ClusterAssumption
<1>1. {"main", "lease", "scaler"} \subseteq ClusterProcs
  BY DEF ClusterProcs
<1>2. KubeInv /\ req["main"].at # "none" =>
        req["main"].op \in Operations /\ req["main"].o \in Objects
  BY Requesting
<1>3. \A q, s : s \in Stations /\ Goes(q, s) => at' \in [ClusterProcs -> Stations]
  BY StationsStay
<1>4. "main" \in Procs /\ NoRequest.at = "none"
  BY DEF NoRequest
<1>5. CASE RunNext
  <2> DEFINE o == RunOrder[next]
  <2>1. o \in Objects /\ ApplyOp(o) \in Operations
    <3>1. o \in {"node", "ns", "config", "account"}
      BY <1>5 DEF RunNext
    <3> QED
      BY <3>1, ClusterObjects DEF FixedNames, ApplyOp, Operations
  <2>2. KubeInv'
    BY <1>5, <2>1, AskTyped DEF RunNext
  <2>3. left' \in [ClusterProcs -> 0..PodAttempts + NsAttempts]
    BY <1>0, <1>1, <1>5 DEF RunNext
  <2> QED
    BY <1>5, <2>2, <2>3, LifeFrame, MainParts DEF RunNext, lifeVars
<1>6. CASE NamespaceRetries
  <2>1. KubeInv'
    BY <1>6, ClusterObjects, AskTyped DEF NamespaceRetries, Operations
  <2>2. left' \in [ClusterProcs -> 0..PodAttempts + NsAttempts]
    BY <1>0, <1>1, <1>6 DEF NamespaceRetries
  <2> QED
    BY <1>6, <2>1, <2>2, LifeFrame, MainParts DEF NamespaceRetries, lifeVars
<1>7. CASE RunSucceeds
  <2>1. KubeInv' /\ req'["main"].at = "none"
    BY <1>4, <1>7, ForgetTyped DEF RunSucceeds
  <2>2. next' \in 1..Len(RunOrder) + 1
    BY <1>7 DEF RunSucceeds, RunOk, Answered
  <2>3. at' \in [ClusterProcs -> Stations]
    BY <1>3, <1>7 DEF RunSucceeds, Stations
  <2>4. LifeTypeOK'
    BY <1>7, ClientTyped, LifeFrame DEF RunSucceeds, lifeVars
  <2>5. left' \in [ClusterProcs -> 0..PodAttempts + NsAttempts]
    BY <1>0, <1>1, <1>7 DEF RunSucceeds
  <2> QED
    BY <1>7, <2>1, <2>2, <2>3, <2>4, <2>5, MainParts DEF RunSucceeds
<1>8. CASE RunError
  <2>1. KubeInv' /\ req'["main"].at = "none"
    BY <1>4, <1>8, ForgetTyped DEF RunError
  <2>2. left' \in [ClusterProcs -> 0..PodAttempts + NsAttempts]
    BY <1>0, <1>1, <1>8 DEF RunError
  <2> QED
    BY <1>8, <2>1, <2>2, LifeSteps, MainParts DEF RunError
<1>9. CASE AppStarts
  <2>1. at' \in [ClusterProcs -> Stations]
    BY <1>9 DEF AppStarts, Stations
  <2> QED
    BY <1>9, <2>1, KubeFrame, LifeFrame, MainParts DEF AppStarts, baseVars, kubeVars, lifeVars
<1>10. CASE AppStarted
  <2>1. KubeInv' /\ UNCHANGED req
    BY <1>10, KubeFrame DEF AppStarted, kubeVars
  <2>2. LifeTypeOK'
    BY <1>10, LifeSteps, LifeFrame DEF AppStarted, lifeVars
  <2>3. next' \in 1..Len(RunOrder) + 1
    BY <1>10 DEF AppStarted
  <2>4. phase' = "running" => req'["main"].at = "none"
    BY <1>10, <2>1 DEF AppStarted, RunFails
  <2> QED
    BY <1>10, <2>1, <2>2, <2>3, <2>4, MainParts DEF AppStarted
<1>11. CASE RunStops
  BY <1>11, KubeFrame, LifeFrame, MainParts DEF RunStops, baseVars, kubeVars, lifeVars, Free
<1>12. CASE RunEnds
  <2>1. at' \in [ClusterProcs -> Stations]
    BY <1>3, <1>12 DEF RunEnds, Stations
  <2> QED
    BY <1>12, <2>1, KubeFrame, LifeSteps, MainParts DEF RunEnds, RunReturns, kubeVars
<1>13. CASE CleanupStarts
  <2>1. at' \in [ClusterProcs -> Stations]
    BY <1>13 DEF CleanupStarts, Stations
  <2> QED
    BY <1>13, <2>1, KubeFrame, LifeFrame, MainParts DEF CleanupStarts, baseVars, kubeVars, lifeVars
<1>14. CASE CleanupEnds
  BY <1>14, KubeFrame, LifeSteps, ClusterFrame DEF CleanupEnds, Exit, kubeVars
<1> QED
  BY <1>5, <1>6, <1>7, <1>8, <1>9, <1>10, <1>11, <1>12, <1>13, <1>14 DEF MainStep

\* A step that makes a request or takes an answer, and moves to another station
LEMMA GoesTyped ==
    ASSUME KubeInv, LifeTypeOK, ClusterInv, UNCHANGED <<lifeVars, command>>,
           UNCHANGED <<config, next, pods, created, left, swap>>,
           NEW q \in Procs, q # "main",
           \/ \E op \in Operations : \E o \in Objects : Ask(q, op, o)
           \/ Forget(q)
           \/ UNCHANGED kubeVars,
           \/ \E r \in ClusterProcs : \E s \in Stations : Goes(r, s)
           \/ at' = at
    PROVE  KubeInv' /\ LifeTypeOK' /\ ClusterInv'
<1>1. KubeInv' /\ req'["main"] = req["main"]
  BY AskTyped, ForgetTyped, KubeFrame, ProcsTyped DEF kubeVars
<1>2. at' \in [ClusterProcs -> Stations]
  BY DEF Goes, ClusterInv, ClusterTypeOK
<1> QED
  BY <1>1, <1>2, LifeFrame, ClusterParts DEF ClusterInv, ClusterTypeOK, lifeVars

LEMMA SpaceStepTyped ==
    ASSUME KubeInv, LifeTypeOK, ClusterInv, UNCHANGED command,
           AppCleanupStarts \/ SpaceNext \/ SpaceDone
    PROVE  KubeInv' /\ LifeTypeOK' /\ ClusterInv'
<1>1. "space" \in ClusterProcs /\ "space" \in Procs /\ "delete" \in Operations
  BY ProcsTyped DEF ClusterProcs, Operations
<1>2. CASE AppCleanupStarts
  <2>1. at' \in [ClusterProcs -> Stations]
    BY <1>2 DEF AppCleanupStarts, Stations, ClusterInv, ClusterTypeOK
  <2> QED
    BY <1>2, <2>1, KubeFrame, LifeFrame, ClusterParts
    DEF AppCleanupStarts, baseVars, kubeVars, lifeVars, ClusterInv, ClusterTypeOK
<1>3. CASE SpaceNext
  <2>1. After[at["space"]] \in Objects /\ After[at["space"]] \in Stations
    BY <1>3, ClusterObjects DEF SpaceNext, After, FixedNames, Stations
  <2> QED
    BY <1>1, <1>3, <2>1, GoesTyped DEF SpaceNext
<1>4. CASE SpaceDone
  BY <1>1, <1>4, GoesTyped DEF SpaceDone, Stations
<1> QED
  BY <1>2, <1>3, <1>4

LEMMA NodeStepTyped ==
    ASSUME KubeInv, LifeTypeOK, ClusterInv, UNCHANGED command,
           NodeCloses \/ NodeDeletes \/ LeaseDeletes \/ NodeDone
    PROVE  KubeInv' /\ LifeTypeOK' /\ ClusterInv'
<1>1. /\ "nodes" \in ClusterProcs /\ "nodes" \in Procs /\ "delete" \in Operations
      /\ "node" \in Objects /\ "lease" \in Objects
      /\ {"wait", "deleting", "lease", "done"} \subseteq Stations
  BY ProcsTyped, ClusterObjects DEF ClusterProcs, Operations, FixedNames, Stations
<1>2. CASE NodeCloses
  <2>1. at' \in [ClusterProcs -> Stations]
    BY <1>1, <1>2 DEF NodeCloses, Goes, ClusterInv, ClusterTypeOK
  <2> QED
    BY <1>2, <2>1, KubeFrame, ClientTyped, ClusterParts
    DEF NodeCloses, kubeVars, ClusterInv, ClusterTypeOK
<1>3. CASE NodeDeletes
  BY <1>1, <1>3, GoesTyped DEF NodeDeletes
<1>4. CASE LeaseDeletes
  BY <1>1, <1>4, GoesTyped DEF LeaseDeletes
<1>5. CASE NodeDone
  BY <1>1, <1>5, GoesTyped DEF NodeDone
<1> QED
  BY <1>2, <1>3, <1>4, <1>5

LEMMA LeaseStepTyped ==
    ASSUME KubeInv, LifeTypeOK, ClusterInv, UNCHANGED command,
           LeaseTicks \/ LeaseRenewed \/ LeaseStops
    PROVE  KubeInv' /\ LifeTypeOK' /\ ClusterInv'
<1>1. /\ "lease" \in ClusterProcs /\ "lease" \in Procs /\ "apply" \in Operations
      /\ "lease" \in Objects /\ "idle" \in Stations
  BY ProcsTyped, ClusterObjects DEF ClusterProcs, Operations, FixedNames, Stations
<1>2. CASE LeaseTicks
  BY <1>1, <1>2, GoesTyped DEF LeaseTicks, clusterVars
<1>3. CASE LeaseRenewed
  BY <1>1, <1>3, GoesTyped DEF LeaseRenewed, clusterVars
<1>4. CASE LeaseStops
  BY <1>1, <1>4, GoesTyped DEF LeaseStops, baseVars
<1> QED
  BY <1>2, <1>3, <1>4

LEMMA ScalerStepTyped ==
    ASSUME KubeInv, LifeTypeOK, ClusterInv, UNCHANGED command,
           WorkloadTick \/ ConfigTick \/ ConfigRefreshed \/ ScalerStops
    PROVE  KubeInv' /\ LifeTypeOK' /\ ClusterInv'
<1>1. /\ "scaler" \in ClusterProcs /\ "scaler" \in Procs
      /\ {"idle", "on", "begin", "refresh"} \subseteq Stations
  BY ProcsTyped DEF ClusterProcs, Stations
<1>2. CASE WorkloadTick
  <2>1. PICK i \in Drawn : \E p \in Unused : swap' = [new |-> p, old |-> pods[i]]
                                           /\ pods' = [pods EXCEPT ![i] = p]
    BY <1>2 DEF WorkloadTick
  <2>2. PICK p \in Unused : swap' = [new |-> p, old |-> pods[i]] /\ pods' = [pods EXCEPT ![i] = p]
    BY <2>1
  <2>3. p \in PodNames
    BY DEF Unused
  <2>4. pods \in Seq(PodNames) /\ i \in DOMAIN pods
    BY DEF Drawn, ClusterInv, ClusterTypeOK
  <2>5. pods' \in Seq(PodNames) /\ swap' \in [new : PodNames \cup {None}, old : PodNames \cup {None}]
    BY <2>2, <2>3, <2>4
  <2>6. at' \in [ClusterProcs -> Stations]
    BY <1>1, <1>2 DEF WorkloadTick, Goes, ClusterInv, ClusterTypeOK
  <2> QED
    BY <1>2, <2>5, <2>6, KubeFrame, LifeFrame, ClusterParts
    DEF WorkloadTick, baseVars, kubeVars, lifeVars, ClusterInv, ClusterTypeOK
<1>3. CASE ConfigTick
  <2>1. PICK o \in Refreshable \cap GetSims : Ask("scaler", ApplyOp(o), o)
    BY <1>3 DEF ConfigTick
  <2>2. GetSims \subseteq AppSims
    <3>1. config.app # "none" => AppObjects[config.app] \subseteq AppOwn
      BY ClusterAssumption DEF AppOwn, ClusterInv, ClusterTypeOK
    <3> QED
      BY <3>1 DEF GetSims, AppSims, ClusterInv, ClusterTypeOK
  <2>3. o \in Objects /\ ApplyOp(o) \in Operations
    BY <2>2, ClusterObjects DEF ApplyOp, Operations
  <2> QED
    BY <1>1, <1>3, <2>1, <2>3, GoesTyped DEF ConfigTick
<1>4. CASE ConfigRefreshed
  BY <1>1, <1>4, GoesTyped DEF ConfigRefreshed
<1>5. CASE ScalerStops
  BY <1>1, <1>5, GoesTyped DEF ScalerStops, baseVars
<1> QED
  BY <1>2, <1>3, <1>4, <1>5

LEMMA ClusterStepTyped ==
    ASSUME KubeInv, LifeTypeOK, ClusterInv, command = "cluster", UNCHANGED command,
           NEW q \in Procs, ClusterStep(q)
    PROVE  KubeInv' /\ LifeTypeOK' /\ ClusterInv'
<1>1. CASE q \in AppSims /\ AppStep(q)
  <2>1. q \in ClusterProcs /\ q # "main"
    BY <1>1, ClusterAssumption DEF ClusterProcs
  <2> QED
    BY <1>1, <2>1, PodStepTyped, SimStepTyped DEF AppStep
<1>2. CASE q = "scaler" /\ (PodRun(q) \/ PodCleanup(q))
  <2>1. q \in ClusterProcs /\ q # "main"
    BY <1>2 DEF ClusterProcs
  <2> QED
    BY <1>2, <2>1, PodStepTyped
<1> QED
  BY <1>1, <1>2, MainStepTyped, SpaceStepTyped, NodeStepTyped, LeaseStepTyped, ScalerStepTyped
  DEF ClusterStep

\* Controllers of the cluster change objects that are no namespaces.
LEMMA ControllersTyped ==
    ASSUME KubeInv, AccountCreated \/ CollectLease
    PROVE  KubeInv' /\ UNCHANGED <<lifeVars, clusterVars, req>>
<1>1. "account" \notin Namespaces /\ "lease" \notin Namespaces
  BY ClusterAssumption DEF FixedNames
<1>2. /\ obj' \in [Objects -> {"absent", "ours", "others"}]
      /\ dying' \subseteq {n \in Namespaces : obj'[n] # "absent"}
  BY <1>1 DEF AccountCreated, CollectLease, KubeInv, KubeTypeOK
<1>3. UNCHANGED <<dying, req, faults, unsure, lifeVars, clusterVars>>
  BY DEF AccountCreated, CollectLease
<1> QED
  BY <1>2, <1>3, KubeParts, ReqTyped DEF KubeInv, KubeTypeOK
-----------------------------------------------------------------------------
(* Steps of the other commands *)

LEMMA ImpersonateStepTyped ==
    ASSUME KubeInv, LifeTypeOK, ImpersonateInv,
           \/ \E p \in Procs : ImpersonateStep(p)
           \/ \E c \in Clients : ReplicaRuns(c)
           \/ PodChanges
    PROVE  KubeInv' /\ LifeTypeOK' /\ ImpersonateInv' /\ UNCHANGED kubeVars
<1> DEFINE Busy == [at : {"idle", "add", "close", "wait", "closed"}, key : Keys \cup {Sync}, r : Nat]
<1> USE DEF ImpersonateInv, ImpersonateTypeOK
<1>1. CASE QueueSynced
  BY <1>1, KubeFrame, LifeSteps, ImpersonateFrame DEF QueueSynced
<1>2. CASE CleanReplica
  <2>1. PICK k \in known : \E r \in Uncleaned(k) :
            CancelClient(ReplicasOf[k][r]) /\ cleaning' = ReplicasOf[k][r]
    BY <1>2 DEF CleanReplica
  <2>2. PICK r \in Uncleaned(k) : CancelClient(ReplicasOf[k][r]) /\ cleaning' = ReplicasOf[k][r]
    BY <2>1
  <2>3. ReplicasOf[k][r] \in Clients
    BY ImpersonateAssumption DEF Uncleaned
  <2> QED
    BY <1>2, <2>2, <2>3, KubeFrame, ClientTyped DEF CleanReplica
<1>3. CASE CleanedReplica
  <2>1. LifeTypeOK'
    BY <1>3 DEF CleanedReplica, LifeTypeOK, HangsOn
  <2> QED
    BY <1>3, <2>1, KubeFrame DEF CleanedReplica
<1>4. CASE ImpersonateExits
  BY <1>4, KubeFrame, LifeSteps, ImpersonateFrame DEF ImpersonateExits
<1>5. CASE Reconcile
  <2>1. Head(queue) \in Keys \cup {Sync} /\ queue' \in Seq(Keys \cup {Sync})
    BY <1>5, HeadTailProperties DEF Reconcile
  <2>2. worker' = Begin(Head(queue))
    BY <1>5 DEF Reconcile
  <2>3. \A k \in Keys \cup {Sync} : Begin(k) \in Busy /\ (Begin(k).at = "add" => Begin(k).key \in Keys)
    BY DEF Begin, Idle
  <2>4. worker' \in Busy /\ (worker'.at = "add" => worker'.key \in Keys)
    BY <2>1, <2>2, <2>3
  <2>5. synced' \in BOOLEAN
    BY <1>5, Zenon DEF Reconcile
  <2> QED
    BY <1>5, <2>1, <2>4, <2>5, KubeFrame, LifeFrame DEF Reconcile, baseVars, kubeVars, lifeVars
<1>6. CASE AddReplica
  <2>1. LifeTypeOK'
    BY <1>6, ClientTyped DEF AddReplica
  <2>2. CASE LastReplica(worker)
    BY <1>6, <2>1, <2>2, KubeFrame DEF AddReplica, Idle
  <2>3. CASE ~LastReplica(worker)
    <3>1. worker' = [worker EXCEPT !.r = @ + 1] /\ UNCHANGED known
      BY <1>6, <2>3 DEF AddReplica
    <3>2. worker' \in Busy /\ worker'.key = worker.key
      BY <3>1
    <3> QED
      BY <1>6, <2>1, <3>1, <3>2, KubeFrame DEF AddReplica
  <2> QED
    BY <2>2, <2>3
<1>7. CASE CloseReplica
  BY <1>7, KubeFrame, ClientTyped DEF CloseReplica
<1>8. CASE ReplicaClosed
  <2>1. LifeTypeOK'
    BY <1>8, ClientTyped, LifeFrame DEF ReplicaClosed, lifeVars
  <2>2. worker' \in Busy /\ worker'.at # "add" /\ known' \subseteq Keys
    BY <1>8 DEF ReplicaClosed, Idle
  <2> QED
    BY <1>8, <2>1, <2>2, KubeFrame DEF ReplicaClosed
<1>9. CASE QueueCloses
  BY <1>9, KubeFrame, LifeFrame DEF QueueCloses, baseVars, kubeVars, lifeVars
<1>10. CASE \E c \in Clients : ReplicaRuns(c)
  BY <1>10, KubeFrame, ClientTyped, ImpersonateFrame DEF ReplicaRuns
<1>11. CASE PodChanges
  <2>1. PICK k \in Keys : \E x \in PodStates \ {store[k]} :
            /\ store' = [store EXCEPT ![k] = x]
            /\ queue' = IF Queued(k) THEN queue ELSE Append(queue, k)
    BY <1>11 DEF PodChanges
  <2>2. store' \in [Keys -> PodStates] /\ queue' \in Seq(Keys \cup {Sync})
    BY <2>1
  <2>3. changes' \in 0..MaxChanges
    BY <1>11, ImpersonateAssumption DEF PodChanges
  <2> QED
    BY <1>11, <2>2, <2>3, KubeFrame, LifeFrame DEF PodChanges, baseVars, kubeVars, lifeVars
<1>12. UNCHANGED kubeVars
  BY DEF ImpersonateStep, QueueSynced, CleanReplica, CleanedReplica, ImpersonateExits, Reconcile,
         AddReplica, CloseReplica, ReplicaClosed, QueueCloses, ReplicaRuns, PodChanges, baseVars
<1> QED
  BY <1>1, <1>2, <1>3, <1>4, <1>5, <1>6, <1>7, <1>8, <1>9, <1>10, <1>11, <1>12 DEF ImpersonateStep

LEMMA SimsGrow ==
    ASSUME SimsInv, NEW i \in Kept, GetsTo(i), sims' = Append(sims, i)
    PROVE  /\ SimsInv' /\ sims' # <<>> /\ Current' = i
           /\ Len(sims') = Len(sims) + 1
           /\ \A a \in 1..Len(sims) : sims'[a] = sims[a]
<1>1. /\ sims' \in Seq(Kept) /\ Len(sims) \in Nat /\ Len(sims') = Len(sims) + 1
      /\ sims' # <<>> /\ sims'[Len(sims) + 1] = i
      /\ \A a \in 1..Len(sims) : sims'[a] = sims[a]
  BY AppendProperties DEF SimsInv
<1>2. i \in todo /\ todo' = todo \ {i} /\ \A j \in todo' : Earlier(i, j)
  BY DEF GetsTo
<1>3. \A a \in 1..Len(sims') : a = Len(sims) + 1 \/ a \in 1..Len(sims)
  BY <1>1
<1>4. \A a \in 1..Len(sims') : sims'[a] \notin todo' /\ \A j \in todo' : Earlier(sims'[a], j)
  BY <1>1, <1>2, <1>3 DEF SimsInv
<1>5. \A a, b \in 1..Len(sims') :
         a < b => sims'[a] # sims'[b] /\ Earlier(sims'[a], sims'[b])
  BY <1>1, <1>2, <1>3 DEF SimsInv
<1> QED
  BY <1>1, <1>2, <1>4, <1>5 DEF SimsInv, Current, Earlier, Rank, Listed, Kept

LEMMA SimsShrink ==
    ASSUME SimsInv, sims # <<>>, Done, todo' = todo
    PROVE  /\ SimsInv' /\ Len(sims) \in Nat \ {0}
           /\ Len(sims') = Len(sims) - 1
           /\ \A a \in 1..Len(sims') : sims'[a] = sims[a]
<1>1. Len(sims) \in Nat \ {0} /\ \A a \in 1..Len(sims) : sims[a] \in Kept
  BY EmptySeq DEF SimsInv
<1>2. /\ sims' \in Seq(Kept) /\ Len(sims') = Len(sims) - 1
      /\ \A a \in 1..Len(sims') : sims'[a] = sims[a]
  <2> DEFINE n == Len(sims) - 1
  <2>1. n \in Int /\ 1 \in Int /\ \A a \in 1..n : sims[a] \in Kept
    BY <1>1
  <2>2. sims' = SubSeq(sims, 1, n)
    BY DEF Done
  <2>3. /\ SubSeq(sims, 1, n) \in Seq(Kept)
        /\ Len(SubSeq(sims, 1, n)) = IF 1 <= n THEN n - 1 + 1 ELSE 0
        /\ \A a \in 1..n - 1 + 1 : SubSeq(sims, 1, n)[a] = sims[1 + a - 1]
    <3> HIDE DEF n
    <3> QED
      BY <2>1, SubSeqProperties
  <2>4. Len(sims') = n
    <3>1. n \in Nat
      BY <1>1
    <3>2. (IF 1 <= n THEN n - 1 + 1 ELSE 0) = n
      BY <3>1
    <3> HIDE DEF n
    <3> QED
      BY <2>2, <2>3, <3>2, Zenon
  <2>5. \A a \in 1..n : sims'[a] = sims[a]
    BY <1>1, <2>2, <2>3
  <2> QED
    BY <2>2, <2>3, <2>4, <2>5
<1> QED
  BY <1>1, <1>2 DEF SimsInv

LEMMA CurrentTyped ==
    ASSUME SimsInv, sims # <<>>
    PROVE  /\ Current \in Kept /\ Current \in Listed /\ Current \notin todo
           /\ Len(sims) \in Nat \ {0} /\ Len(sims) \in 1..Len(sims)
           /\ ~IsClient(Current) => Docs[Current].o \in Objects
<1>1. Len(sims) \in Nat \ {0}
  BY EmptySeq DEF SimsInv
<1>2. Current \in Kept /\ Current \notin todo
  BY <1>1 DEF SimsInv, Current
<1> QED
  BY <1>1, <1>2, ReproduceAssumption DEF Kept

LEMMA ReproduceStepTyped ==
    ASSUME KubeInv, LifeTypeOK, ReproduceInv, command = "reproduce", UNCHANGED command,
           (\E p \in Procs : ReproduceStep(p)) \/ OthersCreate
    PROVE  KubeInv' /\ LifeTypeOK' /\ ReproduceInv'
<1> USE ProcsTyped DEF ReproduceInv
<1>1. CASE ParseFails
  <2>1. req["main"].at = "none"
    BY <1>1, CurrentTyped DEF ParseFails
  <2> QED
    BY <1>1, <2>1, KubeFrame, LifeSteps DEF ParseFails, RunFails, reproduceVars, kubeVars, SimsInv, Current
<1>2. ASSUME NEW i \in Listed, SkipItem(i) PROVE KubeInv' /\ LifeTypeOK' /\ ReproduceInv'
  <2>1. SimsInv'
    BY <1>2 DEF SkipItem, GetsTo, SimsInv
  <2> QED
    BY <1>2, <2>1, KubeFrame, LifeFrame
    DEF SkipItem, GetsTo, Free, baseVars, kubeVars, lifeVars
<1>3. ASSUME NEW i \in Listed, RunItem(i) PROVE KubeInv' /\ LifeTypeOK' /\ ReproduceInv'
  <2>1. SimsInv'
    BY <1>3, SimsGrow DEF RunItem, Kept
  <2>2. req'["main"].at = "none" /\ phase = "running" /\ UNCHANGED <<kubeVars, phase, ctxDone, skipCleanup, closing>>
    BY <1>3 DEF RunItem, GetsTo, Free, kubeVars
  <2>3. KubeInv' /\ LifeTypeOK'
    BY <1>3, KubeFrame, ClientTyped DEF RunItem
  <2>4. ~closing' /\ closing' \in BOOLEAN
    BY <2>2
  <2>5. skipCleanup' \subseteq {j \in Listed \ todo' : ~IsClient(j)}
    BY <1>3, <2>2 DEF RunItem, GetsTo
  <2> QED
    BY <2>1, <2>2, <2>3, <2>4, <2>5
<1>4. ASSUME NEW i \in Listed, CreateItem(i) PROVE KubeInv' /\ LifeTypeOK' /\ ReproduceInv'
  <2>1. Docs[i].o \in Objects /\ "create" \in Operations
    BY <1>4, ReproduceAssumption DEF CreateItem, Operations
  <2>2. SimsInv' /\ sims' # <<>> /\ Current' = i
    BY <1>4, SimsGrow DEF CreateItem, Kept
  <2>3. phase' = "running" /\ UNCHANGED <<lifeVars, skipCleanup, closing>>
    BY <1>4 DEF CreateItem, GetsTo, lifeVars
  <2>4. i \notin skipCleanup' /\ ~IsClient(i) /\ skipCleanup' \subseteq {j \in Listed \ todo' : ~IsClient(j)}
    BY <1>4 DEF CreateItem, GetsTo
  <2>5. ~closing' /\ closing' \in BOOLEAN
    BY <1>4, <2>3 DEF CreateItem, GetsTo
  <2> QED
    BY <1>4, <2>1, <2>2, <2>3, <2>4, <2>5, AskTyped, LifeFrame DEF CreateItem, IsClient
<1>5. CASE ItemCreated
  <2>1. req["main"].at # "none"
    BY <1>5 DEF ItemCreated, Answers
  <2>2. Current \in Listed \ todo /\ ~IsClient(Current)
    BY <2>1, CurrentTyped
  <2>3. skipCleanup' \subseteq {i \in Listed \ todo' : ~IsClient(i)}
    BY <1>5, <2>2 DEF ItemCreated
  <2>4. KubeInv' /\ LifeTypeOK' /\ req'["main"].at = "none"
    BY <1>5, ForgetTyped, LifeFrame DEF ItemCreated, lifeVars, NoRequest
  <2>5. SimsInv' /\ ~closing' /\ closing' \in BOOLEAN
    BY <1>5 DEF ItemCreated, SimsInv
  <2> QED
    BY <2>3, <2>4, <2>5
<1>6. CASE ReproduceReturns
  <2>1. UNCHANGED <<kubeVars, reproduceVars>> /\ phase = "running" /\ req["main"].at = "none"
    BY <1>6 DEF ReproduceReturns, RunReturns, Free
  <2>2. LifeTypeOK' /\ KubeInv'
    BY <1>6, <2>1, LifeSteps, KubeFrame DEF ReproduceReturns
  <2> QED
    BY <2>1, <2>2 DEF kubeVars, reproduceVars, SimsInv
<1>7. ASSUME sims # <<>>, Done, UNCHANGED <<todo, skipCleanup, command>>,
             req'["main"].at = "none", ~closing' /\ closing' \in BOOLEAN
      PROVE  ReproduceInv'
  BY <1>7, SimsShrink
<1>8. CASE UndoSkipped
  <2>1. req["main"].at = "none" /\ ~closing
    BY <1>8 DEF UndoSkipped
  <2> QED
    BY <1>7, <1>8, <2>1, KubeFrame, LifeFrame DEF UndoSkipped, Cleaning, baseVars, kubeVars, lifeVars
<1>9. CASE UndoCreated
  <2>1. sims # <<>> /\ phase = "cleaning" /\ ~IsClient(Current) /\ Current \notin skipCleanup
    BY <1>9 DEF UndoCreated, Cleaning
  <2>2. Docs[Current].o \in Objects /\ "delete" \in Operations
    BY <2>1, CurrentTyped DEF Operations
  <2>3. UNCHANGED <<lifeVars, reproduceVars>>
    BY <1>9 DEF UndoCreated
  <2>4. KubeInv' /\ LifeTypeOK'
    BY <1>9, <2>2, <2>3, AskTyped, LifeFrame DEF UndoCreated
  <2> QED
    BY <2>1, <2>3, <2>4 DEF lifeVars, reproduceVars, SimsInv, Current
<1>10. CASE Undone
  <2>1. KubeInv' /\ LifeTypeOK' /\ req'["main"].at = "none"
    BY <1>10, ForgetTyped, LifeFrame DEF Undone, lifeVars, NoRequest
  <2>2. ~closing
    BY <1>10 DEF Undone, Answers
  <2> QED
    BY <1>7, <1>10, <2>1, <2>2 DEF Undone, Cleaning
<1>11. CASE UndoClient
  <2>1. req["main"].at = "none" /\ phase = "cleaning" /\ sims # <<>> /\ IsClient(Current)
    BY <1>11 DEF UndoClient, Cleaning
  <2>2. UNCHANGED <<kubeVars, phase, ctxDone, todo, sims, skipCleanup>> /\ closing' = TRUE
    BY <1>11 DEF UndoClient
  <2>3. KubeInv' /\ LifeTypeOK'
    BY <1>11, KubeFrame, ClientTyped DEF UndoClient
  <2>4. SimsInv' /\ Current' = Current
    BY <2>2 DEF SimsInv, Current
  <2> QED
    BY <2>1, <2>2, <2>3, <2>4 DEF kubeVars, IsClient
<1>12. CASE ClientUndone
  <2>1. sims # <<>> /\ req["main"].at = "none" /\ UNCHANGED baseVars /\ closing' = FALSE
    BY <1>12 DEF ClientUndone
  <2> QED
    BY <1>7, <1>12, <2>1, KubeFrame, LifeFrame DEF ClientUndone, baseVars, kubeVars, lifeVars
<1>13. CASE ReproduceExits
  <2>1. sims = <<>> /\ UNCHANGED <<kubeVars, reproduceVars>> /\ req["main"].at = "none" /\ ~closing
    BY <1>13 DEF ReproduceExits
  <2>2. LifeTypeOK' /\ KubeInv'
    BY <1>13, <2>1, LifeSteps, KubeFrame DEF ReproduceExits
  <2> QED
    BY <2>1, <2>2 DEF kubeVars, reproduceVars, SimsInv
<1>14. CASE OthersCreate
  <2>1. /\ obj' \in [Objects -> {"absent", "ours", "others"}]
        /\ dying' \subseteq {n \in Namespaces : obj'[n] # "absent"}
    BY <1>14 DEF OthersCreate, KubeInv, KubeTypeOK
  <2>2. UNCHANGED <<dying, req, faults, unsure, lifeVars, reproduceVars>>
    BY <1>14 DEF OthersCreate
  <2>3. KubeInv'
    BY <2>1, <2>2, KubeParts, ReqTyped DEF KubeInv, KubeTypeOK
  <2> QED
    BY <2>2, <2>3, LifeFrame, ReproduceFrame DEF lifeVars
<1> QED
  BY <1>1, <1>2, <1>3, <1>4, <1>5, <1>6, <1>8, <1>9, <1>10, <1>11, <1>12, <1>13, <1>14
  DEF ReproduceStep

LEMMA LatencyStepTyped ==
    ASSUME KubeInv, LifeTypeOK, LatencyTypeOK,
           \/ \E p \in Procs : LatencyCall(p) \/ LatencyStep(p)
           \/ PushClusters \/ LatencyConnects \/ LatencyChance
    PROVE  KubeInv' /\ LifeTypeOK' /\ LatencyTypeOK'
<1> DEFINE Messages == {"cds", "eds", "close"}
<1> USE ProcsTyped DEF LatencyTypeOK
<1>1. Len(Entries) \in Nat \ {0} /\ UpdatesCap \in Nat \ {0} /\ MaxBreaks \in Nat
  BY LatencyAssumption, EmptySeq
<1>2. Cfg \in Objects /\ "apply" \in Operations /\ "delete" \in Operations
  BY LatencyAssumption DEF Cfg, Operations
<1>3. updates # <<>> => Tail(updates) \in Seq(Messages) /\ Len(Tail(updates)) <= UpdatesCap
  BY <1>1, HeadTailProperties
<1>4. \A m \in Messages :
         Room => Append(updates, m) \in Seq(Messages) /\ Len(Append(updates, m)) <= UpdatesCap
  BY <1>1, AppendProperties DEF Room
<1>5. ASSUME NEW p \in Procs, LatencyCall(p) PROVE KubeInv' /\ LifeTypeOK' /\ LatencyTypeOK'
  <2>1. owed' \in BOOLEAN
    BY <1>5, Zenon DEF LatencyCall
  <2> QED
    BY <1>5, <2>1, CallTyped, LifeFrame DEF LatencyCall, lifeVars
<1>6. CASE ApplyConfig
  <2>1. updates' \in Seq(Messages) /\ Len(updates') = 0
    BY <1>6, EmptySeq DEF ApplyConfig
  <2> QED
    BY <1>1, <1>2, <1>6, <2>1, AskTyped, LifeFrame DEF ApplyConfig, lifeVars
<1>7. CASE Applied
  BY <1>2, <1>7, AskTyped, ForgetTyped, LifeFrame DEF Applied, lifeVars
<1>8. CASE TakeOther
  BY <1>3, <1>8, KubeFrame, LifeFrame DEF TakeOther, baseVars, kubeVars, lifeVars
<1>9. CASE TakeFirst
  BY <1>2, <1>3, <1>9, AskTyped, LifeFrame DEF TakeFirst, lifeVars
<1>10. CASE Deleted
  BY <1>2, <1>10, AskTyped, ForgetTyped, LifeFrame DEF Deleted, lifeVars
<1>11. CASE TakeSecond
  <2>1. round' \in 1..Len(Entries)
    <3>1. \A n \in Nat \ {0} : \A m \in 1..n : (m % n) + 1 \in 1..n
      OBVIOUS
    <3> QED
      BY <1>1, <1>11, <3>1 DEF TakeSecond
  <2> QED
    BY <1>3, <1>11, <2>1, KubeFrame, LifeFrame DEF TakeSecond, baseVars, kubeVars, lifeVars
<1>12. CASE GiveUp
  BY <1>2, <1>3, <1>12, AskTyped, LifeFrame DEF GiveUp, lifeVars
<1>13. CASE Deferred
  BY <1>13, ForgetTyped, LifeSteps DEF Deferred
<1>14. CASE LatencyExits
  BY <1>14, KubeFrame, LifeSteps, LatencyFrame DEF LatencyExits
<1>15. CASE LatencyConnects
  <2>1. stream' \in BOOLEAN /\ owed' \in BOOLEAN
    BY <1>15, Zenon DEF LatencyConnects, StreamOpens, StreamStops
  <2> QED
    BY <1>15, <2>1, KubeFrame, LifeFrame
    DEF LatencyConnects, StreamOpens, StreamStops, baseVars, kubeVars, lifeVars
<1>16. CASE PushClusters
  <2>1. owed' \in BOOLEAN
    BY <1>16, Zenon DEF PushClusters
  <2> QED
    BY <1>4, <1>16, <2>1, KubeFrame, LifeFrame DEF PushClusters, baseVars, kubeVars, lifeVars
<1>17. CASE PushOther
  BY <1>4, <1>17, KubeFrame, LifeFrame DEF PushOther, baseVars, kubeVars, lifeVars
<1>18. CASE StreamEnds
  <2>1. stream' \in BOOLEAN
    BY <1>18, Zenon DEF StreamEnds
  <2> QED
    BY <1>1, <1>4, <1>18, <2>1, KubeFrame, LifeFrame DEF StreamEnds, baseVars, kubeVars, lifeVars
<1> QED
  BY <1>5, <1>6, <1>7, <1>8, <1>9, <1>10, <1>11, <1>12, <1>13, <1>14, <1>15, <1>16, <1>17, <1>18
  DEF LatencyStep, LatencyChance

LEMMA StartupStepTyped ==
    ASSUME KubeInv, LifeTypeOK, StartupInv,
           (\E p \in Procs : StartupStep(p)) \/ PodReady
    PROVE  KubeInv' /\ LifeTypeOK' /\ StartupInv'
<1> USE ProcsTyped DEF StartupInv, StartupTypeOK
<1>1. \A w \in Workers :
         /\ Len(PodsOf[w]) \in Nat
         /\ turn[w] <= Len(PodsOf[w]) => PodOf(w) \in Objects
  BY StartupAssumption DEF PodOf
<1>2. "apply" \in Operations /\ "delete" \in Operations
  BY DEF Operations
<1>3. CASE StartWorker
  BY <1>3, KubeFrame, LifeFrame DEF StartWorker, Does, baseVars, kubeVars, lifeVars
<1>4. CASE Collect
  BY <1>4, KubeFrame, LifeFrame DEF Collect, baseVars, kubeVars, lifeVars
<1>5. CASE StopCollecting
  BY <1>5, KubeFrame, LifeFrame DEF StopCollecting, baseVars, kubeVars, lifeVars
<1>6. CASE WorkersDone
  BY <1>6, KubeFrame, LifeSteps, StartupFrame DEF WorkersDone
<1>7. CASE StartupExits
  BY <1>7, KubeFrame, LifeSteps, StartupFrame DEF StartupExits
<1>8. ASSUME NEW w \in Workers, WorkerStarts(w) PROVE KubeInv' /\ LifeTypeOK' /\ StartupInv'
  BY <1>1, <1>2, <1>8, AskTyped, LifeFrame DEF WorkerStarts, Does, lifeVars
<1>9. ASSUME NEW w \in Workers, WorkerEnds(w) PROVE KubeInv' /\ LifeTypeOK' /\ StartupInv'
  BY <1>9, KubeFrame, LifeFrame DEF WorkerEnds, Does, baseVars, kubeVars, lifeVars
<1>10. ASSUME NEW w \in Workers, WorkerApplied(w) PROVE KubeInv' /\ LifeTypeOK' /\ StartupInv'
  BY <1>10, ForgetTyped, LifeFrame DEF WorkerApplied, Does, lifeVars
<1>11. ASSUME NEW w \in Workers, WorkerLooked(w) PROVE KubeInv' /\ LifeTypeOK' /\ StartupInv'
  <2>1. faults' \in 0..MaxFaults /\ UNCHANGED <<obj, dying, unsure>>
    BY <1>11 DEF WorkerLooked, KubeInv, KubeTypeOK
  <2>2. KubeInv'
    BY <1>1, <1>2, <1>11, <2>1, SendsTyped, KubeParts DEF WorkerLooked, KubeInv, KubeTypeOK
  <2> QED
    BY <1>11, <2>2, LifeFrame DEF WorkerLooked, Does, lifeVars
<1>12. ASSUME NEW w \in Workers, WorkerDeleted(w) PROVE KubeInv' /\ LifeTypeOK' /\ StartupInv'
  BY <1>12, ForgetTyped, LifeFrame DEF WorkerDeleted, Does, lifeVars
<1>13. ASSUME NEW w \in Workers, WorkerReports(w) PROVE KubeInv' /\ LifeTypeOK' /\ StartupInv'
  <2>1. KubeInv' /\ LifeTypeOK' /\ UNCHANGED <<gather, ready>> /\ doing[w] = "report"
    BY <1>13, KubeFrame, LifeFrame DEF WorkerReports, baseVars, kubeVars, lifeVars
  <2>2. CASE Does(w, "loop") /\ turn' = [turn EXCEPT ![w] = @ + 1]
    <3>1. turn[w] \in Nat \ {0} /\ turn[w] <= Len(PodsOf[w])
      BY <2>1
    <3>2. turn' \in [Workers -> Nat \ {0}] /\ \A v \in Workers : turn'[v] <= Len(PodsOf[v]) + 1
      BY <1>1, <2>2, <3>1
    <3> QED
      BY <2>1, <2>2, <3>2 DEF Does
  <2>3. CASE Does(w, "over") /\ UNCHANGED turn
    BY <2>1, <2>3 DEF Does
  <2> QED
    BY <1>13, <2>2, <2>3 DEF WorkerReports
<1>14. CASE PodReady
  BY <1>14, KubeFrame, LifeFrame DEF PodReady, baseVars, kubeVars, lifeVars
<1> QED
  BY <1>3, <1>4, <1>5, <1>6, <1>7, <1>8, <1>9, <1>10, <1>11, <1>12, <1>13, <1>14 DEF StartupStep
-----------------------------------------------------------------------------
(* Every step keeps the shape of the state. *)

\* What the five commands keep for themselves
OwnFrames(c) ==
    /\ c # "cluster" => UNCHANGED clusterVars
    /\ c # "impersonate" => UNCHANGED impersonateVars
    /\ c # "reproduce" => UNCHANGED reproduceVars
    /\ c # "latency" => UNCHANGED latencyVars
    /\ c # "startup" => UNCHANGED startupVars
    /\ UNCHANGED command

\* A step of the command that runs, which keeps its own state in shape
LEMMA OwnStepTyped ==
    ASSUME TypeInv, OwnFrames(command), KubeInv', LifeTypeOK',
           command = "cluster" => ClusterInv',
           command = "impersonate" => ImpersonateInv',
           command = "reproduce" => ReproduceInv',
           command = "latency" => LatencyTypeOK',
           command = "startup" => StartupInv'
    PROVE  TypeInv'
<1>1. ClusterInv'
  BY ClusterFrame DEF TypeInv, OwnFrames
<1>2. ImpersonateInv'
  BY ImpersonateFrame DEF TypeInv, OwnFrames
<1>3. ReproduceInv'
  BY ReproduceFrame DEF TypeInv, OwnFrames
<1>4. LatencyTypeOK'
  BY LatencyFrame DEF TypeInv, OwnFrames
<1>5. StartupInv'
  BY StartupFrame DEF TypeInv, OwnFrames
<1> QED
  BY <1>1, <1>2, <1>3, <1>4, <1>5 DEF TypeInv, OwnFrames

\* A step that is no command's own
LEMMA SharedStepTyped ==
    ASSUME TypeInv, UNCHANGED commandVars, KubeInv', LifeTypeOK',
           phase' = phase \/ (phase = "waiting" /\ phase' = "cleaning"),
           req'["main"].at # "none" => req["main"].at # "none"
    PROVE  TypeInv'
BY ClusterFrame, ImpersonateFrame, ReproduceFrame, LatencyFrame, StartupFrame
DEF TypeInv, commandVars

LEMMA NextTyped ==
    ASSUME TypeInv, [Next]_vars
    PROVE  TypeInv'
<1> USE ProcsTyped
<1>0. KubeInv /\ LifeTypeOK /\ ClusterInv /\ ImpersonateInv /\ ReproduceInv /\ LatencyTypeOK /\ StartupInv
  BY DEF TypeInv
<1>1. ASSUME NEW p \in Procs, Call(p), UNCHANGED <<lifeVars, commandVars>> PROVE TypeInv'
  <2>1. KubeInv' /\ LifeTypeOK' /\ (req'["main"].at # "none" => req["main"].at # "none")
    BY <1>0, <1>1, CallTyped, LifeFrame
  <2> QED
    BY <1>1, <2>1, SharedStepTyped DEF lifeVars
<1>2. ASSUME NEW p \in Procs, OfLatency, LatencyCall(p) \/ LatencyStep(p) PROVE TypeInv'
  BY <1>0, <1>2, LatencyStepTyped, OwnStepTyped DEF OfLatency, OwnFrames
<1>3. CASE StopWaiting /\ UNCHANGED commandVars
  <2>1. KubeInv' /\ LifeTypeOK' /\ req' = req
    BY <1>0, <1>3, KubeFrame, LifeSteps DEF StopWaiting, kubeVars
  <2> QED
    BY <1>3, <2>1, SharedStepTyped DEF StopWaiting
<1>4. ASSUME NEW p \in Procs, OfCluster, ClusterStep(p) PROVE TypeInv'
  BY <1>0, <1>4, ClusterStepTyped, OwnStepTyped DEF OfCluster, OwnFrames
<1>5. ASSUME NEW p \in Procs, OfImpersonate, ImpersonateStep(p) PROVE TypeInv'
  BY <1>0, <1>5, ImpersonateStepTyped, OwnStepTyped DEF OfImpersonate, OwnFrames
<1>6. ASSUME NEW p \in Procs, OfReproduce, ReproduceStep(p) PROVE TypeInv'
  BY <1>0, <1>6, ReproduceStepTyped, OwnStepTyped DEF OfReproduce, OwnFrames
<1>7. ASSUME NEW p \in Procs, OfStartup, StartupStep(p) PROVE TypeInv'
  BY <1>0, <1>7, StartupStepTyped, OwnStepTyped DEF OfStartup, OwnFrames
<1>8. ASSUME NEW c \in Clients, ClientReturns(c), UNCHANGED commandVars PROVE TypeInv'
  <2>1. KubeInv' /\ LifeTypeOK' /\ req' = req /\ phase' = phase
    BY <1>0, <1>8, KubeFrame, LifeSteps DEF ClientReturns, kubeVars
  <2> QED
    BY <1>8, <2>1, SharedStepTyped
<1>9. ASSUME NEW c \in Clients, OfImpersonate, ReplicaRuns(c) PROVE TypeInv'
  BY <1>0, <1>9, ImpersonateStepTyped, OwnStepTyped DEF OfImpersonate, OwnFrames
<1>10. ASSUME NEW n \in Namespaces, FinishDeletion(n), UNCHANGED <<lifeVars, commandVars>> PROVE TypeInv'
  <2>1. KubeInv' /\ LifeTypeOK' /\ req' = req
    BY <1>0, <1>10, FinishDeletionTyped, LifeFrame DEF FinishDeletion
  <2> QED
    BY <1>10, <2>1, SharedStepTyped DEF lifeVars
<1>11. CASE OfCluster /\ (CollectLease \/ AccountCreated)
  <2>1. KubeInv' /\ LifeTypeOK' /\ ClusterInv'
    BY <1>0, <1>11, ControllersTyped, LifeFrame, ClusterFrame DEF OfCluster, lifeVars
  <2> QED
    BY <1>11, <2>1, OwnStepTyped DEF OfCluster, OwnFrames
<1>12. CASE OfLatency /\ (PushClusters \/ LatencyConnects \/ LatencyChance)
  BY <1>0, <1>12, LatencyStepTyped, OwnStepTyped DEF OfLatency, OwnFrames
<1>13. CASE Signal /\ UNCHANGED commandVars
  <2>1. KubeInv' /\ LifeTypeOK' /\ req' = req /\ phase' = phase
    BY <1>0, <1>13, KubeFrame, LifeSteps DEF Signal, kubeVars
  <2> QED
    BY <1>13, <2>1, SharedStepTyped
<1>14. CASE OfCluster /\ (WorkloadTick \/ ConfigTick)
  BY <1>0, <1>14, ScalerStepTyped, OwnStepTyped DEF OfCluster, OwnFrames
<1>15. CASE OfImpersonate /\ PodChanges
  BY <1>0, <1>15, ImpersonateStepTyped, OwnStepTyped DEF OfImpersonate, OwnFrames
<1>16. CASE OfReproduce /\ OthersCreate
  BY <1>0, <1>16, ReproduceStepTyped, OwnStepTyped DEF OfReproduce, OwnFrames
<1>17. CASE OfStartup /\ PodReady
  BY <1>0, <1>17, StartupStepTyped, OwnStepTyped DEF OfStartup, OwnFrames
<1>18. ASSUME NEW p \in Procs, Lands(p), UNCHANGED <<lifeVars, commandVars>> PROVE TypeInv'
  <2>1. req'["main"].at # "none" => req["main"].at # "none"
    BY <1>0, <1>18, ReqTyped DEF Lands, NoRequest
  <2> QED
    BY <1>0, <1>18, <2>1, LandsTyped, LifeFrame, SharedStepTyped DEF lifeVars
<1>19. CASE UNCHANGED vars
  BY <1>0, <1>19, KubeFrame, LifeFrame, SharedStepTyped DEF vars, baseVars, lifeVars, kubeVars
<1> QED
  BY <1>1, <1>2, <1>3, <1>4, <1>5, <1>6, <1>7, <1>8, <1>9, <1>10, <1>11, <1>12, <1>13, <1>14,
     <1>15, <1>16, <1>17, <1>18, <1>19
  DEF Next, Goroutine, ClientStep, Controllers, Pushes, Connects, Chance, ClusterChance, AfterExit

LEMMA TypeInvType == TypeInv => CommandsTypeOK
<1>1. Seq(Kept) \subseteq Seq(Listed)
  BY DEF Kept
<1> QED
  BY <1>1 DEF TypeInv, CommandsTypeOK, KubeInv, ClusterInv, ImpersonateInv, ReproduceInv, SimsInv,
         ReproduceTypeOK, StartupInv

LEMMA TypeInvariant == Spec => []TypeInv
<1> QED
  BY InitTyped, NextTyped, PTL DEF Spec

\* The state of the program, of its requests and of each command keeps its shape
\* whatever the commands, their configurations and the failures.
THEOREM CommandsTyping == Spec => []CommandsTypeOK
<1> QED
  BY TypeInvariant, TypeInvType, PTL
-----------------------------------------------------------------------------
(* Reproducing a cluster deletes what it made.                              *)
(*                                                                          *)
(* A simulation that Cleanup will delete, or that it is about to delete,    *)
(* stands for an object that is ours, unless the last request for it        *)
(* failed.  The object does not go before: it is deleted once, since a dump *)
(* has one document of it, and its namespace, which comes before it in the  *)
(* dump, is deleted after it.                                               *)

ObjectOf(a) == Docs[sims[a]].o

\* The simulation at a is not a client nor one to leave alone; its creation has
\* ended, and its deletion has not.
Held(a) ==
    /\ ~IsClient(sims[a]) /\ sims[a] \notin skipCleanup
    /\ a = Len(sims) => IF phase = "cleaning" THEN req["main"].at \in {"none", "delete"}
                        ELSE req["main"].at \notin {"create", "exists"}

OnlyMainAsks == \A p \in Procs \ {"main"} : req[p].at = "none"

AsksForCurrent ==
    req["main"].at # "none" =>
       /\ req["main"].o = Docs[Current].o
       /\ req["main"].op = IF phase = "running" THEN "create" ELSE "delete"

HeldIsOurs == \A a \in 1..Len(sims) : Held(a) => obj[ObjectOf(a)] = "ours" \/ ObjectOf(a) \in unsure

\* Namespaces go last.
NamespacesLast ==
    /\ phase \in {"running", "waiting"} => dying = {}
    /\ \A n \in dying : \A a \in 1..Len(sims) :
          ObjectOf(a) \in Namespaces /\ (Held(a) => ObjectOf(a) # n)

OwnInv ==
    command = "reproduce" => OnlyMainAsks /\ AsksForCurrent /\ HeldIsOurs /\ NamespacesLast

LEMMA OwnInit == Init => OwnInv
<1> SUFFICES ASSUME Init PROVE OwnInv
  OBVIOUS
<1>1. Len(sims) = 0
  BY DEF Init, ReproduceInit
<1>2. dying = {} /\ \A p \in Procs : req[p].at = "none"
  BY DEF Init, KubeInit, NoRequest
<1> QED
  BY <1>1, <1>2, ProcsTyped
  DEF OwnInv, OnlyMainAsks, AsksForCurrent, HeldIsOurs, NamespacesLast

\* Documents of namespaces come first, and each object has one document.
LEMMA SimsOrder ==
    ASSUME ReproduceInv
    PROVE  /\ \A a, b \in 1..Len(sims) : a # b => ObjectOf(a) # ObjectOf(b)
           /\ \A a, b \in 1..Len(sims) :
                 a < b /\ ObjectOf(b) \in Namespaces => ObjectOf(a) \in Namespaces
           /\ \A a \in 1..Len(sims) : ~IsClient(sims[a]) => ObjectOf(a) \in Objects
<1>1. Len(sims) \in Nat /\ \A a \in 1..Len(sims) : sims[a] \in Kept
  BY DEF ReproduceInv, SimsInv
<1>2. \A i \in Listed : Rank(i) \in 1..18 /\ Order[Rank(i)] = Docs[i].kind
  <2> TAKE i \in Listed
  <2>1. \E k \in DOMAIN Order : Order[k] = Docs[i].kind
    BY DEF Listed
  <2>2. DOMAIN Order = 1..18
    BY DEF Order
  <2> HIDE DEF Order
  <2> QED
    BY <2>1, <2>2 DEF Rank
<1>3. \A k \in 1..18 : Order[k] = "Namespace" <=> k = 1
  BY DEF Order
<1>4. ASSUME NEW a \in 1..Len(sims), NEW b \in 1..Len(sims), a < b
      PROVE  /\ ObjectOf(a) # ObjectOf(b)
             /\ ObjectOf(b) \in Namespaces => ObjectOf(a) \in Namespaces
  <2>1. sims[a] \in Listed /\ sims[b] \in Listed /\ sims[a] # sims[b] /\ Earlier(sims[a], sims[b])
    BY <1>1, <1>4 DEF ReproduceInv, SimsInv, Kept
  <2>2. ObjectOf(a) # ObjectOf(b)
    BY <2>1, ReproduceAssumption DEF ObjectOf
  <2>3. ASSUME ObjectOf(b) \in Namespaces PROVE ObjectOf(a) \in Namespaces
    <3>1. Docs[sims[b]].kind = "Namespace"
      BY <2>1, <2>3, ReproduceAssumption DEF ObjectOf
    <3>2. Rank(sims[b]) = 1
      BY <1>2, <1>3, <2>1, <3>1
    <3>3. Rank(sims[a]) = 1
      <4>1. Rank(sims[a]) \in 1..18 /\ (Rank(sims[a]) < Rank(sims[b]) \/ Rank(sims[a]) = Rank(sims[b]))
        BY <1>2, <2>1 DEF Earlier
      <4> QED
        BY <3>2, <4>1
    <3>4. Docs[sims[a]].kind = "Namespace"
      BY <1>2, <1>3, <2>1, <3>3
    <3> QED
      BY <2>1, <3>4, ReproduceAssumption DEF ObjectOf
  <2> QED
    BY <2>2, <2>3
<1>5. \A a, b \in 1..Len(sims) : a < b \/ b < a \/ a = b
  BY <1>1
<1>6. \A a \in 1..Len(sims) : ~IsClient(sims[a]) => ObjectOf(a) \in Objects
  BY <1>1, ReproduceAssumption DEF ObjectOf, Kept
<1> QED
  BY <1>4, <1>5, <1>6

\* What a call of main does while a cluster is reproduced: a creation or a deletion
\* of the last simulation's object.
LEMMA OwnCall ==
    ASSUME TypeInv, OwnInv, command = "reproduce",
           NEW p \in Procs, Call(p), UNCHANGED <<lifeVars, commandVars>>
    PROVE  /\ p = "main" /\ sims # <<>> /\ Len(sims) \in 1..Len(sims)
           /\ req[p].o = ObjectOf(Len(sims)) /\ req[p].o \in Objects
           /\ ~IsClient(sims[Len(sims)]) /\ sims[Len(sims)] \notin skipCleanup
           /\ req'[p].o = req[p].o /\ req'[p].op = req[p].op
           /\ \A q \in Procs \ {p} : req'[q] = req[q]
           /\ \/ phase = "running" /\ req[p].op = "create" /\ req[p].at = "create"
              \/ phase = "cleaning" /\ req[p].op = "delete" /\ req[p].at = "delete"
           /\ Accepted(p) \/ Refused(p) \/ QuotaExceeded(p) \/ RequestFails(p) \/ AnswerLost(p)
<1>1. KubeInv /\ ReproduceInv /\ OnlyMainAsks /\ AsksForCurrent
  BY DEF TypeInv, OwnInv
<1>2. req[p].at # "none" /\ \A q \in Procs \ {p} : req'[q] = req[q]
  BY <1>1, CallTyped
<1>3. p = "main"
  BY <1>1, <1>2 DEF OnlyMainAsks
<1>4. /\ phase \in {"running", "cleaning"} /\ sims # <<>>
      /\ ~IsClient(Current) /\ Current \notin skipCleanup
      /\ req[p].o = Docs[Current].o
      /\ req[p].op = IF phase = "running" THEN "create" ELSE "delete"
  BY <1>1, <1>2, <1>3 DEF ReproduceInv, AsksForCurrent
<1>5. Len(sims) \in 1..Len(sims) /\ req[p].o \in Objects
  BY <1>1, <1>4, CurrentTyped DEF ReproduceInv
<1>6. req[p].at \in CallsOf(req[p].op)
  BY <1>1, <1>2, Requesting
<1>7. req[p].at \in Calls
  BY DEF Call, Get, Accepted, Refused, QuotaExceeded, Conflict, RequestFails, AnswerLost, Calling,
         Calls, Answered
<1>8. \/ phase = "running" /\ req[p].op = "create" /\ req[p].at = "create"
      \/ phase = "cleaning" /\ req[p].op = "delete" /\ req[p].at = "delete"
  BY <1>4, <1>6, <1>7 DEF CallsOf, Calls, Answers
<1>9. Accepted(p) \/ Refused(p) \/ QuotaExceeded(p) \/ RequestFails(p) \/ AnswerLost(p)
  BY <1>8 DEF Call, Get, Conflict, Answered
<1>10. req'[p].o = req[p].o /\ req'[p].op = req[p].op
  BY <1>1, <1>9, ReqTyped
  DEF Accepted, Refused, QuotaExceeded, RequestFails, AnswerLost, Proceed
<1> QED
  BY <1>2, <1>3, <1>4, <1>5, <1>8, <1>9, <1>10 DEF Current, ObjectOf

LEMMA OwnCallKeeps ==
    ASSUME TypeInv, OwnInv, command = "reproduce",
           NEW p \in Procs, Call(p), UNCHANGED <<lifeVars, commandVars>>
    PROVE  OwnInv'
<1> DEFINE last == Len(sims)
           o == req[p].o
<1>1. KubeInv /\ ReproduceInv /\ OnlyMainAsks /\ AsksForCurrent /\ HeldIsOurs /\ NamespacesLast
  BY DEF TypeInv, OwnInv
<1>2. /\ p = "main" /\ last \in 1..last /\ o = ObjectOf(last) /\ o \in Objects
      /\ ~IsClient(sims[last]) /\ sims[last] \notin skipCleanup
      /\ req'[p].o = req[p].o /\ req'[p].op = req[p].op
      /\ \A q \in Procs \ {p} : req'[q] = req[q]
      /\ \/ phase = "running" /\ req[p].op = "create" /\ req[p].at = "create"
         \/ phase = "cleaning" /\ req[p].op = "delete" /\ req[p].at = "delete"
      /\ Accepted(p) \/ Refused(p) \/ QuotaExceeded(p) \/ RequestFails(p) \/ AnswerLost(p)
  BY OwnCall
<1>3. UNCHANGED <<phase, command, sims, skipCleanup>> /\ req' \in [Procs -> Requests]
  <2>1. KubeInv'
    BY <1>1, CallTyped
  <2>2. req' \in [Procs -> Requests]
    BY <2>1 DEF KubeInv, KubeTypeOK, Requests, Operations
  <2> QED
    BY <2>2 DEF lifeVars, commandVars, reproduceVars
<1>4. /\ \A a \in 1..last : ObjectOf(a)' = ObjectOf(a)
      /\ \A a \in 1..last : a # last => ObjectOf(a) # o
      /\ \A a \in 1..last : Held(a)' => a # last \/ req'["main"].at \in
            IF phase = "cleaning" THEN {"none", "delete"}
            ELSE {"none", "ok", "failed"} \cup (Calls \ {"create"})
      /\ \A a \in 1..last : a # last => (Held(a)' <=> Held(a))
  <2>1. req'["main"].at \in {"none"} \cup Calls \cup Answers
    BY <1>3, ProcsTyped DEF Requests
  <2> QED
    BY <1>1, <1>2, <1>3, <2>1, SimsOrder DEF ObjectOf, Held, IsClient, Answers
<1>5. (OnlyMainAsks /\ AsksForCurrent)'
  BY <1>1, <1>2, <1>3 DEF OnlyMainAsks, AsksForCurrent, ObjectOf, Current
<1>6. req'[p].at \in Answers
      /\ (req'[p].at = "ok" => Accepted(p) \/ (Refused(p) /\ req[p].at = "delete"))
      /\ (req'[p].at = "failed" => o \in unsure')
  <2>1. CASE Accepted(p)
    <3>1. req'[p].at = AfterCall(p)
      BY <1>1, <2>1, ReqTyped DEF Accepted, Proceed
    <3> QED
      BY <1>2, <2>1, <3>1 DEF AfterCall, Answers
  <2>2. CASE Refused(p)
    <3>1. req'[p].at = Refusal(p)
      BY <1>1, <2>2, ReqTyped DEF Refused, Proceed
    <3> QED
      BY <1>2, <2>2, <3>1 DEF Refused, Refusal, Answers
  <2>3. CASE QuotaExceeded(p)
    <3>1. req'[p].at = "exists"
      BY <1>1, <2>3, ReqTyped DEF QuotaExceeded, Proceed
    <3> QED
      BY <3>1 DEF Answers
  <2>4. CASE RequestFails(p)
    <3>1. req'[p].at = "failed"
      BY <1>1, <1>2, <2>4, ReqTyped DEF RequestFails, Proceed, Answered
    <3> QED
      BY <2>4, <3>1 DEF RequestFails, Fault, Answers
  <2>5. CASE AnswerLost(p)
    <3>1. req'[p].at = "failed"
      BY <1>1, <2>5, ReqTyped DEF AnswerLost, Proceed
    <3> QED
      BY <2>5, <3>1 DEF AnswerLost, Fault, Answers
  <2> QED
    BY <1>2, <2>1, <2>2, <2>3, <2>4, <2>5
\* The call touches its object only, and no other leaves those in doubt.
<1>7. /\ \A x \in Objects \ {o} : obj'[x] = obj[x] /\ (x \in unsure => x \in unsure')
      /\ \A n \in dying' : n \in dying \/ (n = o /\ o \in Namespaces /\ req[p].at = "delete")
      /\ Accepted(p) /\ req[p].at = "create" => obj'[o] = "ours"
  BY <1>1, <1>2 DEF KubeInv, KubeTypeOK, Accepted, Refused, QuotaExceeded, RequestFails, AnswerLost,
                   Effect, Possible, Fault
<1>8. HeldIsOurs'
  <2> SUFFICES ASSUME NEW a \in 1..last, Held(a)'
               PROVE  obj'[ObjectOf(a)] = "ours" \/ ObjectOf(a) \in unsure'
    BY <1>3, <1>4 DEF HeldIsOurs
  <2>1. CASE a # last
    <3>1. Held(a) /\ ObjectOf(a) # o /\ ObjectOf(a) \in Objects
      BY <1>1, <1>4, <2>1, SimsOrder DEF Held
    <3> QED
      BY <1>1, <1>7, <3>1 DEF HeldIsOurs
  <2>2. CASE a = last
    <3>1. phase = "running" /\ req[p].at = "create" /\ req'[p].at \in {"ok", "failed"}
      BY <1>2, <1>4, <1>6, <2>2 DEF Answers, Calls
    <3> QED
      BY <1>2, <1>6, <1>7, <2>2, <3>1
  <2> QED
    BY <2>1, <2>2
<1>9. NamespacesLast'
  <2>1. phase' \in {"running", "waiting"} => dying' = {}
    BY <1>1, <1>2, <1>3, <1>7 DEF NamespacesLast
  <2>2. ASSUME NEW n \in dying', NEW a \in 1..last
        PROVE  ObjectOf(a) \in Namespaces /\ (Held(a)' => ObjectOf(a) # n)
    <3>1. Held(a)' => a # last \/ phase = "running"
      BY <1>2, <1>4, <1>6 DEF Answers
    <3>2. CASE n \in dying
      <4>1. phase # "running" /\ ObjectOf(a) \in Namespaces /\ (Held(a) => ObjectOf(a) # n)
        BY <1>1, <3>2 DEF NamespacesLast
      <4> QED
        BY <1>4, <3>1, <4>1
    <3>3. CASE n = o /\ o \in Namespaces /\ req[p].at = "delete"
      <4>1. phase = "cleaning"
        BY <1>2, <3>3
      <4>2. a # last => a < last
        BY <1>2
      <4>3. ObjectOf(a) \in Namespaces
        BY <1>1, <1>2, <3>3, <4>2, SimsOrder
      <4> QED
        BY <1>4, <3>1, <3>3, <4>1, <4>3
    <3> QED
      BY <1>7, <3>2, <3>3
  <2> QED
    BY <1>3, <1>4, <2>1, <2>2 DEF NamespacesLast
<1> QED
  BY <1>5, <1>8, <1>9 DEF OwnInv

\* The namespace controller, or another user of the cluster
LEMMA OwnOutside ==
    ASSUME TypeInv, OwnInv, command = "reproduce", UNCHANGED <<req, unsure, phase, reproduceVars, command>>,
           \/ \E n \in Namespaces : FinishDeletion(n)
           \/ OthersCreate
    PROVE  OwnInv'
<1>1. KubeInv /\ ReproduceInv /\ OnlyMainAsks /\ AsksForCurrent /\ HeldIsOurs /\ NamespacesLast
  BY DEF TypeInv, OwnInv
<1>2. UNCHANGED <<todo, sims, skipCleanup, closing>>
  BY DEF reproduceVars
<1>3. \A a \in 1..Len(sims) : (Held(a)' <=> Held(a)) /\ ObjectOf(a)' = ObjectOf(a)
  BY <1>2 DEF Held, ObjectOf, IsClient
<1>4. (OnlyMainAsks /\ AsksForCurrent)'
  BY <1>1, <1>2 DEF OnlyMainAsks, AsksForCurrent, Current
<1>5. dying' \subseteq dying
  BY DEF FinishDeletion, OthersCreate
<1>6. NamespacesLast'
  BY <1>1, <1>2, <1>3, <1>5 DEF NamespacesLast
<1>7. ASSUME NEW a \in 1..Len(sims), Held(a), obj[ObjectOf(a)] = "ours"
      PROVE  obj'[ObjectOf(a)] = "ours"
  <2>1. ObjectOf(a) \in Objects
    BY <1>1, <1>7, SimsOrder DEF Held
  <2>2. ASSUME NEW n \in Namespaces, FinishDeletion(n) PROVE obj'[ObjectOf(a)] = "ours"
    <3>1. ObjectOf(a) \in Namespaces /\ ObjectOf(a) # n
      BY <1>1, <1>7, <2>2 DEF NamespacesLast, FinishDeletion
    <3>2. NsOf[ObjectOf(a)] # n
      BY <3>1
    <3> QED
      BY <1>7, <2>1, <2>2, <3>1, <3>2 DEF FinishDeletion
  <2>3. CASE OthersCreate
    BY <1>1, <1>7, <2>1, <2>3 DEF OthersCreate, There, KubeInv, KubeTypeOK
  <2> QED
    BY <2>2, <2>3
<1>8. HeldIsOurs'
  BY <1>1, <1>2, <1>3, <1>7 DEF HeldIsOurs
<1> QED
  BY <1>4, <1>6, <1>8 DEF OwnInv

\* A step between two requests of main: what is held was held before.
LEMMA OwnParts ==
    ASSUME TypeInv, OwnInv, command = "reproduce", UNCHANGED <<obj, dying, unsure, command>>,
           \A p \in Procs \ {"main"} : req'[p] = req[p],
           AsksForCurrent',
           phase' \in {"running", "waiting"} => phase \in {"running", "waiting"},
           \A a \in 1..Len(sims') : Held(a)' => a \in 1..Len(sims) /\ Held(a) /\ sims'[a] = sims[a],
           dying # {} => \A a \in 1..Len(sims') : a \in 1..Len(sims) /\ sims'[a] = sims[a]
    PROVE  OwnInv'
<1>1. OnlyMainAsks'
  BY DEF OwnInv, OnlyMainAsks
<1>2. HeldIsOurs'
  BY DEF OwnInv, HeldIsOurs, ObjectOf
<1>3. NamespacesLast'
  BY DEF OwnInv, NamespacesLast, ObjectOf
<1> QED
  BY <1>1, <1>2, <1>3 DEF OwnInv

LEMMA OwnSteps ==
    ASSUME TypeInv, OwnInv, command = "reproduce", UNCHANGED command,
           \E p \in Procs : ReproduceStep(p)
    PROVE  OwnInv'
<1>1. KubeInv /\ ReproduceInv /\ OnlyMainAsks /\ AsksForCurrent /\ HeldIsOurs /\ NamespacesLast
  BY DEF TypeInv, OwnInv
<1>2. Len(sims) \in Nat /\ "main" \in Procs /\ NoRequest.at = "none"
  BY <1>1, ProcsTyped DEF ReproduceInv, SimsInv, NoRequest
<1>3. CASE ParseFails
  <2>1. sims = <<>> /\ req["main"].at = "none"
    BY <1>1, <1>3, CurrentTyped DEF ParseFails, ReproduceInv
  <2>2. UNCHANGED <<kubeVars, reproduceVars>> /\ phase' = "cleaning"
    BY <1>3 DEF ParseFails, RunFails
  <2>3. Len(sims') = 0
    BY <2>1, <2>2, EmptySeq DEF reproduceVars
  <2> QED
    BY <2>1, <2>2, <2>3, OwnParts DEF kubeVars, reproduceVars, AsksForCurrent
<1>4. ASSUME NEW i \in Listed, SkipItem(i) PROVE OwnInv'
  <2>1. UNCHANGED <<baseVars, sims, skipCleanup, closing>>
    BY <1>4 DEF SkipItem
  <2> QED
    BY <1>1, <2>1, OwnParts
    DEF baseVars, kubeVars, lifeVars, AsksForCurrent, Current, Held, IsClient
<1>5. ASSUME NEW i \in Listed, RunItem(i) PROVE OwnInv'
  <2>1. /\ UNCHANGED <<kubeVars, phase, ctxDone, skipCleanup, closing>>
        /\ phase = "running" /\ req["main"].at = "none" /\ IsClient(i) /\ i \in Kept
    BY <1>5 DEF RunItem, GetsTo, Free, Kept
  <2>2. /\ Len(sims') = Len(sims) + 1 /\ Current' = i
        /\ \A a \in 1..Len(sims) : sims'[a] = sims[a]
    BY <1>1, <1>5, <2>1, SimsGrow DEF RunItem, ReproduceInv
  <2>3. \A a \in 1..Len(sims') : Held(a)' => a \in 1..Len(sims) /\ Held(a)
    BY <1>2, <2>1, <2>2 DEF Held, IsClient, Current, kubeVars
  <2> QED
    BY <1>1, <2>1, <2>2, <2>3, OwnParts DEF kubeVars, AsksForCurrent, NamespacesLast
<1>6. ASSUME NEW i \in Listed, CreateItem(i) PROVE OwnInv'
  <2>1. /\ UNCHANGED <<obj, dying, unsure, lifeVars, skipCleanup>>
        /\ phase = "running" /\ req["main"].at = "none" /\ i \in Kept
    BY <1>6 DEF CreateItem, GetsTo, Free, Kept, Ask
  <2>2. /\ Len(sims') = Len(sims) + 1 /\ Current' = i
        /\ \A a \in 1..Len(sims) : sims'[a] = sims[a]
    BY <1>1, <1>6, <2>1, SimsGrow DEF CreateItem, ReproduceInv
  <2>3. /\ req'["main"].at = "create" /\ req'["main"].op = "create" /\ req'["main"].o = Docs[i].o
        /\ \A p \in Procs \ {"main"} : req'[p] = req[p]
    BY <1>1, <1>2, <1>6, ReqTyped DEF CreateItem, Ask, Sends, FirstCall
  <2>4. \A a \in 1..Len(sims') : Held(a)' => a \in 1..Len(sims) /\ Held(a)
    BY <1>2, <2>1, <2>2, <2>3 DEF Held, IsClient, lifeVars
  <2> QED
    BY <1>1, <2>1, <2>2, <2>3, <2>4, OwnParts DEF lifeVars, AsksForCurrent, NamespacesLast
\* What was created is held from now on, what was found is left alone.
<1>7. CASE ItemCreated
  <2>1. /\ phase = "running" /\ req["main"].at \in Answers
        /\ UNCHANGED <<obj, dying, unsure, lifeVars, sims>>
        /\ skipCleanup' = IF req["main"].at = "exists" THEN skipCleanup \cup {Current} ELSE skipCleanup
    BY <1>7 DEF ItemCreated, Forget, Answered
  <2>2. req'["main"].at = "none" /\ \A p \in Procs \ {"main"} : req'[p] = req[p]
    BY <1>1, <1>2, <1>7, ForgetTyped DEF ItemCreated
  <2>3. \A a \in 1..Len(sims') : Held(a)' => a \in 1..Len(sims) /\ Held(a)
    BY <1>2, <2>1, <2>2 DEF Held, IsClient, Answers, Current, lifeVars
  <2> QED
    BY <1>1, <2>1, <2>2, <2>3, OwnParts DEF lifeVars, AsksForCurrent, NamespacesLast
<1>8. CASE ReproduceReturns
  <2>1. UNCHANGED <<kubeVars, reproduceVars>> /\ phase = "running" /\ phase' = "waiting"
        /\ req["main"].at = "none"
    BY <1>8 DEF ReproduceReturns, RunReturns, Free
  <2> QED
    BY <1>1, <2>1, OwnParts DEF kubeVars, reproduceVars, AsksForCurrent, Held, IsClient
\* The last simulation is done; none is asked for.
<1>9. ASSUME sims # <<>>, Done, UNCHANGED <<todo, skipCleanup, obj, dying, unsure, phase>>,
             req'["main"].at = "none", phase = "cleaning",
             \A p \in Procs \ {"main"} : req'[p] = req[p]
      PROVE  OwnInv'
  <2>1. /\ Len(sims') = Len(sims) - 1 /\ Len(sims) \in Nat \ {0}
        /\ \A a \in 1..Len(sims') : sims'[a] = sims[a]
    BY <1>1, <1>9, SimsShrink DEF ReproduceInv
  <2>2. \A a \in 1..Len(sims') : a \in 1..Len(sims) /\ a # Len(sims)
    BY <2>1
  <2>3. \A a \in 1..Len(sims') : Held(a)' => Held(a)
    BY <1>9, <2>1, <2>2 DEF Held, IsClient
  <2> QED
    BY <1>9, <2>1, <2>2, <2>3, OwnParts DEF AsksForCurrent
<1>10. CASE UndoSkipped
  <2>1. req["main"].at = "none"
    BY <1>1, <1>10 DEF UndoSkipped, ReproduceInv
  <2> QED
    BY <1>9, <1>10, <2>1 DEF UndoSkipped, Cleaning, baseVars, kubeVars, lifeVars
<1>11. CASE UndoCreated
  <2>1. /\ UNCHANGED <<obj, dying, unsure, lifeVars, reproduceVars>>
        /\ phase = "cleaning" /\ req["main"].at = "none"
    BY <1>11 DEF UndoCreated, Cleaning, Free, Ask
  <2>2. /\ req'["main"].at = "delete" /\ req'["main"].op = "delete" /\ req'["main"].o = Docs[Current].o
        /\ \A p \in Procs \ {"main"} : req'[p] = req[p]
    BY <1>1, <1>2, <1>11, ReqTyped DEF UndoCreated, Ask, Sends, FirstCall
  <2>3. AsksForCurrent'
    BY <2>1, <2>2 DEF AsksForCurrent, Current, reproduceVars, lifeVars
  <2>4. \A a \in 1..Len(sims') : Held(a)' => Held(a)
    BY <2>1, <2>2 DEF Held, IsClient, reproduceVars, lifeVars
  <2> QED
    BY <2>1, <2>2, <2>3, <2>4, OwnParts DEF reproduceVars, lifeVars
<1>12. CASE Undone
  <2>1. req'["main"].at = "none" /\ \A p \in Procs \ {"main"} : req'[p] = req[p]
    BY <1>1, <1>2, <1>12, ForgetTyped DEF Undone
  <2> QED
    BY <1>9, <1>12, <2>1 DEF Undone, Cleaning, Forget, lifeVars
<1>13. CASE UndoClient
  <2>1. UNCHANGED <<kubeVars, phase, sims, skipCleanup>>
    BY <1>13 DEF UndoClient
  <2> QED
    BY <1>1, <2>1, OwnParts DEF kubeVars, AsksForCurrent, Current, Held, IsClient
<1>14. CASE ClientUndone
  <2>1. sims # <<>> /\ phase = "cleaning" /\ req["main"].at = "none"
    BY <1>1, <1>14 DEF ClientUndone, ReproduceInv
  <2> QED
    BY <1>9, <1>14, <2>1 DEF ClientUndone, baseVars, kubeVars, lifeVars
<1>15. CASE ReproduceExits
  <2>1. sims = <<>> /\ UNCHANGED <<kubeVars, reproduceVars>> /\ phase' = "exited"
    BY <1>15 DEF ReproduceExits, Exit
  <2>2. req["main"].at = "none"
    BY <1>1, <2>1 DEF ReproduceInv
  <2>3. Len(sims') = 0
    BY <2>1, EmptySeq DEF reproduceVars
  <2> QED
    BY <2>1, <2>2, <2>3, OwnParts DEF kubeVars, reproduceVars, AsksForCurrent
<1> QED
  BY <1>3, <1>4, <1>5, <1>6, <1>7, <1>8, <1>10, <1>11, <1>12, <1>13, <1>14, <1>15 DEF ReproduceStep

\* Which command runs never changes.
LEMMA SameCommand == [Next]_vars => command' = command
BY DEF Next, Goroutine, ClientStep, Controllers, Pushes, Connects, Chance, AfterExit, vars,
       commandVars, OfCluster, OfImpersonate, OfReproduce, OfLatency, OfStartup

\* The steps there are while a cluster is reproduced
LEMMA OwnNextSteps ==
    ASSUME [Next]_vars, command = "reproduce"
    PROVE  \/ \E p \in Procs : Call(p) /\ UNCHANGED <<lifeVars, commandVars>>
           \/ \E p \in Procs : ReproduceStep(p)
           \/ \E n \in Namespaces : FinishDeletion(n) /\ UNCHANGED <<lifeVars, commandVars>>
           \/ OthersCreate /\ UNCHANGED command
           \/ phase = "exited" /\ \E p \in Procs : Lands(p)
           \/ UNCHANGED <<kubeVars, commandVars>> /\ (phase' = phase \/ StopWaiting)
BY DEF Next, Goroutine, ClientStep, Controllers, Pushes, Connects, Chance, AfterExit, vars, baseVars,
       OfCluster, OfImpersonate, OfReproduce, OfLatency, OfStartup, Signal, StopWaiting, ClientReturns,
       lifeVars

\* A request of main's is over before the program exits.
LEMMA NothingLands ==
    ASSUME TypeInv, OwnInv, command = "reproduce", phase = "exited", NEW p \in Procs
    PROVE  ~Lands(p)
BY DEF TypeInv, ReproduceInv, OwnInv, OnlyMainAsks, Lands, Calling, Calls

LEMMA OwnNext ==
    ASSUME TypeInv, OwnInv, [Next]_vars
    PROVE  OwnInv'
<1>1. command' = command
  BY SameCommand
<1>2. CASE command # "reproduce"
  BY <1>1, <1>2 DEF OwnInv
<1>3. CASE command = "reproduce"
  <2>1. ASSUME NEW p \in Procs, Call(p), UNCHANGED <<lifeVars, commandVars>> PROVE OwnInv'
    BY <1>3, <2>1, OwnCallKeeps
  <2>2. CASE \E p \in Procs : ReproduceStep(p)
    BY <1>1, <1>3, <2>2, OwnSteps
  <2>3. ASSUME NEW n \in Namespaces, FinishDeletion(n), UNCHANGED <<lifeVars, commandVars>>
        PROVE  OwnInv'
    BY <1>3, <2>3, OwnOutside DEF FinishDeletion, lifeVars, commandVars
  <2>4. CASE OthersCreate /\ UNCHANGED command
    BY <1>3, <2>4, OwnOutside DEF OthersCreate, lifeVars
  <2>5. CASE phase = "exited" /\ \E p \in Procs : Lands(p)
    BY <1>3, <2>5, NothingLands
  <2>6. CASE UNCHANGED <<kubeVars, commandVars>> /\ (phase' = phase \/ StopWaiting)
    <3>1. UNCHANGED <<obj, dying, req, unsure, sims, skipCleanup>>
      BY <2>6 DEF kubeVars, commandVars, reproduceVars
    <3>2. phase' = phase \/ (phase = "waiting" /\ phase' = "cleaning")
      BY <2>6 DEF StopWaiting
    <3>3. req["main"].at # "none" => phase # "waiting"
      BY <1>3 DEF TypeInv, ReproduceInv
    <3>4. AsksForCurrent'
      BY <1>3, <3>1, <3>2, <3>3 DEF OwnInv, AsksForCurrent, Current
    <3>5. \A a \in 1..Len(sims') : Held(a)' => Held(a)
      BY <3>1, <3>2, <3>3 DEF Held, IsClient
    <3> QED
      BY <1>1, <1>3, <3>1, <3>2, <3>4, <3>5, OwnParts
  <2> QED
    BY <1>3, <2>1, <2>2, <2>3, <2>4, <2>5, <2>6, OwnNextSteps
<1> QED
  BY <1>2, <1>3

LEMMA OwnInvariant == Spec => [](TypeInv /\ OwnInv)
<1> QED
  BY InitTyped, NextTyped, OwnInit, OwnNext, PTL DEF Spec

\* An object of somebody else's that a step takes away, or whose deletion it begins
LEMMA OwnStep ==
    ASSUME TypeInv, OwnInv, [Next]_vars, command = "reproduce",
           NEW o \in Objects, obj[o] = "others", obj'[o] = "absent" \/ o \in dying'
    PROVE  o \in unsure \/ {o, NsOf[o]} \cap dying # {}
<1>1. KubeInv /\ ReproduceInv /\ HeldIsOurs
  BY DEF TypeInv, OwnInv
<1> SUFFICES ASSUME o \notin dying, NsOf[o] \notin dying PROVE o \in unsure
  OBVIOUS
<1>2. ASSUME NEW p \in Procs, Call(p), UNCHANGED <<lifeVars, commandVars>> PROVE o \in unsure
  <2> DEFINE last == Len(sims)
  <2>1. /\ p = "main" /\ last \in 1..last
        /\ req[p].o = ObjectOf(last) /\ req[p].o \in Objects
        /\ ~IsClient(sims[last]) /\ sims[last] \notin skipCleanup
        /\ \/ phase = "running" /\ req[p].op = "create" /\ req[p].at = "create"
           \/ phase = "cleaning" /\ req[p].op = "delete" /\ req[p].at = "delete"
        /\ Accepted(p) \/ Refused(p) \/ QuotaExceeded(p) \/ RequestFails(p) \/ AnswerLost(p)
    BY <1>2, OwnCall
  <2>2. req[p].o = o /\ req[p].at = "delete"
    BY <1>1, <2>1
    DEF Accepted, Refused, QuotaExceeded, RequestFails, AnswerLost, Effect, Possible, There,
        KubeInv, KubeTypeOK
  <2>3. Held(last)
    BY <2>1, <2>2 DEF Held
  <2> QED
    BY <1>1, <2>1, <2>2, <2>3 DEF HeldIsOurs
<1>3. ASSUME NEW n \in Namespaces, FinishDeletion(n) PROVE FALSE
  BY <1>3 DEF FinishDeletion
<1>4. ~OthersCreate
  BY <1>1 DEF OthersCreate, There, KubeInv, KubeTypeOK
<1>5. ~UNCHANGED <<obj, dying>>
  OBVIOUS
<1>6. ASSUME NEW p \in Procs, ReproduceStep(p) PROVE FALSE
  <2>1. UNCHANGED <<obj, dying>>
    BY <1>6 DEF ReproduceStep, ParseFails, SkipItem, RunItem, CreateItem, ItemCreated,
         ReproduceReturns, UndoSkipped, UndoCreated, Undone, UndoClient, ClientUndone, ReproduceExits,
         Ask, Forget, baseVars, kubeVars
  <2> QED
    BY <1>5, <2>1
<1>7. ~UNCHANGED kubeVars
  BY <1>5 DEF kubeVars
<1> QED
  BY <1>2, <1>3, <1>4, <1>6, <1>7, NothingLands, OwnNextSteps

\* Reproducing a cluster deletes no object that somebody else made, except one
\* whose creation failed with an error, and what is in a namespace that goes:
\* for any dump, any number of failures, and whatever others create meanwhile.
THEOREM ReproduceDeletesOwn == Spec => DeletesOnlyItsOwn
<1> DEFINE A == \A o \in Objects :
                  /\ command = "reproduce" /\ obj[o] = "others"
                  /\ obj'[o] = "absent" \/ o \in dying'
                  => o \in unsure \/ {o, NsOf[o]} \cap dying # {}
<1>1. TypeInv /\ OwnInv /\ [Next]_vars => [A]_vars
  BY OwnStep
<1>2. Spec => [][A]_vars
  BY <1>1, OwnInvariant, PTL DEF Spec
<1> QED
  BY <1>2 DEF DeletesOnlyItsOwn
=============================================================================
