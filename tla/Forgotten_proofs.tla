-------------------------- MODULE Forgotten_proofs --------------------------
(***************************************************************************)
(* Proof about Commands, for any objects, goroutines and configurations:   *)
(* the program forgets at most one object for a call that fails.           *)
(*                                                                         *)
(* What is forgotten grows when a goroutine gives up, which may be several *)
(* steps after the call that failed.  So for each command a larger set is  *)
(* followed, of what is or will be forgotten unless a retry succeeds: it   *)
(* grows in the step of the failure, and by one object.                    *)
(***************************************************************************)
EXTENDS Commands_proofs

USE KubeAssumption
-----------------------------------------------------------------------------
(* The commands other than cluster *)

\* reproduce: a simulation that Cleanup will delete stands for each object of ours;
\* what is about to be created, or was found, is not ours.
RememberedBySims ==
    command = "reproduce" /\ phase \in {"running", "waiting"} =>
       /\ \A o \in Ours : \E a \in 1..Len(sims) : ObjectOf(a) = o /\ sims[a] \notin skipCleanup
       /\ req["main"].at \in {"create", "exists"} => Docs[Current].o \notin Ours

\* latency: no configuration but that of the round is there, and that one is not
\* before it is applied and after its deletion has succeeded.
OneConfiguration ==
    command = "latency" =>
       /\ OnlyMainAsks
       /\ req["main"].at # "none" =>
             /\ req["main"].o = Cfg
             /\ \/ stage = "applied" /\ req["main"].op = "apply"
                \/ stage \in {"deleted", "defer"} /\ req["main"].op = "delete"
       /\ \A i \in DOMAIN Entries \ {round} : ~There(Entries[i])
       /\ stage \in {"apply", "awaitDeleted"} \/ (stage = "deleted" /\ req["main"].at = "ok") =>
             ~There(Cfg)

\* startup: a worker asks for its pod, which is not there before it is created and
\* after its deletion has succeeded.
PodOfItsOwn(w) ==
    /\ req[w].at # "none" =>
          /\ doing[w] \in {"apply", "delete"}
          /\ req[w].op = doing[w] /\ req[w].o = PodOf(w)
    /\ req[w].at \notin {"status", "exists"}
    /\ \/ doing[w] = "apply" /\ req[w].at \in {"get", "create", "update"}
       \/ doing[w] = "delete" /\ req[w].at = "ok"
       => ~There(PodOf(w))
    /\ \A i \in DOMAIN PodsOf[w] :
          i > turn[w] \/ (i = turn[w] /\ doing[w] \in {"none", "loop"}) => ~There(PodsOf[w][i])

\* A worker holds its pod unless its last request failed.
Holds(w) == doing[w] \in {"apply", "poll", "delete"} /\ req[w].at # "failed"
LostByWorkers == {o \in Ours \cap StartupPods : \A w \in Workers : Holds(w) => PodOf(w) # o}

AtMost(S, n) == IsFiniteSet(S) /\ Cardinality(S) <= n

WorkersInv ==
    command = "startup" =>
       /\ \A p \in Procs \ Workers : req[p].at = "none"
       /\ \A w \in Workers : PodOfItsOwn(w)
       /\ AtMost(LostByWorkers, faults)
-----------------------------------------------------------------------------
(* The cluster simulation, until it cleans up *)

OfPods == {pods[i] : i \in DOMAIN pods}
Resting == {"idle", "done"}

\* Cluster.Run is before or after the application, or the goroutines that start the
\* application's simulations run; the scaler runs after Run only.
StagesInv ==
    /\ at["space"] = "idle" /\ at["nodes"] = "idle"
    /\ \A q \in AppSims : at[q] \in {"begin", "create", "make", "start", "failed"} \cup Resting
    /\ \A p \in PodNames : at[p] \in {"make", "start"} => p \in created
    /\ phase = "running" =>
          /\ at["scaler"] = "idle"
          /\ \A q \in AppSims : at[q] \notin Resting =>
                q \in GetSims /\ next <= Len(RunOrder) /\ RunOrder[next] = "app"
    /\ phase = "waiting" => \A q \in AppSims : at[q] \in Resting
    /\ at["scaler"] \in {"idle", "on", "refresh", "begin", "create", "make", "start",
                         "delete", "deleting", "close", "wait"}
    /\ at["scaler"] \notin {"idle", "on", "refresh"} =>
          swap.new \in OfPods /\ swap.new \in PodNames /\ swap.old \in PodNames
    /\ at["scaler"] = "create" => left["scaler"] < PodAttempts

\* Requests for pods are made by the goroutines that run or refresh them.
RequestFits(q) ==
    req[q].at # "none" =>
       \/ q \in PodNames /\ at[q] = "create" /\ req[q].op = "ssa" /\ req[q].o = q
       \/ q = "scaler" /\ at[q] = "create" /\ req[q].op = "ssa" /\ req[q].o = swap.new
       \/ q = "scaler" /\ at[q] = "deleting" /\ req[q].op = "delete" /\ req[q].o = swap.old
       \/ /\ req[q].op # "delete" /\ req[q].o \notin PodNames
          /\ q \notin PodNames /\ (q = "scaler" => at[q] = "refresh")

\* No namespace goes before the cleanup.
SpacesInv ==
    /\ dying = {}
    /\ \A p \in PodNames : There(p) /\ NsOf[p] # None => There(NsOf[p])

\* Failed attempts of the scaler to create its new pod
Failures ==
    IF at["scaler"] = "create" /\ req["scaler"].at # "ok"
    THEN PodAttempts - 1 - left["scaler"] + (IF req["scaler"].at = "failed" THEN 1 ELSE 0)
    ELSE 0

\* A pod in the list whose field created is set or may still be; a pod that is
\* removed and will be deleted.  After one failure the scaler may leave the removed
\* pod behind, after a second one the new pod, which is not marked as created though
\* it may be there.
Safe(p) ==
    \/ /\ p \in OfPods
       /\ \/ p \in created \/ at[p] \notin Resting
          \/ p = swap.new /\ at["scaler"] \in {"begin", "create"} /\ Failures < 2
    \/ /\ p = swap.old /\ p \in created
       /\ \/ at["scaler"] \in {"begin", "create", "make", "start", "delete"} /\ Failures = 0
          \/ at["scaler"] = "deleting" /\ req["scaler"].at = "delete"

LostByScaler == {p \in Ours \cap PodNames : ~Safe(p)}

ScalerInv ==
    command = "cluster" /\ phase \in {"running", "waiting"} =>
       /\ StagesInv
       /\ \A q \in Procs : RequestFits(q)
       /\ SpacesInv
       /\ AtMost(LostByScaler, faults)
-----------------------------------------------------------------------------
(* Counting, and what a call does *)

LEMMA AtMostShrinks ==
    ASSUME NEW S, NEW T, NEW n \in Nat, AtMost(S, n), T \subseteq S
    PROVE  AtMost(T, n)
BY FS_Subset, FS_CardinalityType DEF AtMost

LEMMA AtMostGrows ==
    ASSUME NEW S, NEW T, NEW n \in Nat, AtMost(S, n), NEW x, T \subseteq S \cup {x}
    PROVE  AtMost(T, n + 1)
<1>1. AtMost(S \cup {x}, n + 1)
  <2>1. IsFiniteSet(S) /\ Cardinality(S) \in Nat /\ Cardinality(S) <= n
    BY FS_CardinalityType DEF AtMost
  <2>2. IsFiniteSet(S \cup {x}) /\ Cardinality(S \cup {x}) \in {Cardinality(S), Cardinality(S) + 1}
    BY <2>1, FS_AddElement
  <2> QED
    BY <2>1, <2>2 DEF AtMost
<1> QED
  BY <1>1, AtMostShrinks

LEMMA NothingLost == \A n \in Nat : AtMost({}, n)
BY FS_EmptySet DEF AtMost

\* A call is one of a request, and changes its object only.
LEMMA CallFrame ==
    ASSUME KubeInv, NEW p \in Procs, Call(p)
    PROVE  /\ KubeInv'
           /\ req[p].at # "none" /\ req'[p].at # "none"
           /\ req'[p].op = req[p].op /\ req'[p].o = req[p].o /\ req[p].o \in Objects
           /\ req[p].op \in Operations
           /\ req[p].at \in CallsOf(req[p].op) \ Answers /\ req'[p].at \in CallsOf(req[p].op)
           /\ \A q \in Procs \ {p} : req'[q] = req[q]
           /\ \A x \in Objects \ {req[p].o} : obj'[x] = obj[x]
           /\ faults \in Nat /\ faults' \in {faults, faults + 1}
<1>1. KubeInv' /\ req[p].at # "none" /\ \A q \in Procs \ {p} : req'[q] = req[q]
  BY CallTyped
<1>2. req[p].op \in Operations /\ req[p].o \in Objects /\ req[p].at \in CallsOf(req[p].op)
  BY <1>1, Requesting
<1>3. req[p].at \in Calls
  BY DEF Call, Get, Accepted, Refused, QuotaExceeded, Conflict, RequestFails, AnswerLost, Calling,
         Calls, Answered
<1>4. req'[p].op = req[p].op /\ req'[p].o = req[p].o /\ req'[p].at # "none"
  <2>1. ASSUME NEW a, a # "none", Proceed(p, a)
        PROVE  req'[p].op = req[p].op /\ req'[p].o = req[p].o /\ req'[p].at # "none"
    BY <2>1, ReqTyped DEF Proceed
  <2>2. AfterCall(p) # "none" /\ Refusal(p) # "none"
    BY DEF AfterCall, Refusal
  <2>3. CASE Conflict(p) /\ req' = [req EXCEPT ![p].tries = @ + 1]
    BY <1>1, <2>3, ReqTyped DEF Requests
  <2> QED
    BY <2>1, <2>2, <2>3
    DEF Call, Get, Accepted, Refused, QuotaExceeded, Conflict, RequestFails, AnswerLost
<1>5. req'[p].at \in CallsOf(req[p].op)
  BY <1>1, <1>4, Requesting DEF KubeInv, ReqOK, NoRequest
<1>6. \A x \in Objects \ {req[p].o} : obj'[x] = obj[x]
  BY DEF KubeInv, KubeTypeOK, Effect,
         Call, Get, Accepted, Refused, QuotaExceeded, Conflict, RequestFails, AnswerLost
<1>7. faults \in Nat /\ faults' \in {faults, faults + 1}
  BY DEF KubeInv, KubeTypeOK, Fault,
         Call, Get, Accepted, Refused, QuotaExceeded, Conflict, RequestFails, AnswerLost
<1> QED
  BY <1>1, <1>2, <1>3, <1>4, <1>5, <1>6, <1>7 DEF Calls, Answers

\* What the answers to a deletion and to a server-side apply tell
LEMMA DeleteCall ==
    ASSUME KubeInv, NEW p \in Procs, Call(p), req[p].op = "delete", req[p].o \notin Namespaces
    PROVE  /\ req[p].at = "delete" /\ req'[p].at \in {"ok", "failed"}
           /\ dying' = dying
           /\ obj'[req[p].o] \in {obj[req[p].o], "absent"}
           /\ req'[p].at = "ok" => obj'[req[p].o] = "absent"
           /\ req'[p].at = "failed" => faults' = faults + 1
<1>1. req[p].at = "delete" /\ req[p].o \in Objects
  BY CallFrame DEF CallsOf, Answers
<1>2. \A a : Proceed(p, a) => req'[p].at = a
  BY ReqTyped DEF Proceed
<1>3. Accepted(p) \/ Refused(p) \/ RequestFails(p) \/ AnswerLost(p)
  BY <1>1 DEF Call, Get, QuotaExceeded, Conflict, Answered
<1> QED
  BY <1>1, <1>2, <1>3
  DEF KubeInv, KubeTypeOK, Accepted, Refused, RequestFails, AnswerLost, AfterCall, Refusal, Effect,
      Fault, Possible, There, Answered

LEMMA PatchCall ==
    ASSUME KubeInv, NEW p \in Procs, Call(p), req[p].op = "ssa"
    PROVE  /\ req[p].at = "patch" /\ req'[p].at \in {"ok", "failed"}
           /\ dying' = dying
           /\ obj'[req[p].o] # obj[req[p].o] => MayCreate(req[p].o)
           /\ \/ req'[p].at = "ok"
              \/ req'[p].at = "failed" /\ faults' = faults + 1
              \/ req'[p].at = "failed" /\ UNCHANGED obj /\ ~There(req[p].o) /\ ~MayCreate(req[p].o)
<1>1. req[p].at = "patch" /\ req[p].o \in Objects
  BY CallFrame DEF CallsOf, Answers
<1>2. \A a : Proceed(p, a) => req'[p].at = a
  BY ReqTyped DEF Proceed
<1>3. Accepted(p) \/ Refused(p) \/ RequestFails(p) \/ AnswerLost(p)
  BY <1>1 DEF Call, Get, QuotaExceeded, Conflict, Answered
<1> QED
  BY <1>1, <1>2, <1>3
  DEF KubeInv, KubeTypeOK, Accepted, Refused, RequestFails, AnswerLost, AfterCall, Refusal, Effect,
      Fault, Possible, There, Answered

LEMMA CreateCall ==
    ASSUME KubeInv, NEW p \in Procs, Call(p), req[p].op = "create"
    PROVE  /\ req[p].at = "create"
           /\ req'[p].at \in {"ok", "failed"} \/ (req'[p].at = "exists" /\ UNCHANGED obj)
<1>1. req[p].at = "create" /\ req[p].o \in Objects
  BY CallFrame DEF CallsOf, Answers
<1>2. \A a : Proceed(p, a) => req'[p].at = a
  BY ReqTyped DEF Proceed
<1>3. Accepted(p) \/ Refused(p) \/ QuotaExceeded(p) \/ RequestFails(p) \/ AnswerLost(p)
  BY <1>1 DEF Call, Get, Conflict, Answered
<1> QED
  BY <1>1, <1>2, <1>3
  DEF Accepted, Refused, QuotaExceeded, RequestFails, AnswerLost, AfterCall, Refusal, Answered
-----------------------------------------------------------------------------
(* Reproducing a cluster *)

LEMMA SimsRemember ==
    ASSUME TypeInv, OwnInv, RememberedBySims, [Next]_vars
    PROVE  RememberedBySims'
<1>0. KubeInv /\ ReproduceInv
  BY DEF TypeInv
<1> SUFFICES ASSUME command = "reproduce", UNCHANGED command, phase' \in {"running", "waiting"}
             PROVE  RememberedBySims'
  BY SameCommand DEF RememberedBySims
<1>1. ASSUME phase \in {"running", "waiting"}
      PROVE  /\ \A o \in Ours : \E a \in 1..Len(sims) : ObjectOf(a) = o /\ sims[a] \notin skipCleanup
             /\ req["main"].at \in {"create", "exists"} => Docs[Current].o \notin Ours
  BY <1>1 DEF RememberedBySims
<1>2. "main" \in Procs /\ NoRequest.at = "none" /\ Len(sims) \in Nat
  BY <1>0, ProcsTyped DEF NoRequest, ReproduceInv, SimsInv
<1>3. ASSUME UNCHANGED <<sims, skipCleanup>>, Ours' \subseteq Ours, phase \in {"running", "waiting"},
             req'["main"].at = req["main"].at \/ req'["main"].at = "none"
      PROVE  RememberedBySims'
  BY <1>1, <1>3 DEF RememberedBySims, ObjectOf, Current
<1>4. ASSUME NEW p \in Procs, Call(p), UNCHANGED <<lifeVars, commandVars>> PROVE RememberedBySims'
  <2> DEFINE o == req[p].o
  <2>1. /\ p = "main" /\ Len(sims) \in 1..Len(sims) /\ o = ObjectOf(Len(sims))
        /\ sims[Len(sims)] \notin skipCleanup
        /\ phase = "running" => req[p].op = "create"
        /\ phase \in {"running", "cleaning"}
    BY <1>4, OwnCall
  <2>2. UNCHANGED <<phase, sims, skipCleanup>> /\ phase = "running"
    BY <1>4, <2>1 DEF lifeVars, commandVars, reproduceVars
  <2>3. /\ \A x \in Objects \ {o} : obj'[x] = obj[x]
        /\ req[p].at = "create"
        /\ req'[p].at \in {"ok", "failed"} \/ (req'[p].at = "exists" /\ UNCHANGED obj)
    BY <1>0, <1>4, <2>1, <2>2, CallFrame, CreateCall
  <2>4. \A x \in Ours' : x \in Ours \/ x = ObjectOf(Len(sims))
    BY <2>1, <2>3 DEF Ours
  <2>5. \A x \in Ours' : \E a \in 1..Len(sims) : ObjectOf(a) = x /\ sims[a] \notin skipCleanup
    BY <1>1, <2>1, <2>2, <2>4
  <2>6. req'["main"].at \in {"create", "exists"} => Docs[Current].o \notin Ours'
    BY <1>1, <2>1, <2>2, <2>3 DEF Ours
  <2> QED
    BY <2>2, <2>5, <2>6 DEF RememberedBySims, ObjectOf, Current
<1>5. ASSUME NEW i \in Listed, RunItem(i) \/ CreateItem(i) PROVE RememberedBySims'
  <2>1. /\ UNCHANGED <<obj, phase, skipCleanup>> /\ phase = "running" /\ i \in Kept /\ i \in todo
        /\ req["main"].at = "none"
    BY <1>5 DEF RunItem, CreateItem, GetsTo, Kept, Ask, kubeVars, lifeVars, Free
  <2>2. /\ Len(sims') = Len(sims) + 1 /\ Current' = i
        /\ \A a \in 1..Len(sims) : sims'[a] = sims[a]
    BY <1>0, <1>5, <2>1, SimsGrow DEF RunItem, CreateItem, ReproduceInv
  <2>3. \A o \in Ours : \E a \in 1..Len(sims') :
           Docs[sims'[a]].o = o /\ sims'[a] \notin skipCleanup
    BY <1>1, <1>2, <2>1, <2>2 DEF ObjectOf
  <2>4. Docs[i].o \notin Ours
    <3>1. \A a \in 1..Len(sims) : sims[a] \in Listed /\ sims[a] # i
      BY <1>0, <2>1 DEF ReproduceInv, SimsInv, Kept
    <3>2. \A a \in 1..Len(sims) : ObjectOf(a) # Docs[i].o
      BY <3>1, ReproduceAssumption DEF ObjectOf
    <3> QED
      BY <1>1, <2>1, <3>2
  <2>5. Ours' = Ours
    BY <2>1 DEF Ours
  <2>6. \A o \in Ours' : \E a \in 1..Len(sims') : Docs[sims'[a]].o = o /\ sims'[a] \notin skipCleanup'
    BY <2>1, <2>3, <2>5
  <2>7. Docs[Current'].o \notin Ours'
    BY <2>2, <2>4, <2>5
  <2> HIDE DEF Current
  <2> QED
    BY <2>6, <2>7 DEF RememberedBySims, ObjectOf
<1>6. CASE ItemCreated
  <2>1. /\ UNCHANGED <<obj, phase, sims>> /\ phase = "running"
        /\ skipCleanup' = IF req["main"].at = "exists" THEN skipCleanup \cup {Current} ELSE skipCleanup
    BY <1>6 DEF ItemCreated, Forget, Answered, lifeVars
  <2>2. req'["main"].at = "none"
    BY <1>0, <1>2, <1>6, ForgetTyped DEF ItemCreated
  <2>3. \A o \in Ours : \E a \in 1..Len(sims) : ObjectOf(a) = o /\ sims[a] \notin skipCleanup'
    BY <1>1, <2>1 DEF ObjectOf
  <2> QED
    BY <2>1, <2>2, <2>3 DEF RememberedBySims, ObjectOf, Ours
<1>7. ASSUME NEW p \in Procs, ReproduceStep(p) PROVE RememberedBySims'
  <2>1. CASE \E i \in Listed : SkipItem(i)
    BY <1>3, <2>1 DEF SkipItem, GetsTo, baseVars, kubeVars, lifeVars, Ours
  <2>2. CASE ReproduceReturns
    BY <1>3, <2>2 DEF ReproduceReturns, RunReturns, kubeVars, reproduceVars, Ours
  <2>3. ~ParseFails /\ ~ReproduceExits
    BY DEF ParseFails, RunFails, ReproduceExits, Exit
  <2>4. ~UndoSkipped /\ ~UndoCreated /\ ~Undone /\ ~UndoClient /\ ~ClientUndone
    BY <1>0 DEF UndoSkipped, UndoCreated, Undone, UndoClient, ClientUndone, Cleaning, baseVars, lifeVars,
       ReproduceInv
  <2> QED
    BY <1>5, <1>6, <1>7, <2>1, <2>2, <2>3, <2>4 DEF ReproduceStep
<1>8. ASSUME NEW n \in Namespaces, FinishDeletion(n), UNCHANGED <<lifeVars, commandVars>>
      PROVE  RememberedBySims'
  BY <1>3, <1>8 DEF FinishDeletion, Ours, lifeVars, commandVars, reproduceVars
<1>9. CASE OthersCreate
  <2>1. Ours' \subseteq Ours
    BY <1>0, <1>9 DEF OthersCreate, Ours, KubeInv, KubeTypeOK
  <2> QED
    BY <1>3, <1>9, <2>1 DEF OthersCreate, lifeVars, reproduceVars
<1>10. CASE UNCHANGED <<kubeVars, commandVars>> /\ (phase' = phase \/ StopWaiting)
  BY <1>3, <1>10 DEF StopWaiting, kubeVars, commandVars, reproduceVars, Ours
<1> QED
  BY <1>4, <1>7, <1>8, <1>9, <1>10, NothingLands, OwnNextSteps
-----------------------------------------------------------------------------
(* The latency benchmark *)

LEMMA LatencyNextSteps ==
    ASSUME [Next]_vars, command = "latency"
    PROVE  \/ \E p \in Procs : LatencyCall(p)
           \/ \E p \in Procs : LatencyStep(p)
           \/ PushClusters \/ LatencyConnects \/ LatencyChance
           \/ \E n \in Namespaces : FinishDeletion(n) /\ UNCHANGED commandVars
           \/ \E p \in Procs : Lands(p) /\ UNCHANGED commandVars
           \/ UNCHANGED <<kubeVars, commandVars>>
BY DEF Next, Goroutine, ClientStep, Controllers, Pushes, Connects, Chance, AfterExit, vars, baseVars,
       OfCluster, OfImpersonate, OfReproduce, OfLatency, OfStartup, Signal, StopWaiting, ClientReturns

LEMMA ConfigurationStays ==
    ASSUME TypeInv, OneConfiguration, [Next]_vars
    PROVE  OneConfiguration'
<1>0. KubeInv /\ LatencyTypeOK
  BY DEF TypeInv
<1> SUFFICES ASSUME command = "latency", command' = "latency" PROVE OneConfiguration'
  BY SameCommand DEF OneConfiguration
<1> USE ProcsTyped
<1>1. /\ \A i \in DOMAIN Entries : Entries[i] \in Objects \ Namespaces
      /\ \A i, j \in DOMAIN Entries : Entries[i] = Entries[j] => i = j
      /\ round \in DOMAIN Entries
  BY <1>0, LatencyAssumption DEF LatencyTypeOK
<1>2. /\ OnlyMainAsks
      /\ req["main"].at # "none" =>
            /\ req["main"].o = Cfg
            /\ \/ stage = "applied" /\ req["main"].op = "apply"
               \/ stage \in {"deleted", "defer"} /\ req["main"].op = "delete"
      /\ \A i \in DOMAIN Entries \ {round} : ~There(Entries[i])
      /\ stage \in {"apply", "awaitDeleted"} \/ (stage = "deleted" /\ req["main"].at = "ok") =>
            ~There(Cfg)
  BY DEF OneConfiguration
<1>3. NoRequest.at = "none"
  BY DEF NoRequest
\* Nothing that matters changes.
<1>4. ASSUME UNCHANGED <<stage, round>>, \A p \in Procs : req'[p] = req[p],
             \A o \in Objects : obj'[o] \in {obj[o], "absent"}
      PROVE  OneConfiguration'
  <2>1. \A o \in Objects : ~There(o) => ~There(o)'
    BY <1>4 DEF There
  <2> QED
    BY <1>1, <1>2, <1>4, <2>1 DEF OneConfiguration, OnlyMainAsks, Cfg
\* A step of Run that makes a request, takes an answer or does neither
<1>5. ASSUME UNCHANGED <<round, obj>>, \A p \in Procs \ {"main"} : req'[p] = req[p],
             req'["main"].at # "none" =>
                /\ req'["main"].o = Cfg
                /\ \/ stage' = "applied" /\ req'["main"].op = "apply"
                   \/ stage' \in {"deleted", "defer"} /\ req'["main"].op = "delete",
             stage' \in {"apply", "awaitDeleted"} \/ (stage' = "deleted" /\ req'["main"].at = "ok") =>
                ~There(Cfg)
      PROVE  OneConfiguration'
  BY <1>1, <1>2, <1>5 DEF OneConfiguration, OnlyMainAsks, Cfg, There
<1>6. ASSUME NEW p \in Procs, LatencyCall(p) PROVE OneConfiguration'
  <2>1. /\ Call(p) /\ UNCHANGED <<stage, round>> /\ req[p].at # "none"
        /\ req'[p].op = req[p].op /\ req'[p].o = req[p].o /\ req'[p].at # "none"
        /\ \A q \in Procs \ {p} : req'[q] = req[q]
        /\ \A x \in Objects \ {req[p].o} : obj'[x] = obj[x]
    BY <1>0, <1>6, CallFrame DEF LatencyCall
  <2>2. p = "main" /\ req[p].o = Cfg
    BY <1>2, <2>1 DEF OnlyMainAsks
  <2>3. \A i \in DOMAIN Entries \ {round} : ~There(Entries[i])'
    BY <1>1, <1>2, <2>1, <2>2 DEF There, Cfg
  <2>4. stage = "deleted" /\ req'["main"].at = "ok" => ~There(Cfg)'
    BY <1>0, <1>1, <1>2, <2>1, <2>2, DeleteCall DEF There, Cfg
  <2>5. stage \notin {"apply", "awaitDeleted"}
    BY <1>2, <2>1, <2>2
  <2> QED
    BY <1>2, <2>1, <2>2, <2>3, <2>4, <2>5 DEF OneConfiguration, OnlyMainAsks, Cfg
<1>7. ASSUME NEW p \in Procs, Lands(p), UNCHANGED commandVars PROVE OneConfiguration'
  <2>1. /\ req' = [req EXCEPT ![p] = NoRequest] /\ UNCHANGED <<stage, round>>
        /\ req[p].at # "none"
    BY <1>7 DEF Lands, Calling, Calls, commandVars, latencyVars
  <2>2. p = "main" /\ req[p].o = Cfg /\ stage \notin {"apply", "awaitDeleted"}
    BY <1>2, <2>1 DEF OnlyMainAsks
  <2>3. req'["main"].at = "none" /\ \A q \in Procs \ {"main"} : req'[q] = req[q]
    BY <1>0, <1>3, <2>1, <2>2, ReqTyped
  <2>4. \A x \in Objects \ {Cfg} : obj'[x] = obj[x]
    BY <1>0, <1>7, <2>2 DEF Lands, Effect, KubeInv, KubeTypeOK
  <2>5. \A i \in DOMAIN Entries \ {round} : ~There(Entries[i])'
    BY <1>1, <1>2, <2>4 DEF There, Cfg
  <2> QED
    BY <1>2, <2>1, <2>2, <2>3, <2>5 DEF OneConfiguration, OnlyMainAsks, Cfg
<1>8. ASSUME Ask("main", "apply", Cfg), stage' = "applied", round' = round PROVE OneConfiguration'
  BY <1>0, <1>5, <1>8, ReqTyped DEF Ask, Sends, FirstCall
<1>9. ASSUME Ask("main", "delete", Cfg), stage' \in {"deleted", "defer"}, round' = round
      PROVE  OneConfiguration'
  BY <1>0, <1>5, <1>9, ReqTyped DEF Ask, Sends, FirstCall
<1>10. ASSUME Forget("main"), stage' # "apply", stage' = "awaitDeleted" => ~There(Cfg),
              round' = round
       PROVE  OneConfiguration'
  BY <1>0, <1>3, <1>5, <1>10, ReqTyped DEF Forget
<1>11. CASE TakeSecond
  <2>1. round' \in DOMAIN Entries
    BY NextTyped DEF TypeInv, LatencyTypeOK
  <2>2. UNCHANGED kubeVars /\ stage = "awaitDeleted" /\ stage' = "apply"
    BY <1>11 DEF TakeSecond, baseVars
  <2>3. \A i \in DOMAIN Entries : ~There(Entries[i])
    BY <1>2, <2>2 DEF Cfg
  <2> QED
    BY <1>2, <2>1, <2>2, <2>3 DEF OneConfiguration, OnlyMainAsks, Cfg, There, kubeVars
<1>12. ASSUME NEW p \in Procs, LatencyStep(p) PROVE OneConfiguration'
  <2>1. CASE ApplyConfig
    BY <1>8, <2>1 DEF ApplyConfig
  <2>2. CASE Applied
    BY <1>9, <1>10, <2>2 DEF Applied
  <2>3. CASE TakeOther
    BY <1>4, <2>3 DEF TakeOther, baseVars, kubeVars
  <2>4. CASE TakeFirst
    BY <1>9, <2>4 DEF TakeFirst
  <2>5. CASE Deleted
    BY <1>2, <1>9, <1>10, <2>5 DEF Deleted, Answered
  <2>6. CASE GiveUp
    BY <1>9, <2>6 DEF GiveUp
  <2>7. CASE Deferred
    BY <1>10, <2>7 DEF Deferred
  <2>8. CASE LatencyExits
    BY <1>4, <2>8 DEF LatencyExits, kubeVars, latencyVars
  <2> QED
    BY <1>11, <1>12, <2>1, <2>2, <2>3, <2>4, <2>5, <2>6, <2>7, <2>8 DEF LatencyStep
<1>13. CASE PushClusters \/ LatencyConnects \/ LatencyChance
  BY <1>4, <1>13
  DEF PushClusters, LatencyConnects, StreamOpens, StreamStops, LatencyChance, PushOther, StreamEnds,
      baseVars, kubeVars
<1>14. ASSUME NEW n \in Namespaces, FinishDeletion(n), UNCHANGED commandVars PROVE OneConfiguration'
  BY <1>4, <1>14 DEF FinishDeletion, commandVars, latencyVars
<1>15. CASE UNCHANGED <<kubeVars, commandVars>>
  BY <1>4, <1>15 DEF kubeVars, commandVars, latencyVars
<1> QED
  BY <1>6, <1>7, <1>12, <1>13, <1>14, <1>15, LatencyNextSteps
-----------------------------------------------------------------------------
(* The start-up benchmark *)

\* Applying an object without a status that is not there: it is created, or the
\* request fails, with the object there only when the answer was lost.
LEMMA ApplyCall ==
    ASSUME KubeInv, NEW p \in Procs, Call(p), req[p].op = "apply", req[p].o \notin HasStatus,
           req[p].at \in {"get", "create", "update"}, ~There(req[p].o)
    PROVE  /\ req'[p].at \in {"create", "update", "ok", "failed"}
           /\ req'[p].at \in {"create", "update"} => UNCHANGED obj
           /\ req'[p].at = "failed" => faults' = faults + 1 \/ UNCHANGED obj
<1>1. req[p].o \in Objects
  BY CallFrame
<1>2. \A a : Proceed(p, a) => req'[p].at = a
  BY ReqTyped DEF Proceed
<1>3. Get(p) \/ Accepted(p) \/ Refused(p) \/ RequestFails(p) \/ AnswerLost(p)
  BY DEF Call, QuotaExceeded, Conflict
<1> QED
  BY <1>1, <1>2, <1>3
  DEF Get, Accepted, Refused, RequestFails, AnswerLost, AfterCall, Refusal, Fault, Possible, Answered

LEMMA StartupNextSteps ==
    ASSUME [Next]_vars, command = "startup"
    PROVE  \/ \E p \in Procs : Call(p) /\ UNCHANGED commandVars
           \/ \E p \in Procs : StartupStep(p)
           \/ PodReady
           \/ \E n \in Namespaces : FinishDeletion(n) /\ UNCHANGED commandVars
           \/ \E p \in Procs : Lands(p) /\ UNCHANGED commandVars
           \/ UNCHANGED <<kubeVars, commandVars>>
BY DEF Next, Goroutine, ClientStep, Controllers, Pushes, Connects, Chance, AfterExit, vars, baseVars,
       OfCluster, OfImpersonate, OfReproduce, OfLatency, OfStartup, Signal, StopWaiting, ClientReturns

\* The pods of the workers are different objects, and no namespaces.
LEMMA PodsDiffer ==
    ASSUME StartupInv
    PROVE  /\ \A w \in Workers : \A i \in DOMAIN PodsOf[w] :
                 PodsOf[w][i] \in Objects \ (Namespaces \cup HasStatus)
           /\ \A w, v \in Workers : \A i \in DOMAIN PodsOf[w] : \A j \in DOMAIN PodsOf[v] :
                 PodsOf[w][i] = PodsOf[v][j] => w = v /\ i = j
           /\ \A w \in Workers : /\ turn[w] \in Nat \ {0} /\ DOMAIN PodsOf[w] = 1..Len(PodsOf[w])
                                 /\ Len(PodsOf[w]) \in Nat
           /\ \A w \in Workers : doing[w] \in {"apply", "poll", "delete", "report"} =>
                 turn[w] \in DOMAIN PodsOf[w]
<1>1. \A w \in Workers : PodsOf[w] \in Seq(Objects \ (Namespaces \cup HasStatus))
  BY StartupAssumption
<1>2. \A w \in Workers : /\ DOMAIN PodsOf[w] = 1..Len(PodsOf[w]) /\ Len(PodsOf[w]) \in Nat
                         /\ \A i \in DOMAIN PodsOf[w] :
                               PodsOf[w][i] \in Objects \ (Namespaces \cup HasStatus)
  BY <1>1
<1>3. \A w \in Workers :
         /\ turn[w] \in Nat \ {0}
         /\ doing[w] \in {"apply", "poll", "delete", "report"} => turn[w] <= Len(PodsOf[w])
  BY DEF StartupInv, StartupTypeOK
<1> QED
  BY <1>2, <1>3, StartupAssumption

LEMMA WorkersKeep ==
    ASSUME TypeInv, WorkersInv, [Next]_vars
    PROVE  WorkersInv'
<1>0. KubeInv /\ StartupInv /\ faults \in Nat
  BY DEF TypeInv, KubeInv, KubeTypeOK
<1> SUFFICES ASSUME command = "startup", command' = "startup" PROVE WorkersInv'
  BY SameCommand DEF WorkersInv
<1> USE ProcsTyped
<1>1. /\ \A p \in Procs \ Workers : req[p].at = "none"
      /\ \A w \in Workers : PodOfItsOwn(w)
      /\ AtMost(LostByWorkers, faults)
  BY DEF WorkersInv
<1>2. NoRequest.at = "none" /\ "main" \notin Workers
  BY StartupAssumption DEF NoRequest
<1>3. \A o \in Objects : obj'[o] \in {obj[o], "absent"} => (~There(o) => ~There(o)') /\ (o \in Ours' => o \in Ours)
  BY DEF There, Ours
\* Objects may go; workers do nothing.
<1>4. ASSUME UNCHANGED <<doing, turn, faults>>, \A p \in Procs : req'[p] = req[p],
             \A o \in Objects : obj'[o] \in {obj[o], "absent"}
      PROVE  WorkersInv'
  <2>1. \A w \in Workers : PodOfItsOwn(w)'
    BY <1>0, <1>1, <1>3, <1>4, PodsDiffer DEF PodOfItsOwn, PodOf
  <2>2. LostByWorkers' \subseteq LostByWorkers
    BY <1>3, <1>4 DEF LostByWorkers, Holds, PodOf, Ours
  <2> QED
    BY <1>0, <1>1, <1>4, <2>1, <2>2, AtMostShrinks DEF WorkersInv
\* One worker goes on, and does not let go of a pod that is there.
<1>5. ASSUME NEW w \in Workers, UNCHANGED obj, faults' \in {faults, faults + 1},
             \A v \in Workers \ {w} : doing'[v] = doing[v] /\ turn'[v] = turn[v],
             \A p \in Procs \ {w} : req'[p] = req[p],
             PodOfItsOwn(w)',
             Holds(w) /\ PodOf(w) \in Ours => Holds(w)' /\ PodOf(w)' = PodOf(w)
      PROVE  WorkersInv'
  <2>1. \A v \in Workers \ {w} : PodOfItsOwn(v)' /\ Holds(v)' = Holds(v) /\ PodOf(v)' = PodOf(v)
    BY <1>1, <1>5 DEF PodOfItsOwn, PodOf, There, Holds
  <2>2. LostByWorkers' \subseteq LostByWorkers
    <3> SUFFICES ASSUME NEW o \in LostByWorkers', NEW v \in Workers, Holds(v), PodOf(v) = o PROVE FALSE
      BY <1>5 DEF LostByWorkers, Ours
    <3>1. o \in Ours
      BY <1>5 DEF LostByWorkers, Ours
    <3>2. Holds(v)' /\ PodOf(v)' = o
      BY <1>5, <2>1, <3>1
    <3> QED
      BY <3>2 DEF LostByWorkers
  <2>3. AtMost(LostByWorkers', faults)
    BY <1>0, <1>1, <2>2, AtMostShrinks
  <2>4. AtMost(LostByWorkers', faults')
    BY <1>0, <1>5, <2>3, FS_CardinalityType DEF AtMost
  <2> QED
    BY <1>1, <1>5, <2>1, <2>4 DEF WorkersInv
\* The pod that a worker asks for changes: it is there after an answer only, and
\* lost with a failure only.
<1>6. ASSUME NEW p \in Workers, doing[p] \in {"apply", "delete"}, UNCHANGED <<doing, turn>>,
             \A q \in Procs \ {p} : req'[q] = req[q],
             \A x \in Objects \ {PodOf(p)} : obj'[x] = obj[x],
             faults' \in {faults, faults + 1},
             req'[p].at # "none" => req'[p].op = doing[p] /\ req'[p].o = PodOf(p),
             req'[p].at \notin {"status", "exists"},
             \/ doing[p] = "apply" /\ req'[p].at \in {"get", "create", "update"}
             \/ doing[p] = "delete" /\ req'[p].at = "ok"
             => obj'[PodOf(p)] = "absent",
             obj'[PodOf(p)] = "ours" /\ req'[p].at = "failed" => faults' = faults + 1
      PROVE  WorkersInv'
  <2> DEFINE o == PodOf(p)
  <2>1. /\ turn[p] \in DOMAIN PodsOf[p] /\ o' = o
        /\ \A v \in Workers : \A i \in DOMAIN PodsOf[v] :
              PodsOf[v][i] \in Objects /\ (PodsOf[v][i] = o => v = p /\ i = turn[p])
    BY <1>0, <1>6, PodsDiffer DEF PodOf
  <2>2. PodOfItsOwn(p)'
    <3>1. \A i \in DOMAIN PodsOf[p] : i > turn[p] => PodsOf[p][i] # o /\ PodsOf[p][i] \in Objects
      BY <1>0, <2>1, PodsDiffer
    <3>2. \A i \in DOMAIN PodsOf[p] : i > turn[p] => ~There(PodsOf[p][i])'
      BY <1>1, <1>6, <3>1 DEF PodOfItsOwn, There
    <3> QED
      BY <1>6, <3>2 DEF PodOfItsOwn, PodOf, There
  <2>3. ASSUME NEW w \in Workers \ {p} PROVE PodOfItsOwn(w)'
    <3>1. \A i \in DOMAIN PodsOf[w] : obj'[PodsOf[w][i]] = obj[PodsOf[w][i]]
      BY <1>6, <2>1
    <3>2. doing[w] \in {"apply", "delete"} => turn[w] \in DOMAIN PodsOf[w]
      BY <1>0, PodsDiffer
    <3> QED
      BY <1>1, <1>6, <3>1, <3>2 DEF PodOfItsOwn, PodOf, There
  <2>4. ASSUME NEW x \in LostByWorkers', x # o PROVE x \in LostByWorkers
    <3>1. x \in Ours /\ x \in StartupPods
      BY <1>6, <2>4 DEF LostByWorkers, Ours
    <3>2. \A w \in Workers : Holds(w) /\ PodOf(w) = x => w # p /\ Holds(w)' /\ PodOf(w)' = x
      BY <1>6, <2>4 DEF Holds, PodOf
    <3> QED
      BY <3>1, <3>2 DEF LostByWorkers
  <2>5. o \in LostByWorkers' => faults' = faults + 1
    <3>1. o \in LostByWorkers' => o \in Ours' /\ ~Holds(p)'
      BY <2>1 DEF LostByWorkers
    <3> QED
      BY <1>6, <3>1 DEF Holds, Ours
  <2>6. AtMost(LostByWorkers', faults')
    <3> HIDE DEF o
    <3>1. CASE faults' = faults + 1
      BY <1>0, <1>1, <2>4, <3>1, AtMostGrows
    <3>2. CASE faults' = faults
      BY <1>0, <1>1, <2>4, <2>5, <3>2, AtMostShrinks
    <3> QED
      BY <1>6, <3>1, <3>2
  <2> QED
    BY <1>1, <1>6, <2>2, <2>3, <2>6 DEF WorkersInv
\* Who asks, and for what
<1>7. ASSUME NEW p \in Procs, req[p].at # "none"
      PROVE  /\ p \in Workers /\ doing[p] \in {"apply", "delete"}
             /\ req[p].op = doing[p] /\ req[p].o = PodOf(p)
             /\ PodOf(p) \in Objects \ (Namespaces \cup HasStatus)
             /\ req[p].at \notin {"status", "exists"}
             /\ doing[p] = "apply" /\ req[p].at \in {"get", "create", "update"} => ~There(PodOf(p))
  BY <1>0, <1>1, <1>7, PodsDiffer DEF PodOfItsOwn, PodOf
<1>8. ASSUME NEW p \in Procs, Call(p), UNCHANGED commandVars PROVE WorkersInv'
  <2> DEFINE o == PodOf(p)
  <2>1. /\ req[p].at # "none"
        /\ req'[p].op = req[p].op /\ req'[p].o = req[p].o
        /\ req[p].at \in CallsOf(req[p].op) \ Answers
        /\ \A q \in Procs \ {p} : req'[q] = req[q]
        /\ \A x \in Objects \ {req[p].o} : obj'[x] = obj[x]
        /\ faults' \in {faults, faults + 1}
    BY <1>0, <1>8, CallFrame
  <2>2. /\ p \in Workers /\ doing[p] \in {"apply", "delete"} /\ req[p].op = doing[p] /\ req[p].o = o
        /\ o \in Objects \ (Namespaces \cup HasStatus)
        /\ req[p].at \notin {"status", "exists"}
        /\ doing[p] = "apply" /\ req[p].at \in {"get", "create", "update"} => ~There(o)
    BY <1>7, <2>1
  <2>3. UNCHANGED <<doing, turn>>
    BY <1>8 DEF commandVars, startupVars
  <2> HIDE DEF o
  <2>4. /\ req'[p].at \notin {"status", "exists"}
        /\ \/ doing[p] = "apply" /\ req'[p].at \in {"get", "create", "update"}
           \/ doing[p] = "delete" /\ req'[p].at = "ok"
           => obj'[o] = "absent"
        /\ obj'[o] = "ours" /\ req'[p].at = "failed" => faults' = faults + 1
    <3>1. CASE doing[p] = "apply"
      <4>1. req[p].at \in {"get", "create", "update"}
        BY <2>1, <2>2, <3>1 DEF CallsOf
      <4>2. ~There(o)
        BY <2>2, <3>1, <4>1
      <4>3. /\ req'[p].at \in {"create", "update", "ok", "failed"}
            /\ req'[p].at \in {"create", "update"} => UNCHANGED obj
            /\ req'[p].at = "failed" => faults' = faults + 1 \/ UNCHANGED obj
        BY <1>0, <1>8, <2>2, <3>1, <4>1, <4>2, ApplyCall
      <4> QED
        BY <3>1, <4>2, <4>3 DEF There
    <3>2. CASE doing[p] = "delete"
      BY <1>0, <1>8, <2>2, <3>2, DeleteCall
    <3> QED
      BY <2>2, <3>1, <3>2
  <2> QED
    BY <1>6, <2>1, <2>2, <2>3, <2>4 DEF o
<1>9. ASSUME NEW p \in Procs, Lands(p), UNCHANGED commandVars PROVE WorkersInv'
  <2>1. /\ req' = [req EXCEPT ![p] = NoRequest] /\ UNCHANGED <<doing, turn, faults>>
        /\ req[p].at # "none"
    BY <1>9 DEF Lands, Calling, Calls, commandVars, startupVars
  <2>2. req'[p].at = "none" /\ \A q \in Procs \ {p} : req'[q] = req[q]
    BY <1>0, <1>2, <2>1, ReqTyped
  <2>3. \A x \in Objects \ {req[p].o} : obj'[x] = obj[x]
    BY <1>0, <1>9 DEF Lands, Effect, KubeInv, KubeTypeOK
  <2> QED
    BY <1>6, <1>7, <2>1, <2>2, <2>3
<1>10. ASSUME NEW w \in Workers, StartupStep(w), w # "main" PROVE WorkersInv'
  <2>0. /\ turn[w] \in Nat \ {0} /\ DOMAIN PodsOf[w] = 1..Len(PodsOf[w]) /\ Len(PodsOf[w]) \in Nat
        /\ doing \in [Workers -> {"none", "loop", "apply", "poll", "delete", "report", "over"}]
        /\ turn \in [Workers -> Nat \ {0}]
        /\ w \in Procs /\ PodOfItsOwn(w)
    BY <1>0, <1>1, PodsDiffer DEF StartupInv, StartupTypeOK
  <2>1. CASE WorkerStarts(w)
    <3>1. /\ doing' = [doing EXCEPT ![w] = "apply"] /\ UNCHANGED <<obj, faults, turn>>
          /\ doing[w] = "loop" /\ turn[w] \in DOMAIN PodsOf[w]
      BY <2>0, <2>1 DEF WorkerStarts, Does, Ask
    <3>2. /\ req'[w].op = "apply" /\ req'[w].at = "get" /\ req'[w].o = PodOf(w)
          /\ \A p \in Procs \ {w} : req'[p] = req[p]
      BY <1>0, <2>0, <2>1, ReqTyped DEF WorkerStarts, Ask, Sends, FirstCall
    <3>3. PodOfItsOwn(w)'
      BY <2>0, <3>1, <3>2 DEF PodOfItsOwn, PodOf, There
    <3> QED
      BY <1>5, <2>0, <3>1, <3>2, <3>3 DEF Holds
  <2>2. CASE WorkerEnds(w)
    <3>1. doing' = [doing EXCEPT ![w] = "over"] /\ UNCHANGED <<obj, faults, turn, req>> /\ doing[w] = "loop"
      BY <2>2 DEF WorkerEnds, Does, baseVars, kubeVars
    <3>2. PodOfItsOwn(w)'
      BY <2>0, <3>1 DEF PodOfItsOwn, PodOf, There
    <3> QED
      BY <1>5, <2>0, <3>1, <3>2 DEF Holds
  <2>3. CASE WorkerApplied(w)
    <3>1. /\ doing' = [doing EXCEPT ![w] = IF req[w].at = "ok" THEN "poll" ELSE "report"]
          /\ UNCHANGED <<obj, faults, turn>> /\ doing[w] = "apply" /\ req[w].at \in Answers
      BY <2>3 DEF WorkerApplied, Does, Forget, Answered
    <3>2. req'[w].at = "none" /\ \A p \in Procs \ {w} : req'[p] = req[p]
      BY <1>0, <1>2, <2>0, <2>3, ForgetTyped DEF WorkerApplied
    <3>3. PodOfItsOwn(w)'
      BY <2>0, <3>1, <3>2 DEF PodOfItsOwn, PodOf, There
    <3>4. Holds(w) => Holds(w)' /\ PodOf(w)' = PodOf(w)
      BY <2>0, <3>1, <3>2 DEF Holds, PodOfItsOwn, Answers, PodOf
    <3> QED
      BY <1>5, <2>0, <3>1, <3>2, <3>3, <3>4
  <2>4. CASE WorkerLooked(w)
    <3>1. /\ doing' = [doing EXCEPT ![w] = "delete"] /\ faults' \in {faults, faults + 1}
          /\ UNCHANGED <<obj, turn>> /\ doing[w] = "poll"
      BY <2>4 DEF WorkerLooked, Does
    <3>2. /\ req'[w].op = "delete" /\ req'[w].at = "delete" /\ req'[w].o = PodOf(w)
          /\ \A p \in Procs \ {w} : req'[p] = req[p]
      BY <1>0, <2>0, <2>4, ReqTyped DEF WorkerLooked, Sends, FirstCall
    <3>3. PodOfItsOwn(w)'
      BY <2>0, <3>1, <3>2 DEF PodOfItsOwn, PodOf, There
    <3> QED
      BY <1>5, <2>0, <3>1, <3>2, <3>3 DEF Holds, PodOf
  <2>5. CASE WorkerDeleted(w)
    <3>1. /\ doing' = [doing EXCEPT ![w] = "report"]
          /\ UNCHANGED <<obj, faults, turn>> /\ doing[w] = "delete" /\ req[w].at \in Answers
      BY <2>5 DEF WorkerDeleted, Does, Forget
    <3>2. req'[w].at = "none" /\ \A p \in Procs \ {w} : req'[p] = req[p]
      BY <1>0, <1>2, <2>0, <2>5, ForgetTyped DEF WorkerDeleted
    <3>3. PodOfItsOwn(w)'
      BY <2>0, <3>1, <3>2 DEF PodOfItsOwn, PodOf, There
    <3>4. ~(Holds(w) /\ PodOf(w) \in Ours)
      BY <2>0, <3>1 DEF Holds, PodOfItsOwn, Answers, There, Ours
    <3> QED
      BY <1>5, <2>0, <3>1, <3>2, <3>3, <3>4
  <2>6. CASE WorkerReports(w)
    <3>1. /\ UNCHANGED <<obj, faults, req>> /\ doing[w] = "report" /\ req[w].at = "none"
          /\ \/ doing' = [doing EXCEPT ![w] = "loop"] /\ turn' = [turn EXCEPT ![w] = turn[w] + 1]
             \/ doing' = [doing EXCEPT ![w] = "over"] /\ turn' = turn
      BY <2>0, <2>6 DEF WorkerReports, Does, baseVars, kubeVars, PodOfItsOwn
    <3>2. PodOfItsOwn(w)'
      BY <2>0, <3>1 DEF PodOfItsOwn, PodOf, There
    <3> QED
      BY <1>5, <2>0, <3>1, <3>2 DEF Holds
  <2> QED
    BY <1>10, <2>1, <2>2, <2>3, <2>4, <2>5, <2>6 DEF StartupStep
<1>11. ASSUME StartupStep("main") PROVE WorkersInv'
  <2>1. CASE StartWorker
    <3>1. PICK w \in Workers : doing[w] = "none" /\ Does(w, "loop")
      BY <2>1 DEF StartWorker
    <3>2. doing' = [doing EXCEPT ![w] = "loop"] /\ UNCHANGED <<obj, faults, turn, req>>
      BY <2>1, <3>1 DEF StartWorker, Does, baseVars, kubeVars
    <3>3. PodOfItsOwn(w)'
      BY <1>0, <1>1, <3>1, <3>2 DEF PodOfItsOwn, PodOf, There, StartupInv, StartupTypeOK
    <3> QED
      BY <1>0, <1>5, <3>1, <3>2, <3>3 DEF Holds, StartupInv, StartupTypeOK
  <2>2. CASE Collect \/ StopCollecting \/ WorkersDone \/ StartupExits
    BY <1>4, <2>2
    DEF Collect, StopCollecting, WorkersDone, StartupExits, baseVars, kubeVars, startupVars
  <2> QED
    BY <1>2, <1>11, <2>1, <2>2 DEF StartupStep
<1>12. CASE PodReady
  BY <1>4, <1>12 DEF PodReady, baseVars, kubeVars
<1>13. ASSUME NEW n \in Namespaces, FinishDeletion(n), UNCHANGED commandVars PROVE WorkersInv'
  BY <1>4, <1>13 DEF FinishDeletion, commandVars, startupVars
<1>14. CASE UNCHANGED <<kubeVars, commandVars>>
  BY <1>4, <1>14 DEF kubeVars, commandVars, startupVars
<1>15. ASSUME NEW p \in Procs, StartupStep(p) PROVE p = "main" \/ (p \in Workers /\ p # "main")
  BY <1>2, <1>15 DEF StartupStep
<1> QED
  BY <1>8, <1>9, <1>10, <1>11, <1>12, <1>13, <1>14, <1>15, StartupNextSteps
-----------------------------------------------------------------------------
(* The cluster simulation: calls *)

LEMMA AtMostMore ==
    ASSUME NEW S, NEW T, NEW n \in Nat, AtMost(S, n), T \subseteq S, NEW m \in {n, n + 1}
    PROVE  AtMost(T, m)
<1>1. T \subseteq S \cup {n} /\ (m = n \/ m = n + 1)
  OBVIOUS
<1> QED
  BY <1>1, AtMostShrinks, AtMostGrows

\* A request that is no deletion takes nothing away.
LEMMA OtherCall ==
    ASSUME KubeInv, NEW p \in Procs, Call(p), req[p].op # "delete"
    PROVE  dying' = dying /\ obj'[req[p].o] \in {obj[req[p].o], "ours"}
<1>1. req[p].at # "delete" /\ req[p].o \in Objects
  BY CallFrame DEF CallsOf, Operations, Answers
<1> QED
  BY <1>1
  DEF Call, Get, Accepted, Refused, QuotaExceeded, Conflict, RequestFails, AnswerLost, Effect,
      KubeInv, KubeTypeOK

LEMMA NamesDiffer ==
    /\ "scaler" \in ClusterProcs /\ "scaler" \in Procs
    /\ {"main", "lease", "scaler", "nodes", "space"} \cap AppSims = {}
    /\ PodNames \subseteq AppSims /\ AppSims \subseteq ClusterProcs
    /\ PodNames \subseteq Objects \ Namespaces
    /\ (FixedNames \cup {"ns"} \cup AppOwn \cup Refreshable \cup Namespaces) \cap PodNames = {}
<1>1. AppOwn \cap PodNames = {}
  BY ClusterAssumption DEF AppOwn
<1>2. PodNames \subseteq AppSims /\ AppSims \subseteq ClusterProcs /\ AppOwn \subseteq AppSims
  BY DEF AppSims, ClusterProcs
<1>3. "scaler" \in ClusterProcs /\ "scaler" \in Procs
  BY ProcsTyped DEF ClusterProcs
<1>4. {"main", "lease", "scaler", "nodes", "space"} \cap AppSims = {}
  BY ClusterAssumption
<1>5. FixedNames \cap AppSims = {} /\ AppSims \cap Namespaces = {} /\ AppSims \subseteq Objects
      /\ "ns" \in Namespaces /\ Refreshable \cap PodNames = {}
  BY ClusterAssumption
<1> QED
  BY <1>1, <1>2, <1>3, <1>4, <1>5

LEMMA ScalerInvParts ==
    ASSUME ScalerInv, command = "cluster", phase \in {"running", "waiting"}
    PROVE  /\ StagesInv /\ SpacesInv /\ AtMost(LostByScaler, faults)
           /\ \A q \in Procs : RequestFits(q)
BY DEF ScalerInv

\* The goroutine of a pod that is started has the pod in the list.
LEMMA StartedIsListed ==
    ASSUME TypeInv, StagesInv, phase \in {"running", "waiting"},
           NEW p \in PodNames, at[p] \notin Resting
    PROVE  p \in OfPods /\ phase = "running"
<1>1. p \in GetSims /\ phase = "running"
  BY NamesDiffer DEF StagesInv
<1>2. config.app # "none" => AppObjects[config.app] \cap PodNames = {}
  BY ClusterAssumption DEF TypeInv, ClusterInv, ClusterTypeOK
<1> QED
  BY <1>1, <1>2 DEF GetSims, OfPods

LEMMA ScalerCall ==
    ASSUME TypeInv, ScalerInv, command = "cluster", phase \in {"running", "waiting"},
           NEW p \in Procs, Call(p), UNCHANGED <<lifeVars, commandVars>>
    PROVE  ScalerInv'
<1> DEFINE o == req[p].o
<1>0. /\ KubeInv /\ faults \in Nat /\ obj \in [Objects -> {"absent", "ours", "others"}]
      /\ NsOf \in [Objects -> Namespaces \cup {None}] /\ None \notin Namespaces
  BY DEF TypeInv, KubeInv, KubeTypeOK
<1>1. /\ StagesInv /\ SpacesInv /\ AtMost(LostByScaler, faults)
      /\ \A q \in Procs : RequestFits(q)
  BY ScalerInvParts
<1>2. UNCHANGED <<config, next, at, pods, created, left, swap, command, phase>>
  BY DEF lifeVars, commandVars, clusterVars
<1>3. /\ req[p].at # "none" /\ req'[p].at # "none"
      /\ req'[p].op = req[p].op /\ req'[p].o = o /\ o \in Objects
      /\ \A q \in Procs \ {p} : req'[q] = req[q]
      /\ \A x \in Objects \ {o} : obj'[x] = obj[x]
      /\ faults' \in {faults, faults + 1}
  BY <1>0, CallFrame
<1>4. StagesInv'
  BY <1>1, <1>2 DEF StagesInv, OfPods, GetSims, RunOrder
<1>5. \A q \in Procs : RequestFits(q)'
  BY <1>1, <1>2, <1>3 DEF RequestFits
<1>6. \/ p \in PodNames /\ at[p] = "create" /\ req[p].op = "ssa" /\ o = p
      \/ p = "scaler" /\ at[p] = "create" /\ req[p].op = "ssa" /\ o = swap.new
      \/ p = "scaler" /\ at[p] = "deleting" /\ req[p].op = "delete" /\ o = swap.old
      \/ /\ req[p].op # "delete" /\ o \notin PodNames /\ (p = "scaler" => at[p] = "refresh")
  BY <1>1, <1>3 DEF RequestFits
<1>7. at["scaler"] \in {"create", "deleting"} => swap.new \in PodNames /\ swap.old \in PodNames
  BY <1>1 DEF StagesInv
<1>8. req[p].op = "delete" => o \in Objects \ Namespaces
  BY <1>3, <1>6, <1>7, NamesDiffer
<1>9. SpacesInv'
  <2>1. dying' = dying /\ \A n \in Namespaces : There(n) => There(n)'
    BY <1>0, <1>3, <1>8, DeleteCall, OtherCall DEF There
  <2>2. ASSUME NEW x \in PodNames, There(x)', NsOf[x] # None PROVE There(NsOf[x])'
    <3>1. x \in Objects /\ NsOf[x] \in Namespaces
      BY <1>0, <2>2, NamesDiffer
    <3>2. There(x) => There(NsOf[x])
      BY <1>1, <2>2 DEF SpacesInv
    <3>3. ~There(x) => x = o /\ req[p].op = "ssa" /\ obj'[o] # obj[o]
      BY <1>0, <1>3, <1>6, <1>8, <2>2, <3>1, DeleteCall DEF There
    <3>4. ~There(x) => There(NsOf[x])
      BY <1>0, <2>2, <3>3, PatchCall DEF MayCreate
    <3> QED
      BY <2>1, <3>1, <3>2, <3>4
  <2> QED
    BY <1>1, <2>1, <2>2 DEF SpacesInv
<1>10. \A x \in PodNames : x \in Objects
  BY NamesDiffer
\* The goroutine of a pod that is started
<1>11. CASE p \in PodNames /\ at[p] = "create" /\ o = p
  <2>1. p \in OfPods /\ at["scaler"] = "idle" /\ p # "scaler"
    BY <1>1, <1>11, StartedIsListed, NamesDiffer DEF StagesInv, Resting
  <2>2. Safe(p)'
    BY <1>2, <1>11, <2>1 DEF Safe, OfPods, Resting
  <2>3. \A x \in PodNames \ {p} : obj'[x] = obj[x] /\ (Safe(x) => Safe(x)')
    BY <1>2, <1>3, <1>10, <1>11, <2>1 DEF Safe, OfPods, Failures
  <2>4. LostByScaler' \subseteq LostByScaler
    BY <2>2, <2>3 DEF LostByScaler, Ours
  <2> QED
    BY <1>0, <1>1, <1>3, <2>4, AtMostMore, <1>4, <1>5, <1>9 DEF ScalerInv
\* An attempt to create the new pod
<1>12. CASE p = "scaler" /\ at[p] = "create" /\ req[p].op = "ssa" /\ o = swap.new
  <2> DEFINE new == swap.new
             old == swap.old
  <2>1. /\ req[p].at = "patch" /\ req'[p].at \in {"ok", "failed"}
        /\ \/ req'[p].at = "ok"
           \/ req'[p].at = "failed" /\ faults' = faults + 1
           \/ req'[p].at = "failed" /\ UNCHANGED obj /\ ~There(new) /\ ~MayCreate(new)
    BY <1>0, <1>12, PatchCall
  <2>2. left["scaler"] \in Nat /\ left["scaler"] < PodAttempts /\ PodAttempts \in Nat
        /\ new \in OfPods /\ new \in PodNames /\ old \in PodNames
    BY <1>1, <1>12, ClusterAssumption, NamesDiffer DEF StagesInv, TypeInv, ClusterInv, ClusterTypeOK
  <2>3. Failures \in Nat /\ Failures' = IF req'[p].at = "failed" THEN Failures + 1 ELSE 0
    BY <1>2, <1>12, <2>1, <2>2 DEF Failures
  <2> HIDE DEF Failures
  <2>4. \A x \in PodNames : x # new => obj'[x] = obj[x]
    BY <1>3, <1>10, <1>12
  <2>5. CASE req'[p].at = "ok"
    <3>1. \A x \in PodNames : Safe(x) => Safe(x)'
      BY <1>2, <1>12, <2>3, <2>5 DEF Safe, OfPods
    <3>2. Safe(new)'
      BY <1>2, <1>12, <2>2, <2>3, <2>5 DEF Safe, OfPods
    <3>3. LostByScaler' \subseteq LostByScaler
      BY <1>2, <2>4, <3>1, <3>2 DEF LostByScaler, Ours
    <3> QED
      BY <1>0, <1>1, <1>3, <3>3, AtMostMore, <1>4, <1>5, <1>9 DEF ScalerInv
  <2>6. CASE req'[p].at = "failed" /\ faults' = faults + 1 /\ Failures = 0
    <3>1. \A x \in PodNames : x # old /\ Safe(x) => Safe(x)'
      BY <1>2, <1>12, <2>3, <2>6 DEF Safe, OfPods
    <3>2. Safe(new)'
      BY <1>2, <1>12, <2>2, <2>3, <2>6 DEF Safe, OfPods
    <3>3. LostByScaler' \subseteq LostByScaler \cup {old}
      BY <1>2, <2>4, <3>1, <3>2 DEF LostByScaler, Ours
    <3>4. AtMost(LostByScaler', faults')
      BY <1>0, <1>1, <2>6, <3>3, AtMostGrows
    <3> QED
      BY <1>4, <1>5, <1>9, <3>4 DEF ScalerInv
  <2>7. CASE req'[p].at = "failed" /\ faults' = faults + 1 /\ Failures # 0
    <3>1. \A x \in PodNames : x # new /\ Safe(x) => Safe(x)'
      BY <1>2, <1>12, <2>3, <2>7 DEF Safe, OfPods
    <3>2. LostByScaler' \subseteq LostByScaler \cup {new}
      BY <1>2, <2>4, <3>1 DEF LostByScaler, Ours
    <3>3. AtMost(LostByScaler', faults')
      BY <1>0, <1>1, <2>7, <3>2, AtMostGrows
    <3> QED
      BY <1>4, <1>5, <1>9, <3>3 DEF ScalerInv
  \* Without a namespace no pod is there.
  <2>8. CASE req'[p].at = "failed" /\ UNCHANGED obj /\ ~There(new) /\ ~MayCreate(new)
    <3>1. NsOf[new] # None /\ ~There(NsOf[new]) /\ NsOf[old] = NsOf[new]
      BY <1>1, <2>2, <2>8, ClusterAssumption DEF MayCreate, SpacesInv
    <3>2. ~There(old)
      BY <1>1, <2>2, <3>1 DEF SpacesInv
    <3>3. \A x \in PodNames : x # new /\ x # old /\ Safe(x) => Safe(x)'
      BY <1>2, <1>12 DEF Safe, OfPods
    <3>4. LostByScaler' \subseteq LostByScaler
      BY <2>8, <3>2, <3>3 DEF LostByScaler, Ours, There
    <3> QED
      BY <1>0, <1>1, <1>3, <3>4, AtMostMore, <1>4, <1>5, <1>9 DEF ScalerInv
  <2> QED
    BY <2>1, <2>5, <2>6, <2>7, <2>8
\* The deletion of the removed pod
<1>13. CASE p = "scaler" /\ at[p] = "deleting" /\ req[p].op = "delete" /\ o = swap.old
  <2> DEFINE old == swap.old
  <2>1. /\ req'[p].at \in {"ok", "failed"}
        /\ req'[p].at = "ok" => obj'[old] = "absent"
        /\ req'[p].at = "failed" => faults' = faults + 1
    BY <1>0, <1>8, <1>13, DeleteCall
  <2>2. \A x \in PodNames : x # old => obj'[x] = obj[x] /\ (Safe(x) => Safe(x)')
    BY <1>2, <1>3, <1>10, <1>13 DEF Safe, OfPods, Failures
  <2>3. AtMost(LostByScaler', faults')
    <3>1. CASE req'[p].at = "ok"
      <4>1. LostByScaler' \subseteq LostByScaler
        BY <2>1, <2>2, <3>1 DEF LostByScaler, Ours
      <4> QED
        BY <1>0, <1>1, <1>3, <4>1, AtMostMore
    <3>2. CASE req'[p].at = "failed"
      <4>1. LostByScaler' \subseteq LostByScaler \cup {old}
        BY <2>2 DEF LostByScaler, Ours
      <4> QED
        BY <1>0, <1>1, <2>1, <3>2, <4>1, AtMostGrows
    <3> QED
      BY <2>1, <3>1, <3>2
  <2> QED
    BY <1>4, <1>5, <1>9, <2>3 DEF ScalerInv
\* No pod
<1>14. CASE o \notin PodNames /\ (p = "scaler" => at[p] = "refresh")
  <2>1. \A x \in PodNames : obj'[x] = obj[x] /\ (Safe(x) => Safe(x)')
    BY <1>2, <1>3, <1>10, <1>14, NamesDiffer DEF Safe, OfPods, Failures
  <2>2. LostByScaler' \subseteq LostByScaler
    BY <2>1 DEF LostByScaler, Ours
  <2> QED
    BY <1>0, <1>1, <1>3, <2>2, AtMostMore, <1>4, <1>5, <1>9 DEF ScalerInv
<1> QED
  BY <1>6, <1>11, <1>12, <1>13, <1>14
-----------------------------------------------------------------------------
(* The cluster simulation: steps of its goroutines *)

\* The steps there are until it cleans up
LEMMA ClusterNextSteps ==
    ASSUME [Next]_vars, command = "cluster", phase' \in {"running", "waiting"}
    PROVE  /\ phase \in {"running", "waiting"}
           /\ \/ \E p \in Procs : Call(p) /\ UNCHANGED <<lifeVars, commandVars>>
              \/ \E q \in Procs : ClusterStep(q)
              \/ \E n \in Namespaces : FinishDeletion(n)
              \/ CollectLease \/ ClusterChance
              \/ UNCHANGED <<kubeVars, phase, commandVars>>
<1>1. CASE \E p \in Procs : Goroutine(p)
  <2>1. ASSUME NEW p \in Procs, ClusterStep(p) PROVE phase \in {"running", "waiting"}
    BY <2>1
    DEF ClusterStep, MainStep, RunNext, NamespaceRetries, RunSucceeds, RunError, AppStarts, AppStarted,
        RunStops, RunEnds, CleanupStarts, CleanupEnds, RunFails, RunReturns, Exit, lifeVars, baseVars,
        AppStep, PodRun, PodCleanup, SimAsks, SimAnswered, PodApplies, PodRetries, PodFails, PodCreated,
        PodMakesClient, PodRunsClient, PodDeletes, PodDeleted, PodCloses, PodClosed,
        AppCleanupStarts, SpaceNext, SpaceDone, NodeCloses, NodeDeletes, LeaseDeletes, NodeDone,
        LeaseTicks, LeaseRenewed, LeaseStops, ConfigRefreshed, ScalerStops
  <2> QED
    BY <1>1, <2>1
    DEF Goroutine, OfCluster, OfImpersonate, OfReproduce, OfLatency, OfStartup, StopWaiting, lifeVars
<1>2. CASE \E c \in Clients : ClientStep(c)
  BY <1>2 DEF ClientStep, OfImpersonate, ClientReturns
<1>3. CASE Controllers
  BY <1>3 DEF Controllers, OfCluster, CollectLease, lifeVars
<1>4. CASE Chance
  BY <1>4
  DEF Chance, Signal, OfCluster, OfImpersonate, OfReproduce, OfLatency, OfStartup, ClusterChance,
      WorkloadTick, ConfigTick, AccountCreated, lifeVars, baseVars
<1>5. ~Pushes /\ ~Connects /\ ~AfterExit
  BY DEF Pushes, Connects, AfterExit, OfLatency, lifeVars
<1> QED
  BY <1>1, <1>2, <1>3, <1>4, <1>5 DEF Next, vars, baseVars, lifeVars

\* A goroutine makes a request, or is somewhere else.
LEMMA Asks ==
    ASSUME KubeInv, NEW q \in Procs, NEW op, NEW o, Ask(q, op, o)
    PROVE  /\ req'[q].op = op /\ req'[q].o = o /\ req'[q].at = FirstCall[op]
           /\ \A x \in Procs \ {q} : req'[x] = req[x]
           /\ UNCHANGED <<obj, dying, faults>>
BY ReqTyped DEF Ask, Sends

LEMMA Forgets ==
    ASSUME KubeInv, NEW q \in Procs, Forget(q)
    PROVE  /\ req'[q].at = "none"
           /\ \A x \in Procs \ {q} : req'[x] = req[x]
           /\ UNCHANGED <<obj, dying, faults>>
BY ReqTyped DEF Forget, NoRequest

LEMMA Moves ==
    ASSUME ClusterTypeOK, NEW q \in ClusterProcs, NEW place, Goes(q, place)
    PROVE  at'[q] = place /\ \A x \in ClusterProcs \ {q} : at'[x] = at[x]
BY DEF ClusterTypeOK, Goes

\* A step that asks for nothing to be created or deleted
LEMMA ScalerKeeps ==
    ASSUME ScalerInv, command = "cluster", phase \in {"running", "waiting"}, KubeInv,
           UNCHANGED <<command, obj, dying, faults>>,
           StagesInv', \A q \in Procs : RequestFits(q)',
           \A p \in PodNames : Safe(p) => Safe(p)'
    PROVE  ScalerInv'
<1>1. SpacesInv'
  BY ScalerInvParts DEF SpacesInv, There
<1>2. LostByScaler' \subseteq LostByScaler
  BY DEF LostByScaler, Ours
<1>3. faults \in Nat
  BY DEF KubeInv, KubeTypeOK
<1>4. AtMost(LostByScaler', faults')
  BY <1>2, <1>3, AtMostShrinks, ScalerInvParts
<1> QED
  BY <1>1, <1>4 DEF ScalerInv

LEMMA GetSimsTyped == ClusterTypeOK => GetSims \subseteq AppSims
<1> SUFFICES ASSUME ClusterTypeOK PROVE GetSims \subseteq AppSims
  OBVIOUS
<1>1. config.app # "none" => AppObjects[config.app] \subseteq AppOwn
  BY ClusterAssumption DEF AppOwn, ClusterTypeOK
<1>2. \A i \in DOMAIN pods : pods[i] \in PodNames
  BY DEF ClusterTypeOK
<1> QED
  BY <1>1, <1>2 DEF GetSims, AppSims

\* Cluster.Run
LEMMA ScalerMain ==
    ASSUME TypeInv, ScalerInv, command = "cluster", UNCHANGED command,
           phase \in {"running", "waiting"}, phase' \in {"running", "waiting"}, MainStep
    PROVE  ScalerInv'
<1>0. KubeInv /\ ClusterInv /\ ClusterTypeOK /\ "main" \in Procs
  BY ProcsTyped DEF TypeInv, ClusterInv
<1>1. StagesInv /\ \A q \in Procs : RequestFits(q)
  BY ScalerInvParts
<1>2. "main" \notin PodNames /\ {"lease", "scaler", "space", "nodes"} \subseteq ClusterProcs
      /\ AppSims \subseteq ClusterProcs /\ PodNames \subseteq AppSims
      /\ {"main", "lease", "scaler", "nodes", "space"} \cap AppSims = {} /\ "main" # "scaler"
  BY NamesDiffer DEF ClusterProcs
\* A request of its own, or the answer
<1>3. ASSUME \A q \in Procs \ {"main"} : req'[q] = req[q],
             \/ req'["main"].at = "none"
             \/ req'["main"].op # "delete" /\ req'["main"].o \notin PodNames,
             UNCHANGED <<at, swap>>
      PROVE  \A q \in Procs : RequestFits(q)'
  BY <1>1, <1>2, <1>3 DEF RequestFits
<1>4. ASSUME UNCHANGED <<pods, created, swap>>, at'["scaler"] = at["scaler"],
             UNCHANGED <<obj, dying, faults>>, req'["scaler"] = req["scaler"],
             left'["scaler"] = left["scaler"],
             \A q \in AppSims : at[q] \in Resting \/ at'[q] = at[q] \/ at'[q] = "begin",
             StagesInv', \A q \in Procs : RequestFits(q)'
      PROVE  ScalerInv'
  <2>1. Failures' = Failures
    BY <1>4 DEF Failures
  <2>2. \A p \in PodNames : Safe(p) => Safe(p)'
    BY <1>2, <1>4, <2>1 DEF Safe, OfPods, Resting
  <2> QED
    BY <1>0, <1>4, <2>2, ScalerKeeps
<1>5. CASE RunNext
  <2> DEFINE o == RunOrder[next]
  <2>1. /\ UNCHANGED <<phase, config, next, at, pods, created, swap, obj, dying, faults>>
        /\ \A q \in Procs \ {"main"} : req'[q] = req[q]
        /\ req'["main"].op = ApplyOp(o) /\ req'["main"].o = o
    BY <1>0, <1>5, Asks DEF RunNext, lifeVars
  <2>2. o \in {"node", "ns", "config", "account"}
    BY <1>0, <1>5, RunOrderTyped DEF RunNext, ClusterTypeOK
  <2>3. o \notin PodNames /\ ApplyOp(o) # "delete"
    BY <2>2, NamesDiffer DEF FixedNames, ApplyOp
  <2>4. left'["scaler"] = left["scaler"]
    BY <1>0, <1>2, <1>5 DEF RunNext, ClusterTypeOK
  <2>5. StagesInv'
    <3>1. GetSims' = GetSims /\ RunOrder' = RunOrder
      BY <2>1 DEF GetSims, RunOrder
    <3> QED
      BY <1>1, <2>1, <2>4, <3>1 DEF StagesInv, OfPods
  <2> QED
    BY <1>2, <1>3, <1>4, <2>1, <2>3, <2>4, <2>5, NamesDiffer
<1>6. CASE NamespaceRetries
  <2>1. /\ UNCHANGED <<phase, config, next, at, pods, created, swap, obj, dying, faults>>
        /\ \A q \in Procs \ {"main"} : req'[q] = req[q]
        /\ req'["main"].op = "apply" /\ req'["main"].o = "ns"
    BY <1>0, <1>6, Asks DEF NamespaceRetries, lifeVars
  <2>2. left'["scaler"] = left["scaler"]
    BY <1>0, <1>2, <1>6 DEF NamespaceRetries, ClusterTypeOK
  <2>3. StagesInv'
    <3>1. GetSims' = GetSims /\ RunOrder' = RunOrder
      BY <2>1 DEF GetSims, RunOrder
    <3> QED
      BY <1>1, <2>1, <2>2, <3>1 DEF StagesInv, OfPods
  <2> QED
    BY <1>2, <1>3, <1>4, <2>1, <2>2, <2>3, NamesDiffer
<1>7. CASE RunSucceeds
  <2>1. /\ UNCHANGED <<phase, config, pods, created, swap, obj, dying, faults>>
        /\ phase = "running" /\ req["main"].at # "none"
        /\ \A q \in Procs \ {"main"} : req'[q] = req[q]
        /\ req'["main"].at = "none"
        /\ \A x \in ClusterProcs \ {"lease"} : at'[x] = at[x]
    BY <1>0, <1>2, <1>7, Forgets, Moves DEF RunSucceeds, RunOk, Answered
  <2>2. left'["scaler"] = left["scaler"]
    BY <1>0, <1>2, <1>7 DEF RunSucceeds, ClusterTypeOK
  <2>3. \A q \in AppSims : at[q] \in Resting
    BY <1>0, <1>1, <2>1 DEF StagesInv, ClusterInv
  <2>4. \A q \in AppSims \cup {"space", "nodes", "scaler"} : at'[q] = at[q]
    BY <1>2, <2>1
  <2>5. StagesInv'
    BY <1>1, <1>2, <2>1, <2>2, <2>3, <2>4 DEF StagesInv, OfPods
  <2>6. \A q \in Procs : RequestFits(q)'
    BY <1>1, <1>2, <2>1, <2>4 DEF RequestFits
  <2> QED
    BY <1>2, <1>4, <2>1, <2>2, <2>4, <2>5, <2>6, NamesDiffer
<1>8. CASE AppStarts
  <2>1. /\ UNCHANGED <<phase, config, next, pods, created, left, swap, obj, dying, faults, req>>
        /\ phase = "running" /\ next <= Len(RunOrder) /\ RunOrder[next] = "app"
        /\ \A q \in GetSims : at[q] = "idle"
        /\ at' = [q \in ClusterProcs |-> IF q \in GetSims THEN "begin" ELSE at[q]]
    BY <1>8 DEF AppStarts, baseVars, lifeVars, kubeVars
  <2>2. GetSims' = GetSims /\ RunOrder' = RunOrder /\ GetSims \subseteq AppSims
    BY <1>0, <2>1, GetSimsTyped DEF GetSims, RunOrder
  <2>3. \A q \in AppSims : at'[q] = IF q \in GetSims THEN "begin" ELSE at[q]
    BY <1>2, <2>1
  <2>4. \A q \in {"space", "nodes", "scaler"} : at'[q] = at[q]
    BY <1>2, <2>1, <2>2
  <2>5. StagesInv'
    BY <1>1, <1>2, <2>1, <2>2, <2>3, <2>4 DEF StagesInv, OfPods, Resting
  <2>6. \A q \in Procs : RequestFits(q)'
    BY <1>1, <1>2, <2>1, <2>3, <2>4 DEF RequestFits
  <2> QED
    BY <1>2, <1>4, <2>1, <2>3, <2>4, <2>5, <2>6 DEF Resting
<1>9. CASE AppStarted
  <2>1. /\ phase = "running" /\ phase' = phase
        /\ UNCHANGED <<config, at, pods, created, left, swap, obj, dying, faults, req>>
        /\ \A q \in GetSims : at[q] \in Resting
    BY <1>9 DEF AppStarted, RunFails, kubeVars, Resting
  <2>2. \A q \in AppSims : at[q] \in Resting
    BY <1>1, <2>1 DEF StagesInv
  <2>3. StagesInv'
    BY <1>1, <2>1, <2>2 DEF StagesInv, OfPods
  <2> QED
    BY <1>1, <1>4, <2>1, <2>2, <2>3 DEF RequestFits
<1>10. CASE RunStops
  <2>1. /\ UNCHANGED <<phase, config, at, pods, created, left, swap, obj, dying, faults, req>>
        /\ phase = "running" /\ \A q \in GetSims : at[q] \in Resting
    BY <1>10 DEF RunStops, baseVars, lifeVars, kubeVars, Resting
  <2>2. \A q \in AppSims : at[q] \in Resting
    BY <1>1, <2>1 DEF StagesInv
  <2>3. StagesInv'
    BY <1>1, <2>1, <2>2 DEF StagesInv, OfPods
  <2> QED
    BY <1>1, <1>4, <2>1, <2>2, <2>3 DEF RequestFits
\* The scaler begins.
<1>11. CASE RunEnds
  <2>1. /\ phase = "running" /\ phase' = "waiting" /\ next = Len(RunOrder) + 1
        /\ UNCHANGED <<config, pods, created, left, swap, obj, dying, faults, req>>
        /\ \A x \in ClusterProcs \ {"scaler"} : at'[x] = at[x]
        /\ at'["scaler"] \in {at["scaler"], "on"}
    BY <1>0, <1>2, <1>11, Moves DEF RunEnds, RunReturns, kubeVars
  <2>2. at["scaler"] = "idle" /\ \A q \in AppSims : at[q] \in Resting
    BY <1>1, <2>1, RunOrderTyped DEF StagesInv
  <2>3. \A q \in AppSims \cup {"space", "nodes"} : at'[q] = at[q]
    BY <1>2, <2>1
  <2>4. StagesInv'
    BY <1>1, <1>2, <2>1, <2>2, <2>3 DEF StagesInv, OfPods
  <2>5. \A q \in Procs : RequestFits(q)'
    BY <1>1, <1>2, <2>1, <2>2, <2>3 DEF RequestFits
  <2>6. \A p \in PodNames : Safe(p) => Safe(p)'
    BY <1>2, <2>1, <2>2, <2>3 DEF Safe, OfPods
  <2> QED
    BY <1>0, <2>1, <2>4, <2>5, <2>6, ScalerKeeps
<1> QED
  BY <1>5, <1>6, <1>7, <1>8, <1>9, <1>10, <1>11
  DEF MainStep, RunError, CleanupStarts, CleanupEnds, RunFails, Exit

\* The goroutines that Application.Run starts
LEMMA ScalerApp ==
    ASSUME TypeInv, ScalerInv, command = "cluster", UNCHANGED command,
           phase \in {"running", "waiting"}, NEW q \in AppSims, AppStep(q)
    PROVE  ScalerInv'
<1>0. KubeInv /\ ClusterTypeOK /\ q \in Procs /\ q \in ClusterProcs /\ q # "scaler"
  BY ProcsTyped, NamesDiffer DEF TypeInv, ClusterInv
<1>1. StagesInv /\ \A x \in Procs : RequestFits(x)
  BY ScalerInvParts
<1>2. /\ {"scaler", "space", "nodes"} \subseteq ClusterProcs \ AppSims
      /\ AppSims \subseteq ClusterProcs /\ PodNames \subseteq AppSims /\ "scaler" \in Procs
  BY NamesDiffer DEF ClusterProcs
<1>3. RunPod(q) = q
  BY <1>0 DEF RunPod
<1>4. at[q] \in {"begin", "create", "make", "start", "failed"} \cup Resting
  BY <1>1 DEF StagesInv
<1>5. ASSUME at[q] \notin Resting, NEW place \in {"create", "make", "start", "failed", "done"}, Goes(q, place),
             place \in {"make", "start", "done"} => q \notin PodNames \/ q \in created',
             created \subseteq created',
             UNCHANGED <<phase, config, next, pods, swap, obj, dying, faults>>,
             left'["scaler"] = left["scaler"],
             \A x \in Procs \ {q} : req'[x] = req[x], RequestFits(q)'
      PROVE  ScalerInv'
  <2>1. /\ q \in GetSims /\ next <= Len(RunOrder) /\ RunOrder[next] = "app"
        /\ phase = "running" /\ at["scaler"] = "idle"
    BY <1>1, <1>5 DEF StagesInv
  <2>2. at'[q] = place /\ \A x \in ClusterProcs \ {q} : at'[x] = at[x]
    BY <1>0, <1>5, Moves
  <2>3. GetSims' = GetSims /\ RunOrder' = RunOrder
    BY <1>5 DEF GetSims, RunOrder
  <2>4. StagesInv'
    <3>1. \A x \in {"scaler", "space", "nodes"} : at'[x] = at[x]
      BY <1>2, <2>2
    <3>2. \A x \in AppSims : at'[x] \in {at[x], place} /\ (at'[x] # at[x] => x = q)
      BY <1>2, <2>2
    <3>3. \A p \in PodNames : at'[p] \in {"make", "start"} => p \in created'
      BY <1>1, <1>2, <1>5, <3>2 DEF StagesInv
    <3>4. \A x \in AppSims : at'[x] \notin Resting =>
             x \in GetSims' /\ next' <= Len(RunOrder') /\ RunOrder'[next'] = "app"
      BY <1>1, <1>5, <2>1, <2>3, <3>2 DEF StagesInv
    <3>5. \A x \in AppSims : at'[x] \in {"begin", "create", "make", "start", "failed"} \cup Resting
      BY <1>1, <3>2 DEF StagesInv, Resting
    <3> QED
      BY <1>1, <1>5, <2>1, <3>1, <3>3, <3>4, <3>5 DEF StagesInv
  <2>5. \A x \in Procs : RequestFits(x)'
    <3>1. ASSUME NEW x \in Procs \ {q} PROVE RequestFits(x)'
      BY <1>1, <1>2, <1>5, <2>2, <3>1 DEF RequestFits
    <3> QED
      BY <1>5, <3>1
  <2>6. \A x \in PodNames : Safe(x) => Safe(x)'
    BY <1>2, <1>5, <2>1, <2>2 DEF Safe, OfPods, Resting
  <2> QED
    BY <1>0, <1>5, <2>4, <2>5, <2>6, ScalerKeeps
<1>6. CASE PodApplies(q)
  <2>1. left'["scaler"] = left["scaler"]
    BY <1>0, <1>2, <1>6 DEF PodApplies, ClusterTypeOK
  <2>2. req'[q].op = "ssa" /\ req'[q].o = q /\ \A x \in Procs \ {q} : req'[x] = req[x]
    BY <1>0, <1>3, <1>6, Asks DEF PodApplies
  <2>3. at'[q] = "create" /\ q \in PodNames
    BY <1>0, <1>3, <1>6, Moves DEF PodApplies
  <2>4. RequestFits(q)'
    BY <2>2, <2>3 DEF RequestFits
  <2> QED
    BY <1>0, <1>3, <1>5, <1>6, <2>1, <2>2, <2>4, Asks DEF PodApplies, Resting, lifeVars
<1>7. CASE PodRetries(q)
  <2>1. left'["scaler"] = left["scaler"] /\ UNCHANGED <<obj, dying, faults>>
    BY <1>0, <1>2, <1>7 DEF PodRetries, Ask, ClusterTypeOK
  <2>2. req'[q].op = "ssa" /\ req'[q].o = q /\ \A x \in Procs \ {q} : req'[x] = req[x]
    BY <1>0, <1>3, <1>7, Asks DEF PodRetries
  <2>3. at' = at /\ at[q] = "create" /\ q \in PodNames
    BY <1>3, <1>7 DEF PodRetries
  <2>4. RequestFits(q)'
    BY <2>2, <2>3 DEF RequestFits
  <2>5. Goes(q, "create")
    BY <1>0, <2>3 DEF Goes, ClusterTypeOK
  <2> QED
    BY <1>5, <1>7, <2>1, <2>2, <2>3, <2>4, <2>5 DEF PodRetries, Resting, lifeVars
<1>8. CASE PodFails(q)
  BY <1>0, <1>5, <1>8, Forgets DEF PodFails, RequestFits, Resting, lifeVars
<1>9. CASE PodCreated(q)
  <2>1. left'["scaler"] = left["scaler"] /\ q \in created' /\ created \subseteq created'
    BY <1>0, <1>2, <1>3, <1>9 DEF PodCreated, ClusterTypeOK
  <2> QED
    BY <1>0, <1>5, <1>9, <2>1, Forgets DEF PodCreated, RequestFits, Resting, lifeVars
<1>10. ASSUME at[q] \in {"make", "start"} PROVE req[q].at = "none" \/ q \notin PodNames
  BY <1>0, <1>1, <1>10 DEF RequestFits
<1>11. at[q] \in {"make", "start"} => q \notin PodNames \/ q \in created
  BY <1>1 DEF StagesInv
<1>12. CASE PodMakesClient(q) \/ PodRunsClient(q)
  <2>1. /\ UNCHANGED <<phase, config, next, pods, created, left, swap, req, obj, dying, faults>>
        /\ at[q] \in {"make", "start"} /\ (Goes(q, "start") \/ Goes(q, "done"))
    BY <1>0, <1>12 DEF PodMakesClient, PodRunsClient, kubeVars
  <2>2. RequestFits(q)'
    BY <1>0, <1>1, <1>10, <2>1 DEF RequestFits
  <2> QED
    BY <1>5, <1>11, <2>1, <2>2 DEF Resting
<1>13. CASE PodCleanup(q)
  BY <1>4, <1>13 DEF PodCleanup, PodDeletes, PodDeleted, PodCloses, PodClosed, Resting
<1>14. CASE SimAsks(q)
  <2>1. at[q] = "begin" /\ Ask(q, ApplyOp(q), q) /\ Goes(q, "create") /\ q \notin PodNames
    BY <1>4, <1>14 DEF SimAsks, Resting
  <2>2. ApplyOp(q) # "delete"
    BY DEF ApplyOp
  <2>3. RequestFits(q)'
    BY <1>0, <2>1, <2>2, Asks DEF RequestFits
  <2> QED
    BY <1>0, <1>5, <1>14, <2>1, <2>3, Asks DEF SimAsks, Resting, lifeVars
<1>15. CASE SimAnswered(q)
  <2>1. at[q] = "create" /\ q \notin PodNames /\ (Goes(q, "done") \/ Goes(q, "failed"))
    BY <1>4, <1>15 DEF SimAnswered, Resting
  <2> QED
    BY <1>0, <1>5, <1>15, <2>1, Forgets DEF SimAnswered, RequestFits, Resting, lifeVars
<1> QED
  BY <1>6, <1>7, <1>8, <1>9, <1>12, <1>13, <1>14, <1>15 DEF AppStep, PodRun

\* The scaler is somewhere else.
LEMMA ScalerMoves ==
    ASSUME TypeInv, ScalerInv, command = "cluster", UNCHANGED command,
           phase = "waiting", UNCHANGED <<phase, obj, dying, faults>>,
           NEW place \in {"idle", "on", "refresh", "begin", "create", "make", "start",
                          "delete", "deleting", "close", "wait"},
           Goes("scaler", place), created \subseteq created',
           place \notin {"idle", "on", "refresh"} =>
              swap'.new \in OfPods' /\ swap'.new \in PodNames /\ swap'.old \in PodNames,
           place = "create" => left'["scaler"] < PodAttempts,
           \A q \in Procs \ {"scaler"} : req'[q] = req[q],
           RequestFits("scaler")',
           \A p \in PodNames : Safe(p) => Safe(p)'
    PROVE  ScalerInv'
<1>0. KubeInv /\ ClusterTypeOK /\ StagesInv /\ \A q \in Procs : RequestFits(q)
  BY ScalerInvParts DEF TypeInv, ClusterInv
<1>1. /\ "scaler" \notin AppSims /\ "scaler" \in ClusterProcs /\ {"space", "nodes"} \subseteq ClusterProcs
      /\ AppSims \subseteq ClusterProcs /\ PodNames \subseteq AppSims /\ "scaler" \in Procs
  BY NamesDiffer DEF ClusterProcs
<1>2. at'["scaler"] = place /\ \A x \in AppSims \cup {"space", "nodes"} : at'[x] = at[x]
  BY <1>0, <1>1, Moves
<1>3. StagesInv'
  BY <1>0, <1>1, <1>2 DEF StagesInv
<1>4. \A q \in Procs : RequestFits(q)'
  <2>1. ASSUME NEW q \in Procs \ {"scaler"} PROVE RequestFits(q)'
    BY <1>0, <1>1, <1>2, <2>1 DEF RequestFits
  <2> QED
    BY <2>1
<1> QED
  BY <1>0, <1>3, <1>4, ScalerKeeps

\* The scaler refreshes a pod.
LEMMA ScalerPod ==
    ASSUME TypeInv, ScalerInv, command = "cluster", UNCHANGED command,
           phase \in {"running", "waiting"}, PodRun("scaler") \/ PodCleanup("scaler")
    PROVE  ScalerInv'
<1> DEFINE new == swap.new
           old == swap.old
<1>0. /\ KubeInv /\ ClusterTypeOK /\ StagesInv /\ RequestFits("scaler")
      /\ RunPod("scaler") = new /\ CleanPod("scaler") = old /\ Cleaned("scaler") = "on"
      /\ "scaler" \in Procs /\ "scaler" \in ClusterProcs /\ "scaler" \notin PodNames
      /\ \A x \in PodNames : x \in ClusterProcs /\ x # "scaler"
  BY ScalerInvParts, NamesDiffer DEF TypeInv, ClusterInv, RunPod, CleanPod, Cleaned
<1>1. at["scaler"] \in {"begin", "create", "make", "start", "delete", "deleting", "close", "wait"}
  BY DEF PodRun, PodCleanup, PodApplies, PodRetries, PodFails, PodCreated, PodMakesClient,
         PodRunsClient, PodDeletes, PodDeleted, PodCloses, PodClosed
<1>2. /\ phase = "waiting" /\ new \in OfPods /\ new \in PodNames /\ old \in PodNames
      /\ \A x \in PodNames : at[x] \in Resting
  BY <1>0, <1>1, NamesDiffer DEF StagesInv
<1>3. PodAttempts \in Nat /\ PodAttempts >= 2 /\ left \in [ClusterProcs -> 0..PodAttempts + NsAttempts]
  BY <1>0, ClusterAssumption DEF ClusterTypeOK
<1>4. \A place : Goes("scaler", place) =>
         at'["scaler"] = place /\ \A x \in PodNames : at'[x] = at[x]
  BY <1>0, Moves
<1>5. CASE PodApplies("scaler")
  <2>1. /\ UNCHANGED <<phase, pods, created, swap, obj, dying, faults>>
        /\ at["scaler"] = "begin" /\ at'["scaler"] = "create" /\ \A x \in PodNames : at'[x] = at[x]
        /\ req'["scaler"].op = "ssa" /\ req'["scaler"].o = new /\ req'["scaler"].at = "patch"
        /\ \A q \in Procs \ {"scaler"} : req'[q] = req[q]
        /\ left'["scaler"] = PodAttempts - 1 /\ Goes("scaler", "create")
    BY <1>0, <1>3, <1>4, <1>5, Asks DEF PodApplies, lifeVars, FirstCall
  <2>2. Failures = 0 /\ Failures' = 0
    BY <1>3, <2>1 DEF Failures
  <2>3. \A x \in PodNames : Safe(x) => Safe(x)'
    BY <2>1, <2>2 DEF Safe, OfPods
  <2>4. RequestFits("scaler")' /\ OfPods' = OfPods
    BY <2>1 DEF RequestFits, OfPods
  <2> QED
    BY <1>2, <1>3, <2>1, <2>3, <2>4, ScalerMoves
<1>6. CASE PodRetries("scaler")
  <2>1. /\ UNCHANGED <<phase, pods, created, swap, obj, dying, faults, at>>
        /\ at["scaler"] = "create" /\ left["scaler"] > 0 /\ req["scaler"].at = "failed"
        /\ req'["scaler"].op = "ssa" /\ req'["scaler"].o = new /\ req'["scaler"].at = "patch"
        /\ \A q \in Procs \ {"scaler"} : req'[q] = req[q]
        /\ left'["scaler"] = left["scaler"] - 1 /\ Goes("scaler", "create")
    BY <1>0, <1>3, <1>6, Asks DEF PodRetries, lifeVars, FirstCall, Answered, Goes, ClusterTypeOK
  <2>2. left["scaler"] < PodAttempts /\ left["scaler"] \in Nat
    BY <1>0, <1>3, <2>1 DEF StagesInv
  <2>3. Failures' = Failures
    BY <1>3, <2>1, <2>2 DEF Failures
  <2>4. \A x \in PodNames : Safe(x) => Safe(x)'
    BY <2>1, <2>3 DEF Safe, OfPods
  <2>5. RequestFits("scaler")' /\ OfPods' = OfPods
    BY <2>1 DEF RequestFits, OfPods
  <2> QED
    BY <1>2, <1>3, <2>1, <2>2, <2>4, <2>5, ScalerMoves
\* It gives up after as many failures as attempts.
<1>7. CASE PodFails("scaler")
  <2>1. /\ UNCHANGED <<phase, pods, created, swap, obj, dying, faults>>
        /\ at["scaler"] = "create" /\ left["scaler"] = 0 /\ req["scaler"].at = "failed"
        /\ Goes("scaler", "on") /\ at'["scaler"] = "on" /\ \A x \in PodNames : at'[x] = at[x]
        /\ req'["scaler"].at = "none" /\ \A q \in Procs \ {"scaler"} : req'[q] = req[q]
    BY <1>0, <1>4, <1>7, Forgets DEF PodFails, lifeVars, Answered
  <2>2. Failures >= 2 /\ Failures \in Nat
    BY <1>3, <2>1 DEF Failures
  <2>3. \A x \in PodNames : Safe(x) => Safe(x)'
    BY <2>1, <2>2 DEF Safe, OfPods
  <2>4. RequestFits("scaler")'
    BY <2>1 DEF RequestFits
  <2> QED
    BY <1>2, <2>1, <2>3, <2>4, ScalerMoves
<1>8. CASE PodCreated("scaler")
  <2>1. /\ UNCHANGED <<phase, pods, swap, obj, dying, faults>> /\ created' = created \cup {new}
        /\ at["scaler"] = "create"
        /\ Goes("scaler", "make") /\ at'["scaler"] = "make" /\ \A x \in PodNames : at'[x] = at[x]
        /\ req'["scaler"].at = "none" /\ \A q \in Procs \ {"scaler"} : req'[q] = req[q]
    BY <1>0, <1>4, <1>8, Forgets DEF PodCreated, lifeVars
  <2>2. Failures' = 0
    BY <2>1 DEF Failures
  <2>3. \A x \in PodNames : Safe(x) => Safe(x)'
    BY <1>2, <2>1, <2>2 DEF Safe, OfPods
  <2>4. RequestFits("scaler")' /\ OfPods' = OfPods
    BY <2>1 DEF RequestFits, OfPods
  <2> QED
    BY <1>2, <2>1, <2>3, <2>4, ScalerMoves
<1>9. ASSUME UNCHANGED <<phase, pods, created, swap, obj, dying, faults, req>>,
             at["scaler"] \in {"make", "start", "delete", "close", "wait"},
             NEW place \in {"start", "delete", "close", "wait", "on"}, Goes("scaler", place),
             at["scaler"] \in {"make", "start"} <=> place \in {"start", "delete"},
             at["scaler"] = "delete" => old \notin created
      PROVE  ScalerInv'
  <2>1. at'["scaler"] = place /\ \A x \in PodNames : at'[x] = at[x]
    BY <1>4, <1>9
  <2>2. Failures = 0 /\ Failures' = 0 /\ OfPods' = OfPods
    BY <1>9, <2>1 DEF Failures, OfPods
  <2>3. \A x \in PodNames : Safe(x) => Safe(x)'
    BY <1>9, <2>1, <2>2 DEF Safe
  <2>4. req["scaler"].at = "none"
    BY <1>0, <1>9 DEF RequestFits
  <2>5. RequestFits("scaler")'
    BY <1>9, <2>4 DEF RequestFits
  <2> QED
    BY <1>2, <1>9, <2>2, <2>3, <2>5, ScalerMoves
<1>10. CASE PodMakesClient("scaler")
  BY <1>9, <1>10 DEF PodMakesClient, kubeVars
<1>11. CASE PodRunsClient("scaler")
  BY <1>9, <1>11 DEF PodRunsClient, kubeVars
<1>12. CASE PodDeletes("scaler") /\ old \in created
  <2>1. /\ UNCHANGED <<phase, pods, created, swap, obj, dying, faults>> /\ at["scaler"] = "delete"
        /\ req'["scaler"].op = "delete" /\ req'["scaler"].o = old /\ req'["scaler"].at = "delete"
        /\ \A q \in Procs \ {"scaler"} : req'[q] = req[q]
        /\ Goes("scaler", "deleting") /\ at'["scaler"] = "deleting" /\ \A x \in PodNames : at'[x] = at[x]
    BY <1>0, <1>4, <1>12, Asks DEF PodDeletes, lifeVars, FirstCall
  <2>2. \A x \in PodNames : Safe(x) => Safe(x)'
    BY <2>1 DEF Safe, OfPods
  <2>3. RequestFits("scaler")' /\ OfPods' = OfPods
    BY <2>1 DEF RequestFits, OfPods
  <2> QED
    BY <1>2, <2>1, <2>2, <2>3, ScalerMoves
<1>13. CASE PodDeletes("scaler") /\ old \notin created
  BY <1>0, <1>9, <1>13 DEF PodDeletes, lifeVars, kubeVars
<1>14. CASE PodDeleted("scaler")
  <2>1. PICK place \in {"close", "on"} :
          /\ UNCHANGED <<phase, pods, created, swap, obj, dying, faults>>
          /\ at["scaler"] = "deleting" /\ req["scaler"].at \in {"ok", "failed"}
          /\ Goes("scaler", place) /\ at'["scaler"] = place /\ \A x \in PodNames : at'[x] = at[x]
          /\ req'["scaler"].at = "none" /\ \A q \in Procs \ {"scaler"} : req'[q] = req[q]
    BY <1>0, <1>4, <1>14, Forgets DEF PodDeleted, lifeVars, Answered
  <2>2. \A x \in PodNames : Safe(x) => Safe(x)'
    BY <2>1 DEF Safe, OfPods
  <2>3. RequestFits("scaler")' /\ OfPods' = OfPods
    BY <2>1 DEF RequestFits, OfPods
  <2> QED
    BY <1>2, <2>1, <2>2, <2>3, ScalerMoves
<1>15. CASE PodCloses("scaler")
  <2>1. Goes("scaler", "on") \/ Goes("scaler", "wait")
    BY <1>0, <1>15 DEF PodCloses
  <2> QED
    BY <1>9, <1>15, <2>1 DEF PodCloses, kubeVars
<1>16. CASE PodClosed("scaler")
  <2>1. Goes("scaler", "on") \/ Goes("scaler", "wait")
    BY <1>0, <1>16 DEF PodClosed, Goes, ClusterTypeOK
  <2> QED
    BY <1>9, <1>16, <2>1 DEF PodClosed, kubeVars
<1> QED
  BY <1>5, <1>6, <1>7, <1>8, <1>10, <1>11, <1>12, <1>13, <1>14, <1>15, <1>16 DEF PodRun, PodCleanup

\* The scaler begins a refresh, ends one of a configuration, or stops.
LEMMA ScalerTicks ==
    ASSUME TypeInv, ScalerInv, command = "cluster", UNCHANGED command,
           phase \in {"running", "waiting"},
           WorkloadTick \/ ConfigTick \/ ConfigRefreshed \/ ScalerStops
    PROVE  ScalerInv'
<1>0. /\ KubeInv /\ ClusterTypeOK /\ StagesInv /\ RequestFits("scaler")
      /\ "scaler" \in Procs /\ "scaler" \in ClusterProcs /\ "scaler" \notin PodNames
      /\ PodNames \subseteq AppSims /\ \A x \in PodNames : x \in ClusterProcs /\ x # "scaler"
  BY ScalerInvParts, NamesDiffer DEF TypeInv, ClusterInv
<1>1. at["scaler"] \in {"on", "refresh"}
  BY DEF WorkloadTick, ConfigTick, ConfigRefreshed, ScalerStops
<1>2. phase = "waiting" /\ \A x \in PodNames : at[x] \in Resting
  BY <1>0, <1>1 DEF StagesInv
<1>3. \A place : Goes("scaler", place) =>
         at'["scaler"] = place /\ \A x \in PodNames : at'[x] = at[x]
  BY <1>0, Moves
<1>4. at["scaler"] = "on" => req["scaler"].at = "none"
  BY <1>0 DEF RequestFits
\* The new pod is not there; the removed one will be deleted if it is.
<1>5. CASE WorkloadTick
  <2>1. PICK i \in DOMAIN pods, p \in PodNames :
          /\ ~There(p) /\ swap' = [new |-> p, old |-> pods[i]] /\ pods' = [pods EXCEPT ![i] = p]
    <3>1. Drawn \subseteq DOMAIN pods
      BY <1>0 DEF Drawn, ClusterTypeOK
    <3>2. \A p \in Unused : p \in PodNames /\ ~There(p)
      BY DEF Unused
    <3> QED
      BY <1>5, <3>1, <3>2 DEF WorkloadTick
  <2>2. /\ UNCHANGED <<phase, created, obj, dying, faults, req>>
        /\ Goes("scaler", "begin") /\ at'["scaler"] = "begin" /\ \A x \in PodNames : at'[x] = at[x]
    BY <1>3, <1>5 DEF WorkloadTick, baseVars, lifeVars, kubeVars
  <2>3. DOMAIN pods' = DOMAIN pods /\ pods'[i] = p /\ \A j \in DOMAIN pods \ {i} : pods'[j] = pods[j]
    BY <1>0, <2>1 DEF ClusterTypeOK
  <2>4. swap'.new = p /\ swap'.old = pods[i] /\ pods[i] \in PodNames /\ p \in OfPods'
    BY <1>0, <2>1, <2>3 DEF ClusterTypeOK, OfPods
  <2>5. Failures' = 0
    BY <2>2 DEF Failures
  <2>6. ASSUME NEW x \in PodNames, Safe(x) PROVE Safe(x)'
    <3>1. x \in OfPods /\ x \in created
      BY <1>1, <1>2, <1>4, <1>5, <2>6 DEF Safe, WorkloadTick
    <3>2. x \in OfPods' \/ x = pods[i]
      BY <2>3, <3>1 DEF OfPods
    <3> QED
      BY <2>2, <2>4, <2>5, <3>1, <3>2 DEF Safe
  <2>7. RequestFits("scaler")'
    BY <1>4, <1>5, <2>2 DEF RequestFits, WorkloadTick
  <2> QED
    BY <1>2, <2>1, <2>2, <2>4, <2>6, <2>7, ScalerMoves
<1>6. ASSUME UNCHANGED <<phase, pods, created, swap, obj, dying, faults>>,
             NEW place \in {"refresh", "on", "idle"}, Goes("scaler", place),
             \A q \in Procs \ {"scaler"} : req'[q] = req[q], RequestFits("scaler")'
      PROVE  ScalerInv'
  <2>1. at'["scaler"] = place /\ \A x \in PodNames : at'[x] = at[x]
    BY <1>3, <1>6
  <2>2. \A x \in PodNames : Safe(x) => Safe(x)'
    BY <1>1, <1>6, <2>1 DEF Safe, OfPods
  <2> QED
    BY <1>2, <1>6, <2>2, ScalerMoves
<1>7. CASE ConfigTick
  <2>1. PICK o \in Refreshable : Ask("scaler", ApplyOp(o), o)
    BY <1>7 DEF ConfigTick
  <2>2. /\ UNCHANGED <<phase, pods, created, swap, obj, dying, faults>> /\ Goes("scaler", "refresh")
        /\ req'["scaler"].op = ApplyOp(o) /\ req'["scaler"].o = o
        /\ \A q \in Procs \ {"scaler"} : req'[q] = req[q]
    BY <1>0, <1>7, <2>1, Asks DEF ConfigTick, lifeVars
  <2>3. o \notin PodNames /\ ApplyOp(o) # "delete"
    BY NamesDiffer DEF ApplyOp
  <2>4. RequestFits("scaler")'
    BY <1>0, <1>3, <2>2, <2>3 DEF RequestFits
  <2> QED
    BY <1>6, <2>2, <2>4
<1>8. CASE ConfigRefreshed
  BY <1>0, <1>6, <1>8, Forgets DEF ConfigRefreshed, RequestFits, lifeVars
<1>9. CASE ScalerStops
  BY <1>4, <1>6, <1>9 DEF ScalerStops, RequestFits, baseVars, lifeVars, kubeVars
<1> QED
  BY <1>5, <1>7, <1>8, <1>9

\* What concerns no pod
LEMMA ScalerOthers ==
    ASSUME TypeInv, ScalerInv, command = "cluster", UNCHANGED command,
           phase \in {"running", "waiting"}, phase' = phase,
           \/ LeaseTicks \/ LeaseRenewed \/ LeaseStops
           \/ CollectLease \/ AccountCreated
           \/ UNCHANGED <<kubeVars, clusterVars>>
    PROVE  ScalerInv'
<1>0. KubeInv /\ ClusterTypeOK /\ StagesInv /\ SpacesInv /\ \A q \in Procs : RequestFits(q)
  BY ScalerInvParts DEF TypeInv, ClusterInv
<1>1. /\ "lease" \in ClusterProcs /\ "lease" \in Procs /\ "lease" \notin AppSims \cup {"scaler", "space", "nodes"}
      /\ AppSims \cup {"scaler", "space", "nodes"} \subseteq ClusterProcs /\ "scaler" \in Procs
      /\ PodNames \subseteq AppSims
      /\ {"lease", "account"} \cap (PodNames \cup Namespaces) = {}
  BY NamesDiffer, ProcsTyped, ClusterAssumption DEF ClusterProcs, FixedNames
<1>2. ASSUME UNCHANGED <<config, next, pods, created, left, swap>>,
             \A x \in AppSims \cup {"scaler", "space", "nodes"} : at'[x] = at[x],
             \A q \in Procs \ {"lease"} : req'[q] = req[q]
      PROVE  /\ StagesInv' /\ \A q \in Procs \ {"lease"} : RequestFits(q)'
             /\ \A p \in PodNames : Safe(p) => Safe(p)'
  <2>1. GetSims' = GetSims /\ RunOrder' = RunOrder /\ OfPods' = OfPods
    BY <1>2 DEF GetSims, RunOrder, OfPods
  <2>2. Failures' = Failures
    BY <1>1, <1>2 DEF Failures
  <2>3. StagesInv'
    BY <1>0, <1>1, <1>2, <2>1 DEF StagesInv
  <2>4. ASSUME NEW q \in Procs \ {"lease"} PROVE RequestFits(q)'
    BY <1>0, <1>1, <1>2, <2>4 DEF RequestFits
  <2>5. \A p \in PodNames : Safe(p) => Safe(p)'
    BY <1>1, <1>2, <2>1, <2>2 DEF Safe
  <2> QED
    BY <2>3, <2>4, <2>5
<1>3. CASE LeaseTicks
  <2>1. /\ UNCHANGED <<config, next, at, pods, created, left, swap, obj, dying, faults>>
        /\ req'["lease"].op = "apply" /\ req'["lease"].o = "lease"
        /\ \A q \in Procs \ {"lease"} : req'[q] = req[q]
    BY <1>0, <1>1, <1>3, Asks DEF LeaseTicks, clusterVars
  <2>2. RequestFits("lease")'
    BY <1>1, <2>1 DEF RequestFits
  <2> QED
    BY <1>0, <1>2, <2>1, <2>2, ScalerKeeps
<1>4. CASE LeaseRenewed
  <2>1. /\ UNCHANGED <<config, next, at, pods, created, left, swap, obj, dying, faults>>
        /\ req'["lease"].at = "none" /\ \A q \in Procs \ {"lease"} : req'[q] = req[q]
    BY <1>0, <1>1, <1>4, Forgets DEF LeaseRenewed, clusterVars
  <2>2. RequestFits("lease")'
    BY <2>1 DEF RequestFits
  <2> QED
    BY <1>0, <1>2, <2>1, <2>2, ScalerKeeps
<1>5. CASE LeaseStops
  <2>1. /\ UNCHANGED <<config, next, pods, created, left, swap, obj, dying, faults, req>>
        /\ req["lease"].at = "none" /\ \A x \in ClusterProcs \ {"lease"} : at'[x] = at[x]
    BY <1>0, <1>1, <1>5, Moves DEF LeaseStops, Free, baseVars, kubeVars
  <2>2. RequestFits("lease")'
    BY <2>1 DEF RequestFits
  <2>3. \A x \in AppSims \cup {"scaler", "space", "nodes"} : at'[x] = at[x]
    BY <1>1, <2>1
  <2> QED
    BY <1>0, <1>2, <2>1, <2>2, <2>3, ScalerKeeps
<1>6. CASE CollectLease \/ AccountCreated
  <2>1. UNCHANGED <<config, next, at, pods, created, left, swap, dying, faults, req>>
    BY <1>6 DEF CollectLease, AccountCreated, clusterVars
  <2>2. \A x \in PodNames \cup Namespaces : obj'[x] = obj[x]
    <3>1. \A x \in PodNames \cup Namespaces : x \in Objects /\ x \notin {"lease", "account"}
      BY <1>1, NamesDiffer
    <3> QED
      BY <1>0, <1>6, <3>1 DEF CollectLease, AccountCreated, KubeInv, KubeTypeOK
  <2>3. SpacesInv'
    <3>1. \A p \in PodNames : NsOf[p] # None => NsOf[p] \in Namespaces
      BY NamesDiffer
    <3> QED
      BY <1>0, <2>1, <2>2, <3>1 DEF SpacesInv, There
  <2>4. \A q \in Procs : RequestFits(q)'
    BY <1>0, <2>1 DEF RequestFits
  <2>5. StagesInv' /\ \A p \in PodNames : Safe(p) => Safe(p)'
    BY <1>2, <2>1
  <2>6. LostByScaler' \subseteq LostByScaler
    BY <2>2, <2>5 DEF LostByScaler, Ours
  <2>7. AtMost(LostByScaler', faults')
    BY <1>0, <2>1, <2>6, AtMostShrinks, ScalerInvParts DEF KubeInv, KubeTypeOK
  <2> QED
    BY <2>3, <2>4, <2>5, <2>7 DEF ScalerInv
<1>7. CASE UNCHANGED <<kubeVars, clusterVars>>
  <2>1. UNCHANGED <<config, next, at, pods, created, left, swap, obj, dying, faults, req>>
    BY <1>7 DEF kubeVars, clusterVars
  <2>2. \A q \in Procs : RequestFits(q)'
    BY <1>0, <2>1 DEF RequestFits
  <2> QED
    BY <1>0, <1>2, <2>1, <2>2, ScalerKeeps
<1> QED
  BY <1>3, <1>4, <1>5, <1>6, <1>7

LEMMA ScalerNext ==
    ASSUME TypeInv, ScalerInv, [Next]_vars
    PROVE  ScalerInv'
<1> SUFFICES ASSUME command = "cluster", UNCHANGED command, phase' \in {"running", "waiting"}
             PROVE  ScalerInv'
  BY SameCommand DEF ScalerInv
<1>1. phase \in {"running", "waiting"}
  BY ClusterNextSteps
<1>2. StagesInv /\ SpacesInv
  BY <1>1, ScalerInvParts
<1>3. ASSUME NEW q \in Procs, ClusterStep(q) PROVE ScalerInv'
  <2>1. CASE q = "main" /\ MainStep
    BY <1>1, <2>1, ScalerMain
  <2>2. CASE q \in AppSims /\ AppStep(q)
    BY <1>1, <2>2, ScalerApp
  <2>3. CASE PodRun("scaler") \/ PodCleanup("scaler")
    BY <1>1, <2>3, ScalerPod
  <2>4. CASE ConfigRefreshed \/ ScalerStops
    BY <1>1, <2>4, ScalerTicks
  <2>5. CASE LeaseTicks \/ LeaseRenewed \/ LeaseStops
    BY <1>1, <2>5, ScalerOthers DEF LeaseTicks, LeaseRenewed, LeaseStops, lifeVars, baseVars
  <2>6. ~(AppCleanupStarts \/ SpaceNext \/ SpaceDone \/ NodeCloses \/ NodeDeletes \/ LeaseDeletes \/ NodeDone)
    BY <1>2 DEF StagesInv, AppCleanupStarts, SpaceNext, SpaceDone, NodeCloses, NodeDeletes,
                LeaseDeletes, NodeDone
  <2> QED
    BY <1>3, <2>1, <2>2, <2>3, <2>4, <2>5, <2>6 DEF ClusterStep
<1>4. \A n \in Namespaces : ~FinishDeletion(n)
  BY <1>2 DEF SpacesInv, FinishDeletion
<1>5. CASE CollectLease \/ ClusterChance
  BY <1>1, <1>5, ScalerTicks, ScalerOthers DEF ClusterChance, CollectLease, AccountCreated, lifeVars
<1>6. CASE UNCHANGED <<kubeVars, phase, commandVars>>
  BY <1>1, <1>6, ScalerOthers DEF commandVars
<1> QED
  BY <1>1, <1>3, <1>4, <1>5, <1>6, ClusterNextSteps, ScalerCall
-----------------------------------------------------------------------------
(* All commands *)

RememberingInv == RememberedBySims /\ OneConfiguration /\ WorkersInv /\ ScalerInv

LEMMA RememberingInit == Init => RememberingInv
<1> SUFFICES ASSUME Init PROVE RememberingInv
  OBVIOUS
<1>1. /\ \A p \in Procs : req[p].at = "none"
      /\ dying = {} /\ faults = 0 /\ Ours = {} /\ "main" \in Procs /\ phase = "running"
  BY ProcsTyped DEF Init, KubeInit, LifeInit, NoRequest, Ours
<1>2. command \in {"latency", "startup"} => \A o \in Objects : ~There(o)
  BY DEF Init, There
<1>3. TypeInv
  BY InitTyped
<1>4. RememberedBySims
  BY <1>1 DEF RememberedBySims
<1>5. OneConfiguration
  <2>1. \A i \in DOMAIN Entries : Entries[i] \in Objects
    BY LatencyAssumption
  <2>2. round \in DOMAIN Entries
    BY <1>3, LatencyAssumption DEF TypeInv, LatencyTypeOK
  <2> QED
    BY <1>1, <1>2, <2>1, <2>2 DEF OneConfiguration, OnlyMainAsks, Cfg
<1>6. WorkersInv
  <2>1. \A w \in Workers : doing[w] = "none" /\ \A i \in DOMAIN PodsOf[w] : PodsOf[w][i] \in Objects
    BY <1>3, PodsDiffer DEF Init, StartupInit, TypeInv
  <2>2. command = "startup" => \A w \in Workers : PodOfItsOwn(w)
    BY <1>1, <1>2, <2>1, ProcsTyped DEF PodOfItsOwn
  <2>3. LostByWorkers = {}
    BY <1>1 DEF LostByWorkers
  <2> QED
    BY <1>1, <2>2, <2>3, NothingLost DEF WorkersInv
<1>7. ScalerInv
  <2>1. /\ \A q \in ClusterProcs : at[q] = "idle"
        /\ created = {} /\ AppSims \cup {"scaler", "space", "nodes"} \subseteq ClusterProcs
        /\ PodNames \subseteq AppSims
    BY DEF Init, ClusterInit, ClusterProcs, AppSims
  <2>2. StagesInv
    BY <1>1, <2>1 DEF StagesInv, Resting
  <2>3. \A q \in Procs : RequestFits(q)
    BY <1>1 DEF RequestFits
  <2>4. SpacesInv
    <3>1. PICK before \in SUBSET Objects :
            /\ \A o \in before : NsOf[o] \in before \cup {None}
            /\ obj = [o \in Objects |-> IF o \in before THEN "others" ELSE "absent"]
      <4>1. config.found \subseteq Objects
        BY ClusterAssumption DEF Init, ClusterInit
      <4> QED
        BY <4>1 DEF Init
    <3>2. \A o \in Objects : There(o) <=> o \in before
      BY <3>1 DEF There
    <3>3. \A p \in PodNames : p \in Objects /\ NsOf[p] \in Objects \cup {None}
      BY NamesDiffer
    <3> QED
      BY <1>1, <3>1, <3>2, <3>3 DEF SpacesInv
  <2>5. LostByScaler = {}
    BY <1>1 DEF LostByScaler
  <2> QED
    BY <1>1, <2>2, <2>3, <2>4, <2>5, NothingLost DEF ScalerInv
<1> QED
  BY <1>4, <1>5, <1>6, <1>7 DEF RememberingInv

LEMMA RememberingInvariant == Spec => [](TypeInv /\ RememberingInv)
<1>1. TypeInv /\ OwnInv /\ RememberingInv /\ [Next]_vars => RememberingInv'
  BY SimsRemember, ConfigurationStays, WorkersKeep, ScalerNext DEF RememberingInv
<1> QED
  BY <1>1, RememberingInit, OwnInvariant, PTL DEF Spec

\* What is forgotten is in the set that is followed.
LEMMA FewForgotten ==
    ASSUME TypeInv, RememberingInv
    PROVE  NothingForgotten
<1>0. faults \in Nat
  BY DEF TypeInv, KubeInv, KubeTypeOK
<1> SUFFICES AtMost(Orphans, faults)
  BY DEF AtMost, NothingForgotten
<1>1. CASE Orphans = {}
  BY <1>0, <1>1, NothingLost
<1>2. CASE command = "cluster" /\ phase \in {"running", "waiting"}
  <2>1. StagesInv /\ AtMost(LostByScaler, faults)
    BY <1>2, ScalerInvParts DEF RememberingInv
  <2>2. \A p \in PodNames : Safe(p) => p \in PodsRemembered
    BY DEF Safe, PodsRemembered, OfPods
  <2>3. Orphans = (Ours \cap PodNames) \ PodsRemembered
    BY <1>2 DEF Orphans
  <2>4. Orphans \subseteq LostByScaler
    BY <2>2, <2>3 DEF LostByScaler
  <2> QED
    BY <1>0, <2>1, <2>4, AtMostShrinks
<1>3. CASE command = "reproduce" /\ phase \in {"running", "waiting"}
  <2>1. \A o \in Ours : \E a \in 1..Len(sims) : ObjectOf(a) = o /\ sims[a] \notin skipCleanup
    BY <1>3 DEF RememberingInv, RememberedBySims
  <2>2. Orphans = Ours \ {Docs[sims[i]].o : i \in {j \in DOMAIN sims : sims[j] \notin skipCleanup}}
    BY <1>3 DEF Orphans
  <2>3. DOMAIN sims = 1..Len(sims)
    BY DEF TypeInv, ReproduceInv, SimsInv
  <2> QED
    BY <1>1, <2>1, <2>2, <2>3 DEF ObjectOf
<1>4. CASE command = "latency"
  <2>1. Configured \subseteq {round}
    BY <1>4 DEF RememberingInv, OneConfiguration, Configured
  <2>2. Orphans = {Entries[i] : i \in Configured} \ {Cfg}
    BY <1>4 DEF Orphans
  <2> QED
    BY <1>1, <2>1, <2>2 DEF Cfg
<1>5. CASE command = "startup"
  <2>1. Orphans = (Ours \cap StartupPods) \ PodsHeld
    BY <1>5 DEF Orphans
  <2>2. \A w \in Workers : Holds(w) => PodOf(w) \in PodsHeld
    BY DEF Holds, PodsHeld
  <2>3. Orphans \subseteq LostByWorkers
    BY <2>1, <2>2 DEF LostByWorkers
  <2> QED
    BY <1>0, <1>5, <2>3, AtMostShrinks DEF RememberingInv, WorkersInv
<1> QED
  BY <1>1, <1>2, <1>3, <1>4, <1>5 DEF Orphans

\* A failed request loses at most one object, and nothing else loses any: not the
\* exchange of pods in a refresh (application.go:175), not the attempts to create a
\* pod (pod.go:66), not a start-up worker (podstartup.go:105), not a round of the
\* latency benchmark, not the reproduction of a dump: for any number of them all.
THEOREM NothingIsForgotten == Spec => []NothingForgotten
BY RememberingInvariant, FewForgotten, PTL
=============================================================================
