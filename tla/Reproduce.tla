----------------------------- MODULE Reproduce -----------------------------
(***************************************************************************)
(* pilot-load reproduce-cluster: the objects of a dump are created one     *)
(* after the other, kind by kind; a pod becomes an XDS simulation.         *)
(* Cleanup deletes in reverse order what was created; an object that was   *)
(* there already, or that a quota forbids, is left alone.  Whoever works   *)
(* in that cluster meanwhile may create the same objects.                  *)
(*                                                                         *)
(* Abstracted: decoding the documents of the file, and what is changed in  *)
(* an object before it is created.                                         *)
(***************************************************************************)
EXTENDS Execute, Sequences

CONSTANTS
    Docs,       \* the documents of the file: [o: the object, kind, denied: its name
                \* or its namespace is on a denylist]
    ConfigOnly  \* --config-only

VARIABLES todo,         \* documents that Run has still to get to
          sims,         \* those that became simulations, in order
          skipCleanup,  \* of these, those Cleanup leaves alone
          closing       \* Cleanup waits for the last one, an XDS simulation

reproduceVars == <<todo, sims, skipCleanup, closing>>

\* order: of these, the second to the thirteenth are Istio's
Order == <<"Namespace", "EnvoyFilter", "Telemetry", "ServiceEntry", "PeerAuthentication",
           "Sidecar", "VirtualService", "Gateway", "DestinationRule", "AuthorizationPolicy",
           "RequestAuthentication", "WorkloadEntry", "WorkloadGroup",
           "ConfigMap", "Service", "Endpoints", "ServiceAccount", "Pod">>

IstioKinds == {Order[k] : k \in 2..13}

\* parseInputs groups the documents by kind; kinds that are not in the list are
\* left out.  Run goes by kind in that order, and of a kind as in the file.
Listed == {i \in DOMAIN Docs : \E k \in DOMAIN Order : Order[k] = Docs[i].kind}
Rank(i) == CHOOSE k \in DOMAIN Order : Order[k] = Docs[i].kind
Earlier(i, j) == Rank(i) < Rank(j) \/ (Rank(i) = Rank(j) /\ i < j)

\* Istio's APIs are allowed in a denied namespace.
ShouldSkip(i) == Docs[i].denied /\ Docs[i].kind \notin IstioKinds
IsClient(i) == Docs[i].kind = "Pod" /\ ~ConfigOnly

\* A dump has one document of an object; what is created has its kind.
ASSUME ReproduceAssumption ==
    /\ \A i \in Listed : ~ShouldSkip(i) => Docs[i].o \in IF IsClient(i) THEN Clients ELSE Objects
    /\ \A i, j \in Listed : Docs[i].o = Docs[j].o => i = j
    /\ \A i \in Listed : Docs[i].o \in Namespaces <=> Docs[i].kind = "Namespace"

ReproduceTypeOK ==
    /\ todo \subseteq Listed
    /\ sims \in Seq(Listed)
    /\ skipCleanup \subseteq Listed
    /\ closing \in BOOLEAN

ReproduceInit ==
    /\ todo = Listed
    /\ sims = <<>>
    /\ skipCleanup = {}
    /\ closing = FALSE

\* The one Run has got to, or Cleanup
Current == sims[Len(sims)]

\* Run gets to document i.
GetsTo(i) ==
    /\ phase = "running" /\ Free("main") /\ ~ctxDone
    /\ i \in todo
    /\ \A j \in todo \ {i} : Earlier(i, j)
    /\ todo' = todo \ {i}

\* The file cannot be read: nothing is created.
ParseFails ==
    /\ todo = Listed
    /\ RunFails
    /\ UNCHANGED <<kubeVars, ctxDone, client, reproduceVars>>

SkipItem(i) ==
    /\ GetsTo(i)
    /\ ShouldSkip(i)
    /\ UNCHANGED <<baseVars, sims, skipCleanup, closing>>

\* A pod: an XDS simulation, which is run at once
RunItem(i) ==
    /\ GetsTo(i)
    /\ ~ShouldSkip(i) /\ IsClient(i)
    /\ RunClient(Docs[i].o)
    /\ sims' = Append(sims, i)
    /\ UNCHANGED <<kubeVars, phase, ctxDone, skipCleanup, closing>>

\* createSim.Run; the simulation is recorded first.
CreateItem(i) ==
    /\ GetsTo(i)
    /\ ~ShouldSkip(i) /\ ~IsClient(i)
    /\ sims' = Append(sims, i)
    /\ Ask("main", "create", Docs[i].o)
    /\ UNCHANGED <<lifeVars, skipCleanup, closing>>

\* A slip: what existed is cleaned up as well
ItemCreatedOrFound ==
    /\ phase = "running" /\ req["main"].at \in Answers
    /\ Forget("main")
    /\ UNCHANGED <<lifeVars, reproduceVars>>

\* An error is logged; it does not set skipCleanup.
ItemCreated ==
    /\ phase = "running" /\ req["main"].at \in Answers
    /\ skipCleanup' = IF Answered("main", "exists") THEN skipCleanup \cup {Current} ELSE skipCleanup
    /\ Forget("main")
    /\ UNCHANGED <<lifeVars, todo, sims, closing>>

\* The end of the dump, or of the context
ReproduceReturns ==
    /\ Free("main")
    /\ todo = {} \/ ctxDone
    /\ RunReturns
    /\ UNCHANGED <<kubeVars, ctxDone, client, reproduceVars>>
-----------------------------------------------------------------------------
(* Cleanup: AggregateSimulation.Cleanup of the simulations in reverse order. *)
(* sims gets shorter as they are done.                                       *)

Cleaning == phase = "cleaning" /\ sims # <<>>
Done == sims' = SubSeq(sims, 1, Len(sims) - 1)

UndoSkipped ==
    /\ Cleaning /\ Current \in skipCleanup
    /\ Done
    /\ UNCHANGED <<baseVars, todo, skipCleanup, closing>>

UndoCreated ==
    /\ Cleaning /\ Free("main")
    /\ ~IsClient(Current) /\ Current \notin skipCleanup
    /\ Ask("main", "delete", Docs[Current].o)
    /\ UNCHANGED <<lifeVars, reproduceVars>>

\* An error does not stop the cleanup.
Undone ==
    /\ Cleaning /\ req["main"].at \in Answers
    /\ Done
    /\ Forget("main")
    /\ UNCHANGED <<lifeVars, todo, skipCleanup, closing>>

UndoClient ==
    /\ Cleaning /\ IsClient(Current) /\ ~closing
    /\ CancelClient(Docs[Current].o)
    /\ closing' = TRUE
    /\ UNCHANGED <<kubeVars, phase, ctxDone, todo, sims, skipCleanup>>

ClientUndone ==
    /\ closing /\ client[Docs[Current].o] = "closed"
    /\ closing' = FALSE
    /\ Done
    /\ UNCHANGED <<baseVars, todo, skipCleanup>>

ReproduceExits ==
    /\ sims = <<>>
    /\ Exit
    /\ UNCHANGED <<kubeVars, reproduceVars>>
-----------------------------------------------------------------------------
\* Somebody else creates an object of the dump.
OthersCreate ==
    /\ \E i \in Listed :
          /\ Docs[i].o \in Objects
          /\ ~There(Docs[i].o) /\ MayCreate(Docs[i].o)
          /\ obj' = [obj EXCEPT ![Docs[i].o] = "others"]
    /\ UNCHANGED <<dying, req, faults, unsure, lifeVars, reproduceVars>>

ReproduceStep(p) ==
    /\ p = "main"
    /\ \/ ParseFails
       \/ \E i \in Listed : SkipItem(i) \/ RunItem(i) \/ CreateItem(i)
       \/ ItemCreated \/ ReproduceReturns
       \/ UndoSkipped \/ UndoCreated \/ Undone \/ UndoClient \/ ClientUndone \/ ReproduceExits
=============================================================================
