----------------------------- MODULE AdscClient -----------------------------
(***************************************************************************)
(* adsc/adsc.go: the state-of-the-world XDS client.  It watches clusters,  *)
(* then listeners; a response of clusters says which endpoints to watch,   *)
(* one of listeners which routes, secrets and extensions.  Every response  *)
(* is acknowledged with its nonce.  Connect keeps such a client; Fetch, in *)
(* adsc/load.go, makes one to collect a response of each type.             *)
(*                                                                         *)
(* The server is external.  A request carries the whole list of names and  *)
(* the nonce of the last response the client saw of that type.  One with   *)
(* no nonce starts a watch.  The server ignores a request whose nonce is   *)
(* not the last it sent, as it answers an older state; no names end a      *)
(* watch; new names are answered.                                          *)
(*                                                                         *)
(* A response of clusters or listeners is the set of names it refers to.   *)
(***************************************************************************)
EXTENDS Integers, Sequences, SequencesExt

CONSTANTS CDS, LDS, EDS, RDS,  \* clusters, listeners, endpoints, routes
          Optional,   \* secrets and extensions: watched once referred to
          Names,      \* names of endpoints, routes, secrets, extensions
          TypeOf,     \* TypeOf[n]: the type of the resource named n
          Configs,    \* the sets of names a configuration may refer to
          UpdCap,     \* capacity of the updates channel (100)
          MaxChanges  \* bound: changes at the server

Parents == {CDS, LDS}
Leaves == {EDS, RDS} \cup Optional
Types == Parents \cup Leaves

ASSUME AdscClientAssumption ==
    /\ TypeOf \in [Names -> Leaves]
    /\ Configs \subseteq SUBSET Names
    /\ Parents \cap Leaves = {}
    /\ CDS # LDS /\ EDS # RDS /\ EDS \notin Optional /\ RDS \notin Optional
    /\ IsFiniteSet(Optional)
    /\ "close" \notin Types
    /\ UpdCap \in Nat \ {0}
    /\ MaxChanges \in Nat

\* The types a response of type t refers to.
Children(t) == CASE t = CDS -> {EDS}
                 [] t = LDS -> {RDS} \cup Optional
                 [] OTHER -> {}

OfTypes(S, T) == {n \in S : TypeOf[n] \in T}

VARIABLES
    \* the client
    watches,      \* a.watches: names and last nonce of each type; 0 for none
    initialLoad,  \* have listeners been asked for?
    responses,    \* a.responses: the names of the last response of each type
    updates,      \* the channel to Connect or Fetch
    \* the stream
    toClient,
    toServer,
    broken,       \* has the stream ended?
    \* the server
    config,       \* the names that clusters and listeners refer to
    watching,     \* the types this stream watches
    subs,         \* subs[t]: the names it watches of type t
    sent,         \* sent[t]: the nonce of the last response of type t
    acked,        \* acked[t]: the last nonce acknowledged
    stale,        \* the types to be pushed since the configuration changed
    changes,      \* how often the server has changed
    \* Fetch
    fetch,        \* where it is; "none" when Connect keeps the client
    missing,      \* watchAll: the types not received yet
    result        \* what it returns

clientVars == <<watches, initialLoad, responses, updates>>
serverVars == <<config, watching, subs, sent, acked, stale, changes>>
fetchVars == <<fetch, missing, result>>
vars == <<clientVars, toClient, toServer, broken, serverVars, fetchVars>>

Request(t, nonce, names) == [type |-> t, nonce |-> nonce, names |-> names]
Response(t, nonce, names) == [type |-> t, nonce |-> nonce, names |-> names]

FetchTypes == {CDS, EDS, RDS, LDS}

\* Dial, and Watch, which asks for clusters; by Connect or by Fetch
Init ==
    /\ watches = [t \in Types |-> [names |-> {}, nonce |-> 0]]
    /\ initialLoad = FALSE
    /\ responses = [t \in Types |-> {}]
    /\ updates = <<>>
    /\ toClient = <<>>
    /\ toServer = <<Request(CDS, 0, {})>>
    /\ broken = FALSE
    /\ config \in Configs
    /\ watching = {}
    /\ subs = [t \in Leaves |-> {}]
    /\ sent = [t \in Types |-> 0]
    /\ acked = [t \in Types |-> 0]
    /\ stale = {}
    /\ changes = 0
    /\ fetch \in {"none", "reading"}
    /\ missing = IF fetch = "none" THEN {} ELSE FetchTypes
    /\ result = [t \in Types |-> {}]
-----------------------------------------------------------------------------
(* The server *)

\* The configuration becomes another.
Reconfigure ==
    /\ ~broken
    /\ changes < MaxChanges
    /\ changes' = changes + 1
    /\ config' \in Configs \ {config}
    /\ stale' = watching
    /\ UNCHANGED <<clientVars, toClient, toServer, broken, watching, subs, sent,
                   acked, fetchVars>>

\* A response of type t with the names S.
Respond(t, S) ==
    /\ toClient' = Append(toClient, Response(t, sent[t] + 1, S))
    /\ sent' = [sent EXCEPT ![t] = @ + 1]

\* What the stream held, and what the server knew of it, is gone.
EndStream ==
    /\ broken' = TRUE
    /\ toClient' = <<>>
    /\ toServer' = <<>>
    /\ watching' = {}
    /\ subs' = [t \in Leaves |-> {}]
    /\ sent' = [t \in Types |-> 0]
    /\ acked' = [t \in Types |-> 0]
    /\ stale' = {}
    /\ UNCHANGED <<config, changes>>

Content(t) == IF t \in Parents THEN OfTypes(config, Children(t)) ELSE subs[t]

Push(t) ==
    /\ ~broken
    /\ t \in stale
    /\ Respond(t, Content(t))
    /\ stale' = stale \ {t}
    /\ UNCHANGED <<clientVars, toServer, broken, config, watching, subs, acked,
                   changes, fetchVars>>

\* Some endpoints change: only theirs are sent.
PushEndpoints ==
    /\ ~broken
    /\ changes < MaxChanges
    /\ changes' = changes + 1
    /\ EDS \in watching
    /\ \E n \in subs[EDS] : Respond(EDS, {n})
    /\ UNCHANGED <<clientVars, toServer, broken, config, watching, subs, acked,
                   stale, fetchVars>>

\* The first request of a type, one without a nonce, or the first after its
\* watch was ended.
ServeFirst(m) ==
    /\ watching' = watching \cup {m.type}
    /\ subs' = IF m.type \in Leaves THEN [subs EXCEPT ![m.type] = m.names] ELSE subs
    /\ Respond(m.type, IF m.type \in Leaves THEN m.names ELSE Content(m.type))
    /\ stale' = stale \ {m.type}
    /\ UNCHANGED acked

ServeUnwatch(m) ==
    /\ watching' = watching \ {m.type}
    /\ subs' = [subs EXCEPT ![m.type] = {}]
    /\ stale' = stale \ {m.type}
    /\ UNCHANGED <<toClient, sent, acked>>

\* An acknowledgement, or a list that has changed: names that are new are
\* answered, alone or with the others.
ServeNext(m) ==
    /\ acked' = [acked EXCEPT ![m.type] = m.nonce]
    /\ IF m.type \in Parents
       THEN UNCHANGED <<subs, toClient, sent>>
       ELSE /\ subs' = [subs EXCEPT ![m.type] = m.names]
            /\ LET new == m.names \ subs[m.type]
               IN  IF new = {} THEN UNCHANGED <<toClient, sent>>
                   ELSE \E S \in {new, m.names} : Respond(m.type, S)
    /\ UNCHANGED <<watching, stale>>

Serve ==
    /\ ~broken
    /\ toServer # <<>>
    /\ LET m == Head(toServer)
       IN  IF m.type \in Leaves /\ m.names = {} THEN ServeUnwatch(m)
           ELSE IF m.nonce = 0 \/ m.type \notin watching THEN ServeFirst(m)
           ELSE IF m.nonce = sent[m.type] THEN ServeNext(m)
           ELSE UNCHANGED <<watching, subs, toClient, sent, acked, stale>>
    /\ toServer' = Tail(toServer)
    /\ UNCHANGED <<clientVars, broken, config, changes, fetchVars>>
-----------------------------------------------------------------------------
(* The client: handleRecv on a response m *)

\* A slip: endpoints are acknowledged like the other types
AckNamesReceived(m) == IF m.type \in Leaves THEN m.names ELSE {}

\* An acknowledgement names what the response held, and no clusters or
\* listeners; for endpoints it names all that are watched.
AckNames(m) ==
    IF m.type = EDS THEN watches[EDS].names
    ELSE IF m.type \in Leaves THEN m.names
    ELSE {}

\* A slip: the nonce acknowledged is the one noted before
AckNonceBefore(m) == watches[m.type].nonce

AckNonce(m) == m.nonce

Ack(m) == <<Request(m.type, AckNonce(m), AckNames(m))>>

\* A slip: what refers to a secret is taken to refer to a route as well
RefsOfAny(m, t) == m.names

\* The names of type t that a response refers to.
Refs(m, t) == OfTypes(m.names, {t})

\* handleResourceUpdate: the types whose list of names has changed; secrets
\* and extensions only when there are any
Updated(m) ==
    {t \in Children(m.type) :
        /\ watches[t].names # Refs(m, t)
        /\ t \in Optional => Refs(m, t) # {}}

RequestsFor(m) ==
    [i \in 1..Len(SetToSeq(Updated(m))) |->
        LET t == SetToSeq(Updated(m))[i]
        IN  Request(t, watches[t].nonce, Refs(m, t))]

\* A slip: listeners are asked for only when there are endpoints to wait for
AsksListenersLate(m) == m.type = CDS /\ ~initialLoad /\ m.names # {}

\* The first clusters make the client ask for listeners.
AsksListeners(m) == m.type = CDS /\ ~initialLoad

\* A slip: the update is reported only when the channel is empty
ReportsWhenEmpty(m) == fetch # "none" /\ updates = <<>>

\* An update is reported unless the channel is full.  Connect only logs them.
Reports(m) == fetch # "none" /\ Len(updates) < UpdCap

HandleRecv ==
    /\ ~broken
    /\ toClient # <<>>
    /\ LET m == Head(toClient)
       IN  /\ watches' = [t \in Types |->
                  [names |-> IF t \in Updated(m) THEN Refs(m, t) ELSE watches[t].names,
                   nonce |-> IF t = m.type THEN m.nonce ELSE watches[t].nonce]]
           /\ responses' = IF fetch = "none" THEN responses  \* a.store is false
                           ELSE [responses EXCEPT ![m.type] = m.names]
           /\ toServer' = toServer \o Ack(m) \o RequestsFor(m)
                  \o (IF AsksListeners(m) THEN <<Request(LDS, 0, {})>> ELSE <<>>)
           /\ initialLoad' = (initialLoad \/ AsksListeners(m))
           /\ updates' = IF Reports(m) THEN Append(updates, m.type) ELSE updates
    /\ toClient' = Tail(toClient)
    /\ UNCHANGED <<broken, serverVars, fetchVars>>

\* Recv fails: the channel is emptied, and "close" put into it.
StreamBreaks ==
    /\ ~broken
    /\ EndStream
    /\ updates' = IF fetch = "none" THEN updates ELSE <<"close">>
    /\ UNCHANGED <<watches, initialLoad, responses, fetchVars>>
-----------------------------------------------------------------------------
(* Fetch *)

\* A slip: the first update ends the loop
FetchUpdateFirst ==
    /\ fetch = "reading"
    /\ updates # <<>>
    /\ updates' = Tail(updates)
    /\ missing' = missing \ {Head(updates)}
    /\ fetch' = "fetched"
    /\ UNCHANGED <<watches, initialLoad, responses, toClient, toServer, broken,
                   serverVars, result>>

\* An update is crossed off; the loop ends when none is missing, and at "close".
FetchUpdate ==
    /\ fetch = "reading"
    /\ updates # <<>>
    /\ updates' = Tail(updates)
    /\ missing' = missing \ {Head(updates)}
    /\ fetch' = CASE Head(updates) = "close" -> "closed"
                  [] missing' = {} -> "fetched"
                  [] OTHER -> "reading"
    /\ UNCHANGED <<watches, initialLoad, responses, toClient, toServer, broken,
                   serverVars, result>>

\* Close, and the responses as they are: the receiver may have handled
\* another one since the loop ended.
FetchReturn ==
    /\ fetch \in {"fetched", "closed"}
    /\ fetch' = IF fetch = "fetched" THEN "returned" ELSE "gaveUp"
    /\ result' = responses
    /\ EndStream
    /\ UNCHANGED <<clientVars, missing>>

\* The context is done: Close, and an error.
FetchCancelled ==
    /\ fetch = "reading"
    /\ fetch' = "cancelled"
    /\ EndStream
    /\ UNCHANGED <<clientVars, missing, result>>
-----------------------------------------------------------------------------
Next ==
    \/ Reconfigure
    \/ \E t \in Types : Push(t)
    \/ PushEndpoints
    \/ Serve
    \/ HandleRecv
    \/ StreamBreaks
    \/ FetchUpdate \/ FetchReturn \/ FetchCancelled

Spec == Init /\ [][Next]_vars

\* Both ends of a stream read what is sent, the server pushes what changed,
\* and Fetch reads its updates.
Fairness ==
    /\ \A t \in Types : WF_vars(Push(t))
    /\ WF_vars(Serve)
    /\ WF_vars(HandleRecv)
    /\ WF_vars(FetchUpdate)
    /\ WF_vars(FetchReturn)

FairSpec == Spec /\ Fairness
-----------------------------------------------------------------------------
(* Properties *)

\* Names are watched under their own type, nonces are those sent, and no more
\* updates wait than fit.
TypeOK ==
    /\ watches \in [Types -> [names : SUBSET Names, nonce : Nat]]
    /\ \A t \in Types : OfTypes(watches[t].names, {t}) = watches[t].names
    /\ ~broken => \A t \in Types : /\ acked[t] <= watches[t].nonce
                                  /\ watches[t].nonce <= sent[t]
    /\ initialLoad \in BOOLEAN
    /\ responses \in [Types -> SUBSET Names]
    /\ updates \in Seq(Types \cup {"close"})
    /\ Len(updates) <= UpdCap
    /\ broken \in BOOLEAN
    /\ config \in Configs
    /\ watching \subseteq Types
    /\ subs \in [Leaves -> SUBSET Names]
    /\ stale \subseteq watching
    /\ changes \in 0..MaxChanges
    /\ fetch \in {"none", "reading", "fetched", "closed", "returned", "gaveUp", "cancelled"}
    /\ missing \subseteq FetchTypes
    /\ result \in [Types -> SUBSET Names]

Quiet == ~broken /\ toClient = <<>> /\ toServer = <<>>

\* When nothing is on its way, the server has the client's list of endpoints,
\* although requests with an old nonce were ignored on the way, and responses
\* held some of the endpoints only.
EndpointsWatched == Quiet => subs[EDS] = watches[EDS].names

\* The same of routes.  "In ack envoy should ack for all" (adsc.go:706): an
\* acknowledgement must not change what is watched.
RoutesWatched == Quiet => subs[RDS] = watches[RDS].names

\* When nothing is on its way, the last response of each type the server
\* still watches has been acknowledged.
AllAcknowledged == Quiet => \A t \in watching : acked[t] = sent[t]

\* A stream that lasts brings the client to watch what the last configuration
\* refers to, listeners included, whatever the first clusters were.  Secrets
\* and extensions that nothing refers to any more stay watched.
FollowsConfig ==
    <>[](\/ broken
         \/ \A t \in Leaves :
                \/ watches[t].names = OfTypes(config, {t})
                \/ t \in Optional /\ OfTypes(config, {t}) = {})

\* A fetch that returns with everything has the endpoints of its clusters and
\* the routes of its listeners, unless the server changed meanwhile.
FetchedIsComplete ==
    fetch = "returned" /\ changes = 0 =>
        /\ result[EDS] = result[CDS]
        /\ result[RDS] = OfTypes(result[LDS], {RDS})
        /\ result[CDS] \cup result[LDS] = config

\* A fetch ends, if there always are endpoints and routes to wait for.
FetchEnds ==
    [](OfTypes(config, {EDS}) # {} /\ OfTypes(config, {RDS}) # {}) =>
        (fetch = "reading" ~> fetch # "reading")
=============================================================================
