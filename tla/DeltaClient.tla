---------------------------- MODULE DeltaClient ----------------------------
(***************************************************************************)
(* adsc/delta.go: the delta XDS client.  It watches the two wildcard types *)
(* (clusters and listeners), keeps a tree of the resources it was sent and *)
(* of the resources those refer to (endpoints and routes), and subscribes  *)
(* to what enters the tree and unsubscribes from what its parents take     *)
(* along when they are removed.                                            *)
(*                                                                         *)
(* The server is external: it holds a configuration, knows what each       *)
(* stream watches and is subscribed to, pushes what changed, and answers   *)
(* requests in the order they were sent.  A route or endpoint exists while *)
(* some listener or cluster refers to it.                                  *)
(*                                                                         *)
(* A node's Parents and Children are one relation here: relate and         *)
(* deleteNode always change both ends.  The two root nodes, which are the  *)
(* parents of every cluster and listener and never removed, are left out.  *)
(***************************************************************************)
EXTENDS Integers, Sequences, FiniteSets, Functions

CONSTANTS InitialWatches, \* the wildcard types, in the order they are watched
          Parents,     \* names of clusters and listeners
          Leaves,      \* names of endpoints and routes
          TypeOf,      \* TypeOf[p]: the wildcard type of p
          ChildType,   \* ChildType[t]: the type the resources of t refer to
          LeafTypeOf,  \* LeafTypeOf[l]: the type of leaf l
          MaxChanges   \* bound: changes of the configuration

Types == Range(InitialWatches)

ASSUME DeltaClientAssumption ==
    /\ InitialWatches \in Seq(Types)
    /\ IsInjective(InitialWatches)
    /\ TypeOf \in [Parents -> Types]
    /\ LeafTypeOf \in [Leaves -> {ChildType[t] : t \in Types}]
    /\ IsInjective(ChildType)
    /\ DOMAIN ChildType = Types
    /\ Types \cap {ChildType[t] : t \in Types} = {}
    /\ Parents \cap Leaves = {}
    /\ MaxChanges \in Nat

LeafTypes == {ChildType[t] : t \in Types}
AllTypes == Types \cup LeafTypes
Names == Parents \cup Leaves

\* What a parent may refer to: a cluster its endpoints, a listener routes.
Referable(p) == {l \in Leaves : LeafTypeOf[l] = ChildType[TypeOf[p]]}

\* A configuration: the parents there are, with what they refer to.
Configs == {c \in UNION {[P -> SUBSET Leaves] : P \in SUBSET Parents} :
                \A p \in DOMAIN c : c[p] \subseteq Referable(p)}

IsConfig(c) ==
    /\ DOMAIN c \subseteq Parents
    /\ \A p \in DOMAIN c : c[p] \subseteq Referable(p)

NoResources == [p \in {} |-> {}]

VARIABLES
    \* the client
    nodes,      \* the keys of d.tree
    edges,      \* <<parent, child>>: Children and Parents of the nodes
    resources,  \* d.resources: the names known of each type
    unwatched,  \* the initial watches not yet sent
    \* the stream
    toClient,   \* responses on their way
    toServer,   \* requests on their way
    \* the server
    config,     \* the configuration
    pushed,     \* the configuration as this stream was sent it
    watched,    \* the wildcard types this stream watches
    subs,       \* the leaves this stream is subscribed to
    unacked,    \* responses sent and not acknowledged
    changes,    \* how often the configuration has changed
    \* history
    cut,        \* leaves unsubscribed while another parent refers to them
    dropped     \* leaves the server itself removed from the tree

clientVars == <<nodes, edges, resources, unwatched>>
serverVars == <<config, pushed, watched, subs, unacked, changes>>
vars == <<clientVars, toClient, toServer, serverVars, cut, dropped>>

\* A stream just dialled, and the client DialDelta makes for it.
FreshStream ==
    /\ nodes = {}
    /\ edges = {}
    /\ resources = [t \in AllTypes |-> {}]
    /\ unwatched = InitialWatches
    /\ toClient = <<>>
    /\ toServer = <<>>
    /\ pushed = NoResources
    /\ watched = {}
    /\ subs = {}
    /\ unacked = 0
    /\ cut = {}
    /\ dropped = {}

Init ==
    /\ FreshStream
    /\ config \in Configs
    /\ changes = 0
-----------------------------------------------------------------------------
(* Messages *)

Response(t, added, removed) == [type |-> t, added |-> added, removed |-> removed]

Watch(t) == [kind |-> "watch", type |-> t]
Change(t, sub, unsub) ==
    [kind |-> "change", type |-> t, sub |-> sub, unsub |-> unsub]
Ack(t) == [kind |-> "ack", type |-> t]

OfType(S, t) == {l \in S : LeafTypeOf[l] = t}
-----------------------------------------------------------------------------
(* The server *)

\* The leaves that configuration c refers to.
Existing(c) == UNION {c[p] : p \in DOMAIN c}

\* The leaves S as a response made from c carries them: the ones there are,
\* which refer to nothing themselves, and the ones there are not.
LeafResponse(t, S, c) ==
    Response(t, [l \in S \cap Existing(c) |-> {}], S \ Existing(c))

\* One parent is added, removed or refers to other leaves.
Reconfigure ==
    /\ changes < MaxChanges
    /\ changes' = changes + 1
    /\ \E p \in Parents :
          \/ /\ p \in DOMAIN config
             /\ config' = Restrict(config, DOMAIN config \ {p})
          \/ \E S \in SUBSET Referable(p) :
                /\ p \in DOMAIN config => S # config[p]
                /\ config' = [q \in DOMAIN config \cup {p} |->
                                 IF q = p THEN S ELSE config[q]]
    /\ UNCHANGED <<clientVars, toClient, toServer, pushed, watched, subs,
                   unacked, cut, dropped>>

\* The parents of type t that this stream was not sent as they are now.
Changed(t) ==
    {p \in DOMAIN config :
        TypeOf[p] = t /\ (p \in DOMAIN pushed => pushed[p] # config[p])}
Vanished(t) == {p \in DOMAIN pushed \ DOMAIN config : TypeOf[p] = t}

ParentResponse(t) == Response(t, Restrict(config, Changed(t)), Vanished(t))

PushedNow(t) ==
    [p \in {q \in DOMAIN pushed : TypeOf[q] # t}
             \cup {q \in DOMAIN config : TypeOf[q] = t} |->
        IF TypeOf[p] = t THEN config[p] ELSE pushed[p]]

\* A push sends the parents of one type that changed, then what the stream is
\* subscribed to of the type they refer to.
Push(t) ==
    /\ t \in watched
    /\ Changed(t) \cup Vanished(t) # {}
    /\ LET leaves == OfType(subs, ChildType[t])
           new == IF leaves = {} THEN <<ParentResponse(t)>>
                  ELSE <<ParentResponse(t), LeafResponse(ChildType[t], leaves, PushedNow(t))>>
       IN  /\ toClient' = toClient \o new
           /\ unacked' = unacked + Len(new)
    /\ pushed' = PushedNow(t)
    /\ UNCHANGED <<clientVars, toServer, config, watched, subs, changes,
                   cut, dropped>>

ServeWatch(t) ==
    /\ watched' = watched \cup {t}
    /\ toClient' = Append(toClient, ParentResponse(t))
    /\ pushed' = PushedNow(t)
    /\ unacked' = unacked + 1
    /\ UNCHANGED subs

\* A subscription is answered with the resources it names, as of the last push.
ServeChange(m) ==
    /\ subs' = (subs \cup m.sub) \ m.unsub
    /\ IF m.sub = {}
       THEN UNCHANGED <<toClient, unacked>>
       ELSE /\ toClient' = Append(toClient, LeafResponse(m.type, m.sub, pushed))
            /\ unacked' = unacked + 1
    /\ UNCHANGED <<watched, pushed>>

ServeAck ==
    /\ unacked' = unacked - 1
    /\ UNCHANGED <<toClient, watched, pushed, subs>>

Serve ==
    /\ toServer # <<>>
    /\ LET m == Head(toServer)
       IN  \/ m.kind = "watch" /\ ServeWatch(m.type)
           \/ m.kind = "change" /\ ServeChange(m)
           \/ m.kind = "ack" /\ ServeAck
    /\ toServer' = Tail(toServer)
    /\ UNCHANGED <<clientVars, config, changes, cut, dropped>>
-----------------------------------------------------------------------------
(* The client: what handleRecv makes of a response m *)

\* The resources of m that are not ignored: those of a wildcard type, and
\* those that are in the tree.
Matched(m) == {n \in DOMAIN m.added : m.type \in Types \/ n \in nodes}

Referenced(m) == UNION {m.added[n] : n \in Matched(m)}

\* A slip: a reference is requested only when its parent is new as well
RequestsOfNewParents(m) ==
    UNION {m.added[n] : n \in Matched(m) \ nodes} \ nodes

\* extractReferencedKeys, getNode and relate: a leaf not in the tree is
\* entered and requested.
Requests(m) == Referenced(m) \ nodes

NodesAdded(m) == nodes \cup Matched(m) \cup Referenced(m)

\* A slip: a reference is related only when its node is new
EdgesAddedOnce(m) ==
    edges \cup {e \in Matched(m) \X Leaves : e[2] \in m.added[e[1]] \ nodes}

EdgesAdded(m) == edges \cup {e \in Matched(m) \X Leaves : e[2] \in m.added[e[1]]}

Removed(m) == m.removed \cap NodesAdded(m)

\* A slip: deleteNode only takes the node out of the tree
EdgesLeftDangling(m) == EdgesAdded(m)

\* deleteNode on the removed nodes: their edges go, and with them the children
\* that have no parent left.
EdgesLeft(m) == {e \in EdgesAdded(m) : e[1] \notin Removed(m) /\ e[2] \notin Removed(m)}

\* Every child of a removed node is unsubscribed, whatever other parents it has.
Removals(m) == {l \in Leaves : \E p \in Removed(m) : <<p, l>> \in EdgesAdded(m)}

NodesLeft(m) ==
    LET orphans == {l \in Removals(m) : ~\E e \in EdgesLeft(m) : e[2] = l}
    IN  NodesAdded(m) \ (Removed(m) \cup orphans)

NamesLeft(m) == (resources[m.type] \cup Matched(m)) \ m.removed
-----------------------------------------------------------------------------
(* Slips *)

\* only subscriptions are sent
SendChangesSubscribe(m) ==
    IF Requests(m) # {} THEN <<Change(ChildType[m.type], Requests(m), {})>> ELSE <<>>

\* every response of a type that is not wildcard is ignored, and not answered
SendAckParentsOnly(m) == IF m.type \in Types THEN <<Ack(m.type)>> ELSE <<>>

\* Watch returns after the request that carries the node
SendWatchFirst ==
    /\ unwatched # <<>>
    /\ unwatched' = <<>>
    /\ toServer' = Append(toServer, Watch(Head(unwatched)))
    /\ UNCHANGED <<nodes, edges, resources, toClient, serverVars, cut, dropped>>
-----------------------------------------------------------------------------
(* The client: its steps *)

\* Connect's goroutine sends the initial watches, one after the other.
SendWatch ==
    /\ unwatched # <<>>
    /\ unwatched' = Tail(unwatched)
    /\ toServer' = Append(toServer, Watch(Head(unwatched)))
    /\ UNCHANGED <<nodes, edges, resources, toClient, serverVars, cut, dropped>>

SendAck(m) == <<Ack(m.type)>>

\* One request for the leaf type that requests or removals name, and the same
\* request again when both name it: keysOfMaps lists the type twice.
SendChanges(m) ==
    LET t == ChildType[m.type]
        change == <<Change(t, Requests(m), Removals(m))>>
    IN  (IF Requests(m) # {} THEN change ELSE <<>>)
            \o (IF Removals(m) # {} THEN change ELSE <<>>)

HandleRecv ==
    /\ toClient # <<>>
    /\ LET m == Head(toClient)
       IN  /\ nodes' = NodesLeft(m)
           /\ edges' = EdgesLeft(m)
           /\ resources' = [resources EXCEPT ![m.type] = NamesLeft(m)]
           /\ toServer' = toServer
                  \o (IF m.type \in Types THEN SendChanges(m) ELSE <<>>)
                  \o SendAck(m)
           /\ cut' = (cut \ Requests(m)) \cup (Removals(m) \cap NodesLeft(m))
           /\ dropped' = (dropped \ Requests(m)) \cup (Removed(m) \cap Leaves)
    /\ toClient' = Tail(toClient)
    /\ UNCHANGED <<unwatched, serverVars>>

\* The stream breaks; Connect dials again, with a new client.
Redial ==
    /\ nodes' = {}
    /\ edges' = {}
    /\ resources' = [t \in AllTypes |-> {}]
    /\ unwatched' = InitialWatches
    /\ toClient' = <<>>
    /\ toServer' = <<>>
    /\ pushed' = NoResources
    /\ watched' = {}
    /\ subs' = {}
    /\ unacked' = 0
    /\ cut' = {}
    /\ dropped' = {}
    /\ UNCHANGED <<config, changes>>
-----------------------------------------------------------------------------
Next ==
    \/ Reconfigure
    \/ \E t \in Types : Push(t)
    \/ SendWatch
    \/ Serve
    \/ HandleRecv
    \/ Redial

Spec == Init /\ [][Next]_vars

\* The stream delivers what is sent on it while it is up, both ends go on
\* reading, and the server pushes what changed.
Fairness ==
    /\ \A t \in Types : WF_vars(Push(t))
    /\ WF_vars(SendWatch)
    /\ WF_vars(Serve)
    /\ WF_vars(HandleRecv)

FairSpec == Spec /\ Fairness
-----------------------------------------------------------------------------
(* Properties *)

\* The tree joins parents to leaves, no leaf outlives its parents, d.resources
\* names nodes by type, and the server counts no acknowledgement twice.
TypeOK ==
    /\ nodes \subseteq Names
    /\ edges \subseteq nodes \X nodes
    /\ edges \subseteq Parents \X Leaves
    /\ \A l \in nodes \cap Leaves : \E p \in nodes : <<p, l>> \in edges
    /\ resources \in [AllTypes -> SUBSET Names]
    /\ unwatched \in Seq(Types)
    /\ IsConfig(config)
    /\ IsConfig(pushed)
    /\ watched \subseteq Types
    /\ subs \subseteq Leaves
    /\ unacked \in Nat
    /\ changes \in 0..MaxChanges
    /\ cut \subseteq Leaves
    /\ dropped \subseteq Leaves

\* A request that ends, or makes, the subscription to l.
Ends(m, l) == m.kind = "change" /\ l \in m.unsub
Makes(m, l) == m.kind = "change" /\ l \in m.sub /\ l \notin m.unsub

\* The leaves whose last subscription, of those in S and those the requests q
\* make, no later request ends.
SubscribedAfter(S, q) ==
    {l \in Leaves :
        \/ l \in S /\ \A i \in DOMAIN q : ~Ends(q[i], l)
        \/ \E i \in DOMAIN q : /\ Makes(q[i], l)
                              /\ \A j \in DOMAIN q : j > i => ~Ends(q[j], l)}

\* The subscriptions once every request on its way has arrived.
Asked == SubscribedAfter(subs, toServer)

\* The client is subscribed to nothing it has dropped from its tree by itself:
\* only a leaf the server removed can still be subscribed to.
NoStraySubscription == Asked \subseteq nodes \cup dropped

\* What enters the tree is subscribed to until it leaves it.  The one exception
\* is a leaf that several parents refer to, one of which was removed.
TreeIsSubscribed == nodes \cap Leaves \subseteq Asked \cup cut

\* The same without the exception: by the XDS spec the types of leaves are not
\* wildcard (delta.go:370), so that the client must ask for each it refers to.
ReferencedIsSubscribed == nodes \cap Leaves \subseteq Asked

\* When nothing is on its way, the client has the configuration it was sent:
\* the parents there are, under d.resources too, each joined to all it refers
\* to, however changes, subscriptions and removals crossed on the stream.
TreeMatchesConfig ==
    toClient = <<>> =>
        /\ nodes \cap Parents = DOMAIN pushed
        /\ UNION {resources[t] : t \in Types} = DOMAIN pushed
        /\ \A p \in DOMAIN pushed : {p} \X pushed[p] \subseteq edges

\* Every response is acknowledged once, and none is left unanswered.
AllAcknowledged == toClient = <<>> /\ toServer = <<>> => unacked = 0

\* A step that breaks a stream on which something was sent.
Breaks == unwatched # InitialWatches /\ unwatched' = InitialWatches

\* A stream that is not broken for ever and again brings the client up to the
\* last configuration, and leaves nothing on its way.
CatchesUp ==
    <>[][~Breaks]_vars =>
        <>[](toClient = <<>> /\ nodes \cap Parents = DOMAIN config)
=============================================================================
