------------------------- MODULE DeltaClient_proofs -------------------------
(***************************************************************************)
(* The delta client agrees with the server, whatever crosses on the        *)
(* stream: its tree is the configuration it was sent, it is subscribed to  *)
(* what is in its tree, and it answers every response once.  For every set *)
(* of resources and every number of changes and reconnects.                *)
(***************************************************************************)
EXTENDS DeltaClient, FiniteSetTheorems, FunctionTheorems, SequenceTheorems, TLAPS

(* What travels on the stream *)

ParentsOf(t) == {p \in Parents : TypeOf[p] = t}

\* A response of a wildcard type holds parents of that type, no parent both
\* added and removed; one of another type holds leaves, which refer to nothing.
Responses ==
    {m \in [type : AllTypes,
            added : UNION {[P -> SUBSET Leaves] : P \in SUBSET Names},
            removed : SUBSET Names] :
        IF m.type \in Types
        THEN /\ DOMAIN m.added \subseteq ParentsOf(m.type)
             /\ m.removed \subseteq ParentsOf(m.type) \ DOMAIN m.added
             /\ \A p \in DOMAIN m.added : m.added[p] \subseteq Referable(p)
        ELSE /\ DOMAIN m.added \subseteq Leaves
             /\ m.removed \subseteq Leaves
             /\ \A l \in DOMAIN m.added : m.added[l] = {}}

ClientRequests ==
    [kind : {"watch"}, type : Types] \cup [kind : {"ack"}, type : AllTypes]
    \cup [kind : {"change"}, type : LeafTypes, sub : SUBSET Leaves, unsub : SUBSET Leaves]

\* How many of the requests q are acknowledgements.
AcksIn(q) == {i \in 1..Len(q) : q[i].kind = "ack"}
Acks(q) == Cardinality(AcksIn(q))

StreamInv ==
    /\ toClient \in Seq(Responses)
    /\ toServer \in Seq(ClientRequests)
    /\ unwatched \in Seq(Types)
    /\ watched \subseteq Types
    /\ subs \subseteq Leaves
    /\ cut \subseteq Leaves
    /\ dropped \subseteq Leaves
    /\ changes \in 0..MaxChanges
    /\ IsConfig(config)
    /\ IsConfig(pushed)

CountInv == unacked = Len(toClient) + Acks(toServer)

TreeInv ==
    /\ nodes \subseteq Names
    /\ edges \subseteq nodes \X nodes
    /\ edges \subseteq Parents \X Leaves
    /\ \A l \in nodes \cap Leaves : \E p \in nodes : <<p, l>> \in edges

\* d.resources has the parents that are in the tree under their type.
NamesInv ==
    /\ resources \in [AllTypes -> SUBSET Names]
    /\ \A t \in Types : resources[t] = nodes \cap ParentsOf(t)

Mentions(m, p) == p \in DOMAIN m.added \/ p \in m.removed

\* The client has p as the server sent it last.
Settled(p, c) ==
    /\ p \in nodes <=> p \in DOMAIN c
    /\ p \in DOMAIN c => \A l \in c[p] : <<p, l>> \in edges

\* No response in q after the i-th mentions p.
LastMention(q, i, p) ==
    Mentions(q[i], p) /\ \A j \in 1..Len(q) : j > i => ~Mentions(q[j], p)

\* A parent that no response on its way mentions is settled.
UnmentionedSettled(q, c, p) ==
    (\A i \in 1..Len(q) : ~Mentions(q[i], p)) => Settled(p, c)

\* Of the responses that mention p the last one has it as it was sent last.
LastIsCurrent(q, c, p) ==
    \A i \in 1..Len(q) :
        LastMention(q, i, p) =>
            IF p \in DOMAIN q[i].added THEN p \in DOMAIN c /\ c[p] = q[i].added[p]
            ELSE p \notin DOMAIN c

\* A response that removes a leaf p refers to comes before one that mentions p.
RemovalIsMadeUp(q, c, p) ==
    p \in DOMAIN c =>
        \A i \in 1..Len(q) : \A l \in q[i].removed \cap c[p] :
            \E j \in 1..Len(q) : j > i /\ Mentions(q[j], p)

\* The client, once it has read the responses q, has configuration c.
Agrees(q, c) ==
    \A p \in Parents :
        /\ UnmentionedSettled(q, c, p)
        /\ LastIsCurrent(q, c, p)
        /\ RemovalIsMadeUp(q, c, p)

DeltaInv ==
    /\ StreamInv
    /\ CountInv
    /\ TreeInv
    /\ NamesInv
    /\ Agrees(toClient, pushed)
    /\ NoStraySubscription
    /\ TreeIsSubscribed
-----------------------------------------------------------------------------
(* Constants *)

LEMMA Kinds ==
    /\ Types \cap LeafTypes = {}
    /\ Parents \cap Leaves = {}
    /\ \A t \in Types : ChildType[t] \in LeafTypes /\ ChildType[t] \notin Types
    /\ Types \subseteq AllTypes /\ LeafTypes \subseteq AllTypes
    /\ \A t \in AllTypes : t \notin Types => t \in LeafTypes
    /\ Parents \subseteq Names /\ Leaves \subseteq Names
  BY DeltaClientAssumption DEF LeafTypes, AllTypes, Names

-----------------------------------------------------------------------------
(* The responses of the server *)

LEMMA ParentResponseOK ==
    ASSUME IsConfig(config), IsConfig(pushed), NEW t \in Types
    PROVE  ParentResponse(t) \in Responses
<1> DEFINE m == ParentResponse(t)
           A == Restrict(config, Changed(t))
<1>1. m = [type |-> t, added |-> A, removed |-> Vanished(t)]
  BY DEF ParentResponse, Response
<1>2. /\ DOMAIN A = Changed(t)
      /\ \A p \in Changed(t) : A[p] = config[p] /\ p \in DOMAIN config
  BY DEF Restrict, Changed
<1>3. Changed(t) \subseteq ParentsOf(t) /\ Vanished(t) \subseteq ParentsOf(t) \ Changed(t)
  BY DEF Changed, Vanished, ParentsOf, IsConfig
<1>4. \A p \in Changed(t) : A[p] \subseteq Referable(p) /\ A[p] \subseteq Leaves
  BY <1>2 DEF IsConfig, Referable
<1>5. A \in [Changed(t) -> SUBSET Leaves] /\ Changed(t) \in SUBSET Names
        /\ Vanished(t) \in SUBSET Names
  BY <1>2, <1>3, <1>4 DEF Restrict, ParentsOf, Names
<1> HIDE DEF A, m
<1>6. A \in UNION {[P -> SUBSET Leaves] : P \in SUBSET Names}
  BY <1>5
<1>7. m \in [type : AllTypes, added : UNION {[P -> SUBSET Leaves] : P \in SUBSET Names},
             removed : SUBSET Names]
  BY <1>1, <1>5, <1>6, Kinds
<1>8. m.type = t /\ m.added = A /\ m.removed = Vanished(t)
  BY <1>1
<1>9. m \in Responses
  BY <1>2, <1>3, <1>4, <1>7, <1>8 DEF Responses
<1> QED
  BY <1>9 DEF m

LEMMA LeafResponseOK ==
    ASSUME NEW t \in LeafTypes, NEW S \in SUBSET Leaves, NEW c
    PROVE  LeafResponse(t, S, c) \in Responses
<1> DEFINE X == S \cap Existing(c)
           A == [l \in X |-> {}]
           m == LeafResponse(t, S, c)
<1>1. m = [type |-> t, added |-> A, removed |-> S \ Existing(c)]
  BY DEF LeafResponse, Response
<1>2. X \in SUBSET Names /\ A \in [X -> SUBSET Leaves] /\ S \ Existing(c) \in SUBSET Names
      /\ X \subseteq Leaves /\ S \ Existing(c) \subseteq Leaves
  BY Kinds
<1>3. DOMAIN A = X /\ \A l \in X : A[l] = {}
  OBVIOUS
<1> HIDE DEF A, m, X
<1>4. A \in UNION {[P -> SUBSET Leaves] : P \in SUBSET Names}
  BY <1>2
<1>5. m \in [type : AllTypes, added : UNION {[P -> SUBSET Leaves] : P \in SUBSET Names},
             removed : SUBSET Names]
  BY <1>1, <1>2, <1>4, Kinds
<1>6. m.type = t /\ m.added = A /\ m.removed = S \ Existing(c) /\ t \notin Types
  BY <1>1, Kinds
<1>7. m \in Responses
  BY <1>2, <1>3, <1>5, <1>6 DEF Responses
<1> QED
  BY <1>7 DEF m

\* A response as the client reads it.
LEMMA ResponseParts ==
    ASSUME NEW m \in Responses
    PROVE  /\ m.type \in AllTypes
           /\ DOMAIN m.added \subseteq Names /\ m.removed \subseteq Names
           /\ \A n \in DOMAIN m.added : m.added[n] \subseteq Leaves
           /\ m.type \in Types =>
                 /\ DOMAIN m.added \subseteq ParentsOf(m.type)
                 /\ m.removed \subseteq ParentsOf(m.type)
                 /\ m.removed \cap DOMAIN m.added = {}
                 /\ \A p \in DOMAIN m.added : m.added[p] \subseteq Referable(p)
           /\ m.type \notin Types =>
                 /\ DOMAIN m.added \subseteq Leaves /\ m.removed \subseteq Leaves
                 /\ \A l \in DOMAIN m.added : m.added[l] = {}
<1>1. m.type \in AllTypes /\ m.removed \in SUBSET Names
      /\ m.added \in UNION {[P -> SUBSET Leaves] : P \in SUBSET Names}
  BY DEF Responses
<1>2. PICK P \in SUBSET Names : m.added \in [P -> SUBSET Leaves]
  BY <1>1
<1>3. DOMAIN m.added = P /\ \A n \in P : m.added[n] \in SUBSET Leaves
  BY <1>2
<1> QED
  BY <1>1, <1>3 DEF Responses

-----------------------------------------------------------------------------
(* The tree *)

\* Where the pieces of a response end up in the tree.
LEMMA TreeStep ==
    ASSUME TreeInv, NEW m \in Responses
    PROVE  /\ NodesLeft(m) \subseteq Names
           /\ EdgesLeft(m) \subseteq NodesLeft(m) \X NodesLeft(m)
           /\ EdgesLeft(m) \subseteq Parents \X Leaves
           /\ \A l \in NodesLeft(m) \cap Leaves : \E p \in NodesLeft(m) : <<p, l>> \in EdgesLeft(m)
<1> DEFINE orphans == {l \in Removals(m) : ~\E e \in EdgesLeft(m) : e[2] = l}
<1>1. NodesLeft(m) = NodesAdded(m) \ (Removed(m) \cup orphans)
  BY DEF NodesLeft
<1>2. orphans \subseteq Leaves
  BY DEF Removals
<1>3. Matched(m) \subseteq Names /\ Referenced(m) \subseteq Leaves /\ NodesAdded(m) \subseteq Names
  BY ResponseParts, Kinds DEF Matched, Referenced, NodesAdded, TreeInv
<1>4. \A n \in Matched(m) : \A l \in m.added[n] : n \in Parents /\ l \in Leaves /\ l \in Referenced(m)
  BY ResponseParts, Kinds DEF Matched, Referenced, ParentsOf
<1>5. \A e \in EdgesAdded(m) : \/ e \in edges
                               \/ \E n \in Matched(m) : \E l \in m.added[n] : e = <<n, l>>
  BY DEF EdgesAdded
<1>6. EdgesAdded(m) \subseteq Parents \X Leaves /\ EdgesAdded(m) \subseteq NodesAdded(m) \X NodesAdded(m)
  BY <1>4, <1>5 DEF NodesAdded, TreeInv
<1>7. \A l \in NodesAdded(m) \cap Leaves : \E p \in Parents : <<p, l>> \in EdgesAdded(m)
  <2> TAKE l \in NodesAdded(m) \cap Leaves
  <2>1. CASE l \in nodes
    <3>1. PICK p \in nodes : <<p, l>> \in edges
      BY <2>1 DEF TreeInv
    <3> QED
      BY <3>1 DEF TreeInv, EdgesAdded
  <2>2. CASE l \in Referenced(m)
    <3>1. PICK n \in Matched(m) : l \in m.added[n]
      BY <2>2 DEF Referenced
    <3> QED
      BY <3>1, <1>4 DEF EdgesAdded
  <2>3. CASE l \in Matched(m) \ nodes
    BY <2>3, ResponseParts, Kinds DEF Matched, ParentsOf
  <2> QED
    BY <2>1, <2>2, <2>3 DEF NodesAdded
<1>8. EdgesLeft(m) \subseteq EdgesAdded(m)
  BY DEF EdgesLeft
<1>9. EdgesLeft(m) \subseteq NodesLeft(m) \X NodesLeft(m)
  <2> SUFFICES ASSUME NEW e \in EdgesLeft(m) PROVE e \in NodesLeft(m) \X NodesLeft(m)
    OBVIOUS
  <2>1. e \in NodesAdded(m) \X NodesAdded(m) /\ e[1] \in Parents /\ e[1] \notin Removed(m)
        /\ e[2] \notin Removed(m)
    BY <1>6, <1>8 DEF EdgesLeft
  <2>2. e[1] \notin orphans /\ e[2] \notin orphans
    BY <1>2, <2>1, Kinds
  <2> QED
    BY <1>1, <2>1, <2>2
<1>10. \A l \in NodesLeft(m) \cap Leaves : \E p \in NodesLeft(m) : <<p, l>> \in EdgesLeft(m)
  <2> TAKE l \in NodesLeft(m) \cap Leaves
  <2>1. PICK p \in Parents : <<p, l>> \in EdgesAdded(m)
    BY <1>1, <1>7
  <2>2. \E e \in EdgesLeft(m) : e[2] = l
    <3>1. CASE p \in Removed(m)
      <4>1. l \in Removals(m)
        BY <2>1, <3>1 DEF Removals
      <4> QED
        BY <1>1, <4>1
    <3>2. CASE p \notin Removed(m)
      <4>1. l \notin Removed(m)
        BY <1>1
      <4>2. <<p, l>> \in EdgesLeft(m)
        BY <2>1, <3>2, <4>1 DEF EdgesLeft
      <4> QED
        BY <4>2
    <3> QED
      BY <3>1, <3>2
  <2>3. PICK e \in EdgesLeft(m) : e[2] = l
    BY <2>2
  <2>4. e = <<e[1], l>> /\ e[1] \in NodesLeft(m)
    BY <1>9, <2>3
  <2> QED
    BY <2>3, <2>4
<1> HIDE DEF orphans
<1> QED
  BY <1>1, <1>3, <1>6, <1>8, <1>9, <1>10

-----------------------------------------------------------------------------
(* The requests of the client *)

\* A request added at the end has the last word.
LEMMA AfterSend ==
    ASSUME NEW S, NEW q \in Seq(ClientRequests), NEW m \in ClientRequests
    PROVE  SubscribedAfter(S, Append(q, m)) =
               IF m.kind = "change" THEN (SubscribedAfter(S, q) \cup m.sub) \ m.unsub
               ELSE SubscribedAfter(S, q)
<1> DEFINE r == Append(q, m)
           n == Len(q)
<1>1. /\ n \in Nat /\ DOMAIN q = 1..n /\ DOMAIN r = 1..n + 1 /\ r[n + 1] = m
      /\ \A i \in 1..n : r[i] = q[i]
  OBVIOUS
<1>2. m.kind = "change" => m.sub \subseteq Leaves
  BY DEF ClientRequests
<1> HIDE DEF r, n
<1>3. ASSUME NEW l \in Leaves
      PROVE  l \in SubscribedAfter(S, r) <=>
                 \/ Makes(m, l)
                 \/ l \in SubscribedAfter(S, q) /\ ~Ends(m, l)
  <2>1. (\A i \in DOMAIN r : ~Ends(r[i], l)) <=> (\A i \in DOMAIN q : ~Ends(q[i], l)) /\ ~Ends(m, l)
    BY <1>1
  <2>2. ASSUME NEW i \in 1..n
        PROVE  (\A j \in DOMAIN r : j > i => ~Ends(r[j], l)) <=>
                   (\A j \in DOMAIN q : j > i => ~Ends(q[j], l)) /\ ~Ends(m, l)
    BY <1>1
  <2>3. \A j \in DOMAIN r : ~(j > n + 1)
    BY <1>1
  <2>4. (\E i \in DOMAIN r : Makes(r[i], l) /\ \A j \in DOMAIN r : j > i => ~Ends(r[j], l)) <=>
            \/ Makes(m, l)
            \/ \E i \in 1..n : Makes(r[i], l) /\ \A j \in DOMAIN r : j > i => ~Ends(r[j], l)
    BY <1>1, <2>3
  <2>5. (\E i \in 1..n : Makes(r[i], l) /\ \A j \in DOMAIN r : j > i => ~Ends(r[j], l)) <=>
            /\ \E i \in DOMAIN q : Makes(q[i], l) /\ \A j \in DOMAIN q : j > i => ~Ends(q[j], l)
            /\ ~Ends(m, l)
    BY <1>1, <2>2
  <2> QED
    BY <2>1, <2>4, <2>5 DEF SubscribedAfter
<1>4. SubscribedAfter(S, r) \subseteq Leaves /\ SubscribedAfter(S, q) \subseteq Leaves
  BY DEF SubscribedAfter
<1>5. CASE m.kind = "change"
  BY <1>2, <1>3, <1>4, <1>5 DEF Makes, Ends, r
<1>6. CASE m.kind # "change"
  BY <1>3, <1>4, <1>6 DEF Makes, Ends, r
<1> QED
  BY <1>5, <1>6

\* Serving the first request moves its effect to the server.
LEMMA AfterServe ==
    ASSUME NEW S \in SUBSET Leaves, NEW q \in Seq(ClientRequests), q # <<>>, NEW T,
           T = IF Head(q).kind = "change" THEN (S \cup Head(q).sub) \ Head(q).unsub ELSE S
    PROVE  SubscribedAfter(T, Tail(q)) = SubscribedAfter(S, q)
<1> DEFINE m == Head(q)
           r == Tail(q)
           n == Len(r)
<1>1. /\ n \in Nat /\ DOMAIN r = 1..n /\ DOMAIN q = 1..n + 1 /\ q[1] = m
      /\ \A i \in 1..n : r[i] = q[i + 1]
  OBVIOUS
<1>2. m \in ClientRequests
  OBVIOUS
<1> HIDE DEF m, r, n
<1>3. ASSUME NEW l \in Leaves
      PROVE  l \in SubscribedAfter(S, q) <=> l \in SubscribedAfter(T, r)
  <2>1. l \in T <=> (l \in S /\ ~Ends(m, l)) \/ Makes(m, l)
    BY <1>2 DEF Ends, Makes, m, ClientRequests
  <2> DEFINE EQ == {i \in 1..n + 1 : Ends(q[i], l)}
             ER == {i \in 1..n : Ends(r[i], l)}
             MQ == {i \in 1..n + 1 : Makes(q[i], l)}
             MR == {i \in 1..n : Makes(r[i], l)}
  <2>2. /\ 1 \in EQ <=> Ends(m, l)
        /\ 1 \in MQ <=> Makes(m, l)
        /\ \A i \in ER : i + 1 \in EQ /\ i \in 1..n
        /\ \A i \in MR : i + 1 \in MQ /\ i \in 1..n
    BY <1>1
  <2>3. /\ \A j \in EQ : j \in Nat /\ (j = 1 \/ j - 1 \in ER)
        /\ \A j \in MQ : j \in Nat /\ (j = 1 \/ j - 1 \in MR)
    <3>1. \A j \in 1..n + 1 : j = 1 \/ (j - 1 \in 1..n /\ q[j] = r[j - 1])
      BY <1>1
    <3> QED
      BY <1>1, <3>1
  <2>4. /\ l \in SubscribedAfter(S, q) <=> \/ l \in S /\ EQ = {}
                                          \/ \E i \in MQ : \A j \in EQ : ~(j > i)
        /\ l \in SubscribedAfter(T, r) <=> \/ l \in T /\ ER = {}
                                          \/ \E i \in MR : \A j \in ER : ~(j > i)
    BY <1>1 DEF SubscribedAfter
  <2> HIDE DEF EQ, ER, MQ, MR
  <2>5. EQ = {} <=> ~Ends(m, l) /\ ER = {}
    BY <2>2, <2>3
  <2>6. ASSUME NEW i \in MQ, i # 1
        PROVE  (\A j \in EQ : ~(j > i)) <=> \A j \in ER : ~(j > i - 1)
    BY <1>1, <2>2, <2>3, <2>6
  <2>7. (\A j \in EQ : ~(j > 1)) <=> ER = {}
    BY <1>1, <2>2, <2>3
  <2>8. (\E i \in MQ : \A j \in EQ : ~(j > i)) =>
            \/ Makes(m, l) /\ ER = {}
            \/ \E i \in MR : \A j \in ER : ~(j > i)
    BY <2>2, <2>3, <2>6, <2>7
  <2>9. ASSUME NEW i \in MR, \A j \in ER : ~(j > i)
        PROVE  \E k \in MQ : \A j \in EQ : ~(j > k)
    <3>1. i + 1 \in MQ /\ i + 1 # 1 /\ (i + 1) - 1 = i
      BY <1>1, <2>2
    <3>2. \A j \in EQ : ~(j > i + 1)
      BY <2>6, <2>9, <3>1
    <3> QED
      BY <3>1, <3>2
  <2>10. Makes(m, l) /\ ER = {} => \E i \in MQ : \A j \in EQ : ~(j > i)
    BY <2>2, <2>7
  <2> QED
    BY <2>1, <2>4, <2>5, <2>8, <2>9, <2>10
<1>4. SubscribedAfter(S, q) = SubscribedAfter(T, r)
  BY <1>3 DEF SubscribedAfter
<1> QED
  BY <1>4 DEF r

LEMMA AcksFinite ==
    ASSUME NEW q \in Seq(ClientRequests)
    PROVE  IsFiniteSet(AcksIn(q)) /\ Acks(q) \in Nat
<1>1. IsFiniteSet(1..Len(q))
  BY FS_Interval
<1>2. AcksIn(q) \in SUBSET (1..Len(q))
  BY DEF AcksIn
<1>3. IsFiniteSet(AcksIn(q))
  BY <1>1, <1>2, FS_Subset
<1> QED
  BY <1>3, FS_CardinalityType DEF Acks

LEMMA AcksAppend ==
    ASSUME NEW q \in Seq(ClientRequests), NEW m \in ClientRequests
    PROVE  Acks(Append(q, m)) = IF m.kind = "ack" THEN Acks(q) + 1 ELSE Acks(q)
<1>1. /\ Len(Append(q, m)) = Len(q) + 1 /\ Len(q) \in Nat
      /\ Append(q, m)[Len(q) + 1] = m
      /\ \A i \in 1..Len(q) : Append(q, m)[i] = q[i]
  OBVIOUS
<1>2. CASE m.kind = "ack"
  <2>1. AcksIn(Append(q, m)) = AcksIn(q) \cup {Len(q) + 1} /\ Len(q) + 1 \notin AcksIn(q)
    BY <1>1, <1>2 DEF AcksIn
  <2> QED
    BY <1>2, <2>1, AcksFinite, FS_AddElement DEF Acks
<1>3. CASE m.kind # "ack"
  <2>1. AcksIn(Append(q, m)) = AcksIn(q)
    BY <1>1, <1>3 DEF AcksIn
  <2> QED
    BY <1>3, <2>1 DEF Acks
<1> QED
  BY <1>2, <1>3

LEMMA AcksTail ==
    ASSUME NEW q \in Seq(ClientRequests), q # <<>>
    PROVE  Acks(q) = IF Head(q).kind = "ack" THEN Acks(Tail(q)) + 1 ELSE Acks(Tail(q))
<1> DEFINE n == Len(Tail(q))
           A == AcksIn(Tail(q))
           moved == {i \in 2..n + 1 : q[i].kind = "ack"}
           f == [i \in A |-> i + 1]
<1>1. /\ Tail(q) \in Seq(ClientRequests) /\ n \in Nat /\ Len(q) = n + 1 /\ q[1] = Head(q)
      /\ \A i \in 1..n : Tail(q)[i] = q[i + 1]
  OBVIOUS
<1>2. A \subseteq 1..n /\ \A i \in 1..n : i \in A <=> q[i + 1].kind = "ack"
  BY <1>1 DEF AcksIn
<1>3. ExistsBijection(A, moved)
  <2> HIDE DEF n, A
  <2>1. \A i \in A : i + 1 \in moved
    BY <1>1, <1>2
  <2>2. \A j \in moved : j - 1 \in A /\ j = (j - 1) + 1
    BY <1>1, <1>2
  <2>3. \A i, j \in A : i + 1 = j + 1 => i = j
    BY <1>1, <1>2
  <2> HIDE DEF moved
  <2>4. f \in [A -> moved] /\ \A i \in A : f[i] = i + 1
    BY <2>1
  <2>5. f \in Bijection(A, moved)
    <3>1. \A a, b \in A : f[a] = f[b] => a = b
      BY <2>3, <2>4
    <3>2. \A j \in moved : \E i \in A : f[i] = j
      BY <2>2, <2>4
    <3> HIDE DEF f
    <3> QED
      BY <2>4, <3>1, <3>2, Fun_IsBij
  <2> QED
    BY <2>5 DEF ExistsBijection
<1>4. IsFiniteSet(moved) /\ Cardinality(moved) = Acks(Tail(q))
  BY <1>1, <1>3, AcksFinite, FS_Bijection DEF Acks
<1>5. CASE Head(q).kind = "ack"
  <2>1. AcksIn(q) = moved \cup {1} /\ 1 \notin moved
    BY <1>1, <1>5 DEF AcksIn
  <2> QED
    BY <1>4, <1>5, <2>1, FS_AddElement DEF Acks
<1>6. CASE Head(q).kind # "ack"
  <2>1. AcksIn(q) = moved
    BY <1>1, <1>6 DEF AcksIn
  <2> QED
    BY <1>4, <1>6, <2>1 DEF Acks
<1> QED
  BY <1>5, <1>6

\* The requests q on their way, and those the client sends on a response.
Replied(q, m) == q \o (IF m.type \in Types THEN SendChanges(m) ELSE <<>>) \o SendAck(m)

LEMMA NoChildren ==
    ASSUME TreeInv, NEW m \in Responses
    PROVE  /\ Requests(m) \subseteq Leaves /\ Removals(m) \subseteq Leaves
           /\ m.type \notin Types => Requests(m) = {} /\ Removals(m) = {}
<1>1. Requests(m) \subseteq Leaves /\ Removals(m) \subseteq Leaves
  BY ResponseParts DEF Requests, Referenced, Matched, Removals
<1>2. ASSUME m.type \notin Types PROVE Requests(m) = {} /\ Removals(m) = {}
  <2>1. DOMAIN m.added \subseteq Leaves /\ m.removed \subseteq Leaves
        /\ \A l \in DOMAIN m.added : m.added[l] = {}
    BY <1>2, ResponseParts
  <2>2. Referenced(m) = {}
    BY <2>1 DEF Referenced, Matched
  <2>3. \A e \in EdgesAdded(m) : e[1] \in Parents
    BY <2>1 DEF EdgesAdded, Matched, TreeInv
  <2>4. Removed(m) \cap Parents = {}
    BY <2>1, Kinds DEF Removed
  <2> QED
    BY <2>2, <2>3, <2>4 DEF Requests, Removals
<1> QED
  BY <1>1, <1>2

\* A request sent last.
LEMMA Sending ==
    ASSUME NEW S, NEW q \in Seq(ClientRequests), NEW m \in ClientRequests
    PROVE  /\ Append(q, m) \in Seq(ClientRequests)
           /\ m.kind = "ack" => /\ Acks(Append(q, m)) = Acks(q) + 1
                                /\ SubscribedAfter(S, Append(q, m)) = SubscribedAfter(S, q)
           /\ m.kind = "change" =>
                 /\ Acks(Append(q, m)) = Acks(q)
                 /\ SubscribedAfter(S, Append(q, m)) = (SubscribedAfter(S, q) \cup m.sub) \ m.unsub
           /\ m.kind = "watch" => /\ Acks(Append(q, m)) = Acks(q)
                                  /\ SubscribedAfter(S, Append(q, m)) = SubscribedAfter(S, q)
<1>1. Append(q, m) \in Seq(ClientRequests)
  OBVIOUS
<1>2. Acks(Append(q, m)) = IF m.kind = "ack" THEN Acks(q) + 1 ELSE Acks(q)
  BY AcksAppend
<1>3. SubscribedAfter(S, Append(q, m)) =
          IF m.kind = "change" THEN (SubscribedAfter(S, q) \cup m.sub) \ m.unsub
          ELSE SubscribedAfter(S, q)
  BY AfterSend
<1> QED
  BY <1>1, <1>2, <1>3

\* The subscriptions become those the client wants, with one acknowledgement more.
LEMMA ReplyIsSent ==
    ASSUME TreeInv, NEW m \in Responses, NEW q \in Seq(ClientRequests), NEW S
    PROVE  /\ Replied(q, m) \in Seq(ClientRequests)
           /\ Acks(Replied(q, m)) = Acks(q) + 1
           /\ SubscribedAfter(S, Replied(q, m)) =
                  (SubscribedAfter(S, q) \cup Requests(m)) \ Removals(m)
<1> DEFINE c == Change(ChildType[m.type], Requests(m), Removals(m))
           a == Ack(m.type)
           q1 == Append(q, c)
           q2 == Append(q1, c)
           After(X) == (X \cup Requests(m)) \ Removals(m)
           A == SubscribedAfter(S, q)
<1>1. /\ m.type \in AllTypes
      /\ Requests(m) \subseteq Leaves /\ Removals(m) \subseteq Leaves
      /\ m.type \notin Types => Requests(m) = {} /\ Removals(m) = {}
  BY ResponseParts, NoChildren
<1>2. a \in ClientRequests /\ a.kind = "ack"
  BY <1>1 DEF Ack, ClientRequests
<1>3. m.type \in Types => /\ c \in ClientRequests /\ c.kind = "change"
                          /\ c.sub = Requests(m) /\ c.unsub = Removals(m)
  BY <1>1, Kinds DEF Change, ClientRequests
<1>4. After(After(A)) = After(A)
  OBVIOUS
<1> HIDE DEF c, a, A
<1>5. ASSUME NEW r \in Seq(ClientRequests)
      PROVE  /\ Append(r, a) \in Seq(ClientRequests)
             /\ Acks(Append(r, a)) = Acks(r) + 1
             /\ SubscribedAfter(S, Append(r, a)) = SubscribedAfter(S, r)
  BY <1>2, Sending
<1>6. CASE m.type \notin Types \/ (Requests(m) = {} /\ Removals(m) = {})
  <2>1. Replied(q, m) = Append(q, a)
    <3>1. (IF m.type \in Types THEN SendChanges(m) ELSE <<>>) = <<>>
      BY <1>6 DEF SendChanges
    <3>2. q \o <<>> \o <<a>> = Append(q, a)
      BY <1>2
    <3> QED
      BY <3>1, <3>2 DEF Replied, SendAck, a
  <2>2. After(A) = A
    BY <1>1, <1>6
  <2> QED
    BY <1>5, <2>1, <2>2 DEF A
<1>7. CASE m.type \in Types /\ ~(Requests(m) = {} /\ Removals(m) = {})
  <2>1. c \in ClientRequests /\ c.kind = "change" /\ c.sub = Requests(m) /\ c.unsub = Removals(m)
    BY <1>3, <1>7
  <2>2. ASSUME NEW r \in Seq(ClientRequests)
        PROVE  /\ Append(r, c) \in Seq(ClientRequests)
               /\ Acks(Append(r, c)) = Acks(r)
               /\ SubscribedAfter(S, Append(r, c)) = After(SubscribedAfter(S, r))
    <3>1. Append(r, c) \in Seq(ClientRequests) /\ Acks(Append(r, c)) = Acks(r)
      BY <2>1, Sending
    <3>2. SubscribedAfter(S, Append(r, c)) = (SubscribedAfter(S, r) \cup c.sub) \ c.unsub
      BY <2>1, AfterSend
    <3> QED
      BY <2>1, <3>1, <3>2
  <2>3. /\ q1 \in Seq(ClientRequests) /\ Acks(q1) = Acks(q)
        /\ SubscribedAfter(S, q1) = After(A)
    BY <2>2 DEF A
  <2> HIDE DEF q1
  <2>4. /\ q2 \in Seq(ClientRequests) /\ Acks(q2) = Acks(q)
        /\ SubscribedAfter(S, q2) = After(A)
    BY <1>4, <2>2, <2>3
  <2>5. CASE Requests(m) # {} /\ Removals(m) # {}
    <3>1. Replied(q, m) = Append(q2, a)
      <4>1. Replied(q, m) = q \o (<<c>> \o <<c>>) \o <<a>>
        BY <1>7, <2>5 DEF Replied, SendChanges, SendAck, a, c
      <4>2. ASSUME NEW x \in ClientRequests, NEW y \in ClientRequests
            PROVE  q \o (<<x>> \o <<x>>) \o <<y>> = Append(Append(Append(q, x), x), y)
        <5>1. /\ q \o (<<x>> \o <<x>>) \o <<y>> \in Seq(ClientRequests)
              /\ Append(Append(Append(q, x), x), y) \in Seq(ClientRequests)
              /\ Len(q \o (<<x>> \o <<x>>) \o <<y>>) = Len(q) + 3
              /\ Len(Append(Append(Append(q, x), x), y)) = Len(q) + 3
          OBVIOUS
        <5>2. ASSUME NEW i \in 1..Len(q) + 3
              PROVE  (q \o (<<x>> \o <<x>>) \o <<y>>)[i] = Append(Append(Append(q, x), x), y)[i]
          OBVIOUS
        <5> QED
          BY <5>1, <5>2, SeqEqual
      <4> QED
        BY <1>2, <2>1, <4>1, <4>2 DEF q1
    <3> HIDE DEF q2
    <3> QED
      BY <1>5, <2>4, <3>1 DEF A
  <2>6. CASE ~(Requests(m) # {} /\ Removals(m) # {})
    <3>1. Replied(q, m) = Append(q1, a)
      BY <1>2, <1>3, <1>7, <2>6 DEF Replied, SendChanges, SendAck, a, c, q1
    <3> QED
      BY <1>5, <2>3, <3>1 DEF A
  <2> QED
    BY <2>5, <2>6
<1> QED
  BY <1>6, <1>7

-----------------------------------------------------------------------------
(* The configuration on its way *)

\* A push of parents, as it changes what the server has sent.
LEMMA AgreesParents ==
    ASSUME IsConfig(config), IsConfig(pushed), NEW t \in Types,
           NEW q \in Seq(Responses), Agrees(q, pushed)
    PROVE  Agrees(Append(q, ParentResponse(t)), PushedNow(t))
<1> DEFINE m == ParentResponse(t)
           r == Append(q, m)
           n == Len(q)
           c == PushedNow(t)
<1>1. /\ n \in Nat /\ Len(r) = n + 1 /\ r[n + 1] = m
      /\ \A i \in 1..n : r[i] = q[i]
  OBVIOUS
<1>2. DOMAIN m.added = Changed(t) /\ m.removed = Vanished(t)
      /\ \A p \in Changed(t) : m.added[p] = config[p] /\ p \in DOMAIN config
  BY DEF ParentResponse, Response, Restrict, Changed
<1>3. Changed(t) \subseteq ParentsOf(t) /\ Vanished(t) \subseteq ParentsOf(t)
  BY DEF Changed, Vanished, ParentsOf, IsConfig
<1>4. /\ \A p \in Parents : p \in DOMAIN c <=>
             IF TypeOf[p] = t THEN p \in DOMAIN config ELSE p \in DOMAIN pushed
      /\ \A p \in DOMAIN c : c[p] = IF TypeOf[p] = t THEN config[p] ELSE pushed[p]
      /\ DOMAIN c \subseteq Parents
  BY DEF PushedNow, IsConfig
<1>5. ASSUME NEW p \in Parents, ~Mentions(m, p)
      PROVE  /\ p \in DOMAIN c <=> p \in DOMAIN pushed
             /\ p \in DOMAIN c => c[p] = pushed[p]
  <2>1. p \notin Changed(t) /\ p \notin Vanished(t)
    BY <1>2, <1>5 DEF Mentions
  <2> QED
    BY <1>4, <2>1 DEF Changed, Vanished
<1>6. ASSUME NEW p \in Parents, Mentions(m, p)
      PROVE  IF p \in DOMAIN m.added THEN p \in DOMAIN c /\ c[p] = m.added[p]
             ELSE p \notin DOMAIN c
  <2>1. TypeOf[p] = t /\ (p \in Changed(t) \/ p \in Vanished(t))
    BY <1>2, <1>3, <1>6 DEF Mentions, ParentsOf
  <2> QED
    BY <1>2, <1>4, <2>1 DEF Vanished
<1>7. m.removed \cap Leaves = {}
  BY <1>2, <1>3, Kinds DEF ParentsOf
<1>8. \A p \in DOMAIN c : c[p] \subseteq Leaves
  BY <1>4 DEF IsConfig, Referable
<1> HIDE DEF m, r, n, c
<1> SUFFICES ASSUME NEW p \in Parents
             PROVE  /\ UnmentionedSettled(r, c, p)
                    /\ LastIsCurrent(r, c, p)
                    /\ RemovalIsMadeUp(r, c, p)
  BY DEF Agrees, r, c, m
<1>9. /\ UnmentionedSettled(q, pushed, p)
      /\ LastIsCurrent(q, pushed, p)
      /\ RemovalIsMadeUp(q, pushed, p)
  BY DEF Agrees
<1>10. UnmentionedSettled(r, c, p)
  <2> SUFFICES ASSUME \A i \in 1..Len(r) : ~Mentions(r[i], p) PROVE Settled(p, c)
    BY DEF UnmentionedSettled
  <2>1. ~Mentions(m, p) /\ \A i \in 1..n : ~Mentions(q[i], p)
    BY <1>1
  <2> QED
    BY <1>5, <1>9, <2>1 DEF Settled, UnmentionedSettled, n
<1>11. ASSUME NEW i \in 1..Len(r), LastMention(r, i, p)
       PROVE  IF p \in DOMAIN r[i].added THEN p \in DOMAIN c /\ c[p] = r[i].added[p]
              ELSE p \notin DOMAIN c
  <2>1. CASE i = n + 1
    BY <1>1, <1>6, <1>11, <2>1 DEF LastMention
  <2>2. CASE i \in 1..n
    <3>1. ~Mentions(m, p) /\ LastMention(q, i, p)
      BY <1>1, <1>11, <2>2 DEF LastMention, n
    <3>2. r[i] = q[i]
      BY <1>1, <2>2
    <3> QED
      BY <1>5, <1>9, <2>2, <3>1, <3>2 DEF LastIsCurrent, n
  <2> QED
    BY <1>1, <2>1, <2>2
<1>12. ASSUME p \in DOMAIN c, NEW i \in 1..Len(r), NEW l \in r[i].removed \cap c[p]
       PROVE  \E j \in 1..Len(r) : j > i /\ Mentions(r[j], p)
  <2>1. i \in 1..n /\ r[i] = q[i]
    BY <1>1, <1>7, <1>8, <1>12
  <2>2. CASE Mentions(m, p)
    BY <1>1, <2>1, <2>2
  <2>3. CASE ~Mentions(m, p)
    <3>1. PICK j \in 1..n : j > i /\ Mentions(q[j], p)
      BY <1>5, <1>9, <1>12, <2>1, <2>3 DEF RemovalIsMadeUp, n
    <3> QED
      BY <1>1, <3>1
  <2> QED
    BY <2>2, <2>3
<1> QED
  BY <1>10, <1>11, <1>12 DEF LastIsCurrent, RemovalIsMadeUp

\* A response of leaves changes nothing: it removes none that is referred to.
LEMMA AgreesLeaves ==
    ASSUME NEW c, IsConfig(c), NEW t \in LeafTypes, NEW S \in SUBSET Leaves,
           NEW q \in Seq(Responses), Agrees(q, c)
    PROVE  Agrees(Append(q, LeafResponse(t, S, c)), c)
<1> DEFINE m == LeafResponse(t, S, c)
           r == Append(q, m)
           n == Len(q)
<1>1. /\ n \in Nat /\ Len(r) = n + 1 /\ r[n + 1] = m
      /\ \A i \in 1..n : r[i] = q[i]
  OBVIOUS
<1>2. DOMAIN m.added \subseteq Leaves /\ m.removed \subseteq Leaves
      /\ m.removed \cap Existing(c) = {}
  BY DEF LeafResponse, Response
<1>3. \A p \in Parents : ~Mentions(m, p)
  BY <1>2, Kinds DEF Mentions
<1>4. \A p \in DOMAIN c : m.removed \cap c[p] = {}
  BY <1>2 DEF Existing
<1> HIDE DEF m, r, n
<1> SUFFICES ASSUME NEW p \in Parents
             PROVE  /\ UnmentionedSettled(r, c, p)
                    /\ LastIsCurrent(r, c, p)
                    /\ RemovalIsMadeUp(r, c, p)
  BY DEF Agrees, r, m
<1>5. /\ UnmentionedSettled(q, c, p)
      /\ LastIsCurrent(q, c, p)
      /\ RemovalIsMadeUp(q, c, p)
  BY DEF Agrees
<1>6. UnmentionedSettled(r, c, p)
  BY <1>1, <1>5 DEF UnmentionedSettled, n
<1>7. ASSUME NEW i \in 1..Len(r), LastMention(r, i, p)
      PROVE  IF p \in DOMAIN r[i].added THEN p \in DOMAIN c /\ c[p] = r[i].added[p]
             ELSE p \notin DOMAIN c
  <2>1. i \in 1..n /\ r[i] = q[i]
    BY <1>1, <1>3, <1>7 DEF LastMention
  <2>2. LastMention(q, i, p)
    BY <1>1, <1>7, <2>1 DEF LastMention, n
  <2> QED
    BY <1>5, <2>1, <2>2 DEF LastIsCurrent, n
<1>8. ASSUME p \in DOMAIN c, NEW i \in 1..Len(r), NEW l \in r[i].removed \cap c[p]
      PROVE  \E j \in 1..Len(r) : j > i /\ Mentions(r[j], p)
  <2>1. i \in 1..n /\ r[i] = q[i]
    BY <1>1, <1>4, <1>8
  <2>2. PICK j \in 1..n : j > i /\ Mentions(q[j], p)
    BY <1>5, <1>8, <2>1 DEF RemovalIsMadeUp, n
  <2> QED
    BY <1>1, <2>2
<1> QED
  BY <1>6, <1>7, <1>8 DEF LastIsCurrent, RemovalIsMadeUp

\* The parents, and what they are joined to, once a response is read.
LEMMA ParentsLeft ==
    ASSUME TreeInv, NEW m \in Responses, NEW p \in Parents
    PROVE  /\ p \in NodesLeft(m) <=> (p \in nodes \/ p \in DOMAIN m.added) /\ p \notin m.removed
           /\ \A l : <<p, l>> \in edges /\ p \notin m.removed /\ l \notin m.removed
                        => <<p, l>> \in EdgesLeft(m)
           /\ p \in DOMAIN m.added /\ p \notin m.removed
                => \A l \in m.added[p] : l \notin m.removed => <<p, l>> \in EdgesLeft(m)
<1>1. p \in DOMAIN m.added => p \in Matched(m) /\ m.type \in Types
  BY ResponseParts, Kinds DEF Matched
<1>2. p \in Matched(m) => p \in DOMAIN m.added
  BY DEF Matched
<1>3. p \notin Referenced(m) /\ p \notin Leaves
  BY ResponseParts, Kinds DEF Referenced, Matched
<1>4. p \in NodesAdded(m) <=> p \in nodes \/ p \in DOMAIN m.added
  BY <1>1, <1>2, <1>3 DEF NodesAdded
<1>5. p \in NodesLeft(m) <=> (p \in nodes \/ p \in DOMAIN m.added) /\ p \notin m.removed
  <2>1. p \notin Removals(m)
    BY <1>3 DEF Removals
  <2> QED
    BY <1>4, <2>1 DEF NodesLeft, Removed
<1>6. \A l : <<p, l>> \in EdgesAdded(m) /\ p \notin m.removed /\ l \notin m.removed
                => <<p, l>> \in EdgesLeft(m)
  BY DEF EdgesLeft, Removed
<1>7. p \in DOMAIN m.added => \A l \in m.added[p] : <<p, l>> \in EdgesAdded(m)
  BY <1>1, ResponseParts DEF EdgesAdded
<1>8. edges \subseteq EdgesAdded(m)
  BY DEF EdgesAdded
<1> QED
  BY <1>5, <1>6, <1>7, <1>8

\* Reading a response takes the client one response further.
LEMMA AgreesRecv ==
    ASSUME TreeInv, toClient \in Seq(Responses), toClient # <<>>, IsConfig(pushed),
           Agrees(toClient, pushed),
           nodes' = NodesLeft(Head(toClient)), edges' = EdgesLeft(Head(toClient)),
           toClient' = Tail(toClient), pushed' = pushed
    PROVE  Agrees(toClient, pushed)'
<1> DEFINE m == Head(toClient)
           r == Tail(toClient)
           n == Len(r)
           q == toClient
           c == pushed
<1>1. /\ n \in Nat /\ Len(q) = n + 1 /\ q[1] = m /\ m \in Responses
      /\ \A i \in 1..n : r[i] = q[i + 1]
  OBVIOUS
<1>2. nodes' = NodesLeft(m) /\ edges' = EdgesLeft(m) /\ toClient' = r /\ pushed' = c
  OBVIOUS
<1> HIDE DEF m, r, n
<1> SUFFICES ASSUME NEW p \in Parents
             PROVE  /\ (\A i \in 1..n : ~Mentions(r[i], p)) => Settled(p, pushed)'
                    /\ LastIsCurrent(r, c, p)
                    /\ RemovalIsMadeUp(r, c, p)
  <2>1. \A p \in Parents : LastIsCurrent(toClient, pushed, p)' <=> LastIsCurrent(r, c, p)
    BY <1>2 DEF LastIsCurrent, LastMention, Mentions
  <2>2. \A p \in Parents : RemovalIsMadeUp(toClient, pushed, p)' <=> RemovalIsMadeUp(r, c, p)
    BY <1>2 DEF RemovalIsMadeUp, Mentions
  <2>3. \A p \in Parents : UnmentionedSettled(toClient, pushed, p)'
            <=> ((\A i \in 1..n : ~Mentions(r[i], p)) => Settled(p, pushed)')
    BY <1>2 DEF UnmentionedSettled, Mentions, n
  <2> QED
    BY <2>1, <2>2, <2>3 DEF Agrees
<1>3. /\ UnmentionedSettled(q, c, p)
      /\ LastIsCurrent(q, c, p)
      /\ RemovalIsMadeUp(q, c, p)
  BY DEF Agrees
<1>4. c[p] \subseteq Leaves \/ p \notin DOMAIN c
  BY DEF IsConfig, Referable
<1>5. Settled(p, pushed)' <=> /\ p \in NodesLeft(m) <=> p \in DOMAIN c
                              /\ p \in DOMAIN c => \A l \in c[p] : <<p, l>> \in EdgesLeft(m)
  BY <1>2 DEF Settled
<1> HIDE DEF q, c
<1>6. ASSUME \A i \in 1..n : ~Mentions(r[i], p)
      PROVE  Settled(p, pushed)'
  <2>1. \A j \in 1..Len(q) : j > 1 => ~Mentions(q[j], p)
    <3>1. \A j \in 1..n + 1 : j > 1 => j - 1 \in 1..n /\ q[j] = r[j - 1]
      BY <1>1
    <3> QED
      BY <1>1, <1>6, <3>1
  <2>2. CASE p \in DOMAIN m.added
    <3>1. LastMention(q, 1, p) /\ 1 \in 1..Len(q)
      <4>1. Mentions(q[1], p)
        BY <1>1, <2>2 DEF Mentions
      <4>2. 1 \in 1..Len(q)
        BY <1>1
      <4> QED
        BY <2>1, <4>1, <4>2 DEF LastMention
    <3>2. p \in DOMAIN c /\ c[p] = m.added[p]
      BY <1>1, <1>3, <2>2, <3>1 DEF LastIsCurrent
    <3>3. p \notin m.removed /\ m.removed \cap Leaves = {}
      BY <1>1, <2>2, ResponseParts, Kinds DEF ParentsOf
    <3> QED
      <4>1. p \in NodesLeft(m) /\ \A l \in m.added[p] : l \notin m.removed => <<p, l>> \in EdgesLeft(m)
        BY <1>1, <2>2, <3>3, ParentsLeft
      <4> QED
        BY <1>4, <1>5, <3>2, <3>3, <4>1
  <2>3. CASE p \notin DOMAIN m.added /\ p \in m.removed
    <3>1. LastMention(q, 1, p) /\ 1 \in 1..Len(q)
      <4>1. Mentions(q[1], p)
        BY <1>1, <2>3 DEF Mentions
      <4>2. 1 \in 1..Len(q)
        BY <1>1
      <4> QED
        BY <2>1, <4>1, <4>2 DEF LastMention
    <3>2. p \notin DOMAIN c
      BY <1>1, <1>3, <2>3, <3>1 DEF LastIsCurrent
    <3> QED
      BY <1>1, <1>5, <2>3, <3>2, ParentsLeft
  <2>4. CASE ~Mentions(m, p)
    <3>1. \A i \in 1..Len(q) : ~Mentions(q[i], p)
      BY <1>1, <2>1, <2>4
    <3>2. Settled(p, c)
      BY <1>3, <3>1 DEF UnmentionedSettled
    <3>3. p \in DOMAIN c => m.removed \cap c[p] = {}
      BY <1>1, <1>3, <3>1 DEF RemovalIsMadeUp
    <3> QED
      <4>1. /\ p \in NodesLeft(m) <=> p \in nodes
            /\ \A l : <<p, l>> \in edges /\ l \notin m.removed => <<p, l>> \in EdgesLeft(m)
        BY <1>1, <2>4, ParentsLeft DEF Mentions
      <4> QED
        BY <1>5, <3>2, <3>3, <4>1 DEF Settled
  <2> QED
    BY <2>2, <2>3, <2>4 DEF Mentions
<1>7. ASSUME NEW i \in 1..n, LastMention(r, i, p)
      PROVE  IF p \in DOMAIN r[i].added THEN p \in DOMAIN c /\ c[p] = r[i].added[p]
             ELSE p \notin DOMAIN c
  <2>1. i + 1 \in 1..Len(q) /\ q[i + 1] = r[i]
    BY <1>1
  <2>2. LastMention(q, i + 1, p)
    <3>1. \A j \in 1..n + 1 : j > i + 1 => j - 1 \in 1..n /\ j - 1 > i /\ q[j] = r[j - 1]
      BY <1>1
    <3> QED
      BY <1>1, <1>7, <2>1, <3>1 DEF LastMention, n
  <2> QED
    BY <1>3, <2>1, <2>2 DEF LastIsCurrent
<1>8. ASSUME p \in DOMAIN c, NEW i \in 1..n, NEW l \in r[i].removed \cap c[p]
      PROVE  \E j \in 1..n : j > i /\ Mentions(r[j], p)
  <2>1. i + 1 \in 1..Len(q) /\ q[i + 1] = r[i]
    BY <1>1
  <2>2. PICK j \in 1..Len(q) : j > i + 1 /\ Mentions(q[j], p)
    BY <1>3, <1>8, <2>1 DEF RemovalIsMadeUp
  <2>3. j - 1 \in 1..n /\ j - 1 > i /\ r[j - 1] = q[j]
    BY <1>1, <2>2
  <2> QED
    BY <2>2, <2>3
<1> QED
  BY <1>6, <1>7, <1>8 DEF LastIsCurrent, RemovalIsMadeUp, n
-----------------------------------------------------------------------------
(* The invariant holds of every reachable state: one lemma per step *)

LEMMA EmptyStream ==
    /\ Acks(<<>>) = 0
    /\ SubscribedAfter({}, <<>>) = {}
    /\ IsConfig(NoResources) /\ DOMAIN NoResources = {}
    /\ InitialWatches \in Seq(Types)
<1>1. AcksIn(<<>>) = {}
  BY DEF AcksIn
<1>2. Acks(<<>>) = 0
  BY <1>1, FS_EmptySet DEF Acks
<1>3. DOMAIN NoResources = {}
  BY DEF NoResources
<1> QED
  BY <1>2, <1>3, DeltaClientAssumption DEF SubscribedAfter, IsConfig, Makes, Ends

\* What is on its way agrees as before when the tree is left alone.
LEMMA SameTree ==
    ASSUME nodes' = nodes, edges' = edges, NEW q, NEW c, toClient' = q, pushed' = c, Agrees(q, c)
    PROVE  Agrees(toClient, pushed)'
<1>1. \A p : Settled(p, pushed)' <=> Settled(p, c)
  BY DEF Settled
<1>2. \A p : UnmentionedSettled(toClient, pushed, p)' <=> UnmentionedSettled(q, c, p)
  BY <1>1 DEF UnmentionedSettled, Mentions
<1>3. \A p : LastIsCurrent(toClient, pushed, p)' <=> LastIsCurrent(q, c, p)
  BY DEF LastIsCurrent, LastMention, Mentions
<1>4. \A p : RemovalIsMadeUp(toClient, pushed, p)' <=> RemovalIsMadeUp(q, c, p)
  BY DEF RemovalIsMadeUp, Mentions
<1> QED
  BY <1>2, <1>3, <1>4 DEF Agrees

LEMMA PushedIsConfig ==
    ASSUME IsConfig(config), IsConfig(pushed), NEW t \in Types
    PROVE  IsConfig(PushedNow(t))
<1>1. DOMAIN PushedNow(t) \subseteq Parents
  BY DEF PushedNow, IsConfig
<1>2. ASSUME NEW p \in DOMAIN PushedNow(t) PROVE PushedNow(t)[p] \subseteq Referable(p)
  BY DEF PushedNow, IsConfig
<1> QED
  BY <1>1, <1>2 DEF IsConfig

LEMMA StartsAgreeing == Init => DeltaInv
<1> SUFFICES ASSUME Init PROVE DeltaInv
  OBVIOUS
<1>1. IsConfig(config)
  BY DEF Init, Configs, IsConfig
<1>2. StreamInv
  BY <1>1, EmptyStream, DeltaClientAssumption DEF Init, FreshStream, StreamInv
<1>3. CountInv
  BY EmptyStream DEF Init, FreshStream, CountInv
<1>4. TreeInv /\ NamesInv
  BY Kinds DEF Init, FreshStream, TreeInv, NamesInv
<1>5. Agrees(toClient, pushed)
  BY EmptyStream
  DEF Init, FreshStream, Agrees, UnmentionedSettled, LastIsCurrent, RemovalIsMadeUp, Settled
<1>6. NoStraySubscription /\ TreeIsSubscribed
  BY EmptyStream DEF Init, FreshStream, NoStraySubscription, TreeIsSubscribed, Asked
<1> QED
  BY <1>2, <1>3, <1>4, <1>5, <1>6 DEF DeltaInv

LEMMA RedialKeeps == DeltaInv /\ Redial => DeltaInv'
<1> SUFFICES ASSUME DeltaInv, Redial PROVE DeltaInv'
  OBVIOUS
<1>1. StreamInv'
  BY EmptyStream DEF DeltaInv, Redial, StreamInv
<1>2. CountInv'
  BY EmptyStream DEF Redial, CountInv
<1>3. TreeInv' /\ NamesInv'
  BY Kinds DEF Redial, TreeInv, NamesInv
<1>4. Agrees(toClient, pushed)'
  BY EmptyStream
  DEF Redial, Agrees, UnmentionedSettled, LastIsCurrent, RemovalIsMadeUp, Settled
<1>5. NoStraySubscription' /\ TreeIsSubscribed'
  BY EmptyStream DEF Redial, NoStraySubscription, TreeIsSubscribed, Asked
<1> QED
  BY <1>1, <1>2, <1>3, <1>4, <1>5 DEF DeltaInv

LEMMA ReconfigureKeeps == DeltaInv /\ Reconfigure => DeltaInv'
<1> SUFFICES ASSUME DeltaInv, Reconfigure PROVE DeltaInv'
  OBVIOUS
<1> USE DEF clientVars
<1>1. IsConfig(config')
  <2>1. IsConfig(config)
    BY DEF DeltaInv, StreamInv
  <2>2. PICK p \in Parents :
          \/ config' = Restrict(config, DOMAIN config \ {p})
          \/ \E S \in SUBSET Referable(p) :
                config' = [q \in DOMAIN config \cup {p} |-> IF q = p THEN S ELSE config[q]]
    BY DEF Reconfigure
  <2>3. CASE config' = Restrict(config, DOMAIN config \ {p})
    BY <2>1, <2>3 DEF Restrict, IsConfig
  <2>4. CASE \E S \in SUBSET Referable(p) :
                config' = [q \in DOMAIN config \cup {p} |-> IF q = p THEN S ELSE config[q]]
    <3>1. PICK S \in SUBSET Referable(p) :
             config' = [q \in DOMAIN config \cup {p} |-> IF q = p THEN S ELSE config[q]]
      BY <2>4
    <3> QED
      BY <2>1, <3>1 DEF IsConfig
  <2> QED
    BY <2>2, <2>3, <2>4
<1>2. StreamInv'
  BY <1>1, DeltaClientAssumption DEF DeltaInv, Reconfigure, StreamInv
<1>3. CountInv' /\ TreeInv' /\ NamesInv'
  BY DEF DeltaInv, Reconfigure, CountInv, TreeInv, NamesInv
<1>4. Agrees(toClient, pushed)'
  BY SameTree DEF DeltaInv, Reconfigure
<1>5. NoStraySubscription' /\ TreeIsSubscribed'
  BY DEF DeltaInv, Reconfigure, NoStraySubscription, TreeIsSubscribed, Asked
<1> QED
  BY <1>2, <1>3, <1>4, <1>5 DEF DeltaInv

LEMMA SendWatchKeeps == DeltaInv /\ SendWatch => DeltaInv'
<1> SUFFICES ASSUME DeltaInv, SendWatch PROVE DeltaInv'
  OBVIOUS
<1> USE DEF serverVars
<1> DEFINE m == Watch(Head(unwatched))
<1>1. m \in ClientRequests /\ m.kind = "watch"
  BY DEF DeltaInv, StreamInv, SendWatch, Watch, ClientRequests
<1>2. toServer' = Append(toServer, m) /\ toServer \in Seq(ClientRequests)
  BY DEF SendWatch, DeltaInv, StreamInv
<1> HIDE DEF m
<1>3. /\ Append(toServer, m) \in Seq(ClientRequests)
      /\ Acks(Append(toServer, m)) = Acks(toServer)
      /\ SubscribedAfter(subs, Append(toServer, m)) = SubscribedAfter(subs, toServer)
  BY <1>1, <1>2, Sending
<1>4. StreamInv'
  BY <1>2, <1>3 DEF DeltaInv, SendWatch, StreamInv
<1>5. CountInv' /\ TreeInv' /\ NamesInv'
  BY <1>2, <1>3 DEF DeltaInv, SendWatch, CountInv, TreeInv, NamesInv
<1>6. Agrees(toClient, pushed)'
  BY SameTree DEF DeltaInv, SendWatch
<1>7. NoStraySubscription' /\ TreeIsSubscribed'
  BY <1>2, <1>3 DEF DeltaInv, SendWatch, NoStraySubscription, TreeIsSubscribed, Asked
<1> QED
  BY <1>4, <1>5, <1>6, <1>7 DEF DeltaInv

LEMMA PushKeeps == ASSUME NEW t \in Types PROVE DeltaInv /\ Push(t) => DeltaInv'
<1> SUFFICES ASSUME DeltaInv, Push(t) PROVE DeltaInv'
  OBVIOUS
<1> USE DEF clientVars
<1> DEFINE c == PushedNow(t)
           leaves == OfType(subs, ChildType[t])
           a == ParentResponse(t)
           b == LeafResponse(ChildType[t], leaves, c)
           q == Append(toClient, a)
<1>1. IsConfig(config) /\ IsConfig(pushed) /\ toClient \in Seq(Responses) /\ Agrees(toClient, pushed)
  BY DEF DeltaInv, StreamInv
<1>2. unacked \in Nat /\ Len(toClient) \in Nat
  BY <1>1, AcksFinite DEF DeltaInv, CountInv, StreamInv
<1>3. IsConfig(c) /\ a \in Responses
  BY <1>1, PushedIsConfig, ParentResponseOK
<1>4. ChildType[t] \in LeafTypes /\ leaves \in SUBSET Leaves
  BY Kinds DEF DeltaInv, StreamInv, OfType
<1>5. b \in Responses
  BY <1>4, LeafResponseOK
<1>6. Agrees(q, c)
  BY <1>1, AgreesParents
<1>7. IF leaves = {} THEN toClient' = toClient \o <<a>> /\ unacked' = unacked + Len(<<a>>)
      ELSE toClient' = toClient \o <<a, b>> /\ unacked' = unacked + Len(<<a, b>>)
  BY DEF Push
<1>8. pushed' = c /\ nodes' = nodes /\ edges' = edges
  BY DEF Push
<1> HIDE DEF a, b, c, leaves
<1>9. /\ toClient' \in Seq(Responses)
      /\ Len(toClient') - Len(toClient) = unacked' - unacked /\ unacked' \in Nat
      /\ Agrees(toClient, pushed)'
  <2>1. q \in Seq(Responses) /\ Len(q) = Len(toClient) + 1
    BY <1>1, <1>3
  <2>2. CASE leaves = {}
    <3>1. toClient' = q /\ unacked' = unacked + 1
      BY <1>1, <1>3, <1>7, <2>2
    <3> QED
      <4> HIDE DEF q
      <4>1. Agrees(toClient, pushed)'
        BY <1>6, <1>8, <3>1, SameTree
      <4> QED
        BY <1>2, <2>1, <3>1, <4>1
  <2>3. CASE leaves # {}
    <3>1. toClient' = Append(q, b) /\ unacked' = unacked + 2
      BY <1>1, <1>3, <1>5, <1>7, <2>3
    <3> HIDE DEF q
    <3>2. Append(q, b) \in Seq(Responses) /\ Len(Append(q, b)) = Len(toClient) + 2
      BY <1>5, <2>1
    <3>3. Agrees(Append(q, b), c)
      BY <1>3, <1>4, <1>6, <2>1, AgreesLeaves DEF b
    <3> QED
      <4>1. Agrees(toClient, pushed)'
        BY <1>8, <3>1, <3>3, SameTree
      <4> QED
        BY <1>2, <3>1, <3>2, <4>1
  <2> QED
    BY <2>2, <2>3
<1>10. StreamInv'
  BY <1>3, <1>8, <1>9 DEF DeltaInv, Push, StreamInv
<1>11. CountInv'
  <2>1. unacked = Len(toClient) + Acks(toServer) /\ Acks(toServer) \in Nat
    BY AcksFinite DEF DeltaInv, CountInv, StreamInv
  <2>2. toServer' = toServer
    BY DEF Push
  <2>3. Acks(toServer)' = Acks(toServer)
    BY <2>2 DEF Acks, AcksIn
  <2> QED
    BY <1>2, <1>9, <2>1, <2>3 DEF CountInv
<1>12. TreeInv' /\ NamesInv'
  BY DEF DeltaInv, Push, TreeInv, NamesInv
<1>13. NoStraySubscription' /\ TreeIsSubscribed'
  BY DEF DeltaInv, Push, NoStraySubscription, TreeIsSubscribed, Asked
<1> QED
  BY <1>9, <1>10, <1>11, <1>12, <1>13 DEF DeltaInv

LEMMA ServeKeeps == DeltaInv /\ Serve => DeltaInv'
<1> SUFFICES ASSUME DeltaInv, Serve PROVE DeltaInv'
  OBVIOUS
<1> USE DEF clientVars
<1> DEFINE m == Head(toServer)
<1>1. /\ toServer \in Seq(ClientRequests) /\ toServer # <<>> /\ toServer' = Tail(toServer)
      /\ IsConfig(config) /\ IsConfig(pushed) /\ subs \in SUBSET Leaves
      /\ toClient \in Seq(Responses) /\ Agrees(toClient, pushed)
  BY DEF DeltaInv, StreamInv, Serve
<1>2. m \in ClientRequests /\ Tail(toServer) \in Seq(ClientRequests)
  BY <1>1
<1>3. Acks(toServer) = IF m.kind = "ack" THEN Acks(Tail(toServer)) + 1 ELSE Acks(Tail(toServer))
  BY <1>1, AcksTail
<1>4. /\ unacked = Len(toClient) + Acks(toServer) /\ Acks(Tail(toServer)) \in Nat
      /\ Acks(toServer) \in Nat /\ Len(toClient) \in Nat
  <2>1. Acks(Tail(toServer)) \in Nat /\ Acks(toServer) \in Nat
    BY <1>1, <1>2, AcksFinite
  <2> QED
    BY <1>1, <2>1 DEF DeltaInv, CountInv
<1>5. /\ nodes' = nodes /\ edges' = edges /\ resources' = resources /\ unwatched' = unwatched
      /\ config' = config /\ changes' = changes /\ cut' = cut /\ dropped' = dropped
  BY DEF Serve
<1>6. \/ m.kind = "watch" /\ ServeWatch(m.type)
      \/ m.kind = "change" /\ ServeChange(m)
      \/ m.kind = "ack" /\ ServeAck
  BY DEF Serve
<1> HIDE DEF m
<1>7. SUFFICES /\ toClient' \in Seq(Responses) /\ unacked' = Len(toClient') + Acks(Tail(toServer))
               /\ Agrees(toClient, pushed)' /\ IsConfig(pushed')
               /\ watched' \subseteq Types
               /\ subs' = IF m.kind = "change" THEN (subs \cup m.sub) \ m.unsub ELSE subs
  <2>1. subs' \subseteq Leaves
    BY <1>1, <1>2, <1>7 DEF ClientRequests
  <2>2. StreamInv'
    BY <1>1, <1>2, <1>5, <1>7, <2>1 DEF DeltaInv, StreamInv
  <2>3. CountInv' /\ TreeInv' /\ NamesInv'
    BY <1>1, <1>5, <1>7 DEF DeltaInv, CountInv, TreeInv, NamesInv
  <2>4. Asked' = Asked
    BY <1>1, <1>7, AfterServe DEF Asked, m
  <2>5. NoStraySubscription' /\ TreeIsSubscribed'
    BY <1>5, <2>4 DEF DeltaInv, NoStraySubscription, TreeIsSubscribed
  <2> QED
    BY <1>7, <2>2, <2>3, <2>5 DEF DeltaInv
<1>8. CASE m.kind = "watch" /\ ServeWatch(m.type)
  <2> DEFINE t == m.type
             a == ParentResponse(t)
             q == Append(toClient, a)
  <2>1. t \in Types
    BY <1>2, <1>8 DEF ClientRequests
  <2>2. IsConfig(PushedNow(t)) /\ a \in Responses /\ Agrees(q, PushedNow(t))
    BY <1>1, <2>1, PushedIsConfig, ParentResponseOK, AgreesParents
  <2>3. /\ toClient' = q /\ pushed' = PushedNow(t) /\ unacked' = unacked + 1 /\ subs' = subs
        /\ watched' = watched \cup {t}
    BY <1>8 DEF ServeWatch
  <2> HIDE DEF a, t
  <2>4. q \in Seq(Responses) /\ Len(q) = Len(toClient) + 1
    BY <1>1, <2>2
  <2> HIDE DEF q
  <2>5. Agrees(toClient, pushed)'
    BY <1>5, <2>2, <2>3, SameTree
  <2> QED
    BY <1>3, <1>4, <1>8, <2>1, <2>2, <2>3, <2>4, <2>5 DEF DeltaInv, StreamInv
<1>9. CASE m.kind = "change" /\ ServeChange(m)
  <2>1. /\ pushed' = pushed /\ watched' = watched /\ subs' = (subs \cup m.sub) \ m.unsub
    BY <1>9 DEF ServeChange
  <2>2. m.type \in LeafTypes /\ m.sub \in SUBSET Leaves
    BY <1>2, <1>9 DEF ClientRequests
  <2>3. /\ toClient' \in Seq(Responses) /\ unacked' = Len(toClient') + Acks(Tail(toServer))
        /\ Agrees(toClient, pushed)'
    <3>1. CASE m.sub = {}
      <4>1. toClient' = toClient /\ unacked' = unacked
        BY <1>9, <3>1 DEF ServeChange
      <4>2. Agrees(toClient, pushed)'
        BY <1>1, <1>5, <2>1, <4>1, SameTree
      <4> QED
        BY <1>1, <1>3, <1>4, <1>9, <4>1, <4>2
    <3>2. CASE m.sub # {}
      <4> DEFINE b == LeafResponse(m.type, m.sub, pushed)
                 q == Append(toClient, b)
      <4>1. toClient' = q /\ unacked' = unacked + 1
        BY <1>9, <3>2 DEF ServeChange
      <4>2. b \in Responses /\ Agrees(q, pushed)
        BY <1>1, <2>2, LeafResponseOK, AgreesLeaves
      <4> HIDE DEF b
      <4>3. q \in Seq(Responses) /\ Len(q) = Len(toClient) + 1
        BY <1>1, <4>2
      <4> HIDE DEF q
      <4>4. Agrees(toClient, pushed)'
        BY <1>5, <2>1, <4>1, <4>2, SameTree
      <4> QED
        BY <1>3, <1>4, <1>9, <4>1, <4>3, <4>4
    <3> QED
      BY <3>1, <3>2
  <2> QED
    BY <1>1, <1>9, <2>1, <2>3 DEF DeltaInv, StreamInv
<1>10. CASE m.kind = "ack" /\ ServeAck
  <2>1. /\ toClient' = toClient /\ pushed' = pushed /\ watched' = watched /\ subs' = subs
        /\ unacked' = unacked - 1
    BY <1>10 DEF ServeAck
  <2>2. Agrees(toClient, pushed)'
    BY <1>1, <1>5, <2>1, SameTree
  <2> QED
    BY <1>1, <1>3, <1>4, <1>10, <2>1, <2>2 DEF DeltaInv, StreamInv
<1> QED
  BY <1>6, <1>8, <1>9, <1>10

\* The names under d.resources follow the tree.
LEMMA NamesFollow ==
    ASSUME TreeInv, NamesInv, NEW m \in Responses,
           resources' = [resources EXCEPT ![m.type] = NamesLeft(m)], nodes' = NodesLeft(m)
    PROVE  NamesInv'
<1>1. m.type \in AllTypes /\ NamesLeft(m) \subseteq Names
  BY ResponseParts, Kinds DEF NamesInv, NamesLeft, Matched
<1>2. resources' \in [AllTypes -> SUBSET Names]
  BY <1>1 DEF NamesInv
<1>3. ASSUME NEW t \in Types PROVE resources'[t] = nodes' \cap ParentsOf(t)
  <2>1. t \in AllTypes
    BY Kinds
  <2>2. \A p \in ParentsOf(t) :
           p \in NodesLeft(m) <=> (p \in nodes \/ p \in DOMAIN m.added) /\ p \notin m.removed
    BY ParentsLeft DEF ParentsOf
  <2>3. CASE t = m.type
    <3>1. resources'[t] = NamesLeft(m) /\ resources[t] = nodes \cap ParentsOf(t)
      BY <1>1, <2>3 DEF NamesInv
    <3>2. Matched(m) = DOMAIN m.added /\ DOMAIN m.added \subseteq ParentsOf(t)
      BY <2>3, ResponseParts DEF Matched
    <3> QED
      BY <2>2, <2>3, <3>1, <3>2 DEF NamesLeft
  <2>4. CASE t # m.type
    <3>1. resources'[t] = resources[t] /\ resources[t] = nodes \cap ParentsOf(t)
      BY <1>1, <2>1, <2>4 DEF NamesInv
    <3>2. \A p \in ParentsOf(t) : p \notin DOMAIN m.added /\ p \notin m.removed
      BY <2>4, ResponseParts, Kinds DEF ParentsOf
    <3> QED
      BY <2>2, <3>1, <3>2
  <2> QED
    BY <2>3, <2>4
<1> QED
  BY <1>2, <1>3 DEF NamesInv

LEMMA HandleRecvKeeps == DeltaInv /\ HandleRecv => DeltaInv'
<1> SUFFICES ASSUME DeltaInv, HandleRecv PROVE DeltaInv'
  OBVIOUS
<1> USE DEF serverVars
<1> DEFINE m == Head(toClient)
<1>1. /\ toClient \in Seq(Responses) /\ toClient # <<>> /\ IsConfig(pushed)
      /\ Agrees(toClient, pushed) /\ TreeInv /\ NamesInv /\ toServer \in Seq(ClientRequests)
  BY DEF DeltaInv, StreamInv, HandleRecv
<1>2. m \in Responses /\ Tail(toClient) \in Seq(Responses) /\ Len(Tail(toClient)) = Len(toClient) - 1
      /\ Len(toClient) \in Nat
  BY <1>1
<1>3. /\ nodes' = NodesLeft(m) /\ edges' = EdgesLeft(m) /\ toClient' = Tail(toClient)
      /\ resources' = [resources EXCEPT ![m.type] = NamesLeft(m)]
      /\ cut' = (cut \ Requests(m)) \cup (Removals(m) \cap NodesLeft(m))
      /\ dropped' = (dropped \ Requests(m)) \cup (Removed(m) \cap Leaves)
      /\ toServer' = toServer \o (IF m.type \in Types THEN SendChanges(m) ELSE <<>>) \o SendAck(m)
      /\ UNCHANGED <<unwatched, config, pushed, watched, subs, unacked, changes>>
  BY DEF HandleRecv
<1>4. Agrees(toClient, pushed)'
  BY <1>1, <1>3, AgreesRecv
<1> HIDE DEF m
<1>5. toServer' = Replied(toServer, m)
  BY <1>3 DEF Replied
<1>6. /\ toServer' \in Seq(ClientRequests)
      /\ Acks(toServer') = Acks(toServer) + 1
      /\ Asked' = (Asked \cup Requests(m)) \ Removals(m)
  BY <1>1, <1>2, <1>3, <1>5, ReplyIsSent DEF Asked
<1>7. Requests(m) \subseteq Leaves /\ Removals(m) \subseteq Leaves
  BY <1>1, <1>2, NoChildren
<1>8. StreamInv'
  BY <1>2, <1>3, <1>6, <1>7 DEF DeltaInv, StreamInv
<1>9. CountInv'
  BY <1>1, <1>2, <1>3, <1>6, AcksFinite DEF DeltaInv, CountInv
<1>10. TreeInv'
  BY <1>1, <1>2, <1>3, TreeStep DEF TreeInv
<1>11. NamesInv'
  BY <1>1, <1>2, <1>3, NamesFollow
<1>12. \A l \in NodesAdded(m) \cap Leaves :
          l \in NodesLeft(m) \/ l \in Removed(m) \/ l \in Removals(m)
  BY DEF NodesLeft
<1>13. NoStraySubscription'
  <2> SUFFICES ASSUME NEW l \in Asked' PROVE l \in nodes' \cup dropped'
    BY DEF NoStraySubscription
  <2>1. l \in Leaves /\ l \notin Removals(m) /\ (l \in Asked \/ l \in Requests(m))
    BY <1>6, <1>7 DEF Asked, SubscribedAfter
  <2>2. CASE l \in nodes \cup Requests(m)
    <3>1. l \in NodesAdded(m)
      BY <2>2 DEF NodesAdded, Requests
    <3> QED
      BY <1>3, <1>12, <2>1, <3>1
  <2>3. CASE l \notin nodes \cup Requests(m)
    <3>1. l \in dropped
      BY <2>1, <2>3 DEF DeltaInv, NoStraySubscription
    <3> QED
      BY <1>3, <2>3, <3>1
  <2> QED
    BY <2>2, <2>3
<1>14. TreeIsSubscribed'
  <2> SUFFICES ASSUME NEW l \in NodesLeft(m) \cap Leaves PROVE l \in Asked' \cup cut'
    BY <1>3 DEF TreeIsSubscribed
  <2>1. CASE l \in Removals(m)
    BY <1>3, <2>1
  <2>2. CASE l \notin Removals(m)
    <3>1. l \in nodes \/ l \in Requests(m)
      <4>1. l \in NodesAdded(m)
        BY DEF NodesLeft
      <4>2. l \in Matched(m) => l \in nodes
        BY <1>2, ResponseParts, Kinds DEF Matched, ParentsOf
      <4> QED
        BY <4>1, <4>2 DEF NodesAdded, Requests
    <3>2. CASE l \in Requests(m)
      BY <1>6, <2>2, <3>2
    <3>3. CASE l \in nodes
      <4>1. l \in Asked \cup cut /\ l \notin Requests(m)
        BY <3>3 DEF DeltaInv, TreeIsSubscribed, Requests
      <4> QED
        BY <1>3, <1>6, <2>2, <4>1
    <3> QED
      BY <3>1, <3>2, <3>3
  <2> QED
    BY <2>1, <2>2
<1> QED
  BY <1>4, <1>8, <1>9, <1>10, <1>11, <1>13, <1>14 DEF DeltaInv

LEMMA DeltaInvariant == Spec => []DeltaInv
<1>1. DeltaInv /\ [Next]_vars => DeltaInv'
  <2> SUFFICES ASSUME DeltaInv, [Next]_vars PROVE DeltaInv'
    OBVIOUS
  <2>1. CASE Reconfigure
    BY <2>1, ReconfigureKeeps
  <2>2. ASSUME NEW t \in Types, Push(t) PROVE DeltaInv'
    BY <2>2, PushKeeps
  <2>3. CASE SendWatch
    BY <2>3, SendWatchKeeps
  <2>4. CASE Serve
    BY <2>4, ServeKeeps
  <2>5. CASE HandleRecv
    BY <2>5, HandleRecvKeeps
  <2>6. CASE Redial
    BY <2>6, RedialKeeps
  <2>7. CASE UNCHANGED vars
    <3>1. StreamInv' /\ CountInv' /\ TreeInv' /\ NamesInv'
      BY <2>7 DEF DeltaInv, StreamInv, CountInv, TreeInv, NamesInv, vars, clientVars, serverVars
    <3>2. Agrees(toClient, pushed)'
      BY <2>7, SameTree DEF DeltaInv, vars, clientVars, serverVars
    <3>3. NoStraySubscription' /\ TreeIsSubscribed'
      BY <2>7 DEF DeltaInv, NoStraySubscription, TreeIsSubscribed, Asked, vars, clientVars, serverVars
    <3> QED
      BY <3>1, <3>2, <3>3 DEF DeltaInv
  <2> QED
    BY <2>1, <2>2, <2>3, <2>4, <2>5, <2>6, <2>7 DEF Next
<1> QED
  BY <1>1, StartsAgreeing, PTL DEF Spec

-----------------------------------------------------------------------------
(* What follows *)

\* The tree of newNode, relate and deleteNode joins parents to leaves, none of
\* them left without a parent, and a count of acknowledgements never falls short.
THEOREM DeltaTyping == Spec => []TypeOK
<1>1. DeltaInv => TypeOK
  <2> SUFFICES ASSUME DeltaInv PROVE TypeOK
    OBVIOUS
  <2>1. Acks(toServer) \in Nat /\ Len(toClient) \in Nat
    BY AcksFinite DEF DeltaInv, StreamInv
  <2>2. unacked \in Nat
    BY <2>1 DEF DeltaInv, CountInv
  <2> QED
    BY <2>2 DEF DeltaInv, StreamInv, TreeInv, NamesInv, TypeOK
<1> QED
  BY <1>1, DeltaInvariant, PTL

\* handleRecv unsubscribes from what leaves the tree with its parents: once the
\* requests on their way arrive, only what the server removed itself is left.
THEOREM NoStray == Spec => []NoStraySubscription
<1>1. DeltaInv => NoStraySubscription
  BY DEF DeltaInv
<1> QED
  BY <1>1, DeltaInvariant, PTL

\* handleRecv subscribes to what it enters in the tree, once; what is in the
\* tree is unsubscribed only with another of its parents.
THEOREM TreeSubscribed == Spec => []TreeIsSubscribed
<1>1. DeltaInv => TreeIsSubscribed
  BY DEF DeltaInv
<1> QED
  BY <1>1, DeltaInvariant, PTL

\* With no response on its way the tree, and d.resources, hold the parents the
\* server sent last and all they refer to, whatever came in between.
THEOREM TreeMatches == Spec => []TreeMatchesConfig
<1>1. DeltaInv => TreeMatchesConfig
  <2> SUFFICES ASSUME DeltaInv, toClient = <<>> PROVE
        /\ nodes \cap Parents = DOMAIN pushed
        /\ UNION {resources[t] : t \in Types} = DOMAIN pushed
        /\ \A p \in DOMAIN pushed : {p} \X pushed[p] \subseteq edges
    BY DEF TreeMatchesConfig
  <2>1. \A p \in Parents : Settled(p, pushed)
    BY DEF DeltaInv, Agrees, UnmentionedSettled
  <2>2. DOMAIN pushed \subseteq Parents
    BY DEF DeltaInv, StreamInv, IsConfig
  <2>3. nodes \cap Parents = DOMAIN pushed
    BY <2>1, <2>2 DEF Settled
  <2>4. UNION {resources[t] : t \in Types} = nodes \cap Parents
    <3>1. \A p \in Parents : TypeOf[p] \in Types
      BY DeltaClientAssumption
    <3> QED
      BY <3>1 DEF DeltaInv, NamesInv, ParentsOf
  <2>5. ASSUME NEW p \in DOMAIN pushed PROVE {p} \X pushed[p] \subseteq edges
    BY <2>1, <2>2 DEF Settled
  <2> QED
    BY <2>3, <2>4, <2>5
<1> QED
  BY <1>1, DeltaInvariant, PTL

\* handleRecv answers each response with one acknowledgement (sendAck), of
\* whatever type it is and whether or not it was ignored.
THEOREM EveryResponseAcked == Spec => []AllAcknowledged
<1>1. DeltaInv => AllAcknowledged
  BY EmptyStream DEF DeltaInv, CountInv, AllAcknowledged
<1> QED
  BY <1>1, DeltaInvariant, PTL
=============================================================================
