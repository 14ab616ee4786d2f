-------------------------- MODULE AdscClient_proofs --------------------------
(***************************************************************************)
(* The state-of-the-world client and the server agree, once nothing is on  *)
(* its way, on what is watched and on what is acknowledged, although the   *)
(* server ignores requests with an old nonce; and a fetch that returns has *)
(* all that the configuration refers to.  For all types, names and sizes.  *)
(***************************************************************************)
EXTENDS AdscClient, FiniteSetTheorems, FunctionTheorems, SequenceTheorems, TLAPS

(* What travels on the stream *)

Requests == [type : Types, nonce : Nat, names : SUBSET Names]
Responses == [type : Types, nonce : Nat, names : SUBSET Names]

\* No message of type t is on its way; the i-th message is the last of type t.
NoneOf(q, t) == \A i \in 1..Len(q) : q[i].type # t
LastOf(q, t, i) ==
    q[i].type = t /\ \A j \in 1..Len(q) : j > i => q[j].type # t

StateInv ==
    /\ watches \in [Types -> [names : SUBSET Names, nonce : Nat]]
    /\ \A t \in Types : OfTypes(watches[t].names, {t}) = watches[t].names
    /\ initialLoad \in BOOLEAN
    /\ responses \in [Types -> SUBSET Names]
    /\ updates \in Seq(Types \cup {"close"})
    /\ Len(updates) <= UpdCap
    /\ toClient \in Seq(Responses)
    /\ toServer \in Seq(Requests)
    /\ broken \in BOOLEAN
    /\ config \in Configs
    /\ watching \subseteq Types
    /\ subs \in [Leaves -> SUBSET Names]
    /\ sent \in [Types -> Nat]
    /\ acked \in [Types -> Nat]
    /\ stale \subseteq watching
    /\ changes \in 0..MaxChanges
    /\ fetch \in {"none", "reading", "fetched", "closed", "returned", "gaveUp", "cancelled"}
    /\ missing \subseteq FetchTypes
    /\ result \in [Types -> SUBSET Names]

\* The responses of a type on their way carry nonces that grow, from the one
\* the client noted last to the one the server sent last.
NonceInv ==
    \A t \in Types :
        /\ watches[t].nonce <= sent[t]
        /\ NoneOf(toClient, t) => watches[t].nonce = sent[t]
        /\ \A i \in 1..Len(toClient) :
              toClient[i].type = t =>
                  /\ watches[t].nonce < toClient[i].nonce
                  /\ toClient[i].nonce <= sent[t]
                  /\ \A j \in 1..Len(toClient) :
                        j > i /\ toClient[j].type = t => toClient[i].nonce < toClient[j].nonce
                  /\ LastOf(toClient, t, i) => toClient[i].nonce = sent[t]

\* A request carries the nonce, and one for endpoints the names, that w notes.
UpToDate(r, w) ==
    /\ r.nonce = w[r.type].nonce
    /\ r.type = EDS => r.names = w[EDS].names

\* The server knows what the client wants of type t.
InStep(t) ==
    /\ t \in watching => acked[t] = sent[t]
    /\ t = EDS => subs[EDS] = watches[EDS].names

\* The last request of a type on its way is up to date; with none on its way
\* the server is in step, or has sent a response that the client has not read.
RequestInv ==
    \A t \in Types :
        /\ acked[t] <= watches[t].nonce
        /\ \A i \in 1..Len(toServer) :
              toServer[i].type = t =>
                  /\ toServer[i].nonce <= watches[t].nonce
                  /\ LastOf(toServer, t, i) => UpToDate(toServer[i], watches)
        /\ NoneOf(toServer, t) /\ watches[t].nonce = sent[t] => InStep(t)

\* Nothing is known of listeners before they are asked for.
ListenersInv ==
    ~initialLoad => NoneOf(toServer, LDS) /\ LDS \notin watching /\ sent[LDS] = 0

\* What a response of type t holds while the configuration is the first one.
Final(t) ==
    CASE t = CDS -> OfTypes(config, {EDS})
      [] t = LDS -> OfTypes(config, {RDS} \cup Optional)
      [] OTHER -> OfTypes(config, {t})

Referred == {EDS, RDS}

\* With one configuration, every message of a type names the same, and those of
\* endpoints and routes exist only if there are some; w are the endpoints watched.
FinalResponse(m, w) ==
    /\ m.type \in FetchTypes => m.names = Final(m.type)
    /\ m.type \in Referred => Final(m.type) # {}
    /\ m.type = EDS => w = Final(EDS)

FinalRequest(m, w) ==
    /\ m.type \in Referred => m.names = Final(m.type) /\ Final(m.type) # {}
    /\ m.type = EDS => w = Final(EDS)

StreamIsFinal ==
    /\ stale = {}
    /\ \A t \in Referred : watches[t].names \subseteq Final(t)
    /\ \A i \in 1..Len(toClient) : FinalResponse(toClient[i], watches[EDS].names)
    /\ \A i \in 1..Len(toServer) : FinalRequest(toServer[i], watches[EDS].names)
    /\ \A t \in Referred \cap watching : subs[t] = Final(t)

\* What Fetch has crossed off, or will once it has read its updates.
Received(t) == t \notin missing \/ \E i \in 1..Len(updates) : updates[i] = t

FetchInv ==
    /\ fetch \in {"reading", "fetched"} =>
          \A t \in FetchTypes : Received(t) => responses[t] = Final(t)
    /\ fetch = "fetched" => missing = {}
    /\ fetch = "returned" => \A t \in FetchTypes : result[t] = Final(t)

AdscInv ==
    /\ StateInv
    /\ ~broken => NonceInv /\ RequestInv /\ ListenersInv
    /\ changes = 0 => StreamIsFinal /\ FetchInv
-----------------------------------------------------------------------------
(* Constants *)

LEMMA Kinds ==
    /\ Parents \cap Leaves = {} /\ Types = Parents \cup Leaves
    /\ {CDS, LDS} = Parents /\ {EDS, RDS} \subseteq Leaves /\ Optional \subseteq Leaves
    /\ CDS # LDS /\ EDS # RDS /\ FetchTypes = Parents \cup {EDS, RDS}
    /\ FetchTypes \subseteq Types /\ "close" \notin FetchTypes
    /\ Children(CDS) = {EDS} /\ Children(LDS) = {RDS} \cup Optional
    /\ EDS \notin Children(LDS) /\ LDS \notin Children(CDS)
    /\ \A t \in Leaves : Children(t) = {}
    /\ \A t \in Types : Children(t) \subseteq Leaves /\ t \notin Children(t)
    /\ \A t \in Types : IsFiniteSet(Children(t))
<1>1. /\ Parents \cap Leaves = {} /\ Types = Parents \cup Leaves
      /\ {CDS, LDS} = Parents /\ {EDS, RDS} \subseteq Leaves /\ Optional \subseteq Leaves
      /\ CDS # LDS /\ EDS # RDS /\ EDS \notin Optional /\ FetchTypes = Parents \cup {EDS, RDS}
      /\ FetchTypes \subseteq Types /\ "close" \notin FetchTypes
  <2>1. /\ Types = Parents \cup Leaves /\ {CDS, LDS} = Parents /\ Leaves = {EDS, RDS} \cup Optional
        /\ FetchTypes = Parents \cup {EDS, RDS} /\ FetchTypes \subseteq Types
    BY DEF Parents, Leaves, Types, FetchTypes
  <2>2. "close" \notin Types /\ Parents \cap Leaves = {} /\ CDS # LDS /\ EDS # RDS /\ EDS \notin Optional
    BY AdscClientAssumption
  <2> QED
    BY <2>1, <2>2
<1>2. CDS \notin Leaves /\ LDS \notin Leaves /\ CDS \in Types /\ LDS \in Types
  BY <1>1
<1>3. Children(CDS) = {EDS}
  BY <1>1 DEF Children
<1>4. Children(LDS) = {RDS} \cup Optional
  BY <1>1 DEF Children
<1>5. \A t \in Leaves : Children(t) = {}
  BY <1>2 DEF Children
<1>6. IsFiniteSet({EDS}) /\ IsFiniteSet({}) /\ IsFiniteSet({RDS} \cup Optional)
  BY FS_Singleton, FS_EmptySet, FS_Union, AdscClientAssumption
<1>7. \A t \in Types : t = CDS \/ t = LDS \/ t \in Leaves
  BY <1>1
<1>8. \A t \in Types : Children(t) \subseteq Leaves /\ t \notin Children(t) /\ IsFiniteSet(Children(t))
  BY <1>1, <1>2, <1>3, <1>4, <1>5, <1>6, <1>7
<1> QED
  BY <1>1, <1>2, <1>3, <1>4, <1>5, <1>8

LEMMA Selected ==
    ASSUME NEW S \in SUBSET Names, NEW T
    PROVE  OfTypes(S, T) \in SUBSET Names /\ OfTypes(OfTypes(S, T), T) = OfTypes(S, T)
  BY DEF OfTypes

LEMMA Enumerated ==
    ASSUME NEW S, IsFiniteSet(S)
    PROVE  /\ SetToSeq(S) \in Seq(S)
           /\ \A x \in S : \E i \in 1..Len(SetToSeq(S)) : SetToSeq(S)[i] = x
<1> DEFINE n == Cardinality(S)
           s == SetToSeq(S)
<1>1. n \in Nat /\ ExistsBijection(1..n, S)
  BY FS_CardinalityType
<1>2. PICK f \in Bijection(1..n, S) : TRUE
  BY <1>1 DEF ExistsBijection
<1>3. f \in [1..n -> S] /\ IsInjective(f)
  BY <1>2 DEF Bijection, Injection
<1>4. s \in [1..n -> S] /\ IsInjective(s)
  <2> HIDE DEF n
  <2> QED
    BY <1>3 DEF SetToSeq, n
<1> HIDE DEF s
<1>5. s \in Injection(1..n, S)
  BY <1>4 DEF Injection
<1>6. Cardinality(1..n) = n
  BY <1>1, FS_Interval
<1>7. s \in Surjection(1..n, S)
  BY <1>5, <1>6, FS_Injection
<1>8. \A x \in S : \E i \in 1..n : s[i] = x
  BY <1>7 DEF Surjection
<1>9. s \in Seq(S) /\ Len(s) = n
  BY <1>1, <1>4
<1> QED
  BY <1>8, <1>9 DEF s
-----------------------------------------------------------------------------
(* Sequences of messages *)

\* A message put at the end is the last of its type.
LEMMA Appended ==
    ASSUME NEW R, NEW q \in Seq(R), NEW m \in R
    PROVE  /\ Append(q, m) \in Seq(R) /\ Len(q) \in Nat /\ Len(Append(q, m)) = Len(q) + 1
           /\ Append(q, m)[Len(q) + 1] = m
           /\ \A i \in 1..Len(q) : Append(q, m)[i] = q[i]
           /\ \A t : NoneOf(Append(q, m), t) <=> NoneOf(q, t) /\ m.type # t
           /\ \A t : \A i \in 1..Len(q) :
                 LastOf(Append(q, m), t, i) <=> LastOf(q, t, i) /\ m.type # t
<1> DEFINE r == Append(q, m)
<1>1. /\ r \in Seq(R) /\ Len(q) \in Nat /\ Len(r) = Len(q) + 1 /\ r[Len(q) + 1] = m
      /\ \A i \in 1..Len(q) : r[i] = q[i]
  OBVIOUS
<1> HIDE DEF r
<1>2. \A t : NoneOf(r, t) <=> NoneOf(q, t) /\ m.type # t
  BY <1>1 DEF NoneOf
<1>3. ASSUME NEW t, NEW i \in 1..Len(q)
      PROVE  LastOf(r, t, i) <=> LastOf(q, t, i) /\ m.type # t
  BY <1>1 DEF LastOf
<1> QED
  BY <1>1, <1>2, <1>3 DEF r

\* What is left once the first message is taken.
LEMMA Taken ==
    ASSUME NEW R, NEW q \in Seq(R), q # <<>>
    PROVE  /\ Tail(q) \in Seq(R) /\ Len(Tail(q)) \in Nat /\ Len(q) = Len(Tail(q)) + 1
           /\ Head(q) \in R /\ q[1] = Head(q) /\ 1 \in 1..Len(q)
           /\ \A i \in 1..Len(Tail(q)) : i + 1 \in 1..Len(q) /\ Tail(q)[i] = q[i + 1]
           /\ \A t : NoneOf(q, t) <=> NoneOf(Tail(q), t) /\ Head(q).type # t
           /\ \A t : \A i \in 1..Len(Tail(q)) : LastOf(Tail(q), t, i) => LastOf(q, t, i + 1)
           /\ LastOf(q, Head(q).type, 1) <=> NoneOf(Tail(q), Head(q).type)
<1> DEFINE r == Tail(q)
           m == Head(q)
           n == Len(r)
<1>1. /\ r \in Seq(R) /\ n \in Nat /\ Len(q) = n + 1 /\ m \in R /\ q[1] = m /\ 1 \in 1..Len(q)
      /\ \A i \in 1..n : i + 1 \in 1..Len(q) /\ r[i] = q[i + 1]
  OBVIOUS
<1> HIDE DEF r, m
<1>2. \A j \in 1..Len(q) : j = 1 \/ (j - 1 \in 1..n /\ q[j] = r[j - 1] /\ j > 1)
  BY <1>1
<1>3. ASSUME NEW t PROVE NoneOf(q, t) <=> NoneOf(r, t) /\ m.type # t
  <2>1. NoneOf(q, t) => NoneOf(r, t) /\ m.type # t
    BY <1>1 DEF NoneOf
  <2>2. NoneOf(r, t) /\ m.type # t => NoneOf(q, t)
    BY <1>1, <1>2 DEF NoneOf
  <2> QED
    BY <2>1, <2>2
<1>4. ASSUME NEW t, NEW i \in 1..n, LastOf(r, t, i) PROVE LastOf(q, t, i + 1)
  <2>1. \A j \in 1..Len(q) : j > i + 1 => j - 1 \in 1..n /\ q[j] = r[j - 1] /\ j - 1 > i
    BY <1>1, <1>2
  <2>2. q[i + 1] = r[i] /\ r[i].type = t
    BY <1>1, <1>4 DEF LastOf
  <2>3. \A j \in 1..n : j > i => r[j].type # t
    BY <1>4 DEF LastOf
  <2>4. \A j \in 1..Len(q) : j > i + 1 => q[j].type # t
    BY <2>1, <2>3
  <2> QED
    BY <2>2, <2>4 DEF LastOf
<1>5. LastOf(q, m.type, 1) <=> NoneOf(r, m.type)
  <2>1. LastOf(q, m.type, 1) => NoneOf(r, m.type)
    <3>1. \A i \in 1..n : i + 1 > 1
      BY <1>1
    <3> QED
      BY <1>1, <3>1 DEF LastOf, NoneOf
  <2>2. NoneOf(r, m.type) => LastOf(q, m.type, 1)
    BY <1>1, <1>2 DEF LastOf, NoneOf
  <2> QED
    BY <2>1, <2>2
<1> QED
  BY <1>1, <1>3, <1>4, <1>5 DEF r, m
-----------------------------------------------------------------------------
(* What the client sends on a response *)

\* The requests q on their way, and those that handleRecv sends on m.
Replied(q, m) ==
    q \o Ack(m) \o RequestsFor(m)
      \o (IF AsksListeners(m) THEN <<Request(LDS, 0, {})>> ELSE <<>>)

IsReply(r, m) ==
    \/ r = Request(m.type, m.nonce, AckNames(m))
    \/ \E t \in Updated(m) : r = Request(t, watches[t].nonce, Refs(m, t))
    \/ AsksListeners(m) /\ r = Request(LDS, 0, {})

\* There is a reply for every type that m is of or changes.
RepliesForAll(q, r, m) ==
    \A t \in Updated(m) \cup {m.type} :
        \E i \in 1..Len(r) : i > Len(q) /\ r[i].type = t

LEMMA Joined ==
    ASSUME NEW q \in Seq(Requests), NEW x \in Seq(Requests)
    PROVE  /\ q \o x \in Seq(Requests) /\ Len(q) \in Nat /\ Len(x) \in Nat
           /\ Len(q \o x) = Len(q) + Len(x)
           /\ \A i \in 1..Len(q) : (q \o x)[i] = q[i]
           /\ \A i \in 1..Len(x) : (q \o x)[Len(q) + i] = x[i]
  OBVIOUS

LEMMA UpdatedTypes ==
    ASSUME NEW m \in Responses
    PROVE  /\ Updated(m) \subseteq Leaves /\ m.type \notin Updated(m) /\ IsFiniteSet(Updated(m))
           /\ EDS \in Updated(m) => m.type = CDS
           /\ m.type \in Leaves => Updated(m) = {}
           /\ \A t : Refs(m, t) \in SUBSET Names /\ OfTypes(Refs(m, t), {t}) = Refs(m, t)
<1>1. m.type \in Types /\ m.names \in SUBSET Names
  BY DEF Responses
<1>2. Updated(m) \subseteq Children(m.type)
  BY DEF Updated
<1>3. m.type = CDS \/ m.type = LDS \/ m.type \in Leaves
  BY <1>1, Kinds
<1>4. IsFiniteSet(Updated(m))
  BY <1>1, <1>2, Kinds, FS_Subset
<1>5. \A t : Refs(m, t) \in SUBSET Names /\ OfTypes(Refs(m, t), {t}) = Refs(m, t)
  BY <1>1, Selected DEF Refs
<1>6. Updated(m) \subseteq Leaves /\ m.type \notin Updated(m)
  BY <1>1, <1>2, Kinds
<1>7. EDS \in Updated(m) => m.type = CDS
  BY <1>2, <1>3, Kinds
<1>8. m.type \in Leaves => Updated(m) = {}
  BY <1>2, Kinds
<1> QED
  BY <1>4, <1>5, <1>6, <1>7, <1>8

LEMMA Replies ==
    ASSUME watches \in [Types -> [names : SUBSET Names, nonce : Nat]],
           NEW m \in Responses, NEW q \in Seq(Requests), NEW r, r = Replied(q, m)
    PROVE  /\ r \in Seq(Requests) /\ Len(q) \in Nat /\ Len(r) \in Nat /\ Len(q) < Len(r)
           /\ \A i \in 1..Len(q) : r[i] = q[i]
           /\ \A i \in 1..Len(r) : i > Len(q) => IsReply(r[i], m)
           /\ RepliesForAll(q, r, m)
<1> DEFINE U == Updated(m)
           s == SetToSeq(U)
           a == Request(m.type, m.nonce, AckNames(m))
           x == RequestsFor(m)
           y == IF AsksListeners(m) THEN <<Request(LDS, 0, {})>> ELSE <<>>
           q1 == Append(q, a)
           q2 == q1 \o x
           q3 == q2 \o y
<1>1. m.type \in Types /\ m.nonce \in Nat /\ m.names \in SUBSET Names
  BY DEF Responses
<1>2. U \subseteq Types /\ IsFiniteSet(U)
  BY UpdatedTypes, Kinds
<1>3. \A t \in U : Request(t, watches[t].nonce, Refs(m, t)) \in Requests
  BY <1>2, UpdatedTypes DEF Request, Requests
<1>4. AckNames(m) \in SUBSET Names
  BY <1>1, Kinds DEF AckNames
<1>5. a \in Requests /\ a.type = m.type
  BY <1>1, <1>4 DEF Request, Requests
<1>6. s \in Seq(U) /\ \A t \in U : \E i \in 1..Len(s) : s[i] = t
  BY <1>2, Enumerated
<1>7. x = [i \in 1..Len(s) |-> Request(s[i], watches[s[i]].nonce, Refs(m, s[i]))]
  BY DEF RequestsFor
<1> HIDE DEF s, x
<1>8. Len(s) \in Nat /\ \A i \in 1..Len(s) : s[i] \in U
  BY <1>6
<1>9. /\ x \in Seq(Requests) /\ Len(x) = Len(s)
      /\ \A i \in 1..Len(x) : x[i] = Request(s[i], watches[s[i]].nonce, Refs(m, s[i])) /\ s[i] \in U
  BY <1>3, <1>7, <1>8
<1>10. y \in Seq(Requests) /\ \A i \in 1..Len(y) : AsksListeners(m) /\ y[i] = Request(LDS, 0, {})
  <2>1. Request(LDS, 0, {}) \in Requests
    BY Kinds DEF Request, Requests
  <2> QED
    BY <2>1
<1>11. r = q3
  <2>1. Ack(m) = <<a>>
    BY DEF Ack, AckNonce
  <2>2. q \o Ack(m) = q1
    BY <1>5, <2>1
  <2> QED
    BY <2>2 DEF Replied, x
<1> HIDE DEF a, y, U
<1>12. /\ q1 \in Seq(Requests) /\ Len(q) \in Nat /\ Len(q1) = Len(q) + 1 /\ q1[Len(q) + 1] = a
       /\ \A i \in 1..Len(q) : q1[i] = q[i]
  BY <1>5
<1> HIDE DEF q1
<1>13. /\ q2 \in Seq(Requests) /\ Len(x) \in Nat /\ Len(q2) = Len(q1) + Len(x)
       /\ \A i \in 1..Len(q1) : q2[i] = q1[i]
       /\ \A i \in 1..Len(x) : q2[Len(q1) + i] = x[i]
  BY <1>9, <1>12, Joined
<1> HIDE DEF q2
<1>14. /\ r \in Seq(Requests) /\ Len(y) \in Nat /\ Len(r) = Len(q2) + Len(y)
       /\ \A i \in 1..Len(q2) : r[i] = q2[i]
       /\ \A i \in 1..Len(y) : r[Len(q2) + i] = y[i]
  <2>1. /\ q2 \o y \in Seq(Requests) /\ Len(y) \in Nat /\ Len(q2 \o y) = Len(q2) + Len(y)
        /\ \A i \in 1..Len(q2) : (q2 \o y)[i] = q2[i]
        /\ \A i \in 1..Len(y) : (q2 \o y)[Len(q2) + i] = y[i]
    BY <1>10, <1>13, Joined
  <2> QED
    BY <1>11, <2>1
<1>15. \A i \in 1..Len(q) : r[i] = q[i]
  BY <1>12, <1>13, <1>14
<1>16. ASSUME NEW i \in 1..Len(r), i > Len(q) PROVE IsReply(r[i], m)
  <2>1. CASE i = Len(q) + 1
    <3>1. r[i] = a
      BY <1>12, <1>13, <1>14, <2>1
    <3> QED
      BY <3>1 DEF IsReply, a
  <2>2. CASE i > Len(q1) /\ i <= Len(q2)
    <3>1. i - Len(q1) \in 1..Len(x) /\ r[i] = x[i - Len(q1)]
      <4>1. i \in 1..Len(q2) /\ i - Len(q1) \in 1..Len(x) /\ Len(q1) + (i - Len(q1)) = i
        BY <1>12, <1>13, <2>2
      <4> QED
        BY <1>13, <1>14, <4>1
    <3> QED
      BY <1>9, <3>1 DEF IsReply, U
  <2>3. CASE i > Len(q2)
    <3>1. i - Len(q2) \in 1..Len(y) /\ Len(q2) + (i - Len(q2)) = i
      BY <1>12, <1>13, <1>14, <2>3
    <3>2. r[i] = y[i - Len(q2)]
      BY <1>14, <3>1
    <3> QED
      BY <1>10, <3>1, <3>2 DEF IsReply
  <2> QED
    BY <1>12, <1>13, <1>14, <1>16, <2>1, <2>2, <2>3
<1>17. ASSUME NEW t \in U \cup {m.type}
       PROVE  \E i \in 1..Len(r) : i > Len(q) /\ r[i].type = t
  <2>1. CASE t = m.type
    <3>1. Len(q) + 1 \in 1..Len(r) /\ Len(q) + 1 > Len(q) /\ r[Len(q) + 1] = a
      BY <1>12, <1>13, <1>14
    <3> QED
      BY <1>5, <2>1, <3>1
  <2>2. CASE t \in U
    <3>1. PICK i \in 1..Len(x) : s[i] = t
      BY <1>6, <1>9, <2>2
    <3>2. x[i].type = t
      <4>1. x[i] = Request(t, watches[t].nonce, Refs(m, t))
        BY <1>9, <3>1
      <4> QED
        BY <4>1 DEF Request
    <3>3. /\ Len(q1) + i \in 1..Len(r) /\ Len(q1) + i > Len(q) /\ Len(q1) + i \in 1..Len(q2)
      BY <1>12, <1>13, <1>14, <3>1
    <3>4. r[Len(q1) + i] = x[i]
      BY <1>13, <1>14, <3>1, <3>3
    <3> QED
      BY <3>2, <3>3, <3>4
  <2> QED
    BY <2>1, <2>2
<1>18. Len(r) \in Nat /\ Len(q) < Len(r)
  BY <1>12, <1>13, <1>14
<1> QED
  <2>1. RepliesForAll(q, r, m)
    BY <1>17 DEF RepliesForAll, U
  <2> QED
    BY <1>12, <1>14, <1>15, <1>16, <1>18, <2>1
-----------------------------------------------------------------------------
(* The client reads a response *)

LEMMA RecvState ==
    ASSUME StateInv, HandleRecv
    PROVE  StateInv'
<1> USE DEF serverVars, fetchVars
<1> DEFINE m == Head(toClient)
<1>1. /\ toClient \in Seq(Responses) /\ toClient # <<>> /\ toServer \in Seq(Requests)
      /\ watches \in [Types -> [names : SUBSET Names, nonce : Nat]]
  BY DEF StateInv, HandleRecv
<1>2. m \in Responses /\ Tail(toClient) \in Seq(Responses)
  BY <1>1
<1>3. m.type \in Types /\ m.nonce \in Nat /\ m.names \in SUBSET Names
  BY <1>2 DEF Responses
<1>4. /\ watches' = [t \in Types |->
             [names |-> IF t \in Updated(m) THEN Refs(m, t) ELSE watches[t].names,
              nonce |-> IF t = m.type THEN m.nonce ELSE watches[t].nonce]]
      /\ responses' = IF fetch = "none" THEN responses
                      ELSE [responses EXCEPT ![m.type] = m.names]
      /\ toServer' = Replied(toServer, m)
      /\ initialLoad' = (initialLoad \/ AsksListeners(m))
      /\ updates' = IF Reports(m) THEN Append(updates, m.type) ELSE updates
      /\ toClient' = Tail(toClient)
      /\ UNCHANGED <<broken, serverVars, fetchVars>>
  BY DEF HandleRecv, Replied
<1> HIDE DEF m
<1>5. /\ watches' \in [Types -> [names : SUBSET Names, nonce : Nat]]
      /\ \A t \in Types : OfTypes(watches'[t].names, {t}) = watches'[t].names
  <2>1. ASSUME NEW t \in Types
        PROVE  /\ watches'[t].names \in SUBSET Names /\ watches'[t].nonce \in Nat
               /\ OfTypes(watches'[t].names, {t}) = watches'[t].names
               /\ watches'[t] \in [names : SUBSET Names, nonce : Nat]
    <3>1. /\ Refs(m, t) \in SUBSET Names /\ OfTypes(Refs(m, t), {t}) = Refs(m, t)
      BY <1>2, UpdatedTypes
    <3>2. /\ watches[t].names \in SUBSET Names /\ watches[t].nonce \in Nat
          /\ OfTypes(watches[t].names, {t}) = watches[t].names
      BY <1>1 DEF StateInv
    <3>3. /\ watches'[t].names = IF t \in Updated(m) THEN Refs(m, t) ELSE watches[t].names
          /\ watches'[t].nonce = IF t = m.type THEN m.nonce ELSE watches[t].nonce
      BY <1>4
    <3>4. watches'[t] = [names |-> IF t \in Updated(m) THEN Refs(m, t) ELSE watches[t].names,
                         nonce |-> IF t = m.type THEN m.nonce ELSE watches[t].nonce]
      BY <1>4
    <3> QED
      BY <1>3, <3>1, <3>2, <3>3, <3>4
  <2>2. watches' = [t \in Types |-> watches'[t]]
    BY <1>4
  <2> QED
    BY <2>1, <2>2
<1>6. responses' \in [Types -> SUBSET Names]
  BY <1>3, <1>4 DEF StateInv
<1>7. updates' \in Seq(Types \cup {"close"}) /\ Len(updates') <= UpdCap
  <2>1. CASE Reports(m)
    <3>1. Len(updates) < UpdCap /\ updates \in Seq(Types \cup {"close"}) /\ updates' = Append(updates, m.type)
      BY <1>4, <2>1 DEF Reports, StateInv
    <3> QED
      BY <1>3, <3>1, AdscClientAssumption
  <2>2. CASE ~Reports(m)
    BY <1>4, <2>2 DEF StateInv
  <2> QED
    BY <2>1, <2>2
<1>8. toServer' \in Seq(Requests)
  BY <1>1, <1>2, <1>4, Replies
<1>9. initialLoad' \in BOOLEAN
  BY <1>4 DEF StateInv, AsksListeners
<1> QED
  BY <1>2, <1>4, <1>5, <1>6, <1>7, <1>8, <1>9 DEF StateInv

\* The client moves on to the nonce it reads.
LEMMA RecvNonces ==
    ASSUME StateInv, NonceInv, HandleRecv
    PROVE  NonceInv'
<1> USE DEF serverVars
<1> DEFINE m == Head(toClient)
           r == Tail(toClient)
<1>1. /\ toClient \in Seq(Responses) /\ toClient # <<>> /\ sent \in [Types -> Nat]
      /\ watches \in [Types -> [names : SUBSET Names, nonce : Nat]]
  BY DEF StateInv, HandleRecv
<1>2. /\ r \in Seq(Responses) /\ Len(r) \in Nat /\ Len(toClient) = Len(r) + 1
      /\ m \in Responses /\ toClient[1] = m /\ 1 \in 1..Len(toClient)
      /\ \A i \in 1..Len(r) : i + 1 \in 1..Len(toClient) /\ r[i] = toClient[i + 1]
      /\ \A t : NoneOf(toClient, t) <=> NoneOf(r, t) /\ m.type # t
      /\ \A t : \A i \in 1..Len(r) : LastOf(r, t, i) => LastOf(toClient, t, i + 1)
      /\ LastOf(toClient, m.type, 1) <=> NoneOf(r, m.type)
  BY <1>1, Taken
<1>3. /\ toClient' = r /\ sent' = sent
      /\ \A t \in Types : watches'[t].nonce = IF t = m.type THEN m.nonce ELSE watches[t].nonce
  BY DEF HandleRecv
<1> HIDE DEF m, r
<1>4. \A i \in 1..Len(r) : r[i].type \in Types /\ r[i].nonce \in Nat
  <2>1. \A i \in 1..Len(r) : r[i] \in Responses
    BY <1>2
  <2> QED
    BY <2>1 DEF Responses
<1> SUFFICES ASSUME NEW t \in Types
             PROVE  /\ watches'[t].nonce <= sent[t]
                    /\ NoneOf(r, t) => watches'[t].nonce = sent[t]
                    /\ \A i \in 1..Len(r) :
                          r[i].type = t =>
                              /\ watches'[t].nonce < r[i].nonce
                              /\ r[i].nonce <= sent[t]
                              /\ \A j \in 1..Len(r) :
                                    j > i /\ r[j].type = t => r[i].nonce < r[j].nonce
                              /\ LastOf(r, t, i) => r[i].nonce = sent[t]
  BY <1>3 DEF NonceInv, NoneOf, LastOf
<1>5. /\ watches[t].nonce <= sent[t]
      /\ NoneOf(toClient, t) => watches[t].nonce = sent[t]
      /\ \A i \in 1..Len(toClient) :
            toClient[i].type = t =>
                /\ watches[t].nonce < toClient[i].nonce
                /\ toClient[i].nonce <= sent[t]
                /\ \A j \in 1..Len(toClient) :
                      j > i /\ toClient[j].type = t => toClient[i].nonce < toClient[j].nonce
                /\ LastOf(toClient, t, i) => toClient[i].nonce = sent[t]
  BY DEF NonceInv
<1>6. ASSUME NEW i \in 1..Len(r), r[i].type = t
      PROVE  /\ watches'[t].nonce < r[i].nonce
             /\ r[i].nonce <= sent[t]
             /\ \A j \in 1..Len(r) : j > i /\ r[j].type = t => r[i].nonce < r[j].nonce
             /\ LastOf(r, t, i) => r[i].nonce = sent[t]
  <2>1. i + 1 \in 1..Len(toClient) /\ toClient[i + 1] = r[i]
    BY <1>2
  <2>2. r[i].nonce <= sent[t] /\ watches[t].nonce < r[i].nonce
    BY <1>5, <1>6, <2>1
  <2>3. LastOf(r, t, i) => r[i].nonce = sent[t]
    BY <1>2, <1>5, <1>6, <2>1
  <2>4. \A j \in 1..Len(r) : j > i /\ r[j].type = t => r[i].nonce < r[j].nonce
    <3> SUFFICES ASSUME NEW j \in 1..Len(r), j > i, r[j].type = t PROVE r[i].nonce < r[j].nonce
      OBVIOUS
    <3>1. j + 1 \in 1..Len(toClient) /\ toClient[j + 1] = r[j] /\ j + 1 > i + 1
      BY <1>2
    <3> QED
      BY <1>5, <1>6, <2>1, <3>1
  <2>5. t = m.type => m.nonce < r[i].nonce
    <3>1. i + 1 > 1
      BY <1>2
    <3> QED
      BY <1>2, <1>5, <1>6, <2>1, <3>1
  <2> QED
    BY <1>3, <2>2, <2>3, <2>4, <2>5
<1>7. CASE t = m.type
  <2>1. m.nonce <= sent[t] /\ (LastOf(toClient, t, 1) => m.nonce = sent[t])
    BY <1>2, <1>5, <1>7
  <2> QED
    BY <1>2, <1>3, <1>6, <1>7, <2>1
<1>8. CASE t # m.type
  BY <1>2, <1>3, <1>5, <1>6, <1>8
<1> QED
  BY <1>7, <1>8

\* What the client sends is up to date, and it sends for every type it changes.
LEMMA RecvRequests ==
    ASSUME StateInv, NonceInv, RequestInv, ListenersInv, HandleRecv
    PROVE  RequestInv' /\ ListenersInv'
<1> USE DEF serverVars
<1> DEFINE m == Head(toClient)
           q == toServer
           r == toServer'
<1>1. /\ toClient \in Seq(Responses) /\ toClient # <<>> /\ toServer \in Seq(Requests)
      /\ sent \in [Types -> Nat] /\ acked \in [Types -> Nat]
      /\ watches \in [Types -> [names : SUBSET Names, nonce : Nat]]
  BY DEF StateInv, HandleRecv
<1>2. m \in Responses /\ toClient[1] = m /\ 1 \in 1..Len(toClient)
  BY <1>1
<1>3. m.type \in Types /\ m.nonce \in Nat /\ m.names \in SUBSET Names
  BY <1>2 DEF Responses
<1>4. /\ \A t \in Types :
             /\ watches'[t].names = IF t \in Updated(m) THEN Refs(m, t) ELSE watches[t].names
             /\ watches'[t].nonce = IF t = m.type THEN m.nonce ELSE watches[t].nonce
      /\ r = Replied(q, m)
      /\ initialLoad' = (initialLoad \/ AsksListeners(m))
      /\ UNCHANGED <<watching, subs, sent, acked>>
  BY DEF HandleRecv, Replied
<1> HIDE DEF m
<1>5. /\ r \in Seq(Requests) /\ Len(q) \in Nat /\ Len(r) \in Nat /\ Len(q) < Len(r)
      /\ \A i \in 1..Len(q) : r[i] = q[i]
      /\ \A i \in 1..Len(r) : i > Len(q) => IsReply(r[i], m)
      /\ \A t \in Updated(m) \cup {m.type} :
            \E i \in 1..Len(r) : i > Len(q) /\ r[i].type = t
  <2>1. r = Replied(q, m)
    BY <1>4
  <2>2. q \in Seq(Requests) /\ watches \in [Types -> [names : SUBSET Names, nonce : Nat]]
    BY <1>1
  <2>3. m \in Responses
    BY <1>2
  <2> HIDE DEF q, r
  <2>4. /\ r \in Seq(Requests) /\ Len(q) \in Nat /\ Len(r) \in Nat /\ Len(q) < Len(r)
        /\ \A i \in 1..Len(q) : r[i] = q[i]
        /\ \A i \in 1..Len(r) : i > Len(q) => IsReply(r[i], m)
        /\ RepliesForAll(q, r, m)
    BY <2>1, <2>2, <2>3, Replies
  <2> QED
    BY <2>4 DEF RepliesForAll
<1>6. watches[m.type].nonce < m.nonce
  BY <1>2, <1>3 DEF NonceInv
<1>7. AsksListeners(m) => watches[LDS].nonce = 0 /\ m.type = CDS
  <2>1. ~initialLoad => sent[LDS] = 0 /\ watches[LDS].nonce <= sent[LDS]
    BY Kinds DEF ListenersInv, NonceInv
  <2>2. watches[LDS].nonce \in Nat
    BY <1>1, Kinds
  <2> QED
    BY <2>1, <2>2 DEF AsksListeners
<1> HIDE DEF r
<1>8. ASSUME NEW x \in Requests, IsReply(x, m)
      PROVE  UpToDate(x, watches')
  <2>1. CASE x = Request(m.type, m.nonce, AckNames(m))
    <3>1. x.type = m.type /\ x.nonce = m.nonce /\ x.names = AckNames(m)
      BY <2>1 DEF Request
    <3>2. m.type = EDS => AckNames(m) = watches[EDS].names /\ EDS \notin Updated(m)
      BY <1>2, UpdatedTypes DEF AckNames
    <3> QED
      BY <1>3, <1>4, <3>1, <3>2 DEF UpToDate
  <2>2. ASSUME NEW t \in Updated(m), x = Request(t, watches[t].nonce, Refs(m, t))
        PROVE  UpToDate(x, watches')
    <3>1. x.type = t /\ x.nonce = watches[t].nonce /\ x.names = Refs(m, t)
      BY <2>2 DEF Request
    <3>2. t \in Types /\ t # m.type
      BY <1>2, UpdatedTypes, Kinds
    <3> QED
      BY <1>4, <3>1, <3>2 DEF UpToDate
  <2>3. CASE AsksListeners(m) /\ x = Request(LDS, 0, {})
    <3>1. x.type = LDS /\ x.nonce = 0
      BY <2>3 DEF Request
    <3>2. LDS \in Types /\ LDS # EDS /\ LDS # CDS
      BY Kinds
    <3> QED
      BY <1>4, <1>7, <2>3, <3>1, <3>2 DEF UpToDate
  <2> QED
    BY <1>8, <2>1, <2>2, <2>3 DEF IsReply
<1>9. RequestInv'
  <2> SUFFICES ASSUME NEW t \in Types
               PROVE  /\ acked[t] <= watches'[t].nonce
                      /\ \A i \in 1..Len(r) :
                            r[i].type = t =>
                                /\ r[i].nonce <= watches'[t].nonce
                                /\ LastOf(r, t, i) => UpToDate(r[i], watches')
                      /\ NoneOf(r, t) /\ watches'[t].nonce = sent[t] => InStep(t)'
    BY <1>4 DEF RequestInv, NoneOf, LastOf, UpToDate, r
  <2>1. watches[t].nonce \in Nat /\ watches'[t].nonce \in Nat /\ watches[t].nonce <= watches'[t].nonce
    <3>1. watches[t] \in [names : SUBSET Names, nonce : Nat]
      BY <1>1
    <3>2. watches[t].nonce \in Nat
      BY <3>1
    <3>3. watches'[t].nonce = IF t = m.type THEN m.nonce ELSE watches[t].nonce
      BY <1>4
    <3> QED
      BY <1>3, <1>6, <3>2, <3>3
  <2>2. acked[t] <= watches'[t].nonce
    <3>1. acked[t] <= watches[t].nonce /\ acked[t] \in Nat
      BY <1>1 DEF RequestInv
    <3> QED
      BY <2>1, <3>1
  <2>3. ASSUME NEW i \in 1..Len(r), r[i].type = t
        PROVE  /\ r[i].nonce <= watches'[t].nonce
               /\ LastOf(r, t, i) => UpToDate(r[i], watches')
    <3>1. CASE i > Len(q)
      <4>1. r[i] \in Requests /\ IsReply(r[i], m)
        BY <1>5, <3>1
      <4>2. UpToDate(r[i], watches')
        BY <1>8, <4>1
      <4>3. r[i].nonce = watches'[t].nonce
        BY <2>3, <4>2 DEF UpToDate
      <4> QED
        BY <2>1, <4>2, <4>3
    <3>2. CASE i \in 1..Len(q)
      <4>1. r[i] = q[i] /\ q[i].nonce <= watches[t].nonce /\ q[i].nonce \in Nat
        <5>1. q[i] \in Requests
          BY <1>1, <3>2
        <5>2. r[i] = q[i]
          BY <1>5, <3>2
        <5> QED
          BY <2>3, <3>2, <5>1, <5>2 DEF RequestInv, Requests
      <4>2. ASSUME LastOf(r, t, i) PROVE UpToDate(r[i], watches')
        <5>1. t \notin Updated(m) \cup {m.type}
          BY <1>5, <3>2, <4>2 DEF LastOf
        <5>2. LastOf(q, t, i)
          BY <1>5, <3>2, <4>2 DEF LastOf
        <5>3. UpToDate(q[i], watches)
          BY <2>3, <3>2, <4>1, <5>2 DEF RequestInv
        <5> QED
          BY <1>4, <2>3, <4>1, <5>1, <5>3 DEF UpToDate
      <4> QED
        BY <2>1, <4>1, <4>2
    <3> QED
      BY <1>5, <3>1, <3>2
  <2>4. ASSUME NoneOf(r, t), watches'[t].nonce = sent[t] PROVE InStep(t)'
    <3>1. t \notin Updated(m) \cup {m.type}
      BY <1>5, <2>4 DEF NoneOf
    <3>2. NoneOf(q, t)
      BY <1>5, <2>4 DEF NoneOf
    <3>3. watches[t].nonce = sent[t]
      BY <1>4, <2>4, <3>1
    <3>4. InStep(t)
      BY <3>2, <3>3 DEF RequestInv
    <3> QED
      BY <1>4, <3>1, <3>4 DEF InStep
  <2> QED
    BY <2>2, <2>3, <2>4
<1>10. ListenersInv'
  <2> SUFFICES ASSUME ~initialLoad, ~AsksListeners(m)
               PROVE  NoneOf(r, LDS) /\ LDS \notin watching /\ sent[LDS] = 0
    BY <1>4 DEF ListenersInv, NoneOf, StateInv, r
  <2>1. NoneOf(q, LDS) /\ LDS \notin watching /\ sent[LDS] = 0
    BY DEF ListenersInv
  <2>2. m.type # LDS
    <3>1. LDS \in Types /\ watches[LDS].nonce \in Nat /\ watches[LDS].nonce <= sent[LDS]
      BY <1>1, Kinds DEF NonceInv
    <3>2. m.type = LDS => m.nonce <= sent[LDS]
      BY <1>2, <3>1 DEF NonceInv
    <3> QED
      BY <1>3, <1>6, <2>1, <3>1, <3>2
  <2>3. \A i \in 1..Len(r) : r[i].type # LDS
    <3> SUFFICES ASSUME NEW i \in 1..Len(r) PROVE r[i].type # LDS
      OBVIOUS
    <3>1. CASE i \in 1..Len(q)
      BY <1>5, <2>1, <3>1 DEF NoneOf
    <3>2. CASE i > Len(q)
      <4>1. IsReply(r[i], m)
        BY <1>5, <3>2
      <4>2. LDS \notin Updated(m)
        BY <1>2, UpdatedTypes, Kinds
      <4> QED
        <5>1. r[i] = Request(m.type, m.nonce, AckNames(m)) => r[i].type = m.type
          BY DEF Request
        <5>2. \A t \in Updated(m) : r[i] = Request(t, watches[t].nonce, Refs(m, t)) => r[i].type = t
          BY DEF Request
        <5> QED
          BY <2>2, <4>1, <4>2, <5>1, <5>2 DEF IsReply
    <3> QED
      BY <1>5, <3>1, <3>2
  <2> QED
    BY <2>1, <2>3 DEF NoneOf
<1> QED
  BY <1>9, <1>10
-----------------------------------------------------------------------------
(* The server responds *)

LEMMA Responded ==
    ASSUME StateInv, NonceInv, NEW t \in Types, NEW S \in SUBSET Names,
           Respond(t, S), watches' = watches
    PROVE  /\ toClient' \in Seq(Responses) /\ sent' \in [Types -> Nat]
           /\ \A u \in Types : u # t => sent'[u] = sent[u]
           /\ watches[t].nonce # sent'[t]
           /\ NonceInv'
<1> DEFINE m == Response(t, sent[t] + 1, S)
           q == toClient
           r == Append(q, m)
<1>1. /\ q \in Seq(Responses) /\ sent \in [Types -> Nat] /\ sent[t] \in Nat
      /\ watches \in [Types -> [names : SUBSET Names, nonce : Nat]]
  BY DEF StateInv
<1>2. m \in Responses /\ m.type = t /\ m.nonce = sent[t] + 1
  BY <1>1 DEF Response, Responses
<1>3. toClient' = r /\ sent' = [sent EXCEPT ![t] = @ + 1]
  BY DEF Respond
<1> HIDE DEF m
<1>4. /\ r \in Seq(Responses) /\ Len(q) \in Nat /\ Len(r) = Len(q) + 1
      /\ r[Len(q) + 1] = m
      /\ \A i \in 1..Len(q) : r[i] = q[i]
      /\ \A u : NoneOf(r, u) <=> NoneOf(q, u) /\ t # u
      /\ \A u : \A i \in 1..Len(q) : LastOf(r, u, i) <=> LastOf(q, u, i) /\ t # u
  BY <1>1, <1>2, Appended
<1>5. /\ sent' \in [Types -> Nat] /\ sent'[t] = sent[t] + 1
      /\ \A u \in Types : u # t => sent'[u] = sent[u]
  BY <1>1, <1>3
<1>6. ASSUME NEW u \in Types PROVE watches[u].nonce \in Nat /\ sent[u] \in Nat
  <2>1. watches[u] \in [names : SUBSET Names, nonce : Nat]
    BY <1>1
  <2> QED
    BY <1>1, <2>1
<1>7. \A i \in 1..Len(q) : q[i].nonce \in Nat
  <2>1. \A i \in 1..Len(q) : q[i] \in Responses
    BY <1>1
  <2> QED
    BY <2>1 DEF Responses
<1>8. watches[t].nonce < sent'[t]
  BY <1>5, <1>6 DEF NonceInv
<1> HIDE DEF r
<1>9. NonceInv'
  <2> SUFFICES ASSUME NEW u \in Types
               PROVE  /\ watches[u].nonce <= sent'[u]
                      /\ NoneOf(r, u) => watches[u].nonce = sent'[u]
                      /\ \A i \in 1..Len(r) :
                            r[i].type = u =>
                                /\ watches[u].nonce < r[i].nonce
                                /\ r[i].nonce <= sent'[u]
                                /\ \A j \in 1..Len(r) :
                                      j > i /\ r[j].type = u => r[i].nonce < r[j].nonce
                                /\ LastOf(r, u, i) => r[i].nonce = sent'[u]
    BY <1>3 DEF NonceInv, NoneOf, LastOf
  <2>1. /\ watches[u].nonce <= sent[u]
        /\ NoneOf(q, u) => watches[u].nonce = sent[u]
        /\ \A i \in 1..Len(q) :
              q[i].type = u =>
                  /\ watches[u].nonce < q[i].nonce
                  /\ q[i].nonce <= sent[u]
                  /\ \A j \in 1..Len(q) :
                        j > i /\ q[j].type = u => q[i].nonce < q[j].nonce
                  /\ LastOf(q, u, i) => q[i].nonce = sent[u]
    BY DEF NonceInv
  <2>2. watches[u].nonce <= sent'[u] /\ sent[u] <= sent'[u]
    BY <1>5, <1>6, <2>1
  <2>3. NoneOf(r, u) => watches[u].nonce = sent'[u]
    BY <1>4, <1>5, <2>1
  <2>4. ASSUME NEW i \in 1..Len(r), r[i].type = u
        PROVE  /\ watches[u].nonce < r[i].nonce
               /\ r[i].nonce <= sent'[u]
               /\ \A j \in 1..Len(r) : j > i /\ r[j].type = u => r[i].nonce < r[j].nonce
               /\ LastOf(r, u, i) => r[i].nonce = sent'[u]
    <3>1. CASE i = Len(q) + 1
      <4>1. u = t /\ r[i].nonce = sent'[t]
        BY <1>2, <1>4, <1>5, <2>4, <3>1
      <4>2. \A j \in 1..Len(r) : ~(j > i)
        BY <1>4, <3>1
      <4> QED
        BY <1>5, <1>8, <4>1, <4>2
    <3>2. CASE i \in 1..Len(q)
      <4>1. /\ r[i] = q[i] /\ watches[u].nonce < q[i].nonce /\ q[i].nonce <= sent[u]
            /\ LastOf(q, u, i) => q[i].nonce = sent[u]
        BY <1>4, <2>1, <2>4, <3>2
      <4>2. LastOf(r, u, i) => r[i].nonce = sent'[u]
        BY <1>4, <1>5, <3>2, <4>1
      <4>3. ASSUME NEW j \in 1..Len(r), j > i, r[j].type = u PROVE r[i].nonce < r[j].nonce
        <5>1. CASE j = Len(q) + 1
          <6>1. u = t /\ r[j].nonce = sent[t] + 1
            BY <1>2, <1>4, <4>3, <5>1
          <6> QED
            BY <1>1, <1>7, <3>2, <4>1, <6>1
        <5>2. CASE j \in 1..Len(q)
          BY <1>4, <2>1, <2>4, <3>2, <4>1, <4>3, <5>2
        <5> QED
          BY <1>4, <5>1, <5>2
      <4>4. r[i].nonce <= sent'[u]
        BY <1>5, <1>6, <1>7, <2>2, <3>2, <4>1
      <4> QED
        BY <4>1, <4>2, <4>3, <4>4
    <3> QED
      BY <1>4, <3>1, <3>2
  <2> QED
    BY <2>2, <2>3, <2>4
<1> QED
  BY <1>3, <1>4, <1>5, <1>6, <1>8, <1>9

\* A response sent on the server's own account: requests on their way, and what
\* the server knows of the client, are as before.
LEMMA PushedRequests ==
    ASSUME StateInv, NonceInv, RequestInv, ListenersInv, NEW t \in Types, NEW S \in SUBSET Names,
           Respond(t, S), t = LDS => LDS \in watching,
           UNCHANGED <<watches, initialLoad, toServer, watching, subs, acked>>
    PROVE  RequestInv' /\ ListenersInv'
<1>1. /\ \A u \in Types : u # t => sent'[u] = sent[u]
      /\ watches[t].nonce # sent'[t]
  BY Responded
<1>2. ASSUME NEW u \in Types, NoneOf(toServer, u), watches[u].nonce = sent'[u]
      PROVE  InStep(u)'
  <2>1. u # t /\ sent'[u] = sent[u]
    BY <1>1, <1>2
  <2>2. InStep(u)
    BY <1>2, <2>1 DEF RequestInv
  <2> QED
    BY <2>1, <2>2 DEF InStep
<1>3. RequestInv'
  BY <1>2 DEF RequestInv, NoneOf, LastOf, UpToDate
<1>4. ListenersInv'
  <2>1. LDS \in Types
    BY Kinds
  <2> QED
    BY <1>1, <2>1 DEF ListenersInv, NoneOf
<1> QED
  BY <1>3, <1>4

\* ... and with one configuration it is what the others of its type are.
LEMMA RespondedFinal ==
    ASSUME StateInv, StreamIsFinal, NEW t \in Types, NEW S \in SUBSET Names, Respond(t, S),
           watches' = watches, config' = config, FinalResponse(Response(t, sent[t] + 1, S), watches[EDS].names)
    PROVE  \A i \in 1..Len(toClient') : FinalResponse(toClient'[i], watches[EDS].names)
<1> DEFINE m == Response(t, sent[t] + 1, S)
           q == toClient
<1>1. q \in Seq(Responses) /\ m \in Responses
  BY DEF StateInv, Response, Responses
<1>2. toClient' = Append(q, m) /\ FinalResponse(m, watches[EDS].names)
  BY DEF Respond
<1>3. \A i \in 1..Len(q) : FinalResponse(q[i], watches[EDS].names)
  BY DEF StreamIsFinal
<1> HIDE DEF m
<1>4. /\ Len(q) \in Nat /\ Len(Append(q, m)) = Len(q) + 1 /\ Append(q, m)[Len(q) + 1] = m
      /\ \A i \in 1..Len(q) : Append(q, m)[i] = q[i]
  BY <1>1
<1>5. ASSUME NEW i \in 1..Len(toClient')
      PROVE  FinalResponse(toClient'[i], watches[EDS].names)
  <2>1. CASE i = Len(q) + 1
    BY <1>2, <1>4, <2>1
  <2>2. CASE i \in 1..Len(q)
    <3>1. toClient'[i] = q[i]
      BY <1>2, <1>4, <2>2
    <3> QED
      BY <1>3, <2>2, <3>1
  <2> QED
    BY <1>2, <1>4, <2>1, <2>2
<1> QED
  BY <1>5
-----------------------------------------------------------------------------
(* The server reads a request *)

\* The four ways of Serve, by what the request m says.
Ends(m) == m.type \in Leaves /\ m.names = {}
Starts(m) == ~Ends(m) /\ (m.nonce = 0 \/ m.type \notin watching)
Continues(m) == ~Ends(m) /\ ~Starts(m) /\ m.nonce = sent[m.type]
Ignored(m) == ~Ends(m) /\ ~Starts(m) /\ m.nonce # sent[m.type]

LEMMA ServeCases ==
    ASSUME StateInv, Serve, NEW m, m = Head(toServer)
    PROVE  /\ m \in Requests /\ m.type \in Types /\ m.nonce \in Nat /\ m.names \in SUBSET Names
           /\ toServer \in Seq(Requests) /\ toServer # <<>> /\ toServer' = Tail(toServer)
           /\ UNCHANGED <<clientVars, broken, config, changes, fetchVars>>
           /\ \/ Ends(m) /\ ServeUnwatch(m)
              \/ Starts(m) /\ ServeFirst(m)
              \/ Continues(m) /\ ServeNext(m)
              \/ Ignored(m) /\ UNCHANGED <<watching, subs, toClient, sent, acked, stale>>
<1>1. toServer \in Seq(Requests) /\ toServer # <<>> /\ toServer' = Tail(toServer)
  BY DEF StateInv, Serve
<1>2. m \in Requests
  BY <1>1
<1>3. m.type \in Types /\ m.nonce \in Nat /\ m.names \in SUBSET Names
  BY <1>2 DEF Requests
<1>4. UNCHANGED <<clientVars, broken, config, changes, fetchVars>>
  BY DEF Serve
<1>5. \/ Ends(m) /\ ServeUnwatch(m)
      \/ Starts(m) /\ ServeFirst(m)
      \/ Continues(m) /\ ServeNext(m)
      \/ Ignored(m) /\ UNCHANGED <<watching, subs, toClient, sent, acked, stale>>
  BY DEF Serve, Ends, Starts, Continues, Ignored
<1> QED
  BY <1>1, <1>2, <1>3, <1>4, <1>5

\* What a request changes is of its own type.
LEMMA ServeEffect ==
    ASSUME StateInv, NonceInv, Serve, NEW m, m = Head(toServer)
    PROVE  /\ watching' \subseteq Types /\ subs' \in [Leaves -> SUBSET Names]
           /\ sent' \in [Types -> Nat] /\ acked' \in [Types -> Nat] /\ stale' \subseteq watching'
           /\ stale' \subseteq stale /\ toClient' \in Seq(Responses) /\ NonceInv'
           /\ \A u \in Types : u # m.type => /\ u \in watching' <=> u \in watching
                                            /\ acked'[u] = acked[u] /\ sent'[u] = sent[u]
           /\ \A u \in Leaves : u # m.type => subs'[u] = subs[u]
           /\ acked'[m.type] \in {acked[m.type], m.nonce}
<1>1. /\ m \in Requests /\ m.type \in Types /\ m.nonce \in Nat /\ m.names \in SUBSET Names
      /\ watches' = watches /\ config' = config
      /\ \/ Ends(m) /\ ServeUnwatch(m)
         \/ Starts(m) /\ ServeFirst(m)
         \/ Continues(m) /\ ServeNext(m)
         \/ Ignored(m) /\ UNCHANGED <<watching, subs, toClient, sent, acked, stale>>
  BY ServeCases DEF clientVars
<1>2. /\ watching \subseteq Types /\ subs \in [Leaves -> SUBSET Names] /\ stale \subseteq watching
      /\ sent \in [Types -> Nat] /\ acked \in [Types -> Nat] /\ toClient \in Seq(Responses)
      /\ config \in SUBSET Names
  BY AdscClientAssumption DEF StateInv
<1>3. ASSUME UNCHANGED <<toClient, sent>>
      PROVE  NonceInv'
  BY <1>1, <1>3 DEF NonceInv, NoneOf, LastOf
<1>4. ASSUME NEW S \in SUBSET Names, Respond(m.type, S)
      PROVE  /\ toClient' \in Seq(Responses) /\ sent' \in [Types -> Nat] /\ NonceInv'
             /\ \A u \in Types : u # m.type => sent'[u] = sent[u]
  BY <1>1, <1>4, Responded
<1>5. CASE Ends(m) /\ ServeUnwatch(m)
  <2>1. /\ watching' = watching \ {m.type} /\ subs' = [subs EXCEPT ![m.type] = {}]
        /\ stale' = stale \ {m.type} /\ UNCHANGED <<toClient, sent, acked>>
    BY <1>5 DEF ServeUnwatch
  <2> QED
    BY <1>1, <1>2, <1>3, <2>1
<1>6. CASE Starts(m) /\ ServeFirst(m)
  <2> DEFINE S == IF m.type \in Leaves THEN m.names ELSE Content(m.type)
  <2>1. /\ watching' = watching \cup {m.type} /\ stale' = stale \ {m.type} /\ acked' = acked
        /\ subs' = IF m.type \in Leaves THEN [subs EXCEPT ![m.type] = m.names] ELSE subs
        /\ Respond(m.type, S)
    BY <1>6 DEF ServeFirst
  <2>2. S \in SUBSET Names
    <3>1. CASE m.type \in Leaves
      BY <1>1, <3>1
    <3>2. CASE m.type \notin Leaves
      <4>1. m.type \in Parents
        BY <1>1, <3>2, Kinds
      <4>2. S = OfTypes(config, Children(m.type))
        BY <3>2, <4>1 DEF Content
      <4> QED
        BY <1>2, <4>2, Selected
    <3> QED
      BY <3>1, <3>2
  <2> HIDE DEF S
  <2>3. subs' \in [Leaves -> SUBSET Names] /\ \A u \in Leaves : u # m.type => subs'[u] = subs[u]
    BY <1>1, <1>2, <2>1
  <2>4. /\ toClient' \in Seq(Responses) /\ sent' \in [Types -> Nat] /\ NonceInv'
        /\ \A u \in Types : u # m.type => sent'[u] = sent[u]
    BY <1>4, <2>1, <2>2
  <2> QED
    BY <1>1, <1>2, <2>1, <2>3, <2>4
<1>7. CASE Continues(m) /\ ServeNext(m)
  <2>1. /\ acked' = [acked EXCEPT ![m.type] = m.nonce] /\ UNCHANGED <<watching, stale>>
        /\ \/ m.type \in Parents /\ UNCHANGED <<subs, toClient, sent>>
           \/ /\ m.type \notin Parents
              /\ subs' = [subs EXCEPT ![m.type] = m.names]
              /\ \/ UNCHANGED <<toClient, sent>>
                 \/ \E S \in {m.names \ subs[m.type], m.names} : Respond(m.type, S)
    BY <1>7 DEF ServeNext
  <2>2. /\ toClient' \in Seq(Responses) /\ sent' \in [Types -> Nat] /\ NonceInv'
        /\ \A u \in Types : u # m.type => sent'[u] = sent[u]
    <3>1. CASE UNCHANGED <<toClient, sent>>
      BY <1>2, <1>3, <3>1
    <3>2. CASE \E S \in {m.names \ subs[m.type], m.names} : Respond(m.type, S)
      <4>1. PICK S \in {m.names \ subs[m.type], m.names} : Respond(m.type, S)
        BY <3>2
      <4>2. S \in SUBSET Names
        BY <1>1
      <4> QED
        BY <1>4, <4>1, <4>2
    <3> QED
      BY <2>1, <3>1, <3>2
  <2>3. acked' \in [Types -> Nat] /\ acked'[m.type] = m.nonce
        /\ \A u \in Types : u # m.type => acked'[u] = acked[u]
    BY <1>1, <1>2, <2>1
  <2>4. subs' \in [Leaves -> SUBSET Names] /\ \A u \in Leaves : u # m.type => subs'[u] = subs[u]
    BY <1>1, <1>2, <2>1
  <2> QED
    BY <1>2, <2>1, <2>2, <2>3, <2>4
<1>8. CASE Ignored(m) /\ UNCHANGED <<watching, subs, toClient, sent, acked, stale>>
  BY <1>2, <1>3, <1>8
<1> QED
  BY <1>1, <1>5, <1>6, <1>7, <1>8

\* The last request of a type brings the server in step, unless it makes it send
\* a response, or is ignored since it already has.
LEMMA ServeBringsInStep ==
    ASSUME StateInv, NonceInv, Serve, NEW m, m = Head(toServer),
           UpToDate(m, watches), watches[m.type].nonce = sent'[m.type]
    PROVE  InStep(m.type)'
<1>1. /\ m \in Requests /\ m.type \in Types /\ m.nonce \in Nat /\ m.names \in SUBSET Names
      /\ watches' = watches /\ config' = config
      /\ \/ Ends(m) /\ ServeUnwatch(m)
         \/ Starts(m) /\ ServeFirst(m)
         \/ Continues(m) /\ ServeNext(m)
         \/ Ignored(m) /\ UNCHANGED <<watching, subs, toClient, sent, acked, stale>>
  BY ServeCases DEF clientVars
<1>2. /\ subs \in [Leaves -> SUBSET Names] /\ acked \in [Types -> Nat] /\ config \in SUBSET Names
      /\ EDS \in Leaves
  BY AdscClientAssumption, Kinds DEF StateInv
<1>3. m.nonce = watches[m.type].nonce /\ (m.type = EDS => m.names = watches[EDS].names)
  BY DEF UpToDate
<1>4. ASSUME NEW S \in SUBSET Names PROVE ~Respond(m.type, S)
  BY <1>1, Responded
<1>5. CASE Ends(m) /\ ServeUnwatch(m)
  <2>1. watching' = watching \ {m.type} /\ subs' = [subs EXCEPT ![m.type] = {}]
    BY <1>5 DEF ServeUnwatch
  <2>2. m.type = EDS => subs'[EDS] = watches[EDS].names
    BY <1>2, <1>3, <1>5, <2>1 DEF Ends
  <2> QED
    BY <1>1, <2>1, <2>2 DEF InStep
<1>6. CASE Starts(m) /\ ServeFirst(m)
  <2> DEFINE S == IF m.type \in Leaves THEN m.names ELSE Content(m.type)
  <2>1. Respond(m.type, S)
    BY <1>6 DEF ServeFirst
  <2>2. S \in SUBSET Names
    <3>1. CASE m.type \in Leaves
      BY <1>1, <3>1
    <3>2. CASE m.type \notin Leaves
      <4>1. m.type \in Parents
        BY <1>1, <3>2, Kinds
      <4>2. S = OfTypes(config, Children(m.type))
        BY <3>2, <4>1 DEF Content
      <4> QED
        BY <1>2, <4>2, Selected
    <3> QED
      BY <3>1, <3>2
  <2> QED
    BY <1>4, <2>1, <2>2
<1>7. CASE Continues(m) /\ ServeNext(m)
  <2>1. acked'[m.type] = m.nonce
    BY <1>1, <1>2, <1>7 DEF ServeNext
  <2>2. m.type = EDS => subs'[EDS] = m.names
    <3>1. EDS \notin Parents
      BY Kinds
    <3> QED
      BY <1>2, <1>7, <3>1 DEF ServeNext
  <2> QED
    BY <1>1, <1>3, <2>1, <2>2 DEF InStep
<1>8. CASE Ignored(m) /\ UNCHANGED <<watching, subs, toClient, sent, acked, stale>>
  BY <1>3, <1>8 DEF Ignored
<1> QED
  BY <1>1, <1>5, <1>6, <1>7, <1>8

LEMMA ServeStream ==
    ASSUME StateInv, NonceInv, RequestInv, ListenersInv, Serve, NEW m, m = Head(toServer)
    PROVE  StateInv' /\ NonceInv' /\ RequestInv' /\ ListenersInv'
<1> DEFINE q == toServer
           r == Tail(toServer)
<1>1. /\ m \in Requests /\ m.type \in Types /\ m.nonce \in Nat
      /\ q \in Seq(Requests) /\ q # <<>> /\ toServer' = r
      /\ UNCHANGED <<clientVars, broken, config, changes, fetchVars>>
  BY ServeCases
<1>2. /\ r \in Seq(Requests) /\ Len(r) \in Nat /\ 1 \in 1..Len(q) /\ q[1] = m
      /\ \A i \in 1..Len(r) : i + 1 \in 1..Len(q) /\ r[i] = q[i + 1]
      /\ \A t : NoneOf(q, t) <=> NoneOf(r, t) /\ m.type # t
      /\ \A t : \A i \in 1..Len(r) : LastOf(r, t, i) => LastOf(q, t, i + 1)
      /\ LastOf(q, m.type, 1) <=> NoneOf(r, m.type)
  BY <1>1, Taken
<1>3. /\ watching' \subseteq Types /\ subs' \in [Leaves -> SUBSET Names]
      /\ sent' \in [Types -> Nat] /\ acked' \in [Types -> Nat] /\ stale' \subseteq watching'
      /\ toClient' \in Seq(Responses) /\ NonceInv'
      /\ \A u \in Types : u # m.type => /\ u \in watching' <=> u \in watching
                                       /\ acked'[u] = acked[u] /\ sent'[u] = sent[u]
      /\ \A u \in Leaves : u # m.type => subs'[u] = subs[u]
      /\ acked'[m.type] \in {acked[m.type], m.nonce}
  BY ServeEffect
<1>4. NoneOf(r, m.type) /\ watches[m.type].nonce = sent'[m.type] => InStep(m.type)'
  <2> SUFFICES ASSUME NoneOf(r, m.type), watches[m.type].nonce = sent'[m.type]
               PROVE  InStep(m.type)'
    OBVIOUS
  <2>1. LastOf(q, m.type, 1)
    BY <1>2
  <2>2. UpToDate(q[1], watches)
    BY <1>1, <1>2, <2>1 DEF RequestInv
  <2> QED
    BY <1>2, <2>2, ServeBringsInStep
<1> HIDE DEF r
<1>5. StateInv'
  BY <1>1, <1>2, <1>3 DEF StateInv, clientVars, fetchVars
<1>6. watches' = watches /\ initialLoad' = initialLoad
  BY <1>1 DEF clientVars
<1>7. RequestInv'
  <2> SUFFICES ASSUME NEW t \in Types
               PROVE  /\ acked'[t] <= watches[t].nonce
                      /\ \A i \in 1..Len(r) :
                            r[i].type = t =>
                                /\ r[i].nonce <= watches[t].nonce
                                /\ LastOf(r, t, i) => UpToDate(r[i], watches)
                      /\ NoneOf(r, t) /\ watches[t].nonce = sent'[t] => InStep(t)'
    BY <1>1, <1>6 DEF RequestInv, NoneOf, LastOf, UpToDate
  <2>1. acked'[t] <= watches[t].nonce
    <3>1. acked[t] <= watches[t].nonce
      BY DEF RequestInv
    <3>2. m.type = t => m.nonce <= watches[t].nonce
      BY <1>2 DEF RequestInv
    <3> QED
      BY <1>3, <3>1, <3>2
  <2>2. \A i \in 1..Len(r) :
           r[i].type = t => /\ r[i].nonce <= watches[t].nonce
                            /\ LastOf(r, t, i) => UpToDate(r[i], watches)
    BY <1>2 DEF RequestInv
  <2>3. ASSUME NoneOf(r, t), watches[t].nonce = sent'[t], t # m.type PROVE InStep(t)'
    <3>1. NoneOf(q, t) /\ watches[t].nonce = sent[t]
      BY <1>2, <1>3, <2>3
    <3>2. InStep(t)
      BY <3>1 DEF RequestInv
    <3>3. EDS \in Leaves
      BY Kinds
    <3> QED
      BY <1>3, <1>6, <2>3, <3>2, <3>3 DEF InStep
  <2> QED
    BY <1>4, <2>1, <2>2, <2>3
<1>8. ListenersInv'
  <2> SUFFICES ASSUME ~initialLoad PROVE NoneOf(r, LDS) /\ LDS \notin watching' /\ sent'[LDS] = 0
    BY <1>1, <1>6 DEF ListenersInv, NoneOf
  <2>1. NoneOf(q, LDS) /\ LDS \notin watching /\ sent[LDS] = 0 /\ LDS \in Types
    BY Kinds DEF ListenersInv
  <2> QED
    BY <1>2, <1>3, <2>1
<1> QED
  BY <1>3, <1>5, <1>7, <1>8
-----------------------------------------------------------------------------
(* One configuration *)

LEMMA FinalKinds ==
    /\ Referred \subseteq Leaves /\ FetchTypes = Parents \cup Referred /\ Referred \cap Parents = {}
    /\ EDS \in Referred /\ Referred \cap Optional = {}
    /\ \A t \in Parents : Final(t) = OfTypes(config, Children(t))
    /\ \A t \in Referred : Final(t) = OfTypes(config, {t})
<1>1. /\ Referred \subseteq Leaves /\ FetchTypes = Parents \cup Referred /\ Referred \cap Parents = {}
      /\ EDS \in Referred /\ Referred \cap Optional = {}
  BY AdscClientAssumption, Kinds DEF Referred
<1>2. \A t \in Parents : Final(t) = OfTypes(config, Children(t))
  BY Kinds DEF Final
<1>3. \A t \in Referred : Final(t) = OfTypes(config, {t})
  BY <1>1, Kinds DEF Final
<1> QED
  BY <1>1, <1>2, <1>3

LEMMA StaysFinal ==
    ASSUME config' = config, stale' = {},
           \A t \in Referred : watches'[t].names \subseteq Final(t),
           \A i \in 1..Len(toClient') : FinalResponse(toClient'[i], watches'[EDS].names),
           \A i \in 1..Len(toServer') : FinalRequest(toServer'[i], watches'[EDS].names),
           \A t \in Referred \cap watching' : subs'[t] = Final(t)
    PROVE  StreamIsFinal'
<1>1. \A t : Final(t)' = Final(t)
  BY DEF Final, OfTypes
<1>2. \A i \in 1..Len(toClient') : FinalResponse(toClient[i], watches[EDS].names)'
  BY <1>1 DEF FinalResponse
<1>3. \A i \in 1..Len(toServer') : FinalRequest(toServer[i], watches[EDS].names)'
  BY <1>1 DEF FinalRequest
<1> QED
  BY <1>1, <1>2, <1>3 DEF StreamIsFinal, Referred

LEMMA ServeFinal ==
    ASSUME StateInv, StreamIsFinal, Serve, NEW m, m = Head(toServer)
    PROVE  StreamIsFinal'
<1> DEFINE q == toServer
           r == Tail(toServer)
<1>1. /\ m \in Requests /\ m.type \in Types /\ m.nonce \in Nat /\ m.names \in SUBSET Names
      /\ q \in Seq(Requests) /\ q # <<>> /\ toServer' = r
      /\ watches' = watches /\ config' = config
      /\ \/ Ends(m) /\ ServeUnwatch(m)
         \/ Starts(m) /\ ServeFirst(m)
         \/ Continues(m) /\ ServeNext(m)
         \/ Ignored(m) /\ UNCHANGED <<watching, subs, toClient, sent, acked, stale>>
  BY ServeCases DEF clientVars
<1>2. /\ 1 \in 1..Len(q) /\ q[1] = m
      /\ \A i \in 1..Len(r) : i + 1 \in 1..Len(q) /\ r[i] = q[i + 1]
  BY <1>1, Taken
<1>3. /\ subs \in [Leaves -> SUBSET Names] /\ sent \in [Types -> Nat] /\ config \in SUBSET Names
  BY AdscClientAssumption DEF StateInv
<1> HIDE DEF r
<1> DEFINE w == watches[EDS].names
<1>4. /\ stale = {}
      /\ \A t \in Referred : watches[t].names \subseteq Final(t)
      /\ \A i \in 1..Len(toClient) : FinalResponse(toClient[i], w)
      /\ \A i \in 1..Len(q) : FinalRequest(q[i], w)
      /\ \A t \in Referred \cap watching : subs[t] = Final(t)
  BY DEF StreamIsFinal
<1>5. FinalRequest(m, w) /\ \A i \in 1..Len(r) : FinalRequest(r[i], w)
  BY <1>2, <1>4
<1>6. m.type \in Referred => m.names = Final(m.type) /\ Final(m.type) # {}
  BY <1>5 DEF FinalRequest
<1>7. /\ stale' = {}
      /\ \A i \in 1..Len(toClient') : FinalResponse(toClient'[i], w)
      /\ \A t \in Referred \cap watching' : subs'[t] = Final(t)
  <2>1. CASE Ends(m) /\ ServeUnwatch(m)
    <3>1. m.type \notin Referred
      BY <1>6, <2>1 DEF Ends
    <3>2. /\ watching' = watching \ {m.type} /\ subs' = [subs EXCEPT ![m.type] = {}]
          /\ stale' = stale \ {m.type} /\ toClient' = toClient
      BY <2>1 DEF ServeUnwatch
    <3> QED
      BY <1>3, <1>4, <3>1, <3>2, FinalKinds
  <2>2. CASE Starts(m) /\ ServeFirst(m)
    <3> DEFINE S == IF m.type \in Leaves THEN m.names ELSE Content(m.type)
    <3>1. /\ watching' = watching \cup {m.type} /\ stale' = stale \ {m.type}
          /\ subs' = IF m.type \in Leaves THEN [subs EXCEPT ![m.type] = m.names] ELSE subs
          /\ Respond(m.type, S)
      BY <2>2 DEF ServeFirst
    <3>2. S \in SUBSET Names /\ (m.type \in FetchTypes => S = Final(m.type))
      <4>1. CASE m.type \in Leaves
        BY <1>1, <1>6, <4>1, Kinds, FinalKinds
      <4>2. CASE m.type \notin Leaves
        <5>1. m.type \in Parents
          BY <1>1, <4>2, Kinds
        <5>2. S = OfTypes(config, Children(m.type))
          BY <4>2, <5>1 DEF Content
        <5> QED
          BY <1>3, <5>1, <5>2, Selected, FinalKinds
      <4> QED
        BY <4>1, <4>2
    <3> HIDE DEF S
    <3>3. FinalResponse(Response(m.type, sent[m.type] + 1, S), w)
      BY <1>5, <1>6, <3>2 DEF FinalResponse, FinalRequest, Response
    <3>4. \A i \in 1..Len(toClient') : FinalResponse(toClient'[i], w)
      BY <1>1, <3>1, <3>2, <3>3, RespondedFinal
    <3>5. \A t \in Referred \cap watching' : subs'[t] = Final(t)
      BY <1>3, <1>4, <1>6, <3>1, FinalKinds
    <3> QED
      BY <1>4, <3>1, <3>4, <3>5
  <2>3. CASE Continues(m) /\ ServeNext(m)
    <3>1. watching' = watching /\ stale' = stale
      BY <2>3 DEF ServeNext
    <3>2. CASE m.type \in Parents
      <4>1. subs' = subs /\ toClient' = toClient
        BY <2>3, <3>2 DEF ServeNext
      <4> QED
        BY <1>4, <3>1, <4>1
    <3>3. CASE m.type \in Referred
      <4>1. /\ m.type \in watching /\ m.type \in Leaves /\ m.type \notin Parents
            /\ subs[m.type] = m.names
        BY <1>4, <1>6, <2>3, <3>3, FinalKinds DEF Continues, Starts
      <4>2. subs' = [subs EXCEPT ![m.type] = m.names] /\ toClient' = toClient
        BY <2>3, <4>1 DEF ServeNext
      <4> QED
        BY <1>3, <1>4, <3>1, <4>1, <4>2
    <3>4. CASE m.type \notin Parents /\ m.type \notin Referred
      <4>1. /\ subs' = [subs EXCEPT ![m.type] = m.names]
            /\ \/ toClient' = toClient
               \/ \E S \in {m.names \ subs[m.type], m.names} : Respond(m.type, S)
        BY <2>3, <3>4 DEF ServeNext
      <4>2. ASSUME NEW S \in {m.names \ subs[m.type], m.names}, Respond(m.type, S)
            PROVE  \A i \in 1..Len(toClient') : FinalResponse(toClient'[i], w)
        <5>1. S \in SUBSET Names
          BY <1>1
        <5>2. FinalResponse(Response(m.type, sent[m.type] + 1, S), w)
          BY <3>4, FinalKinds DEF FinalResponse, Response
        <5> QED
          BY <1>1, <4>2, <5>1, <5>2, RespondedFinal
      <4>3. \A i \in 1..Len(toClient') : FinalResponse(toClient'[i], w)
        BY <1>4, <4>1, <4>2
      <4>4. \A t \in Referred \cap watching' : subs'[t] = Final(t)
        BY <1>3, <1>4, <3>1, <3>4, <4>1, FinalKinds
      <4> QED
        BY <1>4, <3>1, <4>3, <4>4
    <3> QED
      BY <3>2, <3>3, <3>4
  <2>4. CASE Ignored(m) /\ UNCHANGED <<watching, subs, toClient, sent, acked, stale>>
    BY <1>4, <2>4
  <2> QED
    BY <1>1, <2>1, <2>2, <2>3, <2>4
<1> QED
  BY <1>1, <1>4, <1>5, <1>7, StaysFinal

\* What clusters and listeners refer to of endpoints and routes is final.
LEMMA RefsFinal ==
    ASSUME StreamIsFinal, NEW m \in Responses, FinalResponse(m, watches[EDS].names),
           NEW t \in Referred, t \in Updated(m)
    PROVE  Refs(m, t) = Final(t) /\ Final(t) # {}
<1>1. m.type \in Types /\ m.type \in Parents /\ t \in Children(m.type)
  <2>1. m.type \in Types
    BY DEF Responses
  <2>2. m.type \notin Leaves
    BY UpdatedTypes
  <2> QED
    BY <2>1, <2>2, Kinds DEF Updated
<1>2. m.names = OfTypes(config, Children(m.type)) /\ Final(t) = OfTypes(config, {t})
  <2>1. m.type \in FetchTypes
    BY <1>1, FinalKinds
  <2>2. m.names = Final(m.type)
    BY <2>1 DEF FinalResponse
  <2> QED
    BY <1>1, <2>2, FinalKinds
<1>3. Refs(m, t) = Final(t)
  BY <1>1, <1>2 DEF Refs, OfTypes
<1>4. watches[t].names # Refs(m, t) /\ watches[t].names \subseteq Final(t)
  BY DEF Updated, StreamIsFinal
<1> QED
  BY <1>3, <1>4

LEMMA RecvFinal ==
    ASSUME StateInv, StreamIsFinal, HandleRecv
    PROVE  StreamIsFinal'
<1> USE DEF serverVars
<1> DEFINE m == Head(toClient)
           q == toServer
           r == toServer'
           w == watches[EDS].names
<1>1. /\ toClient \in Seq(Responses) /\ toClient # <<>> /\ q \in Seq(Requests)
      /\ watches \in [Types -> [names : SUBSET Names, nonce : Nat]]
  BY DEF StateInv, HandleRecv
<1>2. /\ m \in Responses /\ toClient[1] = m /\ 1 \in 1..Len(toClient)
      /\ \A i \in 1..Len(Tail(toClient)) : i + 1 \in 1..Len(toClient) /\ Tail(toClient)[i] = toClient[i + 1]
  BY <1>1, Taken
<1>3. m.type \in Types /\ m.names \in SUBSET Names
  BY <1>2 DEF Responses
<1>4. /\ \A t \in Types :
             watches'[t].names = IF t \in Updated(m) THEN Refs(m, t) ELSE watches[t].names
      /\ r = Replied(q, m) /\ toClient' = Tail(toClient)
      /\ UNCHANGED <<config, watching, subs, stale>>
  BY DEF HandleRecv, Replied
<1>5. /\ stale = {}
      /\ \A t \in Referred : watches[t].names \subseteq Final(t)
      /\ \A i \in 1..Len(toClient) : FinalResponse(toClient[i], w)
      /\ \A i \in 1..Len(q) : FinalRequest(q[i], w)
      /\ \A t \in Referred \cap watching : subs[t] = Final(t)
  BY DEF StreamIsFinal
<1>6. FinalResponse(m, w)
  BY <1>2, <1>5
<1> HIDE DEF m
<1>7. /\ Len(q) \in Nat /\ r \in Seq(Requests) /\ Len(r) \in Nat
      /\ \A i \in 1..Len(q) : r[i] = q[i]
      /\ \A i \in 1..Len(r) : i > Len(q) => IsReply(r[i], m)
  <2> HIDE DEF q, r
  <2> QED
    BY <1>1, <1>2, <1>4, Replies
<1>8. ASSUME NEW t \in Referred, t \in Updated(m) PROVE Refs(m, t) = Final(t) /\ Final(t) # {}
  BY <1>2, <1>6, <1>8, RefsFinal
<1>9. /\ \A t \in Referred : watches'[t].names \subseteq Final(t)
      /\ w = Final(EDS) => watches'[EDS].names = Final(EDS)
  BY <1>4, <1>5, <1>8, FinalKinds, Kinds
<1> DEFINE v == watches'[EDS].names
<1>10. \A i \in 1..Len(toClient') : FinalResponse(toClient'[i], v)
  <2>1. ASSUME NEW i \in 1..Len(toClient') PROVE FinalResponse(toClient'[i], w)
    BY <1>2, <1>4, <1>5
  <2> QED
    BY <1>9, <2>1 DEF FinalResponse
<1> HIDE DEF r
<1>11. ASSUME NEW x, IsReply(x, m) PROVE FinalRequest(x, v)
  <2>1. CASE x = Request(m.type, m.nonce, AckNames(m))
    <3>1. x.type = m.type /\ x.names = AckNames(m)
      BY <2>1 DEF Request
    <3>2. m.type \in Referred => m.type \in Leaves /\ m.names = Final(m.type) /\ Final(m.type) # {}
      BY <1>6, FinalKinds DEF FinalResponse
    <3>3. m.type = EDS => w = Final(EDS) /\ v = Final(EDS)
      BY <1>6, <1>9 DEF FinalResponse
    <3>4. m.type \in Referred => AckNames(m) = Final(m.type)
      BY <3>2, <3>3 DEF AckNames
    <3> QED
      BY <3>1, <3>2, <3>3, <3>4 DEF FinalRequest
  <2>2. ASSUME NEW t \in Updated(m), x = Request(t, watches[t].nonce, Refs(m, t))
        PROVE  FinalRequest(x, v)
    <3>1. x.type = t /\ x.names = Refs(m, t)
      BY <2>2 DEF Request
    <3>2. t = EDS => v = Refs(m, EDS)
      BY <1>4, Kinds
    <3> QED
      BY <1>8, <3>1, <3>2, FinalKinds DEF FinalRequest
  <2>3. CASE x = Request(LDS, 0, {})
    <3>1. x.type = LDS
      BY <2>3 DEF Request
    <3>2. LDS \notin Referred
      BY Kinds, FinalKinds
    <3> QED
      BY <3>1, <3>2, FinalKinds DEF FinalRequest
  <2> QED
    BY <1>11, <2>1, <2>2, <2>3 DEF IsReply
<1>12. \A i \in 1..Len(r) : FinalRequest(r[i], v)
  <2> SUFFICES ASSUME NEW i \in 1..Len(r) PROVE FinalRequest(r[i], v)
    OBVIOUS
  <2>1. CASE i \in 1..Len(q)
    <3>1. FinalRequest(q[i], w) /\ r[i] = q[i]
      BY <1>5, <1>7, <2>1
    <3> QED
      BY <1>9, <3>1 DEF FinalRequest
  <2>2. CASE i > Len(q)
    BY <1>7, <1>11, <2>2
  <2> QED
    BY <1>7, <2>1, <2>2
<1> QED
  BY <1>4, <1>5, <1>9, <1>10, <1>12, StaysFinal DEF r

\* An update that is reported is of the response just stored.
LEMMA RecvFetch ==
    ASSUME StateInv, StreamIsFinal, FetchInv, HandleRecv
    PROVE  FetchInv'
<1> USE DEF serverVars, fetchVars
<1> DEFINE m == Head(toClient)
<1>1. /\ toClient \in Seq(Responses) /\ toClient # <<>> /\ responses \in [Types -> SUBSET Names]
      /\ updates \in Seq(Types \cup {"close"})
  BY DEF StateInv, HandleRecv
<1>2. /\ m \in Responses /\ toClient[1] = m /\ 1 \in 1..Len(toClient)
  BY <1>1, Taken
<1>3. m.type \in Types
  BY <1>2 DEF Responses
<1>4. m.type \in FetchTypes => m.names = Final(m.type)
  BY <1>2 DEF StreamIsFinal, FinalResponse
<1>5. /\ responses' = IF fetch = "none" THEN responses ELSE [responses EXCEPT ![m.type] = m.names]
      /\ updates' = IF Reports(m) THEN Append(updates, m.type) ELSE updates
      /\ UNCHANGED <<config, fetch, missing, result>>
  BY DEF HandleRecv
<1> HIDE DEF m
<1>6. \A t : Final(t)' = Final(t)
  BY <1>5 DEF Final, OfTypes
<1>7. ASSUME NEW t \in FetchTypes, Received(t)', fetch \in {"reading", "fetched"}
      PROVE  responses'[t] = Final(t)
  <2>1. responses' = [responses EXCEPT ![m.type] = m.names] /\ t \in Types
    BY <1>5, <1>7, Kinds
  <2>2. CASE t = m.type
    BY <1>1, <1>4, <2>1, <2>2
  <2>3. CASE t # m.type
    <3>1. Received(t)
      <4>1. CASE t \notin missing
        BY <4>1 DEF Received
      <4>2. CASE t \in missing
        <5>1. PICK i \in 1..Len(updates') : updates'[i] = t
          BY <1>5, <1>7, <4>2 DEF Received
        <5>2. i \in 1..Len(updates) /\ updates[i] = t
          BY <1>1, <1>3, <1>5, <2>3, <5>1
        <5> QED
          BY <5>2 DEF Received
      <4> QED
        BY <4>1, <4>2
    <3>2. responses[t] = Final(t)
      BY <1>7, <3>1 DEF FetchInv
    <3> QED
      BY <1>1, <2>1, <2>3, <3>2
  <2> QED
    BY <2>2, <2>3
<1> QED
  BY <1>5, <1>6, <1>7 DEF FetchInv
-----------------------------------------------------------------------------
(* The invariant *)

LEMMA Initially == Init => AdscInv
<1> SUFFICES ASSUME Init PROVE AdscInv
  OBVIOUS
<1> DEFINE q == <<Request(CDS, 0, {})>>
<1>1. /\ CDS \in Types /\ LDS \in Types /\ CDS # LDS /\ CDS \notin Referred /\ EDS \in Types
      /\ Referred \subseteq Types
  BY Kinds, FinalKinds
<1>2. /\ watches = [t \in Types |-> [names |-> {}, nonce |-> 0]] /\ initialLoad = FALSE
      /\ responses = [t \in Types |-> {}] /\ updates = <<>>
      /\ toClient = <<>> /\ toServer = q /\ broken = FALSE /\ config \in Configs /\ watching = {}
      /\ subs = [t \in Leaves |-> {}] /\ sent = [t \in Types |-> 0] /\ acked = [t \in Types |-> 0]
      /\ stale = {} /\ changes = 0 /\ fetch \in {"none", "reading"}
      /\ missing = (IF fetch = "none" THEN {} ELSE FetchTypes) /\ result = [t \in Types |-> {}]
  BY DEF Init
<1>3. Request(CDS, 0, {}) \in Requests
  BY <1>1 DEF Request, Requests
<1>4. /\ q \in Seq(Requests) /\ Len(q) = 1
      /\ q[1].type = CDS /\ q[1].nonce = 0 /\ q[1].names = {}
  BY <1>3 DEF Request
<1> HIDE DEF q
<1>5. \A t \in Types : watches[t].names = {} /\ watches[t].nonce = 0 /\ sent[t] = 0 /\ acked[t] = 0
  BY <1>2
<1>6. StateInv
  <2>1. [names |-> {}, nonce |-> 0] \in [names : SUBSET Names, nonce : Nat]
    OBVIOUS
  <2>2. /\ watches \in [Types -> [names : SUBSET Names, nonce : Nat]]
        /\ sent \in [Types -> Nat] /\ acked \in [Types -> Nat]
        /\ responses \in [Types -> SUBSET Names] /\ result \in [Types -> SUBSET Names]
        /\ subs \in [Leaves -> SUBSET Names]
    BY <1>2, <2>1
  <2>3. \A t \in Types : OfTypes(watches[t].names, {t}) = watches[t].names
    BY <1>5 DEF OfTypes
  <2>4. toClient \in Seq(Responses) /\ updates \in Seq(Types \cup {"close"}) /\ Len(updates) = 0
    BY <1>2
  <2>5. toServer \in Seq(Requests) /\ Len(updates) <= UpdCap /\ changes \in 0..MaxChanges
    BY <1>2, <1>4, <2>4, AdscClientAssumption
  <2>6. initialLoad \in BOOLEAN /\ broken \in BOOLEAN /\ watching \subseteq Types /\ stale \subseteq watching
    BY <1>2
  <2>7. missing \subseteq FetchTypes
    BY <1>2
  <2> QED
    BY <1>2, <2>2, <2>3, <2>4, <2>5, <2>6, <2>7 DEF StateInv
<1>7. \A t : NoneOf(toClient, t) /\ (NoneOf(toServer, t) <=> t # CDS)
  BY <1>2, <1>4 DEF NoneOf
<1>8. NonceInv
  BY <1>2, <1>5 DEF NonceInv
<1>9. RequestInv
  <2>1. ASSUME NEW t \in Types PROVE InStep(t)
    <3>1. EDS \in Leaves
      BY Kinds
    <3> QED
      BY <1>1, <1>2, <1>5, <3>1 DEF InStep
  <2>2. \A i \in 1..Len(toServer) : toServer[i].nonce = 0 /\ toServer[i].type = CDS
    BY <1>2, <1>4
  <2>3. EDS # CDS
    BY Kinds
  <2> QED
    BY <1>5, <2>1, <2>2, <2>3 DEF RequestInv, UpToDate
<1>10. ListenersInv
  BY <1>1, <1>2, <1>5, <1>7 DEF ListenersInv
<1>11. StreamIsFinal
  <2>1. \A i \in 1..Len(toServer) : FinalRequest(toServer[i], watches[EDS].names)
    BY <1>1, <1>2, <1>4, FinalKinds DEF FinalRequest
  <2> QED
    BY <1>1, <1>2, <1>5, <2>1 DEF StreamIsFinal
<1>12. FetchInv
  <2>1. fetch \in {"reading", "fetched"} => \A t \in FetchTypes : ~Received(t)
    BY <1>2 DEF Received
  <2> QED
    BY <1>2, <2>1 DEF FetchInv
<1> QED
  BY <1>6, <1>8, <1>9, <1>10, <1>11, <1>12 DEF AdscInv

\* A response the server sends on its own account, of names of its type.
LEMMA PushStep ==
    ASSUME AdscInv, NEW t \in Types, Push(t)
    PROVE  AdscInv'
<1> USE DEF clientVars, fetchVars
<1>1. /\ StateInv /\ ~broken /\ NonceInv /\ RequestInv /\ ListenersInv
      /\ changes = 0 => StreamIsFinal
  BY DEF AdscInv, Push
<1>2. /\ t \in stale /\ Respond(t, Content(t)) /\ stale' = stale \ {t}
      /\ UNCHANGED <<clientVars, toServer, broken, config, watching, subs, acked, changes, fetchVars>>
  BY DEF Push
<1>3. t \in watching /\ stale' \subseteq watching /\ changes' = changes /\ broken' = broken
  BY <1>1, <1>2 DEF StateInv
<1>4. Content(t) \in SUBSET Names
  <2>1. config \in SUBSET Names /\ subs \in [Leaves -> SUBSET Names]
    BY <1>1, AdscClientAssumption DEF StateInv
  <2>2. CASE t \in Parents
    BY <2>1, <2>2, Selected DEF Content
  <2>3. CASE t \notin Parents
    BY <2>1, <2>3, Kinds DEF Content
  <2> QED
    BY <2>2, <2>3
<1>5. /\ toClient' \in Seq(Responses) /\ sent' \in [Types -> Nat] /\ NonceInv'
  BY <1>1, <1>2, <1>4, Responded
<1>6. StateInv'
  BY <1>1, <1>2, <1>3, <1>5 DEF StateInv
<1>7. RequestInv' /\ ListenersInv'
  BY <1>1, <1>2, <1>3, <1>4, PushedRequests
<1>8. changes' # 0
  BY <1>1, <1>2, <1>3 DEF StreamIsFinal
<1> QED
  BY <1>5, <1>6, <1>7, <1>8 DEF AdscInv

LEMMA PushEndpointsStep ==
    ASSUME AdscInv, PushEndpoints
    PROVE  AdscInv'
<1> USE DEF clientVars, fetchVars
<1>1. StateInv /\ ~broken /\ NonceInv /\ RequestInv /\ ListenersInv
  BY DEF AdscInv, PushEndpoints
<1>2. /\ changes < MaxChanges /\ changes' = changes + 1
      /\ UNCHANGED <<clientVars, toServer, broken, config, watching, subs, acked, stale, fetchVars>>
  BY DEF PushEndpoints
<1>3. PICK n \in subs[EDS] : Respond(EDS, {n})
  BY DEF PushEndpoints
<1>4. {n} \in SUBSET Names /\ EDS \in Types /\ EDS # LDS
  <2>1. subs[EDS] \in SUBSET Names
    BY <1>1, Kinds DEF StateInv
  <2> QED
    BY <2>1, Kinds
<1>5. /\ toClient' \in Seq(Responses) /\ sent' \in [Types -> Nat] /\ NonceInv'
  BY <1>1, <1>2, <1>3, <1>4, Responded
<1>6. changes \in Nat /\ changes' \in 0..MaxChanges /\ changes' # 0
  BY <1>1, <1>2, AdscClientAssumption DEF StateInv
<1>7. StateInv'
  BY <1>1, <1>2, <1>5, <1>6 DEF StateInv
<1>8. RequestInv' /\ ListenersInv'
  BY <1>1, <1>2, <1>3, <1>4, PushedRequests
<1> QED
  BY <1>5, <1>6, <1>7, <1>8 DEF AdscInv

LEMMA ReconfigureStep ==
    ASSUME AdscInv, Reconfigure
    PROVE  AdscInv'
<1> USE DEF clientVars, fetchVars
<1>1. StateInv /\ ~broken /\ NonceInv /\ RequestInv /\ ListenersInv
  BY DEF AdscInv, Reconfigure
<1>2. /\ changes < MaxChanges /\ changes' = changes + 1 /\ config' \in Configs /\ stale' = watching
      /\ UNCHANGED <<clientVars, toClient, toServer, broken, watching, subs, sent, acked, fetchVars>>
  BY DEF Reconfigure
<1>3. changes \in Nat /\ changes' \in 0..MaxChanges /\ changes' # 0
  BY <1>1, <1>2, AdscClientAssumption DEF StateInv
<1>4. StateInv'
  BY <1>1, <1>2, <1>3 DEF StateInv
<1>5. NonceInv' /\ RequestInv' /\ ListenersInv'
  BY <1>1, <1>2 DEF NonceInv, RequestInv, ListenersInv, NoneOf, LastOf, UpToDate, InStep
<1> QED
  BY <1>3, <1>4, <1>5 DEF AdscInv

LEMMA ServeStep ==
    ASSUME AdscInv, Serve
    PROVE  AdscInv'
<1>1. /\ StateInv /\ ~broken /\ NonceInv /\ RequestInv /\ ListenersInv
      /\ changes = 0 => StreamIsFinal /\ FetchInv
  BY DEF AdscInv, Serve
<1>2. PICK m : m = Head(toServer)
  OBVIOUS
<1>3. StateInv' /\ NonceInv' /\ RequestInv' /\ ListenersInv'
  BY <1>1, <1>2, ServeStream
<1>4. UNCHANGED <<config, changes, responses, updates, fetch, missing, result>>
  BY DEF Serve, clientVars, fetchVars
<1>5. changes = 0 => StreamIsFinal'
  BY <1>1, <1>2, ServeFinal
<1>6. changes = 0 => FetchInv'
  BY <1>1, <1>4 DEF FetchInv, Received, Final, OfTypes
<1> QED
  BY <1>3, <1>4, <1>5, <1>6 DEF AdscInv

LEMMA HandleRecvStep ==
    ASSUME AdscInv, HandleRecv
    PROVE  AdscInv'
<1>1. /\ StateInv /\ ~broken /\ NonceInv /\ RequestInv /\ ListenersInv
      /\ changes = 0 => StreamIsFinal /\ FetchInv
  BY DEF AdscInv, HandleRecv
<1>2. StateInv' /\ NonceInv' /\ RequestInv' /\ ListenersInv'
  BY <1>1, RecvState, RecvNonces, RecvRequests
<1>3. changes = 0 => StreamIsFinal' /\ FetchInv'
  BY <1>1, RecvFinal, RecvFetch
<1>4. changes' = changes
  BY DEF HandleRecv, serverVars
<1> QED
  BY <1>2, <1>3, <1>4 DEF AdscInv

\* With the stream nothing of it is left; what the client noted is.
LEMMA StreamEnds ==
    ASSUME StateInv, EndStream, UNCHANGED <<watches, initialLoad, responses>>,
           updates' \in {updates, <<"close">>},
           fetch' \in {"none", "reading", "fetched", "closed", "returned", "gaveUp", "cancelled"},
           missing' = missing, result' \in [Types -> SUBSET Names]
    PROVE  StateInv' /\ broken' /\ (StreamIsFinal => StreamIsFinal')
<1>1. /\ broken' = TRUE /\ toClient' = <<>> /\ toServer' = <<>> /\ watching' = {}
      /\ subs' = [t \in Leaves |-> {}] /\ sent' = [t \in Types |-> 0] /\ acked' = [t \in Types |-> 0]
      /\ stale' = {} /\ UNCHANGED <<config, changes>>
  BY DEF EndStream
<1>2. /\ toClient' \in Seq(Responses) /\ toServer' \in Seq(Requests)
      /\ subs' \in [Leaves -> SUBSET Names] /\ sent' \in [Types -> Nat] /\ acked' \in [Types -> Nat]
  BY <1>1
<1>3. updates' \in Seq(Types \cup {"close"}) /\ Len(updates') <= UpdCap
  <2>1. CASE updates' = updates
    BY <2>1 DEF StateInv
  <2>2. CASE updates' = <<"close">>
    <3>1. updates' \in Seq(Types \cup {"close"}) /\ Len(updates') = 1
      BY <2>2
    <3> QED
      BY <3>1, AdscClientAssumption
  <2> QED
    BY <2>1, <2>2
<1>4. StateInv'
  BY <1>1, <1>2, <1>3 DEF StateInv
<1>5. StreamIsFinal => StreamIsFinal'
  BY <1>1, StaysFinal DEF StreamIsFinal
<1> QED
  BY <1>1, <1>4, <1>5

LEMMA StreamBreaksStep ==
    ASSUME AdscInv, StreamBreaks
    PROVE  AdscInv'
<1>1. StateInv /\ (changes = 0 => StreamIsFinal /\ FetchInv)
  BY DEF AdscInv
<1>2. /\ EndStream /\ UNCHANGED <<watches, initialLoad, responses, fetch, missing, result>>
      /\ updates' \in {updates, <<"close">>}
  BY DEF StreamBreaks, fetchVars
<1>3. StateInv' /\ broken' /\ (StreamIsFinal => StreamIsFinal')
  <2>1. /\ fetch' \in {"none", "reading", "fetched", "closed", "returned", "gaveUp", "cancelled"}
        /\ result' \in [Types -> SUBSET Names]
    BY <1>1, <1>2 DEF StateInv
  <2> QED
    BY <1>1, <1>2, <2>1, StreamEnds
<1>4. UNCHANGED <<config, changes>>
  BY <1>2 DEF EndStream
<1>5. \A t \in FetchTypes : Received(t)' => Received(t)
  <2>1. \A t \in FetchTypes : t # "close"
    BY Kinds
  <2>2. updates' = updates \/ (Len(updates') = 1 /\ updates'[1] = "close")
    BY <1>2
  <2> QED
    BY <1>2, <2>1, <2>2 DEF Received
<1>6. FetchInv => FetchInv'
  BY <1>2, <1>4, <1>5 DEF FetchInv, Final, OfTypes
<1> QED
  BY <1>1, <1>3, <1>4, <1>6 DEF AdscInv

\* An update is crossed off: what has been received has been before.
LEMMA FetchUpdateStep ==
    ASSUME AdscInv, FetchUpdate
    PROVE  AdscInv'
<1> USE DEF serverVars
<1>1. /\ StateInv /\ (~broken => NonceInv /\ RequestInv /\ ListenersInv)
      /\ changes = 0 => StreamIsFinal /\ FetchInv
  BY DEF AdscInv
<1>2. /\ fetch = "reading" /\ updates # <<>> /\ updates' = Tail(updates)
      /\ missing' = missing \ {Head(updates)}
      /\ UNCHANGED <<watches, initialLoad, responses, toClient, toServer, broken, serverVars, result>>
  BY DEF FetchUpdate
<1>3. fetch' \in {"closed", "fetched", "reading"} /\ (fetch' = "fetched" => missing' = {})
  BY DEF FetchUpdate
<1>4. /\ updates \in Seq(Types \cup {"close"}) /\ Len(updates) <= UpdCap
      /\ updates' \in Seq(Types \cup {"close"}) /\ Len(updates') <= UpdCap
      /\ updates[1] = Head(updates) /\ 1 \in 1..Len(updates)
      /\ \A i \in 1..Len(updates') : i + 1 \in 1..Len(updates) /\ updates'[i] = updates[i + 1]
  <2>1. updates \in Seq(Types \cup {"close"}) /\ Len(updates) <= UpdCap
    BY <1>1 DEF StateInv
  <2>2. Len(updates') = Len(updates) - 1 /\ Len(updates) \in Nat
    BY <1>2, <2>1
  <2>3. updates' \in Seq(Types \cup {"close"}) /\ Len(updates') <= UpdCap
    BY <1>2, <2>1, <2>2, AdscClientAssumption
  <2> QED
    BY <1>2, <2>1, <2>2, <2>3
<1>5. StateInv'
  BY <1>1, <1>2, <1>3, <1>4 DEF StateInv
<1>6. ~broken' => NonceInv' /\ RequestInv' /\ ListenersInv'
  <2>1. broken' = broken
    BY <1>2
  <2>2. NonceInv => NonceInv'
    BY <1>2 DEF NonceInv, NoneOf, LastOf
  <2>3. RequestInv => RequestInv'
    BY <1>2 DEF RequestInv, NoneOf, LastOf, UpToDate, InStep
  <2>4. ListenersInv => ListenersInv'
    BY <1>2 DEF ListenersInv, NoneOf
  <2> QED
    BY <1>1, <2>1, <2>2, <2>3, <2>4
<1>7. changes = 0 => StreamIsFinal'
  BY <1>1, <1>2, StaysFinal DEF StreamIsFinal
<1>8. changes = 0 => FetchInv'
  <2>1. ASSUME NEW t, Received(t)' PROVE Received(t)
    BY <1>2, <1>4, <2>1 DEF Received
  <2> QED
    BY <1>1, <1>2, <1>3, <2>1 DEF FetchInv, Final, OfTypes
<1> QED
  BY <1>2, <1>5, <1>6, <1>7, <1>8 DEF AdscInv

\* What Fetch returns is what it has received.
LEMMA FetchEndStep ==
    ASSUME AdscInv, FetchReturn \/ FetchCancelled
    PROVE  AdscInv'
<1>1. StateInv /\ (changes = 0 => StreamIsFinal /\ FetchInv)
  BY DEF AdscInv
<1>2. /\ EndStream /\ UNCHANGED <<watches, initialLoad, responses, updates, missing>>
      /\ \/ fetch = "fetched" /\ fetch' = "returned" /\ result' = responses
         \/ fetch' = "gaveUp" /\ result' = responses
         \/ fetch' = "cancelled" /\ result' = result
  BY DEF FetchReturn, FetchCancelled, clientVars
<1>3. StateInv' /\ broken' /\ (StreamIsFinal => StreamIsFinal')
  <2>1. /\ fetch' \in {"none", "reading", "fetched", "closed", "returned", "gaveUp", "cancelled"}
        /\ result' \in [Types -> SUBSET Names]
    BY <1>1, <1>2 DEF StateInv
  <2>2. UNCHANGED <<watches, initialLoad, responses>> /\ updates' \in {updates, <<"close">>}
    BY <1>2
  <2>3. missing' = missing /\ EndStream
    BY <1>2
  <2> QED
    BY <1>1, <2>1, <2>2, <2>3, StreamEnds
<1>4. UNCHANGED <<config, changes>>
  BY <1>2 DEF EndStream
<1>5. FetchInv => FetchInv'
  <2> SUFFICES ASSUME FetchInv, fetch' = "returned", NEW t \in FetchTypes PROVE result'[t] = Final(t)
    BY <1>2, <1>4 DEF FetchInv, Final, OfTypes
  <2>1. fetch = "fetched" /\ result' = responses
    BY <1>2
  <2>2. Received(t)
    BY <2>1 DEF FetchInv, Received
  <2> QED
    BY <2>1, <2>2 DEF FetchInv
<1> QED
  BY <1>1, <1>3, <1>4, <1>5 DEF AdscInv

THEOREM Invariance == Spec => []AdscInv
<1>1. AdscInv /\ [Next]_vars => AdscInv'
  <2> SUFFICES ASSUME AdscInv, [Next]_vars PROVE AdscInv'
    OBVIOUS
  <2>1. CASE Reconfigure
    BY <2>1, ReconfigureStep
  <2>2. ASSUME NEW t \in Types, Push(t) PROVE AdscInv'
    BY <2>2, PushStep
  <2>3. CASE PushEndpoints
    BY <2>3, PushEndpointsStep
  <2>4. CASE Serve
    BY <2>4, ServeStep
  <2>5. CASE HandleRecv
    BY <2>5, HandleRecvStep
  <2>6. CASE StreamBreaks
    BY <2>6, StreamBreaksStep
  <2>7. CASE FetchUpdate
    BY <2>7, FetchUpdateStep
  <2>8. CASE FetchReturn \/ FetchCancelled
    BY <2>8, FetchEndStep
  <2>9. CASE UNCHANGED vars
    <3> USE <2>9 DEF vars, clientVars, serverVars, fetchVars
    <3>1. StateInv => StateInv'
      BY DEF StateInv
    <3>2. /\ NonceInv => NonceInv'
          /\ RequestInv => RequestInv'
          /\ ListenersInv => ListenersInv'
      BY DEF NonceInv, RequestInv, ListenersInv, NoneOf, LastOf, UpToDate, InStep
    <3>3. StreamIsFinal => StreamIsFinal'
      BY StaysFinal DEF StreamIsFinal
    <3>4. FetchInv => FetchInv'
      BY DEF FetchInv, Received, Final, OfTypes
    <3> QED
      BY <3>1, <3>2, <3>3, <3>4 DEF AdscInv
  <2> QED
    BY <2>1, <2>2, <2>3, <2>4, <2>5, <2>6, <2>7, <2>8, <2>9 DEF Next
<1> QED
  BY <1>1, Initially, PTL DEF Spec
-----------------------------------------------------------------------------
(* Theorems *)

\* Names are kept under their own type, an acknowledgement is of a response the
\* client has read, and updates never exceed their channel (adsc/adsc.go).
THEOREM AdscTyping == Spec => []TypeOK
<1>1. AdscInv => TypeOK
  BY DEF AdscInv, StateInv, RequestInv, NonceInv, TypeOK
<1> QED
  BY <1>1, Invariance, PTL

\* Once nothing is on its way the server watches the endpoints that the last
\* clusters referred to: requests that handleRecv sent with an old nonce, and
\* the server ignored, were made up for by a later acknowledgement.
THEOREM EndpointsInStep == Spec => []EndpointsWatched
<1>1. AdscInv => EndpointsWatched
  <2> SUFFICES ASSUME AdscInv, Quiet PROVE subs[EDS] = watches[EDS].names
    BY DEF EndpointsWatched
  <2>1. EDS \in Types /\ NonceInv /\ RequestInv /\ toClient = <<>> /\ toServer = <<>>
    BY Kinds DEF AdscInv, Quiet
  <2>2. NoneOf(toClient, EDS) /\ NoneOf(toServer, EDS)
    BY <2>1 DEF NoneOf
  <2>3. InStep(EDS)
    BY <2>1, <2>2 DEF NonceInv, RequestInv
  <2> QED
    BY <2>3 DEF InStep
<1> QED
  BY <1>1, Invariance, PTL

\* Every response is acknowledged with its nonce: once nothing is on its way the
\* server waits for no type it still serves on this stream.
THEOREM EveryNonceAcked == Spec => []AllAcknowledged
<1>1. AdscInv => AllAcknowledged
  <2> SUFFICES ASSUME AdscInv, Quiet, NEW t \in watching PROVE acked[t] = sent[t]
    BY DEF AllAcknowledged
  <2>1. t \in Types /\ NonceInv /\ RequestInv /\ toClient = <<>> /\ toServer = <<>>
    BY DEF AdscInv, StateInv, Quiet
  <2>2. NoneOf(toClient, t) /\ NoneOf(toServer, t)
    BY <2>1 DEF NoneOf
  <2>3. InStep(t)
    BY <2>1, <2>2 DEF NonceInv, RequestInv
  <2> QED
    BY <2>3 DEF InStep
<1> QED
  BY <1>1, Invariance, PTL

\* A Fetch that ends its loop with nothing missing returns the configuration:
\* the endpoints of its clusters and the routes of its listeners, although it
\* counts updates and reads the responses after the receiver may have gone on.
THEOREM FetchComplete == Spec => []FetchedIsComplete
<1>1. AdscInv => FetchedIsComplete
  <2> SUFFICES ASSUME AdscInv, fetch = "returned", changes = 0
               PROVE  /\ result[EDS] = result[CDS]
                      /\ result[RDS] = OfTypes(result[LDS], {RDS})
                      /\ result[CDS] \cup result[LDS] = config
    BY DEF FetchedIsComplete
  <2>1. \A t \in FetchTypes : result[t] = Final(t)
    BY DEF AdscInv, FetchInv
  <2>2. /\ result[CDS] = OfTypes(config, {EDS}) /\ result[EDS] = OfTypes(config, {EDS})
        /\ result[LDS] = OfTypes(config, {RDS} \cup Optional)
        /\ result[RDS] = OfTypes(config, {RDS})
    BY <2>1, Kinds, FinalKinds DEF Referred
  <2>3. config \in SUBSET Names /\ \A n \in Names : TypeOf[n] \in {EDS, RDS} \cup Optional
    BY AdscClientAssumption DEF AdscInv, StateInv, Leaves
  <2>4. OfTypes(config, {RDS}) = OfTypes(OfTypes(config, {RDS} \cup Optional), {RDS})
    BY DEF OfTypes
  <2>5. OfTypes(config, {EDS}) \cup OfTypes(config, {RDS} \cup Optional) = config
    BY <2>3 DEF OfTypes
  <2> QED
    BY <2>2, <2>4, <2>5
<1> QED
  BY <1>1, Invariance, PTL
=============================================================================
