-------------------------- MODULE PubSubReplyProofs --------------------------
(***************************************************************************)
(* Proofs about what the node sends back to the hub: every copy of a       *)
(* message is written once to each entry it is for, and subscriptions are  *)
(* acknowledged, for any clients, channels and failures.  They build on    *)
(* the maps' invariant of PubSubHubProofs.                                 *)
(***************************************************************************)
EXTENDS PubSubHubProofs

Replied == {"subscribe", "psubscribe", "unsubscribe", "punsubscribe", "error"}
Pushed == {"message", "pmessage"}

Message == [type : Replied \cup Pushed, channel : Named, id : Nat]

Published == [channel : Channels, exact : Nat, pats : Nat, at : Nat]

NodeTypes ==
    /\ IsFiniteSet(subs) /\ IsFiniteSet(nodeSubs) /\ IsFiniteSet(nodePats)
    /\ nodeSubs \subseteq Named
    /\ fromNode \in Seq(Message)
    /\ awaiting \subseteq [c : Clients, n : Nat]
    /\ published \in Seq(Published) /\ Len(published) <= MaxPub
    /\ got \in [Clients -> [Names \X (1..MaxPub) -> Nat]]

\* The entry was or will be written what it is to get of the message.
Delivered(e, id) ==
    e.at <= published[id].at /\ Fits(e, published[id].channel) =>
        got[e.c][<<e.name, id>>] + Count(fromNode, Copies(e, id)) = Due(e, id)

\* What is unread was published, and what was not published was not written.
DeliverInv ==
    /\ \A id \in 1..Len(published) : published[id].at <= nreq
    /\ \A m \in Message : In(m, fromNode) /\ m.type \in Pushed =>
          m.id \in 1..Len(published) /\ m.channel = published[m.id].channel
    /\ \A c \in Clients, n \in Names, id \in 1..MaxPub : id > Len(published) => got[c][<<n, id>>] = 0
    /\ \A e \in subs : \A id \in 1..Len(published) : Delivered(e, id)

\* The request for the name, or the reply to it, is on its way.
Pending(name, n) ==
    \/ In(Req("subscribe", name, n), pendingClients)
    \/ In(Req("subscribe", name, n), toNode)
    \/ In(Msg("subscribe", name, n), fromNode)

\* What a client that only subscribes waits for is on its way, under a name of
\* which it has an entry.
Expected(a) ==
    used[a.c] \subseteq {"subscribe"} /\ state[a.c] # "closed" =>
        \E e \in subs : e.c = a.c /\ ~e.glob /\ Pending(e.name, a.n)

AwaitInv ==
    /\ \A e \in subs : e.glob => "psubscribe" \in used[e.c]
    /\ \A a \in awaiting : Expected(a)

NodeInv == NodeTypes /\ DeliverInv /\ AwaitInv

------------------------------------------------------------------------------
\* Finite sets, and counting in sequences.

\* Sets that are in a bijection have the same size.
BijectionFact ==
    \A S, T : \A f \in [S -> T] :
        /\ IsFiniteSet(S)
        /\ \A x, y \in S : f[x] = f[y] => x = y
        /\ \A z \in T : \E x \in S : f[x] = z
        => IsFiniteSet(T) /\ Cardinality(T) = Cardinality(S)

\* Sets without a common element.
DisjointFact ==
    \A S, T : IsFiniteSet(S) /\ IsFiniteSet(T) /\ S \cap T = {} =>
        Cardinality(S \cup T) = Cardinality(S) + Cardinality(T)

\* What is used of finite sets, in each lemma as an assumption: the library of
\* which it is a consequence is brought in at the end.
SetFacts ==
    /\ IsFiniteSet({}) /\ Cardinality({}) = 0
    /\ \A S : IsFiniteSet(S) => Cardinality(S) \in Nat /\ (Cardinality(S) = 0 => S = {})
    /\ \A S, x : IsFiniteSet(S) =>
          /\ IsFiniteSet(S \cup {x}) /\ IsFiniteSet(S \ {x})
          /\ x \notin S => Cardinality(S \cup {x}) = Cardinality(S) + 1
    /\ \A S : \A T \in SUBSET S : IsFiniteSet(S) => IsFiniteSet(T) /\ Cardinality(T) <= Cardinality(S)
    /\ \A n \in Nat : IsFiniteSet(1..n)
    /\ \A m, n \in Nat : IsFiniteSet(m + 1..m + n) /\ Cardinality(m + 1..m + n) = n
    /\ DisjointFact
    /\ BijectionFact

\* The last of these as it is used.
LEMMA OneToOne ==
    ASSUME SetFacts, NEW S, NEW T, NEW f \in [S -> T], IsFiniteSet(S),
           \A x, y \in S : f[x] = f[y] => x = y,
           \A z \in T : \E x \in S : f[x] = z
    PROVE  IsFiniteSet(T) /\ Cardinality(T) = Cardinality(S)
<1>1. BijectionFact
  BY Zenon DEF SetFacts
<1> QED BY <1>1 DEF BijectionFact

\* Counting in the empty sequence, and for no names.
LEMMA CountNone ==
    ASSUME SetFacts, NEW S, NEW s \in Seq(S), NEW T
    PROVE  Count(<<>>, T) = 0 /\ Count(s, {}) = 0 /\ Count(s, T) \in Nat
<1>1. Len(<<>>) = 0 /\ Len(s) \in Nat
  OBVIOUS
<1>2. 1..Len(<<>>) = {}
  BY <1>1
<1>3. {i \in 1..Len(<<>>) : <<>>[i] \in T} = {} /\ {i \in 1..Len(s) : s[i] \in {}} = {}
  BY <1>2, Zenon
<1>4. {i \in 1..Len(s) : s[i] \in T} \in SUBSET (1..Len(s)) /\ IsFiniteSet(1..Len(s))
  BY <1>1, Zenon DEF SetFacts
<1>5. Cardinality({i \in 1..Len(s) : s[i] \in T}) \in Nat
  <2> DEFINE A == {i \in 1..Len(s) : s[i] \in T}
  <2> HIDE DEF A
  <2>1. A \in SUBSET (1..Len(s))
    BY <1>4 DEF A
  <2>2. IsFiniteSet(A)
    BY <1>4, <2>1, Zenon DEF SetFacts
  <2>3. Cardinality(A) \in Nat
    BY <2>2, Zenon DEF SetFacts
  <2> QED BY <2>3 DEF A
<1> QED BY <1>3, <1>5, Zenon DEF SetFacts, Count

\* A sequence that grows by items that do not count.
LEMMA CountSame ==
    ASSUME NEW S, NEW s \in Seq(S), NEW t \in Seq(S), NEW T, Len(s) <= Len(t),
           \A i \in 1..Len(s) : t[i] = s[i],
           \A i \in Len(s) + 1..Len(t) : t[i] \notin T
    PROVE  Count(t, T) = Count(s, T)
<1>1. Len(s) \in Nat /\ Len(t) \in Nat
  OBVIOUS
<1>2. {i \in 1..Len(t) : t[i] \in T} = {i \in 1..Len(s) : s[i] \in T}
  BY <1>1
<1> QED BY <1>2, Zenon DEF Count

\* A sequence t that is s and one more item.
LEMMA CountLast ==
    ASSUME SetFacts, NEW S, NEW s \in Seq(S), NEW t \in Seq(S), NEW q, NEW T,
           Len(t) = Len(s) + 1, t[Len(s) + 1] = q, \A i \in 1..Len(s) : t[i] = s[i]
    PROVE  Count(t, T) = Count(s, T) + (IF q \in T THEN 1 ELSE 0)
<1> DEFINE A == {i \in 1..Len(s) : s[i] \in T}
           B == {i \in 1..Len(t) : t[i] \in T}
           n == Len(s) + 1
<1>1. Len(s) \in Nat
  OBVIOUS
<1>2. B = (IF q \in T THEN A \cup {n} ELSE A) /\ n \notin A
  BY <1>1
<1>3. A \in SUBSET (1..Len(s)) /\ IsFiniteSet(1..Len(s))
  BY <1>1, Zenon DEF SetFacts
<1> HIDE DEF A, B, n
<1>4. IsFiniteSet(A) /\ Cardinality(A) \in Nat
  BY <1>3, Zenon DEF SetFacts
<1>5. Cardinality(A \cup {n}) = Cardinality(A) + 1
  BY <1>2, <1>4, Zenon DEF SetFacts
<1>6. Cardinality(B) = Cardinality(A) + (IF q \in T THEN 1 ELSE 0)
  BY <1>2, <1>4, <1>5
<1> QED BY <1>6, Zenon DEF Count, A, B

\* A sequence t that is s and n more items, which all count.
LEMMA CountRun ==
    ASSUME SetFacts, NEW S, NEW s \in Seq(S), NEW t \in Seq(S), NEW n \in Nat, NEW T,
           Len(t) = Len(s) + n, \A i \in 1..Len(s) : t[i] = s[i],
           \A i \in Len(s) + 1..Len(t) : t[i] \in T
    PROVE  Count(t, T) = Count(s, T) + n
<1> DEFINE A == {i \in 1..Len(s) : s[i] \in T}
           B == Len(s) + 1..Len(s) + n
           C == {i \in 1..Len(t) : t[i] \in T}
<1>1. Len(s) \in Nat
  OBVIOUS
<1>2. C = A \cup B /\ A \cap B = {}
  BY <1>1
<1>3. A \in SUBSET (1..Len(s)) /\ IsFiniteSet(1..Len(s))
  BY <1>1, Zenon DEF SetFacts
<1>4. IsFiniteSet(B) /\ Cardinality(B) = n
  BY <1>1, Zenon DEF SetFacts
<1> HIDE DEF A, B, C
<1>5. IsFiniteSet(A)
  BY <1>3, Zenon DEF SetFacts
<1>6. Cardinality(A \cup B) = Cardinality(A) + Cardinality(B)
  <2>1. DisjointFact
    BY Zenon DEF SetFacts
  <2> QED BY <1>2, <1>4, <1>5, <2>1, Zenon DEF DisjointFact
<1>7. Cardinality(C) = Cardinality(A) + n
  BY <1>2, <1>4, <1>6, Zenon
<1> QED BY <1>7, Zenon DEF Count, A, C

\* A sequence with nothing that counts.
LEMMA CountZero ==
    ASSUME SetFacts, NEW s, NEW T, \A i \in 1..Len(s) : s[i] \notin T
    PROVE  Count(s, T) = 0
<1>1. {i \in 1..Len(s) : s[i] \in T} = {}
  BY Zenon
<1> QED BY <1>1, Zenon DEF Count, SetFacts

\* A sequence s with a first item q, of which t is the rest.
LEMMA CountFirst ==
    ASSUME SetFacts, NEW S, NEW s \in Seq(S), NEW t \in Seq(S), NEW q, NEW T,
           Len(s) = Len(t) + 1, s[1] = q, \A i \in 1..Len(t) : s[i + 1] = t[i]
    PROVE  Count(s, T) = Count(t, T) + (IF q \in T THEN 1 ELSE 0)
<1> DEFINE A == {i \in 1..Len(t) : t[i] \in T}
           B == {i \in 2..Len(s) : s[i] \in T}
           C == {i \in 1..Len(s) : s[i] \in T}
           f == [i \in A |-> i + 1]
<1>1. Len(t) \in Nat
  OBVIOUS
<1>2. f \in [A -> B]
  BY <1>1
<1>3. \A x, y \in A : f[x] = f[y] => x = y
  BY <1>1
<1>4. \A z \in B : \E x \in A : f[x] = z
  <2> SUFFICES ASSUME NEW z \in B PROVE \E x \in A : f[x] = z
    BY Zenon
  <2>1. z - 1 \in A /\ (z - 1) + 1 = z
    BY <1>1
  <2> QED BY <2>1
<1>5. C = (IF q \in T THEN B \cup {1} ELSE B) /\ 1 \notin B
  BY <1>1
<1>6. A \in SUBSET (1..Len(t)) /\ IsFiniteSet(1..Len(t))
  BY <1>1, Zenon DEF SetFacts
<1> HIDE DEF A, B, C, f
<1>7. IsFiniteSet(A)
  BY <1>6, Zenon DEF SetFacts
<1>8. IsFiniteSet(B) /\ Cardinality(B) = Cardinality(A)
  BY <1>2, <1>3, <1>4, <1>7, OneToOne
<1>9. Cardinality(A) \in Nat /\ Cardinality(B \cup {1}) = Cardinality(B) + 1
  BY <1>5, <1>7, <1>8, Zenon DEF SetFacts
<1>10. Cardinality(C) = Cardinality(A) + (IF q \in T THEN 1 ELSE 0)
  BY <1>5, <1>8, <1>9
<1> QED BY <1>10 DEF Count, A, C

\* The first item of a queue and the rest of it, item by item.
LEMMA HeadTail ==
    ASSUME NEW S, NEW s \in Seq(S), s # <<>>
    PROVE  /\ Head(s) \in S /\ Tail(s) \in Seq(S)
           /\ Len(s) = Len(Tail(s)) + 1 /\ s[1] = Head(s)
           /\ \A i \in 1..Len(Tail(s)) : s[i + 1] = Tail(s)[i]
  OBVIOUS

\* What is added to a queue, item by item.
LEMMA Concat ==
    ASSUME NEW S, NEW s \in Seq(S), NEW u \in Seq(S)
    PROVE  /\ s \o u \in Seq(S) /\ Len(s) <= Len(s \o u)
           /\ \A i \in 1..Len(s) : (s \o u)[i] = s[i]
           /\ \A i \in Len(s) + 1..Len(s \o u) : \E j \in 1..Len(u) : (s \o u)[i] = u[j]
<1> DEFINE t == s \o u
<1>1. /\ t \in Seq(S) /\ Len(t) = Len(s) + Len(u) /\ Len(s) \in Nat /\ Len(u) \in Nat
      /\ \A i \in 1..Len(s) : t[i] = s[i]
      /\ \A i \in 1..Len(u) : t[Len(s) + i] = u[i]
  OBVIOUS
<1> HIDE DEF t
<1>2. ASSUME NEW i \in Len(s) + 1..Len(t) PROVE \E j \in 1..Len(u) : t[i] = u[j]
  <2>1. i - Len(s) \in 1..Len(u) /\ Len(s) + (i - Len(s)) = i
    BY <1>1
  <2>2. t[Len(s) + (i - Len(s))] = u[i - Len(s)]
    BY <1>1, <2>1, Zenon
  <2> QED BY <2>1, <2>2
<1>3. Len(s) <= Len(t)
  BY <1>1
<1> QED BY <1>1, <1>2, <1>3 DEF t

\* One reply is added.
LEMMA ConcatOne ==
    ASSUME NEW S, NEW s \in Seq(S), NEW m \in S
    PROVE  Len(s \o <<m>>) = Len(s) + 1 /\ (s \o <<m>>)[Len(s) + 1] = m
  OBVIOUS

\* What is added to a queue comes after what was there.
LEMMA InGrown ==
    ASSUME NEW s, NEW t, Len(s) \in Nat, Len(t) \in Nat, Len(s) <= Len(t),
           \A i \in 1..Len(s) : t[i] = s[i]
    PROVE  \A x : In(x, s) => In(x, t)
  BY DEF In

\* The messages that count for an entry.
LEMMA InCopies ==
    ASSUME NEW m \in Message, NEW e, NEW id
    PROVE  m \in Copies(e, id) <=>
              /\ m.type = "message" \/ (e.glob /\ m.type = "pmessage")
              /\ m.channel = published[id].channel /\ m.id = id
  BY DEF Copies, Message

------------------------------------------------------------------------------
\* Messages and acknowledgements.

\* A step that makes at most entries younger than all messages, and leaves the
\* messages alone.
LEMMA SameDeliver ==
    ASSUME MapsInv, NodeInv, nreq \in Nat, nreq' \in Nat, nreq <= nreq',
           \A e \in subs' : e \in subs \/ (e.at \in Nat /\ e.at > nreq),
           UNCHANGED <<fromNode, published, got>>
    PROVE  DeliverInv'
<1>1. \A id \in 1..Len(published) : published[id].at \in Nat /\ published[id].at <= nreq
  <2>1. \A id \in 1..Len(published) : published[id] \in Published
    BY DEF NodeInv, NodeTypes
  <2> QED BY <2>1 DEF NodeInv, DeliverInv, Published
<1>2. \A id \in 1..Len(published') : published'[id].at <= nreq'
  BY <1>1
<1>3. ASSUME NEW e \in subs', NEW id \in 1..Len(published') PROVE Delivered(e, id)'
  <2>1. CASE e \in subs
    BY <2>1, Zenon DEF NodeInv, DeliverInv, Delivered, Copies, Due
  <2>2. CASE e \notin subs
    <3>1. ~(e.at <= published'[id].at)
      BY <1>1, <2>2
    <3> QED BY <3>1, Zenon DEF Delivered
  <2> QED BY <2>1, <2>2
<1>4. /\ \A m \in Message : In(m, fromNode') /\ m.type \in Pushed =>
            m.id \in 1..Len(published') /\ m.channel = published'[m.id].channel
      /\ \A c \in Clients, n \in Names, id \in 1..MaxPub : id > Len(published') => got'[c][<<n, id>>] = 0
  BY Zenon DEF NodeInv, DeliverInv
<1> QED BY <1>2, <1>3, <1>4, Zenon DEF DeliverInv

\* A request that was not answered is still on its way.
LEMMA SameExpected ==
    ASSUME NEW a, Expected(a), used[a.c] \subseteq used'[a.c],
           state'[a.c] # "closed" => state[a.c] # "closed",
           \A e \in subs : e.c = a.c => e \in subs',
           \A name : Pending(name, a.n) => Pending(name, a.n)'
    PROVE  Expected(a)'
<1>1. used'[a.c] \subseteq {"subscribe"} => used[a.c] \subseteq {"subscribe"}
  OBVIOUS
<1> QED BY <1>1, Zenon DEF Expected

\* A new hub.
LEMMA InitNode ==
    ASSUME SetFacts, Init
    PROVE  NodeInv
<1>1. NodeTypes
  <2>1. /\ <<>> \in Seq(Message) /\ <<>> \in Seq(Published) /\ Len(<<>>) <= MaxPub /\ 0 \in Nat
    BY HubAssumption
  <2>2. /\ IsFiniteSet(subs) /\ IsFiniteSet(nodeSubs) /\ IsFiniteSet(nodePats)
        /\ nodeSubs \subseteq Named /\ awaiting \subseteq [c : Clients, n : Nat]
    BY Zenon DEF SetFacts, Init
  <2>3. got \in [Clients -> [Names \X (1..MaxPub) -> Nat]]
    BY <2>1, Zenon DEF Init
  <2> QED BY <2>1, <2>2, <2>3, Zenon DEF Init, NodeTypes
<1>2. DeliverInv
  <2>1. \A c \in Clients, n \in Names, id \in 1..MaxPub : got[c][<<n, id>>] = 0
    BY DEF Init
  <2>2. 1..Len(published) = {}
    <3>1. Len(published) = 0
      BY DEF Init
    <3> QED BY <3>1
  <2>3. \A m : ~In(m, fromNode)
    BY InEmpty, Zenon DEF Init
  <2>4. subs = {}
    BY DEF Init
  <2> QED BY <2>1, <2>2, <2>3, <2>4, Zenon DEF DeliverInv
<1>3. AwaitInv
  BY Zenon DEF Init, AwaitInv
<1> QED BY <1>1, <1>2, <1>3 DEF NodeInv

\* hub.subscribe: the client waits for one more acknowledgement, and the request
\* for it is queued under a name that the client has.
LEMMA SubscribeNode ==
    ASSUME SetFacts, MapsInv, NodeInv, NEW c \in Clients, NEW cmd \in {"subscribe", "psubscribe", "bare"},
           NEW name \in Named, Subscribe(c, cmd, name)
    PROVE  NodeInv'
<1> DEFINE k == nreq + 1
           r == Req(cmd, name, k)
           e0 == [name |-> name, c |-> c, glob |-> cmd = "psubscribe", at |-> k]
           a0 == [c |-> c, n |-> k]
<1>1. Types /\ nreq \in Nat /\ k \in Nat /\ k > nreq
  BY DEF MapsInv, Types
<1>2. /\ Sends(c, cmd) /\ state[c] # "closed" /\ awaiting' = awaiting \cup {a0}
      /\ state' = [state EXCEPT ![c] = "subscribe"]
      /\ UNCHANGED <<fromNode, nodeSubs, nodePats, published, got>>
  BY DEF Subscribe
<1>3. \/ cmd = "bare" /\ subs' = subs
      \/ cmd # "bare" /\ subs' = subs /\ \E e \in subs : e.name = name /\ e.c = c
      \/ cmd # "bare" /\ subs' = subs \cup {e0}
  BY DEF Subscribe, AddSub
<1>4. \/ toNode' = Append(toNode, r) /\ pendingClients' = pendingClients
      \/ toNode' = toNode /\ pendingClients' = Append(pendingClients, r)
  BY DEF Subscribe
<1>5. /\ e0.name = name /\ e0.c = c /\ e0.glob = (cmd = "psubscribe") /\ e0.at = k
      /\ a0 \in [c : Clients, n : Nat] /\ a0.c = c /\ a0.n = k
  BY <1>1
<1>6. r \in Request
  <2>1. cmd \in CmdNames
    BY Zenon DEF CmdNames
  <2> QED BY <1>1, <2>1, RequestType
<1> HIDE DEF e0, a0, r
<1>7. /\ nreq' = k /\ cmd \in used'[c]
      /\ \A d \in Clients : used[d] \subseteq used'[d]
  <2>1. cmd \in CmdNames \cup {"reset"}
    BY Zenon DEF CmdNames
  <2> QED BY <1>1, <1>2, <2>1, SendsUsed
<1>8. /\ \A x : In(x, toNode) => In(x, toNode')
      /\ \A x : In(x, pendingClients) => In(x, pendingClients')
      /\ In(r, toNode') \/ In(r, pendingClients')
  <2>1. toNode \in Seq(Request) /\ pendingClients \in Seq(Request)
    BY DEF MapsInv, Types
  <2>2. \A x : In(x, Append(toNode, r)) <=> In(x, toNode) \/ x = r
    BY <1>6, <2>1, InAppend
  <2>3. \A x : In(x, Append(pendingClients, r)) <=> In(x, pendingClients) \/ x = r
    BY <1>6, <2>1, InAppend
  <2> QED BY <1>4, <2>2, <2>3, Zenon
<1> HIDE DEF k
<1>9. NodeTypes'
  <2>1. IsFiniteSet(subs')
    BY <1>3, Zenon DEF SetFacts, NodeInv, NodeTypes
  <2>2. awaiting' \subseteq [c : Clients, n : Nat]
    BY <1>2, <1>5, Zenon DEF NodeInv, NodeTypes
  <2> QED BY <1>2, <2>1, <2>2, Zenon DEF NodeInv, NodeTypes
<1>10. DeliverInv'
  <2>1. \A e \in subs' : e \in subs \/ (e.at \in Nat /\ e.at > nreq)
    BY <1>1, <1>3, <1>5
  <2>2. nreq' \in Nat /\ nreq <= nreq'
    BY <1>1, <1>7
  <2> QED BY <1>1, <1>2, <2>1, <2>2, SameDeliver
<1>11. ASSUME NEW e \in subs', e.glob PROVE "psubscribe" \in used'[e.c]
  <2>1. CASE e \in subs
    <3>1. e.c \in Clients /\ "psubscribe" \in used[e.c]
      BY <1>11, <2>1 DEF MapsInv, Types, Entry, NodeInv, AwaitInv
    <3> QED BY <1>7, <3>1
  <2>2. CASE e = e0
    BY <1>5, <1>7, <1>11, <2>2, Zenon
  <2> QED BY <1>3, <2>1, <2>2, Zenon
<1>12. ASSUME NEW a \in awaiting' PROVE Expected(a)'
  <2>1. CASE a \in awaiting
    <3>1. a.c \in Clients /\ Expected(a)
      BY <2>1 DEF NodeInv, NodeTypes, AwaitInv
    <3>2. state'[a.c] # "closed" => state[a.c] # "closed"
      BY <1>2, <3>1 DEF MapsInv, Types
    <3>3. \A n : Pending(n, a.n) => Pending(n, a.n)'
      BY <1>2, <1>8, Zenon DEF Pending
    <3>4. \A e \in subs : e \in subs'
      BY <1>3, Zenon
    <3> QED BY <1>7, <3>1, <3>2, <3>3, <3>4, SameExpected
  <2>2. CASE a = a0
    <3>0. a.c = c /\ r = Req(cmd, name, a.n)
      BY <1>5, <2>2, Zenon DEF r
    <3> SUFFICES ASSUME used'[c] \subseteq {"subscribe"}
                 PROVE  \E e \in subs' : e.c = a.c /\ ~e.glob /\ Pending(e.name, a.n)'
      BY <3>0, Zenon DEF Expected
    <3>1. cmd = "subscribe" /\ "psubscribe" \notin used'[c]
      BY <1>7
    <3>2. PICK e \in subs' : e.name = name /\ e.c = c
      BY <1>3, <1>5, <3>1, Zenon
    <3>3. ~e.glob
      BY <1>11, <3>1, <3>2, Zenon
    <3>4. Pending(e.name, a.n)'
      BY <1>8, <3>0, <3>1, <3>2, Zenon DEF Pending
    <3> QED BY <3>0, <3>2, <3>3, <3>4, Zenon
  <2> QED BY <1>2, <2>1, <2>2
<1> QED BY <1>9, <1>10, <1>11, <1>12, Zenon DEF NodeInv, AwaitInv

\* hub.unsubscribe and RESET: the client no longer only subscribes, and the others
\* keep their entries.
LEMMA LeaveNode ==
    ASSUME SetFacts, MapsInv, NodeInv, NEW c \in Clients,
           NEW cmd \in {"unsubscribe", "punsubscribe", "all", "pall", "reset"}, Sends(c, cmd),
           subs' \in SUBSET subs, \A e \in subs : e.c # c => e \in subs',
           \A d \in Clients : d # c => state'[d] = state[d],
           awaiting' \in {awaiting, awaiting \cup {[c |-> c, n |-> nreq + 1]}},
           \A x : In(x, toNode) => In(x, toNode'),
           UNCHANGED <<pendingClients, fromNode, nodeSubs, nodePats, published, got>>
    PROVE  NodeInv'
<1> DEFINE a0 == [c |-> c, n |-> nreq + 1]
<1>1. Types /\ nreq \in Nat
  BY DEF MapsInv, Types
<1>2. /\ nreq' = nreq + 1 /\ cmd \in used'[c]
      /\ \A d \in Clients : used[d] \subseteq used'[d]
  <2>1. cmd \in CmdNames \cup {"reset"}
    BY Zenon DEF CmdNames
  <2> QED BY <1>1, <2>1, SendsUsed
<1>3. a0 \in [c : Clients, n : Nat] /\ a0.c = c
  BY <1>1
<1>4. awaiting' \subseteq awaiting \cup {a0}
  BY Zenon
<1> HIDE DEF a0
<1>5. NodeTypes'
  <2>1. IsFiniteSet(subs')
    BY Zenon DEF SetFacts, NodeInv, NodeTypes
  <2>2. awaiting' \subseteq [c : Clients, n : Nat]
    BY <1>3, <1>4, Zenon DEF NodeInv, NodeTypes
  <2> QED BY <2>1, <2>2, Zenon DEF NodeInv, NodeTypes
<1>6. DeliverInv'
  <2>1. nreq' \in Nat /\ nreq <= nreq'
    BY <1>1, <1>2
  <2> QED BY <1>1, <2>1, SameDeliver
<1>7. ASSUME NEW e \in subs', e.glob PROVE "psubscribe" \in used'[e.c]
  <2>1. e.c \in Clients /\ "psubscribe" \in used[e.c]
    BY <1>7 DEF MapsInv, Types, Entry, NodeInv, AwaitInv
  <2> QED BY <1>2, <2>1
<1>8. ASSUME NEW a \in awaiting' PROVE Expected(a)'
  <2>1. CASE a.c = c
    <3>1. ~(used'[c] \subseteq {"subscribe"})
      BY <1>2
    <3> QED BY <2>1, <3>1, Zenon DEF Expected
  <2>2. CASE a.c # c
    <3>1. a \in awaiting
      BY <1>3, <1>4, <2>2, Zenon
    <3>2. a.c \in Clients /\ Expected(a)
      BY <3>1 DEF NodeInv, NodeTypes, AwaitInv
    <3>3. state'[a.c] # "closed" => state[a.c] # "closed"
      BY <2>2, <3>2, Zenon
    <3>4. \A n : Pending(n, a.n) => Pending(n, a.n)'
      BY Zenon DEF Pending
    <3>5. \A e \in subs : e.c = a.c => e \in subs'
      BY <2>2, Zenon
    <3> QED BY <1>2, <3>2, <3>3, <3>4, <3>5, SameExpected
  <2> QED BY <2>1, <2>2
<1> QED BY <1>5, <1>6, <1>7, <1>8, Zenon DEF NodeInv, AwaitInv

\* The two commands.
LEMMA UnsubscribeNode ==
    ASSUME SetFacts, MapsInv, NodeInv, NEW c \in Clients,
           NEW cmd \in {"unsubscribe", "punsubscribe", "all", "pall"}, NEW name \in Named,
           Unsubscribe(c, cmd, name)
    PROVE  NodeInv'
<1> DEFINE r == Req(cmd, name, nreq + 1)
<1>1. /\ Sends(c, cmd) /\ awaiting' \in {awaiting, awaiting \cup {[c |-> c, n |-> nreq + 1]}}
      /\ toNode' = toNode \/ toNode' = Append(toNode, r)
      /\ UNCHANGED <<pendingClients, fromNode, nodeSubs, nodePats, published, got>>
  BY DEF Unsubscribe
<1>2. subs' \in SUBSET subs /\ \A e \in subs : e.c # c => e \in subs'
  BY DEF Unsubscribe, RemoveAllSubs, RemoveSub, First
<1>3. \A d \in Clients : d # c => state'[d] = state[d]
  <2>1. state' = [state EXCEPT ![c] = IF clientSubs'[c] = {} THEN "normal" ELSE @]
    BY Zenon DEF Unsubscribe
  <2> QED BY <2>1 DEF MapsInv, Types
<1>4. r \in Request
  <2>1. cmd \in CmdNames
    BY Zenon DEF CmdNames
  <2>2. nreq + 1 \in Nat
    BY DEF MapsInv, Types
  <2> QED BY <2>1, <2>2, RequestType
<1> HIDE DEF r
<1>5. \A x : In(x, toNode) => In(x, toNode')
  <2>1. toNode \in Seq(Request)
    BY DEF MapsInv, Types
  <2>2. \A x : In(x, Append(toNode, r)) <=> In(x, toNode) \/ x = r
    BY <1>4, <2>1, InAppend
  <2> QED BY <1>1, <2>2, Zenon
<1>6. cmd \in {"unsubscribe", "punsubscribe", "all", "pall", "reset"}
  BY Zenon
<1> QED BY <1>1, <1>2, <1>3, <1>5, <1>6, LeaveNode

\* RESET: the client leaves every map and no longer counts as one that only
\* subscribes.
LEMMA ResetNode ==
    ASSUME SetFacts, MapsInv, NodeInv, NEW c \in Clients, Reset(c)
    PROVE  NodeInv'
<1> DEFINE cmd == "reset"
<1>1. /\ cmd \in {"unsubscribe", "punsubscribe", "all", "pall", "reset"} /\ Sends(c, cmd)
      /\ UNCHANGED <<subs, pendingClients, toNode, fromNode, nodeSubs, nodePats, awaiting, published, got>>
      /\ state' = [state EXCEPT ![c] = "normal"]
  BY DEF Reset, nodeVars
<1> HIDE DEF cmd
<1>2. /\ subs' \in SUBSET subs /\ \A e \in subs : e.c # c => e \in subs'
      /\ awaiting' \in {awaiting, awaiting \cup {[c |-> c, n |-> nreq + 1]}}
      /\ \A x : In(x, toNode) => In(x, toNode')
  BY <1>1, Zenon
<1>3. \A d \in Clients : d # c => state'[d] = state[d]
  BY <1>1 DEF MapsInv, Types
<1> QED BY <1>1, <1>2, <1>3, LeaveNode

\* onClientClose: nothing more is claimed for the client, and the others keep
\* their entries.
LEMMA CloseNode ==
    ASSUME SetFacts, MapsInv, NodeInv, NEW c \in Clients, ClientClose(c)
    PROVE  NodeInv'
<1>1. /\ state' = [state EXCEPT ![c] = "closed"]
      /\ UNCHANGED <<pendingClients, toNode, fromNode, nodeSubs, nodePats, nreq, used, awaiting, published, got>>
  BY DEF ClientClose, nodeVars
<1>2. subs' \in SUBSET subs /\ \A e \in subs : e.c # c => e \in subs'
  BY DEF ClientClose, RemoveAllSubs, First
<1>3. NodeTypes'
  <2>1. IsFiniteSet(subs')
    BY <1>2, Zenon DEF SetFacts, NodeInv, NodeTypes
  <2> QED BY <1>1, <2>1, Zenon DEF NodeInv, NodeTypes
<1>4. DeliverInv'
  <2>1. nreq \in Nat /\ nreq' \in Nat /\ nreq <= nreq'
    BY <1>1 DEF MapsInv, Types
  <2> QED BY <1>1, <1>2, <2>1, SameDeliver
<1>5. \A e \in subs' : e.glob => "psubscribe" \in used'[e.c]
  BY <1>1, <1>2, Zenon DEF NodeInv, AwaitInv
<1>6. ASSUME NEW a \in awaiting' PROVE Expected(a)'
  <2>1. a.c \in Clients /\ Expected(a)
    BY <1>1, Zenon DEF NodeInv, NodeTypes, AwaitInv
  <2>2. CASE a.c = c
    <3>1. state'[a.c] = "closed"
      BY <1>1, <2>1, <2>2 DEF MapsInv, Types
    <3> QED BY <3>1, Zenon DEF Expected
  <2>3. CASE a.c # c
    <3>1. state'[a.c] = state[a.c] /\ used[a.c] \subseteq used'[a.c]
      BY <1>1, <2>1, <2>3 DEF MapsInv, Types
    <3>2. \A n : Pending(n, a.n) => Pending(n, a.n)'
      BY <1>1, Zenon DEF Pending
    <3>3. \A e \in subs : e.c = a.c => e \in subs'
      BY <1>2, <2>3, Zenon
    <3> QED BY <2>1, <3>1, <3>2, <3>3, SameExpected
  <2> QED BY <2>2, <2>3
<1> QED BY <1>3, <1>4, <1>5, <1>6, Zenon DEF NodeInv, AwaitInv

\* A step that only moves or adds what is on its way, and publishes nothing.
LEMMA MoveNode ==
    ASSUME MapsInv, NodeInv,
           \A n : \A name : Pending(name, n) => Pending(name, n)',
           UNCHANGED <<subs, state, fromNode, nodeSubs, nodePats, nreq, used, awaiting, published, got>>
    PROVE  NodeInv'
<1>1. NodeTypes'
  BY Zenon DEF NodeInv, NodeTypes
<1>2. DeliverInv'
  <2>1. nreq \in Nat /\ nreq' \in Nat /\ nreq <= nreq'
    BY DEF MapsInv, Types
  <2>2. \A e \in subs' : e \in subs
    BY Zenon
  <2> QED BY <2>1, <2>2, SameDeliver
<1>3. ASSUME NEW a \in awaiting' PROVE Expected(a)'
  <2>1. /\ Expected(a) /\ used[a.c] \subseteq used'[a.c] /\ state'[a.c] = state[a.c]
        /\ \A name : Pending(name, a.n) => Pending(name, a.n)'
        /\ \A e \in subs : e.c = a.c => e \in subs'
    BY Zenon DEF NodeInv, AwaitInv
  <2> QED BY <2>1, SameExpected
<1>4. \A e \in subs' : e.glob => "psubscribe" \in used'[e.c]
  BY Zenon DEF NodeInv, AwaitInv
<1> QED BY <1>1, <1>2, <1>3, <1>4, Zenon DEF NodeInv, AwaitInv

\* onSharedBackendOpen: what waited is on its way, after the hub's own request.
LEMMA OpenNode ==
    ASSUME MapsInv, NodeInv, OnOpen
    PROVE  NodeInv'
<1> DEFINE q == Req("psubscribe", "*", 0)
<1>1. /\ backend = "dialing" /\ toNode' = <<q>> \o pendingClients
      /\ UNCHANGED <<subs, state, fromNode, nodeSubs, nodePats, nreq, used, awaiting, published, got>>
  BY DEF OnOpen
<1>2. q \in Request
  BY DEF Req, Request, CmdNames, Named, Names
<1> HIDE DEF q
<1>3. pendingClients \in Seq(Request) /\ toNode = <<>>
  BY <1>1 DEF MapsInv, Types, Waiting
<1>4. \A x : In(x, <<q>> \o pendingClients) <=> x = q \/ In(x, pendingClients)
  BY <1>2, <1>3, InFlush
<1>5. \A n : \A name : Pending(name, n) => Pending(name, n)'
  BY <1>1, <1>3, <1>4, InEmpty, Zenon DEF Pending
<1> QED BY <1>1, <1>5, MoveNode

\* The dial failed: what waits still waits.
LEMMA DialFailNode ==
    ASSUME MapsInv, NodeInv, DialFail
    PROVE  NodeInv'
<1>1. /\ UNCHANGED <<subs, state, fromNode, nodeSubs, nodePats, nreq, used, awaiting, published, got>>
      /\ UNCHANGED <<pendingClients, toNode>>
  BY DEF DialFail, nodeVars
<1>2. \A n : \A name : Pending(name, n) => Pending(name, n)'
  BY <1>1, Zenon DEF Pending
<1> QED BY <1>1, <1>2, MoveNode

\* onSharedBackendClose: who waits for an acknowledgement has an entry, so that
\* they are told.
LEMMA LossNode ==
    ASSUME SetFacts, NodeInv, OnClose
    PROVE  NodeInv'
<1> DEFINE told == {e.c : e \in subs}
<1>1. /\ subs' = {} /\ fromNode' = <<>> /\ nodeSubs' = {} /\ nodePats' = {}
      /\ awaiting' = {a \in awaiting : a.c \notin told}
      /\ UNCHANGED <<nreq, used, published, got>>
  BY Zenon DEF OnClose
<1>2. state' = [c \in Clients |-> IF c \in told /\ state[c] # "closed" THEN "normal" ELSE state[c]]
  BY Zenon DEF OnClose
<1>3. NodeTypes'
  <2>1. <<>> \in Seq(Message)
    OBVIOUS
  <2> QED BY <1>1, <2>1, Zenon DEF SetFacts, NodeInv, NodeTypes
<1>4. DeliverInv'
  BY <1>1, InEmpty, Zenon DEF NodeInv, DeliverInv
<1>5. ASSUME NEW a \in awaiting' PROVE Expected(a)'
  <2>1. a.c \in Clients /\ Expected(a) /\ a.c \notin told
    BY <1>1 DEF NodeInv, NodeTypes, AwaitInv
  <2>2. state'[a.c] = state[a.c]
    BY <1>2, <2>1
  <2>3. ~(used[a.c] \subseteq {"subscribe"} /\ state[a.c] # "closed")
    BY <2>1, Zenon DEF Expected
  <2> QED BY <1>1, <2>2, <2>3, Zenon DEF Expected
<1> QED BY <1>1, <1>3, <1>4, <1>5, Zenon DEF NodeInv, AwaitInv

\* An entry is written a message if and only if it is one of the entry's copies.
LEMMA TargetCopies ==
    ASSUME NEW m \in Message, m.type \in Pushed, NEW e \in subs, NEW id, Fits(e, published[id].channel),
           m.id = id => m.channel = published[id].channel
    PROVE  m \in Copies(e, id) <=> m.id = id /\ e \in Targets(m)
<1>1. m \in Copies(e, id) <=>
         /\ m.type = "message" \/ (e.glob /\ m.type = "pmessage")
         /\ m.channel = published[id].channel /\ m.id = id
  BY InCopies
<1>2. CASE m.type = "message"
  <2>1. e \in Targets(m) <=> e \in Exact(m.channel) \/ e \in Globs(m.channel)
    BY <1>2 DEF Targets
  <2>2. m.id = id => (e \in Exact(m.channel) \/ e \in Globs(m.channel))
    BY DEF Exact, Globs, Fits
  <2> QED BY <1>1, <1>2, <2>1, <2>2
<1>3. CASE m.type = "pmessage"
  <2>1. e \in Targets(m) <=> e \in Globs(m.channel)
    BY <1>3 DEF Targets
  <2>2. m.id = id => (e \in Globs(m.channel) <=> e.glob)
    BY DEF Globs, Fits
  <2> QED BY <1>1, <1>3, <2>1, <2>2
<1> QED BY <1>2, <1>3 DEF Pushed

\* onSharedBackendTraffic: a copy that counts for an entry is written to it, and
\* no longer to be read.
LEMMA TrafficDeliver ==
    ASSUME SetFacts, MapsInv, NodeInv, OnTraffic
    PROVE  NodeTypes' /\ DeliverInv'
<1> DEFINE h == Head(fromNode)
           t == Tail(fromNode)
           W(c, k) == {e \in Targets(h) : e.c = c /\ k = <<e.name, h.id>>}
           add(c, k) == IF h.type \in Pushed THEN Cardinality(W(c, k)) ELSE 0
           K == Names \X (1..MaxPub)
<1>1. /\ fromNode # <<>> /\ fromNode' = t
      /\ UNCHANGED <<subs, nodeSubs, nodePats, nreq, published>>
  BY Zenon DEF OnTraffic
<1>2. /\ h.type \in Pushed =>
            /\ awaiting' = awaiting
            /\ got' = [c \in Clients |-> [k \in DOMAIN got[c] |-> got[c][k] + Cardinality(W(c, k))]]
      /\ h.type \notin Pushed => got' = got /\ awaiting' \subseteq awaiting
  BY Zenon DEF OnTraffic, Pushed
<1>3. /\ h \in Message /\ fromNode \in Seq(Message) /\ t \in Seq(Message)
      /\ Len(fromNode) = Len(t) + 1 /\ fromNode[1] = h
      /\ \A i \in 1..Len(t) : fromNode[i + 1] = t[i]
      /\ In(h, fromNode) /\ \A x : In(x, t) => In(x, fromNode)
  <2>1. fromNode \in Seq(Message)
    BY DEF NodeInv, NodeTypes
  <2>2. In(h, fromNode) /\ \A x : In(x, t) => In(x, fromNode)
    BY <1>1, <2>1, InTail
  <2> HIDE DEF h, t
  <2>3. /\ h \in Message /\ t \in Seq(Message) /\ Len(fromNode) = Len(t) + 1 /\ fromNode[1] = h
        /\ \A i \in 1..Len(t) : fromNode[i + 1] = t[i]
    BY <1>1, <2>1, HeadTail DEF h, t
  <2> QED BY <2>1, <2>2, <2>3
<1> HIDE DEF h, t
<1>4. Targets(h) \in SUBSET subs
  BY <1>3 DEF Targets, Exact, Globs, Message, Replied, Pushed
<1>5. ASSUME NEW c, NEW k PROVE add(c, k) \in Nat
  <2>1. W(c, k) \in SUBSET subs
    BY <1>4
  <2> HIDE DEF W
  <2>2. Cardinality(W(c, k)) \in Nat
    BY <2>1, Zenon DEF SetFacts, NodeInv, NodeTypes
  <2> QED BY <2>2
<1>6. got \in [Clients -> [K -> Nat]] /\ \A c \in Clients : DOMAIN got[c] = K
  BY Zenon DEF NodeInv, NodeTypes
<1>7. /\ got' \in [Clients -> [K -> Nat]]
      /\ \A c \in Clients, k \in K : got'[c][k] = got[c][k] + add(c, k) /\ got[c][k] \in Nat
  <2> HIDE DEF W, K
  <2>1. CASE h.type \in Pushed
    <3>1. \A c, k : add(c, k) = Cardinality(W(c, k))
      BY <2>1, Zenon
    <3> HIDE DEF add
    <3>2. got' = [c \in Clients |-> [k \in K |-> got[c][k] + add(c, k)]]
      BY <1>2, <1>6, <2>1, <3>1
    <3> QED BY <1>5, <1>6, <3>2
  <2>2. CASE h.type \notin Pushed
    <3>1. got' = got /\ \A c, k : add(c, k) = 0
      BY <1>2, <2>2, Zenon
    <3> HIDE DEF add
    <3> QED BY <1>6, <3>1
  <2> QED BY <2>1, <2>2
<1>8. NodeTypes'
  <2>1. awaiting' \subseteq [c : Clients, n : Nat]
    BY <1>2, Zenon DEF NodeInv, NodeTypes
  <2> QED BY <1>1, <1>3, <1>7, <2>1, Zenon DEF NodeInv, NodeTypes
<1>9. \A id \in 1..Len(published') : published'[id].at <= nreq'
  BY <1>1, Zenon DEF NodeInv, DeliverInv
<1>10. \A m \in Message : In(m, fromNode') /\ m.type \in Pushed =>
            m.id \in 1..Len(published') /\ m.channel = published'[m.id].channel
  BY <1>1, <1>3, Zenon DEF NodeInv, DeliverInv
<1>11. h.type \in Pushed => h.id \in 1..Len(published) /\ h.channel = published[h.id].channel
  BY <1>3, Zenon DEF NodeInv, DeliverInv
<1>12. ASSUME NEW c \in Clients, NEW n \in Names, NEW id \in 1..MaxPub, id > Len(published')
       PROVE  got'[c][<<n, id>>] = 0
  <2>1. got[c][<<n, id>>] = 0
    BY <1>1, <1>12, Zenon DEF NodeInv, DeliverInv
  <2>2. Len(published) \in Nat
    BY DEF NodeInv, NodeTypes
  <2>3. h.type \in Pushed => h.id # id
    BY <1>1, <1>11, <1>12, <2>2
  <2>4. h.type \in Pushed => W(c, <<n, id>>) = {}
    BY <2>3
  <2>5. add(c, <<n, id>>) = 0
    BY <2>4, Zenon DEF SetFacts
  <2>6. <<n, id>> \in K
    BY Zenon
  <2> HIDE DEF add, K
  <2> QED BY <1>7, <2>1, <2>5, <2>6
<1>13. ASSUME NEW e \in subs, NEW id \in 1..Len(published) PROVE Delivered(e, id)'
  <2> DEFINE k == <<e.name, id>>
             T == Copies(e, id)
  <2> SUFFICES ASSUME e.at <= published[id].at, Fits(e, published[id].channel)
               PROVE  got'[e.c][k] + Count(t, T) = Due(e, id)
    BY <1>1, Zenon DEF Delivered, Copies, Due
  <2>1. got[e.c][k] + Count(fromNode, T) = Due(e, id)
    BY Zenon DEF NodeInv, DeliverInv, Delivered
  <2>2. e.c \in Clients /\ k \in K
    <3>1. e \in Entry
      BY DEF MapsInv, Types
    <3>2. id \in 1..MaxPub
      BY HubAssumption DEF NodeInv, NodeTypes
    <3> QED BY <3>1, <3>2 DEF Entry
  <2>3. add(e.c, k) = IF h \in T THEN 1 ELSE 0
    <3>1. h.type \in Pushed => (h \in T <=> h.id = id /\ e \in Targets(h))
      BY <1>3, <1>11, TargetCopies
    <3>2. h.type \in Pushed => W(e.c, k) = IF h \in T THEN {e} ELSE {}
      <4> SUFFICES ASSUME h.type \in Pushed
                   PROVE  \A f : f \in W(e.c, k) <=> h \in T /\ f = e
        <5> HIDE DEF W, T
        <5> QED BY Zenon
      <4>1. \A f \in Targets(h) : f.c = e.c /\ f.name = e.name => f = e
        BY <1>4, Zenon DEF MapsInv, OneEntry
      <4>2. \A f : f \in W(e.c, k) <=> f \in Targets(h) /\ f.c = e.c /\ f.name = e.name /\ h.id = id
        OBVIOUS
      <4> HIDE DEF T, W
      <4> QED BY <3>1, <4>1, <4>2, Zenon
    <3>3. h.type \notin Pushed => h \notin T
      BY <1>3, InCopies DEF Pushed
    <3>4. Cardinality({e}) = 1 /\ Cardinality({}) = 0
      <4>1. {e} = {} \cup {e} /\ e \notin {}
        BY Zenon
      <4>2. Cardinality({} \cup {e}) = Cardinality({}) + 1 /\ Cardinality({}) = 0
        BY <4>1, Zenon DEF SetFacts
      <4> QED BY <4>1, <4>2
    <3> HIDE DEF T, W, k
    <3> QED BY <3>2, <3>3, <3>4
  <2>4. Count(fromNode, T) = Count(t, T) + (IF h \in T THEN 1 ELSE 0)
    <3> HIDE DEF T
    <3> QED BY <1>3, CountFirst
  <2>5. Count(t, T) \in Nat
    <3> HIDE DEF T
    <3> QED BY <1>3, CountNone, Zenon
  <2> HIDE DEF T, k, add, K
  <2>6. got'[e.c][k] = got[e.c][k] + add(e.c, k) /\ got[e.c][k] \in Nat
    BY <1>7, <2>2, Zenon
  <2> QED BY <2>1, <2>3, <2>4, <2>5, <2>6
<1> QED BY <1>1, <1>8, <1>9, <1>10, <1>12, <1>13, Zenon DEF DeliverInv

\* ... and an acknowledgement is written to the client that waits for it, which
\* has an entry of that name.
LEMMA TrafficAwait ==
    ASSUME MapsInv, NodeInv, OnTraffic
    PROVE  AwaitInv'
<1> DEFINE h == Head(fromNode)
           t == Tail(fromNode)
<1>1. /\ fromNode # <<>> /\ fromNode' = t
      /\ UNCHANGED <<subs, state, pendingClients, toNode, used>>
  BY Zenon DEF OnTraffic
<1>2. /\ awaiting' \subseteq awaiting
      /\ h.type = "subscribe" => awaiting' = awaiting \ {[c |-> e.c, n |-> h.id] : e \in Targets(h)}
  BY DEF OnTraffic
<1>3. \A x : In(x, fromNode) <=> x = h \/ In(x, t)
  <2>1. fromNode \in Seq(Message)
    BY DEF NodeInv, NodeTypes
  <2> QED BY <1>1, <2>1, InTail
<1> HIDE DEF h, t
<1>4. ASSUME NEW a \in awaiting' PROVE Expected(a)'
  <2> SUFFICES ASSUME used[a.c] \subseteq {"subscribe"}, state[a.c] # "closed"
               PROVE  \E e \in subs : e.c = a.c /\ ~e.glob /\ Pending(e.name, a.n)'
    BY <1>1, Zenon DEF Expected
  <2>1. a \in awaiting /\ a \in [c : Clients, n : Nat]
    BY <1>2 DEF NodeInv, NodeTypes
  <2>2. PICK e \in subs : e.c = a.c /\ ~e.glob /\ Pending(e.name, a.n)
    BY <2>1, Zenon DEF NodeInv, AwaitInv, Expected
  <2>3. ASSUME h = Msg("subscribe", e.name, a.n) PROVE FALSE
    <3>1. h.type = "subscribe" /\ h.channel = e.name /\ h.id = a.n
      BY <2>3 DEF Msg
    <3>2. Targets(h) = Exact(h.channel)
      BY <3>1 DEF Targets
    <3>3. e \in Targets(h)
      BY <2>2, <3>1, <3>2, Zenon DEF Exact
    <3>4. a = [c |-> e.c, n |-> h.id]
      BY <2>1, <2>2, <3>1
    <3> QED BY <1>2, <3>1, <3>3, <3>4, Zenon
  <2>4. Pending(e.name, a.n)'
    BY <1>1, <1>3, <2>2, <2>3, Zenon DEF Pending
  <2> QED BY <2>2, <2>4, Zenon
<1> QED BY <1>1, <1>4, Zenon DEF NodeInv, AwaitInv

\* The node's replies to a command: none is a message, and SUBSCRIBE has one that
\* carries its name and number.
LEMMA AcksType ==
    ASSUME SetFacts, NEW r \in Request, NEW acks \in Acks(r), IsFiniteSet(nodeSubs), nodeSubs \subseteq Named
    PROVE  /\ acks \in Seq(Message) /\ \A j \in 1..Len(acks) : acks[j].type \in Replied
           /\ r.cmd = "subscribe" => acks = <<Msg(r.cmd, r.name, r.n)>>
<1>1. CASE r.cmd # "all"
  <2> DEFINE m == Msg(r.cmd, r.name, r.n)
             e == Msg("error", "", r.n)
             p == Msg("punsubscribe", "", r.n)
  <2>1. /\ r.cmd \in {"subscribe", "psubscribe", "unsubscribe", "punsubscribe"} =>
             m \in Message /\ m.type \in Replied
        /\ e \in Message /\ e.type \in Replied /\ p \in Message /\ p.type \in Replied
    BY Zenon DEF Msg, Message, Request, Replied, Named
  <2>2. /\ r.cmd = "bare" => acks = <<e>>
        /\ r.cmd = "pall" => acks = <<p>>
        /\ r.cmd \notin {"bare", "pall"} => acks = <<m>>
    BY <1>1, Zenon DEF Acks
  <2>3. r.cmd \notin {"bare", "pall"} => r.cmd \in {"subscribe", "psubscribe", "unsubscribe", "punsubscribe"}
    BY <1>1 DEF Request, CmdNames
  <2>4. PICK x \in Message : acks = <<x>> /\ x.type \in Replied
    <3> HIDE DEF m, e, p
    <3> QED BY <2>1, <2>2, <2>3, Zenon
  <2> HIDE DEF m, e, p
  <2>5. acks \in Seq(Message) /\ \A j \in 1..Len(acks) : acks[j].type \in Replied
    BY <2>4
  <2>6. r.cmd = "subscribe" => acks = <<m>>
    BY <2>2
  <2> QED BY <2>5, <2>6 DEF m
<1>2. CASE r.cmd = "all"
  <2> DEFINE all == {Msg("unsubscribe", ch, r.n) : ch \in nodeSubs}
             n == Cardinality(nodeSubs)
  <2>1. n \in Nat
    BY Zenon DEF SetFacts
  <2>2. \A m \in all : m \in Message /\ m.type \in Replied
    BY DEF Msg, Message, Replied, Request
  <2>3. acks \in [1..n -> all]
    BY <1>2 DEF Acks
  <2> HIDE DEF all, n
  <2>4. acks \in Seq(all) /\ Len(acks) = n
    BY <2>1, <2>3
  <2> QED BY <1>2, <2>2, <2>3, <2>4
<1> QED BY <1>1, <1>2, Zenon

\* The node writes more: what was unread is, and what waits for a reply.
LEMMA GrownAwait ==
    ASSUME NodeInv, \A n : \A name : Pending(name, n) => Pending(name, n)',
           UNCHANGED <<subs, state, used, awaiting>>
    PROVE  AwaitInv'
<1>1. ASSUME NEW a \in awaiting' PROVE Expected(a)'
  <2>1. /\ Expected(a) /\ used[a.c] \subseteq used'[a.c] /\ state'[a.c] = state[a.c]
        /\ \A name : Pending(name, a.n) => Pending(name, a.n)'
        /\ \A e \in subs : e.c = a.c => e \in subs'
    BY Zenon DEF NodeInv, AwaitInv
  <2> QED BY <2>1, SameExpected
<1> QED BY <1>1, Zenon DEF NodeInv, AwaitInv

\* The node runs a command: the request for a client's name becomes the reply
\* for it, and no message is among the replies.
LEMMA NodeNode ==
    ASSUME SetFacts, MapsInv, NodeInv, NodeStep
    PROVE  NodeInv'
<1> DEFINE h == Head(toNode)
           t == Tail(toNode)
<1>1. /\ toNode # <<>> /\ toNode' = t
      /\ UNCHANGED <<subs, state, pendingClients, nreq, used, awaiting, published, got>>
  BY DEF NodeStep
<1>2. PICK acks \in Acks(h) : fromNode' = fromNode \o acks
  BY Zenon DEF NodeStep
<1>3. /\ nodeSubs' \in {nodeSubs \cup {h.name}, nodeSubs \ {h.name}, {}, nodeSubs}
      /\ nodePats' \in {nodePats \cup {h.name}, nodePats \ {h.name}, {}, nodePats}
  BY DEF NodeStep
<1>4. h \in Request /\ \A x : In(x, toNode) <=> x = h \/ In(x, t)
  <2>1. toNode \in Seq(Request)
    BY DEF MapsInv, Types
  <2> QED BY <1>1, <2>1, InTail
<1> HIDE DEF h, t
<1>5. /\ acks \in Seq(Message) /\ \A j \in 1..Len(acks) : acks[j].type \in Replied
      /\ h.cmd = "subscribe" => acks = <<Msg(h.cmd, h.name, h.n)>>
  BY <1>4, AcksType, Zenon DEF NodeInv, NodeTypes
<1> DEFINE f == fromNode \o acks
<1>6. /\ f \in Seq(Message) /\ fromNode \in Seq(Message) /\ Len(fromNode) <= Len(f)
      /\ \A i \in 1..Len(fromNode) : f[i] = fromNode[i]
      /\ \A i \in Len(fromNode) + 1..Len(f) : f[i].type \notin Pushed
  <2>1. fromNode \in Seq(Message)
    BY DEF NodeInv, NodeTypes
  <2>2. /\ f \in Seq(Message) /\ Len(fromNode) <= Len(f)
        /\ \A i \in 1..Len(fromNode) : f[i] = fromNode[i]
        /\ \A i \in Len(fromNode) + 1..Len(f) : \E j \in 1..Len(acks) : f[i] = acks[j]
    BY <1>5, <2>1, Concat
  <2>3. \A x \in Replied : x \notin Pushed
    BY DEF Replied, Pushed
  <2> HIDE DEF f
  <2>4. ASSUME NEW i \in Len(fromNode) + 1..Len(f) PROVE f[i].type \notin Pushed
    <3>1. PICK j \in 1..Len(acks) : f[i] = acks[j]
      BY <2>2, Zenon
    <3> QED BY <1>5, <2>3, <3>1, Zenon
  <2> QED BY <2>1, <2>2, <2>4, Zenon
<1>7. h.cmd = "subscribe" => In(Msg("subscribe", h.name, h.n), f)
  <2> SUFFICES ASSUME h.cmd = "subscribe" PROVE In(Msg("subscribe", h.name, h.n), f)
    OBVIOUS
  <2> DEFINE m == Msg(h.cmd, h.name, h.n)
  <2>1. fromNode \in Seq(Message) /\ acks = <<m>>
    BY <1>5, Zenon DEF NodeInv, NodeTypes
  <2>2. m \in Message
    BY <1>4 DEF Msg, Message, Request, Replied
  <2> HIDE DEF m
  <2>3. /\ Len(fromNode \o <<m>>) = Len(fromNode) + 1 /\ Len(fromNode) \in Nat
        /\ (fromNode \o <<m>>)[Len(fromNode) + 1] = m
    BY <2>1, <2>2, ConcatOne
  <2>4. Len(f) = Len(fromNode) + 1 /\ f[Len(fromNode) + 1] = m
    BY <2>1, <2>3, Zenon
  <2> HIDE DEF f
  <2>5. In(m, f)
    BY <2>3, <2>4 DEF In
  <2> QED BY <2>5, Zenon DEF m
<1>8. fromNode' = f
  BY <1>2
<1> HIDE DEF f
<1>9. NodeTypes'
  <2>1. IsFiniteSet(nodeSubs') /\ IsFiniteSet(nodePats')
    <3>1. /\ IsFiniteSet(nodeSubs \cup {h.name}) /\ IsFiniteSet(nodeSubs \ {h.name}) /\ IsFiniteSet({})
          /\ IsFiniteSet(nodePats \cup {h.name}) /\ IsFiniteSet(nodePats \ {h.name})
          /\ IsFiniteSet(nodeSubs) /\ IsFiniteSet(nodePats)
      BY Zenon DEF SetFacts, NodeInv, NodeTypes
    <3> QED BY <1>3, <3>1, Zenon
  <2>2. nodeSubs' \subseteq Named
    <3>1. h.name \in Named
      BY <1>4 DEF Request
    <3> QED BY <1>3, <3>1, Zenon DEF NodeInv, NodeTypes
  <2> QED BY <1>1, <1>6, <1>8, <2>1, <2>2, Zenon DEF NodeInv, NodeTypes
<1>10. DeliverInv'
  <2>1. \A m : In(m, f) /\ m.type \in Pushed => In(m, fromNode)
    <3> SUFFICES ASSUME NEW i \in 1..Len(f), f[i].type \in Pushed PROVE In(f[i], fromNode)
      BY Zenon DEF In
    <3>1. Len(fromNode) \in Nat /\ Len(f) \in Nat
      BY <1>6
    <3>2. i \in 1..Len(fromNode)
      BY <1>6, <3>1
    <3> QED BY <1>6, <3>2 DEF In
  <2>2. ASSUME NEW e \in subs, NEW id \in 1..Len(published) PROVE Delivered(e, id)'
    <3> DEFINE T == Copies(e, id)
    <3>1. ASSUME NEW i \in Len(fromNode) + 1..Len(f) PROVE f[i] \notin T
      <4>1. f[i] \in Message /\ f[i].type \notin Pushed
        <5>1. Len(fromNode) \in Nat /\ Len(f) \in Nat
          BY <1>6
        <5> QED BY <1>6, <5>1
      <4> QED BY <4>1, InCopies DEF Pushed
    <3> HIDE DEF T
    <3>2. Count(f, T) = Count(fromNode, T)
      BY <1>6, <3>1, CountSame
    <3>3. Count(fromNode, Copies(e, id))' = Count(fromNode, Copies(e, id)) /\ Due(e, id)' = Due(e, id)
      BY <1>1, <1>8, <3>2, Zenon DEF T, Copies, Due
    <3>4. Delivered(e, id)
      BY Zenon DEF NodeInv, DeliverInv
    <3> QED BY <1>1, <3>3, <3>4, Zenon DEF Delivered
  <2>3. \A m \in Message : In(m, fromNode') /\ m.type \in Pushed =>
             m.id \in 1..Len(published') /\ m.channel = published'[m.id].channel
    BY <1>1, <1>8, <2>1, Zenon DEF NodeInv, DeliverInv
  <2>4. /\ \A id \in 1..Len(published') : published'[id].at <= nreq'
        /\ \A c \in Clients, n \in Names, id \in 1..MaxPub : id > Len(published') => got'[c][<<n, id>>] = 0
    BY <1>1, Zenon DEF NodeInv, DeliverInv
  <2> QED BY <1>1, <2>2, <2>3, <2>4, Zenon DEF DeliverInv
<1>11. AwaitInv'
  <2>1. \A x : In(x, fromNode) => In(x, f)
    <3>1. Len(fromNode) \in Nat /\ Len(f) \in Nat
      BY <1>6
    <3> QED BY <1>6, <3>1, InGrown
  <2>2. ASSUME NEW n, NEW name, h = Req("subscribe", name, n) PROVE In(Msg("subscribe", name, n), f)
    <3>1. h.cmd = "subscribe" /\ h.name = name /\ h.n = n
      BY <2>2 DEF Req
    <3> QED BY <1>7, <3>1, Zenon
  <2>3. \A n : \A name : Pending(name, n) => Pending(name, n)'
    BY <1>1, <1>4, <1>8, <2>1, <2>2, Zenon DEF Pending
  <2> QED BY <1>1, <2>3, GrownAwait
<1> QED BY <1>9, <1>10, <1>11 DEF NodeInv

\* What the node writes of a published message: the copies that are counted in
\* what the history keeps of it.
LEMMA PublishedCopies ==
    ASSUME SetFacts, NodeInv, NEW channel \in Channels, Publish(channel)
    PROVE  \E id \in Nat, exact \in {0, 1}, pats \in Nat, base \in Seq(Message) :
              /\ id = Len(published) + 1 /\ id <= MaxPub
              /\ published' = Append(published, [channel |-> channel, exact |-> exact, pats |-> pats, at |-> nreq])
              /\ Len(base) = Len(fromNode) + exact
              /\ \A i \in 1..Len(fromNode) : base[i] = fromNode[i]
              /\ exact = 1 => base[Len(fromNode) + 1] = Msg("message", channel, id)
              /\ fromNode' \in Seq(Message) /\ Len(fromNode') = Len(base) + pats
              /\ \A i \in 1..Len(base) : fromNode'[i] = base[i]
              /\ \A i \in Len(base) + 1..Len(fromNode') : fromNode'[i] = Msg("pmessage", channel, id)
<1> DEFINE id == Len(published) + 1
           P == {x \in nodePats : GlobMatch(x, channel)}
           pats == Cardinality(P)
           exact == IF channel \in nodeSubs THEN 1 ELSE 0
           m == Msg("message", channel, id)
           p == Msg("pmessage", channel, id)
           run == [i \in 1..pats |-> p]
           base == IF channel \in nodeSubs THEN Append(fromNode, m) ELSE fromNode
           f == base \o run
<1>1. /\ fromNode' = f /\ Len(published) < MaxPub
      /\ published' = Append(published, [channel |-> channel, exact |-> exact, pats |-> pats, at |-> nreq])
  BY Zenon DEF Publish
<1>2. fromNode \in Seq(Message) /\ Len(published) \in Nat
  BY DEF NodeInv, NodeTypes
<1>3. id \in Nat /\ id <= MaxPub
  BY <1>1, <1>2, HubAssumption
<1>4. m \in Message /\ p \in Message
  <2>1. channel \in Named
    BY Zenon DEF Named, Names
  <2> QED BY <1>3, <2>1, Zenon DEF Msg, Message, Pushed
<1>5. pats \in Nat
  <2>1. P \in SUBSET nodePats
    BY Zenon
  <2> HIDE DEF P
  <2> QED BY <2>1, Zenon DEF SetFacts, NodeInv, NodeTypes
<1> HIDE DEF id, P, pats, m, p
<1>6. run \in Seq(Message) /\ Len(run) = pats /\ \A j \in 1..Len(run) : run[j] = p
  BY <1>4, <1>5
<1> HIDE DEF run
<1>7. /\ base \in Seq(Message) /\ exact \in {0, 1} /\ Len(base) = Len(fromNode) + exact
      /\ \A i \in 1..Len(fromNode) : base[i] = fromNode[i]
      /\ exact = 1 => base[Len(fromNode) + 1] = m
  BY <1>2, <1>4
<1> HIDE DEF base, exact
<1>8. /\ f \in Seq(Message) /\ Len(f) = Len(base) + Len(run)
      /\ \A i \in 1..Len(base) : f[i] = base[i]
  <2>1. base \in Seq(Message) /\ run \in Seq(Message)
    BY <1>6, <1>7, Zenon
  <2> QED BY <2>1
<1>9. \A i \in Len(base) + 1..Len(f) : f[i] = p
  <2>1. \A i \in Len(base) + 1..Len(f) : \E j \in 1..Len(run) : f[i] = run[j]
    <3>1. base \in Seq(Message) /\ run \in Seq(Message)
      BY <1>6, <1>7, Zenon
    <3> QED BY <3>1, Concat
  <2> HIDE DEF f
  <2> QED BY <1>6, <2>1, Zenon
<1> HIDE DEF f
<1>10. /\ id \in Nat /\ exact \in {0, 1} /\ pats \in Nat /\ base \in Seq(Message)
       /\ id = Len(published) + 1 /\ id <= MaxPub
       /\ published' = Append(published, [channel |-> channel, exact |-> exact, pats |-> pats, at |-> nreq])
       /\ Len(base) = Len(fromNode) + exact
       /\ \A i \in 1..Len(fromNode) : base[i] = fromNode[i]
       /\ exact = 1 => base[Len(fromNode) + 1] = Msg("message", channel, id)
       /\ fromNode' \in Seq(Message) /\ Len(fromNode') = Len(base) + pats
       /\ \A i \in 1..Len(base) : fromNode'[i] = base[i]
       /\ \A i \in Len(base) + 1..Len(fromNode') : fromNode'[i] = Msg("pmessage", channel, id)
  <2>1. id = Len(published) + 1
    BY DEF id
  <2>2. Len(fromNode') = Len(base) + pats
    BY <1>1, <1>6, <1>8, Zenon
  <2>3. m = Msg("message", channel, id) /\ p = Msg("pmessage", channel, id)
    BY DEF m, p
  <2> QED BY <1>1, <1>3, <1>5, <1>7, <1>8, <1>9, <2>1, <2>2, <2>3, Zenon
<1> QED BY <1>10, Zenon

\* A message is published: it has a new number, nothing of it was written, and
\* the node sends each entry's copies; nothing is acknowledged by them.
LEMMA PublishNode ==
    ASSUME SetFacts, MapsInv, NodeInv, NEW channel \in Channels, Publish(channel)
    PROVE  NodeInv'
<1>1. PICK id \in Nat, exact \in {0, 1}, pats \in Nat, base \in Seq(Message) :
              /\ id = Len(published) + 1 /\ id <= MaxPub
              /\ published' = Append(published, [channel |-> channel, exact |-> exact, pats |-> pats, at |-> nreq])
              /\ Len(base) = Len(fromNode) + exact
              /\ \A i \in 1..Len(fromNode) : base[i] = fromNode[i]
              /\ exact = 1 => base[Len(fromNode) + 1] = Msg("message", channel, id)
              /\ fromNode' \in Seq(Message) /\ Len(fromNode') = Len(base) + pats
              /\ \A i \in 1..Len(base) : fromNode'[i] = base[i]
              /\ \A i \in Len(base) + 1..Len(fromNode') : fromNode'[i] = Msg("pmessage", channel, id)
  BY PublishedCopies, Zenon
<1> DEFINE f == fromNode'
           new == [channel |-> channel, exact |-> exact, pats |-> pats, at |-> nreq]
           m == Msg("message", channel, id)
           p == Msg("pmessage", channel, id)
<1>2. UNCHANGED <<subs, state, pendingClients, toNode, nodeSubs, nodePats, nreq, used, awaiting, got>>
  BY DEF Publish
<1>3. /\ new \in Published /\ new.channel = channel /\ new.exact = exact /\ new.pats = pats /\ new.at = nreq
      /\ nreq \in Nat
  BY DEF Published, MapsInv, Types
<1>4. /\ m \in Message /\ m.type = "message" /\ m.channel = channel /\ m.id = id
      /\ p \in Message /\ p.type = "pmessage" /\ p.channel = channel /\ p.id = id
  <2>1. channel \in Named
    BY Zenon DEF Named, Names
  <2> QED BY <2>1 DEF Msg, Message, Pushed
<1> HIDE DEF new, m, p
<1>5. /\ published' \in Seq(Published) /\ Len(published') = id /\ published'[id] = new
      /\ \A i \in 1..Len(published) : published'[i] = published[i]
  <2>1. published \in Seq(Published) /\ published' = Append(published, new) /\ id = Len(published) + 1
    BY <1>1, Zenon DEF new, NodeInv, NodeTypes
  <2> QED BY <1>3, <2>1
<1>6. /\ fromNode \in Seq(Message) /\ f \in Seq(Message) /\ base \in Seq(Message)
      /\ Len(fromNode) \in Nat /\ Len(base) \in Nat /\ Len(f) \in Nat
      /\ Len(published) \in Nat
  <2>1. /\ fromNode \in Seq(Message) /\ f \in Seq(Message) /\ base \in Seq(Message)
        /\ published \in Seq(Published)
    BY <1>1, Zenon DEF NodeInv, NodeTypes
  <2> HIDE DEF f
  <2> QED BY <2>1
<1>id. id = Len(published) + 1 /\ id <= MaxPub /\ Len(published) \in Nat /\ Len(published') = id
  BY <1>1, <1>5, <1>6, Zenon
<1>7. /\ Len(fromNode) <= Len(f) /\ \A i \in 1..Len(fromNode) : f[i] = fromNode[i]
      /\ \A i \in Len(fromNode) + 1..Len(f) : f[i] = m \/ f[i] = p
  <2>1. /\ Len(base) = Len(fromNode) + exact /\ Len(f) = Len(base) + pats
        /\ \A i \in 1..Len(fromNode) : base[i] = fromNode[i]
        /\ \A i \in 1..Len(base) : f[i] = base[i]
        /\ exact = 1 => base[Len(fromNode) + 1] = m
        /\ \A i \in Len(base) + 1..Len(f) : f[i] = p
    BY <1>1, Zenon DEF m, p
  <2>2. Len(fromNode) <= Len(f) /\ \A i \in 1..Len(fromNode) : f[i] = fromNode[i]
    BY <1>6, <2>1
  <2>3. ASSUME NEW i \in Len(fromNode) + 1..Len(f) PROVE f[i] = m \/ f[i] = p
    <3>1. CASE i \in Len(base) + 1..Len(f)
      BY <2>1, <3>1, Zenon
    <3>2. CASE i \notin Len(base) + 1..Len(f)
      <4>1. i = Len(fromNode) + 1 /\ exact = 1 /\ i \in 1..Len(base)
        BY <1>6, <2>1, <3>2
      <4> QED BY <2>1, <4>1
    <3> QED BY <3>1, <3>2
  <2> QED BY <2>2, <2>3
<1>8. NodeTypes'
  <2>1. Len(published') <= MaxPub
    BY <1>1, <1>5, Zenon
  <2> QED BY <1>2, <1>5, <1>6, <2>1, Zenon DEF NodeInv, NodeTypes
<1>9. \A x : In(x, f) => In(x, fromNode) \/ x = m \/ x = p
  <2> SUFFICES ASSUME NEW i \in 1..Len(f) PROVE In(f[i], fromNode) \/ f[i] = m \/ f[i] = p
    BY Zenon DEF In
  <2>1. CASE i \in 1..Len(fromNode)
    BY <1>7, <2>1 DEF In
  <2>2. CASE i \in Len(fromNode) + 1..Len(f)
    BY <1>7, <2>2, Zenon
  <2> QED BY <1>6, <2>1, <2>2
<1>10. \A x \in Message : In(x, fromNode) /\ x.type \in Pushed =>
             x.id \in 1..Len(published) /\ x.channel = published[x.id].channel
  BY Zenon DEF NodeInv, DeliverInv
<1>11. DeliverInv'
  <2>1. \A i \in 1..Len(published') : published'[i].at <= nreq'
    <3>1. \A i \in 1..Len(published) : published[i].at <= nreq
      BY Zenon DEF NodeInv, DeliverInv
    <3>2. \A i \in 1..Len(published') : i \in 1..Len(published) \/ i = id
      BY <1>id
    <3>3. nreq <= nreq
      BY <1>3
    <3> QED BY <1>2, <1>3, <1>5, <3>1, <3>2, <3>3, Zenon
  <2>2. ASSUME NEW x \in Message, In(x, fromNode'), x.type \in Pushed
        PROVE  x.id \in 1..Len(published') /\ x.channel = published'[x.id].channel
    <3>1. CASE In(x, fromNode)
      <4>1. x.id \in 1..Len(published) /\ x.channel = published[x.id].channel
        BY <1>10, <2>2, <3>1, Zenon
      <4>2. x.id \in 1..Len(published')
        BY <1>id, <4>1
      <4> QED BY <1>5, <4>1, <4>2, Zenon
    <3>2. CASE x = m \/ x = p
      <4>1. id \in 1..Len(published')
        BY <1>id
      <4>2. x.id = id /\ x.channel = channel
        BY <1>4, <3>2, Zenon
      <4> QED BY <1>3, <1>5, <4>1, <4>2, Zenon
    <3> QED BY <1>9, <2>2, <3>1, <3>2, Zenon
  <2>3. ASSUME NEW c \in Clients, NEW n \in Names, NEW i \in 1..MaxPub, i > Len(published')
        PROVE  got'[c][<<n, i>>] = 0
    <3>1. i > Len(published)
      BY <1>id, <2>3
    <3> QED BY <1>2, <3>1, Zenon DEF NodeInv, DeliverInv
  <2>4. ASSUME NEW e \in subs, NEW i \in 1..Len(published) PROVE Delivered(e, i)'
    <3> DEFINE T == Copies(e, i)
    <3>1. published'[i] = published[i] /\ i # id
      BY <1>5, <1>id
    <3>2. m \notin T /\ p \notin T
      <4>1. \A x \in Message : x \in T => x.id = i
        BY InCopies
      <4> QED BY <1>4, <3>1, <4>1, Zenon
    <3>3. Count(fromNode, Copies(e, i))' = Count(f, T) /\ Due(e, i)' = Due(e, i)
      BY <3>1, Zenon DEF Copies, Due
    <3> HIDE DEF T
    <3>4. Count(f, T) = Count(fromNode, T)
      <4>1. \A j \in Len(fromNode) + 1..Len(f) : f[j] \notin T
        BY <1>7, <3>2, Zenon
      <4> HIDE DEF f
      <4> QED BY <1>6, <1>7, <4>1, CountSame
    <3>5. Delivered(e, i)
      BY Zenon DEF NodeInv, DeliverInv
    <3>6. e.at <= published[i].at /\ Fits(e, published[i].channel) =>
             got[e.c][<<e.name, i>>] + Count(fromNode, T) = Due(e, i)
      BY <3>5, Zenon DEF Delivered, T
    <3> QED BY <1>2, <3>1, <3>3, <3>4, <3>6, Zenon DEF Delivered
  <2>5. ASSUME NEW e \in subs PROVE Delivered(e, id)'
    <3> DEFINE T == [type : IF e.glob THEN {"message", "pmessage"} ELSE {"message"},
                     channel : {channel}, id : {id}]
    <3>1. Copies(e, id)' = T /\ Due(e, id)' = exact + (IF e.glob THEN pats ELSE 0)
      BY <1>3, <1>5, Zenon DEF Copies, Due
    <3>2. m \in T /\ (p \in T <=> e.glob)
      BY DEF m, p, Msg
    <3>3. \A j \in 1..Len(fromNode) : fromNode[j] \notin T
      <4> SUFFICES ASSUME NEW j \in 1..Len(fromNode), fromNode[j] \in T PROVE FALSE
        OBVIOUS
      <4>1. fromNode[j] \in Message /\ In(fromNode[j], fromNode)
        BY <1>6 DEF In
      <4>2. fromNode[j].type \in Pushed /\ fromNode[j].id = id
        BY DEF Pushed
      <4>3. id \in 1..Len(published)
        BY <1>10, <4>1, <4>2, Zenon
      <4> QED BY <1>id, <4>3
    <3> HIDE DEF T
    <3>4. Count(fromNode, T) = 0
      BY <3>3, CountZero
    <3>5. Count(base, T) = exact
      <4>1. CASE exact = 0
        <5>1. \A j \in 1..Len(base) : base[j] \notin T
          <6>1. /\ Len(base) = Len(fromNode) + exact
                /\ \A j \in 1..Len(fromNode) : base[j] = fromNode[j]
            BY <1>1, Zenon
          <6> QED BY <1>6, <3>3, <4>1, <6>1
        <5>2. Count(base, T) = 0
          BY <5>1, CountZero
        <5> QED BY <4>1, <5>2
      <4>2. CASE exact = 1
        <5>1. /\ Len(base) = Len(fromNode) + 1 /\ base[Len(fromNode) + 1] = m
              /\ \A j \in 1..Len(fromNode) : base[j] = fromNode[j]
          BY <1>1, <4>2, Zenon DEF m
        <5>2. Count(base, T) = Count(fromNode, T) + (IF m \in T THEN 1 ELSE 0)
          BY <1>6, <5>1, CountLast
        <5> QED BY <3>2, <3>4, <4>2, <5>2
      <4> QED BY <4>1, <4>2
    <3>6. Count(f, T) = exact + (IF e.glob THEN pats ELSE 0)
      <4>1. /\ Len(f) = Len(base) + pats /\ Len(base) <= Len(f)
            /\ \A j \in 1..Len(base) : f[j] = base[j]
            /\ \A j \in Len(base) + 1..Len(f) : f[j] = p
        <5>1. /\ Len(f) = Len(base) + pats
              /\ \A j \in 1..Len(base) : f[j] = base[j]
              /\ \A j \in Len(base) + 1..Len(f) : f[j] = p
          BY <1>1, Zenon DEF p
        <5> QED BY <1>6, <5>1
      <4> HIDE DEF f
      <4>2. CASE e.glob
        <5>1. \A j \in Len(base) + 1..Len(f) : f[j] \in T
          BY <3>2, <4>1, <4>2, Zenon
        <5>2. Count(f, T) = Count(base, T) + pats
          <6>1. /\ SetFacts /\ pats \in Nat /\ base \in Seq(Message) /\ f \in Seq(Message)
                /\ Len(f) = Len(base) + pats /\ \A j \in 1..Len(base) : f[j] = base[j]
                /\ \A j \in Len(base) + 1..Len(f) : f[j] \in T
            BY <1>6, <4>1, <5>1, Zenon
          <6> QED BY <6>1, CountRun
        <5> QED BY <3>5, <4>2, <5>2, Zenon
      <4>3. CASE ~e.glob
        <5>1. \A j \in Len(base) + 1..Len(f) : f[j] \notin T
          BY <3>2, <4>1, <4>3, Zenon
        <5>2. Count(f, T) = Count(base, T)
          BY <1>6, <4>1, <5>1, CountSame
        <5> QED BY <3>5, <4>3, <5>2
      <4> QED BY <4>2, <4>3
    <3>7. got'[e.c][<<e.name, id>>] = 0
      <4>1. e.c \in Clients /\ e.name \in Names
        BY DEF MapsInv, Types, Entry
      <4>2. id \in 1..MaxPub /\ id > Len(published)
        BY <1>id, HubAssumption
      <4> QED BY <1>2, <4>1, <4>2, Zenon DEF NodeInv, DeliverInv
    <3>8. Count(fromNode, Copies(e, id))' = Count(f, T)
      BY <3>1, Zenon
    <3>9. got'[e.c][<<e.name, id>>] + Count(f, T) = exact + (IF e.glob THEN pats ELSE 0)
      BY <3>6, <3>7
    <3> QED BY <3>1, <3>8, <3>9, Zenon DEF Delivered
  <2>6. ASSUME NEW e \in subs', NEW i \in 1..Len(published') PROVE Delivered(e, i)'
    <3>1. e \in subs /\ (i \in 1..Len(published) \/ i = id)
      BY <1>2, <1>id
    <3> QED BY <2>4, <2>5, <3>1, Zenon
  <2> QED BY <2>1, <2>2, <2>3, <2>6, Zenon DEF DeliverInv
<1>12. AwaitInv'
  <2>1. \A x : In(x, fromNode) => In(x, f)
    BY <1>6, <1>7, InGrown, Zenon
  <2>2. \A n : \A name : Pending(name, n) => Pending(name, n)'
    BY <1>2, <2>1, Zenon DEF Pending
  <2> QED BY <1>2, <2>2, GrownAwait
<1> QED BY <1>8, <1>11, <1>12 DEF NodeInv

\* What clients send keeps the invariant.
LEMMA ClientNode ==
    ASSUME SetFacts, MapsInv, NodeInv, NEW c \in Clients
    PROVE  /\ \A name \in Channels : Subscribe(c, "subscribe", name) => NodeInv'
           /\ \A name \in Names : Subscribe(c, "psubscribe", name) => NodeInv'
           /\ Subscribe(c, "bare", "") => NodeInv'
           /\ \A name \in Channels : Unsubscribe(c, "unsubscribe", name) => NodeInv'
           /\ \A name \in Names : Unsubscribe(c, "punsubscribe", name) => NodeInv'
           /\ \A cmd \in {"all", "pall"} : Unsubscribe(c, cmd, "") => NodeInv'
<1>1. \A cmd \in {"subscribe", "psubscribe", "bare"}, name \in Named : Subscribe(c, cmd, name) => NodeInv'
  BY SubscribeNode
<1>2. \A cmd \in {"unsubscribe", "punsubscribe", "all", "pall"}, name \in Named :
         Unsubscribe(c, cmd, name) => NodeInv'
  BY UnsubscribeNode
<1>3. Channels \subseteq Names /\ Names \subseteq Named /\ "" \in Named
  BY Zenon DEF Names, Named
<1> QED BY <1>1, <1>2, <1>3, Zenon

\* Every step keeps what is claimed of the node's replies and messages.
LEMMA NextNode ==
    ASSUME SetFacts, MapsInv, NodeInv, [Next]_vars
    PROVE  NodeInv'
<1>1. ASSUME NEW c \in Clients,
             \/ \E name \in Channels : Subscribe(c, "subscribe", name)
                                       \/ Unsubscribe(c, "unsubscribe", name)
             \/ \E name \in Names : Subscribe(c, "psubscribe", name)
                                    \/ Unsubscribe(c, "punsubscribe", name)
             \/ Subscribe(c, "bare", "")
             \/ Unsubscribe(c, "all", "") \/ Unsubscribe(c, "pall", "")
      PROVE  NodeInv'
  BY <1>1, ClientNode, Zenon
<1>2. ASSUME NEW c \in Clients, Reset(c) \/ ClientClose(c)
      PROVE  NodeInv'
  BY <1>2, ResetNode, CloseNode
<1>3. CASE OnTraffic
  BY <1>3, TrafficDeliver, TrafficAwait DEF NodeInv
<1>4. ASSUME NEW channel \in Channels, Publish(channel)
      PROVE  NodeInv'
  BY <1>4, PublishNode
<1>5. CASE UNCHANGED vars
  <2>1. /\ UNCHANGED <<subs, state, fromNode, nodeSubs, nodePats, nreq, used, awaiting, published, got>>
        /\ UNCHANGED <<pendingClients, toNode>>
    BY <1>5 DEF vars
  <2>2. \A n : \A name : Pending(name, n) => Pending(name, n)'
    BY <2>1, Zenon DEF Pending
  <2> QED BY <2>1, <2>2, MoveNode
<1> QED
  BY <1>1, <1>2, <1>3, <1>4, <1>5, OpenNode, DialFailNode, LossNode, NodeNode, Zenon DEF Next

------------------------------------------------------------------------------
\* The facts about finite sets, and what follows.

Sets == INSTANCE FiniteSetTheorems

\* A bijection between finite sets.
LEMMA SameSize ==
    ASSUME NEW S, NEW T, NEW f \in [S -> T], IsFiniteSet(S),
           \A x, y \in S : f[x] = f[y] => x = y,
           \A z \in T : \E x \in S : f[x] = z
    PROVE  IsFiniteSet(T) /\ Cardinality(T) = Cardinality(S)
<1>1. \A U : Sets!Cardinality(U) = Cardinality(U)
  BY DEF Sets!Cardinality, Cardinality
<1>2. \A U : Sets!IsFiniteSet(U) <=> IsFiniteSet(U)
  BY DEF Sets!IsFiniteSet, IsFiniteSet
<1>3. f \in Sets!Bijection(S, T)
  BY Zenon DEF Sets!Bijection, Sets!Injection, Sets!Surjection, Sets!IsInjective
<1>4. Sets!ExistsBijection(S, T)
  BY <1>3, Zenon DEF Sets!ExistsBijection
<1>5. Sets!IsFiniteSet(T) /\ Sets!Cardinality(T) = Sets!Cardinality(S)
  BY <1>2, <1>4, Sets!FS_Bijection
<1> QED BY <1>1, <1>2, <1>5, Zenon

\* What the library says of finite sets, in the operators of this module.
LEMMA FiniteFacts == SetFacts
<1>1. \A S : Sets!Cardinality(S) = Cardinality(S)
  BY DEF Sets!Cardinality, Cardinality
<1>2. \A S : Sets!IsFiniteSet(S) <=> IsFiniteSet(S)
  BY Zenon DEF Sets!IsFiniteSet, IsFiniteSet
<1>3. IsFiniteSet({}) /\ Cardinality({}) = 0
  BY <1>1, <1>2, Sets!FS_EmptySet, Zenon
<1>4. ASSUME NEW S, IsFiniteSet(S) PROVE Cardinality(S) \in Nat /\ (Cardinality(S) = 0 => S = {})
  <2>1. Sets!Cardinality(S) \in Nat
    BY <1>2, <1>4, Sets!FS_CardinalityType
  <2>2. Sets!Cardinality(S) = 0 => S = {}
    BY <1>2, <1>4, Sets!FS_EmptySet, Zenon
  <2> QED BY <1>1, <2>1, <2>2, Zenon
<1>5. ASSUME NEW S, NEW x, IsFiniteSet(S)
      PROVE  /\ IsFiniteSet(S \cup {x}) /\ IsFiniteSet(S \ {x})
             /\ x \notin S => Cardinality(S \cup {x}) = Cardinality(S) + 1
  <2>1. Sets!IsFiniteSet(S \cup {x}) /\ (x \notin S => Sets!Cardinality(S \cup {x}) = Sets!Cardinality(S) + 1)
    BY <1>2, <1>5, Sets!FS_AddElement
  <2>2. Sets!IsFiniteSet(S \ {x})
    BY <1>2, <1>5, Sets!FS_RemoveElement
  <2> QED BY <1>1, <1>2, <2>1, <2>2, Zenon
<1>6. ASSUME NEW S, NEW T \in SUBSET S, IsFiniteSet(S)
      PROVE  IsFiniteSet(T) /\ Cardinality(T) <= Cardinality(S)
  <2>1. Sets!IsFiniteSet(T) /\ Sets!Cardinality(T) <= Sets!Cardinality(S)
    BY <1>2, <1>6, Sets!FS_Subset
  <2> QED BY <1>1, <1>2, <2>1, Zenon
<1>7. ASSUME NEW n \in Nat PROVE IsFiniteSet(1..n)
  <2>1. Sets!IsFiniteSet(1..n)
    BY Sets!FS_Interval
  <2> QED BY <1>2, <2>1
<1>8. BijectionFact
  BY SameSize DEF BijectionFact
<1>9. ASSUME NEW m \in Nat, NEW n \in Nat
      PROVE  IsFiniteSet(m + 1..m + n) /\ Cardinality(m + 1..m + n) = n
  <2> DEFINE a == m + 1
             b == m + n
  <2>1. a \in Int /\ b \in Int /\ (IF a > b THEN 0 ELSE b - a + 1) = n
    OBVIOUS
  <2> HIDE DEF a, b
  <2>2. Sets!IsFiniteSet(a..b) /\ Sets!Cardinality(a..b) = IF a > b THEN 0 ELSE b - a + 1
    BY <2>1, Sets!FS_Interval
  <2>3. IsFiniteSet(a..b) /\ Cardinality(a..b) = n
    BY <1>1, <1>2, <2>1, <2>2, Zenon
  <2> QED BY <2>3 DEF a, b
<1>10. DisjointFact
  <2> SUFFICES ASSUME NEW S, NEW T, IsFiniteSet(S), IsFiniteSet(T), S \cap T = {}
               PROVE  Cardinality(S \cup T) = Cardinality(S) + Cardinality(T)
    BY Zenon DEF DisjointFact
  <2>1. Sets!Cardinality(S \cup T) =
           Sets!Cardinality(S) + Sets!Cardinality(T) - Sets!Cardinality(S \cap T)
    BY <1>2, Sets!FS_Union
  <2>2. Cardinality(S \cup T) = Cardinality(S) + Cardinality(T) - 0
    BY <1>1, <1>3, <2>1, Zenon
  <2>3. Cardinality(S) \in Nat /\ Cardinality(T) \in Nat
    BY <1>4
  <2> QED BY <2>2, <2>3
<1> QED BY <1>3, <1>4, <1>5, <1>6, <1>7, <1>8, <1>9, <1>10, Zenon DEF SetFacts

\* In every behaviour what an entry is to get of a message is unread or was
\* written, and what a client waits for is on its way.
THEOREM NodeInvariance == Spec => []NodeInv
<1>1. Init => NodeInv
  BY InitNode, FiniteFacts
<1>2. MapsInv /\ NodeInv /\ [Next]_vars => NodeInv'
  BY NextNode, FiniteFacts
<1> QED BY <1>1, <1>2, MapsInvariance, PTL DEF Spec

\* For any clients, channels, commands and failures: each copy of a message that
\* the node sends is written exactly once to every entry there was when it was
\* published, channel or pattern, or is still to be read.
THEOREM WrittenOnce == Spec => []DeliveredOnce
<1>1. NodeInv => DeliveredOnce
  BY Zenon DEF NodeInv, DeliverInv, Delivered, DeliveredOnce
<1> QED BY <1>1, NodeInvariance, PTL

\* Of a client that only sends SUBSCRIBE, each request that the node has read has
\* been acknowledged to it, over failed dials and lost connections, and whatever
\* the other clients send.
THEOREM SubscribesAcknowledged == Spec => []SubscribeAcknowledged
<1>1. MapsInv /\ NodeInv => SubscribeAcknowledged
  <2> SUFFICES ASSUME MapsInv, NodeInv, Settled, NEW a \in awaiting,
                      used[a.c] \subseteq {"subscribe"}, state[a.c] # "closed"
               PROVE  FALSE
    BY Zenon DEF SubscribeAcknowledged
  <2>1. pendingClients = <<>> /\ toNode = <<>> /\ fromNode = <<>>
    BY DEF Settled, MapsInv, Waiting
  <2>2. \E e \in subs : Pending(e.name, a.n)
    BY Zenon DEF NodeInv, AwaitInv, Expected
  <2> QED BY <2>1, <2>2, InEmpty, Zenon DEF Pending
<1> QED BY <1>1, MapsInvariance, NodeInvariance, PTL
===============================================================================
