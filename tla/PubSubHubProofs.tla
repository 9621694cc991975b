--------------------------- MODULE PubSubHubProofs ---------------------------
(***************************************************************************)
(* Proofs about the pub/sub hub, for any clients, channels, commands and   *)
(* failures: its two maps agree with each other and with the clients'      *)
(* states, and what is subscribed is subscribed at the node.               *)
(***************************************************************************)
EXTENDS PubSubHub, TLAPS

In(x, s) == \E i \in 1..Len(s) : s[i] = x

CmdNames == {"subscribe", "psubscribe", "bare", "unsubscribe", "punsubscribe", "all", "pall"}

\* What a request names: a channel, a pattern or nothing.
Named == Names \cup {""}

Request == [cmd : CmdNames, name : Named, n : Nat]

Entry == [name : Names, c : Clients, glob : BOOLEAN, at : Nat]

Types ==
    /\ subs \subseteq Entry
    /\ clientSubs \in [Clients -> SUBSET Names]
    /\ state \in [Clients -> {"normal", "subscribe", "closed"}]
    /\ pendingClients \in Seq(Request) /\ toNode \in Seq(Request)
    /\ used \in [Clients -> SUBSET (CmdNames \cup {"reset"})]
    /\ nreq \in Nat

\* Requests wait while there is no connection, and only then.
Waiting ==
    /\ backend = "open" => pendingClients = <<>>
    /\ backend # "open" => toNode = <<>>

\* Beside the hub's own PSUBSCRIBE, only what clients sent is on its way.
Sent ==
    \A x \in Request : In(x, pendingClients) \/ In(x, toNode) =>
        x.cmd = "psubscribe" \/ \E c \in Clients : x.cmd \in used[c]

\* No client sent an UNSUBSCRIBE.
NoneLeft == \A c \in Clients : used[c] \cap {"unsubscribe", "all"} = {}

\* A SUBSCRIBE of the channel is on its way.
Asked(name, q) == \E x \in Request : In(x, q) /\ x.cmd = "subscribe" /\ x.name = name

\* The SUBSCRIBE of a channel that a client has is at the node or on its way.
OnItsWay ==
    NoneLeft =>
        \A e \in subs : ~e.glob =>
            \/ Asked(e.name, pendingClients)
            \/ Asked(e.name, toNode)
            \/ backend = "open" /\ e.name \in nodeSubs

\* A client has one entry under a name.
OneEntry == \A e, f \in subs : e.c = f.c /\ e.name = f.name => e = f

\* The client's name set, its entries and its state fit together.
Kept(d) ==
    Tracked(d) =>
        /\ \A n : n \in clientSubs[d] <=> \E e \in subs : e.c = d /\ e.name = n
        /\ (\E e \in subs : e.c = d) => state[d] = "subscribe"
        /\ state[d] = "subscribe" /\ "bare" \notin used[d] => \E e \in subs : e.c = d

MapsInv == Types /\ Waiting /\ Sent /\ OneEntry /\ OnItsWay /\ \A d \in Clients : Kept(d)

------------------------------------------------------------------------------
\* Lemmas about sequences and about the maps.

\* Nothing is in the empty queue.
LEMMA InEmpty == \A x : ~In(x, <<>>)
<1>1. Len(<<>>) = 0
  OBVIOUS
<1>2. 1..Len(<<>>) = {}
  BY <1>1
<1> QED BY <1>2, Zenon DEF In

\* A request is queued or written (subscribe, unsubscribe).
LEMMA InAppend ==
    ASSUME NEW S, NEW s \in Seq(S), NEW q \in S
    PROVE  Append(s, q) \in Seq(S) /\ \A x : In(x, Append(s, q)) <=> In(x, s) \/ x = q
<1> DEFINE t == Append(s, q)
<1>1. /\ t \in Seq(S) /\ Len(t) = Len(s) + 1 /\ Len(s) \in Nat /\ t[Len(s) + 1] = q
      /\ \A i \in 1..Len(s) : t[i] = s[i]
  OBVIOUS
<1> HIDE DEF t
<1>2. \A x : In(x, t) <=> In(x, s) \/ x = q
  BY <1>1 DEF In
<1> QED BY <1>1, <1>2 DEF t

\* The node takes the oldest.
LEMMA InTail ==
    ASSUME NEW S, NEW s \in Seq(S), s # <<>>
    PROVE  /\ Head(s) \in S /\ Tail(s) \in Seq(S) /\ In(Head(s), s)
           /\ \A x : In(x, s) <=> x = Head(s) \/ In(x, Tail(s))
<1> DEFINE t == Tail(s)
           h == Head(s)
<1>1. /\ t \in Seq(S) /\ Len(s) \in Nat \ {0} /\ Len(t) = Len(s) - 1 /\ s[1] = h
      /\ \A i \in 1..Len(t) : t[i] = s[i + 1]
      /\ h \in S
  OBVIOUS
<1> HIDE DEF t, h
<1>2. ASSUME NEW x, NEW i \in 1..Len(s), s[i] = x, x # h PROVE In(x, t)
  <2>1. i - 1 \in 1..Len(t) /\ t[i - 1] = x
    BY <1>1, <1>2
  <2> QED BY <2>1 DEF In
<1>3. ASSUME NEW x, NEW i \in 1..Len(t), t[i] = x PROVE In(x, s)
  <2>1. i + 1 \in 1..Len(s) /\ s[i + 1] = x
    BY <1>1, <1>3
  <2> QED BY <2>1 DEF In
<1>4. In(h, s)
  BY <1>1 DEF In
<1>5. \A x : In(x, s) <=> x = h \/ In(x, t)
  BY <1>2, <1>3, <1>4, Zenon DEF In
<1> QED BY <1>1, <1>4, <1>5 DEF t, h

\* What waited is written after the hub's own request (onSharedBackendOpen).
LEMMA InFlush ==
    ASSUME NEW S, NEW q \in S, NEW s \in Seq(S)
    PROVE  <<q>> \o s \in Seq(S) /\ \A x : In(x, <<q>> \o s) <=> x = q \/ In(x, s)
<1> DEFINE t == <<q>> \o s
<1>1. /\ t \in Seq(S) /\ Len(t) = Len(s) + 1 /\ Len(s) \in Nat /\ t[1] = q
      /\ \A i \in 1..Len(s) : t[i + 1] = s[i]
  OBVIOUS
<1> HIDE DEF t
<1>2. ASSUME NEW x, NEW i \in 1..Len(t), t[i] = x, x # q PROVE In(x, s)
  <2>1. i - 1 \in 1..Len(s) /\ s[i - 1] = x
    BY <1>1, <1>2
  <2> QED BY <2>1 DEF In
<1>3. ASSUME NEW x, NEW i \in 1..Len(s), s[i] = x PROVE In(x, t)
  <2>1. i + 1 \in 1..Len(t) /\ t[i + 1] = x
    BY <1>1, <1>3
  <2> QED BY <2>1 DEF In
<1>4. In(q, t)
  BY <1>1 DEF In
<1>5. \A x : In(x, t) <=> x = q \/ In(x, s)
  BY <1>2, <1>3, <1>4, Zenon DEF In
<1> QED BY <1>1, <1>5 DEF t

\* The requests clients make, and the hub's own.
LEMMA RequestType ==
    ASSUME NEW cmd \in CmdNames, NEW name \in Named, NEW n \in Nat
    PROVE  /\ Req(cmd, name, n) \in Request
           /\ Req(cmd, name, n).cmd = cmd /\ Req(cmd, name, n).name = name /\ Req(cmd, name, n).n = n
  BY DEF Req, Request

\* What a request adds to the history.
LEMMA SendsUsed ==
    ASSUME Types, NEW c \in Clients, NEW cmd \in CmdNames \cup {"reset"}, Sends(c, cmd)
    PROVE  /\ used' \in [Clients -> SUBSET (CmdNames \cup {"reset"})]
           /\ nreq' = nreq + 1 /\ nreq' \in Nat
           /\ cmd \in used'[c] /\ used'[c] = used[c] \cup {cmd}
           /\ \A d \in Clients : used[d] \subseteq used'[d] /\ (d # c => used'[d] = used[d])
           /\ (NoneLeft' => NoneLeft)
           /\ \A d \in Clients : Tracked(d)' => Tracked(d)
<1>1. /\ used' = [used EXCEPT ![c] = used[c] \cup {cmd}] /\ nreq' = nreq + 1
      /\ used \in [Clients -> SUBSET (CmdNames \cup {"reset"})] /\ nreq \in Nat
  BY DEF Sends, Types
<1>2. /\ used' \in [Clients -> SUBSET (CmdNames \cup {"reset"})]
      /\ used'[c] = used[c] \cup {cmd}
      /\ \A d \in Clients : used[d] \subseteq used'[d] /\ (d # c => used'[d] = used[d])
  BY <1>1
<1>3. NoneLeft' => NoneLeft
  BY <1>2 DEF NoneLeft
<1>4. \A d \in Clients : Tracked(d)' => Tracked(d)
  BY <1>2 DEF Tracked
<1> QED BY <1>1, <1>2, <1>3, <1>4

\* With one entry per name, the first is all there are.
LEMMA FirstAll ==
    ASSUME Types, OneEntry, NEW c, NEW S
    PROVE  First(c, S) = {e \in subs : e.c = c /\ e.name \in S}
<1>1. ASSUME NEW e \in subs, NEW f \in subs, e.c = c, f.c = c, f.name = e.name PROVE e.at <= f.at
  <2>1. e = f
    BY <1>1 DEF OneEntry
  <2>2. e.at \in Nat
    BY DEF Types, Entry
  <2> QED BY <2>1, <2>2
<1> QED BY <1>1 DEF First

\* A client that a step is not about.
LEMMA Untouched ==
    ASSUME NEW d \in Clients, Kept(d),
           clientSubs'[d] = clientSubs[d], state'[d] = state[d], used'[d] = used[d],
           \A e : e \in subs' /\ e.c = d <=> e \in subs /\ e.c = d
    PROVE  Kept(d)'
<1>1. Tracked(d)' => Tracked(d)
  BY Zenon DEF Tracked
<1>2. \A n : (\E e \in subs' : e.c = d /\ e.name = n) <=> \E e \in subs : e.c = d /\ e.name = n
  BY Zenon
<1>3. (\E e \in subs' : e.c = d) <=> \E e \in subs : e.c = d
  BY Zenon
<1> QED BY <1>1, <1>2, <1>3, Zenon DEF Kept

\* A SUBSCRIBE on its way stays so when nothing leaves the queue.
LEMMA AskedMore ==
    ASSUME NEW q, NEW r, \A x : In(x, q) => In(x, r)
    PROVE  \A name : Asked(name, q) => Asked(name, r)
  BY Zenon DEF Asked

------------------------------------------------------------------------------
\* The maps, and the requests on their way to the node.

\* A new hub.
LEMMA InitMaps == Init => MapsInv
<1> SUFFICES ASSUME Init PROVE MapsInv
  OBVIOUS
<1>1. Types
  BY DEF Init, Types
<1>2. Waiting /\ Sent /\ OnItsWay /\ OneEntry
  BY InEmpty, Zenon DEF Init, Waiting, Sent, OnItsWay, OneEntry
<1>3. ASSUME NEW d \in Clients PROVE Kept(d)
  <2>1. subs = {} /\ clientSubs[d] = {} /\ state[d] = "normal"
    BY DEF Init
  <2> QED BY <2>1 DEF Kept
<1> QED BY <1>1, <1>2, <1>3, Zenon DEF MapsInv

\* hub.subscribe: the entry is made, unless the request has no name, and the
\* request written or queued.
LEMMA SubscribeMaps ==
    ASSUME MapsInv, NEW c \in Clients, NEW cmd \in {"subscribe", "psubscribe", "bare"},
           NEW name \in Named, cmd # "bare" => name \in Names, Subscribe(c, cmd, name)
    PROVE  MapsInv'
<1> DEFINE r == Req(cmd, name, nreq + 1)
           e0 == [name |-> name, c |-> c, glob |-> cmd = "psubscribe", at |-> nreq + 1]
<1>0. Types /\ nreq \in Nat /\ nreq + 1 \in Nat
  BY DEF MapsInv, Types
<1>1. r \in Request /\ r.cmd = cmd /\ r.name = name
  <2>1. cmd \in CmdNames
    BY Zenon DEF CmdNames
  <2> QED BY <1>0, <2>1, RequestType
<1>2. /\ state' = [state EXCEPT ![c] = "subscribe"] /\ Sends(c, cmd)
      /\ backend' = backend \/ (backend = "none" /\ backend' = "dialing")
      /\ nodeSubs' = nodeSubs
  BY DEF Subscribe
<1>3. \/ backend = "open" /\ toNode' = Append(toNode, r) /\ pendingClients' = pendingClients
      \/ backend # "open" /\ toNode' = toNode /\ pendingClients' = Append(pendingClients, r)
  BY DEF Subscribe
<1>4. /\ toNode' \in Seq(Request) /\ pendingClients' \in Seq(Request)
      /\ \A x : In(x, toNode') \/ In(x, pendingClients') <=> In(x, toNode) \/ In(x, pendingClients) \/ x = r
      /\ \A x : In(x, toNode) => In(x, toNode')
      /\ \A x : In(x, pendingClients) => In(x, pendingClients')
  <2>1. toNode \in Seq(Request) /\ pendingClients \in Seq(Request)
    BY DEF MapsInv, Types
  <2> HIDE DEF r
  <2>2. /\ Append(toNode, r) \in Seq(Request)
        /\ \A x : In(x, Append(toNode, r)) <=> In(x, toNode) \/ x = r
    BY <1>1, <2>1, InAppend
  <2>3. /\ Append(pendingClients, r) \in Seq(Request)
        /\ \A x : In(x, Append(pendingClients, r)) <=> In(x, pendingClients) \/ x = r
    BY <1>1, <2>1, InAppend
  <2>4. CASE backend = "open" /\ toNode' = Append(toNode, r) /\ pendingClients' = pendingClients
    BY <2>1, <2>2, <2>4, Zenon
  <2>5. CASE backend # "open" /\ toNode' = toNode /\ pendingClients' = Append(pendingClients, r)
    BY <2>1, <2>3, <2>5, Zenon
  <2> QED BY <1>3, <2>4, <2>5
<1>5. /\ cmd # "bare" => e0 \in Entry
      /\ e0.name = name /\ e0.c = c /\ e0.glob = (cmd = "psubscribe") /\ e0.at = nreq + 1
  BY <1>0 DEF Entry
<1>6. \/ cmd = "bare" /\ subs' = subs /\ clientSubs' = clientSubs
      \/ /\ cmd # "bare" /\ subs' = subs /\ clientSubs' = clientSubs
         /\ \E e \in subs : e.name = name /\ e.c = c
      \/ /\ cmd # "bare" /\ ~\E e \in subs : e.name = name /\ e.c = c
         /\ subs' = subs \cup {e0} /\ clientSubs' = [clientSubs EXCEPT ![c] = clientSubs[c] \cup {name}]
  BY DEF Subscribe, AddSub
<1> HIDE DEF r, e0
<1>7. /\ used' \in [Clients -> SUBSET (CmdNames \cup {"reset"})]
      /\ nreq' \in Nat /\ cmd \in used'[c] /\ (NoneLeft' => NoneLeft)
      /\ \A d \in Clients : used[d] \subseteq used'[d] /\ (d # c => used'[d] = used[d])
      /\ \A d \in Clients : Tracked(d)' => Tracked(d)
  <2>1. cmd \in CmdNames \cup {"reset"}
    BY Zenon DEF CmdNames
  <2> QED BY <1>0, <1>2, <2>1, SendsUsed
<1>8. Types'
  <2>1. state' \in [Clients -> {"normal", "subscribe", "closed"}]
    BY <1>2 DEF MapsInv, Types
  <2>2. clientSubs' \in [Clients -> SUBSET Names] /\ subs' \subseteq Entry
    BY <1>5, <1>6 DEF MapsInv, Types
  <2> QED BY <1>4, <1>7, <2>1, <2>2 DEF Types
<1>9. Waiting'
  BY <1>2, <1>3 DEF MapsInv, Waiting
<1>10. Sent'
  BY <1>1, <1>4, <1>7, Zenon DEF MapsInv, Sent
<1>11. OneEntry'
  BY <1>5, <1>6 DEF MapsInv, OneEntry
<1>12. OnItsWay'
  <2> SUFFICES ASSUME NoneLeft', NEW e \in subs', ~e.glob
               PROVE  \/ Asked(e.name, pendingClients') \/ Asked(e.name, toNode')
                      \/ backend' = "open" /\ e.name \in nodeSubs'
    BY Zenon DEF OnItsWay
  <2>1. CASE e \in subs
    <3>1. /\ \A n : Asked(n, pendingClients) => Asked(n, pendingClients')
          /\ \A n : Asked(n, toNode) => Asked(n, toNode')
      BY <1>4, AskedMore
    <3>2. \/ Asked(e.name, pendingClients) \/ Asked(e.name, toNode)
          \/ backend = "open" /\ e.name \in nodeSubs
      BY <1>7, <2>1, Zenon DEF MapsInv, OnItsWay
    <3> QED BY <1>2, <3>1, <3>2
  <2>2. CASE e = e0 /\ cmd # "bare"
    <3>1. r.cmd = "subscribe" /\ r.name = e.name
      BY <1>1, <1>5, <2>2, Zenon
    <3> QED BY <1>1, <1>4, <3>1, Zenon DEF Asked
  <2> QED BY <1>6, <2>1, <2>2
<1>13. ASSUME NEW d \in Clients PROVE Kept(d)'
  <2>1. Kept(d)
    BY DEF MapsInv
  <2>2. CASE d # c
    <3>1. \A e : e \in subs' /\ e.c = d <=> e \in subs /\ e.c = d
      BY <1>5, <1>6, <2>2
    <3>2. clientSubs'[d] = clientSubs[d] /\ state'[d] = state[d]
      BY <1>2, <1>6, <2>2 DEF MapsInv, Types
    <3> QED BY <1>7, <2>1, <2>2, <3>1, <3>2, Untouched
  <2>3. CASE d = c /\ cmd = "bare"
    <3>1. state'[d] = "subscribe" /\ "bare" \in used'[d]
      BY <1>2, <1>7, <2>3 DEF MapsInv, Types
    <3>2. subs' = subs /\ clientSubs' = clientSubs
      BY <1>6, <2>3
    <3> QED BY <1>7, <2>1, <3>1, <3>2, Zenon DEF Kept
  <2>4. CASE d = c /\ cmd # "bare"
    <3>1. /\ \E e \in subs' : e.c = d /\ e.name = name
          /\ \A n : (\E e \in subs' : e.c = d /\ e.name = n) <=>
                       (\E e \in subs : e.c = d /\ e.name = n) \/ n = name
      BY <1>5, <1>6, <2>4, Zenon
    <3>2. state'[d] = "subscribe"
      BY <1>2, <2>4 DEF MapsInv, Types
    <3>3. Tracked(d) => \A n : n \in clientSubs'[d] <=> n \in clientSubs[d] \/ n = name
      <4> SUFFICES ASSUME Tracked(d) PROVE \A n : n \in clientSubs'[d] <=> n \in clientSubs[d] \/ n = name
        OBVIOUS
      <4>1. (\E e \in subs : e.name = name /\ e.c = c) => name \in clientSubs[d]
        BY <2>1, <2>4, Zenon DEF Kept
      <4> QED BY <1>6, <2>4, <4>1 DEF MapsInv, Types
    <3>4. Tracked(d)' => \A n : n \in clientSubs'[d] <=> \E e \in subs' : e.c = d /\ e.name = n
      <4> SUFFICES ASSUME Tracked(d)', NEW n
                   PROVE  n \in clientSubs'[d] <=> \E e \in subs' : e.c = d /\ e.name = n
        OBVIOUS
      <4>1. Tracked(d)
        BY <1>7
      <4>2. n \in clientSubs[d] <=> \E e \in subs : e.c = d /\ e.name = n
        BY <2>1, <4>1, Zenon DEF Kept
      <4> QED BY <3>1, <3>3, <4>1, <4>2, Zenon
    <3> QED BY <3>1, <3>2, <3>4, Zenon DEF Kept
  <2> QED BY <2>2, <2>3, <2>4
<1> QED BY <1>8, <1>9, <1>10, <1>11, <1>12, <1>13, Zenon DEF MapsInv

\* hub.unsubscribe, by name or of everything.
LEMMA UnsubscribeMaps ==
    ASSUME MapsInv, NEW c \in Clients, NEW cmd \in {"unsubscribe", "punsubscribe", "all", "pall"},
           NEW name \in Named, Unsubscribe(c, cmd, name)
    PROVE  MapsInv'
<1> DEFINE r == Req(cmd, name, nreq + 1)
<1>0. Types /\ OneEntry /\ nreq + 1 \in Nat
  BY DEF MapsInv, Types
<1>1. r \in Request /\ r.cmd = cmd
  <2>1. cmd \in CmdNames
    BY Zenon DEF CmdNames
  <2> QED BY <1>0, <2>1, RequestType
<1>2. /\ state[c] = "subscribe" /\ Sends(c, cmd)
      /\ state' = [state EXCEPT ![c] = IF clientSubs'[c] = {} THEN "normal" ELSE @]
      /\ backend' = backend /\ nodeSubs' = nodeSubs /\ pendingClients' = pendingClients
  BY DEF Unsubscribe
<1>3. \/ backend = "open" /\ toNode' = Append(toNode, r)
      \/ backend # "open" /\ toNode' = toNode
  BY DEF Unsubscribe
<1>4. /\ toNode' \in Seq(Request)
      /\ \A x : In(x, toNode) => In(x, toNode')
      /\ \A x : In(x, toNode') => In(x, toNode) \/ x = r
  <2>1. toNode \in Seq(Request)
    BY DEF MapsInv, Types
  <2> HIDE DEF r
  <2>2. /\ Append(toNode, r) \in Seq(Request)
        /\ \A x : In(x, Append(toNode, r)) <=> In(x, toNode) \/ x = r
    BY <1>1, <2>1, InAppend
  <2> QED BY <1>3, <2>1, <2>2, Zenon
<1>5. /\ subs' \subseteq subs /\ \A e \in subs \ subs' : e.c = c
      /\ \/ cmd \in {"all", "pall"} /\ clientSubs' = clientSubs
         \/ /\ subs' = {e \in subs : ~(e.name = name /\ e.c = c)}
            /\ clientSubs' = [clientSubs EXCEPT ![c] = clientSubs[c] \ {name}]
  <2>1. CASE cmd \in {"all", "pall"}
    <3>1. subs' = subs \ First(c, clientSubs[c]) /\ clientSubs' = clientSubs
      BY <2>1 DEF Unsubscribe, RemoveAllSubs
    <3> QED BY <2>1, <3>1 DEF First
  <2>2. CASE cmd \notin {"all", "pall"}
    <3>1. /\ subs' = subs \ First(c, {name})
          /\ clientSubs' = [clientSubs EXCEPT ![c] = clientSubs[c] \ {name}]
      BY <2>2, Zenon DEF Unsubscribe, RemoveSub
    <3>2. First(c, {name}) = {e \in subs : e.c = c /\ e.name \in {name}}
      BY <1>0, FirstAll
    <3> QED BY <3>1, <3>2, Zenon
  <2> QED BY <2>1, <2>2
<1> HIDE DEF r
<1>6. /\ used' \in [Clients -> SUBSET (CmdNames \cup {"reset"})]
      /\ nreq' \in Nat /\ cmd \in used'[c] /\ (NoneLeft' => NoneLeft)
      /\ \A d \in Clients : used[d] \subseteq used'[d] /\ (d # c => used'[d] = used[d])
      /\ \A d \in Clients : Tracked(d)' => Tracked(d)
  <2>1. cmd \in CmdNames \cup {"reset"}
    BY Zenon DEF CmdNames
  <2> QED BY <1>0, <1>2, <2>1, SendsUsed
<1>7. Types'
  <2>1. clientSubs' \in [Clients -> SUBSET Names] /\ subs' \subseteq Entry
    BY <1>5 DEF MapsInv, Types
  <2>2. state' \in [Clients -> {"normal", "subscribe", "closed"}]
    BY <1>2 DEF MapsInv, Types
  <2> QED BY <1>2, <1>4, <1>6, <2>1, <2>2 DEF MapsInv, Types
<1>8. Waiting'
  BY <1>2, <1>3 DEF MapsInv, Waiting
<1>9. Sent'
  BY <1>1, <1>2, <1>4, <1>6, Zenon DEF MapsInv, Sent
<1>10. OneEntry'
  BY <1>0, <1>5, Zenon DEF OneEntry
<1>11. OnItsWay'
  <2>1. \A n : Asked(n, toNode) => Asked(n, toNode')
    BY <1>4, AskedMore
  <2> QED BY <1>2, <1>5, <1>6, <2>1, Zenon DEF MapsInv, OnItsWay
<1>12. ASSUME NEW d \in Clients PROVE Kept(d)'
  <2>1. Kept(d)
    BY DEF MapsInv
  <2>2. CASE d # c
    <3>1. \A e : e \in subs' /\ e.c = d <=> e \in subs /\ e.c = d
      BY <1>5, <2>2
    <3>2. clientSubs'[d] = clientSubs[d] /\ state'[d] = state[d]
      BY <1>2, <1>5, <2>2 DEF MapsInv, Types
    <3> QED BY <1>6, <2>1, <2>2, <3>1, <3>2, Untouched
  <2>3. CASE d = c
    <3> SUFFICES ASSUME Tracked(d)'
                 PROVE  /\ \A n : n \in clientSubs'[d] <=> \E e \in subs' : e.c = d /\ e.name = n
                        /\ (\E e \in subs' : e.c = d) <=> state'[d] = "subscribe"
      BY Zenon DEF Kept
    <3>1. Tracked(d) /\ cmd \notin {"all", "pall"}
      BY <1>6, <2>3 DEF Tracked
    <3>2. \A n : n \in clientSubs[d] <=> \E e \in subs : e.c = d /\ e.name = n
      BY <2>1, <3>1, Zenon DEF Kept
    <3>3. \A n : n \in clientSubs'[d] <=> n \in clientSubs[d] /\ n # name
      BY <1>5, <2>3, <3>1 DEF MapsInv, Types
    <3>4. \A n : (\E e \in subs' : e.c = d /\ e.name = n) <=>
                    (\E e \in subs : e.c = d /\ e.name = n) /\ n # name
      BY <1>5, <2>3, <3>1, Zenon
    <3>5. \A n : n \in clientSubs'[d] <=> \E e \in subs' : e.c = d /\ e.name = n
      BY <3>2, <3>3, <3>4, Zenon
    <3>6. clientSubs'[d] # {} <=> \E e \in subs' : e.c = d
      BY <3>5, Zenon
    <3>7. state'[d] = "subscribe" <=> clientSubs'[d] # {}
      BY <1>2, <2>3 DEF MapsInv, Types
    <3> QED BY <3>5, <3>6, <3>7, Zenon
  <2> QED BY <2>2, <2>3
<1> QED BY <1>7, <1>8, <1>9, <1>10, <1>11, <1>12, Zenon DEF MapsInv

\* RESET: the invariant claims nothing of the client's entries from then on.
LEMMA ResetMaps ==
    ASSUME MapsInv, NEW c \in Clients, Reset(c)
    PROVE  MapsInv'
<1>1. /\ state' = [state EXCEPT ![c] = "normal"] /\ Sends(c, "reset")
      /\ UNCHANGED <<subs, clientSubs, backend, pendingClients, toNode, nodeSubs>>
  BY DEF Reset, nodeVars
<1>2. /\ used' \in [Clients -> SUBSET (CmdNames \cup {"reset"})]
      /\ nreq' \in Nat /\ "reset" \in used'[c] /\ (NoneLeft' => NoneLeft)
      /\ \A d \in Clients : used[d] \subseteq used'[d] /\ (d # c => used'[d] = used[d])
  <2> DEFINE cmd == "reset"
  <2>1. cmd \in CmdNames \cup {"reset"} /\ Sends(c, cmd)
    BY <1>1, Zenon
  <2> HIDE DEF cmd
  <2>2. Types
    BY DEF MapsInv
  <2>3. /\ used' \in [Clients -> SUBSET (CmdNames \cup {"reset"})]
        /\ nreq' \in Nat /\ cmd \in used'[c] /\ (NoneLeft' => NoneLeft)
        /\ \A d \in Clients : used[d] \subseteq used'[d] /\ (d # c => used'[d] = used[d])
    BY <2>1, <2>2, SendsUsed
  <2> QED BY <2>3 DEF cmd
<1>3. Types'
  BY <1>1, <1>2, Zenon DEF MapsInv, Types
<1>4. Waiting' /\ OneEntry'
  BY <1>1, Zenon DEF MapsInv, Waiting, OneEntry
<1>5. Sent'
  BY <1>1, <1>2, Zenon DEF MapsInv, Sent
<1>6. OnItsWay'
  BY <1>1, <1>2, Zenon DEF MapsInv, OnItsWay
<1>7. ASSUME NEW d \in Clients PROVE Kept(d)'
  <2>1. CASE d = c
    <3>1. ~Tracked(d)'
      BY <1>2, <2>1 DEF Tracked
    <3> QED BY <3>1, Zenon DEF Kept
  <2>2. CASE d # c
    <3>1. state'[d] = state[d] /\ Kept(d)
      BY <1>1, <2>2 DEF MapsInv, Types
    <3> QED BY <1>1, <1>2, <2>2, <3>1, Untouched
  <2> QED BY <2>1, <2>2
<1> QED BY <1>3, <1>4, <1>5, <1>6, <1>7, Zenon DEF MapsInv

\* removeClient: by the index, all of the client's entries go.
LEMMA CloseMaps ==
    ASSUME MapsInv, NEW c \in Clients, ClientClose(c)
    PROVE  MapsInv'
<1>1. /\ state' = [state EXCEPT ![c] = "closed"]
      /\ UNCHANGED <<backend, pendingClients, toNode, nodeSubs, nreq, used>>
  BY DEF ClientClose, nodeVars
<1>2. /\ subs' \subseteq subs
      /\ \/ /\ state[c] = "subscribe"
            /\ subs' = {e \in subs : ~(e.c = c /\ e.name \in clientSubs[c])}
            /\ clientSubs' = [clientSubs EXCEPT ![c] = {}]
         \/ state[c] # "subscribe" /\ subs' = subs /\ clientSubs' = clientSubs
  <2>1. First(c, clientSubs[c]) = {e \in subs : e.c = c /\ e.name \in clientSubs[c]}
    BY FirstAll DEF MapsInv
  <2> QED BY <2>1 DEF ClientClose, RemoveAllSubs
<1>3. Types'
  BY <1>1, <1>2 DEF MapsInv, Types
<1>4. Waiting' /\ Sent' /\ OneEntry'
  BY <1>1, <1>2, Zenon DEF MapsInv, Waiting, Sent, OneEntry
<1>5. OnItsWay'
  BY <1>1, <1>2, Zenon DEF MapsInv, OnItsWay, NoneLeft
<1>6. ASSUME NEW d \in Clients PROVE Kept(d)'
  <2>1. Kept(d)
    BY DEF MapsInv
  <2>2. CASE d # c
    <3>1. \A e : e \in subs' /\ e.c = d <=> e \in subs /\ e.c = d
      BY <1>2, <2>2
    <3>2. clientSubs'[d] = clientSubs[d] /\ state'[d] = state[d] /\ used'[d] = used[d]
      BY <1>1, <1>2, <2>2 DEF MapsInv, Types
    <3> QED BY <2>1, <3>1, <3>2, Untouched
  <2>3. CASE d = c /\ Tracked(d)
    <3>1. ~\E e \in subs' : e.c = d
      <4> SUFFICES ASSUME NEW e \in subs', e.c = d PROVE FALSE
        OBVIOUS
      <4>1. e \in subs /\ state[c] = "subscribe"
        BY <1>2, <2>1, <2>3, Zenon DEF Kept
      <4>2. e.name \in clientSubs[c]
        BY <2>1, <2>3, <4>1, Zenon DEF Kept
      <4> QED BY <1>2, <2>3, <4>1, <4>2
    <3>2. clientSubs'[d] = {} /\ state'[d] = "closed"
      <4>1. state[c] # "subscribe" => clientSubs[c] = {}
        BY <2>1, <2>3, Zenon DEF Kept
      <4> QED BY <1>1, <1>2, <2>3, <4>1 DEF MapsInv, Types
    <3> QED BY <3>1, <3>2 DEF Kept
  <2>4. CASE ~Tracked(d)
    BY <1>1, <2>4, Zenon DEF Kept, Tracked
  <2> QED BY <2>2, <2>3, <2>4
<1> QED BY <1>3, <1>4, <1>5, <1>6, Zenon DEF MapsInv

\* Steps that are not about the clients.
LEMMA SameIndex ==
    ASSUME \A d \in Clients : Kept(d), UNCHANGED <<subs, clientSubs, state, used>>
    PROVE  \A d \in Clients : Kept(d)'
  BY Zenon DEF Kept, Tracked

\* onSharedBackendOpen: what waited is now written.
LEMMA OpenMaps ==
    ASSUME MapsInv, OnOpen
    PROVE  MapsInv'
<1> DEFINE q == Req("psubscribe", "*", 0)
           t == <<q>> \o pendingClients
<1>1. /\ backend = "dialing" /\ backend' = "open" /\ toNode' = t /\ pendingClients' = <<>>
      /\ UNCHANGED <<subs, clientSubs, state, nodeSubs, nreq, used>>
  BY DEF OnOpen
<1>2. q \in Request /\ q.cmd = "psubscribe"
  BY DEF Req, Request, CmdNames, Named, Names
<1> HIDE DEF q
<1>3. t \in Seq(Request) /\ \A x : In(x, t) <=> x = q \/ In(x, pendingClients)
  <2>1. pendingClients \in Seq(Request)
    BY DEF MapsInv, Types
  <2> QED BY <1>2, <2>1, InFlush
<1> HIDE DEF t
<1>4. <<>> \in Seq(Request)
  OBVIOUS
<1>5. Types' /\ Waiting'
  BY <1>1, <1>3, <1>4 DEF MapsInv, Types, Waiting
<1>6. toNode = <<>>
  BY <1>1 DEF MapsInv, Waiting
<1>7. Sent'
  <2> SUFFICES ASSUME NEW x \in Request, In(x, pendingClients') \/ In(x, toNode')
               PROVE  x.cmd = "psubscribe" \/ \E c \in Clients : x.cmd \in used[c]
    BY <1>1, Zenon DEF Sent
  <2>1. x = q \/ In(x, pendingClients)
    BY <1>1, <1>3, InEmpty, Zenon
  <2> QED BY <1>2, <2>1, Zenon DEF MapsInv, Sent
<1>8. OnItsWay'
  <2>1. \A x : In(x, pendingClients) \/ In(x, toNode) => In(x, toNode')
    BY <1>1, <1>3, <1>6, InEmpty, Zenon
  <2>2. \A n : Asked(n, pendingClients) \/ Asked(n, toNode) => Asked(n, toNode')
    BY <2>1, Zenon DEF Asked
  <2>3. backend # "open"
    BY <1>1
  <2> QED BY <1>1, <2>2, <2>3, Zenon DEF MapsInv, OnItsWay, NoneLeft
<1>9. OneEntry' /\ \A d \in Clients : Kept(d)'
  BY <1>1, SameIndex DEF MapsInv, OneEntry
<1> QED BY <1>5, <1>7, <1>8, <1>9, Zenon DEF MapsInv

\* The dial failed: what waited stays in the queue.
LEMMA DialFailMaps ==
    ASSUME MapsInv, DialFail
    PROVE  MapsInv'
<1>1. /\ backend = "dialing" /\ backend' = "none"
      /\ UNCHANGED <<subs, clientSubs, state, pendingClients, toNode, nodeSubs, nreq, used>>
  BY DEF DialFail, nodeVars
<1>2. Types' /\ Waiting'
  BY <1>1 DEF MapsInv, Types, Waiting
<1>3. Sent'
  BY <1>1, Zenon DEF MapsInv, Sent
<1>4. OnItsWay'
  BY <1>1 DEF MapsInv, OnItsWay, NoneLeft
<1>5. OneEntry' /\ \A d \in Clients : Kept(d)'
  BY <1>1, SameIndex DEF MapsInv, OneEntry
<1> QED BY <1>2, <1>3, <1>4, <1>5, Zenon DEF MapsInv

\* onSharedBackendClose: a client in the subscribed state has an entry, so that
\* it leaves the state with the map, unless it sent a SUBSCRIBE without channels.
LEMMA LossMaps ==
    ASSUME MapsInv, OnClose
    PROVE  MapsInv'
<1>1. /\ backend = "open" /\ backend' = "none" /\ subs' = {} /\ toNode' = <<>>
      /\ clientSubs' = [c \in Clients |-> {}]
      /\ UNCHANGED <<pendingClients, nreq, used>>
  BY DEF OnClose
<1>2. state' = [c \in Clients |-> IF c \in {e.c : e \in subs} /\ state[c] # "closed"
                            THEN "normal" ELSE state[c]]
  BY DEF OnClose
<1>3. Types'
  <2>1. <<>> \in Seq(Request)
    OBVIOUS
  <2>2. state' \in [Clients -> {"normal", "subscribe", "closed"}]
    BY <1>2 DEF MapsInv, Types
  <2> QED BY <1>1, <2>1, <2>2 DEF MapsInv, Types
<1>4. Waiting'
  BY <1>1 DEF Waiting
<1>5. Sent'
  BY <1>1, InEmpty, Zenon DEF MapsInv, Sent
<1>6. OnItsWay' /\ OneEntry'
  BY <1>1, Zenon DEF OnItsWay, OneEntry
<1>7. ASSUME NEW d \in Clients PROVE Kept(d)'
  <2>1. Kept(d) /\ (Tracked(d)' => Tracked(d)) /\ used'[d] = used[d]
    BY <1>1, Zenon DEF MapsInv, Tracked
  <2>2. Tracked(d) /\ state'[d] = "subscribe" => "bare" \in used[d]
    <3> SUFFICES ASSUME Tracked(d), state'[d] = "subscribe", "bare" \notin used[d] PROVE FALSE
      OBVIOUS
    <3>1. state[d] = "subscribe" /\ d \notin {e.c : e \in subs}
      BY <1>2
    <3> QED BY <2>1, <3>1, Zenon DEF Kept
  <2>3. clientSubs'[d] = {}
    BY <1>1
  <2> QED BY <1>1, <2>1, <2>2, <2>3 DEF Kept
<1> QED BY <1>3, <1>4, <1>5, <1>6, <1>7, Zenon DEF MapsInv

\* The node takes the next request: a SUBSCRIBE that leaves the queue is in its
\* table, and no UNSUBSCRIBE is on its way that would end it.
LEMMA NodeMaps ==
    ASSUME MapsInv, NodeStep
    PROVE  MapsInv'
<1> DEFINE h == Head(toNode)
           t == Tail(toNode)
<1>1. /\ toNode # <<>> /\ toNode' = t
      /\ UNCHANGED <<subs, clientSubs, state, backend, pendingClients, nreq, used>>
      /\ nodeSubs' = CASE h.cmd = "subscribe" -> nodeSubs \cup {h.name}
                       [] h.cmd = "unsubscribe" -> nodeSubs \ {h.name}
                       [] h.cmd = "all" -> {}
                       [] OTHER -> nodeSubs
  BY DEF NodeStep
<1>2. h \in Request /\ t \in Seq(Request) /\ In(h, toNode) /\ \A x : In(x, toNode) <=> x = h \/ In(x, t)
  <2>1. toNode \in Seq(Request)
    BY DEF MapsInv, Types
  <2> QED BY <1>1, <2>1, InTail
<1> HIDE DEF h, t
<1>3. Types' /\ Waiting'
  BY <1>1, <1>2 DEF MapsInv, Types, Waiting
<1>4. Sent'
  BY <1>1, <1>2, Zenon DEF MapsInv, Sent
<1>5. OnItsWay'
  <2> SUFFICES ASSUME NoneLeft, NEW e \in subs, ~e.glob
               PROVE  \/ Asked(e.name, pendingClients) \/ Asked(e.name, t)
                      \/ backend = "open" /\ e.name \in nodeSubs'
    BY <1>1, Zenon DEF OnItsWay, NoneLeft
  <2>1. h.cmd \notin {"unsubscribe", "all"}
    BY <1>2 DEF MapsInv, Sent, NoneLeft
  <2>2. nodeSubs \subseteq nodeSubs' /\ (h.cmd = "subscribe" => h.name \in nodeSubs')
    BY <1>1, <2>1
  <2>3. backend = "open"
    BY <1>1 DEF MapsInv, Waiting
  <2>4. Asked(e.name, toNode) => Asked(e.name, t) \/ e.name \in nodeSubs'
    BY <1>2, <2>2, Zenon DEF Asked
  <2>5. \/ Asked(e.name, pendingClients) \/ Asked(e.name, toNode)
        \/ backend = "open" /\ e.name \in nodeSubs
    BY Zenon DEF MapsInv, OnItsWay
  <2> QED BY <2>2, <2>3, <2>4, <2>5, Zenon
<1>6. OneEntry' /\ \A d \in Clients : Kept(d)'
  BY <1>1, SameIndex DEF MapsInv, OneEntry
<1> QED BY <1>3, <1>4, <1>5, <1>6, Zenon DEF MapsInv

\* A step that leaves the maps, the states and the requests alone.
LEMMA SameMaps ==
    ASSUME MapsInv,
           UNCHANGED <<subs, clientSubs, state, backend, pendingClients, toNode, nodeSubs, nreq, used>>
    PROVE  MapsInv'
<1>1. Types' /\ Waiting'
  BY DEF MapsInv, Types, Waiting
<1>2. Sent' /\ OnItsWay' /\ OneEntry'
  BY Zenon DEF MapsInv, Sent, OnItsWay, NoneLeft, OneEntry
<1>3. \A d \in Clients : Kept(d)'
  BY SameIndex DEF MapsInv
<1> QED BY <1>1, <1>2, <1>3, Zenon DEF MapsInv

\* The requests that clients can make have the names that the lemmas above ask for.
LEMMA ClientMaps ==
    ASSUME MapsInv, NEW c \in Clients
    PROVE  /\ \A name \in Channels : Subscribe(c, "subscribe", name) => MapsInv'
           /\ \A name \in Names : Subscribe(c, "psubscribe", name) => MapsInv'
           /\ Subscribe(c, "bare", "") => MapsInv'
           /\ \A name \in Channels : Unsubscribe(c, "unsubscribe", name) => MapsInv'
           /\ \A name \in Names : Unsubscribe(c, "punsubscribe", name) => MapsInv'
           /\ \A cmd \in {"all", "pall"} : Unsubscribe(c, cmd, "") => MapsInv'
<1>1. \A cmd \in {"subscribe", "psubscribe", "bare"}, name \in Named :
         (cmd # "bare" => name \in Names) /\ Subscribe(c, cmd, name) => MapsInv'
  BY SubscribeMaps
<1>2. \A cmd \in {"unsubscribe", "punsubscribe", "all", "pall"}, name \in Named :
         Unsubscribe(c, cmd, name) => MapsInv'
  BY UnsubscribeMaps
<1>3. Channels \subseteq Names /\ Names \subseteq Named /\ "" \in Named
  BY Zenon DEF Names, Named
<1> QED BY <1>1, <1>2, <1>3, Zenon

\* Every step keeps the maps' invariant.
LEMMA NextMaps ==
    ASSUME MapsInv, [Next]_vars
    PROVE  MapsInv'
<1>1. ASSUME NEW c \in Clients,
             \/ \E name \in Channels : Subscribe(c, "subscribe", name)
                                       \/ Unsubscribe(c, "unsubscribe", name)
             \/ \E name \in Names : Subscribe(c, "psubscribe", name)
                                    \/ Unsubscribe(c, "punsubscribe", name)
             \/ Subscribe(c, "bare", "")
             \/ Unsubscribe(c, "all", "") \/ Unsubscribe(c, "pall", "")
      PROVE  MapsInv'
  BY <1>1, ClientMaps, Zenon
<1>2. ASSUME NEW c \in Clients, Reset(c) \/ ClientClose(c)
      PROVE  MapsInv'
  BY <1>2, ResetMaps, CloseMaps
<1>3. CASE OnTraffic
  BY <1>3, SameMaps DEF OnTraffic
<1>4. ASSUME NEW channel \in Channels, Publish(channel)
      PROVE  MapsInv'
  BY <1>4, SameMaps DEF Publish
<1>5. CASE UNCHANGED vars
  BY <1>5, SameMaps DEF vars
<1> QED
  BY <1>1, <1>2, <1>3, <1>4, <1>5, OpenMaps, DialFailMaps, LossMaps, NodeMaps, Zenon DEF Next

\* In every behaviour the hub's two maps, the clients' states and what was sent
\* to the node fit together.
THEOREM MapsInvariance == Spec => []MapsInv
<1>1. Init => MapsInv
  BY InitMaps
<1>2. MapsInv /\ [Next]_vars => MapsInv'
  BY NextMaps
<1> QED BY <1>1, <1>2, PTL DEF Spec

\* For any clients, channels and failures: of a client that sends neither RESET nor
\* UNSUBSCRIBE or PUNSUBSCRIBE without arguments, hub.subs and hub.clientSubs say
\* the same, whatever the others send.
THEOREM IndexesAgree == Spec => []Indexed
<1>1. MapsInv => Indexed
  <2> SUFFICES ASSUME MapsInv, NEW d \in Clients, Tracked(d)
               PROVE  clientSubs[d] = {e.name : e \in {f \in subs : f.c = d}}
    BY Zenon DEF Indexed
  <2>1. \A n : n \in clientSubs[d] <=> \E e \in subs : e.c = d /\ e.name = n
    BY Zenon DEF MapsInv, Kept
  <2> QED BY <2>1
<1> QED BY <1>1, MapsInvariance, PTL

\* ... and it is in the subscribed state when it has an entry, and only then unless
\* it sent a SUBSCRIBE without channels.
THEOREM SubscribedClients == Spec => []OnlySubscribed
<1>1. MapsInv => OnlySubscribed
  BY Zenon DEF MapsInv, Kept, OnlySubscribed
<1> QED BY <1>1, MapsInvariance, PTL

\* When nothing is on its way, the channels of the hub's entries are subscribed
\* at the node, also when the request waited through failed dials; unless a
\* client sent an UNSUBSCRIBE.
THEOREM NodeSubscribed == Spec => []StillSubscribed
<1>1. MapsInv => StillSubscribed
  BY InEmpty, Zenon DEF MapsInv, Waiting, OnItsWay, NoneLeft, Asked, StillSubscribed, Settled
<1> QED BY <1>1, MapsInvariance, PTL
===============================================================================
