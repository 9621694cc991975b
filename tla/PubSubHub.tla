------------------------------ MODULE PubSubHub ------------------------------
(***************************************************************************)
(* The pub/sub hub of one event loop (pubsub_hub.go, handler_pubsub.go):   *)
(* the subscriptions of all the loop's clients, the one backend connection *)
(* they share, and the node at its other end.                              *)
(*                                                                         *)
(* Channels and patterns are names of one map; "*" is the only pattern     *)
(* that is not literal.  A request names one channel or pattern, or none   *)
(* ("" is its name then): "bare" is a SUBSCRIBE or PSUBSCRIBE without      *)
(* arguments, "all" and "pall" are UNSUBSCRIBE and PUNSUBSCRIBE without.   *)
(***************************************************************************)
EXTENDS Integers, Sequences, FiniteSets

CONSTANTS Clients,
          Channels,
          Cmds,     \* what clients send
          MayFail,  \* "dial" of the shared connection, "loss" of it
          MaxReq,   \* requests, of all clients
          MaxPub    \* messages published

ASSUME HubAssumption ==
    /\ Cmds \subseteq {"subscribe", "psubscribe", "bare", "unsubscribe", "punsubscribe", "all",
                       "pall", "reset"}
    /\ MayFail \subseteq {"dial", "loss"} /\ MaxReq \in Nat /\ MaxPub \in Nat

VARIABLES subs,           \* entries [name, c, glob, at] of hub.subs, in the order of at,
                          \* the number of the request that made the entry
          clientSubs,     \* hub.clientSubs
          state,          \* per client: "normal", "subscribe", "closed"
          backend,        \* "none", "dialing" or "open"
          pendingClients, \* requests that wait for the connection
          toNode,         \* commands written to the node
          fromNode,       \* what the node wrote
          nodeSubs,       \* channels the node has for the connection
          nodePats,       \* patterns
          nreq,           \* requests so far, of which each has its number
          used,           \* history, per client: the commands it sent
          awaiting,       \* history: requests [c, n] that were not acknowledged
          published,      \* history: messages [channel, exact, pats, at], the copies that
                          \* the node sent of each and the number of requests before it
          got             \* history, per client, name and message: how often it was written

vars == <<subs, clientSubs, state, backend, pendingClients, toNode, fromNode, nodeSubs, nodePats,
          nreq, used, awaiting, published, got>>
nodeVars == <<toNode, fromNode, nodeSubs, nodePats>>

Names == Channels \cup {"*"}

\* globMatch
GlobMatch(pattern, channel) == pattern \in {"*", channel}

\* The hub's own PSUBSCRIBE has the number 0.
Req(cmd, name, n) == [cmd |-> cmd, name |-> name, n |-> n]

Init ==
    /\ subs = {} /\ clientSubs = [c \in Clients |-> {}]
    /\ state = [c \in Clients |-> "normal"]
    /\ backend = "none" /\ pendingClients = <<>>
    /\ toNode = <<>> /\ fromNode = <<>> /\ nodeSubs = {} /\ nodePats = {}
    /\ nreq = 0 /\ used = [c \in Clients |-> {}] /\ awaiting = {}
    /\ published = <<>>
    /\ got = [c \in Clients |-> [k \in Names \X (1..MaxPub) |-> 0]]

------------------------------------------------------------------------------
\* Requests of the clients.

\* Mutated form: the list is not searched for the client.
AddSub_NoCheck(c, name, glob) ==
    /\ subs' = subs \cup {[name |-> name, c |-> c, glob |-> glob, at |-> nreq + 1]}
    /\ clientSubs' = [clientSubs EXCEPT ![c] = @ \cup {name}]

\* addSub
AddSub(c, name, glob) ==
    IF \E e \in subs : e.name = name /\ e.c = c THEN UNCHANGED <<subs, clientSubs>>
    ELSE /\ subs' = subs \cup {[name |-> name, c |-> c, glob |-> glob, at |-> nreq + 1]}
         /\ clientSubs' = [clientSubs EXCEPT ![c] = @ \cup {name}]

\* The first entry of a client in the list of each of some names.
First(c, S) ==
    {e \in subs : e.c = c /\ e.name \in S
                  /\ \A f \in subs : f.c = c /\ f.name = e.name => e.at <= f.at}

\* Mutated form: hub.clientSubs is not kept up to date.
RemoveSub_Half(c, name) == subs' = subs \ First(c, {name}) /\ UNCHANGED clientSubs

\* removeSub
RemoveSub(c, name) ==
    /\ subs' = subs \ First(c, {name})
    /\ clientSubs' = [clientSubs EXCEPT ![c] = @ \ {name}]

\* removeAllSubs leaves clientSubs alone.
RemoveAllSubs(c) == subs' = subs \ First(c, clientSubs[c])

\* Request number nreq' of a client.
Sends(c, cmd) ==
    /\ cmd \in Cmds /\ nreq < MaxReq
    /\ nreq' = nreq + 1
    /\ used' = [used EXCEPT ![c] = @ \cup {cmd}]

\* hub.subscribe, with dialSharedBackend.  A request without names makes no entry,
\* and is sent to the node all the same.
Subscribe(c, cmd, name) ==
    LET r == Req(cmd, name, nreq + 1) IN
    /\ state[c] \in {"normal", "subscribe"} /\ Sends(c, cmd)
    /\ state' = [state EXCEPT ![c] = "subscribe"]
    /\ IF cmd = "bare" THEN UNCHANGED <<subs, clientSubs>> ELSE AddSub(c, name, cmd = "psubscribe")
    /\ backend' = IF backend = "none" THEN "dialing" ELSE backend
    /\ IF backend = "open" THEN toNode' = Append(toNode, r) /\ UNCHANGED pendingClients
       ELSE pendingClients' = Append(pendingClients, r) /\ UNCHANGED toNode
    /\ awaiting' = awaiting \cup {[c |-> c, n |-> nreq + 1]}
    /\ UNCHANGED <<fromNode, nodeSubs, nodePats, published, got>>

\* hub.unsubscribe; without a connection the hub itself acknowledges, once for
\* each channel named.
Unsubscribe(c, cmd, name) ==
    /\ state[c] = "subscribe" /\ Sends(c, cmd)
    /\ IF cmd \in {"all", "pall"} THEN RemoveAllSubs(c) /\ UNCHANGED clientSubs
       ELSE RemoveSub(c, name)
    /\ state' = [state EXCEPT ![c] = IF clientSubs'[c] = {} THEN "normal" ELSE @]
    /\ toNode' = IF backend = "open" THEN Append(toNode, Req(cmd, name, nreq + 1)) ELSE toNode
    /\ awaiting' = IF backend = "open" \/ cmd \in {"all", "pall"}
                   THEN awaiting \cup {[c |-> c, n |-> nreq + 1]} ELSE awaiting
    /\ UNCHANGED <<backend, pendingClients, fromNode, nodeSubs, nodePats, published, got>>

\* RESET in handleInSubscribe: resetClientState knows nothing of the hub.
Reset(c) ==
    /\ state[c] = "subscribe" /\ Sends(c, "reset")
    /\ state' = [state EXCEPT ![c] = "normal"]
    /\ UNCHANGED <<subs, clientSubs, backend, pendingClients, nodeVars, awaiting, published, got>>

\* Mutated form: the client's entries stay.
ClientClose_Kept(c) ==
    /\ state[c] # "closed"
    /\ state' = [state EXCEPT ![c] = "closed"]
    /\ UNCHANGED <<subs, clientSubs, backend, pendingClients, nodeVars, nreq, used, awaiting,
                   published, got>>

\* onClientClose, with removeClient
ClientClose(c) ==
    /\ state[c] # "closed"
    /\ state' = [state EXCEPT ![c] = "closed"]
    /\ IF state[c] = "subscribe"
       THEN RemoveAllSubs(c) /\ clientSubs' = [clientSubs EXCEPT ![c] = {}]
       ELSE UNCHANGED <<subs, clientSubs>>
    /\ UNCHANGED <<backend, pendingClients, nodeVars, nreq, used, awaiting, published, got>>

------------------------------------------------------------------------------
\* The shared connection.

\* Mutated form: the waiting requests are not sent.
OnOpen_NoFlush ==
    /\ backend = "dialing"
    /\ backend' = "open"
    /\ toNode' = <<Req("psubscribe", "*", 0)>>
    /\ pendingClients' = <<>>
    /\ UNCHANGED <<subs, clientSubs, state, fromNode, nodeSubs, nodePats, nreq, used, awaiting,
                   published, got>>

\* onSharedBackendOpen
OnOpen ==
    /\ backend = "dialing"
    /\ backend' = "open"
    /\ toNode' = <<Req("psubscribe", "*", 0)>> \o pendingClients
    /\ pendingClients' = <<>>
    /\ UNCHANGED <<subs, clientSubs, state, fromNode, nodeSubs, nodePats, nreq, used, awaiting,
                   published, got>>

\* The goroutine of dialSharedBackend reports an error.
DialFail ==
    /\ "dial" \in MayFail /\ backend = "dialing"
    /\ backend' = "none"
    /\ UNCHANGED <<subs, clientSubs, state, pendingClients, nodeVars, nreq, used, awaiting, published,
                   got>>

\* onSharedBackendClose: each client with an entry is told, and back to normal.
OnClose ==
    LET told == {e.c : e \in subs} IN
    /\ "loss" \in MayFail /\ backend = "open"
    /\ backend' = "none"
    /\ state' = [c \in Clients |-> IF c \in told /\ state[c] # "closed"
                             THEN "normal" ELSE state[c]]
    /\ subs' = {}
    /\ clientSubs' = [c \in Clients |-> {}]
    /\ toNode' = <<>> /\ fromNode' = <<>> /\ nodeSubs' = {} /\ nodePats' = {}
    /\ awaiting' = {a \in awaiting : a.c \notin told}
    /\ UNCHANGED <<pendingClients, nreq, used, published, got>>

\* dispatchMessage: the entries a message of the node is written to.  Errors and
\* replies to PSUBSCRIBE and PUNSUBSCRIBE are written to nobody.
Exact(channel) == {e \in subs : ~e.glob /\ e.name = channel}
Globs(channel) == {e \in subs : e.glob /\ GlobMatch(e.name, channel)}

Targets(msg) ==
    CASE msg.type \in {"psubscribe", "punsubscribe", "error"} -> {}
      [] msg.type \in {"subscribe", "unsubscribe"} -> Exact(msg.channel)
      [] msg.type = "message" -> Exact(msg.channel) \cup Globs(msg.channel)
      [] msg.type = "pmessage" -> Globs(msg.channel)

\* onSharedBackendTraffic
OnTraffic ==
    LET msg == Head(fromNode)
        writes(c, k) == {e \in Targets(msg) : e.c = c /\ k = <<e.name, msg.id>>}
    IN /\ backend = "open" /\ fromNode # <<>>
       /\ fromNode' = Tail(fromNode)
       /\ IF msg.type \in {"message", "pmessage"}
          THEN /\ got' = [c \in Clients |-> [k \in DOMAIN got[c] |->
                            got[c][k] + Cardinality(writes(c, k))]]
               /\ UNCHANGED awaiting
          ELSE /\ awaiting' = awaiting \ {[c |-> e.c, n |-> msg.id] : e \in Targets(msg)}
               /\ UNCHANGED got
       /\ UNCHANGED <<subs, clientSubs, state, backend, pendingClients, toNode, nodeSubs,
                      nodePats, nreq, used, published>>

------------------------------------------------------------------------------
\* The node.

\* What the node writes: id is the number of the request it replies to, or of the
\* message.
Msg(type, channel, id) == [type |-> type, channel |-> channel, id |-> id]

\* The node's replies: one for the name, an error if there is none, or one for
\* each channel in some order (one stands for those of PUNSUBSCRIBE, which nobody
\* gets).
Acks(r) ==
    LET all == {Msg("unsubscribe", ch, r.n) : ch \in nodeSubs} IN
    CASE r.cmd = "bare" -> {<<Msg("error", "", r.n)>>}
      [] r.cmd = "pall" -> {<<Msg("punsubscribe", "", r.n)>>}
      [] r.cmd = "all" -> {s \in [1..Cardinality(nodeSubs) -> all] :
                             \A m \in all : \E i \in DOMAIN s : s[i] = m}
      [] OTHER -> {<<Msg(r.cmd, r.name, r.n)>>}

\* The node runs the next command.
NodeStep ==
    LET r == Head(toNode)
    IN /\ toNode # <<>>
       /\ toNode' = Tail(toNode)
       /\ \E acks \in Acks(r) : fromNode' = fromNode \o acks
       /\ nodeSubs' = CASE r.cmd = "subscribe" -> nodeSubs \cup {r.name}
                        [] r.cmd = "unsubscribe" -> nodeSubs \ {r.name}
                        [] r.cmd = "all" -> {}
                        [] OTHER -> nodeSubs
       /\ nodePats' = CASE r.cmd = "psubscribe" -> nodePats \cup {r.name}
                        [] r.cmd = "punsubscribe" -> nodePats \ {r.name}
                        [] r.cmd = "pall" -> {}
                        [] OTHER -> nodePats
       /\ UNCHANGED <<subs, clientSubs, state, backend, pendingClients, nreq, used, awaiting, published,
                      got>>

\* Somebody publishes on a channel: one message for the channel's subscription
\* and one for each pattern that matches.
Publish(channel) ==
    LET id == Len(published) + 1
        pats == Cardinality({p \in nodePats : GlobMatch(p, channel)})
    IN /\ Len(published) < MaxPub
       /\ published' = Append(published,
             [channel |-> channel, exact |-> IF channel \in nodeSubs THEN 1 ELSE 0, pats |-> pats,
              at |-> nreq])
       /\ fromNode' = (IF channel \in nodeSubs
                       THEN Append(fromNode, Msg("message", channel, id)) ELSE fromNode)
                      \o [i \in 1..pats |-> Msg("pmessage", channel, id)]
       /\ UNCHANGED <<subs, clientSubs, state, backend, pendingClients, toNode, nodeSubs, nodePats,
                      nreq, used, awaiting, got>>

------------------------------------------------------------------------------
Next ==
    \/ \E c \in Clients :
          \/ \E name \in Channels : Subscribe(c, "subscribe", name)
                                    \/ Unsubscribe(c, "unsubscribe", name)
          \/ \E name \in Names : Subscribe(c, "psubscribe", name)
                                 \/ Unsubscribe(c, "punsubscribe", name)
          \/ Subscribe(c, "bare", "")
          \/ Unsubscribe(c, "all", "") \/ Unsubscribe(c, "pall", "")
          \/ Reset(c) \/ ClientClose(c)
    \/ OnOpen \/ DialFail \/ OnClose \/ OnTraffic \/ NodeStep
    \/ \E channel \in Channels : Publish(channel)

Spec == Init /\ [][Next]_vars

------------------------------------------------------------------------------
\* Properties.

\* A client that sent no command of which the hub leaves records behind:
\* UNSUBSCRIBE without arguments leaves clientSubs, RESET both maps.
Tracked(c) == used[c] \cap {"all", "pall", "reset"} = {}

\* The hub's two maps say the same: subs has an entry of a client exactly under
\* the names that clientSubs has for it, whatever was subscribed, unsubscribed
\* by name, lost or closed, and whatever the other clients sent.
Indexed ==
    \A c \in Clients : Tracked(c) => clientSubs[c] = {e.name : e \in {f \in subs : f.c = c}}

\* A client of which the hub has an entry is in the subscribed state, so that
\* pushed messages are never mixed with the replies of one that left it, nor sent
\* to one that is gone.  One in that state has an entry, unless it sent a
\* SUBSCRIBE without channels (hub.subscribe sets the state before it looks at
\* the arguments).
OnlySubscribed ==
    \A c \in Clients : Tracked(c) =>
        /\ (\E e \in subs : e.c = c) => state[c] = "subscribe"
        /\ state[c] = "subscribe" /\ "bare" \notin used[c] => \E e \in subs : e.c = c

\* Nothing is on its way between the hub and the node.
Settled == backend = "open" /\ toNode = <<>> /\ fromNode = <<>>

\* Every request is acknowledged to the client that made it.
Acknowledged == Settled => \A a \in awaiting : state[a.c] = "closed"

\* A client that only sends SUBSCRIBE gets the acknowledgement of each of its
\* requests, also of one that waited for the connection (pendingClients), and was
\* kept over a failed dial, and whatever the clients it shares the connection with
\* send meanwhile.
SubscribeAcknowledged ==
    Settled => \A a \in awaiting : used[a.c] \subseteq {"subscribe"} => state[a.c] = "closed"

\* A channel that some client of the hub is subscribed to is subscribed at the
\* node, unless a client's UNSUBSCRIBE ended it for all.
StillSubscribed ==
    Settled /\ (\A c \in Clients : used[c] \cap {"unsubscribe", "all"} = {}) =>
        \A e \in subs : ~e.glob => e.name \in nodeSubs

\* How many items of a sequence are in a set.
Count(s, T) == Cardinality({i \in 1..Len(s) : s[i] \in T})

\* The entry is for messages on the channel.
Fits(e, channel) == IF e.glob THEN GlobMatch(e.name, channel) ELSE e.name = channel

\* The copies of a message that the entry is to get: for a channel the one for
\* its subscription, for a pattern that one and those for the node's patterns.
Copies(e, id) ==
    [type : IF e.glob THEN {"message", "pmessage"} ELSE {"message"},
     channel : {published[id].channel}, id : {id}]

Due(e, id) == published[id].exact + (IF e.glob THEN published[id].pats ELSE 0)

\* Each copy of a message that the node sends is written exactly once to every
\* entry there was when it was published, or is still to be read: none is lost on
\* the way through the hub, and none doubled, though requests repeat names, one
\* client uses a name as a channel and as a pattern, and the hub's own pattern
\* brings every message a second time (dispatchMessage, addSub).
DeliveredOnce ==
    \A e \in subs : \A id \in 1..Len(published) :
        e.at <= published[id].at /\ Fits(e, published[id].channel) =>
            got[e.c][<<e.name, id>>] + Count(fromNode, Copies(e, id)) = Due(e, id)
===============================================================================
