------------------------------ MODULE BackendMux ------------------------------
(***************************************************************************)
(* pkg/engine/backend_mux.go: the shared, pipelined connections of one     *)
(* event loop to the cluster's nodes, and the clients that use them.       *)
(*                                                                         *)
(* A node answers in the order in which it is asked, so the proxy keeps,   *)
(* per connection, the list `pending` of whom each coming reply is for.    *)
(* Everything depends on that list and the bytes on the wire staying in    *)
(* step while requests are buffered, dialled for, redirected and lost.     *)
(*                                                                         *)
(* One loop runs all handlers: an action is a handler, except that         *)
(* onTraffic of a backend is a run of reply steps closed by EndTraffic.  A *)
(* node computes its answer when the proxy reads it; what it says, a value *)
(* or a redirection, is left open.                                         *)
(***************************************************************************)
EXTENDS RespSlots, FiniteSets

CONSTANTS Clients, Addrs,
          Replicas,      \* the addresses the topology shows as replicas
          Redirects,     \* sets of redirections ("moved", "ask") that meet in a behaviour
          MaxRedirects,  \* maxMuxRedirects
          Loads,         \* what the clients send: per client and request, how many
                         \* slots of the cluster its keys are in (1 or 2)
          MaxReq,        \* most requests of a client
          NoAddr

ASSUME MuxAssumption ==
    /\ Replicas \subseteq Addrs
    /\ Redirects \subseteq SUBSET {"moved", "ask"}
    /\ MaxRedirects \in Nat /\ MaxReq \in Nat
    /\ \A l \in Loads : /\ l \in [Clients -> Seq(1..2)]
                        /\ \A c \in Clients : Len(l[c]) <= MaxReq
    /\ NoAddr \notin Addrs

VARIABLES
    kinds,      \* the redirections the nodes send
    load,       \* what the clients send
    mux,        \* per address, the backendMuxConn, its dialing queue and its wire
    respQueue, respBase,   \* clientCtx, per client
    open,       \* clients whose connection has a context
    tasks,      \* closures of fillResponseSlot queued on the loop
    accum,      \* writeAccum, per client
    traffic,    \* the backend whose onTraffic runs, or NoAddr
    out, nreq   \* per client: replies written, requests dispatched

vars == <<kinds, load, mux, respQueue, respBase, open, tasks, accum, traffic, out, nreq>>

clientVars == <<respQueue, respBase, accum, out, nreq>>

\* A command as a node sees it.  `ask` marks a request that a node deferred to
\* its importing node: it is served there only right after ASKING.
Cmd(c, n, sub) == [op |-> "req", client |-> c, req |-> n, sub |-> sub, ask |-> FALSE]

\* pendingClientReq; sub # 0 in cmd stands for fanIn # nil.
Entry(c, idx, cmd) ==
    [client |-> c, idx |-> idx, depth |-> 0, cmd |-> cmd, skip |-> FALSE, asking |-> FALSE]

\* The bytes an entry puts on the wire: askingBytes or the request's own.
Wire(e) == IF e.asking THEN [e.cmd EXCEPT !.op = "asking", !.ask = FALSE] ELSE e.cmd

Wires(entries) == [i \in DOMAIN entries |-> Wire(entries[i])]

NoConn == [open |-> FALSE, dialing |-> <<>>, pending |-> <<>>, writeBuf |-> <<>>,
           wire |-> <<>>, asked |-> FALSE]

Init ==
    /\ kinds \in Redirects
    /\ load \in Loads
    /\ mux = [a \in Addrs |-> NoConn]
    /\ respQueue = [c \in Clients |-> <<>>]
    /\ respBase = [c \in Clients |-> 0]
    /\ open = {c \in Clients : load[c] # <<>>}   \* who sends nothing does not connect
    /\ tasks = <<>>
    /\ accum = [c \in Clients |-> <<>>]
    /\ traffic = NoAddr
    /\ out = [c \in Clients |-> <<>>]
    /\ nreq = [c \in Clients |-> 0]

------------------------------------------------------------------------------
\* backendMux.send, sendAsk and flushBackendWrites, as functions of mux.

\* send: buffered on an open connection, else queued for the dial (which the
\* first one in the queue starts).
Send(m, a, e) ==
    IF m[a].open
    THEN [m EXCEPT ![a].pending = Append(@, e), ![a].writeBuf = Append(@, Wire(e))]
    ELSE [m EXCEPT ![a].dialing = Append(@, e)]

\* Mutated form: the request of an ASK goes out without ASKING.
SendAsk_NoSentinel(m, a, e) ==
    LET asked == [e EXCEPT !.cmd.ask = TRUE] IN
    IF m[a].open
    THEN [m EXCEPT ![a].pending = Append(@, asked), ![a].wire = Append(@, Wire(asked))]
    ELSE [m EXCEPT ![a].dialing = Append(@, asked)]

\* sendAsk: the sentinel whose reply is skipped, then the request; written to
\* the connection itself, not to writeBuf.
SendAsk(m, a, e) ==
    LET asked == [e EXCEPT !.cmd.ask = TRUE]
        skip  == [asked EXCEPT !.skip = TRUE, !.asking = TRUE]
    IN IF m[a].open
       THEN [m EXCEPT ![a].pending = @ \o <<skip, asked>>,
                      ![a].wire = @ \o <<Wire(skip), Wire(asked)>>]
       ELSE [m EXCEPT ![a].dialing = @ \o <<skip, asked>>]

\* flushBackendWrites
FlushWrites(m) ==
    [a \in Addrs |-> [m[a] EXCEPT !.wire = @ \o m[a].writeBuf, !.writeBuf = <<>>]]

------------------------------------------------------------------------------
\* Client requests.  A batch of pipelined requests is flushed once, at the end
\* of onClientTraffic; nothing else runs in between, so one at a time is the same.

\* The next request of c has keys in this many slots.
Sends(c, slots) == nreq[c] < Len(load[c]) /\ load[c][nreq[c] + 1] = slots

\* routeToBackend: the topology names node a for the key.
Dispatch(c, a) ==
    /\ traffic = NoAddr /\ c \in open /\ Sends(c, 1)
    /\ nreq' = [nreq EXCEPT ![c] = @ + 1]
    /\ respQueue' = [respQueue EXCEPT ![c] = Append(@, NewSlot(0))]
    /\ mux' = FlushWrites(Send(mux, a,
                  Entry(c, NextIdx(respQueue[c], respBase[c]), Cmd(c, nreq[c] + 1, 0))))
    /\ UNCHANGED <<respBase, open, tasks, accum, traffic, out>>

\* routeMultiKeyToMux over two slots of the cluster, held by a and b.
DispatchFanIn(c, a, b) ==
    /\ traffic = NoAddr /\ c \in open /\ Sends(c, 2)
    /\ nreq' = [nreq EXCEPT ![c] = @ + 1]
    /\ respQueue' = [respQueue EXCEPT ![c] = Append(@, NewSlot(2))]
    /\ LET idx == NextIdx(respQueue[c], respBase[c])
           sub(s) == Entry(c, idx, Cmd(c, nreq[c] + 1, s))
       IN mux' = FlushWrites(Send(Send(mux, a, sub(1)), b, sub(2)))
    /\ UNCHANGED <<respBase, open, tasks, accum, traffic, out>>

\* onClientClose: the connection loses its context; what it has pending stays.
ClientClose(c) ==
    /\ traffic = NoAddr /\ c \in open
    /\ open' = open \ {c}
    /\ UNCHANGED <<mux, tasks, traffic, clientVars>>

------------------------------------------------------------------------------
\* Backend connections.

Readonly(e) ==
    [e EXCEPT !.skip = TRUE, !.asking = FALSE, !.depth = 0,
              !.cmd = [@ EXCEPT !.op = "readonly", !.ask = FALSE]]

\* Mutated form: READONLY is sent, but no entry waits for its reply.
DialOk_NoReadonlyEntry(a) ==
    /\ traffic = NoAddr /\ mux[a].dialing # <<>>
    /\ LET queued == mux[a].dialing
           all == IF a \in Replicas THEN <<Readonly(Head(queued))>> \o queued ELSE queued
       IN mux' = [mux EXCEPT ![a] =
                     [NoConn EXCEPT !.open = TRUE, !.pending = queued, !.wire = Wires(all)]]
    /\ UNCHANGED <<open, tasks, traffic, clientVars>>

\* onOpen: the queue of the dial is written, after READONLY on a replica.
DialOk(a) ==
    /\ traffic = NoAddr /\ mux[a].dialing # <<>>
    /\ LET queued == mux[a].dialing
           all == IF a \in Replicas THEN <<Readonly(Head(queued))>> \o queued ELSE queued
       IN mux' = [mux EXCEPT ![a] =
                     [NoConn EXCEPT !.open = TRUE, !.pending = all, !.wire = Wires(all)]]
    /\ UNCHANGED <<open, tasks, traffic, clientVars>>

\* The closure that answers an entry with an error.
ErrorTask(e) == [client |-> e.client, idx |-> e.idx, data |-> Reply("error", e.cmd)]

\* The loop over a list of entries that skips sentinels and closed clients: the
\* set holds the one list of closures it queues.  f picks the entries, in order.
Errors(entries) ==
    LET owing == {i \in DOMAIN entries : ~entries[i].skip /\ entries[i].client \in open}
        n == Cardinality(owing)
        picks == {f \in [1..n -> owing] : \A i, j \in 1..n : i < j => f[i] < f[j]}
    IN {[k \in 1..n |-> ErrorTask(entries[f[k]])] : f \in picks}

\* failDialing
DialFail(a) ==
    /\ traffic = NoAddr /\ mux[a].dialing # <<>>
    /\ \E failed \in Errors(mux[a].dialing) : tasks' = tasks \o failed
    /\ mux' = [mux EXCEPT ![a] = NoConn]
    /\ UNCHANGED <<open, traffic, clientVars>>

\* Mutated form: a lost connection answers nobody.
ConnClose_Silent(a) ==
    /\ traffic = NoAddr /\ mux[a].open
    /\ mux' = [mux EXCEPT ![a] = NoConn]
    /\ UNCHANGED <<open, tasks, traffic, clientVars>>

\* onClose: the connection is lost and with it every reply it owed.
ConnClose(a) ==
    /\ traffic = NoAddr /\ mux[a].open
    /\ \E failed \in Errors(mux[a].pending) : tasks' = tasks \o failed
    /\ mux' = [mux EXCEPT ![a] = NoConn]
    /\ UNCHANGED <<open, traffic, clientVars>>

\* The closure of fillResponseSlot; on a closed connection nothing is written.
FillResponseSlotInLoop ==
    /\ traffic = NoAddr /\ tasks # <<>>
    /\ LET t == Head(tasks) IN
       \E r \in FillInLoop(respQueue[t.client], respBase[t.client], t.idx, t.data) :
          /\ respQueue' = [respQueue EXCEPT ![t.client] = r.queue]
          /\ respBase' = [respBase EXCEPT ![t.client] = @ + Len(r.iov)]
          /\ out' = [out EXCEPT ![t.client] = IF t.client \in open THEN @ \o r.iov ELSE @]
    /\ tasks' = Tail(tasks)
    /\ UNCHANGED <<mux, open, accum, traffic, nreq>>

------------------------------------------------------------------------------
\* onTraffic.

\* The entry the next reply of a is for; a reply nobody waits for is dropped.
Waiting(a) ==
    IF mux[a].pending = <<>>
    THEN [Entry(Head(mux[a].wire).client, 0, Head(mux[a].wire)) EXCEPT !.skip = TRUE]
    ELSE Head(mux[a].pending)

\* A complete reply of a is in the read buffer.
CanRead(a) == traffic \in {NoAddr, a} /\ mux[a].open /\ mux[a].wire # <<>>

\* mux when the next reply of a was read and its entry taken off pending.
Read(a) ==
    [mux EXCEPT ![a].pending = IF @ = <<>> THEN @ ELSE Tail(@),
                ![a].wire = Tail(@),
                ![a].asked = Head(mux[a].wire).op = "asking"]

\* The reply of READONLY or ASKING.
ReadSkipped(a) ==
    /\ CanRead(a) /\ Waiting(a).skip
    /\ mux' = Read(a)
    /\ traffic' = a
    /\ UNCHANGED <<open, tasks, clientVars>>

\* MOVED or ASK: the request is sent again, to the node named by the reply.
ReadRedirect(a, kind, b) ==
    /\ CanRead(a) /\ ~Waiting(a).skip
    /\ Head(mux[a].wire).op = "req" /\ Waiting(a).depth < MaxRedirects
    /\ LET e == [Waiting(a) EXCEPT !.depth = @ + 1, !.cmd.ask = FALSE] IN
       \/ kind = "moved" /\ mux' = Send(Read(a), b, e)
       \/ kind = "ask"   /\ mux' = SendAsk(Read(a), b, e)
    /\ traffic' = a
    /\ UNCHANGED <<open, tasks, clientVars>>

\* Any other reply (a redirection too deep included) is the client's, if it is
\* still there.
ReadReply(a) ==
    /\ CanRead(a) /\ ~Waiting(a).skip
    /\ LET e == Waiting(a)
           c == e.client
           tag == Head(mux[a].wire)
       IN \/ /\ c \in open
             /\ \E r \in IF e.cmd.sub # 0
                         THEN AccumulateSub(respQueue[c], respBase[c], e.idx, tag)
                         ELSE AccumulateSlot(respQueue[c], respBase[c], e.idx, tag) :
                   /\ respQueue' = [respQueue EXCEPT ![c] = r.queue]
                   /\ respBase' = [respBase EXCEPT ![c] = @ + Len(r.iov)]
                   /\ accum' = [accum EXCEPT ![c] = @ \o r.iov]
          \/ c \notin open /\ UNCHANGED <<respQueue, respBase, accum>>
    /\ mux' = Read(a)
    /\ traffic' = a
    /\ UNCHANGED <<open, tasks, out, nreq>>

\* The end of onTraffic: flushWriteAccum, flushBackendWrites.
EndTraffic ==
    /\ traffic # NoAddr
    /\ out' = [c \in Clients |-> out[c] \o accum[c]]
    /\ accum' = [c \in Clients |-> <<>>]
    /\ mux' = FlushWrites(mux)
    /\ traffic' = NoAddr
    /\ UNCHANGED <<respQueue, respBase, open, tasks, nreq>>

------------------------------------------------------------------------------
\* What the loop and the nodes do without the client.
Progress ==
    /\ UNCHANGED <<kinds, load>>
    /\ \/ FillResponseSlotInLoop
       \/ EndTraffic
       \/ \E a \in Addrs :
             \/ DialOk(a)
             \/ DialFail(a)
             \/ ReadSkipped(a)
             \/ ReadReply(a)
             \/ \E kind \in kinds, b \in Addrs \ {a} : ReadRedirect(a, kind, b)

Next ==
    /\ UNCHANGED <<kinds, load>>
    /\ \/ \E c \in Clients, a \in Addrs : Dispatch(c, a)
       \/ \E c \in Clients, a, b \in Addrs : DispatchFanIn(c, a, b)
       \/ \E c \in Clients : ClientClose(c)
       \/ \E a \in Addrs : ConnClose(a)
       \/ Progress

\* The loop runs, a dial ends, and a node answers or its connection closes (the
\* mux has no timeout of its own).  With MaxReq requests and MaxRedirects hops
\* there is no endless run of Progress that starves one of its parts.
Spec == Init /\ [][Next]_vars /\ WF_vars(Progress)

------------------------------------------------------------------------------
\* Properties.

\* The k-th entry of pending is the one for the k-th command on the wire: a
\* reply is never handed to another request, of this client or another, and a
\* sentinel's reply is the one that is skipped.
PendingMatchesWire ==
    \A a \in Addrs : Wires(mux[a].pending) = mux[a].wire \o mux[a].writeBuf

\* Every client gets the replies of its own requests, in the order it sent
\* them, with every sub-response of a fan-in and nothing else in a merged one.
OwnRepliesInOrder ==
    \A c \in Clients : \A i \in DOMAIN out[c] :
        /\ out[c][i].req = i
        /\ \A p \in out[c][i].parts : p.op = "req" /\ p.client = c /\ p.req = i
        /\ out[c][i].kind = "merged" => {p.sub : p \in out[c][i].parts} = 1..out[c][i].total

\* A request that was answered with ASK is served right after an ASKING, and an
\* ASKING is never spent on another request, of whichever client.
AskingAdjacent ==
    \A a \in Addrs :
        LET w == mux[a].wire \o mux[a].writeBuf IN
        /\ \A i \in DOMAIN w :
              w[i].ask = IF i = 1 THEN mux[a].asked ELSE w[i - 1].op = "asking"
        /\ w = <<>> => ~mux[a].asked

\* A client that stays connected has every request answered, through failed
\* dials, lost connections and redirections: again and again (so, once it stops
\* sending, for good) it has as many replies as it sent requests.
Answered == \A c \in Clients : []<>(Len(out[c]) = nreq[c] \/ c \notin open)
===============================================================================
