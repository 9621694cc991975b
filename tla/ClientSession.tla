---------------------------- MODULE ClientSession ----------------------------
(***************************************************************************)
(* One client connection and the dedicated backend connections it uses:    *)
(* MULTI/EXEC, WATCH and blocking commands (handler.go, handler_tx.go,     *)
(* handler_blocking.go, blocking_pool.go and the dispatch of               *)
(* handler_routing.go).                                                    *)
(*                                                                         *)
(* All handlers and closures run on the client's event loop.  Each is a    *)
(* function from the loop's state to the loop's state, because they call   *)
(* one another: the answer to a blocking command dispatches the commands   *)
(* held back behind it, any of which may block again.                      *)
(***************************************************************************)
EXTENDS RespSlots, FiniteSets

CONSTANTS Addrs,     \* the nodes
          PoolCap,   \* blockingPoolCap
          Uses,      \* the ways in which clients use the proxy
          MaxReq,    \* most requests a client sends
          MaxMoved   \* most MOVED replies it meets on dedicated connections

\* What a client sends, and which commands of those it does not pipeline with
\* any other; the nodes that the topology gives its keys, and those whose
\* address does not resolve; whether the nodes want a password; how many
\* requests and MOVED replies there are, and what may fail: a dial, AUTH, a
\* WATCH, an open connection.
Use ==
    [ops : SUBSET {"ping", "get", "bad", "multi", "exec", "discard", "watch", "unwatch",
                   "block", "reset", "quit"},
     serial : SUBSET {"exec", "watch", "reset", "quit"},
     keys : SUBSET Addrs, unresolvable : SUBSET Addrs, auth : BOOLEAN,
     reqs : 0..MaxReq, moves : 0..MaxMoved,
     fails : SUBSET {"dial", "auth", "watch", "loss"}]

ASSUME SessionAssumption ==
    MaxReq \in Nat /\ MaxMoved \in Nat /\ PoolCap \in Nat /\ \A u \in Uses : u \in Use

VARIABLES use,     \* how this client uses the proxy
          w,       \* the loop's state: clientCtx, its backends, what was written
          sent,    \* requests the client sent
          last,    \* the last of them
          moved,   \* MOVED replies so far
          inTx,    \* the client has sent MULTI, and no EXEC, DISCARD or RESET after it
          watches  \* the WATCH requests its next EXEC relies on

vars == <<use, w, sent, last, moved, inTx, watches>>

NoReq == [n |-> 0]

\* clientCtx: the response queue; state, txQueue, txErr; the three dedicated
\* connections (0 is nil); what a blocking command or WATCH in progress keeps.
\* conns: every dedicated connection ever dialled; idle: blockingConnPool.
\* loose, guards, unguarded record, for the properties, requests of a
\* transaction that were not queued, acknowledged WATCHes and an EXEC off their
\* connection; lapses: what the code lost on the way of a blocking command (the
\* WATCH before it, the commands held back behind it, its AUTH); crashed: a nil
\* context was used.
Init ==
    /\ use \in Uses
    /\ w = [queue |-> <<>>, base |-> 0, out |-> <<>>, owed |-> {}, tasks |-> <<>>,
            state |-> "normal", txQueue |-> <<>>, txErr |-> FALSE,
            watchB |-> 0, watchAddr |-> "", multiB |-> 0, blockB |-> 0, blockSlot |-> 0,
            pendingCmds |-> <<>>, watchReq |-> NoReq, watchSlot |-> 0,
            conns |-> <<>>, idle |-> [a \in Addrs |-> <<>>], open |-> TRUE,
            loose |-> {}, guards |-> {}, unguarded |-> FALSE, lapses |-> {}, crashed |-> FALSE]
    /\ sent = 0
    /\ last = "none"
    /\ moved = 0
    /\ inTx = FALSE
    /\ watches = {}

------------------------------------------------------------------------------
\* Responses.

\* fillResponseSlotInLoop
Fill(s, idx, kind, n) ==
    LET r == CHOOSE r \in FillInLoop(s.queue, s.base, idx, Reply(kind, [req |-> n])) : TRUE
    IN [s EXCEPT !.queue = r.queue, !.base = @ + Len(r.iov),
                 !.out = IF s.open THEN @ \o r.iov ELSE @]

\* allocResponseSlot (the index is NextIdx of the queue before)
Alloc(s) == [s EXCEPT !.queue = Append(@, NewSlot(0))]

Slot(s) == NextIdx(s.queue, s.base)

\* c.Write, past the queue
Direct(s, n) == [s EXCEPT !.out = Append(@, Reply("reply", [req |-> n]))]

Post(s, task) == [s EXCEPT !.tasks = Append(@, task)]

\* fillResponseSlot
FillLater(s, idx, kind, n) == Post(s, [do |-> "fill", idx |-> idx, kind |-> kind, n |-> n])

\* Mutated form: the queue is not looked at.
WriteImmediate_NoQueueCheck(s, n) == Direct(s, n)

\* writeImmediate
WriteImmediate(s, n) ==
    IF s.queue = <<>> THEN Direct(s, n) ELSE FillLater(Alloc(s), Slot(s), "reply", n)

------------------------------------------------------------------------------
\* Dedicated connections.

\* dialDedicatedBackend, dialMultiBackend, dialBlockingBackend: the address is
\* resolved and registered with the loop.  A transaction of `len` commands keeps
\* its slot in the closure of the goroutine that waits for the connection.
Dial(s, kind, addr, slot, req, len) ==
    IF addr \notin use.unresolvable
    THEN [s EXCEPT !.conns = Append(@,
            [kind |-> kind, addr |-> addr, st |-> "dialing", pending |-> <<>>, req |-> req,
             slot |-> slot, len |-> len, reported |-> FALSE, inMulti |-> FALSE, authed |-> TRUE])]
    ELSE CASE kind = "watch" -> Fill(s, s.watchSlot, "error", req.n)
           [] kind = "multi" -> FillLater(s, slot, "error", req.n)
           [] kind = "block" -> [Fill(s, s.blockSlot, "error", req.n) EXCEPT !.state = "normal"]

\* bctx.pending = append(...) and the write of the command it is for.
Ask(s, id, cb) == [s EXCEPT !.conns[id].pending = Append(@, cb)]

Callback(do, slot, req, len) == [do |-> do, slot |-> slot, req |-> req, len |-> len]

\* EventLoop().Close(conn), onBackendClose included; the case of a blocking
\* command in progress is OnBackendClose below.
CloseConn(s, id) ==
    IF id = 0 THEN s
    ELSE [s EXCEPT !.conns[id].st = "closed", !.conns[id].pending = <<>>,
                   !.watchB = IF @ = id THEN 0 ELSE @,
                   !.multiB = IF @ = id THEN 0 ELSE @,
                   !.blockB = IF @ = id THEN 0 ELSE @]

CloseWatch(s) == [CloseConn(s, s.watchB) EXCEPT !.watchAddr = IF s.watchB = 0 THEN @ ELSE ""]

\* dialBlockingBackend: the last idle connection to addr that is still open,
\* else a new one.
DialBlocking(s, addr, req) ==
    LET live == {i \in DOMAIN s.idle[addr] : s.conns[s.idle[addr][i]].st = "open"} IN
    IF live = {} THEN Dial([s EXCEPT !.idle[addr] = <<>>], "block", addr, 0, req, 0)
    ELSE LET i  == CHOOSE i \in live : \A j \in live : j <= i
             id == s.idle[addr][i]
         IN [s EXCEPT !.idle[addr] = SubSeq(@, 1, i - 1),
                      !.blockB = id,
                      !.conns[id].req = req,
                      !.conns[id].pending = <<Callback("block", 0, req, 0)>>]

\* returnBlockingConn
ReturnBlocking(s, id) ==
    LET addr == s.conns[id].addr IN
    IF s.conns[id].pending = <<>> /\ Len(s.idle[addr]) < PoolCap
    THEN [s EXCEPT !.idle[addr] = Append(@, id)]
    ELSE CloseConn(s, id)

------------------------------------------------------------------------------
\* handler_tx.go

\* An EXEC of the watches `ws` goes out on connection id (0: a new one).
Guard(s, ws, id) ==
    [s EXCEPT !.unguarded = @ \/ \E g \in s.guards : g.n \in ws /\ g.id # id]

\* Mutated form: a connection that watches is never used for a second WATCH.
HandleWATCH_NoReuse(s, req) ==
    Dial([CloseConn(Alloc(s), s.watchB) EXCEPT !.watchAddr = req.addr, !.watchReq = req,
                                               !.watchSlot = Slot(s)],
         "watch", req.addr, 0, req, 0)

HandleWATCH(s, req) ==
    LET slot == Slot(s) IN
    IF s.watchB # 0 /\ s.watchAddr = req.addr
    THEN Ask(Alloc(s), s.watchB, Callback("rewatch", slot, req, 0))
    ELSE Dial([CloseConn(Alloc(s), s.watchB) EXCEPT !.watchAddr = req.addr, !.watchReq = req,
                                                    !.watchSlot = slot],
              "watch", req.addr, 0, req, 0)

HandleUNWATCH(s, req) == WriteImmediate([CloseWatch(s) EXCEPT !.state = "normal"], req.n)

TxDone(s) == [s EXCEPT !.state = "normal", !.txQueue = <<>>, !.txErr = FALSE]

\* execMultiOnDedicatedConn
ExecOn(s, id, req) ==
    LET done == [TxDone(s) EXCEPT !.watchB = IF @ = id THEN 0 ELSE @,
                                  !.watchAddr = IF s.watchB = id THEN "" ELSE @,
                                  !.multiB = IF @ = id THEN 0 ELSE @]
    IN Ask(Alloc(Guard(done, req.watches, id)), id,
           Callback("multi", Slot(s), req, Len(s.txQueue)))

\* resolveMultiSlot: the nodes that the keys of the queue are on.
TxAddrs(s) == {s.txQueue[i] : i \in DOMAIN s.txQueue} \ {""}

\* execMulti
ExecMulti(s, req) ==
    LET addr == CHOOSE a \in IF TxAddrs(s) = {} THEN Addrs ELSE TxAddrs(s) : TRUE
        other == s.multiB # 0 /\ s.conns[s.multiB].addr # addr
    IN CASE s.txErr -> WriteImmediate(CloseConn(CloseWatch(TxDone(s)), s.multiB), req.n)
         [] ~s.txErr /\ s.state = "watchMulti" /\ s.watchB # 0 -> ExecOn(s, s.watchB, req)
         [] ~s.txErr /\ ~(s.state = "watchMulti" /\ s.watchB # 0) ->
              IF s.txQueue = <<>> THEN Direct(TxDone(s), req.n)
              ELSE IF Cardinality(TxAddrs(s)) > 1 THEN WriteImmediate(TxDone(s), req.n)
              ELSE IF s.multiB # 0 /\ ~other THEN ExecOn(s, s.multiB, req)
              ELSE Dial(Alloc(Guard(TxDone(CloseConn(s, s.multiB)), req.watches, 0)),
                        "multi", addr, Slot(s), req, Len(s.txQueue))

DiscardMulti(s, req) ==
    WriteImmediate([CloseConn(CloseWatch(s), s.multiB) EXCEPT
                       !.state = "normal", !.txQueue = <<>>, !.txErr = FALSE], req.n)

\* resetClientState
Reset(s) ==
    LET idle == [s EXCEPT !.state = "normal", !.txQueue = <<>>, !.txErr = FALSE]
    IN [CloseConn(CloseConn(CloseWatch(idle), s.multiB), s.blockB) EXCEPT !.pendingCmds = <<>>]

\* Mutated form: a command that is refused ends the transaction.
HandleInMulti_BadAborts(s, req) ==
    CASE req.op = "exec" -> ExecMulti(s, req)
      [] req.op = "discard" -> DiscardMulti(s, req)
      [] req.op = "reset" -> WriteImmediate(Reset(s), req.n)
      [] req.op \in {"multi", "watch", "unwatch"} -> WriteImmediate(s, req.n)
      [] req.op = "bad" -> WriteImmediate(TxDone(s), req.n)
      [] req.op \in {"get", "ping", "block"} ->
            WriteImmediate([s EXCEPT !.txQueue = Append(@, IF req.op = "ping" THEN "" ELSE req.addr)],
                           req.n)

HandleInMulti(s, req) ==
    CASE req.op = "exec" -> ExecMulti(s, req)
      [] req.op = "discard" -> DiscardMulti(s, req)
      [] req.op = "reset" -> WriteImmediate(Reset(s), req.n)
      [] req.op \in {"multi", "watch", "unwatch"} -> WriteImmediate(s, req.n)
      [] req.op = "bad" -> WriteImmediate([s EXCEPT !.txErr = TRUE], req.n)
      [] req.op \in {"get", "ping", "block"} ->
            WriteImmediate([s EXCEPT !.txQueue = Append(@, IF req.op = "ping" THEN "" ELSE req.addr)],
                           req.n)

------------------------------------------------------------------------------
\* dispatchClientRequest

\* s, with the lapse l if p.
Lapse(s, l, p) == [s EXCEPT !.lapses = IF p THEN @ \cup {l} ELSE @]

\* dispatchBlockingCommand: the state is overwritten, and the end of the command
\* makes it "normal" even when it was "watch".
DispatchBlocking(s, req) ==
    DialBlocking([Lapse(Alloc(s), "watch", s.state = "watch") EXCEPT
                     !.state = "blocking", !.blockSlot = Slot(s)], req.addr, req)

\* routeToBackend, submitToRouter: the reply comes from the mux or the router.
RouteToBackend(s, req) ==
    [Alloc(s) EXCEPT !.owed = @ \cup {[idx |-> Slot(s), n |-> req.n]},
                     !.loose = IF req.inTx THEN @ \cup {req.n} ELSE @]

\* handleNormal, for a client that is authenticated; QUIT is in Send.
HandleNormal(s, req) ==
    IF s.watchReq # NoReq /\ req.op # "reset"
    THEN [s EXCEPT !.pendingCmds = Append(@, req)]
    ELSE CASE req.op = "reset" -> WriteImmediate(Reset(s), req.n)
           [] req.op \in {"ping", "exec", "discard"} -> WriteImmediate(s, req.n)
           [] req.op = "multi" ->
                 WriteImmediate([s EXCEPT !.state = IF @ = "watch" THEN "watchMulti" ELSE "multi",
                                          !.txQueue = <<>>, !.txErr = FALSE], req.n)
           [] req.op = "watch" -> HandleWATCH(s, req)
           [] req.op = "unwatch" -> HandleUNWATCH(s, req)
           [] req.op = "block" -> DispatchBlocking(s, req)
           [] req.op \in {"get", "bad"} -> RouteToBackend(s, req)

\* Mutated form: commands are not held back behind a blocking one.
Dispatch_NoHold(s, req) ==
    IF s.state \in {"multi", "watchMulti"} THEN HandleInMulti(s, req) ELSE HandleNormal(s, req)

\* dispatchClientRequest
Dispatch(s, req) ==
    IF s.state \in {"multi", "watchMulti"} THEN HandleInMulti(s, req)
    ELSE IF s.state = "blocking" /\ req.op # "reset"
    THEN [s EXCEPT !.pendingCmds = Append(@, req)]
    ELSE HandleNormal(s, req)

\* F(s); the set comprehension makes TLC compute s once.
Apply(F(_), s) == CHOOSE t \in {F(x) : x \in {s}} : TRUE

\* drainPendingCmds
Drained(s) ==
    LET run[k \in 0..Len(s.pendingCmds)] ==
            IF k = 0 THEN [s EXCEPT !.pendingCmds = <<>>]
            ELSE Apply(LAMBDA t : Dispatch(t, s.pendingCmds[k]), run[k - 1])
    IN run[Len(s.pendingCmds)]

Drain(s) == Apply(Drained, s)

------------------------------------------------------------------------------
\* Events of the backends.

\* Mutated form: a blocking command that lost its connection is not answered.
OnBackendClose_Silent(s, id) == CloseConn(s, id)

\* onBackendClose
OnBackendClose(s, id) ==
    IF s.blockB = id /\ s.state = "blocking"
    THEN Drain([Fill(CloseConn(s, id), s.blockSlot, "error", s.conns[id].req.n) EXCEPT
                   !.state = "normal"])
    ELSE CloseConn(s, id)

\* onBackendOpen; the commands are written behind AUTH when there is a password.
Opened(s, id) ==
    LET open == [s EXCEPT !.conns[id].st = "open"]
        auth(t) == IF use.auth THEN Ask(t, id, Callback("auth", 0, s.conns[id].req, 0)) ELSE t
    IN CASE ~s.open -> CloseConn(s, id)
         [] s.open /\ s.conns[id].kind = "block" ->
              LET t == [open EXCEPT !.blockB = id]
              IN IF use.auth THEN auth(t) ELSE Ask(t, id, Callback("block", 0, s.conns[id].req, 0))
         [] s.open /\ s.conns[id].kind = "multi" -> [open EXCEPT !.multiB = id]
         [] s.open /\ s.conns[id].kind = "watch" ->
              LET t == auth([open EXCEPT !.watchB = id, !.conns[id].addr = s.watchAddr])
              IN IF s.watchReq = NoReq THEN t
                 ELSE Ask([t EXCEPT !.watchReq = NoReq], id,
                          Callback("watch", s.watchSlot, s.watchReq, 0))

\* The goroutine of dialDedicatedBackend or dialBlockingBackend posted an error.
DialFailed(s, id) ==
    LET n == s.conns[id].req.n IN
    CASE ~s.open -> s
      [] s.open /\ s.conns[id].kind = "watch" -> Fill(s, s.watchSlot, "error", n)
      [] s.open /\ s.conns[id].kind = "block" ->
           Drain([Fill(s, s.blockSlot, "error", n) EXCEPT !.state = "normal", !.blockB = 0])

\* Mutated form: the closure does not check that the client is still there.
StartMulti_Unchecked(s, id) ==
    LET c == s.conns[id] IN
    IF c.st = "closed" THEN [s EXCEPT !.crashed = TRUE]
    ELSE Ask(s, id, Callback("multi", c.slot, c.req, c.len))

\* The goroutine of dialMultiBackend posted the start of the transaction.  The
\* context of a connection that was closed is nil, and its use is not checked.
StartMulti(s, id) ==
    LET c == s.conns[id]
        auth == IF use.auth THEN Ask(s, id, Callback("auth", 0, c.req, 0)) ELSE s
    IN CASE ~s.open -> s
         [] s.open /\ c.st = "closed" -> [s EXCEPT !.crashed = TRUE]
         [] s.open /\ c.st = "open" -> Ask(auth, id, Callback("multi", c.slot, c.req, c.len))

\* onClientClose; closing the connection of a blocking command still dispatches
\* what was held back behind it.
Closed(s) ==
    LET t == CloseConn(CloseConn(s, s.watchB), s.multiB)
    IN [(IF t.blockB = 0 THEN t ELSE OnBackendClose(t, t.blockB)) EXCEPT
           !.blockB = 0, !.open = FALSE]

------------------------------------------------------------------------------
\* The actions.

Running == ~w.crashed

\* The client sends a request: onClientTraffic.
Send(op, addr) ==
    LET n == sent + 1
        req == [n |-> n, op |-> op, addr |-> addr, inTx |-> inTx, watches |-> watches]
    IN /\ Running /\ w.open /\ sent < use.reqs
       /\ {op, last} \cap use.serial # {} => Len(w.out) = sent
       /\ w' = IF op # "quit" THEN Dispatch(w, req) ELSE Closed(Direct(w, n))
       /\ sent' = n
       /\ last' = op
       /\ inTx' = CASE op = "multi" -> TRUE
                    [] op \in {"exec", "discard", "reset"} -> FALSE
                    [] OTHER -> inTx
       /\ watches' = CASE op = "watch" /\ ~inTx -> watches \cup {n}
                       [] op \in {"exec", "discard", "reset"} -> {}
                       [] op = "unwatch" /\ ~inTx -> {}
                       [] OTHER -> watches
       /\ UNCHANGED <<use, moved>>

\* An event or a closure of the loop, other than a request.
Loop(s) == Running /\ w' = s /\ UNCHANGED <<use, sent, last, inTx, watches>>

ClientClose == w.open /\ Loop(Closed(w)) /\ UNCHANGED moved

\* The reply of the mux or of the router to h: accumulateResponseSlot, flushed.
MuxReply(h) ==
    \E r \in AccumulateSlot(w.queue, w.base, h.idx, [req |-> h.n]) :
        /\ Loop([w EXCEPT !.queue = r.queue, !.base = @ + Len(r.iov), !.owed = @ \ {h},
                          !.out = IF w.open THEN @ \o r.iov ELSE @])
        /\ UNCHANGED moved

OnOpen(id) == w.conns[id].st = "dialing" /\ Loop(Opened(w, id)) /\ UNCHANGED moved

\* The dial failed; the waiting goroutine posts the error.
DialFail(id) ==
    LET c == w.conns[id]
        closed == [w EXCEPT !.conns[id].st = "closed", !.conns[id].reported = TRUE]
    IN /\ "dial" \in use.fails /\ c.st = "dialing"
       /\ Loop(IF c.kind = "multi" THEN FillLater(closed, c.slot, "error", c.req.n)
                                   ELSE Post(closed, [do |-> "failed", id |-> id]))
       /\ UNCHANGED moved

\* The dial of a transaction succeeded; the waiting goroutine posts its start.
Report(id) ==
    /\ w.conns[id].kind = "multi" /\ w.conns[id].st # "dialing" /\ ~w.conns[id].reported
    /\ Loop(Post([w EXCEPT !.conns[id].reported = TRUE], [do |-> "start", id |-> id]))
    /\ UNCHANGED moved

\* The loop runs the oldest closure posted to it.
RunTask ==
    LET t == Head(w.tasks)
        s == [w EXCEPT !.tasks = Tail(@)]
    IN /\ w.tasks # <<>>
       /\ Loop(CASE t.do = "fill" -> Fill(s, t.idx, t.kind, t.n)
                 [] t.do = "failed" -> DialFailed(s, t.id)
                 [] t.do = "start" -> StartMulti(s, t.id))
       /\ UNCHANGED moved

\* The node closes a connection, or it is lost.
NodeClose(id) ==
    /\ "loss" \in use.fails /\ w.conns[id].st = "open"
    /\ Loop(OnBackendClose(w, id)) /\ UNCHANGED moved

------------------------------------------------------------------------------
\* onBackendTraffic: the reply to the oldest command on a connection.

\* The callback of that command is a `do`.
Answers(id, do) ==
    /\ w.conns[id].st = "open" /\ w.conns[id].pending # <<>>
    /\ Head(w.conns[id].pending).do = do

Popped(id) == [w EXCEPT !.conns[id].pending = Tail(@)]

First(id) == Head(w.conns[id].pending)

\* Any other node may be the target of a redirection.
Redirected(id, addr) ==
    /\ moved < use.moves /\ addr # w.conns[id].addr
    /\ moved' = moved + 1

\* authDedicatedConn: a failure is reported to the slot of the last WATCH, and a
\* blocking command is then neither sent nor answered.
AuthReply(id, ok) ==
    /\ Answers(id, "auth")
    /\ ok \/ "auth" \in use.fails
    /\ Loop(IF ~ok THEN [Lapse(Fill(Popped(id), w.watchSlot, "error", First(id).req.n),
                               "auth", w.conns[id].kind = "block") EXCEPT
                            !.conns[id].authed = FALSE]
            ELSE IF w.conns[id].kind = "block"
            THEN Ask(Popped(id), id, Callback("block", 0, First(id).req, 0))
            ELSE Popped(id))
    /\ UNCHANGED moved

\* The callback of a WATCH on a new connection (onBackendOpen).
WatchReply(id, ok) ==
    LET cb == First(id)
        s == IF ok THEN [Popped(id) EXCEPT !.state = "watch",
                                           !.guards = @ \cup {[n |-> cb.req.n, id |-> id]}]
                   ELSE Popped(id)
    IN /\ Answers(id, "watch")
       /\ ok => w.conns[id].authed
       /\ ok \/ "watch" \in use.fails \/ ~w.conns[id].authed
       /\ Loop(Drain(Fill(s, cb.slot, "reply", cb.req.n)))
       /\ UNCHANGED moved

WatchMoved(id, addr) ==
    LET cb == First(id) IN
    /\ Answers(id, "watch") /\ w.conns[id].authed
    /\ Redirected(id, addr)
    /\ Loop(Dial([Popped(id) EXCEPT !.watchAddr = addr, !.watchB = 0, !.watchReq = cb.req,
                                    !.watchSlot = cb.slot],
                 "watch", addr, 0, cb.req, 0))

\* The callback of a WATCH on the connection of an earlier one (handleWATCH).
RewatchReply(id, ok) ==
    LET cb == First(id)
        s == IF ok THEN [Popped(id) EXCEPT !.state = "watch",
                                           !.guards = @ \cup {[n |-> cb.req.n, id |-> id]}]
                   ELSE Popped(id)
    IN /\ Answers(id, "rewatch")
       /\ ok => w.conns[id].authed
       /\ ok \/ "watch" \in use.fails \/ ~w.conns[id].authed
       /\ Loop(Fill(s, cb.slot, "reply", cb.req.n))
       /\ UNCHANGED moved

\* The callback of MULTI, which the node refuses inside a transaction: on
\* success the queue and EXEC are written.
MultiReply(id) ==
    LET cb == First(id)
        ok == w.conns[id].authed /\ ~w.conns[id].inMulti
        queued == [i \in 1..cb.len |-> Callback("queued", 0, cb.req, 0)]
    IN /\ Answers(id, "multi")
       /\ Loop(IF ok THEN [Popped(id) EXCEPT
                             !.conns[id].inMulti = TRUE,
                             !.conns[id].pending = (@ \o queued) \o
                                                   <<Callback("exec", cb.slot, cb.req, 0)>>]
               ELSE Fill(CloseConn(Popped(id), id), cb.slot, "error", cb.req.n))
       /\ UNCHANGED moved

QueuedReply(id) == Answers(id, "queued") /\ Loop(Popped(id)) /\ UNCHANGED moved

ExecReply(id) ==
    LET cb == First(id) IN
    /\ Answers(id, "exec")
    /\ Loop(Fill(CloseConn(Popped(id), id), cb.slot, "reply", cb.req.n))
    /\ UNCHANGED moved

\* handleBlockingResponse
BlockReply(id) ==
    LET s == [Fill(Popped(id), w.blockSlot, "reply", First(id).req.n) EXCEPT
                 !.state = "normal", !.blockB = 0]
    IN /\ Answers(id, "block")
       /\ Loop(Drain(ReturnBlocking(s, id)))
       /\ UNCHANGED moved

\* The same, for MOVED: if the dial fails at once the command is answered, and
\* what was held back behind it is not dispatched.
BlockMoved(id, addr) ==
    LET s == DialBlocking(CloseConn([Popped(id) EXCEPT !.blockB = 0], id), addr, First(id).req)
    IN /\ Answers(id, "block")
       /\ Redirected(id, addr)
       /\ Loop(Lapse(s, "held", s.state = "normal" /\ s.pendingCmds # <<>>))

------------------------------------------------------------------------------
Answer(id) ==
    \/ OnOpen(id) \/ Report(id)
    \/ \E ok \in BOOLEAN : AuthReply(id, ok) \/ WatchReply(id, ok) \/ RewatchReply(id, ok)
    \/ MultiReply(id) \/ QueuedReply(id) \/ ExecReply(id) \/ BlockReply(id)

Next ==
    \/ \E op \in use.ops, addr \in use.keys : Send(op, addr)
    \/ ClientClose
    \/ \E h \in w.owed : MuxReply(h)
    \/ RunTask
    \/ \E id \in DOMAIN w.conns :
           \/ Answer(id) \/ DialFail(id) \/ NodeClose(id)
           \/ \E addr \in Addrs : WatchMoved(id, addr) \/ BlockMoved(id, addr)

\* What the loop and the nodes do without the client.
Progress ==
    RunTask \/ (\E h \in w.owed : MuxReply(h)) \/ \E id \in DOMAIN w.conns : Answer(id)

\* The loop runs what is queued on it, nodes answer (assumed of blocking commands
\* as of all others) and dials end.  Nothing makes the client act, or anything fail.  A
\* behaviour has finitely many of these steps, so that none starves another.
Spec == Init /\ [][Next]_vars /\ WF_vars(Progress)

------------------------------------------------------------------------------
\* Properties.

\* The client awaits the reply to WATCH before it sends anything else.
WaitsForWatch == "watch" \in use.ops => "watch" \in use.serial

\* No blocking command was left without its AUTH (onBackendOpen), and none left
\* the commands held back behind it when its second dial failed at once
\* (dialBlockingBackend after MOVED).
BlockingEnded == w.lapses \cap {"held", "auth"} = {}

\* Replies reach the client in the order of its requests, immediate, routed,
\* transactional, watching and blocking ones (handleNormal, handleInMulti and
\* drainPendingCmds share one response queue).
InOrder == \A i \in DOMAIN w.out : w.out[i].req = i

\* The same, for a client that awaits the reply to WATCH, until a blocking
\* command ends without drainPendingCmds or is left without its AUTH.
InOrderAfterWatch == WaitsForWatch /\ BlockingEnded => InOrder

\* A request sent after a blocking command is not dispatched before that one is
\* answered, whichever way it ends: no slot is behind the one it waits for.
NothingOvertakes ==
    w.open /\ w.state = "blocking" => w.base + Len(w.queue) = w.blockSlot + 1

\* A request the client sent between MULTI and EXEC is queued, never executed
\* at once (but the reply to a WATCH that is pipelined with MULTI ends it).
TxQueued == WaitsForWatch => w.loose = {}

\* EXEC runs on the connection on which every WATCH it relies on was
\* acknowledged, so that the node can abort it (execMulti), as long as all of them
\* went to one node (a WATCH for another drops the first connection) and no
\* blocking command came between WATCH and MULTI (handleBlockingResponse makes
\* the state "normal", and MULTI then forgets the watching connection).
Guarded == moved = 0 /\ "watch" \notin w.lapses => ~w.unguarded

\* What the session writes to is alive and its own: the client's three dedicated
\* connections are open ones of their kind, an idle one kept for reuse
\* (returnBlockingConn) owes no reply, is kept once and is held by no client, and
\* no closure uses the context of a connection that was closed (the type
\* assertion of dialMultiBackend would panic on the event loop).
DedicatedConns ==
    /\ ~w.crashed
    /\ \A b \in {<<w.watchB, "watch">>, <<w.multiB, "multi">>, <<w.blockB, "block">>} :
          b[1] # 0 => w.conns[b[1]].kind = b[2] /\ w.conns[b[1]].st = "open"
    /\ \A a \in Addrs : \A i \in DOMAIN w.idle[a] :
          LET c == w.conns[w.idle[a][i]] IN
          /\ c.kind = "block" /\ c.addr = a /\ c.pending = <<>>
          /\ w.idle[a][i] # w.blockB
          /\ \A j \in DOMAIN w.idle[a] : w.idle[a][j] = w.idle[a][i] => i = j

\* Every request is answered in the end, unless the client goes away, through
\* failed dials, lost connections, MOVED and whatever was held back meanwhile: no
\* slot is forgotten, and onBackendClose, handleBlockingResponse and the closure
\* of a failed dial leave no held-back command behind.  The two ways out of a
\* blocking command that do are excepted (BlockingEnded), and so is a WATCH that
\* is pipelined with another, which may lose its slot to it.
Answered == []<>(w.open /\ WaitsForWatch /\ BlockingEnded => Len(w.out) = sent)
===============================================================================
