--------------------------------- MODULE Pool ---------------------------------
(***************************************************************************)
(* pkg/pool/pool.go: the bounded pool of connections to one node that the  *)
(* router's goroutines borrow from (for ASK redirections and pipelines).   *)
(*                                                                         *)
(* A goroutine's steps are the pieces of Get, put and Close between two    *)
(* acquisitions of p.mu; `waiters` is the buffered channel on which a      *)
(* returned connection is announced.  A connection is its flag `broken`    *)
(* and the replies on it that nobody has read, each as the goroutine whose *)
(* command it answers.                                                     *)
(***************************************************************************)
EXTENDS Integers, Sequences, FiniteSets

CONSTANTS Procs,     \* the goroutines that use the pool
          MaxSize,   \* p.maxSize
          MaxRefused \* bound: error replies to ASKING

ASSUME PoolAssumption == MaxSize \in Nat \ {0} /\ IsFiniteSet(Procs) /\ MaxRefused \in Nat

VARIABLES
    conns,      \* p.conns, the idle connections
    numConns,   \* p.numConns
    closed,     \* Close: "no", "stored" (closed.Store(true)) or "done"
    waiters,    \* tokens in the channel p.waiters
    pc,         \* where each goroutine is
    conn,       \* the connection it holds
    got,        \* the replies it has read as its own, by whose command they answer
    refused     \* error replies to ASKING so far

vars == <<conns, numConns, closed, waiters, pc, conn, got, refused>>
exchange == <<got, refused>>

\* The steps at which a goroutine accounts for one connection in numConns.
Counted == {"dialing", "has", "sent", "put", "drop", "return"}

\* `shifted` is history: an ASKING was refused on this connection.
NewConn == [broken |-> FALSE, replies |-> <<>>, shifted |-> FALSE]
NoConn == NewConn

Init ==
    /\ conns = <<>>
    /\ numConns = 0
    /\ closed = "no"
    /\ waiters = 0
    /\ pc = [g \in Procs |-> "out"]
    /\ conn = [g \in Procs |-> NoConn]
    /\ got = [g \in Procs |-> <<>>]
    /\ refused = 0

Goto(g, where) == pc' = [pc EXCEPT ![g] = where]

------------------------------------------------------------------------------
\* Get.

\* p.closed.Load(): the call fails (no step) on a closed pool.
GetStart(g) ==
    /\ pc[g] = "out" /\ closed = "no"
    /\ Goto(g, "lock")
    /\ UNCHANGED <<conns, numConns, closed, waiters, conn, exchange>>

\* popIdle returns the connection that was put back last.
GetIdle(g) ==
    /\ pc[g] = "lock" /\ conns # <<>>
    /\ conn' = [conn EXCEPT ![g] = conns[Len(conns)]]
    /\ conns' = SubSeq(conns, 1, Len(conns) - 1)
    /\ Goto(g, "has")
    /\ UNCHANGED <<numConns, closed, waiters, exchange>>

\* popIdle found no connection, or only expired ones (idleTimeout: when the
\* last one put back has expired, so have all below it): numConns makes room.
GetNew(g) ==
    /\ pc[g] = "lock"
    /\ numConns - Len(conns) < MaxSize
    /\ conns' = <<>>
    /\ numConns' = (numConns - Len(conns)) + 1
    /\ Goto(g, "dialing")
    /\ UNCHANGED <<closed, waiters, conn, exchange>>

\* Nothing idle and no room: wait on the channel.
GetFull(g) ==
    /\ pc[g] = "lock" /\ conns = <<>> /\ numConns >= MaxSize
    /\ Goto(g, "wait")
    /\ UNCHANGED <<conns, numConns, closed, waiters, conn, exchange>>

\* <-p.waiters, and around the loop.
Wake(g) ==
    /\ pc[g] = "wait" /\ waiters > 0
    /\ waiters' = waiters - 1
    /\ Goto(g, "lock")
    /\ UNCHANGED <<conns, numConns, closed, conn, exchange>>

\* <-ctx.Done()
Cancel(g) ==
    /\ pc[g] = "wait"
    /\ Goto(g, "out")
    /\ UNCHANGED <<conns, numConns, closed, waiters, conn, exchange>>

\* dial, with AUTH and READONLY.
DialOk(g) ==
    /\ pc[g] = "dialing"
    /\ conn' = [conn EXCEPT ![g] = NewConn]
    /\ Goto(g, "has")
    /\ UNCHANGED <<conns, numConns, closed, waiters, exchange>>

\* Mutated form: the place of the failed dial is not given back.
DialFail_Kept(g) ==
    /\ pc[g] = "dialing"
    /\ Goto(g, "notify")
    /\ UNCHANGED <<conns, numConns, closed, waiters, conn, exchange>>

\* Mutated form: the place is given back and nobody is told.
DialFail_Silent(g) ==
    /\ pc[g] = "dialing"
    /\ numConns' = numConns - 1
    /\ Goto(g, "out")
    /\ UNCHANGED <<conns, closed, waiters, conn, exchange>>

\* The dial fails: its place is given back, then notify.
DialFail(g) ==
    /\ pc[g] = "dialing"
    /\ numConns' = numConns - 1
    /\ Goto(g, "notify")
    /\ UNCHANGED <<conns, closed, waiters, conn, exchange>>

------------------------------------------------------------------------------
\* Using a connection (execOnNodeOnce, execBatchOnNode) and put.

\* Two commands are written and flushed, ASKING and the redirected one
\* (execOnNodeOnce) or a batch (execBatchOnNode); each is answered.
Write(g) ==
    /\ pc[g] = "has"
    /\ conn' = [conn EXCEPT ![g].replies = @ \o <<g, g>>]
    /\ Goto(g, "sent")
    /\ UNCHANGED <<conns, numConns, closed, waiters, exchange>>

\* rd.ReadValue(): the next reply on the connection, two in all.
Read(g) ==
    LET replies == conn[g].replies IN
    /\ pc[g] = "sent"
    /\ got' = [got EXCEPT ![g] = Append(@, Head(replies))]
    /\ conn' = [conn EXCEPT ![g].replies = Tail(@)]
    /\ Goto(g, IF got[g] = <<>> THEN "sent" ELSE "put")
    /\ UNCHANGED <<conns, numConns, closed, waiters, refused>>

\* The reply to ASKING is an error: it is returned, the reply to the command stays
\* unread, and the connection goes back as it is.
ReadRefused(g) ==
    /\ pc[g] = "sent" /\ got[g] = <<>> /\ refused < MaxRefused
    /\ refused' = refused + 1
    /\ got' = [got EXCEPT ![g] = <<Head(conn[g].replies)>>]
    /\ conn' = [conn EXCEPT ![g].replies = Tail(@), ![g].shifted = TRUE]
    /\ Goto(g, "put")
    /\ UNCHANGED <<conns, numConns, closed, waiters>>

\* Mutated form: the connection is not marked.
Fail_Unmarked(g) ==
    /\ pc[g] \in {"has", "sent"}
    /\ Goto(g, "put")
    /\ UNCHANGED <<conns, numConns, closed, waiters, conn, exchange>>

\* A write or a read fails: MarkBroken.
Fail(g) ==
    /\ pc[g] \in {"has", "sent"}
    /\ conn' = [conn EXCEPT ![g].broken = TRUE]
    /\ Goto(g, "put")
    /\ UNCHANGED <<conns, numConns, closed, waiters, exchange>>

\* put up to the lock: c.broken || p.closed.Load().  The exchange is over, and
\* nobody uses a connection again that is to be dropped.
Put(g) ==
    LET dropped == conn[g].broken \/ closed # "no" IN
    /\ pc[g] = "put"
    /\ Goto(g, IF dropped THEN "drop" ELSE "return")
    /\ conn' = IF dropped THEN [conn EXCEPT ![g] = NoConn] ELSE conn
    /\ got' = [got EXCEPT ![g] = <<>>]
    /\ UNCHANGED <<conns, numConns, closed, waiters, refused>>

PutDrop(g) ==
    /\ pc[g] = "drop"
    /\ numConns' = numConns - 1
    /\ Goto(g, "notify")
    /\ UNCHANGED <<conns, closed, waiters, conn, exchange>>

PutReturn(g) ==
    /\ pc[g] = "return"
    /\ conns' = IF Len(conns) < MaxSize THEN Append(conns, conn[g]) ELSE conns
    /\ numConns' = IF Len(conns) < MaxSize THEN numConns ELSE numConns - 1
    /\ conn' = [conn EXCEPT ![g] = NoConn]
    /\ Goto(g, "notify")
    /\ UNCHANGED <<closed, waiters, exchange>>

\* Mutated form: notify is skipped while any token is in the channel.
Notify_One(g) ==
    /\ pc[g] = "notify"
    /\ waiters' = IF waiters = 0 THEN 1 ELSE waiters
    /\ Goto(g, "out")
    /\ UNCHANGED <<conns, numConns, closed, conn, exchange>>

\* notify: a token, unless the channel is full.
Notify(g) ==
    /\ pc[g] = "notify"
    /\ waiters' = IF waiters < MaxSize THEN waiters + 1 ELSE waiters
    /\ Goto(g, "out")
    /\ UNCHANGED <<conns, numConns, closed, conn, exchange>>

------------------------------------------------------------------------------
\* Close: the flag first, the connections under the lock.

CloseStore ==
    /\ closed = "no"
    /\ closed' = "stored"
    /\ UNCHANGED <<conns, numConns, waiters, pc, conn, exchange>>

CloseConns ==
    /\ closed = "stored"
    /\ closed' = "done"
    /\ conns' = <<>>
    /\ numConns' = 0
    /\ UNCHANGED <<waiters, pc, conn, exchange>>

Step(g) ==
    \/ GetIdle(g) \/ GetNew(g) \/ GetFull(g)
    \/ DialOk(g) \/ DialFail(g)
    \/ Write(g) \/ Read(g) \/ ReadRefused(g) \/ Fail(g)
    \/ Put(g) \/ PutDrop(g) \/ PutReturn(g) \/ Notify(g)

Next ==
    \/ \E g \in Procs : GetStart(g) \/ Step(g) \/ Wake(g) \/ Cancel(g)
    \/ CloseStore
    \/ CloseConns

\* Goroutines run, dials end by their timeout, and a node that was asked answers or
\* its connection is lost (reads have no deadline).  Go wakes the goroutines blocked
\* on a channel in the order in which they came, hence the strong fairness; nobody
\* has to call Get, cancel or Close.
Spec ==
    /\ Init /\ [][Next]_vars
    /\ \A g \in Procs : WF_vars(Step(g)) /\ SF_vars(Wake(g))

------------------------------------------------------------------------------
\* Properties.

At(S) == Cardinality({g \in Procs : pc[g] \in S})

\* Until the pool is closed, numConns counts exactly the connections that are
\* idle, lent or being dialled, and there are never more than maxSize of them.
Accounting ==
    closed # "done" => numConns = Len(conns) + At(Counted) /\ numConns <= MaxSize

\* No wake-up is lost: when a goroutine waits on an open pool and a connection
\* could be had, a token, a coming notify or a goroutine about to look at the
\* pool again accounts for every connection that could be had.
NoLostWakeup ==
    closed # "done" /\ At({"wait"}) > 0 =>
        waiters + At({"notify", "lock"}) >= Len(conns) + (MaxSize - numConns)

\* Who borrows a connection reads the replies to its own commands, and nobody
\* else's, whatever happened to those who had it before; unless an ASKING was
\* refused on the connection.
OwnReply ==
    \A g \in Procs :
        ~conn[g].shifted => \A i \in DOMAIN got[g] : got[g][i] = g

\* Whoever waits for a connection is woken, whether the pool is closed or not.
Woken == \A g \in Procs : []<>(pc[g] # "wait")
===============================================================================
