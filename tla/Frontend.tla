------------------------------- MODULE Frontend -------------------------------
(***************************************************************************)
(* What the event loops do with client connections before a request is     *)
(* dispatched (pkg/engine/handler.go), and the state they share: the count *)
(* of clients, the pool of goroutines and the statistics (stats.go).       *)
(*                                                                         *)
(* Each loop runs one handler at a time; a handler's steps are its         *)
(* accesses to what the loops share.  A client's bytes arrive in pieces of *)
(* any length.                                                             *)
(***************************************************************************)
EXTENDS RespParser, FiniteSets

CONSTANTS Loops, Conns,
          LoopOf,     \* the loop a connection belongs to
          Plans,      \* [writes, limits]: per connection that comes, what its client
                      \* writes: [bytes, reqs, ends], the bytes and the requests they
                      \* hold with their ends; the values max-clients takes
          PoolCap,    \* size of goPool (4096)
          MaxClock    \* bound: seconds that pass

ASSUME FrontendAssumption ==
    /\ IsFiniteSet(Loops) /\ IsFiniteSet(Conns)
    /\ LoopOf \in [Conns -> Loops]
    /\ \A p \in Plans : /\ DOMAIN p.writes \subseteq Conns
                         /\ p.limits # {} /\ p.limits \subseteq Nat /\ IsFiniteSet(p.limits)
    /\ PoolCap \in Nat \ {0} /\ MaxClock \in Nat

VARIABLES plan,
          arrived,   \* per connection, the bytes that came from the network
          seen,      \* those in the buffer when its handler was last called
          at,        \* those consumed (Discard)
          got,       \* the requests dispatched
          conn,      \* "new", "open", "closed"
          pc, on,    \* per loop: where its handler is, for which connection
          closing,   \* per loop: the handler returns gnet.Close
          local,     \* per loop: localCmdCount
          now, exp, old,   \* per loop: locals of addCommands
          maxClients, numClients,
          calls,     \* goroutines of goPool at work on a call of the router
          waits,     \* per loop, those that wait for a connection dialled for it
          totalCommands, bucketSec, bucketCount,
          clock,
          limits, rejected,  \* history: the limits so far; connections refused
          reported           \* history: what was stored in qpsLastValue, summed

connVars == <<arrived, seen, at, got, conn>>
loopVars == <<pc, on, closing>>
statVars == <<local, now, exp, old, totalCommands, bucketSec, bucketCount, reported>>
clientVars == <<maxClients, numClients, limits, rejected>>
poolVars == <<calls, waits>>
vars == <<plan, connVars, loopVars, statVars, clientVars, poolVars, clock>>

\* What ParseRequest makes of the bytes from i + 1 to j of what a client writes.
Parsed ==
    [w \in UNION {Range(p.writes) : p \in Plans} |->
        [i \in 0..Len(w.bytes) |->
            [j \in i..Len(w.bytes) |-> ParseRequest(SubSeq(w.bytes, i + 1, j))]]]

Clients == DOMAIN plan.writes
Stream(c) == plan.writes[c].bytes

Init ==
    /\ plan \in Plans
    /\ arrived = [c \in Clients |-> 0] /\ seen = arrived /\ at = arrived
    /\ got = [c \in Clients |-> <<>>]
    /\ conn = [c \in Clients |-> "new"]
    /\ pc = [l \in Loops |-> "poll"]
    /\ on = [l \in Loops |-> CHOOSE c \in Conns : TRUE]
    /\ closing = [l \in Loops |-> FALSE]
    /\ local = [l \in Loops |-> 0]
    /\ now = local /\ exp = local /\ old = local
    /\ maxClients \in plan.limits /\ limits = {maxClients}
    /\ numClients = 0 /\ rejected = 0
    /\ calls = 0 /\ waits = local
    /\ totalCommands = 0 /\ bucketSec = 0 /\ bucketCount = 0 /\ reported = 0
    /\ clock = 1

Goto(l, where) == pc' = [pc EXCEPT ![l] = where]

------------------------------------------------------------------------------
\* OnOpen and OnClose: the client limit.

\* Mutated form: one client more is let in.
Open_OffByOne(l, c) ==
    /\ pc[l] = "poll" /\ LoopOf[c] = l /\ conn[c] = "new"
    /\ on' = [on EXCEPT ![l] = c]
    /\ Goto(l, IF maxClients > 0 /\ numClients > maxClients THEN "reject" ELSE "admit")
    /\ UNCHANGED <<plan, connVars, closing, statVars, clientVars, poolVars, clock>>

\* onClientOpen: the limit is compared with the count,
Open(l, c) ==
    /\ pc[l] = "poll" /\ LoopOf[c] = l /\ conn[c] = "new"
    /\ on' = [on EXCEPT ![l] = c]
    /\ Goto(l, IF maxClients > 0 /\ numClients >= maxClients THEN "reject" ELSE "admit")
    /\ UNCHANGED <<plan, connVars, closing, statVars, clientVars, poolVars, clock>>

\* and then the count goes up.
Admit(l) ==
    /\ pc[l] = "admit"
    /\ numClients' = numClients + 1
    /\ conn' = [conn EXCEPT ![on[l]] = "open"]
    /\ Goto(l, "poll")
    /\ UNCHANGED <<plan, arrived, seen, at, got, on, closing, statVars, maxClients, limits, rejected,
                   poolVars, clock>>

\* A refused connection is closed at once, and onClientClose counts it out
\* though it was never counted in.
Reject(l) ==
    /\ pc[l] = "reject"
    /\ numClients' = numClients - 1
    /\ rejected' = rejected + 1
    /\ conn' = [conn EXCEPT ![on[l]] = "closed"]
    /\ Goto(l, "poll")
    /\ UNCHANGED <<plan, arrived, seen, at, got, on, closing, statVars, maxClients, limits, poolVars,
                   clock>>

\* onClientClose, after the client's close or the handler's.
Close(l, c) ==
    /\ conn[c] = "open" /\ LoopOf[c] = l
    /\ pc[l] = "poll" \/ (pc[l] = "close" /\ on[l] = c)
    /\ numClients' = numClients - 1
    /\ conn' = [conn EXCEPT ![c] = "closed"]
    /\ closing' = [closing EXCEPT ![l] = FALSE]
    /\ Goto(l, "poll")
    /\ UNCHANGED <<plan, arrived, seen, at, got, on, statVars, maxClients, limits, rejected, poolVars,
                   clock>>

\* PROXY CONFIG SET max-clients.
SetMaxClients(n) ==
    /\ maxClients # n
    /\ maxClients' = n /\ limits' = limits \cup {n}
    /\ UNCHANGED <<plan, connVars, loopVars, statVars, numClients, rejected, poolVars, clock>>

------------------------------------------------------------------------------
\* onClientTraffic.

\* The network: some more bytes.
Arrive(c, n) ==
    /\ conn[c] = "open" /\ arrived[c] + n <= Len(Stream(c))
    /\ arrived' = [arrived EXCEPT ![c] = @ + n]
    /\ UNCHANGED <<plan, seen, at, got, conn, loopVars, statVars, clientVars, poolVars, clock>>

\* The loop has read the socket, and calls the handler.
Traffic(l, c) ==
    /\ pc[l] = "poll" /\ LoopOf[c] = l /\ conn[c] = "open" /\ seen[c] < arrived[c]
    /\ seen' = [seen EXCEPT ![c] = arrived[c]]
    /\ on' = [on EXCEPT ![l] = c]
    /\ Goto(l, "parse")
    /\ UNCHANGED <<plan, arrived, at, got, conn, closing, statVars, clientVars, poolVars, clock>>

\* Requests whose first argument is one of these bytes take a goroutine: those
\* that go to the router, and those that dial a dedicated connection (WATCH, EXEC,
\* a blocking command).
Routed(args) == args[1] = <<Byte(2)>>
Dials(args) == args[1] = <<Byte(4)>>

\* Peek, ParseRequest, Discard and dispatch; or the end of the loop.
Parse(l) ==
    LET c == on[l]
        r == Parsed[plan.writes[c]][at[c]][seen[c]]
    IN
    /\ pc[l] = "parse"
    /\ IF r.st = "ok"
       THEN /\ at' = [at EXCEPT ![c] = @ + r.end - 1]
            /\ got' = [got EXCEPT ![c] = Append(@, r.args)]
            /\ local' = [local EXCEPT ![l] = @ + 1]
            /\ Goto(l, IF Routed(r.args) \/ Dials(r.args) THEN "submit" ELSE "parse")
            /\ UNCHANGED closing
       ELSE /\ closing' = [closing EXCEPT ![l] = r.st = "bad"]
            /\ Goto(l, IF local[l] > 0 THEN "count" ELSE IF r.st = "bad" THEN "close" ELSE "poll")
            /\ UNCHANGED <<at, got, local>>
    /\ UNCHANGED <<plan, arrived, seen, conn, on, now, exp, old, totalCommands, bucketSec,
                   bucketCount, reported, clientVars, poolVars, clock>>

Sum(f, S) == MapThenSumSet(LAMBDA l : f[l], S)

\* goPool.Submit, which waits while the pool is full.
Submit(l) ==
    /\ pc[l] = "submit" /\ calls + Sum(waits, Loops) < PoolCap
    /\ IF Dials(Last(got[on[l]]))
       THEN waits' = [waits EXCEPT ![l] = @ + 1] /\ UNCHANGED calls
       ELSE calls' = calls + 1 /\ UNCHANGED waits
    /\ Goto(l, "parse")
    /\ UNCHANGED <<plan, connVars, on, closing, statVars, clientVars, clock>>

\* Mutated form: the place of a finished goroutine is not given back.
WorkerDone_Leak ==
    /\ calls > PoolCap
    /\ calls' = calls - 1
    /\ UNCHANGED <<plan, connVars, loopVars, statVars, clientVars, waits, clock>>

\* A goroutine of the router has its reply, or its call failed, and posts it.
WorkerDone ==
    /\ calls > 0
    /\ calls' = calls - 1
    /\ UNCHANGED <<plan, connVars, loopVars, statVars, clientVars, waits, clock>>

\* The connection a goroutine waits for (<-resCh) is ready: its loop has taken it
\* in, between two handlers.
Register(l) ==
    /\ pc[l] = "poll" /\ waits[l] > 0
    /\ waits' = [waits EXCEPT ![l] = @ - 1]
    /\ UNCHANGED <<plan, connVars, loopVars, statVars, clientVars, calls, clock>>

\* The dial failed, which the goroutine learns without the loop.
DialFail(l) ==
    /\ waits[l] > 0
    /\ waits' = [waits EXCEPT ![l] = @ - 1]
    /\ UNCHANGED <<plan, connVars, loopVars, statVars, clientVars, calls, clock>>

------------------------------------------------------------------------------
\* addCommands(localCmdCount), one atomic operation a step.

AddTotal(l) ==
    /\ pc[l] = "count"
    /\ totalCommands' = totalCommands + local[l]
    /\ now' = [now EXCEPT ![l] = clock]
    /\ Goto(l, "load")
    /\ UNCHANGED <<plan, connVars, on, closing, local, exp, old, bucketSec, bucketCount, reported,
                   clientVars, poolVars, clock>>

LoadSec(l) ==
    /\ pc[l] = "load"
    /\ exp' = [exp EXCEPT ![l] = bucketSec]
    /\ Goto(l, IF bucketSec = now[l] THEN "add" ELSE "cas")
    /\ UNCHANGED <<plan, connVars, on, closing, local, now, old, totalCommands, bucketSec,
                   bucketCount, reported, clientVars, poolVars, clock>>

\* localCmdCount = 0, and the handler returns.
Return(l) ==
    /\ local' = [local EXCEPT ![l] = 0]
    /\ Goto(l, IF closing[l] THEN "close" ELSE "poll")

\* Mutated form: whoever loses the race does not count.
CompareAndSwap_Dropped(l) ==
    /\ pc[l] = "cas"
    /\ IF bucketSec = exp[l] THEN bucketSec' = now[l] /\ Goto(l, "swap") /\ UNCHANGED local
       ELSE Return(l) /\ UNCHANGED bucketSec
    /\ UNCHANGED <<plan, connVars, on, closing, now, exp, old, totalCommands, bucketCount,
                   reported, clientVars, poolVars, clock>>

CompareAndSwap(l) ==
    /\ pc[l] = "cas"
    /\ IF bucketSec = exp[l] THEN bucketSec' = now[l] /\ Goto(l, "swap")
       ELSE Goto(l, "add") /\ UNCHANGED bucketSec
    /\ UNCHANGED <<plan, connVars, on, closing, local, now, exp, old, totalCommands, bucketCount,
                   reported, clientVars, poolVars, clock>>

AddCount(l) ==
    /\ pc[l] = "add"
    /\ bucketCount' = bucketCount + local[l]
    /\ Return(l)
    /\ UNCHANGED <<plan, connVars, on, closing, now, exp, old, totalCommands, bucketSec, reported,
                   clientVars, poolVars, clock>>

Swap(l) ==
    /\ pc[l] = "swap"
    /\ old' = [old EXCEPT ![l] = bucketCount]
    /\ bucketCount' = local[l]
    /\ Goto(l, "store")
    /\ UNCHANGED <<plan, connVars, on, closing, local, now, exp, totalCommands, bucketSec, reported,
                   clientVars, poolVars, clock>>

StoreLast(l) ==
    /\ pc[l] = "store"
    /\ reported' = reported + old[l]
    /\ Return(l)
    /\ UNCHANGED <<plan, connVars, on, closing, now, exp, old, totalCommands, bucketSec,
                   bucketCount, clientVars, poolVars, clock>>

Tick ==
    /\ clock < MaxClock
    /\ clock' = clock + 1
    /\ UNCHANGED <<plan, connVars, loopVars, statVars, clientVars, poolVars>>

------------------------------------------------------------------------------
\* What a loop does by itself; opening is the kernel's, closing the client's.
Handle(l) ==
    \/ Admit(l) \/ Reject(l) \/ Parse(l) \/ Submit(l) \/ Register(l)
    \/ AddTotal(l) \/ LoadSec(l) \/ CompareAndSwap(l) \/ AddCount(l) \/ Swap(l) \/ StoreLast(l)
    \/ \E c \in Clients : Traffic(l, c) \/ (pc[l] = "close" /\ Close(l, c))

Next ==
    \/ \E l \in Loops : Handle(l) \/ DialFail(l) \/ \E c \in Clients : Open(l, c) \/ Close(l, c)
    \/ \E c \in Clients : \E n \in 1..Len(Stream(c)) : Arrive(c, n)
    \/ \E n \in plan.limits : SetMaxClients(n)
    \/ WorkerDone
    \/ Tick

\* Loops run their handlers; and a call of the router ends, since nodes answer or
\* their connections are lost (the code sets no deadline).
Spec == Init /\ [][Next]_vars /\ WF_vars(WorkerDone) /\ \A l \in Loops : WF_vars(Handle(l))

------------------------------------------------------------------------------
\* Properties.

\* The requests that have wholly arrived with the first n bytes; what follows
\* something malformed is no request.
Within(c, n) ==
    LET w == plan.writes[c]
    IN  SubSeq(w.reqs, 1, Cardinality({k \in DOMAIN w.ends : w.ends[k] <= n}))

\* However the bytes are cut into pieces, what is dispatched is what the client
\* wrote: no request is lost, split, invented or held back once it has arrived.
\* (Lengths fit an int64: ParseRequest does not check that they do.)
SameRequests ==
    \A c \in Clients :
        /\ IsPrefix(got[c], Within(c, seen[c]))
        /\ (on[LoopOf[c]] = c => pc[LoopOf[c]] \notin {"parse", "submit"}) =>
              got[c] = Within(c, seen[c])

At(S) == {l \in Loops : pc[l] \in S}

\* Every dispatched request is counted once in totalCommands and once in the
\* per-second counts, though two loops may turn the bucket over at once.
Counted ==
    /\ MapThenSumSet(LAMBDA c : Len(got[c]), Clients)
         = totalCommands + Sum(local, At({"parse", "submit", "count"}))
    /\ totalCommands = reported + Sum(old, At({"store"})) + bucketCount
                         + Sum(local, At({"load", "cas", "add", "swap"}))

\* There are at most max-clients clients, but for one more per other loop (the
\* count is compared and raised in two steps) and one more per refused
\* connection (which is counted out without having been counted in).
ClientsBounded ==
    0 \notin limits =>
        Cardinality({c \in Clients : conn[c] = "open"})
          <= Max(limits) + rejected + Cardinality(Loops) - 1

\* The places of goPool are all held by goroutines whose connections can only be
\* taken in by loops that wait for a place.
Stuck == Sum(waits, At({"submit"})) = PoolCap

\* A loop that waits for a place in goPool gets one, and every request that has
\* arrived on an open connection is dispatched, unless the loops have filled the
\* pool with their own dials (dialDedicatedBackend, dialMultiBackend and
\* dialBlockingBackend wait in the pool that Submit waits for): then, and only
\* then, are they stuck.
Served ==
    \A c \in Conns :
        []<>(Stuck \/ (c \in Clients /\ conn[c] = "open" => got[c] = Within(c, arrived[c])))
===============================================================================
