------------------------------- MODULE Pipeline -------------------------------
(***************************************************************************)
(* A pipelined pool of pkg/pool/pipeline.go, the registry entry that holds *)
(* it (registry.go) and the router's retries on it (router.go,             *)
(* execOnNode).                                                            *)
(*                                                                         *)
(* Router goroutines hand their requests to the loops of a few             *)
(* connections, each through a buffered channel.  A loop takes what is     *)
(* queued as a batch, writes it and reads as many replies; on any error it *)
(* answers the rest of the batch with errors and drops the connection.     *)
(* When the topology loses the node, RemovePool closes the channels.       *)
(*                                                                         *)
(* A time.Until backoff is "on" until its time passes; its length is left  *)
(* out.                                                                    *)
(***************************************************************************)
EXTENDS Integers, Sequences, FiniteSets

CONSTANTS Callers,   \* goroutines of the router, one request each
          Size,      \* connections of the pool
          ChanCap,   \* capacity of reqCh (512)
          MaxBatch,  \* requests of a batch (64)
          MaxRetry,  \* pipeRetryMax
          MaxDown,   \* clusterDownMaxRetry
          Removal    \* whether the node is removed

ASSUME PipelineAssumption ==
    /\ Size \in Nat \ {0} /\ ChanCap \in Nat \ {0} /\ MaxBatch \in Nat \ {0}
    /\ MaxRetry \in Nat /\ MaxDown \in Nat /\ MaxRetry <= MaxDown /\ Removal \in BOOLEAN
    /\ {"none", "err"} \cap Callers = {} \* None and Err

VARIABLES idx,      \* pp.idx
          mu,       \* pp.mu: "free", or "closing" while PipelinedPool.Close holds it
          reg,      \* the registry's entry: "present", "removing", "gone"
          reqCh,    \* per connection, the requests in its channel
          chClosed, \* per connection, whether the channel is closed
          loop,     \* per connection, where its loop is
          pending,  \* per connection, the batch
          nc,       \* per connection, whether there is a backend connection
          wire,     \* per connection, what was written and has no reply yet
          backoff,  \* per connection, whether backoffUntil is in the future
          pc,       \* per caller: where it is
          on,       \* per caller: the connection it uses (0 is none)
          attempt,  \* per caller: execOnNode's attempt
          resp,     \* per caller: what came on its channel
          down,     \* per caller: whether that is a CLUSTERDOWN or LOADING reply
          execs,    \* history: how often the node executed the caller's request
          panicked

vars == <<idx, mu, reg, reqCh, chClosed, loop, pending, nc, wire, backoff, pc, on, attempt,
          resp, down, execs, panicked>>
connVars == <<reqCh, chClosed, loop, pending, nc, wire, backoff>>
nodeVars == <<down, execs>>
callVars == <<pc, on, attempt, resp, nodeVars>>

Conns == 1..Size

None == "none"
Err == "err"

Init ==
    /\ idx = 0 /\ mu = "free" /\ reg = "present" /\ panicked = FALSE
    /\ reqCh = [c \in Conns |-> <<>>]
    /\ chClosed = [c \in Conns |-> FALSE]
    /\ loop = [c \in Conns |-> "recv"]
    /\ pending = [c \in Conns |-> <<>>]
    /\ nc = [c \in Conns |-> FALSE]
    /\ wire = [c \in Conns |-> <<>>]
    /\ backoff = [c \in Conns |-> FALSE]
    /\ pc = [p \in Callers |-> "start"]
    /\ on = [p \in Callers |-> 0]
    /\ attempt = [p \in Callers |-> 0]
    /\ resp = [p \in Callers |-> None]
    /\ down = [p \in Callers |-> FALSE]
    /\ execs = [p \in Callers |-> 0]

------------------------------------------------------------------------------
\* The callers: execOnNode, execOnNodeOnce, GetPool, Do.

\* GetPool: the pool of the registry, which is locked while a pool is removed.
\* After that a new pool is made, and the caller is no longer this one's.
GetPool(p) ==
    /\ pc[p] = "start" /\ reg # "removing"
    /\ pc' = [pc EXCEPT ![p] = IF reg = "present" THEN "pool" ELSE "left"]
    /\ UNCHANGED <<idx, mu, reg, connVars, on, attempt, resp, nodeVars, panicked>>

\* PipelinedPool.Do: the next connection in turn.
Do(p) ==
    /\ pc[p] = "pool" /\ mu = "free"
    /\ on' = [on EXCEPT ![p] = (idx % Size) + 1]
    /\ idx' = (idx + 1) % Size
    /\ pc' = [pc EXCEPT ![p] = "send"]
    /\ UNCHANGED <<mu, reg, connVars, attempt, resp, nodeVars, panicked>>

\* pc.reqCh <- req; on a closed channel it panics.
SendReq(p) ==
    LET c == on[p] IN
    /\ pc[p] = "send"
    /\ \/ /\ ~chClosed[c] /\ Len(reqCh[c]) < ChanCap
          /\ reqCh' = [reqCh EXCEPT ![c] = Append(@, p)]
          /\ pc' = [pc EXCEPT ![p] = "wait"]
          /\ UNCHANGED panicked
       \/ /\ chClosed[c]
          /\ panicked' = TRUE
          /\ UNCHANGED <<reqCh, pc>>
    /\ UNCHANGED <<idx, mu, reg, chClosed, loop, pending, nc, wire, backoff, on, attempt, resp, nodeVars>>

\* execOnNode tries again after a pause, on whatever pool the registry has then.
Retry(p) ==
    /\ pc' = [pc EXCEPT ![p] = "start"]
    /\ attempt' = [attempt EXCEPT ![p] = @ + 1]
    /\ resp' = [resp EXCEPT ![p] = None]
    /\ down' = [down EXCEPT ![p] = FALSE]

Return(p) == pc' = [pc EXCEPT ![p] = "done"] /\ UNCHANGED <<attempt, resp, down>>

\* Mutated form: an error has as many attempts as a CLUSTERDOWN reply.
Receive_SameBound(p) ==
    /\ pc[p] = "wait" /\ resp[p] # None
    /\ LET again == (resp[p] = Err \/ down[p]) /\ attempt[p] < MaxDown
       IN  IF again THEN Retry(p) ELSE Return(p)
    /\ on' = [on EXCEPT ![p] = 0]
    /\ UNCHANGED <<idx, mu, reg, connVars, execs, panicked>>

\* r := <-resp, and execOnNode's verdict on it: a CLUSTERDOWN or LOADING reply
\* has more attempts than an error.
Receive(p) ==
    /\ pc[p] = "wait" /\ resp[p] # None
    /\ LET again == \/ resp[p] = Err /\ attempt[p] < MaxRetry
                    \/ resp[p] # Err /\ down[p] /\ attempt[p] < MaxDown
       IN  IF again THEN Retry(p) ELSE Return(p)
    /\ on' = [on EXCEPT ![p] = 0]
    /\ UNCHANGED <<idx, mu, reg, connVars, execs, panicked>>

------------------------------------------------------------------------------
\* pipeConn.loop

InBatch(c) == {pending[c][i] : i \in DOMAIN pending[c]}

\* Every request of the batch gets the error.
FailBatch(c) ==
    /\ resp' = [p \in Callers |-> IF p \in InBatch(c) THEN Err ELSE resp[p]]
    /\ pending' = [pending EXCEPT ![c] = <<>>]
    /\ loop' = [loop EXCEPT ![c] = "recv"]

\* The connection is lost with these requests written: the node may have
\* executed any first few of them.
MayExecute(requests) ==
    \E n \in 0..Len(requests) :
        execs' = [p \in Callers |->
                     execs[p] + Cardinality({i \in 1..n : requests[i] = p})]

\* for req := range pc.reqCh
Recv(c) ==
    /\ loop[c] = "recv"
    /\ \/ /\ reqCh[c] # <<>>
          /\ pending' = [pending EXCEPT ![c] = <<Head(reqCh[c])>>]
          /\ reqCh' = [reqCh EXCEPT ![c] = Tail(@)]
          /\ loop' = [loop EXCEPT ![c] = "drain"]
          /\ UNCHANGED nc
       \/ /\ reqCh[c] = <<>> /\ chClosed[c]
          /\ loop' = [loop EXCEPT ![c] = "exited"]
          /\ nc' = [nc EXCEPT ![c] = FALSE]
          /\ UNCHANGED <<pending, reqCh>>
    /\ UNCHANGED <<idx, mu, reg, chClosed, wire, backoff, callVars, panicked>>

\* drainMore: what else is in the channel joins the batch.  A closed channel
\* sends the loop to its end, and the batch with it.
DrainMore(c) ==
    /\ loop[c] = "drain"
    /\ \/ /\ Len(pending[c]) < MaxBatch /\ reqCh[c] # <<>>
          /\ pending' = [pending EXCEPT ![c] = Append(@, Head(reqCh[c]))]
          /\ reqCh' = [reqCh EXCEPT ![c] = Tail(@)]
          /\ UNCHANGED <<loop, nc>>
       \/ /\ Len(pending[c]) < MaxBatch /\ reqCh[c] = <<>> /\ chClosed[c]
          /\ loop' = [loop EXCEPT ![c] = "exited"]
          /\ nc' = [nc EXCEPT ![c] = FALSE]
          /\ UNCHANGED <<pending, reqCh>>
       \/ /\ Len(pending[c]) = MaxBatch \/ (reqCh[c] = <<>> /\ ~chClosed[c])
          /\ loop' = [loop EXCEPT ![c] = IF nc[c] THEN "write" ELSE "connect"]
          /\ UNCHANGED <<pending, reqCh, nc>>
    /\ UNCHANGED <<idx, mu, reg, chClosed, wire, backoff, callVars, panicked>>

\* There is no connection and it is too early to dial.
Unavailable(c) ==
    /\ loop[c] = "connect" /\ backoff[c]
    /\ FailBatch(c)
    /\ UNCHANGED <<idx, mu, reg, reqCh, chClosed, nc, wire, backoff, pc, on, attempt, nodeVars, panicked>>

ConnectOk(c) ==
    /\ loop[c] = "connect" /\ ~backoff[c]
    /\ nc' = [nc EXCEPT ![c] = TRUE]
    /\ wire' = [wire EXCEPT ![c] = <<>>]
    /\ loop' = [loop EXCEPT ![c] = "write"]
    /\ UNCHANGED <<idx, mu, reg, reqCh, chClosed, pending, backoff, callVars, panicked>>

ConnectFail(c) ==
    /\ loop[c] = "connect" /\ ~backoff[c]
    /\ backoff' = [backoff EXCEPT ![c] = TRUE]
    /\ FailBatch(c)
    /\ UNCHANGED <<idx, mu, reg, reqCh, chClosed, nc, wire, pc, on, attempt, nodeVars, panicked>>

WriteOk(c) ==
    /\ loop[c] = "write"
    /\ wire' = [wire EXCEPT ![c] = @ \o pending[c]]
    /\ loop' = [loop EXCEPT ![c] = "read"]
    /\ UNCHANGED <<idx, mu, reg, reqCh, chClosed, pending, nc, backoff, callVars, panicked>>

WriteFail(c) ==
    /\ loop[c] = "write"
    /\ nc' = [nc EXCEPT ![c] = FALSE]
    /\ MayExecute(pending[c])
    /\ backoff' = [backoff EXCEPT ![c] = TRUE]
    /\ FailBatch(c)
    /\ UNCHANGED <<idx, mu, reg, reqCh, chClosed, wire, pc, on, attempt, down, panicked>>

\* One ReadValue: the reply to the oldest request on the wire.  The node has
\* executed it, or `refuses` with CLUSTERDOWN or LOADING.
ReadOk(c, refuses) ==
    LET p == Head(pending[c])
        owner == Head(wire[c])
    IN  /\ loop[c] = "read"
        /\ resp' = [resp EXCEPT ![p] = owner]
        /\ down' = [down EXCEPT ![p] = refuses]
        /\ execs' = [execs EXCEPT ![owner] = IF refuses THEN @ ELSE @ + 1]
        /\ wire' = [wire EXCEPT ![c] = Tail(@)]
        /\ pending' = [pending EXCEPT ![c] = Tail(@)]
        /\ loop' = [loop EXCEPT ![c] = IF Len(pending[c]) = 1 THEN "recv" ELSE "read"]
        /\ UNCHANGED <<idx, mu, reg, reqCh, chClosed, nc, backoff, pc, on, attempt, panicked>>

\* Mutated form: the connection is kept after a failed read.
ReadFail_Kept(c) ==
    /\ loop[c] = "read"
    /\ FailBatch(c)
    /\ UNCHANGED <<idx, mu, reg, reqCh, chClosed, nc, wire, backoff, pc, on, attempt, nodeVars, panicked>>

\* Mutated form: only the request that was being read is told.
ReadFail_Silent(c) ==
    /\ loop[c] = "read"
    /\ nc' = [nc EXCEPT ![c] = FALSE]
    /\ MayExecute(wire[c])
    /\ wire' = [wire EXCEPT ![c] = <<>>]
    /\ backoff' = [backoff EXCEPT ![c] = TRUE]
    /\ resp' = [resp EXCEPT ![Head(pending[c])] = Err]
    /\ pending' = [pending EXCEPT ![c] = <<>>]
    /\ loop' = [loop EXCEPT ![c] = "recv"]
    /\ UNCHANGED <<idx, mu, reg, reqCh, chClosed, pc, on, attempt, down, panicked>>

ReadFail(c) ==
    /\ loop[c] = "read"
    /\ nc' = [nc EXCEPT ![c] = FALSE]
    /\ MayExecute(wire[c])
    /\ wire' = [wire EXCEPT ![c] = <<>>]
    /\ backoff' = [backoff EXCEPT ![c] = TRUE]
    /\ FailBatch(c)
    /\ UNCHANGED <<idx, mu, reg, reqCh, chClosed, pc, on, attempt, down, panicked>>

\* The time of backoffUntil passes.
BackoffOver(c) ==
    /\ backoff[c]
    /\ backoff' = [backoff EXCEPT ![c] = FALSE]
    /\ UNCHANGED <<idx, mu, reg, reqCh, chClosed, loop, pending, nc, wire, callVars, panicked>>

------------------------------------------------------------------------------
\* PipelinedManager.RemovePool, with the registry's lock held to its end.

RemovePool ==
    /\ Removal /\ reg = "present" /\ mu = "free"
    /\ reg' = "removing"
    /\ mu' = "closing"
    /\ UNCHANGED <<idx, connVars, callVars, panicked>>

\* pipeConn.close of connection c, once those before it have exited.
CloseConn(c) ==
    /\ mu = "closing" /\ ~chClosed[c]
    /\ \A d \in 1..(c - 1) : chClosed[d] /\ loop[d] = "exited"
    /\ chClosed' = [chClosed EXCEPT ![c] = TRUE]
    /\ UNCHANGED <<idx, mu, reg, reqCh, loop, pending, nc, wire, backoff, callVars, panicked>>

Removed ==
    /\ mu = "closing" /\ \A c \in Conns : chClosed[c] /\ loop[c] = "exited"
    /\ mu' = "free"
    /\ reg' = "gone"
    /\ UNCHANGED <<idx, connVars, callVars, panicked>>

------------------------------------------------------------------------------
Call(p) == GetPool(p) \/ Do(p) \/ SendReq(p) \/ Receive(p)

Work(c) ==
    \/ Recv(c) \/ DrainMore(c) \/ Unavailable(c) \/ ConnectOk(c) \/ ConnectFail(c)
    \/ WriteOk(c) \/ WriteFail(c) \/ ReadFail(c)
    \/ \E refuses \in BOOLEAN : ReadOk(c, refuses)

Next ==
    /\ ~panicked
    /\ \/ \E p \in Callers : Call(p)
       \/ \E c \in Conns : Work(c) \/ BackoffOver(c) \/ CloseConn(c)
       \/ RemovePool \/ Removed

\* Goroutines run, dials end by their timeout, and a read ends, by a reply or by an
\* error: that is assumed of the nodes, since it has no deadline.
Fairness ==
    /\ \A p \in Callers : WF_vars(~panicked /\ Call(p))
    /\ \A c \in Conns : WF_vars(~panicked /\ Work(c))

Spec == Init /\ [][Next]_vars /\ Fairness

------------------------------------------------------------------------------
\* Properties.

\* A caller is only ever given the reply to its own request: no reply left over
\* from a broken batch is read as the answer to a later one.
OwnReply == \A p \in Callers : resp[p] \in {p, Err, None}

\* A request that is not answered is in one place, the channel or the batch of
\* the connection it was given to, and the loop there is running; only one that
\* close found collecting the batch (drainMore) has gone with it.
NoRequestLost ==
    \A p \in Callers :
        pc[p] = "wait" /\ resp[p] = None =>
            /\ Cardinality({i \in DOMAIN reqCh[on[p]] : reqCh[on[p]][i] = p})
               + Cardinality({i \in DOMAIN pending[on[p]] : pending[on[p]][i] = p}) = 1
            /\ loop[on[p]] = "exited" => chClosed[on[p]] /\ p \in InBatch(on[p])

\* The retries of execOnNode repeat a request whose fate is unknown at most
\* pipeRetryMax times: the node executes it at most once per attempt and at most
\* pipeRetryMax + 1 times in all, however many CLUSTERDOWN replies come between;
\* and a reply given to the client was executed.
RetriesBounded ==
    \A p \in Callers :
        /\ execs[p] <= attempt[p] + 1 /\ execs[p] <= MaxRetry + 1
        /\ pc[p] = "done" /\ resp[p] = p /\ ~down[p] => execs[p] >= 1

\* Every call returns, as long as the node is in the topology.
Returns ==
    [](reg = "present") => \A p \in Callers : <>(pc[p] \in {"done", "left"})
===============================================================================
