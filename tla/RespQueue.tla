------------------------------ MODULE RespQueue ------------------------------
(***************************************************************************)
(* One client connection and the ways a reply reaches it.                  *)
(*                                                                         *)
(* The client's handlers, the closures queued with EventLoop().Execute and *)
(* the backend handlers that answer it all run on one event loop, so each  *)
(* of them is one action (onTraffic of a backend is a run of TrafficReply  *)
(* steps closed by FlushWriteAccum).  Only the router's goroutines run     *)
(* beside the loop: their one effect here is to queue a closure.           *)
(***************************************************************************)
EXTENDS RespSlots

CONSTANTS MaxReq,   \* requests the client pipelines on its connection
          MaxFan    \* largest number of sub-requests of a cross-slot command

ASSUME BoundsAssumption == MaxReq \in Nat /\ MaxFan \in Nat

VARIABLES
    respQueue,  \* clientCtx.respQueue
    respBase,   \* clientCtx.respBase: absolute index of respQueue's head
    owed,       \* replies still to come: who holds which slot index
    tasks,      \* closures queued with EventLoop().Execute, oldest first
    accum,      \* backendMux.writeAccum for this client
    inTraffic,  \* a backend's onTraffic is running
    out,        \* what was written to the client's socket
    nreq        \* requests dispatched so far

vars == <<respQueue, respBase, owed, tasks, accum, inTraffic, out, nreq>>

\* A pendingClientReq or a router closure: it captured a slot index.  tag is
\* the request n and, in a fan-in, the number of the sub-request (else 0).
Holder(idx, n, sub) == [idx |-> idx, tag |-> [req |-> n, sub |-> sub]]

Init ==
    /\ respQueue = <<>>
    /\ respBase = 0
    /\ owed = {}
    /\ tasks = <<>>
    /\ accum = <<>>
    /\ inTraffic = FALSE
    /\ out = <<>>
    /\ nreq = 0

------------------------------------------------------------------------------
\* Dispatching a request.

\* Mutated form: writes at once although slots are outstanding.
WriteImmediate_NoQueueCheck ==
    /\ ~inTraffic /\ nreq < MaxReq
    /\ nreq' = nreq + 1
    /\ out' = Append(out, Reply("reply", [req |-> nreq + 1, sub |-> 0]))
    /\ UNCHANGED <<respQueue, respBase, owed, tasks, accum, inTraffic>>

\* writeImmediate: a command the proxy answers itself (PING, MULTI, QUEUED...).
\* With nothing outstanding the reply is written at once and takes no slot;
\* otherwise it takes a slot and is filled by a closure.
WriteImmediate ==
    /\ ~inTraffic /\ nreq < MaxReq
    /\ nreq' = nreq + 1
    /\ LET reply == Reply("reply", [req |-> nreq + 1, sub |-> 0]) IN
       \/ /\ respQueue = <<>>
          /\ out' = Append(out, reply)
          /\ UNCHANGED <<respQueue, tasks>>
       \/ /\ respQueue # <<>>
          /\ respQueue' = Append(respQueue, NewSlot(0))
          /\ tasks' = Append(tasks, [idx |-> NextIdx(respQueue, respBase), data |-> reply])
          /\ UNCHANGED out
    /\ UNCHANGED <<respBase, owed, accum, inTraffic>>

\* routeToBackend / submitToRouter: one slot, one reply to come.
Dispatch ==
    /\ ~inTraffic /\ nreq < MaxReq
    /\ nreq' = nreq + 1
    /\ respQueue' = Append(respQueue, NewSlot(0))
    /\ owed' = owed \cup {Holder(NextIdx(respQueue, respBase), nreq + 1, 0)}
    /\ UNCHANGED <<respBase, tasks, accum, inTraffic, out>>

\* routeMultiKeyToMux with keys in `total` slots of the cluster: one slot of
\* the queue, `total` replies to come.
DispatchFanIn(total) ==
    /\ ~inTraffic /\ nreq < MaxReq
    /\ nreq' = nreq + 1
    /\ respQueue' = Append(respQueue, NewSlot(total))
    /\ owed' = owed \cup {Holder(NextIdx(respQueue, respBase), nreq + 1, s) : s \in 1..total}
    /\ UNCHANGED <<respBase, tasks, accum, inTraffic, out>>

------------------------------------------------------------------------------
\* Answering a request.

\* fillResponseSlot: the router's answer, or the error for a request (or
\* sub-request) whose backend was lost; runs on any goroutine.
FillResponseSlot(h, kind) ==
    /\ h \in owed
    /\ kind = "reply" => h.tag.sub = 0
    /\ owed' = owed \ {h}
    /\ tasks' = Append(tasks, [idx |-> h.idx, data |-> Reply(kind, h.tag)])
    /\ UNCHANGED <<respQueue, respBase, accum, inTraffic, out, nreq>>

\* The closure of fillResponseSlot runs: fillResponseSlotInLoop.
FillResponseSlotInLoop ==
    /\ ~inTraffic /\ tasks # <<>>
    /\ \E r \in FillInLoop(respQueue, respBase, Head(tasks).idx, Head(tasks).data) :
          /\ respQueue' = r.queue
          /\ respBase' = respBase + Len(r.iov)
          /\ out' = out \o r.iov
    /\ tasks' = Tail(tasks)
    /\ UNCHANGED <<owed, accum, inTraffic, nreq>>

\* One reply handled by the loop of backendMux.onTraffic.
TrafficReply(h) ==
    /\ h \in owed
    /\ owed' = owed \ {h}
    /\ inTraffic' = TRUE
    /\ \E r \in IF h.tag.sub = 0
                THEN AccumulateSlot(respQueue, respBase, h.idx, h.tag)
                ELSE AccumulateSub(respQueue, respBase, h.idx, h.tag) :
          /\ respQueue' = r.queue
          /\ respBase' = respBase + Len(r.iov)
          /\ accum' = accum \o r.iov
    /\ UNCHANGED <<tasks, out, nreq>>

\* Mutated form: the accumulator is not emptied.
FlushWriteAccum_Kept ==
    /\ inTraffic
    /\ inTraffic' = FALSE
    /\ out' = out \o accum
    /\ UNCHANGED <<respQueue, respBase, owed, tasks, accum, nreq>>

\* Mutated form: what was accumulated is dropped.
FlushWriteAccum_Dropped ==
    /\ inTraffic
    /\ inTraffic' = FALSE
    /\ accum' = <<>>
    /\ UNCHANGED <<respQueue, respBase, owed, tasks, out, nreq>>

\* The end of onTraffic: flushWriteAccum.
FlushWriteAccum ==
    /\ inTraffic
    /\ inTraffic' = FALSE
    /\ out' = out \o accum
    /\ accum' = <<>>
    /\ UNCHANGED <<respQueue, respBase, owed, tasks, nreq>>

------------------------------------------------------------------------------
\* A backend or the router produces an answer, or the answer is lost with the
\* backend's connection.
Answer ==
    \E h \in owed :
        \/ TrafficReply(h)
        \/ \E kind \in {"reply", "error"} : FillResponseSlot(h, kind)

Next ==
    \/ WriteImmediate
    \/ Dispatch
    \/ \E total \in 2..MaxFan : DispatchFanIn(total)
    \/ Answer
    \/ FillResponseSlotInLoop
    \/ FlushWriteAccum

\* The event loop runs what is queued on it, and every request sent to a node
\* is answered or fails; the client owes nobody another request.
Fairness ==
    /\ WF_vars(FillResponseSlotInLoop)
    /\ WF_vars(FlushWriteAccum)
    /\ WF_vars(Answer)

Spec == Init /\ [][Next]_vars /\ Fairness

------------------------------------------------------------------------------
\* Properties.

Tag == [req : 1..MaxReq, sub : 0..MaxFan]

ReplyType ==
    [kind : {"reply", "error", "merged"}, req : 1..MaxReq, total : 0..MaxFan, parts : SUBSET Tag]

SlotType ==
    [ready : BOOLEAN, data : {NoData} \cup ReplyType,
     fanIn : [total : 0..MaxFan, received : 0..MaxFan, subData : SUBSET Tag]]

HolderType == [idx : 0..MaxReq, tag : Tag]

TaskType == [idx : 0..MaxReq, data : ReplyType]

\* Every variable has its type.
TypeOK ==
    /\ respQueue \in Seq(SlotType)
    /\ respBase \in 0..MaxReq
    /\ owed \subseteq HolderType
    /\ tasks \in Seq(TaskType)
    /\ accum \in Seq(ReplyType)
    /\ inTraffic \in BOOLEAN
    /\ out \in Seq(ReplyType)
    /\ nreq \in 0..MaxReq

\* The n-th reply on the client's socket answers its n-th request, whichever
\* of writeImmediate, the closures and the accumulators wrote it.
InOrder == \A i \in DOMAIN out : out[i].req = i

\* Between two handlers of the loop no reply is held back for nothing: the
\* slot at the front of the queue is one that is not answered yet.
HeadNotReady == respQueue # <<>> => ~Head(respQueue).ready

\* Every request the client sent is answered.
Answered == \A n \in 1..MaxReq : (nreq >= n) ~> (Len(out) >= n)

\* The queue of slots implements "each request answered once, in order".
Ordered == INSTANCE OrderedReplies
               WITH accepted <- nreq,
                    delivered <- [i \in DOMAIN out |-> out[i].req]

\* Seen from the client's socket, the proxy behaves as OrderedReplies.
ImplementsOrderedReplies == Ordered!Spec
==============================================================================
