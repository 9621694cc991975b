------------------------------ MODULE RespSlots ------------------------------
(***************************************************************************)
(* The per-client queue of response slots of pkg/engine/handler.go.        *)
(*                                                                         *)
(* A client may pipeline requests whose replies come back in any order:    *)
(* from the event loop itself, from a goroutine of the router, from one    *)
(* shared backend connection or from several (a fan-in).  Each request     *)
(* that cannot be answered at once takes a slot; a reply is written to the *)
(* client when every slot before its own has been written.  A slot is      *)
(* named by its absolute index, which stays valid while the queue shifts.  *)
(*                                                                         *)
(* This module holds the operators; the state machines that use them are   *)
(* RespQueue (one client) and BackendMux (clients, mux and nodes).         *)
(***************************************************************************)
EXTENDS Integers, Sequences

\* What a slot holds before a reply was stored in it.
NoData == [kind |-> "none"]

\* A reply is tagged with what it answers: the (sub-)request the backend, the
\* router or the proxy itself produced it for.
Reply(kind, tag) == [kind |-> kind, req |-> tag.req, total |-> 0, parts |-> {tag}]

\* fi.mergeFunc(fi.subData), the last sub-response being the one of `tag`.
Merged(fi, tag) ==
    [kind |-> "merged", req |-> tag.req, total |-> fi.total, parts |-> fi.subData]

\* A slot of a fan-in over `total` sub-requests; total = 0 is a plain slot
\* (slot.fanIn == nil).  subData keeps which sub-responses were stored.
NewSlot(total) ==
    [ready |-> FALSE, data |-> NoData,
     fanIn |-> [total |-> total, received |-> 0, subData |-> {}]]

\* allocResponseSlot: the absolute index the next slot gets.
NextIdx(queue, base) == base + Len(queue)

\* The bounds check every filling function starts with.
InQueue(queue, base, idx) == idx >= base /\ idx < base + Len(queue)

\* relIdx, counted from 1.
Rel(base, idx) == (idx - base) + 1

\* The index is in the queue and its slot is (fan) or is not (~fan) a fan-in.
SlotAt(queue, base, idx, fan) ==
    /\ InQueue(queue, base, idx)
    /\ fan = (queue[Rel(base, idx)].fanIn.total > 0)

\* The loops that advance `head` over the ready slots: the set holds the one
\* length at which they stop.
Head0(queue) ==
    {n \in 0..Len(queue) :
        /\ \A i \in 1..n : queue[i].ready
        /\ n < Len(queue) => ~queue[n + 1].ready}

\* slot.ready = true; slot.data = data
MarkReady(queue, rel, data) ==
    [queue EXCEPT ![rel] = [ready |-> TRUE, data |-> data, fanIn |-> @.fanIn]]

\* fi.subData[subIdx] = data; fi.received++
StoreSub(queue, rel, tag) ==
    [queue EXCEPT ![rel] =
        [ready |-> @.ready, data |-> @.data,
         fanIn |-> [total |-> @.fanIn.total, received |-> @.fanIn.received + 1,
                    subData |-> @.fanIn.subData \cup {tag}]]]

\* slot.fanIn = nil
ClearFanIn(queue, rel) ==
    [queue EXCEPT ![rel] = [ready |-> @.ready, data |-> @.data, fanIn |-> NewSlot(0).fanIn]]

------------------------------------------------------------------------------
\* The functions that store a reply, each as the set of its possible results
\* (there is one): the queue left behind and iov, what is to be written.

Nothing(queue) == {[queue |-> queue, iov |-> <<>>]}

\* Mutated form: writes one slot, not all the ready ones.
TakeReady_One(queue) ==
    {[queue |-> SubSeq(queue, (IF n > 0 THEN 1 ELSE 0) + 1, Len(queue)),
      iov |-> [i \in 1..(IF n > 0 THEN 1 ELSE 0) |-> queue[i].data]] : n \in Head0(queue)}

\* Take every ready slot off the front of the queue.
TakeReady(queue) ==
    {[queue |-> SubSeq(queue, n + 1, Len(queue)),
      iov |-> [i \in 1..n |-> queue[i].data]] : n \in Head0(queue)}

\* fillResponseSlotInLoop
FillInLoop(queue, base, idx, data) ==
    IF InQueue(queue, base, idx)
    THEN TakeReady(MarkReady(queue, Rel(base, idx), data))
    ELSE Nothing(queue)

\* The tail shared by the two accumulate functions: only a reply for the first
\* slot that was not ready moves slots to the write accumulator.
Store(queue, rel, data) ==
    UNION {IF rel = head + 1
           THEN TakeReady(MarkReady(queue, rel, data))
           ELSE Nothing(MarkReady(queue, rel, data)) : head \in Head0(queue)}

\* accumulateResponseSlot
AccumulateSlot(queue, base, idx, tag) ==
    IF SlotAt(queue, base, idx, FALSE)
    THEN Store(queue, Rel(base, idx), Reply("reply", tag))
    ELSE Nothing(queue)

\* Mutated form: merges one sub-response early.
AccumulateSub_Early(queue, base, idx, tag) ==
    LET rel == Rel(base, idx)
        stored == StoreSub(queue, rel, tag)
    IN IF ~SlotAt(queue, base, idx, TRUE) THEN Nothing(queue)
       ELSE IF stored[rel].fanIn.received < stored[rel].fanIn.total - 1 THEN Nothing(stored)
       ELSE Store(ClearFanIn(stored, rel), rel, Merged(stored[rel].fanIn, tag))

\* accumulateFanInSubResponse: the last sub-response merges them all.
AccumulateSub(queue, base, idx, tag) ==
    LET rel == Rel(base, idx)
        stored == StoreSub(queue, rel, tag)
    IN IF ~SlotAt(queue, base, idx, TRUE) THEN Nothing(queue)
       ELSE IF stored[rel].fanIn.received < stored[rel].fanIn.total THEN Nothing(stored)
       ELSE Store(ClearFanIn(stored, rel), rel, Merged(stored[rel].fanIn, tag))
==============================================================================
