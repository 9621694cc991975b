--------------------------- MODULE RespQueueProofs ---------------------------
(***************************************************************************)
(* Proofs about RespQueue, for every number of requests and sub-requests:  *)
(* replies are delivered in order, and the queue of slots implements       *)
(* OrderedReplies.                                                         *)
(*                                                                         *)
(* The argument: the replies written, those in the write accumulator and   *)
(* the slots of the queue are, end to end, the requests 1..nreq; and       *)
(* whoever still holds a slot index either holds one that was already      *)
(* written (and will be ignored) or one at its request's place in line.    *)
(***************************************************************************)
EXTENDS RespQueue, SequenceTheorems, TLAPS

\* A queue whose first slot belongs to request B + 1.
QueueOK(q, B) ==
    /\ q \in Seq(SlotType)
    /\ \A k \in 1..Len(q) : q[k].ready => q[k].data \in ReplyType /\ q[k].data.req = B + k
    /\ \A k \in 1..Len(q) : q[k].fanIn.total > 0 => q[k].fanIn.received < q[k].fanIn.total

FrontWaits(q) == Len(q) > 0 => ~q[1].ready

\* What storing a reply in such a queue may leave behind and have written.
Good(r, q, B) ==
    /\ r.iov \in Seq(ReplyType)
    /\ Len(r.queue) + Len(r.iov) = Len(q)
    /\ \A i \in 1..Len(r.iov) : r.iov[i].req = B + i
    /\ QueueOK(r.queue, B + Len(r.iov))
    /\ FrontWaits(r.queue)

\* A slot index held for request n, when the queue starts at index base, has
\* len slots and its first slot belongs to request B + 1.
Placed(idx, n, base, len, B) ==
    idx >= base => idx < base + len /\ n = B + (idx - base) + 1

\* All slot indices held: by backends and the router (S), by queued closures (T).
AllPlaced(S, T, base, len, B) ==
    /\ \A h \in S : Placed(h.idx, h.tag.req, base, len, B)
    /\ \A t \in 1..Len(T) : Placed(T[t].idx, T[t].data.req, base, len, B)

\* The inductive invariant.
IInv ==
    /\ TypeOK
    /\ QueueOK(respQueue, Len(out) + Len(accum))
    /\ FrontWaits(respQueue)
    /\ nreq = Len(out) + Len(accum) + Len(respQueue)
    /\ respBase <= Len(out) + Len(accum)
    /\ ~inTraffic => accum = <<>>
    /\ \A i \in 1..Len(out) : out[i].req = i
    /\ \A i \in 1..Len(accum) : accum[i].req = Len(out) + i
    /\ AllPlaced(owed, tasks, respBase, Len(respQueue), Len(out) + Len(accum))

------------------------------------------------------------------------------
\* Taking the ready slots off a well-formed queue (the tail of
\* fillResponseSlotInLoop) writes the next replies in line, and leaves a queue
\* whose front is waiting.
LEMMA TakeReadyGood ==
    ASSUME NEW q, NEW B \in Nat, QueueOK(q, B), NEW r \in TakeReady(q)
    PROVE  Good(r, q, B)
<1>1. PICK n \in Head0(q) : r = [queue |-> SubSeq(q, n + 1, Len(q)),
                                 iov |-> [i \in 1..n |-> q[i].data]]
  BY DEF TakeReady
<1>2. q \in Seq(SlotType) /\ Len(q) \in Nat /\ n \in 0..Len(q)
  BY <1>1 DEF QueueOK, Head0
<1>3. \A i \in 1..n : q[i].ready
  BY <1>1 DEF Head0
<1>4. r.iov \in Seq(ReplyType) /\ Len(r.iov) = n
  BY <1>1, <1>2, <1>3 DEF QueueOK
<1>5. /\ r.queue \in Seq(SlotType)
      /\ Len(r.queue) = Len(q) - n
      /\ \A k \in 1..(Len(q) - n) : r.queue[k] = q[n + k]
  BY <1>1, <1>2
<1>6. \A i \in 1..Len(r.iov) : r.iov[i].req = B + i
  BY <1>1, <1>2, <1>3, <1>4 DEF QueueOK
<1>7. QueueOK(r.queue, B + Len(r.iov))
  <2>1. ASSUME NEW k \in 1..Len(r.queue), r.queue[k].ready
        PROVE  r.queue[k].data \in ReplyType /\ r.queue[k].data.req = B + Len(r.iov) + k
    <3>1. n + k \in 1..Len(q) /\ r.queue[k] = q[n + k]
      BY <1>2, <1>5, <2>1
    <3> QED BY <3>1, <2>1, <1>2, <1>4 DEF QueueOK
  <2>2. ASSUME NEW k \in 1..Len(r.queue), r.queue[k].fanIn.total > 0
        PROVE  r.queue[k].fanIn.received < r.queue[k].fanIn.total
    <3>1. n + k \in 1..Len(q) /\ r.queue[k] = q[n + k]
      BY <1>2, <1>5, <2>2
    <3> QED BY <3>1, <2>2 DEF QueueOK
  <2> QED BY <2>1, <2>2, <1>5 DEF QueueOK
<1>8. FrontWaits(r.queue)
  <2>1. Len(r.queue) > 0 => n < Len(q) /\ r.queue[1] = q[n + 1]
    BY <1>2, <1>5
  <2>2. n < Len(q) => ~q[n + 1].ready
    BY <1>1 DEF Head0
  <2> QED BY <2>1, <2>2 DEF FrontWaits
<1> QED BY <1>2, <1>4, <1>5, <1>6, <1>7, <1>8 DEF Good

\* Nothing stored: nothing is written.
LEMMA NothingGood ==
    ASSUME NEW q, NEW B \in Nat, QueueOK(q, B), FrontWaits(q), NEW r \in Nothing(q)
    PROVE  Good(r, q, B)
<1>1. r = [queue |-> q, iov |-> <<>>]
  BY DEF Nothing
<1>2. r.queue = q /\ r.iov = <<>> /\ Len(r.iov) = 0 /\ r.iov \in Seq(ReplyType) /\ Len(q) \in Nat
  BY <1>1 DEF QueueOK
<1>3. QueueOK(r.queue, B + Len(r.iov))
  <2>1. B + Len(r.iov) = B
    BY <1>2
  <2> QED BY <2>1, <1>2
<1> QED BY <1>2, <1>3 DEF Good, FrontWaits

\* Marking a slot ready with its own request's reply keeps the queue in shape.
LEMMA MarkReadyOK ==
    ASSUME NEW q, NEW B \in Nat, QueueOK(q, B),
           NEW rel \in 1..Len(q), NEW data \in ReplyType, data.req = B + rel
    PROVE  /\ QueueOK(MarkReady(q, rel, data), B)
           /\ Len(MarkReady(q, rel, data)) = Len(q)
           /\ \A k \in 1..Len(q) : k # rel => MarkReady(q, rel, data)[k] = q[k]
<1> DEFINE m == MarkReady(q, rel, data)
<1>1. q \in Seq(SlotType) /\ Len(q) \in Nat
  BY DEF QueueOK
<1>2. q[rel] \in SlotType
  BY <1>1
<1>3. [ready |-> TRUE, data |-> data, fanIn |-> q[rel].fanIn] \in SlotType
  BY <1>2 DEF SlotType
<1>4. m \in Seq(SlotType) /\ Len(m) = Len(q)
  BY <1>1, <1>3 DEF MarkReady
<1>5. \A k \in 1..Len(q) : k # rel => m[k] = q[k]
  BY <1>1 DEF MarkReady
<1>6. m[rel] = [ready |-> TRUE, data |-> data, fanIn |-> q[rel].fanIn]
  <2>1. rel \in DOMAIN q
    BY <1>1
  <2> QED BY <2>1, Zenon DEF MarkReady
<1>7. m[rel].data = data /\ m[rel].fanIn = q[rel].fanIn
  BY <1>6, <1>2 DEF SlotType
<1> HIDE DEF m
<1>8. QueueOK(m, B)
  BY <1>4, <1>5, <1>7, Zenon DEF QueueOK
<1> QED BY <1>4, <1>5, <1>8 DEF m

\* A place in the queue and the request it belongs to.
LEMMA RelPlace ==
    ASSUME NEW q, Len(q) \in Nat, NEW base \in Nat, NEW idx \in Nat, InQueue(q, base, idx)
    PROVE  Rel(base, idx) \in 1..Len(q)
BY DEF InQueue, Rel

\* fillResponseSlotInLoop
LEMMA FillGood ==
    ASSUME NEW q, NEW B \in Nat, QueueOK(q, B), FrontWaits(q),
           NEW base \in Nat, NEW idx \in Nat, NEW data \in ReplyType,
           idx >= base => data.req = B + (idx - base) + 1,
           NEW r \in FillInLoop(q, base, idx, data)
    PROVE  Good(r, q, B)
<1>0. Len(q) \in Nat
  BY DEF QueueOK
<1>1. CASE InQueue(q, base, idx)
  <2> DEFINE rel == Rel(base, idx)
  <2>1. rel \in 1..Len(q) /\ data.req = B + rel
    BY <1>0, <1>1, RelPlace DEF InQueue, Rel
  <2>2. r \in TakeReady(MarkReady(q, rel, data))
    BY <1>1 DEF FillInLoop
  <2> HIDE DEF rel
  <2>3. QueueOK(MarkReady(q, rel, data), B) /\ Len(MarkReady(q, rel, data)) = Len(q)
    BY <2>1, MarkReadyOK
  <2>4. Good(r, MarkReady(q, rel, data), B)
    BY <2>2, <2>3, TakeReadyGood
  <2> QED BY <2>3, <2>4, Zenon DEF Good
<1>2. CASE ~InQueue(q, base, idx)
  <2>1. r \in Nothing(q)
    BY <1>2 DEF FillInLoop
  <2> QED BY <2>1, NothingGood
<1> QED BY <1>1, <1>2

\* The tail of the accumulate functions.
LEMMA StoreGood ==
    ASSUME NEW q, NEW B \in Nat, QueueOK(q, B), FrontWaits(q),
           NEW rel \in 1..Len(q), NEW data \in ReplyType, data.req = B + rel,
           NEW r \in Store(q, rel, data)
    PROVE  Good(r, q, B)
<1> DEFINE m == MarkReady(q, rel, data)
<1>1. Len(q) \in Nat
  BY DEF QueueOK
<1>2. QueueOK(m, B) /\ Len(m) = Len(q) /\ \A k \in 1..Len(q) : k # rel => m[k] = q[k]
  BY MarkReadyOK
<1>3. PICK head \in Head0(q) :
          r \in IF rel = head + 1 THEN TakeReady(m) ELSE Nothing(m)
  BY DEF Store
<1> HIDE DEF m
<1>4. head = 0
  BY <1>1, <1>3 DEF Head0, FrontWaits
<1>5. CASE rel = 1
  <2>1. r \in TakeReady(m)
    BY <1>3, <1>4, <1>5
  <2>2. Good(r, m, B)
    BY <1>2, <2>1, TakeReadyGood
  <2> QED BY <1>2, <2>2, Zenon DEF Good
<1>6. CASE rel # 1
  <2>1. r \in Nothing(m)
    BY <1>3, <1>4, <1>6
  <2>2. FrontWaits(m)
    BY <1>1, <1>2, <1>6 DEF FrontWaits
  <2>3. Good(r, m, B)
    BY <1>2, <2>1, <2>2, NothingGood
  <2> QED BY <1>2, <2>3, Zenon DEF Good
<1> QED BY <1>5, <1>6

\* The reply built from a tag.
LEMMA ReplyOK ==
    ASSUME NEW tag \in Tag, NEW kind \in {"reply", "error", "merged"}
    PROVE  Reply(kind, tag) \in ReplyType /\ Reply(kind, tag).req = tag.req
BY BoundsAssumption DEF Reply, ReplyType, Tag

\* accumulateResponseSlot
LEMMA AccumulateSlotGood ==
    ASSUME NEW q, NEW B \in Nat, QueueOK(q, B), FrontWaits(q),
           NEW base \in Nat, NEW idx \in Nat, NEW tag \in Tag,
           idx >= base => tag.req = B + (idx - base) + 1,
           NEW r \in AccumulateSlot(q, base, idx, tag)
    PROVE  Good(r, q, B)
<1>0. Len(q) \in Nat
  BY DEF QueueOK
<1>1. CASE SlotAt(q, base, idx, FALSE)
  <2>0. InQueue(q, base, idx)
    BY <1>1, Zenon DEF SlotAt
  <2>1. Rel(base, idx) \in 1..Len(q) /\ tag.req = B + Rel(base, idx)
    BY <1>0, <2>0, RelPlace DEF InQueue, Rel
  <2>2. r \in Store(q, Rel(base, idx), Reply("reply", tag))
    BY <1>1 DEF AccumulateSlot
  <2>3. Reply("reply", tag) \in ReplyType /\ Reply("reply", tag).req = tag.req
    BY ReplyOK
  <2> QED BY <2>1, <2>2, <2>3, StoreGood
<1>2. CASE ~SlotAt(q, base, idx, FALSE)
  <2>1. r \in Nothing(q)
    BY <1>2 DEF AccumulateSlot
  <2> QED BY <2>1, NothingGood
<1> QED BY <1>1, <1>2, Zenon

\* Storing one more sub-response, or dropping the fan-in, disturbs neither the
\* readiness nor the data of a slot.
LEMMA StoreSubOK ==
    ASSUME NEW q, NEW B \in Nat, QueueOK(q, B), FrontWaits(q),
           NEW rel \in 1..Len(q), NEW tag \in Tag,
           q[rel].fanIn.received < q[rel].fanIn.total
    PROVE  LET s == StoreSub(q, rel, tag)
               f == ClearFanIn(s, rel)
           IN /\ Len(s) = Len(q)
              /\ s[rel].fanIn \in [total : 0..MaxFan, received : 0..MaxFan, subData : SUBSET Tag]
              /\ s[rel].fanIn.received < s[rel].fanIn.total => QueueOK(s, B) /\ FrontWaits(s)
              /\ Len(f) = Len(q) /\ QueueOK(f, B) /\ FrontWaits(f)
<1> DEFINE s == StoreSub(q, rel, tag)
           f == ClearFanIn(s, rel)
           fi == [total |-> q[rel].fanIn.total, received |-> q[rel].fanIn.received + 1,
                  subData |-> q[rel].fanIn.subData \cup {tag}]
           no == NewSlot(0).fanIn
           FanInType == [total : 0..MaxFan, received : 0..MaxFan, subData : SUBSET Tag]
<1>1. q \in Seq(SlotType) /\ Len(q) \in Nat /\ DOMAIN q = 1..Len(q)
  BY DEF QueueOK
<1>2. q[rel] \in SlotType
  BY <1>1
<1>3. /\ q[rel].ready \in BOOLEAN /\ q[rel].data \in {NoData} \cup ReplyType
      /\ q[rel].fanIn \in FanInType
  BY <1>2 DEF SlotType
<1>4. fi \in FanInType
  BY <1>3, BoundsAssumption
<1>5. no \in FanInType /\ no.total = 0
  BY BoundsAssumption DEF NewSlot
<1>6. /\ DOMAIN s = 1..Len(q)
      /\ s[rel] = [ready |-> q[rel].ready, data |-> q[rel].data, fanIn |-> fi]
      /\ \A k \in 1..Len(q) : k # rel => s[k] = q[k]
  BY <1>1, Zenon DEF StoreSub
<1>7. /\ DOMAIN f = 1..Len(q)
      /\ f[rel] = [ready |-> s[rel].ready, data |-> s[rel].data, fanIn |-> no]
      /\ \A k \in 1..Len(q) : k # rel => f[k] = s[k]
  BY <1>6, Zenon DEF ClearFanIn
<1>8. s = [k \in 1..Len(q) |-> s[k]] /\ f = [k \in 1..Len(q) |-> f[k]]
  BY <1>1, <1>6, Zenon DEF StoreSub, ClearFanIn
<1> HIDE DEF s, f, fi, no, FanInType
<1>9. s[rel].ready = q[rel].ready /\ s[rel].data = q[rel].data /\ s[rel].fanIn = fi
  BY <1>6
<1>10. f[rel].ready = q[rel].ready /\ f[rel].data = q[rel].data /\ f[rel].fanIn = no
  BY <1>7, <1>9
<1>11. s[rel] \in SlotType /\ f[rel] \in SlotType
  BY <1>3, <1>4, <1>5, <1>6, <1>7, <1>9 DEF SlotType, FanInType
<1>12. \A k \in 1..Len(q) : s[k] \in SlotType /\ f[k] \in SlotType
  BY <1>1, <1>6, <1>7, <1>11
<1>13. s \in Seq(SlotType) /\ Len(s) = Len(q) /\ f \in Seq(SlotType) /\ Len(f) = Len(q)
  BY <1>1, <1>8, <1>12
<1>14. \A k \in 1..Len(q) : /\ s[k].ready = q[k].ready /\ s[k].data = q[k].data
                            /\ f[k].ready = q[k].ready /\ f[k].data = q[k].data
  BY <1>6, <1>7, <1>9, <1>10
<1>15. FrontWaits(s) /\ FrontWaits(f)
  BY <1>1, <1>13, <1>14 DEF FrontWaits
<1>16. \A k \in 1..Len(q) :
          /\ s[k].ready => s[k].data \in ReplyType /\ s[k].data.req = B + k
          /\ f[k].ready => f[k].data \in ReplyType /\ f[k].data.req = B + k
  BY <1>14 DEF QueueOK
<1>17. ASSUME s[rel].fanIn.received < s[rel].fanIn.total
       PROVE  QueueOK(s, B)
  <2>1. \A k \in 1..Len(q) : s[k].fanIn.total > 0 => s[k].fanIn.received < s[k].fanIn.total
    BY <1>6, <1>17 DEF QueueOK
  <2> QED BY <1>13, <1>16, <2>1 DEF QueueOK
<1>18. QueueOK(f, B)
  <2>1. ASSUME NEW k \in 1..Len(q), f[k].fanIn.total > 0
        PROVE  f[k].fanIn.received < f[k].fanIn.total
    <3>1. f[rel].fanIn.total = 0
      BY <1>5, <1>10
    <3>2. k # rel
      BY <2>1, <3>1
    <3>3. f[k] = q[k]
      BY <1>6, <1>7, <3>2
    <3> QED BY <2>1, <3>3 DEF QueueOK
  <2> QED BY <1>13, <1>16, <2>1 DEF QueueOK
<1> QED BY <1>4, <1>9, <1>13, <1>15, <1>17, <1>18 DEF s, f, FanInType

\* accumulateFanInSubResponse
LEMMA AccumulateSubGood ==
    ASSUME NEW q, NEW B \in Nat, QueueOK(q, B), FrontWaits(q),
           NEW base \in Nat, NEW idx \in Nat, NEW tag \in Tag,
           idx >= base => tag.req = B + (idx - base) + 1,
           NEW r \in AccumulateSub(q, base, idx, tag)
    PROVE  Good(r, q, B)
<1> DEFINE rel == Rel(base, idx)
           s == StoreSub(q, rel, tag)
           f == ClearFanIn(s, rel)
           data == Merged(s[rel].fanIn, tag)
<1>0. Len(q) \in Nat
  BY DEF QueueOK
<1>1. CASE SlotAt(q, base, idx, TRUE)
  <2>0. InQueue(q, base, idx)
    BY <1>1, Zenon DEF SlotAt
  <2>a. q[rel].fanIn.total > 0
    BY <1>1, Zenon DEF SlotAt
  <2>1. rel \in 1..Len(q) /\ tag.req = B + rel
    BY <1>0, <2>0, RelPlace DEF InQueue, Rel
  <2>2. r \in IF s[rel].fanIn.received < s[rel].fanIn.total THEN Nothing(s) ELSE Store(f, rel, data)
    BY <1>1, Zenon DEF AccumulateSub
  <2> HIDE DEF rel
  <2>3. q[rel].fanIn.received < q[rel].fanIn.total
    BY <2>a, <2>1 DEF QueueOK
  <2>4. /\ Len(s) = Len(q)
        /\ s[rel].fanIn \in [total : 0..MaxFan, received : 0..MaxFan, subData : SUBSET Tag]
        /\ s[rel].fanIn.received < s[rel].fanIn.total => QueueOK(s, B) /\ FrontWaits(s)
        /\ Len(f) = Len(q) /\ QueueOK(f, B) /\ FrontWaits(f)
    BY <2>1, <2>3, StoreSubOK
  <2>5. data \in ReplyType /\ data.req = tag.req
    BY <2>4 DEF Merged, ReplyType, Tag
  <2> HIDE DEF s, f, data
  <2>6. CASE s[rel].fanIn.received < s[rel].fanIn.total
    <3>1. Good(r, s, B)
      BY <2>2, <2>4, <2>6, NothingGood
    <3> QED BY <2>4, <3>1, Zenon DEF Good
  <2>7. CASE ~(s[rel].fanIn.received < s[rel].fanIn.total)
    <3>1. r \in Store(f, rel, data) /\ rel \in 1..Len(f) /\ data.req = B + rel
      BY <2>1, <2>2, <2>4, <2>5, <2>7
    <3>2. Good(r, f, B)
      BY <2>4, <2>5, <3>1, StoreGood
    <3> QED BY <2>4, <3>2, Zenon DEF Good
  <2> QED BY <2>6, <2>7
<1>2. CASE ~SlotAt(q, base, idx, TRUE)
  <2>1. r \in Nothing(q)
    BY <1>2, Zenon DEF AccumulateSub
  <2> QED BY <2>1, NothingGood
<1> QED BY <1>1, <1>2, Zenon

------------------------------------------------------------------------------
\* The invariant holds initially.
LEMMA InitIInv == Init => IInv
<1> SUFFICES ASSUME Init PROVE IInv
  OBVIOUS
<1>1. inTraffic \in BOOLEAN
  BY Zenon DEF Init
<1>2. TypeOK
  BY <1>1, BoundsAssumption DEF Init, TypeOK
<1>3. QueueOK(respQueue, Len(out) + Len(accum)) /\ FrontWaits(respQueue)
  BY DEF Init, QueueOK, FrontWaits
<1> QED BY <1>2, <1>3 DEF Init, IInv, AllPlaced

\* A new slot at the end of the queue (allocResponseSlot) keeps it in shape.
LEMMA AppendOK ==
    ASSUME NEW q, NEW B \in Nat, QueueOK(q, B), FrontWaits(q), NEW total \in 0..MaxFan
    PROVE  LET n == Append(q, NewSlot(total)) IN
           QueueOK(n, B) /\ FrontWaits(n) /\ Len(n) = Len(q) + 1
<1> DEFINE n == Append(q, NewSlot(total))
           new == NewSlot(total)
<1>1. q \in Seq(SlotType) /\ Len(q) \in Nat
  BY DEF QueueOK
<1>2. /\ new \in SlotType /\ new.ready = FALSE
      /\ new.fanIn.total > 0 => new.fanIn.received < new.fanIn.total
  BY BoundsAssumption DEF NewSlot, SlotType
<1> HIDE DEF new
<1>3. /\ n \in Seq(SlotType) /\ Len(n) = Len(q) + 1
      /\ n[Len(q) + 1] = new
      /\ \A k \in 1..Len(q) : n[k] = q[k]
  BY <1>1, <1>2 DEF new
<1> HIDE DEF n
<1>4. \A k \in 1..Len(n) : n[k].ready => n[k].data \in ReplyType /\ n[k].data.req = B + k
  BY <1>1, <1>2, <1>3 DEF QueueOK
<1>5. \A k \in 1..Len(n) : n[k].fanIn.total > 0 => n[k].fanIn.received < n[k].fanIn.total
  BY <1>1, <1>2, <1>3 DEF QueueOK
<1>6. FrontWaits(n)
  BY <1>1, <1>2, <1>3 DEF FrontWaits
<1> QED BY <1>3, <1>4, <1>5, <1>6 DEF QueueOK, n

\* Facts of the invariant that every step uses.
LEMMA Basics ==
    ASSUME IInv
    PROVE  /\ Len(out) \in Nat /\ Len(accum) \in Nat /\ Len(respQueue) \in Nat
           /\ Len(tasks) \in Nat /\ respBase \in Nat /\ nreq \in Nat /\ nreq <= MaxReq
           /\ MaxReq \in Nat /\ MaxFan \in Nat
           /\ \A h \in owed : h.idx \in Nat /\ h.tag \in Tag /\ h.tag.req \in Nat
           /\ \A t \in 1..Len(tasks) :
                 /\ tasks[t].idx \in Nat /\ tasks[t].data \in ReplyType
                 /\ tasks[t].data.req \in Nat
<1>1. TypeOK
  BY DEF IInv
<1>2. /\ Len(out) \in Nat /\ Len(accum) \in Nat /\ Len(respQueue) \in Nat
      /\ Len(tasks) \in Nat /\ respBase \in Nat /\ nreq \in Nat /\ nreq <= MaxReq
      /\ MaxReq \in Nat /\ MaxFan \in Nat
  BY <1>1, BoundsAssumption DEF TypeOK
<1>3. ASSUME NEW h \in owed
      PROVE  h.idx \in Nat /\ h.tag \in Tag /\ h.tag.req \in Nat
  <2>1. h \in HolderType
    BY <1>1 DEF TypeOK
  <2>2. h.idx \in 0..MaxReq /\ h.tag \in Tag
    BY <2>1 DEF HolderType
  <2>3. h.tag.req \in 1..MaxReq
    BY <2>2 DEF Tag
  <2> QED BY <2>2, <2>3, <1>2
<1>4. ASSUME NEW t \in 1..Len(tasks)
      PROVE  tasks[t].idx \in Nat /\ tasks[t].data \in ReplyType /\ tasks[t].data.req \in Nat
  <2>1. tasks[t] \in TaskType
    BY <1>1 DEF TypeOK
  <2>2. tasks[t].idx \in 0..MaxReq /\ tasks[t].data \in ReplyType
    BY <2>1 DEF TaskType
  <2>3. tasks[t].data.req \in 1..MaxReq
    BY <2>2 DEF ReplyType
  <2> QED BY <2>2, <2>3, <1>2
<1> QED BY <1>2, <1>3, <1>4

\* The lengths alone, which are all that most steps need.
LEMMA Lengths ==
    ASSUME IInv
    PROVE  /\ Len(out) \in Nat /\ Len(accum) \in Nat /\ Len(respQueue) \in Nat
           /\ Len(out) + Len(accum) \in Nat /\ respBase \in Nat /\ nreq \in Nat
           /\ nreq = Len(out) + Len(accum) + Len(respQueue) /\ Len(out) <= nreq
<1>1. /\ Len(out) \in Nat /\ Len(accum) \in Nat /\ Len(respQueue) \in Nat
      /\ respBase \in Nat /\ nreq \in Nat
  BY Basics
<1>2. nreq = Len(out) + Len(accum) + Len(respQueue)
  BY Zenon DEF IInv
<1> QED BY <1>1, <1>2

\* A queue end to end with another.
LEMMA ConcatLen ==
    ASSUME NEW S, NEW s \in Seq(S), NEW t \in Seq(S)
    PROVE  s \o t \in Seq(S) /\ Len(s \o t) = Len(s) + Len(t) /\ Len(s) \in Nat /\ Len(t) \in Nat
  OBVIOUS

\* An index stays in place when the queue grows at its end, when its first k
\* slots are taken off, and when it points into no queue at all.
LEMMA PlacedMoves ==
    ASSUME NEW idx \in Nat, NEW n \in Nat, NEW base \in Nat, NEW len \in Nat, NEW B \in Nat,
           Placed(idx, n, base, len, B)
    PROVE  /\ Placed(idx, n, base, len + 1, B)
           /\ \A k \in 0..len : Placed(idx, n, base + k, len - k, B + k)
           /\ len = 0 => \A C : Placed(idx, n, base, len, C)
BY DEF Placed

\* The same for all the indices held.
LEMMA AllPlacedMoves ==
    ASSUME IInv
    PROVE  LET B == Len(out) + Len(accum)
               len == Len(respQueue)
           IN /\ AllPlaced(owed, tasks, respBase, len + 1, B)
              /\ \A k \in 0..len : AllPlaced(owed, tasks, respBase + k, len - k, B + k)
              /\ len = 0 => AllPlaced(owed, tasks, respBase, len, B + 1)
<1> DEFINE B == Len(out) + Len(accum)
           len == Len(respQueue)
<1>1. B \in Nat /\ len \in Nat /\ respBase \in Nat
  BY Basics
<1>2. AllPlaced(owed, tasks, respBase, len, B)
  BY DEF IInv
<1> HIDE DEF B, len
<1>3. ASSUME NEW h \in owed
      PROVE  /\ Placed(h.idx, h.tag.req, respBase, len + 1, B)
             /\ \A k \in 0..len : Placed(h.idx, h.tag.req, respBase + k, len - k, B + k)
             /\ len = 0 => Placed(h.idx, h.tag.req, respBase, len, B + 1)
  <2>1. h.idx \in Nat /\ h.tag.req \in Nat
    BY Basics
  <2>2. Placed(h.idx, h.tag.req, respBase, len, B)
    BY <1>2 DEF AllPlaced
  <2> QED BY <1>1, <2>1, <2>2, PlacedMoves, Zenon
<1>4. ASSUME NEW t \in 1..Len(tasks)
      PROVE  /\ Placed(tasks[t].idx, tasks[t].data.req, respBase, len + 1, B)
             /\ \A k \in 0..len :
                   Placed(tasks[t].idx, tasks[t].data.req, respBase + k, len - k, B + k)
             /\ len = 0 => Placed(tasks[t].idx, tasks[t].data.req, respBase, len, B + 1)
  <2>1. tasks[t].idx \in Nat /\ tasks[t].data.req \in Nat
    BY Basics
  <2>2. Placed(tasks[t].idx, tasks[t].data.req, respBase, len, B)
    BY <1>2 DEF AllPlaced
  <2> QED BY <1>1, <2>1, <2>2, PlacedMoves, Zenon
<1> QED BY <1>3, <1>4 DEF AllPlaced, B, len

\* A request that takes a slot: whoever is handed the slot's index (a backend,
\* the router, or the closure of writeImmediate) is in place.
LEMMA NewSlotIInv ==
    ASSUME IInv, nreq < MaxReq, NEW total \in 0..MaxFan,
           respQueue' = Append(respQueue, NewSlot(total)),
           nreq' = nreq + 1,
           UNCHANGED <<respBase, accum, inTraffic, out>>,
           owed' \in SUBSET HolderType, tasks' \in Seq(TaskType),
           \A h \in owed' : h \in owed \/ (h.idx = NextIdx(respQueue, respBase) /\ h.tag.req = nreq + 1),
           \A t \in 1..Len(tasks') :
               \/ t \in 1..Len(tasks) /\ tasks'[t] = tasks[t]
               \/ tasks'[t].idx = NextIdx(respQueue, respBase) /\ tasks'[t].data.req = nreq + 1
    PROVE  IInv'
<1> DEFINE B == Len(out) + Len(accum)
           len == Len(respQueue)
<1>1. B \in Nat /\ len \in Nat /\ respBase \in Nat /\ nreq = B + len /\ respBase <= B
  BY Basics DEF IInv
<1>2. QueueOK(respQueue', B) /\ FrontWaits(respQueue') /\ Len(respQueue') = len + 1
  BY <1>1, AppendOK DEF IInv
<1>3. B = Len(out') + Len(accum')
  OBVIOUS
<1>4. TypeOK'
  <2>1. respQueue' \in Seq(SlotType)
    BY <1>2 DEF QueueOK
  <2>2. nreq' \in 0..MaxReq
    BY Basics
  <2>3. TypeOK
    BY DEF IInv
  <2> QED BY <2>1, <2>2, <2>3 DEF TypeOK
<1>5. AllPlaced(owed, tasks, respBase, len + 1, B)
  BY AllPlacedMoves
<1>6. Placed(NextIdx(respQueue, respBase), nreq + 1, respBase, len + 1, B)
  BY <1>1 DEF Placed, NextIdx
<1> HIDE DEF B, len
<1>7. AllPlaced(owed', tasks', respBase, len + 1, B)
  <2>1. ASSUME NEW h \in owed'
        PROVE  Placed(h.idx, h.tag.req, respBase, len + 1, B)
    BY <1>5, <1>6 DEF AllPlaced
  <2>2. ASSUME NEW t \in 1..Len(tasks')
        PROVE  Placed(tasks'[t].idx, tasks'[t].data.req, respBase, len + 1, B)
    BY <1>5, <1>6 DEF AllPlaced
  <2> QED BY <2>1, <2>2 DEF AllPlaced
<1>8. /\ nreq' = Len(out') + Len(accum') + Len(respQueue')
      /\ respBase' <= Len(out') + Len(accum')
  BY <1>1, <1>2, <1>3
<1>9. /\ ~inTraffic' => accum' = <<>>
      /\ \A i \in 1..Len(out') : out'[i].req = i
      /\ \A i \in 1..Len(accum') : accum'[i].req = Len(out') + i
  BY DEF IInv
<1>10. /\ QueueOK(respQueue', Len(out') + Len(accum'))
       /\ AllPlaced(owed', tasks', respBase', Len(respQueue'), Len(out') + Len(accum'))
  BY <1>2, <1>3, <1>7
<1> QED BY <1>2, <1>4, <1>8, <1>9, <1>10 DEF IInv

\* Every action that takes a request in (writeImmediate, routeToBackend and
\* submitToRouter, routeMultiKeyToMux) keeps the invariant.
LEMMA DispatchIInv ==
    ASSUME IInv, WriteImmediate \/ Dispatch \/ \E total \in 2..MaxFan : DispatchFanIn(total)
    PROVE  IInv'
<1> DEFINE B == Len(out) + Len(accum)
           idx == NextIdx(respQueue, respBase)
           Own(sub) == [req |-> nreq + 1, sub |-> sub]
<1>0. /\ B \in Nat /\ Len(respQueue) \in Nat /\ respBase \in Nat /\ MaxFan \in Nat /\ MaxReq \in Nat
      /\ nreq \in Nat /\ nreq = B + Len(respQueue) /\ respBase <= B
  BY Basics DEF IInv
<1>1. nreq < MaxReq
  BY DEF WriteImmediate, Dispatch, DispatchFanIn
<1>2. idx \in 0..MaxReq /\ nreq + 1 \in 1..MaxReq /\ 0 \in 0..MaxFan
  BY <1>0, <1>1 DEF NextIdx
<1>3. ASSUME NEW sub \in 0..MaxFan
      PROVE  /\ Own(sub) \in Tag /\ Own(sub).req = nreq + 1
             /\ Holder(idx, nreq + 1, sub) \in HolderType
             /\ Holder(idx, nreq + 1, sub).idx = idx
             /\ Holder(idx, nreq + 1, sub).tag.req = nreq + 1
  BY <1>2 DEF Tag, HolderType, Holder
<1>4. owed \in SUBSET HolderType /\ tasks \in Seq(TaskType)
  BY DEF IInv, TypeOK
<1> HIDE DEF idx
<1>5. CASE Dispatch
  <2>1. owed' = owed \cup {Holder(idx, nreq + 1, 0)}
    BY <1>5 DEF Dispatch, idx
  <2>2. /\ owed' \in SUBSET HolderType
        /\ \A h \in owed' : h \in owed \/ (h.idx = idx /\ h.tag.req = nreq + 1)
    BY <1>2, <1>3, <1>4, <2>1, Zenon
  <2>3. /\ respQueue' = Append(respQueue, NewSlot(0)) /\ nreq' = nreq + 1 /\ tasks' = tasks
        /\ UNCHANGED <<respBase, accum, inTraffic, out>>
    BY <1>5 DEF Dispatch
  <2> QED BY <1>1, <1>2, <1>4, <2>2, <2>3, NewSlotIInv DEF idx
<1>6. ASSUME NEW total \in 2..MaxFan, DispatchFanIn(total)
      PROVE  IInv'
  <2>1. owed' = owed \cup {Holder(idx, nreq + 1, s) : s \in 1..total}
    BY <1>6 DEF DispatchFanIn, idx
  <2>2. total \in 0..MaxFan /\ 1..total \subseteq 0..MaxFan
    BY <1>0
  <2>3. /\ owed' \in SUBSET HolderType
        /\ \A h \in owed' : h \in owed \/ (h.idx = idx /\ h.tag.req = nreq + 1)
    <3>1. ASSUME NEW h \in owed', h \notin owed
          PROVE  h \in HolderType /\ h.idx = idx /\ h.tag.req = nreq + 1
      <4>1. PICK s \in 1..total : h = Holder(idx, nreq + 1, s)
        BY <2>1, <3>1
      <4> QED BY <1>3, <2>2, <4>1, Zenon
    <3> QED BY <1>4, <3>1
  <2>4. /\ respQueue' = Append(respQueue, NewSlot(total)) /\ nreq' = nreq + 1 /\ tasks' = tasks
        /\ UNCHANGED <<respBase, accum, inTraffic, out>>
    BY <1>6 DEF DispatchFanIn
  <2> QED BY <1>1, <1>4, <2>2, <2>3, <2>4, NewSlotIInv DEF idx
<1>7. ASSUME WriteImmediate PROVE IInv'
  <2> DEFINE reply == Reply("reply", Own(0))
             task == [idx |-> idx, data |-> reply]
  <2>1. reply \in ReplyType /\ reply.req = nreq + 1
    BY <1>2, <1>3, ReplyOK
  <2> HIDE DEF reply
  <2>2. task \in TaskType /\ task.idx = idx /\ task.data = reply
    BY <1>2, <2>1 DEF TaskType
  <2>3. nreq' = nreq + 1 /\ ~inTraffic /\ UNCHANGED <<respBase, owed, accum, inTraffic>>
    BY <1>7 DEF WriteImmediate
  <2> HIDE DEF task
  <2>4. CASE respQueue # <<>>
    <3>1. /\ respQueue' = Append(respQueue, NewSlot(0))
          /\ tasks' = Append(tasks, task) /\ out' = out
      BY <1>7, <2>4 DEF WriteImmediate, task, reply, idx
    <3>2. /\ tasks' \in Seq(TaskType)
          /\ \A t \in 1..Len(tasks') :
                \/ t \in 1..Len(tasks) /\ tasks'[t] = tasks[t]
                \/ tasks'[t].idx = idx /\ tasks'[t].data.req = nreq + 1
      BY <1>4, <2>1, <2>2, <3>1
    <3> QED BY <1>1, <1>2, <1>4, <2>3, <3>1, <3>2, NewSlotIInv DEF idx
  <2>5. CASE respQueue = <<>>
    <3>1. out' = Append(out, reply) /\ UNCHANGED <<respQueue, tasks>>
      BY <1>7, <2>5 DEF WriteImmediate, reply
    <3>2. accum = <<>> /\ Len(accum) = 0 /\ Len(respQueue) = 0 /\ nreq = Len(out)
      BY <1>0, <2>3, <2>5, Basics DEF IInv
    <3>3. out \in Seq(ReplyType) /\ Len(out) \in Nat /\ \A i \in 1..Len(out) : out[i].req = i
      BY DEF IInv, TypeOK
    <3>4. /\ out' \in Seq(ReplyType) /\ Len(out') = Len(out) + 1
          /\ \A i \in 1..Len(out') : out'[i].req = i
      BY <2>1, <3>1, <3>2, <3>3
    <3>5. TypeOK'
      BY <1>0, <1>1, <2>3, <3>1, <3>4 DEF IInv, TypeOK
    <3>6. Len(out') + Len(accum') = B + 1
      BY <1>0, <2>3, <3>2, <3>3, <3>4
    <3>7. QueueOK(respQueue', B + 1) /\ FrontWaits(respQueue')
      BY <2>5, <3>1, <3>2 DEF QueueOK, FrontWaits
    <3>8. AllPlaced(owed', tasks', respBase', Len(respQueue'), B + 1)
      BY <2>3, <3>1, <3>2, AllPlacedMoves
    <3>9. /\ nreq' = B + 1 + Len(respQueue') /\ respBase' <= B + 1
          /\ accum' = <<>> /\ Len(accum') = 0
      BY <1>0, <2>3, <3>1, <3>2
    <3> QED BY <3>4, <3>5, <3>6, <3>7, <3>8, <3>9 DEF IInv
  <2> QED BY <2>4, <2>5
<1> QED BY <1>5, <1>6, <1>7

\* Replies appended to replies that are next in line are in line.
LEMMA ConcatInLine ==
    ASSUME NEW s \in Seq(ReplyType), NEW v \in Seq(ReplyType), NEW D \in Nat,
           \A i \in 1..Len(s) : s[i].req = D + i,
           \A i \in 1..Len(v) : v[i].req = D + Len(s) + i
    PROVE  /\ s \o v \in Seq(ReplyType)
           /\ Len(s \o v) = Len(s) + Len(v)
           /\ \A i \in 1..Len(s \o v) : (s \o v)[i].req = D + i
<1>1. s \o v \in Seq(ReplyType) /\ Len(s \o v) = Len(s) + Len(v)
  OBVIOUS
<1>2. ASSUME NEW i \in 1..Len(s \o v)
      PROVE  (s \o v)[i].req = D + i
  <2>1. CASE i <= Len(s)
    <3>1. (s \o v)[i] = s[i] /\ i \in 1..Len(s)
      BY <1>1, <2>1
    <3> QED BY <3>1
  <2>2. CASE i > Len(s)
    <3>1. (s \o v)[i] = v[i - Len(s)] /\ i - Len(s) \in 1..Len(v)
      BY <1>1, <2>2
    <3>2. v[i - Len(s)].req = D + Len(s) + (i - Len(s))
      BY <3>1
    <3>3. D + Len(s) + (i - Len(s)) = D + i
      BY <1>1
    <3> QED BY <3>1, <3>2, <3>3
  <2> QED BY <1>1, <2>1, <2>2
<1> QED BY <1>1, <1>2

\* A step that stores a reply; what becomes ready is either written
\* (fillResponseSlotInLoop) or accumulated (onTraffic).
StoreStep(r) ==
    /\ Good(r, respQueue, Len(out) + Len(accum))
    /\ respQueue' = r.queue /\ respBase' = respBase + Len(r.iov) /\ nreq' = nreq
    /\ owed' \subseteq owed
    /\ tasks' \in Seq(TaskType)
    /\ \A t \in 1..Len(tasks') : \E u \in 1..Len(tasks) : tasks'[t] = tasks[u]
    /\ inTraffic' \in BOOLEAN
    /\ \/ ~inTraffic /\ ~inTraffic' /\ out' = out \o r.iov /\ accum' = accum
       \/ inTraffic' /\ out' = out /\ accum' = accum \o r.iov

\* Such a step keeps the invariant.
LEMMA StoreIInv ==
    ASSUME IInv, NEW r, StoreStep(r)
    PROVE  IInv'
<1> DEFINE B == Len(out) + Len(accum)
           v == r.iov
           k == Len(v)
           len == Len(respQueue)
<1>1. /\ Len(out) \in Nat /\ Len(accum) \in Nat /\ len \in Nat /\ respBase \in Nat
      /\ nreq \in Nat /\ nreq <= MaxReq /\ MaxReq \in Nat
      /\ nreq = Len(out) + Len(accum) + len /\ respBase <= Len(out) + Len(accum)
  BY Basics, Zenon DEF IInv
<1>2. out \in Seq(ReplyType) /\ accum \in Seq(ReplyType) /\ TypeOK
  BY DEF IInv, TypeOK
<1>3. /\ \A i \in 1..Len(out) : out[i].req = i
      /\ \A i \in 1..Len(accum) : accum[i].req = Len(out) + i
      /\ ~inTraffic => accum = <<>>
  BY DEF IInv
<1>4. /\ v \in Seq(ReplyType) /\ Len(respQueue') + k = len
      /\ \A i \in 1..k : v[i].req = B + i
      /\ QueueOK(respQueue', B + k) /\ FrontWaits(respQueue')
      /\ respBase' = respBase + k /\ nreq' = nreq
  BY Zenon DEF StoreStep, Good
<1>s. /\ owed' \subseteq owed /\ tasks' \in Seq(TaskType) /\ inTraffic' \in BOOLEAN
      /\ \A t \in 1..Len(tasks') : \E u \in 1..Len(tasks) : tasks'[t] = tasks[u]
  BY Zenon DEF StoreStep
<1>t. \/ ~inTraffic /\ ~inTraffic' /\ out' = out \o v /\ accum' = accum
      \/ inTraffic' /\ out' = out /\ accum' = accum \o v
  BY Zenon DEF StoreStep
<1> HIDE DEF v, len
<1>5. respQueue' \in Seq(SlotType)
  BY <1>4 DEF QueueOK
<1>6. k \in Nat /\ Len(respQueue') \in Nat
  BY <1>4, <1>5
<1>7. Len(respQueue') = len - k /\ k \in 0..len
  BY <1>1, <1>4, <1>6
<1>8. /\ out' \in Seq(ReplyType) /\ accum' \in Seq(ReplyType)
      /\ Len(out') + Len(accum') = B + k
      /\ ~inTraffic' => accum' = <<>>
      /\ \A i \in 1..Len(out') : out'[i].req = i
      /\ \A i \in 1..Len(accum') : accum'[i].req = Len(out') + i
  <2>1. CASE ~inTraffic /\ ~inTraffic' /\ out' = out \o v /\ accum' = accum
    <3>1. accum = <<>> /\ Len(accum) = 0 /\ B = Len(out)
      BY <1>1, <1>3, <2>1
    <3>d. PICK D \in Nat : D = 0
      OBVIOUS
    <3>a. ASSUME NEW i \in 1..Len(out) PROVE out[i].req = D + i
      <4>1. out[i].req = i
        BY <1>3
      <4>2. D + i = i
        BY <1>1, <3>d
      <4> QED BY <4>1, <4>2, Zenon
    <3>b. ASSUME NEW i \in 1..k PROVE v[i].req = D + Len(out) + i
      <4>1. v[i].req = B + i
        BY <1>4, Zenon
      <4>2. B = D + Len(out)
        BY <1>1, <3>1, <3>d
      <4> QED BY <4>1, <4>2, Zenon
    <3>2. /\ \A i \in 1..Len(out) : out[i].req = D + i
          /\ \A i \in 1..k : v[i].req = D + Len(out) + i
      BY <3>a, <3>b, Zenon
    <3>3. /\ out \o v \in Seq(ReplyType) /\ Len(out \o v) = Len(out) + k
          /\ \A i \in 1..Len(out \o v) : (out \o v)[i].req = D + i
      BY <1>2, <1>4, <3>2, ConcatInLine, Zenon
    <3>4. \A i \in 1..Len(out \o v) : (out \o v)[i].req = i
      BY <1>1, <1>6, <3>3, <3>d
    <3>5. Len(out') = Len(out) + k /\ accum' = <<>> /\ Len(accum') = 0
      BY <2>1, <3>1, <3>3
    <3>6. Len(out') + Len(accum') = B + k
      BY <1>1, <1>6, <3>1, <3>5
    <3>7. out' \in Seq(ReplyType) /\ accum' \in Seq(ReplyType)
      BY <1>2, <2>1, <3>3, Zenon
    <3>8. \A i \in 1..Len(out') : out'[i].req = i
      BY <2>1, <3>4, Zenon
    <3>9. \A i \in 1..Len(accum') : accum'[i].req = Len(out') + i
      BY <3>5
    <3> QED BY <3>5, <3>6, <3>7, <3>8, <3>9, Zenon
  <2>2. CASE inTraffic' /\ out' = out /\ accum' = accum \o v
    <3>1. \A i \in 1..k : v[i].req = Len(out) + Len(accum) + i
      BY <1>4
    <3>d. PICK D \in Nat : D = Len(out)
      BY <1>1
    <3>a. /\ \A i \in 1..Len(accum) : accum[i].req = D + i
          /\ \A i \in 1..k : v[i].req = D + Len(accum) + i
      BY <1>3, <3>1, <3>d, Zenon
    <3>b. /\ accum \o v \in Seq(ReplyType) /\ Len(accum \o v) = Len(accum) + k
          /\ \A i \in 1..Len(accum \o v) : (accum \o v)[i].req = D + i
      BY <1>2, <1>4, <3>a, ConcatInLine, Zenon
    <3>2. /\ accum \o v \in Seq(ReplyType) /\ Len(accum \o v) = Len(accum) + k
          /\ \A i \in 1..Len(accum \o v) : (accum \o v)[i].req = Len(out) + i
      BY <3>b, <3>d, Zenon
    <3>3. Len(out) + (Len(accum) + k) = B + k
      BY <1>1, <1>6
    <3> QED BY <1>2, <1>3, <2>2, <3>2, <3>3
  <2> QED BY <1>t, <2>1, <2>2, Zenon
<1> HIDE DEF k
<1>10. /\ respBase' \in 0..MaxReq /\ nreq' \in 0..MaxReq
       /\ nreq' = B + k + Len(respQueue') /\ respBase' <= B + k
  BY <1>1, <1>4, <1>6, <1>7
<1>11. TypeOK'
  BY <1>2, <1>5, <1>8, <1>10, <1>s DEF TypeOK
<1>12. AllPlaced(owed', tasks', respBase', Len(respQueue'), B + k)
  <2>1. AllPlaced(owed, tasks, respBase + k, len - k, B + k)
    BY <1>7, AllPlacedMoves DEF len
  <2> QED BY <1>4, <1>7, <1>s, <2>1, Zenon DEF AllPlaced
<1> QED BY <1>4, <1>8, <1>10, <1>11, <1>12 DEF IInv

\* What the invariant says of whoever holds a slot index.
LEMMA HeldPlace ==
    ASSUME IInv
    PROVE  /\ \A h \in owed : /\ h.idx \in Nat /\ h.tag \in Tag /\ h \in HolderType
                              /\ h.idx >= respBase =>
                                    h.tag.req = Len(out) + Len(accum) + (h.idx - respBase) + 1
           /\ \A t \in 1..Len(tasks) :
                 /\ tasks[t] \in TaskType /\ tasks[t].idx \in Nat /\ tasks[t].data \in ReplyType
                 /\ tasks[t].idx >= respBase =>
                       tasks[t].data.req = Len(out) + Len(accum) + (tasks[t].idx - respBase) + 1
<1>1. ASSUME NEW h \in owed
      PROVE  /\ h.idx \in Nat /\ h.tag \in Tag /\ h \in HolderType
             /\ h.idx >= respBase =>
                   h.tag.req = Len(out) + Len(accum) + (h.idx - respBase) + 1
  <2>1. h \in HolderType
    BY DEF IInv, TypeOK
  <2>2. Placed(h.idx, h.tag.req, respBase, Len(respQueue), Len(out) + Len(accum))
    BY DEF IInv, AllPlaced
  <2> QED BY <2>1, <2>2 DEF Placed, HolderType
<1>2. ASSUME NEW t \in 1..Len(tasks)
      PROVE  /\ tasks[t] \in TaskType /\ tasks[t].idx \in Nat /\ tasks[t].data \in ReplyType
             /\ tasks[t].idx >= respBase =>
                   tasks[t].data.req = Len(out) + Len(accum) + (tasks[t].idx - respBase) + 1
  <2>1. tasks[t] \in TaskType
    BY DEF IInv, TypeOK
  <2>2. Placed(tasks[t].idx, tasks[t].data.req, respBase, Len(respQueue), Len(out) + Len(accum))
    BY DEF IInv, AllPlaced
  <2> QED BY <2>1, <2>2 DEF Placed, TaskType
<1> QED BY <1>1, <1>2

\* What the oldest closure stores is in its place.
LEMMA TaskGood ==
    ASSUME IInv, tasks # <<>>,
           NEW r \in FillInLoop(respQueue, respBase, Head(tasks).idx, Head(tasks).data)
    PROVE  Good(r, respQueue, Len(out) + Len(accum))
<1>1. tasks \in Seq(TaskType)
  BY DEF IInv, TypeOK
<1>2. Len(tasks) \in Nat /\ 1 \in 1..Len(tasks) /\ Head(tasks) = tasks[1]
  BY <1>1
<1>3. /\ Len(out) + Len(accum) \in Nat /\ respBase \in Nat
      /\ QueueOK(respQueue, Len(out) + Len(accum)) /\ FrontWaits(respQueue)
  BY Lengths, Zenon DEF IInv
<1>4. /\ Head(tasks).idx \in Nat /\ Head(tasks).data \in ReplyType
      /\ Head(tasks).idx >= respBase =>
            Head(tasks).data.req = Len(out) + Len(accum) + (Head(tasks).idx - respBase) + 1
  BY <1>2, HeldPlace
<1> QED BY <1>3, <1>4, FillGood

\* The closure that fills a slot.
LEMMA FillResponseSlotInLoopIInv == ASSUME IInv, FillResponseSlotInLoop PROVE IInv'
<1>1. tasks \in Seq(TaskType) /\ tasks # <<>> /\ ~inTraffic /\ inTraffic' = inTraffic
  BY DEF IInv, TypeOK, FillResponseSlotInLoop
<1>2. Len(tasks) \in Nat /\ 1 \in 1..Len(tasks) /\ Head(tasks) = tasks[1]
  BY <1>1
<1>3. PICK r \in FillInLoop(respQueue, respBase, Head(tasks).idx, Head(tasks).data) :
          respQueue' = r.queue /\ respBase' = respBase + Len(r.iov) /\ out' = out \o r.iov
  BY DEF FillResponseSlotInLoop
<1>6. Good(r, respQueue, Len(out) + Len(accum))
  BY <1>1, <1>3, TaskGood
<1>7. /\ tasks' \in Seq(TaskType)
      /\ \A t \in 1..Len(tasks') : \E u \in 1..Len(tasks) : tasks'[t] = tasks[u]
  <2>1. tasks' = Tail(tasks)
    BY DEF FillResponseSlotInLoop
  <2>2. /\ Tail(tasks) \in Seq(TaskType) /\ Len(Tail(tasks)) = Len(tasks) - 1
        /\ \A t \in 1..Len(Tail(tasks)) : Tail(tasks)[t] = tasks[t + 1] /\ t + 1 \in 1..Len(tasks)
    BY <1>1, <1>2
  <2> QED BY <2>1, <2>2
<1>8. owed' = owed /\ accum' = accum /\ nreq' = nreq /\ inTraffic' \in BOOLEAN
  BY <1>1 DEF FillResponseSlotInLoop, IInv, TypeOK
<1>9. StoreStep(r)
  BY <1>1, <1>3, <1>6, <1>7, <1>8, Zenon DEF StoreStep
<1> QED BY <1>9, StoreIInv

\* A reply handled by a backend's onTraffic.
LEMMA TrafficReplyIInv == ASSUME IInv, NEW h, TrafficReply(h) PROVE IInv'
<1>1. h \in owed /\ owed' \subseteq owed
  BY DEF TrafficReply
<1>2. PICK r \in IF h.tag.sub = 0
                 THEN AccumulateSlot(respQueue, respBase, h.idx, h.tag)
                 ELSE AccumulateSub(respQueue, respBase, h.idx, h.tag) :
          respQueue' = r.queue /\ respBase' = respBase + Len(r.iov) /\ accum' = accum \o r.iov
  BY DEF TrafficReply
<1>3. /\ Len(out) + Len(accum) \in Nat /\ respBase \in Nat
      /\ QueueOK(respQueue, Len(out) + Len(accum)) /\ FrontWaits(respQueue)
  BY Lengths, Zenon DEF IInv
<1>4. /\ h.idx \in Nat /\ h.tag \in Tag
      /\ h.idx >= respBase => h.tag.req = Len(out) + Len(accum) + (h.idx - respBase) + 1
  BY <1>1, HeldPlace
<1>5. Good(r, respQueue, Len(out) + Len(accum))
  <2>1. CASE h.tag.sub = 0
    BY <1>2, <1>3, <1>4, <2>1, AccumulateSlotGood, Zenon
  <2>2. CASE h.tag.sub # 0
    BY <1>2, <1>3, <1>4, <2>2, AccumulateSubGood, Zenon
  <2> QED BY <2>1, <2>2
<1>6. tasks' = tasks /\ out' = out /\ nreq' = nreq /\ inTraffic' = TRUE
  BY DEF TrafficReply
<1>7. /\ tasks' \in Seq(TaskType)
      /\ \A t \in 1..Len(tasks') : \E u \in 1..Len(tasks) : tasks'[t] = tasks[u]
  BY <1>6 DEF IInv, TypeOK
<1>8. StoreStep(r)
  BY <1>1, <1>2, <1>5, <1>6, <1>7, Zenon DEF StoreStep
<1> QED BY <1>8, StoreIInv

\* A closure is queued for a slot: its holder's index moves to the closure.
LEMMA FillResponseSlotIInv ==
    ASSUME IInv, NEW h, NEW kind \in {"reply", "error"}, FillResponseSlot(h, kind)
    PROVE  IInv'
<1> DEFINE task == [idx |-> h.idx, data |-> Reply(kind, h.tag)]
<1>1. /\ h \in owed /\ owed' \subseteq owed /\ tasks' = Append(tasks, task)
      /\ UNCHANGED <<respQueue, respBase, accum, inTraffic, out, nreq>>
  BY DEF FillResponseSlot
<1>2. h.tag \in Tag /\ h \in HolderType
  BY <1>1, HeldPlace
<1>3. Reply(kind, h.tag) \in ReplyType /\ Reply(kind, h.tag).req = h.tag.req
  BY <1>2, ReplyOK
<1>4. task \in TaskType /\ task.idx = h.idx /\ task.data.req = h.tag.req
  BY <1>2, <1>3 DEF TaskType, HolderType
<1> HIDE DEF task
<1>5. tasks \in Seq(TaskType) /\ owed \subseteq HolderType
  BY DEF IInv, TypeOK
<1>6. /\ tasks' \in Seq(TaskType)
      /\ \A t \in 1..Len(tasks') :
            (t \in 1..Len(tasks) /\ tasks'[t] = tasks[t]) \/ tasks'[t] = task
  BY <1>1, <1>4, <1>5
<1>7. TypeOK'
  BY <1>1, <1>5, <1>6 DEF IInv, TypeOK
<1>8. AllPlaced(owed', tasks', respBase, Len(respQueue), Len(out) + Len(accum))
  <2>1. AllPlaced(owed, tasks, respBase, Len(respQueue), Len(out) + Len(accum))
    BY DEF IInv
  <2>2. Placed(task.idx, task.data.req, respBase, Len(respQueue), Len(out) + Len(accum))
    BY <1>1, <1>4, <2>1 DEF AllPlaced
  <2>3. ASSUME NEW t \in 1..Len(tasks')
        PROVE  Placed(tasks'[t].idx, tasks'[t].data.req, respBase, Len(respQueue),
                      Len(out) + Len(accum))
    BY <1>6, <2>1, <2>2 DEF AllPlaced
  <2> QED BY <1>1, <2>1, <2>3 DEF AllPlaced
<1> QED BY <1>1, <1>7, <1>8 DEF IInv

\* The accumulated replies are written behind those already written.
LEMMA FlushWriteAccumIInv == ASSUME IInv, FlushWriteAccum PROVE IInv'
<1>1. /\ out' = out \o accum /\ accum' = <<>> /\ inTraffic' = FALSE
      /\ UNCHANGED <<respQueue, respBase, owed, tasks, nreq>>
  BY DEF FlushWriteAccum
<1>2. /\ out \in Seq(ReplyType) /\ accum \in Seq(ReplyType)
      /\ \A i \in 1..Len(out) : out[i].req = i
      /\ \A i \in 1..Len(accum) : accum[i].req = Len(out) + i
  BY DEF IInv, TypeOK
<1>3. Len(out) \in Nat /\ Len(accum) \in Nat
  BY <1>2
<1>4. PICK D \in Nat : D = 0
  OBVIOUS
<1>5. /\ \A i \in 1..Len(out) : out[i].req = D + i
      /\ \A i \in 1..Len(accum) : accum[i].req = D + Len(out) + i
  BY <1>2, <1>3, <1>4
<1>6. /\ out \o accum \in Seq(ReplyType) /\ Len(out \o accum) = Len(out) + Len(accum)
      /\ \A i \in 1..Len(out \o accum) : (out \o accum)[i].req = D + i
  BY <1>2, <1>5, ConcatInLine
<1>7. /\ out' \in Seq(ReplyType) /\ Len(out') = Len(out) + Len(accum)
      /\ \A i \in 1..Len(out') : out'[i].req = i
  BY <1>1, <1>3, <1>4, <1>6
<1>8. accum' \in Seq(ReplyType) /\ Len(accum') = 0 /\ Len(out') + Len(accum') = Len(out) + Len(accum)
  BY <1>1, <1>3, <1>7
<1>9. TypeOK'
  BY <1>1, <1>7, <1>8, Zenon DEF IInv, TypeOK
<1> DEFINE L == Len(out) + Len(accum)
           M == Len(out') + Len(accum')
<1>10. M = L
  BY <1>8
<1>11. /\ QueueOK(respQueue, L) /\ FrontWaits(respQueue)
       /\ nreq = L + Len(respQueue) /\ respBase <= L
       /\ AllPlaced(owed, tasks, respBase, Len(respQueue), L)
  BY DEF IInv
<1> HIDE DEF L, M
<1>12. /\ QueueOK(respQueue', M) /\ FrontWaits(respQueue')
       /\ nreq' = M + Len(respQueue') /\ respBase' <= M
       /\ AllPlaced(owed', tasks', respBase', Len(respQueue'), M)
  BY <1>1, <1>10, <1>11
<1>13. /\ \A i \in 1..Len(accum') : accum'[i].req = Len(out') + i
       /\ ~inTraffic' => accum' = <<>>
  BY <1>1, <1>8
<1> QED BY <1>7, <1>9, <1>12, <1>13 DEF IInv, L, M

\* Every step of the client's connection keeps the invariant.
LEMMA NextIInv == ASSUME IInv, [Next]_vars PROVE IInv'
<1>1. CASE WriteImmediate \/ Dispatch \/ \E total \in 2..MaxFan : DispatchFanIn(total)
  BY <1>1, DispatchIInv
<1>2. CASE Answer
  <2>1. PICK h \in owed :
            TrafficReply(h) \/ \E kind \in {"reply", "error"} : FillResponseSlot(h, kind)
    BY <1>2 DEF Answer
  <2> QED BY <2>1, TrafficReplyIInv, FillResponseSlotIInv
<1>3. CASE FillResponseSlotInLoop
  BY <1>3, FillResponseSlotInLoopIInv
<1>4. CASE FlushWriteAccum
  BY <1>4, FlushWriteAccumIInv
<1>5. CASE UNCHANGED vars
  BY <1>5 DEF vars, IInv, TypeOK
<1> QED BY <1>1, <1>2, <1>3, <1>4, <1>5 DEF Next

\* The invariant holds throughout.
THEOREM Invariance == Spec => []IInv
<1>1. Init => IInv
  BY InitIInv
<1>2. IInv /\ [Next]_vars => IInv'
  BY NextIInv
<1> QED BY <1>1, <1>2, PTL DEF Spec

\* Every variable keeps its type: in particular respBase never overtakes the
\* number of requests and a fan-in never counts more answers than it expects.
THEOREM TypeCorrect == Spec => []TypeOK
<1>1. IInv => TypeOK
  BY DEF IInv
<1> QED BY <1>1, Invariance, PTL

\* The n-th reply on the socket answers the n-th request, whoever wrote it.
THEOREM RepliesInOrder == Spec => []InOrder
<1>1. IInv => InOrder
  BY DEF IInv, TypeOK, InOrder
<1> QED BY <1>1, Invariance, PTL

\* No reply that could be written is kept back by the queue.
THEOREM FrontOfQueueWaits == Spec => []HeadNotReady
<1>1. IInv => HeadNotReady
  BY DEF IInv, TypeOK, FrontWaits, HeadNotReady
<1> QED BY <1>1, Invariance, PTL

------------------------------------------------------------------------------
\* The queue of slots implements OrderedReplies.

\* The requests answered so far, read off the replies written.
Delivered == [i \in DOMAIN out |-> out[i].req]

\* They are the first Len(out) requests.
LEMMA DeliveredLine ==
    ASSUME IInv
    PROVE  /\ Delivered = [i \in 1..Len(out) |-> i] /\ Delivered \in Seq(Nat)
           /\ Len(Delivered) = Len(out) /\ Len(out) \in Nat
           /\ \A i \in 1..Len(out) : Delivered[i] = i
<1>1. out \in Seq(ReplyType) /\ \A i \in 1..Len(out) : out[i].req = i
  BY DEF IInv, TypeOK
<1>2. Len(out) \in Nat /\ DOMAIN out = 1..Len(out)
  BY <1>1
<1>3. Delivered = [i \in 1..Len(out) |-> i]
  BY <1>1, <1>2 DEF Delivered
<1> HIDE DEF Delivered
<1> QED BY <1>2, <1>3

\* What a step may do to the number of requests taken and of replies written.
Shape ==
    \/ Len(out') = Len(out) /\ nreq' = nreq
    \/ Len(out') = Len(out) /\ nreq' = nreq + 1
    \/ Len(out') > Len(out) /\ nreq' = nreq
    \/ Len(out') = Len(out) + 1 /\ nreq' = nreq + 1 /\ Len(out) = nreq

LEMMA StepShape == ASSUME IInv, IInv', [Next]_vars PROVE Shape
<1>0. /\ Len(out) \in Nat /\ Len(accum) \in Nat /\ Len(respQueue) \in Nat
      /\ nreq = Len(out) + Len(accum) + Len(respQueue)
      /\ out \in Seq(ReplyType) /\ out' \in Seq(ReplyType)
      /\ Len(out') \in Nat /\ (~inTraffic => accum = <<>>)
  <2>1. out \in Seq(ReplyType) /\ out' \in Seq(ReplyType) /\ (~inTraffic => accum = <<>>)
    BY Zenon DEF IInv, TypeOK
  <2>2. Len(out') \in Nat
    BY <2>1
  <2> QED BY <2>1, <2>2, Lengths
<1>1. CASE WriteImmediate
  <2>1. nreq' = nreq + 1 /\ ~inTraffic
    BY <1>1 DEF WriteImmediate
  <2>2. CASE respQueue = <<>>
    <3>1. out' = Append(out, Reply("reply", [req |-> nreq + 1, sub |-> 0]))
      BY <1>1, <2>2 DEF WriteImmediate
    <3>2. Len(out') = Len(out) + 1
      BY <1>0, <3>1
    <3>3. Len(respQueue) = 0 /\ Len(accum) = 0
      BY <1>0, <2>1, <2>2
    <3> QED BY <1>0, <2>1, <3>2, <3>3 DEF Shape
  <2>3. CASE respQueue # <<>>
    BY <1>1, <2>1, <2>3 DEF WriteImmediate, Shape
  <2> QED BY <2>2, <2>3
<1>2. CASE Dispatch \/ \E total \in 2..MaxFan : DispatchFanIn(total)
  BY <1>2 DEF Dispatch, DispatchFanIn, Shape
<1>3. CASE Answer
  BY <1>3 DEF Answer, TrafficReply, FillResponseSlot, Shape
<1>4. CASE FillResponseSlotInLoop \/ FlushWriteAccum
  <2>1. nreq' = nreq
    BY <1>4 DEF FillResponseSlotInLoop, FlushWriteAccum
  <2>2. Len(out') >= Len(out)
    <3>1. CASE FlushWriteAccum
      <4>1. out' = out \o accum /\ accum \in Seq(ReplyType)
        BY <3>1, Zenon DEF FlushWriteAccum, IInv, TypeOK
      <4>2. Len(out \o accum) = Len(out) + Len(accum)
        BY <1>0, <4>1, ConcatLen
      <4> QED BY <1>0, <4>1, <4>2
    <3>2. CASE FillResponseSlotInLoop
      <4>1. PICK r \in FillInLoop(respQueue, respBase, Head(tasks).idx, Head(tasks).data) :
                out' = out \o r.iov
        BY <3>2, Zenon DEF FillResponseSlotInLoop
      <4>2. tasks # <<>>
        BY <3>2 DEF FillResponseSlotInLoop
      <4>3. Good(r, respQueue, Len(out) + Len(accum))
        BY <4>2, TaskGood
      <4>4. r.iov \in Seq(ReplyType)
        BY <4>3 DEF Good
      <4>5. Len(out \o r.iov) = Len(out) + Len(r.iov) /\ Len(r.iov) \in Nat
        BY <1>0, <4>4
      <4> QED BY <1>0, <4>1, <4>5
    <3> QED BY <1>4, <3>1, <3>2
  <2> QED BY <1>0, <2>1, <2>2 DEF Shape
<1>5. CASE UNCHANGED vars
  BY <1>5 DEF vars, Shape
<1> QED BY <1>1, <1>2, <1>3, <1>4, <1>5 DEF Next

\* Each shape is a step of OrderedReplies, or none.
LEMMA StepRefines == ASSUME IInv, IInv', Shape PROVE [Ordered!Next]_(Ordered!vars)
<1>1. /\ Delivered = [i \in 1..Len(out) |-> i] /\ Delivered \in Seq(Nat)
      /\ Len(Delivered) = Len(out) /\ Len(out) \in Nat
      /\ \A i \in 1..Len(out) : Delivered[i] = i
  BY DeliveredLine
<1>2. /\ Delivered' = [i \in 1..Len(out') |-> i] /\ Delivered' \in Seq(Nat)
      /\ Len(Delivered') = Len(out') /\ Len(out') \in Nat
      /\ \A i \in 1..Len(out') : Delivered'[i] = i
  <2>1. ASSUME IInv' PROVE (/\ Delivered = [i \in 1..Len(out) |-> i] /\ Delivered \in Seq(Nat)
                            /\ Len(Delivered) = Len(out) /\ Len(out) \in Nat
                            /\ \A i \in 1..Len(out) : Delivered[i] = i)'
    BY <2>1, DeliveredLine, PTL
  <2> QED BY <2>1
<1>3. nreq \in Nat /\ nreq' \in Nat /\ Len(out') <= nreq'
  <2>1. ASSUME IInv' PROVE (nreq \in Nat /\ Len(out) <= nreq)'
    BY <2>1, Lengths, PTL
  <2> QED BY <2>1, Lengths
<1>4. CASE Len(out') = Len(out) /\ nreq' = nreq
  <2>1. Delivered' = Delivered
    BY <1>1, <1>2, <1>4
  <2> QED BY <1>4, <2>1 DEF Ordered!vars, Delivered
<1>5. CASE Len(out') = Len(out) /\ nreq' = nreq + 1
  <2>1. Delivered' = Delivered
    BY <1>1, <1>2, <1>5
  <2>2. Ordered!Accept
    BY <1>5, <2>1 DEF Ordered!Accept, Delivered
  <2> QED BY <2>2 DEF Ordered!Next
<1>6. CASE Len(out') > Len(out) /\ nreq' = nreq
  <2>a. Len(out') - Len(out) \in Nat
    BY <1>1, <1>2, <1>6
  <2>0. PICK n \in Nat : n = Len(out') - Len(out)
    BY <2>a, Zenon
  <2> DEFINE more == [i \in 1..n |-> Len(Delivered) + i]
  <2>1. n \in 1..(nreq - Len(Delivered)) /\ n \in Nat
    BY <1>1, <1>2, <1>3, <1>6, <2>0
  <2>2. more \in Seq(Nat) /\ Len(more) = n
    BY <1>1, <2>1
  <2>3. \A i \in 1..n : more[i] = Len(out) + i
    BY <1>1
  <2> HIDE DEF more
  <2>4. /\ Delivered \o more \in Seq(Nat) /\ Len(Delivered \o more) = Len(out')
        /\ \A i \in 1..Len(out') : (Delivered \o more)[i] = i
    <3>1. Delivered \o more \in Seq(Nat) /\ Len(Delivered \o more) = Len(out) + n
      <4>1. Delivered \in Seq(Nat) /\ more \in Seq(Nat) /\ Len(Delivered) = Len(out) /\ Len(more) = n
        BY <1>1, <2>2, Zenon
      <4>2. /\ Delivered \o more \in Seq(Nat)
            /\ Len(Delivered \o more) = Len(Delivered) + Len(more)
        BY <4>1, ConcatLen, Zenon
      <4> QED BY <4>1, <4>2, Zenon
    <3>2. Len(out) + n = Len(out')
      BY <1>1, <1>2, <2>0
    <3>3. ASSUME NEW i \in 1..Len(out')
          PROVE  (Delivered \o more)[i] = i
      <4>1. CASE i <= Len(out)
        <5>1. i \in 1..Len(Delivered)
          BY <1>1, <1>2, <4>1
        <5> QED BY <1>1, <2>2, <5>1
      <4>2. CASE i > Len(out)
        <5>1. i - Len(out) \in 1..n
          BY <1>1, <1>2, <2>0, <4>2
        <5>2. (Delivered \o more)[i] = more[i - Len(out)]
          BY <1>1, <1>2, <2>2, <3>2, <4>2
        <5>3. more[i - Len(out)] = Len(out) + (i - Len(out))
          BY <2>3, <5>1
        <5>4. Len(out) + (i - Len(out)) = i
          BY <1>1, <1>2
        <5> QED BY <5>2, <5>3, <5>4
      <4>3. i <= Len(out) \/ i > Len(out)
        BY <1>1, <1>2
      <4> QED BY <4>1, <4>2, <4>3, Zenon
    <3> QED BY <3>1, <3>2, <3>3
  <2>5. Delivered' = Delivered \o more
    BY <1>2, <2>4, SeqEqual, Zenon
  <2>6. Ordered!Deliver(n)
    BY <1>6, <2>5, Zenon DEF Ordered!Deliver, Delivered, more
  <2>7. n \in 1..(nreq - Len([i \in DOMAIN out |-> out[i].req]))
    BY <2>1 DEF Delivered
  <2>8. Ordered!Next
    BY <2>6, <2>7 DEF Ordered!Next
  <2> QED BY <2>8
<1>7. CASE Len(out') = Len(out) + 1 /\ nreq' = nreq + 1 /\ Len(out) = nreq
  <2>1. /\ Append(Delivered, nreq + 1) \in Seq(Nat)
        /\ Len(Append(Delivered, nreq + 1)) = Len(out')
        /\ \A i \in 1..Len(out') : Append(Delivered, nreq + 1)[i] = i
    BY <1>1, <1>2, <1>3, <1>7
  <2>2. Delivered' = Append(Delivered, nreq + 1)
    BY <1>2, <2>1, SeqEqual, Zenon
  <2>3. Ordered!AcceptAndDeliver
    BY <1>1, <1>7, <2>2, Zenon DEF Ordered!AcceptAndDeliver, Delivered
  <2> QED BY <2>3 DEF Ordered!Next
<1> QED BY <1>4, <1>5, <1>6, <1>7 DEF Shape

\* Seen from the client's socket the proxy behaves as OrderedReplies: each
\* request is answered once and in its turn.
THEOREM Refinement == Spec => ImplementsOrderedReplies
<1>1. Init => Ordered!Init
  BY DEF Init, Ordered!Init
<1>2. IInv /\ IInv' /\ [Next]_vars => [Ordered!Next]_(Ordered!vars)
  BY StepShape, StepRefines
<1> QED BY <1>1, <1>2, Invariance, PTL DEF Spec, ImplementsOrderedReplies, Ordered!Spec
==============================================================================
