---------------------------- MODULE PipelineProofs ----------------------------
(***************************************************************************)
(* Proofs about the pipelined pool, for any number of callers and          *)
(* connections and any capacity, batch and number of retries: a caller     *)
(* gets the reply to its own request, no request is lost but the ones      *)
(* close takes, and the retries execute a request a bounded number of      *)
(* times.                                                                  *)
(***************************************************************************)
EXTENDS Pipeline, TLAPS

\* Sequences of callers: who is in one, and that nobody is in it twice.
Member(p, s) == \E i \in 1..Len(s) : s[i] = p

Distinct(s) == \A i, j \in 1..Len(s) : s[i] = s[j] => i = j

LoopAt == {"recv", "drain", "connect", "write", "read", "exited"}

CallAt == {"start", "pool", "send", "wait", "done", "left"}

Types ==
    /\ idx \in Nat
    /\ reqCh \in [Conns -> Seq(Callers)] /\ pending \in [Conns -> Seq(Callers)]
    /\ wire \in [Conns -> Seq(Callers)] /\ loop \in [Conns -> LoopAt]
    /\ chClosed \in [Conns -> BOOLEAN] /\ nc \in [Conns -> BOOLEAN]
    /\ pc \in [Callers -> CallAt] /\ on \in [Callers -> 0..Size]
    /\ attempt \in [Callers -> Nat] /\ execs \in [Callers -> Nat]
    /\ resp \in [Callers -> Callers \cup {Err, None}]
    /\ down \in [Callers -> BOOLEAN]

\* What is on the wire is what the batch still waits for; between batches there
\* is none, and a loop only ends when its channel is closed and empty.
LoopInv ==
    \A c \in Conns :
        /\ wire[c] = IF loop[c] = "read" THEN pending[c] ELSE <<>>
        /\ loop[c] = "recv" => pending[c] = <<>>
        /\ loop[c] \in {"drain", "connect", "write", "read"} => pending[c] # <<>>
        /\ loop[c] = "exited" => chClosed[c] /\ reqCh[c] = <<>>

\* A connection's channel and batch hold exactly the callers that wait on it,
\* each once.
QueueInv ==
    \A c \in Conns :
        /\ Distinct(reqCh[c]) /\ Distinct(pending[c])
        /\ \A p \in Callers :
              /\ ~(Member(p, reqCh[c]) /\ Member(p, pending[c]))
              /\ Member(p, reqCh[c]) \/ Member(p, pending[c]) <=>
                    pc[p] = "wait" /\ resp[p] = None /\ on[p] = c

CallInv ==
    \A p \in Callers :
        /\ pc[p] \in {"send", "wait"} => on[p] \in Conns
        /\ pc[p] \notin {"wait", "done"} => resp[p] = None
        /\ resp[p] \in {p, Err, None}

\* Before it is answered, and when it is refused, a request was executed by
\* earlier attempts only, and those that ended in an error are MaxRetry at most.
ExecInv ==
    \A p \in Callers :
        /\ resp[p] = None \/ (resp[p] = p /\ down[p]) =>
              execs[p] <= attempt[p] /\ execs[p] <= MaxRetry
        /\ execs[p] <= attempt[p] + 1 /\ execs[p] <= MaxRetry + 1
        /\ resp[p] = p /\ ~down[p] => execs[p] >= 1

IInv == Types /\ LoopInv /\ QueueInv /\ CallInv /\ ExecInv

------------------------------------------------------------------------------
\* Lemmas about sequences.

\* Nobody is in the empty sequence.
LEMMA NobodyIn == Distinct(<<>>) /\ \A p : ~Member(p, <<>>)
<1>1. Len(<<>>) = 0
  OBVIOUS
<1>2. 1..Len(<<>>) = {}
  BY <1>1
<1> QED BY <1>2, Zenon DEF Distinct, Member

\* A batch of one (loop, on its first request).
LEMMA SingleSeq ==
    ASSUME NEW S, NEW q \in S
    PROVE  /\ <<q>> \in Seq(S) /\ <<q>> # <<>> /\ Distinct(<<q>>)
           /\ \A p : Member(p, <<q>>) <=> p = q
<1>1. <<q>> \in Seq(S) /\ Len(<<q>>) = 1 /\ <<q>>[1] = q /\ <<q>> # <<>>
  OBVIOUS
<1> QED BY <1>1 DEF Distinct, Member

\* A request is appended (the send on reqCh, drainMore).
LEMMA AppendSeq ==
    ASSUME NEW S, NEW s \in Seq(S), NEW q \in S
    PROVE  /\ Append(s, q) \in Seq(S) /\ Append(s, q) # <<>>
           /\ \A p : Member(p, Append(s, q)) <=> Member(p, s) \/ p = q
           /\ Distinct(s) /\ ~Member(q, s) => Distinct(Append(s, q))
<1> DEFINE t == Append(s, q)
<1>1. /\ t \in Seq(S) /\ Len(t) = Len(s) + 1 /\ Len(s) \in Nat /\ t[Len(s) + 1] = q
      /\ \A i \in 1..Len(s) : t[i] = s[i]
  OBVIOUS
<1>2. t # <<>>
  BY <1>1
<1> HIDE DEF t
<1>3. \A p : Member(p, t) <=> Member(p, s) \/ p = q
  BY <1>1 DEF Member
<1>4. Distinct(s) /\ ~Member(q, s) => Distinct(t)
  BY <1>1 DEF Distinct, Member
<1> QED BY <1>1, <1>2, <1>3, <1>4 DEF t

\* The oldest request is taken (the receive from reqCh, ReadValue's reply).
LEMMA TailSeq ==
    ASSUME NEW S, NEW s \in Seq(S), s # <<>>, Distinct(s)
    PROVE  /\ Head(s) \in S /\ Tail(s) \in Seq(S) /\ Distinct(Tail(s)) /\ Member(Head(s), s)
           /\ \A p : Member(p, Tail(s)) <=> Member(p, s) /\ p # Head(s)
           /\ Len(s) = 1 <=> Tail(s) = <<>>
<1> DEFINE t == Tail(s)
<1>1. /\ t \in Seq(S) /\ Len(s) \in Nat \ {0} /\ Len(t) = Len(s) - 1 /\ s[1] = Head(s)
      /\ \A i \in 1..Len(t) : t[i] = s[i + 1]
      /\ Head(s) \in S
  OBVIOUS
<1> HIDE DEF t
<1>2. Len(t) = 0 <=> t = <<>>
  BY <1>1
<1>3. Distinct(t)
  <2> SUFFICES ASSUME NEW i \in 1..Len(t), NEW j \in 1..Len(t), t[i] = t[j] PROVE i = j
    BY DEF Distinct
  <2>1. i + 1 \in 1..Len(s) /\ j + 1 \in 1..Len(s) /\ s[i + 1] = s[j + 1]
    BY <1>1
  <2>2. i + 1 = j + 1
    BY <2>1 DEF Distinct
  <2> QED BY <1>1, <2>2
<1>4. ASSUME NEW p PROVE Member(p, t) <=> Member(p, s) /\ p # Head(s)
  <2>1. ASSUME NEW i \in 1..Len(t), t[i] = p PROVE Member(p, s) /\ p # Head(s)
    BY <1>1, <2>1 DEF Distinct, Member
  <2>2. ASSUME NEW i \in 1..Len(s), s[i] = p, p # Head(s) PROVE Member(p, t)
    <3>1. i - 1 \in 1..Len(t) /\ t[i - 1] = p
      BY <1>1, <2>2
    <3> QED BY <3>1 DEF Member
  <2> QED BY <2>1, <2>2 DEF Member
<1>5. Member(Head(s), s)
  BY <1>1 DEF Member
<1> QED BY <1>1, <1>2, <1>3, <1>4, <1>5 DEF t

\* A caller is told from the absence of an answer and from an error.
LEMMA Answers == None \notin Callers /\ Err \notin Callers /\ None # Err
  BY PipelineAssumption DEF None, Err

\* One more execution is within the bounds of one more attempt.
LEMMA OneMore ==
    ASSUME NEW e \in Nat, NEW a \in Nat, e <= a, e <= MaxRetry, NEW f \in {e, e + 1}
    PROVE  f <= a + 1 /\ f <= MaxRetry + 1
  BY PipelineAssumption

\* InBatch is membership in the batch.
LEMMA BatchMember ==
    ASSUME Types, NEW c \in Conns, NEW p
    PROVE  p \in InBatch(c) <=> Member(p, pending[c])
<1>1. DOMAIN pending[c] = 1..Len(pending[c])
  BY DEF Types
<1> QED BY <1>1 DEF InBatch, Member

------------------------------------------------------------------------------
\* Every action keeps the invariant.

\* It holds in the initial state.
LEMMA InitIInv == Init => IInv
<1> SUFFICES ASSUME Init PROVE IInv
  OBVIOUS
<1>1. <<>> \in Seq(Callers)
  OBVIOUS
<1>2. Types
  BY <1>1, PipelineAssumption DEF Init, Types, LoopAt, CallAt, Conns
<1>3. LoopInv
  BY DEF Init, LoopInv
<1>4. QueueInv
  BY NobodyIn DEF Init, QueueInv
<1>5. CallInv
  BY DEF Init, CallInv
<1>6. ExecInv
  BY PipelineAssumption, Answers DEF Init, ExecInv
<1> QED BY <1>2, <1>3, <1>4, <1>5, <1>6 DEF IInv

\* A caller that takes the pool or a connection of it.
LEMMA ChooseIInv ==
    ASSUME IInv, NEW p \in Callers, GetPool(p) \/ Do(p)
    PROVE  IInv'
<1> USE DEF IInv
<1>1. UNCHANGED <<reqCh, chClosed, loop, pending, nc, wire, attempt, resp, down, execs>>
  BY DEF GetPool, Do, connVars, nodeVars
<1>2. Types'
  <2>1. CASE GetPool(p)
    BY <1>1, <2>1 DEF GetPool, Types, CallAt
  <2>2. CASE Do(p)
    <3>1. (idx % Size) + 1 \in 0..Size /\ (idx + 1) % Size \in Nat
      BY PipelineAssumption DEF Types
    <3> QED BY <1>1, <2>2, <3>1 DEF Do, Types, CallAt
  <2> QED BY <2>1, <2>2
<1>3. LoopInv' /\ ExecInv'
  BY <1>1 DEF LoopInv, ExecInv
<1>4. /\ pc[p] # "wait" /\ pc'[p] \notin {"wait", "done"} /\ resp[p] = None
      /\ \A q \in Callers \ {p} : pc'[q] = pc[q] /\ on'[q] = on[q]
  BY DEF GetPool, Do, Types, CallInv
<1>5. QueueInv'
  BY <1>1, <1>4 DEF QueueInv
<1>6. CallInv'
  <2>1. CASE GetPool(p)
    BY <1>1, <1>4, <2>1 DEF GetPool, CallInv, Types
  <2>2. CASE Do(p)
    <3>1. (idx % Size) + 1 \in Conns
      BY PipelineAssumption DEF Types, Conns
    <3> QED BY <1>1, <1>4, <2>2, <3>1, Zenon DEF Do, CallInv, Types
  <2> QED BY <2>1, <2>2
<1> QED BY <1>2, <1>3, <1>5, <1>6

\* The send on reqCh: the caller joins the queue it was not in.
LEMMA SendIInv == ASSUME IInv, NEW p \in Callers, SendReq(p) PROVE IInv'
<1> USE DEF IInv
<1>1. CASE chClosed[on[p]]
  <2>1. UNCHANGED <<idx, reqCh, chClosed, loop, pending, nc, wire, pc, on, attempt, resp, down, execs>>
    BY <1>1, Zenon DEF SendReq, nodeVars
  <2> QED BY <2>1 DEF Types, LoopInv, QueueInv, CallInv, ExecInv
<1>2. CASE ~chClosed[on[p]]
  <2> DEFINE c == on[p]
  <2>1. /\ c \in Conns /\ c = on[p] /\ pc[p] = "send" /\ resp[p] = None
        /\ pc' = [pc EXCEPT ![p] = "wait"]
        /\ UNCHANGED <<idx, chClosed, loop, pending, nc, wire, on, attempt, resp, down, execs>>
    BY <1>2 DEF SendReq, nodeVars, CallInv
  <2>2. reqCh[c] \in Seq(Callers) /\ ~Member(p, reqCh[c]) /\ ~Member(p, pending[c]) /\ Distinct(reqCh[c])
    BY <2>1 DEF Types, QueueInv
  <2> DEFINE s == Append(reqCh[c], p)
  <2>3. /\ s \in Seq(Callers) /\ Distinct(s)
        /\ \A q : Member(q, s) <=> Member(q, reqCh[c]) \/ q = p
    BY <2>2, AppendSeq
  <2>4. reqCh' = [reqCh EXCEPT ![c] = s]
    BY <1>2 DEF SendReq
  <2> HIDE DEF s, c
  <2>5. Types'
    BY <2>1, <2>3, <2>4, Zenon DEF Types, CallAt
  <2>6. LoopInv'
    BY <1>2, <2>1, <2>4 DEF LoopInv, Types
  <2>7. /\ reqCh'[c] = s /\ \A d \in Conns \ {c} : reqCh'[d] = reqCh[d]
        /\ pc'[p] = "wait" /\ \A q \in Callers \ {p} : pc'[q] = pc[q]
    BY <2>1, <2>4 DEF Types
  <2>8. QueueInv'
    <3> SUFFICES ASSUME NEW d \in Conns, NEW q \in Callers
                 PROVE  /\ Distinct(reqCh'[d]) /\ Distinct(pending[d])
                        /\ ~(Member(q, reqCh'[d]) /\ Member(q, pending[d]))
                        /\ Member(q, reqCh'[d]) \/ Member(q, pending[d]) <=>
                              pc'[q] = "wait" /\ resp[q] = None /\ on[q] = d
      BY <2>1 DEF QueueInv
    <3>1. CASE d = c
      BY <2>1, <2>2, <2>3, <2>7, <3>1 DEF QueueInv
    <3>2. CASE d # c
      BY <2>1, <2>7, <3>2 DEF QueueInv
    <3> QED BY <3>1, <3>2
  <2>9. CallInv' /\ ExecInv'
    BY <2>1, <2>7 DEF CallInv, ExecInv
  <2> QED BY <2>5, <2>6, <2>8, <2>9
<1> QED BY <1>1, <1>2

\* The answer is taken: it returns, or the caller starts again.
LEMMA ReceiveIInv == ASSUME IInv, NEW p \in Callers, Receive(p) PROVE IInv'
<1> USE DEF IInv
<1>1. /\ pc[p] = "wait" /\ resp[p] # None
      /\ on' = [on EXCEPT ![p] = 0]
      /\ UNCHANGED <<idx, reqCh, chClosed, loop, pending, nc, wire, execs>>
      /\ \/ /\ (resp[p] = Err /\ attempt[p] < MaxRetry) \/ (resp[p] # Err /\ down[p])
            /\ Retry(p)
         \/ Return(p)
  BY DEF Receive, connVars
<1>2. Types'
  <2>1. CASE Return(p)
    BY <1>1, <2>1, PipelineAssumption DEF Types, CallAt, Return
  <2>2. CASE Retry(p)
    <3>1. attempt' \in [Callers -> Nat]
      BY <2>2 DEF Types, Retry
    <3>2. on' \in [Callers -> 0..Size]
      BY <1>1, PipelineAssumption DEF Types
    <3>3. /\ pc' \in [Callers -> CallAt] /\ down' \in [Callers -> BOOLEAN]
          /\ resp' \in [Callers -> Callers \cup {Err, None}]
      BY <2>2 DEF Types, CallAt, Retry
    <3> QED BY <1>1, <3>1, <3>2, <3>3, Zenon DEF Types
  <2> QED BY <1>1, <2>1, <2>2
<1>a. LoopInv'
  BY <1>1, Zenon DEF LoopInv
<1>3. QueueInv'
  <2>1. pc'[p] # "wait" /\ \A q \in Callers \ {p} : pc'[q] = pc[q] /\ resp'[q] = resp[q] /\ on'[q] = on[q]
    BY <1>1 DEF Types, Retry, Return
  <2> QED BY <1>1, <2>1 DEF QueueInv
<1>4. CallInv'
  BY <1>1 DEF CallInv, Types, Retry, Return
<1>5. ExecInv'
  <2>1. CASE Return(p)
    BY <1>1, <2>1 DEF ExecInv, Return
  <2>2. CASE Retry(p) /\ ((resp[p] = Err /\ attempt[p] < MaxRetry) \/ (resp[p] # Err /\ down[p]))
    <3>1. execs[p] <= attempt[p] + 1 /\ execs[p] <= MaxRetry
      BY <1>1, <2>2, PipelineAssumption DEF ExecInv, CallInv, Types
    <3>2. /\ attempt'[p] = attempt[p] + 1 /\ resp'[p] = None
          /\ \A q \in Callers \ {p} : attempt'[q] = attempt[q] /\ resp'[q] = resp[q] /\ down'[q] = down[q]
      BY <2>2 DEF Retry, Types
    <3>3. execs[p] \in Nat /\ attempt[p] \in Nat
      BY DEF Types
    <3>4. resp'[p] # p
      BY <3>2, Answers
    <3> QED BY <1>1, <3>1, <3>2, <3>3, <3>4, PipelineAssumption DEF ExecInv
  <2> QED BY <1>1, <2>1, <2>2, Zenon
<1> QED BY <1>2, <1>a, <1>3, <1>4, <1>5

\* The loop takes the request h off its channel, which leaves t, into the batch,
\* which becomes s (loop, drainMore).
LEMMA TakeIInv ==
    ASSUME IInv, NEW c \in Conns, loop[c] \in {"recv", "drain"},
           NEW h \in Callers, NEW s \in Seq(Callers), NEW t \in Seq(Callers),
           s # <<>>, Distinct(s), Distinct(t), Member(h, reqCh[c]),
           \A p : Member(p, s) <=> Member(p, pending[c]) \/ p = h,
           \A p : Member(p, t) <=> Member(p, reqCh[c]) /\ p # h,
           pending' = [pending EXCEPT ![c] = s], reqCh' = [reqCh EXCEPT ![c] = t],
           loop' = [loop EXCEPT ![c] = "drain"],
           UNCHANGED <<idx, chClosed, nc, wire, pc, on, attempt, resp, down, execs>>
    PROVE  IInv'
<1> USE DEF IInv
<1>1. Types'
  BY Zenon DEF Types, LoopAt
<1>2. LoopInv'
  BY Zenon DEF LoopInv, Types
<1>3. /\ reqCh'[c] = t /\ pending'[c] = s
      /\ \A d \in Conns \ {c} : reqCh'[d] = reqCh[d] /\ pending'[d] = pending[d]
  BY DEF Types
<1>4. QueueInv'
  <2> SUFFICES ASSUME NEW d \in Conns, NEW q \in Callers
               PROVE  /\ Distinct(reqCh'[d]) /\ Distinct(pending'[d])
                      /\ ~(Member(q, reqCh'[d]) /\ Member(q, pending'[d]))
                      /\ Member(q, reqCh'[d]) \/ Member(q, pending'[d]) <=>
                            pc[q] = "wait" /\ resp[q] = None /\ on[q] = d
    BY Zenon DEF QueueInv
  <2>1. CASE d = c
    <3>1. ~Member(h, pending[c])
      BY Zenon DEF QueueInv
    <3>2. Distinct(reqCh'[d]) /\ Distinct(pending'[d])
      BY <1>3, <2>1, Zenon
    <3>3. /\ Member(q, reqCh'[d]) <=> Member(q, reqCh[c]) /\ q # h
          /\ Member(q, pending'[d]) <=> Member(q, pending[c]) \/ q = h
      BY <1>3, <2>1, Zenon
    <3>4. /\ ~(Member(q, reqCh[c]) /\ Member(q, pending[c]))
          /\ Member(q, reqCh[c]) \/ Member(q, pending[c]) <=>
                pc[q] = "wait" /\ resp[q] = None /\ on[q] = c
      BY Zenon DEF QueueInv
    <3> QED BY <2>1, <3>1, <3>2, <3>3, <3>4, Zenon
  <2>2. CASE d # c
    BY <1>3, <2>2, Zenon DEF QueueInv
  <2> QED BY <2>1, <2>2, Zenon
<1>5. CallInv' /\ ExecInv'
  BY Zenon DEF CallInv, ExecInv
<1> QED BY <1>1, <1>2, <1>4, <1>5

\* What the receive from the channel takes, and what it leaves.
LEMMA TakenHead ==
    ASSUME IInv, NEW c \in Conns, reqCh[c] # <<>>
    PROVE  /\ Head(reqCh[c]) \in Callers /\ Tail(reqCh[c]) \in Seq(Callers)
           /\ Distinct(Tail(reqCh[c])) /\ Member(Head(reqCh[c]), reqCh[c])
           /\ ~Member(Head(reqCh[c]), pending[c])
           /\ \A p : Member(p, Tail(reqCh[c])) <=> Member(p, reqCh[c]) /\ p # Head(reqCh[c])
<1>1. reqCh[c] \in Seq(Callers) /\ Distinct(reqCh[c])
  BY DEF IInv, Types, QueueInv
<1> DEFINE h == Head(reqCh[c])
<1>2. h \in Callers /\ Member(h, reqCh[c])
  BY <1>1, TailSeq
<1> HIDE DEF h
<1>3. ~Member(h, pending[c])
  BY <1>2 DEF IInv, QueueInv
<1> QED BY <1>1, <1>3, TailSeq, Zenon DEF h

\* The loop moves on without touching a request: to its end, to the dial, to the
\* write.
LEMMA MoveIInv ==
    ASSUME IInv, NEW c \in Conns, NEW l \in {"exited", "connect", "write"},
           loop' = [loop EXCEPT ![c] = l], loop[c] # "read",
           l = "exited" => chClosed[c] /\ reqCh[c] = <<>>,
           l # "exited" => loop[c] # "recv" /\ loop[c] # "exited",
           nc' \in [Conns -> BOOLEAN],
           UNCHANGED <<idx, reqCh, chClosed, pending, wire, pc, on, attempt, resp, down, execs>>
    PROVE  IInv'
<1> USE DEF IInv
<1>1. Types'
  BY Zenon DEF Types, LoopAt
<1>2. LoopInv'
  <2> SUFFICES ASSUME NEW d \in Conns
               PROVE  /\ wire[d] = IF loop'[d] = "read" THEN pending[d] ELSE <<>>
                      /\ loop'[d] = "recv" => pending[d] = <<>>
                      /\ loop'[d] \in {"drain", "connect", "write", "read"} => pending[d] # <<>>
                      /\ loop'[d] = "exited" => chClosed[d] /\ reqCh[d] = <<>>
    BY Zenon DEF LoopInv
  <2>1. CASE d = c
    <3>1. loop'[d] = l
      BY <2>1, Zenon DEF Types
    <3> QED BY <2>1, <3>1, Zenon DEF LoopInv, Types, LoopAt
  <2>2. CASE d # c
    <3>1. loop'[d] = loop[d]
      BY <2>2, Zenon DEF Types
    <3> QED BY <3>1 DEF LoopInv
  <2> QED BY <2>1, <2>2, Zenon
<1>3. QueueInv' /\ CallInv' /\ ExecInv'
  BY Zenon DEF QueueInv, CallInv, ExecInv
<1> QED BY <1>1, <1>2, <1>3

\* loop's receive.
LEMMA RecvIInv == ASSUME IInv, NEW c \in Conns, Recv(c) PROVE IInv'
<1>1. CASE reqCh[c] # <<>>
  <2>1. /\ pending' = [pending EXCEPT ![c] = <<Head(reqCh[c])>>]
        /\ reqCh' = [reqCh EXCEPT ![c] = Tail(reqCh[c])]
        /\ loop' = [loop EXCEPT ![c] = "drain"] /\ loop[c] = "recv"
        /\ UNCHANGED <<idx, chClosed, nc, wire, pc, on, attempt, resp, down, execs>>
    BY <1>1, Zenon DEF Recv, callVars, nodeVars
  <2>2. pending[c] = <<>>
    BY <2>1 DEF IInv, LoopInv
  <2> DEFINE h == Head(reqCh[c])
             t == Tail(reqCh[c])
             s == <<h>>
  <2>3. /\ h \in Callers /\ t \in Seq(Callers) /\ Distinct(t) /\ Member(h, reqCh[c])
        /\ \A p : Member(p, t) <=> Member(p, reqCh[c]) /\ p # h
    BY <1>1, TakenHead
  <2>4. /\ s \in Seq(Callers) /\ s # <<>> /\ Distinct(s)
        /\ \A p : Member(p, s) <=> Member(p, pending[c]) \/ p = h
    BY <2>2, <2>3, SingleSeq, NobodyIn
  <2>5. pending' = [pending EXCEPT ![c] = s] /\ reqCh' = [reqCh EXCEPT ![c] = t]
    BY <2>1
  <2>6. /\ loop' = [loop EXCEPT ![c] = "drain"] /\ loop[c] \in {"recv", "drain"}
        /\ UNCHANGED <<idx, chClosed, nc, wire, pc, on, attempt, resp, down, execs>>
    BY <2>1
  <2> HIDE DEF h, t, s
  <2> QED BY <2>3, <2>4, <2>5, <2>6, TakeIInv, Zenon
<1>2. CASE reqCh[c] = <<>>
  <2>1. /\ loop' = [loop EXCEPT ![c] = "exited"] /\ loop[c] = "recv" /\ chClosed[c]
        /\ nc' = [nc EXCEPT ![c] = FALSE]
        /\ UNCHANGED <<idx, reqCh, chClosed, pending, wire, pc, on, attempt, resp, down, execs>>
    BY <1>2 DEF Recv, callVars, nodeVars
  <2>2. nc' \in [Conns -> BOOLEAN]
    BY <2>1 DEF IInv, Types
  <2> QED BY <1>2, <2>1, <2>2, MoveIInv, Zenon
<1> QED BY <1>1, <1>2

\* drainMore.
LEMMA DrainIInv == ASSUME IInv, NEW c \in Conns, DrainMore(c) PROVE IInv'
<1>1. /\ loop[c] = "drain"
      /\ UNCHANGED <<idx, chClosed, wire, pc, on, attempt, resp, down, execs>>
  BY DEF DrainMore, callVars, nodeVars
<1>2. loop \in [Conns -> LoopAt] /\ nc \in [Conns -> BOOLEAN]
  BY DEF IInv, Types
<1>3. CASE /\ reqCh[c] # <<>>
           /\ pending' = [pending EXCEPT ![c] = Append(pending[c], Head(reqCh[c]))]
           /\ reqCh' = [reqCh EXCEPT ![c] = Tail(reqCh[c])]
           /\ UNCHANGED <<loop, nc>>
  <2>1. loop' = [loop EXCEPT ![c] = "drain"]
    BY <1>1, <1>2, <1>3
  <2> DEFINE h == Head(reqCh[c])
             t == Tail(reqCh[c])
             s == Append(pending[c], h)
  <2>2. /\ h \in Callers /\ t \in Seq(Callers) /\ Distinct(t) /\ Member(h, reqCh[c])
        /\ ~Member(h, pending[c])
        /\ \A p : Member(p, t) <=> Member(p, reqCh[c]) /\ p # h
    BY <1>3, TakenHead
  <2>3. pending[c] \in Seq(Callers) /\ Distinct(pending[c])
    BY DEF IInv, Types, QueueInv
  <2>4. pending' = [pending EXCEPT ![c] = s] /\ reqCh' = [reqCh EXCEPT ![c] = t] /\ nc' = nc
    BY <1>3
  <2> HIDE DEF h, t
  <2>5. /\ s \in Seq(Callers) /\ s # <<>> /\ Distinct(s)
        /\ \A p : Member(p, s) <=> Member(p, pending[c]) \/ p = h
    BY <2>2, <2>3, AppendSeq
  <2> HIDE DEF s
  <2> QED BY <1>1, <2>1, <2>2, <2>4, <2>5, TakeIInv, Zenon
<1>4. CASE /\ reqCh[c] = <<>> /\ chClosed[c]
           /\ loop' = [loop EXCEPT ![c] = "exited"]
           /\ nc' = [nc EXCEPT ![c] = FALSE]
           /\ UNCHANGED <<pending, reqCh>>
  <2>1. nc' \in [Conns -> BOOLEAN]
    BY <1>2, <1>4
  <2> QED BY <1>1, <1>4, <2>1, MoveIInv, Zenon
<1>5. CASE /\ loop' = [loop EXCEPT ![c] = IF nc[c] THEN "write" ELSE "connect"]
           /\ UNCHANGED <<pending, reqCh, nc>>
  <2> DEFINE l == IF nc[c] THEN "write" ELSE "connect"
  <2>1. /\ l \in {"exited", "connect", "write"} /\ l # "exited"
        /\ loop' = [loop EXCEPT ![c] = l] /\ nc' \in [Conns -> BOOLEAN]
    BY <1>2, <1>5
  <2> HIDE DEF l
  <2> QED BY <1>1, <1>5, <2>1, MoveIInv, Zenon
<1> QED BY <1>3, <1>4, <1>5 DEF DrainMore

\* connect and write: what is on the wire is the batch.
LEMMA WriteIInv == ASSUME IInv, NEW c \in Conns, ConnectOk(c) \/ WriteOk(c) PROVE IInv'
<1> USE DEF IInv
<1>1. wire \in [Conns -> Seq(Callers)] /\ nc \in [Conns -> BOOLEAN]
  BY DEF Types
<1>2. CASE ConnectOk(c)
  <2>1. /\ wire' = [wire EXCEPT ![c] = <<>>] /\ loop[c] = "connect"
        /\ loop' = [loop EXCEPT ![c] = "write"] /\ nc' = [nc EXCEPT ![c] = TRUE]
        /\ UNCHANGED <<idx, reqCh, chClosed, pending, pc, on, attempt, resp, down, execs>>
    BY <1>2 DEF ConnectOk, callVars, nodeVars
  <2>2. wire[c] = <<>>
    BY <2>1 DEF LoopInv
  <2>3. wire' = wire /\ nc' \in [Conns -> BOOLEAN]
    BY <1>1, <2>1, <2>2
  <2> QED BY <2>1, <2>3, MoveIInv, Zenon
<1>3. CASE WriteOk(c)
  <2>1. /\ wire' = [wire EXCEPT ![c] = wire[c] \o pending[c]] /\ loop[c] = "write"
        /\ loop' = [loop EXCEPT ![c] = "read"]
        /\ UNCHANGED <<idx, reqCh, chClosed, pending, nc, pc, on, attempt, resp, down, execs>>
    BY <1>3 DEF WriteOk, callVars, nodeVars
  <2>2. wire[c] = <<>> /\ pending[c] \in Seq(Callers)
    BY <2>1 DEF LoopInv, Types
  <2>3. wire[c] \o pending[c] = pending[c]
    BY <2>2
  <2>4. wire' = [wire EXCEPT ![c] = pending[c]]
    BY <2>1, <2>3
  <2>5. /\ loop[c] = "write" /\ loop' = [loop EXCEPT ![c] = "read"]
        /\ UNCHANGED <<idx, reqCh, chClosed, pending, nc, pc, on, attempt, resp, down, execs>>
    BY <2>1
  <2>6. Types'
    BY <2>2, <2>4, <2>5, Zenon DEF Types, LoopAt
  <2>7. LoopInv'
    BY <2>4, <2>5, Zenon DEF LoopInv, Types
  <2>8. QueueInv' /\ CallInv' /\ ExecInv'
    BY <2>5, Zenon DEF QueueInv, CallInv, ExecInv
  <2> QED BY <2>6, <2>7, <2>8
<1> QED BY <1>2, <1>3

\* A reply is read: it is the one to the oldest request of the batch, since the
\* wire holds the batch, and that request waits for it.
LEMMA ReadIInv == ASSUME IInv, NEW c \in Conns, NEW refuses \in BOOLEAN, ReadOk(c, refuses) PROVE IInv'
<1> USE DEF IInv
<1> DEFINE p == Head(pending[c])
           t == Tail(pending[c])
<1>1. /\ loop[c] = "read" /\ wire[c] = pending[c] /\ pending[c] # <<>>
      /\ pending[c] \in Seq(Callers) /\ Distinct(pending[c])
  <2>1. loop[c] = "read"
    BY Zenon DEF ReadOk
  <2>2. wire[c] = pending[c] /\ pending[c] # <<>>
    BY <2>1 DEF LoopInv
  <2>3. pending[c] \in Seq(Callers) /\ Distinct(pending[c])
    BY DEF QueueInv, Types
  <2> QED BY <2>1, <2>2, <2>3, Zenon
<1>2. /\ p \in Callers /\ t \in Seq(Callers) /\ Distinct(t) /\ Member(p, pending[c])
      /\ \A q : Member(q, t) <=> Member(q, pending[c]) /\ q # p
      /\ Len(pending[c]) = 1 <=> t = <<>>
  BY <1>1, TailSeq, Zenon
<1>3. /\ resp' = [resp EXCEPT ![p] = p] /\ down' = [down EXCEPT ![p] = refuses]
      /\ execs' = [execs EXCEPT ![p] = IF refuses THEN execs[p] ELSE execs[p] + 1]
      /\ wire' = [wire EXCEPT ![c] = t] /\ pending' = [pending EXCEPT ![c] = t]
      /\ UNCHANGED <<idx, reqCh, chClosed, nc, pc, on, attempt>>
  BY <1>1 DEF ReadOk
<1>4. loop' = [loop EXCEPT ![c] = IF t = <<>> THEN "recv" ELSE "read"]
  BY <1>2, Zenon DEF ReadOk
<1> HIDE DEF p, t
<1>5. pc[p] = "wait" /\ resp[p] = None /\ on[p] = c /\ ~Member(p, reqCh[c])
  BY <1>2 DEF QueueInv
<1>6. Types'
  <2>1. execs' \in [Callers -> Nat]
    <3> DEFINE e == IF refuses THEN execs[p] ELSE execs[p] + 1
    <3>1. execs \in [Callers -> Nat] /\ execs' = [execs EXCEPT ![p] = e]
      BY <1>3, Zenon DEF Types
    <3>2. e \in Nat
      BY <1>2, <3>1
    <3> HIDE DEF e
    <3> QED BY <3>1, <3>2, Zenon
  <2>2. down' \in [Callers -> BOOLEAN]
    BY <1>3, Zenon DEF Types
  <2>3. resp' \in [Callers -> Callers \cup {Err, None}]
    BY <1>2, <1>3 DEF Types
  <2>4. loop' \in [Conns -> LoopAt]
    BY <1>4 DEF Types, LoopAt
  <2>5. wire' \in [Conns -> Seq(Callers)] /\ pending' \in [Conns -> Seq(Callers)]
    BY <1>2, <1>3, Zenon DEF Types
  <2> QED BY <1>3, <2>1, <2>2, <2>3, <2>4, <2>5, Zenon DEF Types
<1>7. LoopInv'
  BY <1>1, <1>3, <1>4, Zenon DEF LoopInv, Types
<1>8. /\ pending'[c] = t /\ \A d \in Conns \ {c} : pending'[d] = pending[d]
      /\ resp'[p] = p /\ down'[p] = refuses /\ execs'[p] = IF refuses THEN execs[p] ELSE execs[p] + 1
      /\ \A q \in Callers \ {p} : resp'[q] = resp[q] /\ down'[q] = down[q] /\ execs'[q] = execs[q]
  BY <1>2, <1>3, Zenon DEF Types
<1>9. p # None /\ p # Err
  BY <1>2, Answers, Zenon
<1>10. QueueInv'
  <2>1. \A d \in Conns : Distinct(reqCh[d]) /\ Distinct(pending'[d])
    BY <1>8, <1>2, Zenon DEF QueueInv
  <2>2. ASSUME NEW d \in Conns, NEW q \in Callers
        PROVE  /\ ~(Member(q, reqCh[d]) /\ Member(q, pending'[d]))
               /\ Member(q, reqCh[d]) \/ Member(q, pending'[d]) <=>
                     pc[q] = "wait" /\ resp'[q] = None /\ on[q] = d
    <3>1. CASE d = c
      <4>1. CASE q = p
        BY <1>2, <1>5, <1>8, <1>9, <3>1, <4>1, Zenon DEF QueueInv
      <4>2. CASE q # p
        <5>1. resp'[q] = resp[q] /\ (Member(q, pending'[d]) <=> Member(q, pending[d]))
          BY <1>2, <1>8, <3>1, <4>2, Zenon
        <5> QED BY <5>1, ZenonT(40) DEF QueueInv
      <4> QED BY <4>1, <4>2, Zenon
    <3>2. CASE d # c
      <4>1. pending'[d] = pending[d]
        BY <1>8, <3>2, Zenon
      <4>2. resp'[q] = resp[q] \/ (on[q] = c /\ on[q] # d)
        BY <1>5, <1>8, <3>2, Zenon
      <4> QED BY <4>1, <4>2, ZenonT(40) DEF QueueInv
    <3> QED BY <3>1, <3>2, Zenon
  <2> QED BY <1>3, <2>1, <2>2 DEF QueueInv
<1>11. CallInv'
  BY <1>3, <1>5, <1>8 DEF CallInv
<1>12. ExecInv'
  <2> SUFFICES ASSUME NEW q \in Callers
               PROVE  /\ resp'[q] = None \/ (resp'[q] = q /\ down'[q]) =>
                            execs'[q] <= attempt[q] /\ execs'[q] <= MaxRetry
                      /\ execs'[q] <= attempt[q] + 1 /\ execs'[q] <= MaxRetry + 1
                      /\ resp'[q] = q /\ ~down'[q] => execs'[q] >= 1
    BY <1>3 DEF ExecInv
  <2>1. CASE q = p
    <3>1. execs[p] <= attempt[p] /\ execs[p] <= MaxRetry
      BY <1>2, <1>5, Zenon DEF ExecInv
    <3>2. execs[p] \in Nat /\ attempt[p] \in Nat
      BY <1>2 DEF Types
    <3>3. CASE refuses
      <4>1. execs'[q] = execs[p] /\ down'[q]
        BY <1>8, <2>1, <3>3, Zenon
      <4> QED BY <2>1, <3>1, <3>2, <4>1, PipelineAssumption
    <3>4. CASE ~refuses
      <4>1. execs'[q] = execs[p] + 1 /\ ~down'[q] /\ resp'[q] # None
        BY <1>8, <1>9, <2>1, <3>4
      <4> QED BY <2>1, <3>1, <3>2, <4>1, PipelineAssumption
    <3> QED BY <3>3, <3>4, Zenon
  <2>2. CASE q # p
    BY <1>8, <2>2 DEF ExecInv
  <2> QED BY <2>1, <2>2, Zenon
<1> QED BY <1>6, <1>7, <1>10, <1>11, <1>12

------------------------------------------------------------------------------
\* Counting, which only the steps below need.

Sets == INSTANCE FiniteSetTheorems

\* The count that MayExecute and NoRequestLost take of no place and of one.
LEMMA Counted == Cardinality({}) = 0 /\ \A x : Cardinality({x}) = 1
<1>1. \A S : Sets!Cardinality(S) = Cardinality(S)
  BY DEF Sets!Cardinality, Cardinality
<1>2. Sets!Cardinality({}) = 0
  BY Sets!FS_EmptySet
<1>3. \A x : Sets!Cardinality({x}) = 1
  BY Sets!FS_Singleton, Zenon
<1> QED BY <1>1, <1>2, <1>3, Zenon

\* In a sequence without repetitions a caller is counted once or not at all.
LEMMA CountOnce ==
    ASSUME NEW S, NEW s \in Seq(S), Distinct(s), NEW n \in 0..Len(s), NEW p
    PROVE  LET at == {i \in 1..n : s[i] = p} IN
           /\ Cardinality(at) \in {0, 1}
           /\ Cardinality(at) = 1 => Member(p, s)
           /\ n = Len(s) /\ Member(p, s) => Cardinality(at) = 1
<1> DEFINE at == {i \in 1..n : s[i] = p}
<1>1. CASE at = {}
  <2>1. Cardinality(at) = 0
    BY <1>1, Counted, Zenon
  <2>2. n = Len(s) => ~Member(p, s)
    BY <1>1, Zenon DEF Member
  <2> QED BY <2>1, <2>2
<1>2. CASE at # {}
  <2>1. PICK k \in 1..n : s[k] = p
    BY <1>2
  <2>2. at = {k}
    BY <2>1 DEF Distinct
  <2>3. Cardinality(at) = 1
    BY <2>2, Counted, Zenon
  <2> QED BY <2>1, <2>3 DEF Member
<1> QED BY <1>1, <1>2, Zenon

\* The places of a caller in the whole sequence.
LEMMA CountAll ==
    ASSUME NEW S, NEW s \in Seq(S), Distinct(s), NEW p
    PROVE  LET n == Cardinality({i \in DOMAIN s : s[i] = p}) IN
           n \in {0, 1} /\ (n = 1 <=> Member(p, s))
<1>1. DOMAIN s = 1..Len(s) /\ Len(s) \in 0..Len(s)
  OBVIOUS
<1> DEFINE n == Cardinality({i \in 1..Len(s) : s[i] = p})
<1>2. n \in {0, 1} /\ (n = 1 => Member(p, s)) /\ (Member(p, s) => n = 1)
  BY <1>1, CountOnce, Zenon
<1> QED BY <1>1, <1>2, Zenon

\* A batch ends with an error: none of its requests was answered or executed in
\* this attempt before, and each is executed at most once now.
LEMMA FailIInv ==
    ASSUME IInv, NEW c \in Conns, loop[c] # "exited", FailBatch(c),
           wire' = [wire EXCEPT ![c] = <<>>],
           execs' = execs \/ MayExecute(pending[c]),
           nc' \in [Conns -> BOOLEAN],
           UNCHANGED <<idx, reqCh, chClosed, pc, on, attempt, down>>
    PROVE  IInv'
<1> USE DEF IInv
<1> DEFINE In(p) == Member(p, pending[c])
<1>1. /\ pending[c] \in Seq(Callers) /\ Distinct(pending[c]) /\ <<>> \in Seq(Callers)
      /\ Len(pending[c]) \in Nat
  BY DEF Types, QueueInv
<1>2. resp' = [p \in Callers |-> IF In(p) THEN Err ELSE resp[p]]
  BY BatchMember DEF FailBatch
<1>3. pending' = [pending EXCEPT ![c] = <<>>] /\ loop' = [loop EXCEPT ![c] = "recv"]
  BY DEF FailBatch
<1>4. /\ execs' \in [Callers -> Nat]
      /\ \A p \in Callers : /\ execs'[p] \in {execs[p], execs[p] + 1}
                            /\ execs'[p] # execs[p] => In(p)
  <2>1. CASE execs' = execs
    BY <2>1, Zenon DEF Types
  <2>2. CASE MayExecute(pending[c])
    <3> DEFINE K(n, p) == Cardinality({i \in 1..n : pending[c][i] = p})
    <3>1. PICK n \in 0..Len(pending[c]) : execs' = [p \in Callers |-> execs[p] + K(n, p)]
      BY <2>2, Zenon DEF MayExecute
    <3>2. \A p \in Callers : K(n, p) \in {0, 1} /\ (K(n, p) = 1 => In(p))
      BY <1>1, CountOnce
    <3> HIDE DEF K, In
    <3>3. ASSUME NEW p \in Callers
          PROVE  /\ execs'[p] \in Nat /\ execs'[p] \in {execs[p], execs[p] + 1}
                 /\ execs'[p] # execs[p] => In(p)
      <4>1. execs'[p] = execs[p] + K(n, p) /\ execs[p] \in Nat
        BY <3>1, Zenon DEF Types
      <4> QED BY <3>2, <4>1
    <3>4. execs' \in [Callers -> Nat]
      BY <3>1, <3>3, Zenon
    <3> QED BY <3>3, <3>4
  <2> QED BY <2>1, <2>2
<1>5. \A p \in Callers : In(p) => pc[p] = "wait" /\ resp[p] = None /\ on[p] = c
  BY Zenon DEF QueueInv
<1>6. Types'
  BY <1>1, <1>2, <1>3, <1>4, Zenon DEF Types, LoopAt
<1>7. LoopInv'
  BY <1>3, Zenon DEF LoopInv, Types
<1>8. /\ pending'[c] = <<>> /\ \A d \in Conns \ {c} : pending'[d] = pending[d]
      /\ \A p \in Callers : resp'[p] = IF In(p) THEN Err ELSE resp[p]
  BY <1>2, <1>3, Zenon DEF Types
<1>9. QueueInv'
  <2>1. \A d \in Conns : Distinct(reqCh[d]) /\ Distinct(pending'[d])
    BY <1>8, NobodyIn, ZenonT(40) DEF QueueInv
  <2>2. ASSUME NEW d \in Conns, NEW q \in Callers
        PROVE  /\ ~(Member(q, reqCh[d]) /\ Member(q, pending'[d]))
               /\ Member(q, reqCh[d]) \/ Member(q, pending'[d]) <=>
                     pc[q] = "wait" /\ resp'[q] = None /\ on[q] = d
    <3>1. CASE d = c
      <4>1. ~Member(q, pending'[d])
        BY <1>8, <3>1, NobodyIn, Zenon
      <4>2. CASE In(q)
        <5>1. resp'[q] # None
          BY <1>8, <4>2, Answers, Zenon
        <5>2. ~Member(q, reqCh[d])
          BY <3>1, <4>2, Zenon DEF QueueInv
        <5> QED BY <4>1, <5>1, <5>2, Zenon
      <4>3. CASE ~In(q)
        <5>1. resp'[q] = resp[q]
          BY <1>8, <4>3, Zenon
        <5>2. Member(q, reqCh[d]) <=> pc[q] = "wait" /\ resp[q] = None /\ on[q] = d
          BY <3>1, <4>3, ZenonT(40) DEF QueueInv
        <5> QED BY <4>1, <5>1, <5>2
      <4> QED BY <4>2, <4>3, Zenon
    <3>2. CASE d # c
      <4>1. pending'[d] = pending[d]
        BY <1>8, <3>2, Zenon
      <4>2. resp'[q] = resp[q] \/ on[q] # d
        BY <1>5, <1>8, <3>2, Zenon
      <4> QED BY <4>1, <4>2, ZenonT(40) DEF QueueInv
    <3> QED BY <3>1, <3>2
  <2> QED BY <2>1, <2>2, ZenonT(40) DEF QueueInv
<1>10. CallInv'
  BY <1>5, <1>8, Zenon DEF CallInv
<1>11. ExecInv'
  <2> SUFFICES ASSUME NEW p \in Callers
               PROVE  /\ resp'[p] = None \/ (resp'[p] = p /\ down[p]) =>
                            execs'[p] <= attempt[p] /\ execs'[p] <= MaxRetry
                      /\ execs'[p] <= attempt[p] + 1 /\ execs'[p] <= MaxRetry + 1
                      /\ resp'[p] = p /\ ~down[p] => execs'[p] >= 1
    BY Zenon DEF ExecInv
  <2>1. CASE In(p)
    <3>1. resp'[p] = Err /\ resp'[p] # None /\ resp'[p] # p
      BY <1>8, <2>1, Answers, Zenon
    <3>2. execs[p] <= attempt[p] /\ execs[p] <= MaxRetry
      BY <1>5, <2>1, Zenon DEF ExecInv
    <3>3. execs[p] \in Nat /\ attempt[p] \in Nat /\ execs'[p] \in {execs[p], execs[p] + 1}
      BY <1>4 DEF Types
    <3>4. execs'[p] <= attempt[p] + 1 /\ execs'[p] <= MaxRetry + 1
      BY <3>2, <3>3, OneMore, Zenon
    <3> QED BY <3>1, <3>4, Zenon
  <2>2. CASE ~In(p)
    <3>1. resp'[p] = resp[p] /\ execs'[p] = execs[p]
      BY <1>4, <1>8, <2>2, Zenon
    <3> QED BY <3>1, Zenon DEF ExecInv
  <2> QED BY <2>1, <2>2, Zenon
<1> QED BY <1>6, <1>7, <1>9, <1>10, <1>11

\* The error paths of loop.
LEMMA ErrorIInv ==
    ASSUME IInv, NEW c \in Conns, Unavailable(c) \/ ConnectFail(c) \/ WriteFail(c) \/ ReadFail(c)
    PROVE  IInv'
<1>1. wire \in [Conns -> Seq(Callers)] /\ nc \in [Conns -> BOOLEAN]
  BY DEF IInv, Types
<1>2. /\ FailBatch(c) /\ loop[c] \in {"connect", "write", "read"}
      /\ UNCHANGED <<idx, reqCh, chClosed, pc, on, attempt, down>>
      /\ nc' = nc \/ nc' = [nc EXCEPT ![c] = FALSE]
  BY Zenon DEF Unavailable, ConnectFail, WriteFail, ReadFail, nodeVars
<1>3. nc' \in [Conns -> BOOLEAN]
  BY <1>1, <1>2, Zenon
<1>4. loop[c] # "read" => wire[c] = <<>>
  BY Zenon DEF IInv, LoopInv
<1>5. wire' = [wire EXCEPT ![c] = <<>>]
  BY <1>1, <1>4, Zenon DEF Unavailable, ConnectFail, WriteFail, ReadFail
<1>6. execs' = execs \/ MayExecute(pending[c])
  <2>1. loop[c] = "read" => wire[c] = pending[c]
    BY Zenon DEF IInv, LoopInv
  <2> QED BY <2>1, Zenon DEF Unavailable, ConnectFail, WriteFail, ReadFail, nodeVars
<1> QED BY <1>2, <1>3, <1>5, <1>6, FailIInv, Zenon

\* The invariant holds in every state: what is left are the steps that touch
\* neither a request nor a loop.
THEOREM PipelineInvariance == Spec => []IInv
<1>1. IInv /\ [Next]_vars => IInv'
  <2> SUFFICES ASSUME IInv, [Next]_vars PROVE IInv'
    OBVIOUS
  <2>1. ASSUME NEW p \in Callers, Call(p) PROVE IInv'
    BY <2>1, ChooseIInv, SendIInv, ReceiveIInv DEF Call
  <2>2. ASSUME NEW c \in Conns, Work(c) PROVE IInv'
    BY <2>2, RecvIInv, DrainIInv, WriteIInv, ErrorIInv, ReadIInv DEF Work
  <2>3. ASSUME UNCHANGED <<idx, reqCh, loop, pending, nc, wire, callVars>>,
               \/ chClosed' = chClosed
               \/ \E c \in Conns : chClosed' = [chClosed EXCEPT ![c] = TRUE]
        PROVE  IInv'
    <3>1. UNCHANGED <<idx, reqCh, loop, pending, nc, wire, pc, on, attempt, resp, down, execs>>
      BY <2>3 DEF callVars, nodeVars
    <3>2. /\ chClosed' \in [Conns -> BOOLEAN]
          /\ \A c \in Conns : chClosed[c] => chClosed'[c]
      BY <2>3, Zenon DEF IInv, Types
    <3>3. Types' /\ LoopInv'
      BY <3>1, <3>2, Zenon DEF IInv, Types, LoopInv
    <3>4. QueueInv' /\ CallInv' /\ ExecInv'
      BY <3>1, Zenon DEF IInv, QueueInv, CallInv, ExecInv
    <3> QED BY <3>3, <3>4 DEF IInv
  <2>4. ASSUME NEW c \in Conns, BackoffOver(c) \/ CloseConn(c) PROVE IInv'
    BY <2>3, <2>4, Zenon DEF BackoffOver, CloseConn
  <2>5. CASE RemovePool \/ Removed
    BY <2>3, <2>5, Zenon DEF RemovePool, Removed, connVars
  <2>6. CASE UNCHANGED vars
    BY <2>3, <2>6, Zenon DEF vars, callVars, nodeVars
  <2> QED BY <2>1, <2>2, <2>4, <2>5, <2>6 DEF Next
<1> QED BY <1>1, InitIInv, PTL DEF Spec

\* A caller is only given the reply to its own request: loop matches the replies
\* of a batch by their order, and drops the connection with what is left on it
\* when a read fails.
THEOREM OwnReplies == Spec => []OwnReply
<1>1. IInv => OwnReply
  BY DEF IInv, CallInv, OwnReply
<1> QED BY <1>1, PipelineInvariance, PTL

\* A request that is not answered is in one place, where a loop will find it,
\* except in the batch that close interrupts.
THEOREM RequestsKept == Spec => []NoRequestLost
<1>1. IInv => NoRequestLost
  <2> SUFFICES ASSUME IInv, NEW p \in Callers, pc[p] = "wait", resp[p] = None
               PROVE  /\ Cardinality({i \in DOMAIN reqCh[on[p]] : reqCh[on[p]][i] = p})
                         + Cardinality({i \in DOMAIN pending[on[p]] : pending[on[p]][i] = p}) = 1
                      /\ loop[on[p]] = "exited" => chClosed[on[p]] /\ p \in InBatch(on[p])
    BY Zenon DEF NoRequestLost
  <2>1. PICK c \in Conns : c = on[p]
    BY DEF IInv, CallInv
  <2>2. /\ reqCh[c] \in Seq(Callers) /\ Distinct(reqCh[c])
        /\ pending[c] \in Seq(Callers) /\ Distinct(pending[c])
        /\ Member(p, reqCh[c]) \/ Member(p, pending[c])
        /\ ~(Member(p, reqCh[c]) /\ Member(p, pending[c]))
    <3>1. reqCh[c] \in Seq(Callers) /\ pending[c] \in Seq(Callers)
      BY DEF IInv, Types
    <3> QED BY <2>1, <3>1, Zenon DEF IInv, QueueInv
  <2> DEFINE nr == Cardinality({i \in DOMAIN reqCh[c] : reqCh[c][i] = p})
             np == Cardinality({i \in DOMAIN pending[c] : pending[c][i] = p})
  <2>3. nr \in {0, 1} /\ (nr = 1 <=> Member(p, reqCh[c]))
    <3>1. reqCh[c] \in Seq(Callers) /\ Distinct(reqCh[c])
      BY <2>2, Zenon
    <3> QED BY <3>1, CountAll, Zenon
  <2>4. np \in {0, 1} /\ (np = 1 <=> Member(p, pending[c]))
    <3>1. pending[c] \in Seq(Callers) /\ Distinct(pending[c])
      BY <2>2, Zenon
    <3> QED BY <3>1, CountAll, Zenon
  <2> HIDE DEF nr, np
  <2>5. nr + np = 1
    BY <2>2, <2>3, <2>4
  <2>6. loop[c] = "exited" => chClosed[c] /\ Member(p, pending[c])
    BY <2>2, NobodyIn, Zenon DEF IInv, LoopInv
  <2>7. p \in InBatch(c) <=> Member(p, pending[c])
    BY BatchMember, Zenon DEF IInv
  <2> QED BY <2>1, <2>5, <2>6, <2>7, Zenon DEF nr, np
<1> QED BY <1>1, PipelineInvariance, PTL

\* The node executes a request at most pipeRetryMax + 1 times and at most once
\* per attempt of execOnNode, and a reply that is returned was executed.
THEOREM ExecutionsBounded == Spec => []RetriesBounded
<1>1. IInv => RetriesBounded
  BY Zenon DEF IInv, ExecInv, RetriesBounded
<1> QED BY <1>1, PipelineInvariance, PTL
===============================================================================
