------------------------------ MODULE PoolProofs ------------------------------
(***************************************************************************)
(* Proofs about Pool, for every set of goroutines and every maxSize.       *)
(***************************************************************************)
EXTENDS Pool, FiniteSetTheorems, SequenceTheorems, TLAPS

\* The places of a goroutine, connections, and the types of the variables.
Places == {"out", "lock", "wait", "dialing", "has", "sent", "put", "drop", "return", "notify"}
ConnType == [broken : BOOLEAN, replies : Seq(Procs), shifted : BOOLEAN]

Types ==
    /\ conns \in Seq(ConnType)
    /\ numConns \in Int /\ waiters \in 0..MaxSize /\ refused \in Nat
    /\ closed \in {"no", "stored", "done"}
    /\ pc \in [Procs -> Places]
    /\ conn \in [Procs -> ConnType]
    /\ got \in [Procs -> Seq(Procs)]

\* What a goroutine has read and what is still to be read on its connection,
\* at each of its places.  A connection that is not shifted carries nothing but
\* the replies to the commands of the one who holds it.
Exchange(g) ==
    /\ pc[g] \notin {"sent", "put"} => got[g] = <<>>
    /\ pc[g] = "has" /\ ~conn[g].shifted => conn[g].replies = <<>>
    /\ pc[g] = "sent" =>
          /\ Len(got[g]) <= 1 /\ Len(conn[g].replies) >= 2 - Len(got[g])
          /\ ~conn[g].shifted /\ got[g] = <<>> => conn[g].replies = <<g, g>>
          /\ ~conn[g].shifted /\ got[g] # <<>> => conn[g].replies = <<g>>
    /\ pc[g] = "put" /\ ~conn[g].broken /\ ~conn[g].shifted => conn[g].replies = <<>>
    /\ pc[g] = "return" => ~conn[g].broken /\ (~conn[g].shifted => conn[g].replies = <<>>)
    /\ pc[g] \in {"has", "sent"} => ~conn[g].broken
    /\ ~conn[g].shifted => \A i \in DOMAIN got[g] : got[g][i] = g

Exchanges == \A g \in Procs : Exchange(g)

\* An idle connection is whole and, unless shifted, has nothing unread.
Idle == \A i \in DOMAIN conns :
            ~conns[i].broken /\ (~conns[i].shifted => conns[i].replies = <<>>)

------------------------------------------------------------------------------
\* Counting goroutines.

\* How many goroutines f puts at one of the places S.
Count(f, S) == Cardinality({g \in Procs : f[g] \in S})

\* The number of goroutines anywhere is a natural number.
LEMMA CountNat == \A f, S : Count(f, S) \in Nat
<1> TAKE f, S
<1>1. IsFiniteSet({g \in Procs : f[g] \in S})
  BY PoolAssumption, FS_Subset
<1> QED
  BY <1>1, FS_CardinalityType DEF Count

\* A goroutine that goes from one place to another leaves the number of those
\* at S as it is, but for itself (every step of Get, put and notify is such a
\* move).
LEMMA CountMoves ==
    ASSUME pc \in [Procs -> Places], NEW g \in Procs, NEW w \in Places, Goto(g, w)
    PROVE  \A S : /\ pc[g] \in S => Count(pc, S) >= 1
                  /\ Count(pc', S) = Count(pc, S) + (IF w \in S THEN 1 ELSE 0)
                                                  - (IF pc[g] \in S THEN 1 ELSE 0)
<1> TAKE S
<1> DEFINE A == {h \in Procs : pc[h] \in S}
           B == {h \in Procs : pc'[h] \in S}
<1>1. IsFiniteSet(A) /\ IsFiniteSet(B)
  BY PoolAssumption, FS_Subset
<1>2. A \ {g} = B \ {g}
  BY DEF Goto
<1>3. (g \in A <=> pc[g] \in S) /\ (g \in B <=> w \in S)
  BY DEF Goto
<1>4. Cardinality(A \ {g}) = IF g \in A THEN Cardinality(A) - 1 ELSE Cardinality(A)
  BY <1>1, FS_RemoveElement, Zenon
<1>5. Cardinality(B \ {g}) = IF g \in B THEN Cardinality(B) - 1 ELSE Cardinality(B)
  BY <1>1, FS_RemoveElement
<1>6. Cardinality(A) \in Nat /\ Cardinality(B) \in Nat /\ Cardinality(A \ {g}) \in Nat
  BY <1>1, FS_RemoveElement, FS_CardinalityType, Zenon
<1>7. Count(pc, S) = Cardinality(A) /\ Count(pc', S) = Cardinality(B)
  BY DEF Count
<1>8. Cardinality(A \ {g}) = Cardinality(B \ {g})
  BY <1>2
<1> HIDE DEF A, B
<1> QED
  BY <1>3, <1>4, <1>5, <1>6, <1>7, <1>8

\* The two invariants on the counters of the pool, and their primed forms, in
\* terms of Count.
LEMMA CountingForms ==
    /\ Accounting <=>
          (closed # "done" => numConns = Len(conns) + Count(pc, Counted) /\ numConns <= MaxSize)
    /\ NoLostWakeup <=>
          (closed # "done" /\ Count(pc, {"wait"}) > 0 =>
             waiters + Count(pc, {"notify", "lock"}) >= Len(conns) + (MaxSize - numConns))
    /\ Accounting' <=>
          (closed' # "done" => numConns' = Len(conns') + Count(pc', Counted) /\ numConns' <= MaxSize)
    /\ NoLostWakeup' <=>
          (closed' # "done" /\ Count(pc', {"wait"}) > 0 =>
             waiters' + Count(pc', {"notify", "lock"}) >= Len(conns') + (MaxSize - numConns'))
  BY DEF Accounting, NoLostWakeup, At, Count

------------------------------------------------------------------------------
\* Types.

\* Init establishes the types.
LEMMA TypesInit == Init => Types
<1> SUFFICES ASSUME Init PROVE Types
  OBVIOUS
<1>1. NewConn \in ConnType
  BY DEF NewConn, ConnType
<1> QED
  BY <1>1, PoolAssumption DEF Init, Types, Places, NoConn

\* Every step keeps the types.
LEMMA TypesNext ==
    ASSUME Types, Exchanges, [Next]_vars
    PROVE  Types'
<1> USE PoolAssumption DEF Types, Goto, exchange
<1>0. NewConn \in ConnType
  BY DEF NewConn, ConnType
<1>1. ASSUME NEW g \in Procs, GetStart(g) PROVE Types'
  BY <1>1 DEF GetStart, Places
<1>2. ASSUME NEW g \in Procs, GetIdle(g) PROVE Types'
  <2>1. conns[Len(conns)] \in ConnType /\ SubSeq(conns, 1, Len(conns) - 1) \in Seq(ConnType)
    BY <1>2 DEF GetIdle
  <2> QED
    BY <1>2, <2>1 DEF GetIdle, Places
<1>3. ASSUME NEW g \in Procs, GetNew(g) PROVE Types'
  BY <1>3 DEF GetNew, Places
<1>4. ASSUME NEW g \in Procs, GetFull(g) PROVE Types'
  BY <1>4 DEF GetFull, Places
<1>5. ASSUME NEW g \in Procs, Wake(g) PROVE Types'
  BY <1>5 DEF Wake, Places
<1>6. ASSUME NEW g \in Procs, Cancel(g) PROVE Types'
  BY <1>6 DEF Cancel, Places
<1>7. ASSUME NEW g \in Procs, DialOk(g) PROVE Types'
  BY <1>0, <1>7 DEF DialOk, Places, NoConn
<1>8. ASSUME NEW g \in Procs, DialFail(g) PROVE Types'
  BY <1>8 DEF DialFail, Places
<1>9. ASSUME NEW g \in Procs, Write(g) PROVE Types'
  <2>1. conn[g].replies \o <<g, g>> \in Seq(Procs)
    BY DEF ConnType
  <2> QED
    BY <1>9, <2>1, Zenon DEF Write, Places, ConnType
<1>10. ASSUME NEW g \in Procs, Read(g) PROVE Types'
  <2>0. Exchange(g) /\ pc[g] = "sent" /\ conn[g] \in ConnType /\ got[g] \in Seq(Procs)
    BY <1>10 DEF Read, Exchanges
  <2>1. conn[g].replies \in Seq(Procs) /\ conn[g].replies # <<>>
    BY <2>0 DEF Exchange, ConnType
  <2>2. Head(conn[g].replies) \in Procs /\ Tail(conn[g].replies) \in Seq(Procs)
    BY <2>1
  <2>3. conn' \in [Procs -> ConnType]
    BY <1>10, <2>2, Zenon DEF Read, ConnType
  <2>4. got' \in [Procs -> Seq(Procs)]
    BY <1>10, <2>2 DEF Read
  <2> QED
    BY <1>10, <2>3, <2>4 DEF Read, Places
<1>11. ASSUME NEW g \in Procs, ReadRefused(g) PROVE Types'
  <2>0. Exchange(g) /\ pc[g] = "sent" /\ conn[g] \in ConnType /\ got[g] \in Seq(Procs)
    BY <1>11 DEF ReadRefused, Exchanges
  <2>1. conn[g].replies \in Seq(Procs) /\ conn[g].replies # <<>>
    BY <2>0 DEF Exchange, ConnType
  <2>2. Head(conn[g].replies) \in Procs /\ Tail(conn[g].replies) \in Seq(Procs)
    BY <2>1
  <2>3. conn' \in [Procs -> ConnType]
    BY <1>11, <2>2, ZenonT(30) DEF ReadRefused, ConnType
  <2>4. got' \in [Procs -> Seq(Procs)]
    BY <1>11, <2>2 DEF ReadRefused
  <2> QED
    BY <1>11, <2>3, <2>4 DEF ReadRefused, Places
<1>12. ASSUME NEW g \in Procs, Fail(g) PROVE Types'
  BY <1>12, ZenonT(30) DEF Fail, Places, ConnType
<1>13. ASSUME NEW g \in Procs, Put(g) PROVE Types'
  <2>1. conn' \in [Procs -> ConnType]
    BY <1>0, <1>13 DEF Put, NoConn
  <2>2. got' \in [Procs -> Seq(Procs)]
    BY <1>13 DEF Put
  <2> QED
    BY <1>13, <2>1, <2>2 DEF Put, Places
<1>14. ASSUME NEW g \in Procs, PutDrop(g) PROVE Types'
  BY <1>14 DEF PutDrop, Places
<1>15. ASSUME NEW g \in Procs, PutReturn(g) PROVE Types'
  <2>1. Append(conns, conn[g]) \in Seq(ConnType)
    OBVIOUS
  <2> QED
    BY <1>0, <1>15, <2>1 DEF PutReturn, Places, NoConn
<1>16. ASSUME NEW g \in Procs, Notify(g) PROVE Types'
  BY <1>16 DEF Notify, Places
<1>17. CASE CloseStore
  BY <1>17 DEF CloseStore
<1>18. CASE CloseConns
  BY <1>18 DEF CloseConns
<1>19. CASE UNCHANGED vars
  BY <1>19 DEF vars
<1> QED
  BY <1>1, <1>2, <1>3, <1>4, <1>5, <1>6, <1>7, <1>8, <1>9, <1>10, <1>11, <1>12, <1>13, <1>14, <1>15, <1>16, <1>17, <1>18, <1>19 DEF Next, Step

------------------------------------------------------------------------------
\* Counting connections and wake-ups.

\* Every step keeps numConns exact and accounts for every wake-up.
LEMMA CountingNext ==
    ASSUME Types, Accounting, NoLostWakeup, [Next]_vars
    PROVE  Accounting' /\ NoLostWakeup'
<1> DEFINE c == Count(pc, Counted)
           n == Count(pc, {"wait"})
           k == Count(pc, {"notify", "lock"})
           cc == Count(pc', Counted)
           nn == Count(pc', {"wait"})
           kk == Count(pc', {"notify", "lock"})
           OldA == closed # "done" => numConns = Len(conns) + c /\ numConns <= MaxSize
           OldW == closed # "done" /\ n > 0 => waiters + k >= Len(conns) + (MaxSize - numConns)
           NewA == closed' # "done" => numConns' = Len(conns') + cc /\ numConns' <= MaxSize
           NewW == closed' # "done" /\ nn > 0 =>
                      waiters' + kk >= Len(conns') + (MaxSize - numConns')
<1> SUFFICES NewA /\ NewW
  BY CountingForms
<1>a. OldA /\ OldW
  BY CountingForms
<1>b. c \in Nat /\ n \in Nat /\ k \in Nat /\ cc \in Nat /\ nn \in Nat /\ kk \in Nat
  BY CountNat
<1>c. Len(conns) \in Nat /\ numConns \in Int /\ waiters \in 0..MaxSize /\ MaxSize \in Nat
  BY PoolAssumption DEF Types
<1>d. ASSUME NEW g \in Procs, NEW w \in Places, Goto(g, w)
      PROVE  /\ pc[g] \in Counted => c >= 1
             /\ cc = c + (IF w \in Counted THEN 1 ELSE 0) - (IF pc[g] \in Counted THEN 1 ELSE 0)
             /\ nn = n + (IF w = "wait" THEN 1 ELSE 0) - (IF pc[g] = "wait" THEN 1 ELSE 0)
             /\ kk = k + (IF w \in {"notify", "lock"} THEN 1 ELSE 0)
                       - (IF pc[g] \in {"notify", "lock"} THEN 1 ELSE 0)
  <2>1. pc \in [Procs -> Places]
    BY DEF Types
  <2>2. \A S : /\ pc[g] \in S => Count(pc, S) >= 1
               /\ Count(pc', S) = Count(pc, S) + (IF w \in S THEN 1 ELSE 0)
                                               - (IF pc[g] \in S THEN 1 ELSE 0)
    BY <1>d, <2>1, CountMoves, Zenon
  <2>3. \A x : x \in {"wait"} <=> x = "wait"
    OBVIOUS
  <2> QED
    BY <2>2, <2>3
<1> HIDE DEF c, n, k, cc, nn, kk
<1>1. ASSUME NEW g \in Procs, GetStart(g) PROVE NewA /\ NewW
  <2>1. Goto(g, "lock") /\ pc[g] = "out"
    BY <1>1 DEF GetStart
  <2>2. cc = c /\ nn = n /\ kk = k + 1
    BY <2>1, <1>b, <1>d DEF Counted, Places
  <2> QED
    BY <1>1, <1>a, <1>b, <1>c, <2>2 DEF GetStart
<1>2. ASSUME NEW g \in Procs, GetIdle(g) PROVE NewA /\ NewW
  <2>1. Goto(g, "has") /\ pc[g] = "lock"
    BY <1>2 DEF GetIdle
  <2>2. cc = c + 1 /\ nn = n /\ kk = k - 1
    BY <2>1, <1>b, <1>d DEF Counted, Places
  <2>3. conns \in Seq(ConnType) /\ conns # <<>> /\ conns' = SubSeq(conns, 1, Len(conns) - 1)
    BY <1>2 DEF GetIdle, Types
  <2> DEFINE t == SubSeq(conns, 1, Len(conns) - 1)
  <2>a. Len(conns) \in Nat /\ Len(conns) # 0
    BY <2>3
  <2>b. \A j \in 1..(Len(conns) - 1) : conns[j] \in ConnType
    BY <2>3
  <2>c. Len(t) = IF 1 <= Len(conns) - 1 THEN Len(conns) - 1 - 1 + 1 ELSE 0
    BY <2>a, <2>b, SubSeqProperties
  <2>d. conns' = t
    BY <2>3
  <2> HIDE DEF t
  <2>4. Len(conns) >= 1 /\ Len(conns') = Len(conns) - 1
    BY <2>a, <2>c, <2>d
  <2>5. numConns' = numConns /\ closed' = closed /\ waiters' = waiters
    BY <1>2 DEF GetIdle
  <2> QED
    BY <1>a, <1>b, <1>c, <2>2, <2>4, <2>5
<1>3. ASSUME NEW g \in Procs, GetNew(g) PROVE NewA /\ NewW
  <2>1. Goto(g, "dialing") /\ pc[g] = "lock"
    BY <1>3 DEF GetNew
  <2>2. cc = c + 1 /\ nn = n /\ kk = k - 1
    BY <2>1, <1>b, <1>d DEF Counted, Places
  <2> QED
    BY <1>3, <1>a, <1>b, <1>c, <2>2 DEF GetNew
<1>4. ASSUME NEW g \in Procs, GetFull(g) PROVE NewA /\ NewW
  <2>1. Goto(g, "wait") /\ pc[g] = "lock"
    BY <1>4 DEF GetFull
  <2>2. cc = c /\ nn = n + 1 /\ kk = k - 1
    BY <2>1, <1>b, <1>d DEF Counted, Places
  <2> QED
    BY <1>4, <1>a, <1>b, <1>c, <2>2 DEF GetFull
<1>5. ASSUME NEW g \in Procs, Wake(g) PROVE NewA /\ NewW
  <2>1. Goto(g, "lock") /\ pc[g] = "wait"
    BY <1>5 DEF Wake
  <2>2. cc = c /\ nn = n - 1 /\ kk = k + 1
    BY <2>1, <1>b, <1>d DEF Counted, Places
  <2> QED
    BY <1>5, <1>a, <1>b, <1>c, <2>2 DEF Wake
<1>6. ASSUME NEW g \in Procs, Cancel(g) PROVE NewA /\ NewW
  <2>1. Goto(g, "out") /\ pc[g] = "wait"
    BY <1>6 DEF Cancel
  <2>2. cc = c /\ nn = n - 1 /\ kk = k
    BY <2>1, <1>b, <1>d DEF Counted, Places
  <2> QED
    BY <1>6, <1>a, <1>b, <1>c, <2>2 DEF Cancel
<1>7. ASSUME NEW g \in Procs, DialOk(g) PROVE NewA /\ NewW
  <2>1. Goto(g, "has") /\ pc[g] = "dialing"
    BY <1>7 DEF DialOk
  <2>2. cc = c /\ nn = n /\ kk = k /\ c >= 1
    BY <2>1, <1>b, <1>d DEF Counted, Places
  <2> QED
    BY <1>7, <1>a, <1>b, <1>c, <2>2 DEF DialOk
<1>8. ASSUME NEW g \in Procs, DialFail(g) PROVE NewA /\ NewW
  <2>1. Goto(g, "notify") /\ pc[g] = "dialing"
    BY <1>8 DEF DialFail
  <2>2. cc = c - 1 /\ nn = n /\ kk = k + 1 /\ c >= 1
    BY <2>1, <1>b, <1>d DEF Counted, Places
  <2> QED
    BY <1>8, <1>a, <1>b, <1>c, <2>2 DEF DialFail
<1>9. ASSUME NEW g \in Procs, Write(g) PROVE NewA /\ NewW
  <2>1. Goto(g, "sent") /\ pc[g] = "has"
    BY <1>9 DEF Write
  <2>2. cc = c /\ nn = n /\ kk = k /\ c >= 1
    BY <2>1, <1>b, <1>d DEF Counted, Places
  <2> QED
    BY <1>9, <1>a, <1>b, <1>c, <2>2 DEF Write
<1>10. ASSUME NEW g \in Procs, Read(g) PROVE NewA /\ NewW
  <2>1. (Goto(g, "sent") \/ Goto(g, "put")) /\ pc[g] = "sent"
    BY <1>10 DEF Read
  <2>2. cc = c /\ nn = n /\ kk = k
    BY <2>1, <1>b, <1>d DEF Counted, Places
  <2> QED
    BY <1>10, <1>a, <1>b, <1>c, <2>2 DEF Read
<1>11. ASSUME NEW g \in Procs, ReadRefused(g) PROVE NewA /\ NewW
  <2>1. Goto(g, "put") /\ pc[g] = "sent"
    BY <1>11 DEF ReadRefused
  <2>2. cc = c /\ nn = n /\ kk = k /\ c >= 1
    BY <2>1, <1>b, <1>d DEF Counted, Places
  <2> QED
    BY <1>11, <1>a, <1>b, <1>c, <2>2 DEF ReadRefused
<1>12. ASSUME NEW g \in Procs, Fail(g) PROVE NewA /\ NewW
  <2>1. Goto(g, "put") /\ pc[g] \in {"has", "sent"}
    BY <1>12 DEF Fail
  <2>2. cc = c /\ nn = n /\ kk = k
    BY <2>1, <1>b, <1>d DEF Counted, Places
  <2> QED
    BY <1>12, <1>a, <1>b, <1>c, <2>2 DEF Fail
<1>13. ASSUME NEW g \in Procs, Put(g) PROVE NewA /\ NewW
  <2>1. (Goto(g, "drop") \/ Goto(g, "return")) /\ pc[g] = "put"
    BY <1>13 DEF Put
  <2>2. cc = c /\ nn = n /\ kk = k
    BY <2>1, <1>b, <1>d DEF Counted, Places
  <2> QED
    BY <1>13, <1>a, <1>b, <1>c, <2>2 DEF Put
<1>14. ASSUME NEW g \in Procs, PutDrop(g) PROVE NewA /\ NewW
  <2>1. Goto(g, "notify") /\ pc[g] = "drop"
    BY <1>14 DEF PutDrop
  <2>2. cc = c - 1 /\ nn = n /\ kk = k + 1 /\ c >= 1
    BY <2>1, <1>b, <1>d DEF Counted, Places
  <2> QED
    BY <1>14, <1>a, <1>b, <1>c, <2>2 DEF PutDrop
<1>15. ASSUME NEW g \in Procs, PutReturn(g) PROVE NewA /\ NewW
  <2>1. Goto(g, "notify") /\ pc[g] = "return"
    BY <1>15 DEF PutReturn
  <2>2. cc = c - 1 /\ nn = n /\ kk = k + 1 /\ c >= 1
    BY <2>1, <1>b, <1>d DEF Counted, Places
  <2>3. Len(conns') = IF Len(conns) < MaxSize THEN Len(conns) + 1 ELSE Len(conns)
    BY <1>15 DEF PutReturn, Types
  <2>4. /\ numConns' = IF Len(conns) < MaxSize THEN numConns ELSE numConns - 1
        /\ closed' = closed /\ waiters' = waiters
    BY <1>15 DEF PutReturn
  <2> QED
    BY <1>a, <1>b, <1>c, <2>2, <2>3, <2>4
<1>16. ASSUME NEW g \in Procs, Notify(g) PROVE NewA /\ NewW
  <2>1. Goto(g, "out") /\ pc[g] = "notify"
    BY <1>16 DEF Notify
  <2>2. cc = c /\ nn = n /\ kk = k - 1
    BY <2>1, <1>b, <1>d DEF Counted, Places
  <2> QED
    BY <1>16, <1>a, <1>b, <1>c, <2>2 DEF Notify
<1>17. CASE CloseStore
  BY <1>17, <1>a DEF CloseStore, c, n, k, cc, nn, kk
<1>18. CASE CloseConns
  BY <1>18 DEF CloseConns
<1>19. CASE UNCHANGED vars
  BY <1>19, <1>a DEF vars, c, n, k, cc, nn, kk
<1> QED
  BY <1>1, <1>2, <1>3, <1>4, <1>5, <1>6, <1>7, <1>8, <1>9, <1>10, <1>11, <1>12, <1>13, <1>14, <1>15, <1>16, <1>17, <1>18, <1>19 DEF Next, Step

------------------------------------------------------------------------------
\* What is on the connections.

\* A goroutine's part of the invariant is about its own place, connection and
\* replies: a step of another leaves it as it is.
LEMMA ExchangeStays ==
    ASSUME NEW h \in Procs, Exchange(h),
           pc'[h] = pc[h], conn'[h] = conn[h], got'[h] = got[h]
    PROVE  Exchange(h)'
  BY Zenon DEF Exchange

\* The replies of one exchange, taken one after the other.
LEMMA ReadsOfTwo ==
    ASSUME NEW r, NEW x
    PROVE  /\ r = <<x, x>> => Head(r) = x /\ Tail(r) = <<x>>
           /\ r = <<x>> => Head(r) = x /\ Tail(r) = <<>>
<1>1. <<x, x>> \in Seq({x}) /\ <<x>> \in Seq({x}) /\ <<x, x>> # <<>> /\ <<x>> # <<>>
  OBVIOUS
<1>2. Head(<<x, x>>) = x /\ Head(<<x>>) = x
  OBVIOUS
<1>3. Tail(<<x, x>>) = <<x>>
  <2>1. /\ Tail(<<x, x>>) \in Seq({x}) /\ Len(Tail(<<x, x>>)) = 1
        /\ Tail(<<x, x>>)[1] = x
    BY <1>1
  <2> QED
    BY <1>1, <2>1
<1>4. Tail(<<x>>) = <<>>
  BY <1>1
<1> QED
  BY <1>2, <1>3, <1>4, Zenon

\* What Append, Tail and two more replies make of a sequence of replies.
LEMMA SequenceSteps ==
    ASSUME NEW S, NEW r \in Seq(S), NEW x \in S
    PROVE  /\ Append(r, x) # <<>> /\ Len(Append(r, x)) = Len(r) + 1
           /\ \A y : (\A i \in DOMAIN r : r[i] = y) /\ x = y
                      => \A i \in DOMAIN Append(r, x) : Append(r, x)[i] = y
           /\ Len(r \o <<x, x>>) >= 2
<1>1. Len(r) \in Nat /\ Len(Append(r, x)) = Len(r) + 1
  OBVIOUS
<1>2. Append(r, x) # <<>>
  <2>1. ASSUME NEW q, q = <<>> PROVE Len(q) = 0
    BY <2>1
  <2> QED
    BY <1>1, <2>1
<1>3. ASSUME NEW y, \A i \in DOMAIN r : r[i] = y, x = y
      PROVE  \A i \in DOMAIN Append(r, x) : Append(r, x)[i] = y
  <2>1. /\ DOMAIN r = 1..Len(r) /\ DOMAIN Append(r, x) = 1..(Len(r) + 1)
        /\ \A i \in 1..(Len(r) + 1) : Append(r, x)[i] = IF i <= Len(r) THEN r[i] ELSE x
    OBVIOUS
  <2> QED
    BY <1>3, <2>1
<1>4. Len(r \o <<x, x>>) >= 2
  <2>1. <<x, x>> \in Seq(S) /\ Len(<<x, x>>) = 2 /\ Len(r) \in Nat
    OBVIOUS
  <2> QED
    BY <2>1
<1> QED
  BY <1>1, <1>2, <1>3, <1>4

\* Every step keeps what is on the connections in line with their borrowers.
LEMMA ExchangeNext ==
    ASSUME Types, Exchanges, Idle, [Next]_vars
    PROVE  Exchanges' /\ Idle'
<1> USE DEF Goto, exchange
<1>0. ASSUME NEW g \in Procs, Exchange(g)',
             \A h \in Procs \ {g} : pc'[h] = pc[h] /\ conn'[h] = conn[h] /\ got'[h] = got[h]
      PROVE  Exchanges'
  BY <1>0, ExchangeStays DEF Exchanges
<1>a. \A g \in Procs : /\ Exchange(g) /\ pc[g] \in Places /\ conn[g] \in ConnType /\ got[g] \in Seq(Procs)
  BY DEF Types, Exchanges
<1>b. /\ pc \in [Procs -> Places] /\ conn \in [Procs -> ConnType] /\ got \in [Procs -> Seq(Procs)]
      /\ conns \in Seq(ConnType)
  BY DEF Types
<1>1. ASSUME NEW g \in Procs, GetStart(g) PROVE Exchanges' /\ Idle'
  <2>1. \A h \in Procs \ {g} : pc'[h] = pc[h] /\ conn'[h] = conn[h] /\ got'[h] = got[h]
    BY <1>b, <1>1 DEF GetStart
  <2>2. Exchange(g)'
    BY <1>a, <1>b, <1>1, Zenon DEF GetStart, Exchange
  <2>3. Idle'
    BY <1>1 DEF GetStart, Idle
  <2> QED
    BY <1>0, <2>1, <2>2, <2>3
<1>2. ASSUME NEW g \in Procs, GetIdle(g) PROVE Exchanges' /\ Idle'
  <2>1. \A h \in Procs \ {g} : pc'[h] = pc[h] /\ conn'[h] = conn[h] /\ got'[h] = got[h]
    BY <1>b, <1>2 DEF GetIdle
  <2>a. LET c == conns[Len(conns)] IN ~c.broken /\ (~c.shifted => c.replies = <<>>)
    BY <1>b, <1>2 DEF GetIdle, Idle
  <2>b. pc'[g] = "has" /\ conn'[g] = conns[Len(conns)] /\ got'[g] = <<>>
    BY <1>a, <1>b, <1>2, Zenon DEF GetIdle, Exchange
  <2>c. \A i \in DOMAIN got'[g] : got'[g][i] = g
    BY <2>b
  <2>d. ~conn'[g].broken /\ (~conn'[g].shifted => conn'[g].replies = <<>>)
    BY <2>a, <2>b
  <2>2. Exchange(g)'
    BY <2>b, <2>c, <2>d DEF Exchange
  <2>3. Idle'
    BY <1>b, <1>2 DEF GetIdle, Idle
  <2> QED
    BY <1>0, <2>1, <2>2, <2>3
<1>3. ASSUME NEW g \in Procs, GetNew(g) PROVE Exchanges' /\ Idle'
  <2>1. \A h \in Procs \ {g} : pc'[h] = pc[h] /\ conn'[h] = conn[h] /\ got'[h] = got[h]
    BY <1>b, <1>3 DEF GetNew
  <2>2. Exchange(g)'
    BY <1>a, <1>b, <1>3, Zenon DEF GetNew, Exchange
  <2>3. Idle'
    BY <1>3 DEF GetNew, Idle
  <2> QED
    BY <1>0, <2>1, <2>2, <2>3
<1>4. ASSUME NEW g \in Procs, GetFull(g) PROVE Exchanges' /\ Idle'
  <2>1. \A h \in Procs \ {g} : pc'[h] = pc[h] /\ conn'[h] = conn[h] /\ got'[h] = got[h]
    BY <1>b, <1>4 DEF GetFull
  <2>2. Exchange(g)'
    BY <1>a, <1>b, <1>4, Zenon DEF GetFull, Exchange
  <2>3. Idle'
    BY <1>4 DEF GetFull, Idle
  <2> QED
    BY <1>0, <2>1, <2>2, <2>3
<1>5. ASSUME NEW g \in Procs, Wake(g) PROVE Exchanges' /\ Idle'
  <2>1. \A h \in Procs \ {g} : pc'[h] = pc[h] /\ conn'[h] = conn[h] /\ got'[h] = got[h]
    BY <1>b, <1>5 DEF Wake
  <2>2. Exchange(g)'
    BY <1>a, <1>b, <1>5, Zenon DEF Wake, Exchange
  <2>3. Idle'
    BY <1>5 DEF Wake, Idle
  <2> QED
    BY <1>0, <2>1, <2>2, <2>3
<1>6. ASSUME NEW g \in Procs, Cancel(g) PROVE Exchanges' /\ Idle'
  <2>1. \A h \in Procs \ {g} : pc'[h] = pc[h] /\ conn'[h] = conn[h] /\ got'[h] = got[h]
    BY <1>b, <1>6 DEF Cancel
  <2>2. Exchange(g)'
    BY <1>a, <1>b, <1>6, Zenon DEF Cancel, Exchange
  <2>3. Idle'
    BY <1>6 DEF Cancel, Idle
  <2> QED
    BY <1>0, <2>1, <2>2, <2>3
<1>7. ASSUME NEW g \in Procs, DialOk(g) PROVE Exchanges' /\ Idle'
  <2>1. \A h \in Procs \ {g} : pc'[h] = pc[h] /\ conn'[h] = conn[h] /\ got'[h] = got[h]
    BY <1>b, <1>7 DEF DialOk
  <2>a. pc'[g] = "has" /\ conn'[g] = NewConn /\ got'[g] = <<>>
    BY <1>a, <1>b, <1>7, Zenon DEF DialOk, Exchange
  <2>2. Exchange(g)'
    BY <2>a DEF Exchange, NewConn
  <2>3. Idle'
    BY <1>7 DEF DialOk, Idle
  <2> QED
    BY <1>0, <2>1, <2>2, <2>3
<1>8. ASSUME NEW g \in Procs, DialFail(g) PROVE Exchanges' /\ Idle'
  <2>1. \A h \in Procs \ {g} : pc'[h] = pc[h] /\ conn'[h] = conn[h] /\ got'[h] = got[h]
    BY <1>b, <1>8 DEF DialFail
  <2>2. Exchange(g)'
    BY <1>a, <1>b, <1>8 DEF DialFail, Exchange
  <2>3. Idle'
    BY <1>8 DEF DialFail, Idle
  <2> QED
    BY <1>0, <2>1, <2>2, <2>3
<1>9. ASSUME NEW g \in Procs, Write(g) PROVE Exchanges' /\ Idle'
  <2>1. \A h \in Procs \ {g} : pc'[h] = pc[h] /\ conn'[h] = conn[h] /\ got'[h] = got[h]
    BY <1>b, <1>9 DEF Write
  <2>a. /\ pc'[g] = "sent" /\ got'[g] = <<>> /\ conn'[g].broken = FALSE
        /\ conn'[g].shifted = conn[g].shifted /\ conn'[g].replies = conn[g].replies \o <<g, g>>
    BY <1>a, <1>b, <1>9, Zenon DEF Write, Exchange, ConnType
  <2>b. conn[g].replies \in Seq(Procs) /\ (~conn[g].shifted => conn[g].replies = <<>>)
    BY <1>a, <1>9, Zenon DEF Write, Exchange, ConnType
  <2>c. /\ Len(conn'[g].replies) >= 2 /\ Len(got'[g]) = 0
        /\ ~conn'[g].shifted => conn'[g].replies = <<g, g>>
    <3> DEFINE q == conn[g].replies \o <<g, g>>
    <3>1. Len(q) >= 2
      BY <2>b, SequenceSteps
    <3>2. conn[g].replies = <<>> => q = <<g, g>>
      OBVIOUS
    <3>3. conn'[g].replies = q /\ Len(got'[g]) = 0
      BY <2>a
    <3> HIDE DEF q
    <3> QED
      BY <2>a, <2>b, <3>1, <3>2, <3>3, Zenon
  <2>d. \A i \in DOMAIN got'[g] : got'[g][i] = g
    BY <2>a
  <2>e. pc'[g] = "sent" /\ got'[g] = <<>> /\ ~conn'[g].broken
    BY <2>a
  <2>2. Exchange(g)'
    BY <2>c, <2>d, <2>e DEF Exchange
  <2>3. Idle'
    BY <1>9 DEF Write, Idle
  <2> QED
    BY <1>0, <2>1, <2>2, <2>3
<1>10. ASSUME NEW g \in Procs, Read(g) PROVE Exchanges' /\ Idle'
  <2>1. \A h \in Procs \ {g} : pc'[h] = pc[h] /\ conn'[h] = conn[h] /\ got'[h] = got[h]
    BY <1>b, <1>10 DEF Read
  <2>a. /\ pc[g] = "sent" /\ ~conn[g].broken /\ Len(got[g]) <= 1 /\ got[g] \in Seq(Procs)
        /\ conn[g].replies \in Seq(Procs) /\ Len(conn[g].replies) >= 2 - Len(got[g])
        /\ ~conn[g].shifted /\ got[g] = <<>> => conn[g].replies = <<g, g>>
        /\ ~conn[g].shifted /\ got[g] # <<>> => conn[g].replies = <<g>>
        /\ ~conn[g].shifted => \A i \in DOMAIN got[g] : got[g][i] = g
    BY <1>a, <1>10, Zenon DEF Read, Exchange, ConnType
  <2> DEFINE r == conn[g].replies
             x == Head(r)
             o == Append(got[g], x)
  <2>b. /\ got[g] = <<>> => pc'[g] = "sent"
        /\ got[g] # <<>> => pc'[g] = "put"
        /\ conn'[g].broken = conn[g].broken /\ conn'[g].shifted = conn[g].shifted
        /\ conn'[g].replies = Tail(r) /\ got'[g] = o
    BY <1>a, <1>b, <1>10 DEF Read, ConnType
  <2>c. Len(got[g]) \in Nat /\ Len(r) \in Nat /\ Len(r) >= 1
    <3>1. Len(got[g]) \in Nat /\ Len(r) \in Nat
      BY <2>a
    <3>2. Len(got[g]) <= 1 /\ Len(r) >= 2 - Len(got[g])
      BY <2>a, Zenon
    <3> HIDE DEF r
    <3> QED
      BY <3>1, <3>2
  <2>d. x \in Procs /\ Len(Tail(r)) = Len(r) - 1
    <3>1. r \in Seq(Procs) /\ r # <<>>
      BY <2>a, <2>c
    <3> HIDE DEF r
    <3> QED
      BY <3>1, HeadTailProperties
  <2>e. /\ ~conn[g].shifted /\ got[g] = <<>> => x = g /\ Tail(r) = <<g>>
        /\ ~conn[g].shifted /\ got[g] # <<>> => x = g /\ Tail(r) = <<>>
    BY <2>a, ReadsOfTwo, Zenon
  <2> HIDE DEF x
  <2>f. o # <<>> /\ Len(o) = Len(got[g]) + 1
    BY <2>a, <2>d, SequenceSteps
  <2>g. ~conn[g].shifted => \A i \in DOMAIN o : o[i] = g
    <3>1. \A y : (\A i \in DOMAIN got[g] : got[g][i] = y) /\ x = y
                  => \A i \in DOMAIN o : o[i] = y
      BY <2>a, <2>d, SequenceSteps
    <3>2. ~conn[g].shifted => x = g /\ \A i \in DOMAIN got[g] : got[g][i] = g
      BY <2>a, <2>e
    <3> HIDE DEF o
    <3> QED
      BY <3>1, <3>2
  <2> HIDE DEF r, o
  <2>2. Exchange(g)'
    <3>1. CASE got[g] = <<>>
      <4>1. Len(got[g]) = 0 /\ Len(r) >= 2
        BY <2>a, <2>c, <3>1 DEF r
      <4>2. Len(o) = 1 /\ Len(Tail(r)) >= 1
        BY <2>c, <2>d, <2>f, <4>1
      <4>3. /\ pc'[g] = "sent" /\ ~conn'[g].broken /\ got'[g] # <<>>
            /\ Len(got'[g]) <= 1 /\ Len(conn'[g].replies) >= 2 - Len(got'[g])
            /\ ~conn'[g].shifted => conn'[g].replies = <<g>>
            /\ ~conn'[g].shifted => \A i \in DOMAIN got'[g] : got'[g][i] = g
        <5>1. pc'[g] = "sent" /\ ~conn'[g].broken /\ got'[g] # <<>>
          BY <2>a, <2>b, <2>f, <3>1
        <5>2. Len(got'[g]) <= 1 /\ Len(conn'[g].replies) >= 2 - Len(got'[g])
          BY <2>b, <2>c, <2>d, <4>1, <4>2
        <5>3. ~conn'[g].shifted => conn'[g].replies = <<g>>
          BY <2>b, <2>e, <3>1
        <5>4. ~conn'[g].shifted => \A i \in DOMAIN got'[g] : got'[g][i] = g
          BY <2>b, <2>g
        <5> QED
          BY <5>1, <5>2, <5>3, <5>4, Zenon
      <4> QED
        BY <4>3, Zenon DEF Exchange
    <3>2. CASE got[g] # <<>>
      <4>1. /\ pc'[g] = "put"
            /\ ~conn'[g].shifted => conn'[g].replies = <<>>
            /\ ~conn'[g].shifted => \A i \in DOMAIN got'[g] : got'[g][i] = g
        BY <2>b, <2>e, <2>g, <3>2
      <4> QED
        BY <4>1 DEF Exchange
    <3> QED
      BY <3>1, <3>2
  <2>3. Idle'
    BY <1>10 DEF Read, Idle
  <2> QED
    BY <1>0, <2>1, <2>2, <2>3
<1>11. ASSUME NEW g \in Procs, ReadRefused(g) PROVE Exchanges' /\ Idle'
  <2>1. \A h \in Procs \ {g} : pc'[h] = pc[h] /\ conn'[h] = conn[h] /\ got'[h] = got[h]
    BY <1>b, <1>11 DEF ReadRefused
  <2>a. pc'[g] = "put" /\ conn'[g].shifted
    BY <1>a, <1>b, <1>11 DEF ReadRefused, ConnType
  <2>2. Exchange(g)'
    BY <2>a DEF Exchange
  <2>3. Idle'
    BY <1>11 DEF ReadRefused, Idle
  <2> QED
    BY <1>0, <2>1, <2>2, <2>3
<1>12. ASSUME NEW g \in Procs, Fail(g) PROVE Exchanges' /\ Idle'
  <2>1. \A h \in Procs \ {g} : pc'[h] = pc[h] /\ conn'[h] = conn[h] /\ got'[h] = got[h]
    BY <1>b, <1>12 DEF Fail
  <2>a. pc'[g] = "put" /\ conn'[g].broken /\ conn'[g].shifted = conn[g].shifted /\ got'[g] = got[g]
    BY <1>a, <1>b, <1>12 DEF Fail, ConnType
  <2>b. ~conn[g].shifted => \A i \in DOMAIN got[g] : got[g][i] = g
    BY <1>a, Zenon DEF Exchange
  <2>c. ~conn'[g].shifted => \A i \in DOMAIN got'[g] : got'[g][i] = g
    BY <2>a, <2>b
  <2>2. Exchange(g)'
    BY <2>a, <2>c DEF Exchange
  <2>3. Idle'
    BY <1>12 DEF Fail, Idle
  <2> QED
    BY <1>0, <2>1, <2>2, <2>3
<1>13. ASSUME NEW g \in Procs, Put(g) PROVE Exchanges' /\ Idle'
  <2>1. \A h \in Procs \ {g} : pc'[h] = pc[h] /\ conn'[h] = conn[h] /\ got'[h] = got[h]
    BY <1>b, <1>13 DEF Put
  <2>a. pc'[g] \in {"drop", "return"} /\ got'[g] = <<>>
    BY <1>a, <1>b, <1>13 DEF Put
  <2>b. ASSUME pc'[g] = "return"
        PROVE  ~conn'[g].broken /\ (~conn'[g].shifted => conn'[g].replies = <<>>)
    <3>1. pc[g] = "put" /\ conn' = conn /\ ~conn[g].broken
      BY <1>a, <1>b, <1>13, <2>b DEF Put
    <3> QED
      BY <1>a, <3>1, Zenon DEF Exchange
  <2>2. Exchange(g)'
    BY <2>a, <2>b DEF Exchange
  <2>3. Idle'
    BY <1>13 DEF Put, Idle
  <2> QED
    BY <1>0, <2>1, <2>2, <2>3
<1>14. ASSUME NEW g \in Procs, PutDrop(g) PROVE Exchanges' /\ Idle'
  <2>1. \A h \in Procs \ {g} : pc'[h] = pc[h] /\ conn'[h] = conn[h] /\ got'[h] = got[h]
    BY <1>b, <1>14 DEF PutDrop
  <2>a. pc'[g] = "notify" /\ got'[g] = <<>>
    BY <1>a, <1>b, <1>14, Zenon DEF PutDrop, Exchange
  <2>2. Exchange(g)'
    BY <2>a DEF Exchange
  <2>3. Idle'
    BY <1>14 DEF PutDrop, Idle
  <2> QED
    BY <1>0, <2>1, <2>2, <2>3
<1>15. ASSUME NEW g \in Procs, PutReturn(g) PROVE Exchanges' /\ Idle'
  <2>1. \A h \in Procs \ {g} : pc'[h] = pc[h] /\ conn'[h] = conn[h] /\ got'[h] = got[h]
    BY <1>b, <1>15 DEF PutReturn
  <2>a. pc'[g] = "notify" /\ conn'[g] = NoConn /\ got'[g] = <<>>
    BY <1>a, <1>b, <1>15, Zenon DEF PutReturn, Exchange
  <2>2. Exchange(g)'
    BY <2>a DEF Exchange, NewConn, NoConn
  <2>b. ~conn[g].broken /\ (~conn[g].shifted => conn[g].replies = <<>>)
    BY <1>a, <1>15, Zenon DEF PutReturn, Exchange
  <2> DEFINE q == Append(conns, conn[g])
  <2>c. \A i \in DOMAIN q : i \in DOMAIN conns \/ q[i] = conn[g]
    BY <1>a, <1>b
  <2>e. \A i \in DOMAIN conns : q[i] = conns[i]
    BY <1>a, <1>b
  <2>d. conns' = q \/ conns' = conns
    BY <1>15 DEF PutReturn
  <2> HIDE DEF q
  <2>3. Idle'
    BY <2>b, <2>c, <2>d, <2>e DEF Idle
  <2> QED
    BY <1>0, <2>1, <2>2, <2>3
<1>16. ASSUME NEW g \in Procs, Notify(g) PROVE Exchanges' /\ Idle'
  <2>1. \A h \in Procs \ {g} : pc'[h] = pc[h] /\ conn'[h] = conn[h] /\ got'[h] = got[h]
    BY <1>b, <1>16 DEF Notify
  <2>2. Exchange(g)'
    BY <1>a, <1>b, <1>16, Zenon DEF Notify, Exchange
  <2>3. Idle'
    BY <1>16 DEF Notify, Idle
  <2> QED
    BY <1>0, <2>1, <2>2, <2>3
<1>17. CASE CloseStore
  BY <1>17, ExchangeStays DEF CloseStore, Exchanges, Idle
<1>18. CASE CloseConns
  BY <1>18, ExchangeStays DEF CloseConns, Exchanges, Idle
<1>19. CASE UNCHANGED vars
  BY <1>19, ExchangeStays DEF vars, Exchanges, Idle
<1> QED
  BY <1>1, <1>2, <1>3, <1>4, <1>5, <1>6, <1>7, <1>8, <1>9, <1>10, <1>11, <1>12, <1>13, <1>14, <1>15, <1>16, <1>17, <1>18, <1>19 DEF Next, Step

------------------------------------------------------------------------------
\* The theorems.

\* The inductive invariant: types, the two on the counters, and what is on the
\* connections.
IInv == Types /\ Accounting /\ NoLostWakeup /\ Exchanges /\ Idle

\* A pool that was just created satisfies the invariant.
LEMMA InitIInv == ASSUME Init PROVE IInv
<1>1. Types
  BY TypesInit
<1>2. Count(pc, Counted) = 0 /\ Count(pc, {"wait"}) = 0
  <2>1. /\ {g \in Procs : pc[g] \in Counted} = {}
        /\ {g \in Procs : pc[g] \in {"wait"}} = {}
    BY DEF Init, Counted
  <2> QED
    BY <2>1, FS_EmptySet DEF Count
<1>3. numConns = 0 /\ conns = <<>> /\ Len(conns) = 0 /\ MaxSize \in Nat
  BY PoolAssumption DEF Init
<1>4. Accounting /\ NoLostWakeup
  BY <1>2, <1>3, CountingForms
<1>5. Exchanges
  <2>1. ASSUME NEW g \in Procs PROVE pc[g] = "out" /\ got[g] = <<>>
    BY DEF Init
  <2>2. ASSUME NEW g \in Procs PROVE Exchange(g)
    <3>1. pc[g] = "out" /\ got[g] = <<>>
      BY <2>1
    <3>2. \A i \in DOMAIN got[g] : got[g][i] = g
      BY <3>1
    <3> QED
      BY <3>1, <3>2 DEF Exchange
  <2> QED
    BY <2>2 DEF Exchanges
<1>6. Idle
  BY <1>3 DEF Idle
<1> QED
  BY <1>1, <1>4, <1>5, <1>6 DEF IInv

\* The invariant holds throughout, for any number of goroutines and any maxSize.
THEOREM PoolInvariance == Spec => []IInv
<1>1. Init => IInv
  BY InitIInv
<1>2. IInv /\ [Next]_vars => IInv'
  BY TypesNext, CountingNext, ExchangeNext DEF IInv
<1> QED
  BY <1>1, <1>2, PTL DEF Spec

\* Until Close has emptied the pool, numConns counts the idle, lent and dialled
\* connections exactly, and there are at most maxSize of them.
THEOREM ConnectionsCounted == Spec => []Accounting
<1>1. IInv => Accounting
  BY DEF IInv
<1> QED
  BY <1>1, PoolInvariance, PTL

\* notify and the channel of waiters lose no wake-up: every connection that could
\* be had while someone waits is announced, or about to be looked for.
THEOREM WakeupsKept == Spec => []NoLostWakeup
<1>1. IInv => NoLostWakeup
  BY DEF IInv
<1> QED
  BY <1>1, PoolInvariance, PTL

\* Whatever earlier borrowers did with a connection, broken exchanges included,
\* the next reads the replies to its own commands, unless ASKING was refused.
THEOREM RepliesOwn == Spec => []OwnReply
<1>1. IInv => OwnReply
  BY Zenon DEF IInv, Exchanges, Exchange, OwnReply
<1> QED
  BY <1>1, PoolInvariance, PTL
===============================================================================
