---------------------------- MODULE FrontendProofs ----------------------------
(***************************************************************************)
(* max-clients, for any number of loops, connections and limits: the       *)
(* number of clients is bounded though onClientOpen compares the count and *)
(* raises it in two steps, and though a refused connection is counted out  *)
(* without having been counted in.                                         *)
(***************************************************************************)
EXTENDS Frontend, FiniteSetTheorems, TLAPS

OpenConns == {c \in Clients : conn[c] = "open"}
Admitting == {l \in Loops : pc[l] = "admit"}

\* The connection of a loop between the two steps of onClientOpen is new, and
\* it is the loop's own: no other loop touches it.
HoldsNew ==
    \A l \in Loops : pc[l] \in {"admit", "reject"} =>
        on[l] \in Clients /\ conn[on[l]] = "new" /\ LoopOf[on[l]] = l

\* The count is short by one for each connection refused.
CountExact == numClients = Cardinality(OpenConns) - rejected

\* The limit in force is one of those set so far, of which one is the largest.
LimitsOK ==
    /\ limits \subseteq Nat /\ maxClients \in limits
    /\ \E m \in limits : \A n \in limits : m >= n

\* The clients, with those about to be counted, stay within the bound.
RoomLeft ==
    0 \notin limits =>
        Cardinality(OpenConns) + Cardinality(Admitting)
          <= Max(limits) + rejected + Cardinality(Loops) - 1

\* What the steps need of the types.
Types ==
    /\ plan \in Plans /\ Clients \subseteq Conns
    /\ DOMAIN pc = Loops /\ DOMAIN on = Loops /\ DOMAIN conn = Clients
    /\ rejected \in Nat

IInv == Types /\ LimitsOK /\ HoldsNew /\ CountExact /\ RoomLeft

------------------------------------------------------------------------------
\* The sets that are counted.

\* Loops and connections are finite sets, so their cardinalities are numbers.
LEMMA Sizes ==
    ASSUME Types
    PROVE  /\ IsFiniteSet(OpenConns) /\ Cardinality(OpenConns) \in Nat
           /\ IsFiniteSet(Admitting) /\ Cardinality(Admitting) \in Nat
           /\ Cardinality(Loops) \in Nat /\ Cardinality(Admitting) <= Cardinality(Loops)
<1>1. IsFiniteSet(Loops) /\ IsFiniteSet(Conns)
  BY FrontendAssumption
<1>2. OpenConns \subseteq Conns /\ Admitting \subseteq Loops
  BY DEF Types, OpenConns, Admitting
<1>3. /\ IsFiniteSet(OpenConns) /\ IsFiniteSet(Admitting)
      /\ Cardinality(Admitting) <= Cardinality(Loops)
  BY <1>1, <1>2, FS_Subset
<1> QED BY <1>1, <1>3, FS_CardinalityType

\* One more element, one more in the count.
LEMMA OneMore ==
    ASSUME NEW S, IsFiniteSet(S), NEW x, x \notin S
    PROVE  Cardinality(S \cup {x}) = Cardinality(S) + 1
  BY FS_AddElement

\* One element less, one less in the count.
LEMMA OneLess ==
    ASSUME NEW S, IsFiniteSet(S), NEW x \in S
    PROVE  Cardinality(S \ {x}) = Cardinality(S) - 1
  BY FS_RemoveElement

\* The largest limit is one of the limits, and there is none above it.
LEMMA MaxLimit ==
    ASSUME LimitsOK
    PROVE  Max(limits) \in limits /\ \A n \in limits : Max(limits) >= n
  BY Zenon DEF LimitsOK, Max

\* What the bound is made of are numbers.
LEMMA Numbers ==
    ASSUME IInv
    PROVE  /\ Cardinality(OpenConns) \in Nat /\ Cardinality(Admitting) \in Nat
           /\ Cardinality(Loops) \in Nat /\ rejected \in Nat /\ Max(limits) \in Nat
           /\ RoomLeft /\ CountExact
<1>1. Types /\ LimitsOK /\ RoomLeft /\ CountExact
  BY DEF IInv
<1>2. Max(limits) \in Nat /\ rejected \in Nat
  BY <1>1, MaxLimit, Zenon DEF LimitsOK, Types
<1> QED BY <1>1, <1>2, Sizes

------------------------------------------------------------------------------
\* The steps.

\* A step that opens, counts and closes nothing.
Keeps ==
    /\ UNCHANGED <<plan, conn, clientVars>>
    /\ DOMAIN pc' = Loops /\ DOMAIN on' = Loops
    /\ \A l \in Loops : pc'[l] = "admit" <=> pc[l] = "admit"
    /\ \A l \in Loops : pc'[l] \in {"admit", "reject"} =>
          pc[l] \in {"admit", "reject"} /\ on'[l] = on[l]

\* It keeps the invariant.
LEMMA KeepsInv ==
    ASSUME IInv, Keeps
    PROVE  IInv'
<1>1. OpenConns' = OpenConns /\ Admitting' = Admitting /\ Clients' = Clients
  BY DEF Keeps, OpenConns, Admitting, Clients
<1>2. /\ plan' = plan /\ conn' = conn /\ numClients' = numClients /\ rejected' = rejected
      /\ limits' = limits /\ maxClients' = maxClients
  BY DEF Keeps, clientVars
<1>3. Types'
  BY <1>1, <1>2 DEF IInv, Types, Keeps
<1>4. LimitsOK'
  BY <1>2 DEF IInv, LimitsOK
<1>5. HoldsNew'
  BY <1>1, <1>2 DEF IInv, HoldsNew, Keeps
<1>6. CountExact'
  BY <1>1, <1>2 DEF IInv, CountExact
<1>7. RoomLeft'
  BY <1>1, <1>2 DEF IInv, RoomLeft
<1> QED BY <1>3, <1>4, <1>5, <1>6, <1>7 DEF IInv

\* A handler that is past onClientOpen stays past it.
LEMMA HandlerKeeps ==
    ASSUME Types, NEW l \in Loops, pc[l] \notin {"admit", "reject"},
           NEW w, w \notin {"admit", "reject"}, Goto(l, w),
           NEW c, on' = on \/ on' = [on EXCEPT ![l] = c],
           UNCHANGED <<plan, conn, clientVars>>
    PROVE  Keeps
<1>1. pc' = [pc EXCEPT ![l] = w] /\ DOMAIN pc = Loops /\ DOMAIN on = Loops
  BY DEF Goto, Types
<1>2. DOMAIN pc' = Loops /\ DOMAIN on' = Loops
  BY <1>1, Zenon
<1>3. ASSUME NEW k \in Loops
      PROVE  /\ pc'[k] = "admit" <=> pc[k] = "admit"
             /\ pc'[k] \in {"admit", "reject"} => pc[k] \in {"admit", "reject"} /\ on'[k] = on[k]
  BY <1>1, Zenon
<1> QED BY <1>2, <1>3 DEF Keeps

\* A step outside the handlers.
LEMMA StillKeeps ==
    ASSUME Types, UNCHANGED <<plan, conn, clientVars, pc, on>>
    PROVE  Keeps
  BY DEF Types, Keeps

\* onClientOpen's comparison: a loop that lets a connection in has seen the count
\* below the limit, so even with every loop about to raise it there is room.
LEMMA OpenInv ==
    ASSUME IInv, NEW l \in Loops, NEW c \in Clients, Open(l, c)
    PROVE  IInv'
<1> DEFINE w == IF maxClients > 0 /\ numClients >= maxClients THEN "reject" ELSE "admit"
<1>1. /\ LoopOf[c] = l /\ conn[c] = "new" /\ on' = [on EXCEPT ![l] = c]
      /\ pc' = [pc EXCEPT ![l] = w]
      /\ plan' = plan /\ conn' = conn /\ numClients' = numClients /\ rejected' = rejected
      /\ limits' = limits /\ maxClients' = maxClients
  BY DEF Open, Goto, connVars, clientVars
<1>2. w \in {"admit", "reject"}
  OBVIOUS
<1>3. OpenConns' = OpenConns /\ Clients' = Clients
  BY <1>1 DEF OpenConns, Clients
<1>4. Types'
  <2> HIDE DEF w
  <2>1. DOMAIN pc = Loops /\ DOMAIN on = Loops
    BY Zenon DEF IInv, Types
  <2>2. DOMAIN pc' = Loops /\ DOMAIN on' = Loops
    BY <1>1, <2>1
  <2> QED BY <1>1, <1>3, <2>2, Zenon DEF IInv, Types
<1>5. LimitsOK'
  BY <1>1 DEF IInv, LimitsOK
<1>6. HoldsNew'
  <2> SUFFICES ASSUME NEW k \in Loops, pc'[k] \in {"admit", "reject"}
               PROVE  on'[k] \in Clients /\ conn[on'[k]] = "new" /\ LoopOf[on'[k]] = k
    BY <1>1, <1>3 DEF HoldsNew
  <2>1. CASE k = l
    BY <1>1, <2>1 DEF IInv, Types
  <2>2. CASE k # l
    <3>1. pc'[k] = pc[k] /\ on'[k] = on[k]
      BY <1>1, <2>2 DEF IInv, Types
    <3> QED BY <3>1 DEF IInv, HoldsNew
  <2> QED BY <2>1, <2>2
<1>7. CountExact'
  BY <1>1, <1>3 DEF IInv, CountExact
<1>8. RoomLeft'
  <2> SUFFICES ASSUME 0 \notin limits
               PROVE  Cardinality(OpenConns) + Cardinality(Admitting')
                        <= Max(limits) + rejected + Cardinality(Loops) - 1
    BY <1>1, <1>3 DEF RoomLeft
  <2>1. /\ Cardinality(OpenConns) \in Nat /\ Cardinality(Loops) \in Nat /\ rejected \in Nat
        /\ Cardinality(Admitting') \in Nat /\ Cardinality(Admitting') <= Cardinality(Loops)
    <3>1. /\ Cardinality(Admitting') \in Nat /\ Cardinality(Admitting') <= Cardinality(Loops)
      <4>1. Admitting' \subseteq Loops /\ IsFiniteSet(Loops)
        BY FrontendAssumption DEF Admitting
      <4>2. IsFiniteSet(Admitting') /\ Cardinality(Admitting') <= Cardinality(Loops)
        BY <4>1, FS_Subset
      <4> QED BY <4>2, FS_CardinalityType
    <3> QED BY <3>1, Sizes DEF IInv, Types
  <2>2. /\ maxClients \in Nat /\ maxClients # 0 /\ Max(limits) \in Nat /\ Max(limits) >= maxClients
    BY MaxLimit, Zenon DEF IInv, LimitsOK
  <2>3. CASE numClients >= maxClients
    <3>1. Admitting' = Admitting
      <4>1. w = "reject" /\ pc[l] = "poll"
        BY <2>2, <2>3 DEF Open
      <4> HIDE DEF w
      <4> QED BY <1>1, <4>1 DEF Admitting, IInv, Types
    <3> QED BY <3>1 DEF IInv, RoomLeft
  <2>4. CASE ~(numClients >= maxClients)
    <3>1. numClients = Cardinality(OpenConns) - rejected
      BY DEF IInv, CountExact
    <3> HIDE DEF w
    <3> QED BY <2>1, <2>2, <2>4, <3>1
  <2> QED BY <2>3, <2>4
<1> QED BY <1>4, <1>5, <1>6, <1>7, <1>8 DEF IInv

\* What a loop holds is touched by no step of another, and stays new.
LEMMA OthersHold ==
    ASSUME Types, HoldsNew, NEW l \in Loops, NEW c, c \in Clients => LoopOf[c] = l,
           pc' = [pc EXCEPT ![l] = "poll"], on' = on, plan' = plan,
           NEW x, conn' = [conn EXCEPT ![c] = x]
    PROVE  HoldsNew'
<1> SUFFICES ASSUME NEW k \in Loops, pc'[k] \in {"admit", "reject"}
             PROVE  on[k] \in Clients /\ conn'[on[k]] = "new" /\ LoopOf[on[k]] = k
  BY DEF HoldsNew, Clients
<1>1. k # l /\ pc'[k] = pc[k]
  BY DEF Types
<1>2. on[k] \in Clients /\ conn[on[k]] = "new" /\ LoopOf[on[k]] = k
  BY <1>1 DEF HoldsNew
<1>3. on[k] # c
  BY <1>1, <1>2
<1> QED BY <1>2, <1>3 DEF Types

\* onClientOpen's count: the connection is counted, and its loop is done.
LEMMA AdmitInv ==
    ASSUME IInv, NEW l \in Loops, Admit(l)
    PROVE  IInv'
<1> DEFINE c == on[l]
<1>1. /\ pc[l] = "admit" /\ numClients' = numClients + 1 /\ conn' = [conn EXCEPT ![c] = "open"]
      /\ pc' = [pc EXCEPT ![l] = "poll"] /\ on' = on /\ plan' = plan
      /\ rejected' = rejected /\ limits' = limits /\ maxClients' = maxClients
  BY DEF Admit, Goto
<1>2. c \in Clients /\ conn[c] = "new" /\ LoopOf[c] = l
  BY <1>1 DEF IInv, HoldsNew
<1> HIDE DEF c
<1>3. Types'
  <2>1. Clients' = Clients /\ DOMAIN pc' = DOMAIN pc /\ DOMAIN conn' = DOMAIN conn
    BY <1>1 DEF Clients
  <2> QED BY <1>1, <2>1, Zenon DEF IInv, Types
<1>4. LimitsOK'
  BY <1>1 DEF IInv, LimitsOK
<1>5. HoldsNew'
  BY <1>1, <1>2, OthersHold, Zenon DEF IInv
<1>6. Cardinality(OpenConns') = Cardinality(OpenConns) + 1
  <2>1. OpenConns' = {d \in Clients : conn'[d] = "open"}
    BY <1>1 DEF OpenConns, Clients
  <2>2. DOMAIN conn = Clients
    BY DEF IInv, Types
  <2>3. \A d \in Clients : conn'[d] = "open" <=> conn[d] = "open" \/ d = c
    BY <1>1, <2>2
  <2>4. OpenConns' = OpenConns \cup {c} /\ c \notin OpenConns
    BY <1>2, <2>1, <2>3 DEF OpenConns
  <2> QED BY <2>4, Sizes, OneMore DEF IInv
<1>7. Cardinality(Admitting') = Cardinality(Admitting) - 1
  <2>1. Admitting' = Admitting \ {l} /\ l \in Admitting
    BY <1>1 DEF Admitting, IInv, Types
  <2> QED BY <2>1, Sizes, OneLess DEF IInv
<1>8. CountExact'
  BY <1>1, <1>6, Numbers DEF CountExact
<1>9. RoomLeft'
  BY <1>1, <1>6, <1>7, Numbers DEF RoomLeft
<1> QED BY <1>3, <1>4, <1>5, <1>8, <1>9 DEF IInv

\* A refused connection was not open: closing it takes one off the count, and
\* the bound grows by one.
LEMMA RejectInv ==
    ASSUME IInv, NEW l \in Loops, Reject(l)
    PROVE  IInv'
<1> DEFINE c == on[l]
<1>1. /\ pc[l] = "reject" /\ numClients' = numClients - 1 /\ conn' = [conn EXCEPT ![c] = "closed"]
      /\ pc' = [pc EXCEPT ![l] = "poll"] /\ on' = on /\ plan' = plan
      /\ rejected' = rejected + 1 /\ limits' = limits /\ maxClients' = maxClients
  BY DEF Reject, Goto
<1>2. c \in Clients /\ conn[c] = "new" /\ LoopOf[c] = l
  BY <1>1 DEF IInv, HoldsNew
<1> HIDE DEF c
<1>3. Types'
  <2>1. Clients' = Clients /\ DOMAIN pc' = DOMAIN pc /\ DOMAIN conn' = DOMAIN conn
    BY <1>1 DEF Clients
  <2>2. rejected' \in Nat
    BY <1>1 DEF IInv, Types
  <2> QED BY <1>1, <2>1, <2>2, Zenon DEF IInv, Types
<1>4. LimitsOK'
  BY <1>1 DEF IInv, LimitsOK
<1>5. HoldsNew'
  BY <1>1, <1>2, OthersHold, Zenon DEF IInv
<1>6. OpenConns' = OpenConns
  <2>1. OpenConns' = {d \in Clients : conn'[d] = "open"}
    BY <1>1 DEF OpenConns, Clients
  <2>2. DOMAIN conn = Clients
    BY DEF IInv, Types
  <2>3. \A d \in Clients : conn'[d] = "open" <=> conn[d] = "open"
    BY <1>1, <1>2, <2>2
  <2> QED BY <2>1, <2>3 DEF OpenConns
<1>7. Admitting' = Admitting
  BY <1>1 DEF Admitting, IInv, Types
<1>8. CountExact'
  BY <1>1, <1>6, Numbers DEF CountExact
<1>9. RoomLeft'
  BY <1>1, <1>6, <1>7, Numbers DEF RoomLeft
<1> QED BY <1>3, <1>4, <1>5, <1>8, <1>9 DEF IInv

\* onClientClose of a client: one client less, one off the count.
LEMMA CloseInv ==
    ASSUME IInv, NEW l \in Loops, NEW c \in Clients, Close(l, c)
    PROVE  IInv'
<1>1. /\ pc[l] # "admit" /\ numClients' = numClients - 1 /\ conn' = [conn EXCEPT ![c] = "closed"]
      /\ pc' = [pc EXCEPT ![l] = "poll"] /\ on' = on /\ plan' = plan
      /\ rejected' = rejected /\ limits' = limits /\ maxClients' = maxClients
      /\ conn[c] = "open" /\ LoopOf[c] = l
  BY DEF Close, Goto
<1>3. Types'
  <2>1. Clients' = Clients /\ DOMAIN pc' = DOMAIN pc /\ DOMAIN conn' = DOMAIN conn
    BY <1>1 DEF Clients
  <2> QED BY <1>1, <2>1, Zenon DEF IInv, Types
<1>4. LimitsOK'
  BY <1>1 DEF IInv, LimitsOK
<1>5. HoldsNew'
  BY <1>1, OthersHold, Zenon DEF IInv
<1>6. Cardinality(OpenConns') = Cardinality(OpenConns) - 1
  <2>1. OpenConns' = {d \in Clients : conn'[d] = "open"}
    BY <1>1 DEF OpenConns, Clients
  <2>2. DOMAIN conn = Clients
    BY DEF IInv, Types
  <2>3. \A d \in Clients : conn'[d] = "open" <=> conn[d] = "open" /\ d # c
    BY <1>1, <2>2
  <2>4. OpenConns' = OpenConns \ {c} /\ c \in OpenConns
    BY <1>1, <2>1, <2>3 DEF OpenConns
  <2> QED BY <2>4, Sizes, OneLess DEF IInv
<1>7. Admitting' = Admitting
  BY <1>1 DEF Admitting, IInv, Types
<1>8. CountExact'
  BY <1>1, <1>6, Numbers DEF CountExact
<1>9. RoomLeft'
  BY <1>1, <1>6, <1>7, Numbers DEF RoomLeft
<1> QED BY <1>3, <1>4, <1>5, <1>8, <1>9 DEF IInv

\* A new limit: the largest so far does not get smaller.
LEMMA SetMaxClientsInv ==
    ASSUME IInv, NEW n \in plan.limits, SetMaxClients(n)
    PROVE  IInv'
<1>1. /\ maxClients' = n /\ limits' = limits \cup {n} /\ numClients' = numClients
      /\ rejected' = rejected /\ conn' = conn /\ pc' = pc /\ on' = on /\ plan' = plan
  BY Zenon DEF SetMaxClients, connVars, loopVars
<1>2. OpenConns' = OpenConns /\ Admitting' = Admitting /\ Clients' = Clients
  BY <1>1, Zenon DEF OpenConns, Admitting, Clients
<1>3. Types' /\ HoldsNew' /\ CountExact'
  BY <1>1, <1>2, Zenon DEF IInv, Types, HoldsNew, CountExact
<1>4. n \in Nat
  BY FrontendAssumption DEF IInv, Types
<1>5. LimitsOK'
  <2>1. PICK m \in limits : \A k \in limits : m >= k
    BY Zenon DEF IInv, LimitsOK
  <2>2. limits \subseteq Nat /\ m \in Nat
    BY DEF IInv, LimitsOK
  <2>3. CASE m >= n
    BY <1>1, <1>4, <2>1, <2>2, <2>3 DEF LimitsOK
  <2>4. CASE n >= m
    <3>1. \A k \in limits \cup {n} : n >= k
      BY <1>4, <2>1, <2>2, <2>4
    <3> QED BY <1>1, <1>4, <2>2, <3>1 DEF LimitsOK
  <2> QED BY <1>4, <2>2, <2>3, <2>4
<1>6. Max(limits) \in Nat /\ Max(limits') \in Nat /\ Max(limits') >= Max(limits)
  <2>1. Max(limits) \in limits /\ limits \subseteq Nat
    BY MaxLimit, Zenon DEF IInv, LimitsOK
  <2>2. limits' \subseteq Nat /\ \E m \in limits' : \A k \in limits' : m >= k
    BY <1>5 DEF LimitsOK
  <2>3. Max(limits') \in limits' /\ \A k \in limits' : Max(limits') >= k
    BY <2>2, Zenon DEF Max
  <2> QED BY <1>1, <2>1, <2>2, <2>3
<1>7. RoomLeft'
  BY <1>1, <1>2, <1>6, Numbers DEF RoomLeft
<1> QED BY <1>3, <1>5, <1>7 DEF IInv

------------------------------------------------------------------------------
\* The theorems.

\* No loop is in a handler and no client is there at the start.
LEMMA InitInv ==
    ASSUME Init
    PROVE  IInv
<1>1. /\ plan \in Plans /\ conn = [c \in Clients |-> "new"] /\ pc = [l \in Loops |-> "poll"]
      /\ DOMAIN on = Loops /\ maxClients \in plan.limits /\ limits = {maxClients}
      /\ numClients = 0 /\ rejected = 0
  BY DEF Init
<1>2. Types
  BY <1>1, FrontendAssumption, Zenon DEF Types, Clients
<1>3. maxClients \in Nat
  BY <1>1, FrontendAssumption
<1>4. LimitsOK
  BY <1>1, <1>3 DEF LimitsOK
<1>5. HoldsNew
  BY <1>1 DEF HoldsNew
<1>6. OpenConns = {} /\ Admitting = {}
  BY <1>1 DEF OpenConns, Admitting
<1>7. Cardinality(OpenConns) = 0 /\ Cardinality(Admitting) = 0
  BY <1>6, FS_EmptySet
<1>8. CountExact
  BY <1>1, <1>7 DEF CountExact
<1>9. RoomLeft
  BY <1>1, <1>2, <1>3, <1>4, <1>7, Sizes, MaxLimit DEF RoomLeft
<1> QED BY <1>2, <1>4, <1>5, <1>8, <1>9 DEF IInv

\* The steps of a handler past onClientOpen.
LEMMA HandleKeeps ==
    ASSUME Types, NEW l \in Loops,
           \/ Parse(l) \/ Submit(l) \/ AddTotal(l) \/ LoadSec(l) \/ CompareAndSwap(l) \/ AddCount(l)
           \/ Swap(l) \/ StoreLast(l) \/ \E c \in Clients : Traffic(l, c)
    PROVE  Keeps
<1>1. CASE Parse(l)
  <2>1. /\ pc[l] = "parse" /\ on' = on /\ UNCHANGED <<plan, conn, clientVars>>
        /\ \E w \in {"submit", "parse", "count", "close", "poll"} : Goto(l, w)
    BY <1>1, Zenon DEF Parse
  <2> QED BY <2>1, HandlerKeeps, Zenon
<1>2. CASE Submit(l)
  <2>1. /\ pc[l] = "submit" /\ on' = on /\ UNCHANGED <<plan, conn, clientVars>> /\ Goto(l, "parse")
    BY <1>2 DEF Submit, connVars
  <2> QED BY <2>1, HandlerKeeps
<1>3. CASE AddTotal(l)
  <2>1. /\ pc[l] = "count" /\ on' = on /\ UNCHANGED <<plan, conn, clientVars>> /\ Goto(l, "load")
    BY <1>3, Zenon DEF AddTotal, connVars
  <2> QED BY <2>1, HandlerKeeps
<1>4. CASE LoadSec(l)
  <2>1. /\ pc[l] = "load" /\ on' = on /\ UNCHANGED <<plan, conn, clientVars>>
        /\ \E w \in {"add", "cas"} : Goto(l, w)
    BY <1>4, Zenon DEF LoadSec, connVars
  <2> QED BY <2>1, HandlerKeeps, Zenon
<1>5. CASE CompareAndSwap(l)
  <2>1. /\ pc[l] = "cas" /\ on' = on /\ UNCHANGED <<plan, conn, clientVars>>
        /\ \E w \in {"swap", "add"} : Goto(l, w)
    BY <1>5, Zenon DEF CompareAndSwap, connVars
  <2> QED BY <2>1, HandlerKeeps, Zenon
<1>6. CASE AddCount(l)
  <2>1. /\ pc[l] = "add" /\ on' = on /\ UNCHANGED <<plan, conn, clientVars>>
        /\ \E w \in {"close", "poll"} : Goto(l, w)
    BY <1>6, Zenon DEF AddCount, Return, connVars
  <2> QED BY <2>1, HandlerKeeps
<1>7. CASE Swap(l)
  <2>1. /\ pc[l] = "swap" /\ on' = on /\ UNCHANGED <<plan, conn, clientVars>> /\ Goto(l, "store")
    BY <1>7, Zenon DEF Swap, connVars
  <2> QED BY <2>1, HandlerKeeps, Zenon
<1>8. CASE StoreLast(l)
  <2>1. /\ pc[l] = "store" /\ on' = on /\ UNCHANGED <<plan, conn, clientVars>>
        /\ \E w \in {"close", "poll"} : Goto(l, w)
    BY <1>8, Zenon DEF StoreLast, Return, connVars
  <2> QED BY <2>1, HandlerKeeps, Zenon
<1>9. ASSUME NEW c \in Clients, Traffic(l, c) PROVE Keeps
  <2>1. /\ pc[l] = "poll" /\ on' = [on EXCEPT ![l] = c] /\ UNCHANGED <<plan, conn, clientVars>>
        /\ Goto(l, "parse")
    BY <1>9, Zenon DEF Traffic
  <2> QED BY <2>1, HandlerKeeps, Zenon
<1> QED BY <1>1, <1>2, <1>3, <1>4, <1>5, <1>6, <1>7, <1>8, <1>9

\* Every step keeps the invariant.
LEMMA NextInv ==
    ASSUME IInv, [Next]_vars
    PROVE  IInv'
<1>0. Types
  BY DEF IInv
<1>6. ASSUME WorkerDone \/ Tick \/ \E l \in Loops : Register(l) \/ DialFail(l) PROVE IInv'
  <2>1. UNCHANGED <<plan, conn, clientVars, pc, on>>
    BY <1>6, Zenon DEF WorkerDone, Register, DialFail, Tick, connVars, loopVars
  <2> QED BY <1>0, <2>1, StillKeeps, KeepsInv, Zenon
<1>1. ASSUME NEW l \in Loops, Handle(l) PROVE IInv'
  <2>1. CASE Admit(l)
    BY <2>1, AdmitInv
  <2>2. CASE Reject(l)
    BY <2>2, RejectInv
  <2>3. ASSUME NEW c \in Clients, Close(l, c) PROVE IInv'
    BY <2>3, CloseInv
  <2>4. CASE \/ Parse(l) \/ Submit(l) \/ AddTotal(l) \/ LoadSec(l) \/ CompareAndSwap(l)
             \/ AddCount(l) \/ Swap(l) \/ StoreLast(l) \/ \E c \in Clients : Traffic(l, c)
    <3>1. Keeps
      BY <1>0, <2>4, HandleKeeps, Zenon
    <3> QED BY <3>1, KeepsInv, Zenon
  <2>5. CASE Register(l)
    BY <1>6, <2>5
  <2> QED BY <1>1, <2>1, <2>2, <2>3, <2>4, <2>5, Zenon DEF Handle
<1>2. ASSUME NEW l \in Loops, NEW c \in Clients, Open(l, c) PROVE IInv'
  BY <1>2, OpenInv
<1>3. ASSUME NEW l \in Loops, NEW c \in Clients, Close(l, c) PROVE IInv'
  BY <1>3, CloseInv
<1>4. ASSUME NEW n \in plan.limits, SetMaxClients(n) PROVE IInv'
  BY <1>4, SetMaxClientsInv
<1>5. ASSUME NEW c \in Clients, NEW n \in 1..Len(Stream(c)), Arrive(c, n) PROVE IInv'
  <2>1. UNCHANGED <<plan, conn, clientVars, pc, on>>
    BY <1>5, Zenon DEF Arrive, loopVars
  <2> QED BY <1>0, <2>1, StillKeeps, KeepsInv, Zenon
<1>7. CASE UNCHANGED vars
  <2>1. UNCHANGED <<plan, conn, clientVars, pc, on>>
    BY <1>7, Zenon DEF vars, connVars, loopVars
  <2> QED BY <1>0, <2>1, StillKeeps, KeepsInv, Zenon
<1> QED BY <1>1, <1>2, <1>3, <1>4, <1>5, <1>6, <1>7, Zenon DEF Next

\* The count, what the loops hold between onClientOpen's two steps, and the room
\* left are as the invariant says in every state.
THEOREM FrontendInvariance == Spec => []IInv
<1>1. Init => IInv
  BY InitInv
<1>2. IInv /\ [Next]_vars => IInv'
  BY NextInv
<1> QED BY <1>1, <1>2, PTL DEF Spec

\* At most max-clients clients are connected, but for one more per other loop
\* and one more per refused connection (onClientOpen, onClientClose).
THEOREM ClientsWithinLimit == Spec => []ClientsBounded
<1>1. IInv => ClientsBounded
  <2> SUFFICES ASSUME IInv, 0 \notin limits
               PROVE  Cardinality(OpenConns) <= Max(limits) + rejected + Cardinality(Loops) - 1
    BY DEF ClientsBounded, OpenConns
  <2> QED BY Numbers DEF RoomLeft
<1> QED BY <1>1, FrontendInvariance, PTL

===============================================================================
