-------------------------- MODULE BackendMuxProofs --------------------------
(***************************************************************************)
(* Proofs about the multiplexer, for any clients, nodes, loads and number  *)
(* of redirections: ASKING stays next to its request whatever the nodes    *)
(* answer; and while they do not use both MOVED and ASK, the entries of a  *)
(* connection match the commands on its wire and every client gets its own *)
(* replies in order, merged ones complete.                                 *)
(*                                                                         *)
(* The invariant has three layers: the connections (MuxInv), their entries *)
(* against the wire (WireInv), and the slots of the clients against the    *)
(* entries that will fill them (ReplyInv).  Each layer has lemmas about    *)
(* its operators, then one lemma per action.                               *)
(***************************************************************************)
EXTENDS BackendMux, TLAPS

------------------------------------------------------------------------------
\* The invariant: connections.

CmdType ==
    [op : {"req", "asking", "readonly"}, client : Clients, req : Nat, sub : 0..2, ask : BOOLEAN]

EntryType ==
    [client : Clients, idx : Nat, depth : Nat, cmd : CmdType, skip : BOOLEAN, asking : BOOLEAN]

ConnType ==
    [open : BOOLEAN, dialing : Seq(EntryType), pending : Seq(EntryType),
     writeBuf : Seq(CmdType), wire : Seq(CmdType), asked : BOOLEAN]

\* The reply for an entry that is not skipped goes to the slot of its request.
Owes(e) ==
    e.skip \/ (/\ ~e.asking /\ e.cmd.op = "req"
               /\ e.cmd.client = e.client /\ e.cmd.req = e.idx + 1)

AllOwe(s) == \A i \in 1..Len(s) : Owes(s[i])

\* Commands in which every ASKING is followed by its request and every deferred
\* request follows one; `asked` says that one came just before the first.
Paired(w, asked) ==
    /\ \A i \in 1..Len(w) : w[i].ask = IF i = 1 THEN asked ELSE w[i - 1].op = "asking"
    /\ Len(w) = 0 => ~asked
    /\ Len(w) > 0 => w[Len(w)].op # "asking"

ConnOK(m) ==
    /\ AllOwe(m.dialing) /\ AllOwe(m.pending)
    /\ Paired(m.wire, m.asked) /\ Paired(m.writeBuf, FALSE) /\ Paired(Wires(m.dialing), FALSE)

ConnsOK(m) == m \in [Addrs -> ConnType] /\ \A a \in Addrs : ConnOK(m[a])

\* The sub-requests whose replies a list of entries waits for, each once.
Key(e) == <<e.client, e.idx, e.cmd.sub>>

Keys(s) == {Key(s[i]) : i \in {j \in 1..Len(s) : ~s[j].skip}}

Once(s) == \A i, j \in 1..Len(s) : ~s[i].skip /\ ~s[j].skip /\ Key(s[i]) = Key(s[j]) => i = j

ConnKeys(m) == Keys(m.dialing) \cup Keys(m.pending)

OnceConn(c) ==
    Once(c.dialing) /\ Once(c.pending) /\ Keys(c.dialing) \cap Keys(c.pending) = {}

KeysApart(m) ==
    /\ \A a \in Addrs : OnceConn(m[a])
    /\ \A a, b \in Addrs : a # b => ConnKeys(m[a]) \cap ConnKeys(m[b]) = {}

Held(m) == UNION {ConnKeys(m[a]) : a \in Addrs}

\* An entry per command on the wire and in the buffer.
MatchedConn(c) == Wires(c.pending) = c.wire \o c.writeBuf

Matched(m) == \A a \in Addrs : MatchedConn(m[a])

Flushed(m) == \A a \in Addrs : m[a].writeBuf = <<>>

------------------------------------------------------------------------------
\* Lists of entries and commands.

\* x is s followed by t, by places.
Joined(x, s, t) ==
    /\ Len(x) = Len(s) + Len(t)
    /\ \A i \in 1..Len(s) : x[i] = s[i]
    /\ \A i \in 1..Len(t) : x[Len(s) + i] = t[i]

\* Concatenation, by places.
LEMMA Concat ==
    ASSUME NEW S, NEW s \in Seq(S), NEW t \in Seq(S)
    PROVE  /\ s \o t \in Seq(S) /\ Len(s) \in Nat /\ Len(t) \in Nat
           /\ Joined(s \o t, s, t)
  BY DEF Joined

\* A place of such a list is a place of one of the two.
LEMMA JoinedCases ==
    ASSUME NEW x, NEW s, NEW t, Len(s) \in Nat, Len(t) \in Nat, Joined(x, s, t), NEW i \in 1..Len(x)
    PROVE  \/ i \in 1..Len(s) /\ x[i] = s[i]
           \/ i - Len(s) \in 1..Len(t) /\ x[i] = t[i - Len(s)]
<1>1. CASE i <= Len(s)
  BY <1>1 DEF Joined
<1>2. CASE i > Len(s)
  <2>1. i - Len(s) \in 1..Len(t) /\ Len(s) + (i - Len(s)) = i
    BY <1>2 DEF Joined
  <2> QED BY <2>1, Zenon DEF Joined
<1> QED BY <1>1, <1>2

\* The same, as a predicate.
FromOne(x, s, t, i) ==
    \/ i \in 1..Len(s) /\ x[i] = s[i]
    \/ i - Len(s) \in 1..Len(t) /\ x[i] = t[i - Len(s)]

LEMMA JoinedFrom ==
    ASSUME NEW x, NEW s, NEW t, Len(s) \in Nat, Len(t) \in Nat, Joined(x, s, t), NEW i \in 1..Len(x)
    PROVE  FromOne(x, s, t, i)
  BY JoinedCases DEF FromOne

\* Two lists of the same length with the same elements are equal.
LEMMA SameSeq ==
    ASSUME NEW S, NEW s \in Seq(S), NEW t \in Seq(S), Len(s) = Len(t),
           \A i \in 1..Len(s) : s[i] = t[i]
    PROVE  s = t
  OBVIOUS

\* Append is concatenation.
LEMMA AppendConcat ==
    ASSUME NEW S, NEW s \in Seq(S), NEW e \in S
    PROVE  Append(s, e) = s \o <<e>> /\ <<e>> \in Seq(S)
  OBVIOUS

\* The rest of a list, by places.
LEMMA TailPlaces ==
    ASSUME NEW S, NEW s \in Seq(S), s # <<>>
    PROVE  /\ Tail(s) \in Seq(S) /\ Len(s) \in Nat /\ Len(s) > 0 /\ Len(Tail(s)) = Len(s) - 1
           /\ Head(s) = s[1] /\ Head(s) \in S
           /\ \A i \in 1..Len(Tail(s)) : Tail(s)[i] = s[i + 1]
  OBVIOUS

\* Concatenation of commands groups either way, and <<>> adds nothing.
LEMMA ConcatLaws ==
    ASSUME NEW s \in Seq(CmdType), NEW t \in Seq(CmdType), NEW u \in Seq(CmdType)
    PROVE  (s \o t) \o u = s \o (t \o u) /\ s \o <<>> = s
  OBVIOUS

\* The first command and the rest, when others follow.
LEMMA TailConcat ==
    ASSUME NEW w \in Seq(CmdType), NEW v \in Seq(CmdType), w # <<>>
    PROVE  w \o v # <<>> /\ Head(w \o v) = Head(w) /\ Tail(w \o v) = Tail(w) \o v
<1> DEFINE x == w \o v
           z == Tail(w)
           y == z \o v
           h == Head(w)
<1>1. /\ x \in Seq(CmdType) /\ Len(w) \in Nat /\ Len(v) \in Nat /\ Joined(x, w, v)
      /\ z \in Seq(CmdType) /\ Len(w) > 0 /\ Len(z) = Len(w) - 1 /\ h = w[1]
      /\ \A i \in 1..Len(z) : z[i] = w[i + 1]
  BY Concat, TailPlaces
<1>2. y \in Seq(CmdType) /\ Joined(y, z, v)
  BY <1>1, Concat, Zenon
<1> HIDE DEF x, y, z, h
<1>3. x # <<>> /\ Len(x) \in Nat /\ x[1] = w[1]
  BY <1>1 DEF Joined
<1>4. /\ Tail(x) \in Seq(CmdType) /\ Len(Tail(x)) = Len(x) - 1 /\ Head(x) = x[1]
      /\ \A i \in 1..Len(Tail(x)) : Tail(x)[i] = x[i + 1]
  BY <1>1, <1>3, TailPlaces
<1>5. Len(Tail(x)) = Len(y)
  BY <1>1, <1>2, <1>4 DEF Joined
<1>6. ASSUME NEW i \in 1..Len(y) PROVE Tail(x)[i] = y[i]
  <2>1. Tail(x)[i] = x[i + 1]
    BY <1>4, <1>5
  <2>2. CASE i \in 1..Len(z) /\ y[i] = z[i]
    <3>1. i + 1 \in 1..Len(w) /\ z[i] = w[i + 1]
      BY <1>1, <2>2
    <3> QED BY <1>1, <2>1, <2>2, <3>1 DEF Joined
  <2>3. CASE i - Len(z) \in 1..Len(v) /\ y[i] = v[i - Len(z)]
    <3>1. i + 1 = Len(w) + (i - Len(z))
      BY <1>1, <2>3
    <3>2. x[i + 1] = v[i - Len(z)]
      BY <1>1, <2>3, <3>1, Zenon DEF Joined
    <3> QED BY <2>1, <2>3, <3>2, Zenon
  <2>4. Len(z) \in Nat
    BY <1>1
  <2>5. \/ i \in 1..Len(z) /\ y[i] = z[i]
        \/ i - Len(z) \in 1..Len(v) /\ y[i] = v[i - Len(z)]
    <3>1. Len(z) \in Nat /\ Len(v) \in Nat /\ Joined(y, z, v)
      BY <1>1, <1>2, <2>4, Zenon
    <3> QED BY <3>1, JoinedCases
  <2> QED BY <2>2, <2>3, <2>5, Zenon
<1>7. Tail(x) = y
  BY <1>2, <1>4, <1>5, <1>6, SameSeq
<1> QED BY <1>1, <1>3, <1>4, <1>7 DEF x, y, z, h

\* The bytes of an entry are one command.
LEMMA WireType == ASSUME NEW e \in EntryType PROVE Wire(e) \in CmdType
  BY Zenon DEF Wire, EntryType, CmdType

\* The commands of a list of entries, by places.
LEMMA WiresPlaces ==
    ASSUME NEW s \in Seq(EntryType)
    PROVE  /\ Wires(s) \in Seq(CmdType) /\ Len(Wires(s)) = Len(s)
           /\ \A i \in 1..Len(s) : Wires(s)[i] = Wire(s[i])
<1>1. \A i \in 1..Len(s) : Wire(s[i]) \in CmdType
  BY WireType
<1>2. DOMAIN s = 1..Len(s) /\ Len(s) \in Nat
  OBVIOUS
<1>3. Wires(s) = [i \in 1..Len(s) |-> Wire(s[i])]
  BY <1>2 DEF Wires
<1> QED BY <1>1, <1>2, <1>3

\* The commands of two lists of entries, end to end.
LEMMA WiresConcat ==
    ASSUME NEW s \in Seq(EntryType), NEW t \in Seq(EntryType)
    PROVE  Wires(s \o t) = Wires(s) \o Wires(t)
<1> DEFINE x == s \o t
           y == Wires(s) \o Wires(t)
<1>1. x \in Seq(EntryType) /\ Len(s) \in Nat /\ Len(t) \in Nat /\ Joined(x, s, t)
  BY Concat
<1>2. /\ Wires(s) \in Seq(CmdType) /\ Len(Wires(s)) = Len(s)
      /\ Wires(t) \in Seq(CmdType) /\ Len(Wires(t)) = Len(t)
  BY WiresPlaces
<1>3. y \in Seq(CmdType) /\ Joined(y, Wires(s), Wires(t))
  BY <1>2, Concat
<1> HIDE DEF x, y
<1>4. Wires(x) \in Seq(CmdType) /\ Len(Wires(x)) = Len(x)
  BY <1>1, WiresPlaces
<1>5. Len(x) = Len(y) /\ Len(x) \in Nat
  BY <1>1, <1>2, <1>3 DEF Joined
<1>6. ASSUME NEW i \in 1..Len(x) PROVE Wires(x)[i] = y[i]
  <2>1. Wires(x)[i] = Wire(x[i])
    BY <1>1, WiresPlaces
  <2>2. CASE i \in 1..Len(s) /\ x[i] = s[i]
    <3>1. y[i] = Wires(s)[i]
      BY <1>2, <1>3, <2>2 DEF Joined
    <3>2. Wires(s)[i] = Wire(s[i])
      BY <2>2, WiresPlaces
    <3> QED BY <2>1, <2>2, <3>1, <3>2
  <2>3. CASE i - Len(s) \in 1..Len(t) /\ x[i] = t[i - Len(s)]
    <3>1. Len(s) + (i - Len(s)) = i
      BY <1>1, <1>5
    <3>2. y[i] = Wires(t)[i - Len(s)]
      BY <1>2, <1>3, <2>3, <3>1 DEF Joined
    <3>3. Wires(t)[i - Len(s)] = Wire(t[i - Len(s)])
      BY <2>3, WiresPlaces
    <3> QED BY <2>1, <2>3, <3>2, <3>3
  <2> QED BY <1>1, <2>2, <2>3, JoinedCases
<1>7. Wires(x) = y
  BY <1>3, <1>4, <1>5, <1>6, SameSeq
<1> QED BY <1>7 DEF x, y

\* The commands of the rest of a list.
LEMMA WiresTail ==
    ASSUME NEW s \in Seq(EntryType), s # <<>>
    PROVE  Wires(Tail(s)) = Tail(Wires(s)) /\ Wires(s) # <<>> /\ Head(Wires(s)) = Wire(Head(s))
<1>1. /\ Tail(s) \in Seq(EntryType) /\ Len(s) \in Nat /\ Len(s) > 0 /\ Len(Tail(s)) = Len(s) - 1
      /\ Head(s) = s[1] /\ \A i \in 1..Len(Tail(s)) : Tail(s)[i] = s[i + 1]
  BY TailPlaces
<1>2. /\ Wires(s) \in Seq(CmdType) /\ Len(Wires(s)) = Len(s)
      /\ \A i \in 1..Len(s) : Wires(s)[i] = Wire(s[i])
      /\ Wires(Tail(s)) \in Seq(CmdType) /\ Len(Wires(Tail(s))) = Len(s) - 1
      /\ \A i \in 1..Len(Tail(s)) : Wires(Tail(s))[i] = Wire(Tail(s)[i])
  BY <1>1, WiresPlaces, Zenon
<1>3. Wires(s) # <<>>
  BY <1>1, <1>2
<1>4. /\ Tail(Wires(s)) \in Seq(CmdType) /\ Len(Tail(Wires(s))) = Len(s) - 1
      /\ Head(Wires(s)) = Wires(s)[1]
      /\ \A i \in 1..Len(Tail(Wires(s))) : Tail(Wires(s))[i] = Wires(s)[i + 1]
  BY <1>2, <1>3, TailPlaces
<1>5. \A i \in 1..(Len(s) - 1) : Wires(Tail(s))[i] = Tail(Wires(s))[i]
  BY <1>1, <1>2, <1>4
<1> QED BY <1>1, <1>2, <1>3, <1>4, <1>5, SameSeq

\* Pairs stay together when commands are added that bring their own ASKING.
LEMMA PairedConcat ==
    ASSUME NEW w \in Seq(CmdType), NEW v \in Seq(CmdType), NEW k \in BOOLEAN,
           Paired(w, k), Paired(v, FALSE)
    PROVE  Paired(w \o v, k)
<1> DEFINE x == w \o v
<1>1. Len(w) \in Nat /\ Len(v) \in Nat /\ Joined(x, w, v)
  BY Concat
<1> HIDE DEF x
<1>2. ASSUME NEW i \in 1..Len(x)
      PROVE  x[i].ask = IF i = 1 THEN k ELSE x[i - 1].op = "asking"
  <2>1. CASE i \in 1..Len(w) /\ x[i] = w[i]
    <3>1. w[i].ask = IF i = 1 THEN k ELSE w[i - 1].op = "asking"
      BY <2>1 DEF Paired
    <3>2. i # 1 => x[i - 1] = w[i - 1]
      <4>1. i # 1 => i - 1 \in 1..Len(w)
        BY <1>1, <2>1
      <4> QED BY <1>1, <4>1 DEF Joined
    <3> QED BY <2>1, <3>1, <3>2
  <2>2. CASE i - Len(w) \in 1..Len(v) /\ x[i] = v[i - Len(w)]
    <3> DEFINE j == i - Len(w)
    <3>1. j \in 1..Len(v) /\ x[i] = v[j] /\ i \in Nat /\ i = Len(w) + j
      BY <1>1, <2>2 DEF Joined
    <3> HIDE DEF j
    <3>2. v[j].ask = IF j = 1 THEN FALSE ELSE v[j - 1].op = "asking"
      BY <3>1, Zenon DEF Paired
    <3>3. CASE j # 1
      <4>1. j - 1 \in 1..Len(v) /\ i - 1 = Len(w) + (j - 1) /\ i # 1
        BY <1>1, <3>1, <3>3
      <4>2. x[i - 1] = v[j - 1]
        BY <1>1, <4>1 DEF Joined
      <4> QED BY <3>1, <3>2, <3>3, <4>1, <4>2
    <3>4. CASE j = 1 /\ Len(w) > 0
      <4>1. i - 1 = Len(w) /\ i # 1 /\ Len(w) \in 1..Len(w)
        BY <1>1, <3>1, <3>4
      <4>2. x[i - 1] = w[Len(w)] /\ w[Len(w)].op # "asking"
        BY <1>1, <3>4, <4>1 DEF Joined, Paired
      <4> QED BY <3>1, <3>2, <3>4, <4>1, <4>2, Zenon
    <3>5. CASE j = 1 /\ Len(w) = 0
      <4>1. i = 1 /\ ~k
        BY <3>1, <3>5 DEF Paired
      <4> QED BY <3>1, <3>2, <3>5, <4>1, Zenon
    <3> QED BY <1>1, <3>3, <3>4, <3>5
  <2> QED BY <1>1, <2>1, <2>2, JoinedCases
<1>3. Len(x) = 0 => ~k
  BY <1>1 DEF Paired, Joined
<1>4. Len(x) > 0 => x[Len(x)].op # "asking"
  <2>1. CASE Len(v) > 0
    <3>1. Len(v) \in 1..Len(v) /\ Len(x) = Len(w) + Len(v)
      BY <1>1, <2>1 DEF Joined
    <3>2. x[Len(x)] = v[Len(v)]
      BY <1>1, <3>1 DEF Joined
    <3> QED BY <2>1, <3>2 DEF Paired
  <2>2. CASE Len(v) = 0 /\ Len(w) > 0
    <3>1. Len(w) \in 1..Len(w) /\ Len(x) = Len(w)
      BY <1>1, <2>2 DEF Joined
    <3>2. x[Len(x)] = w[Len(w)]
      BY <1>1, <3>1 DEF Joined
    <3> QED BY <2>2, <3>2 DEF Paired
  <2>3. CASE Len(v) = 0 /\ Len(w) = 0
    BY <1>1, <2>3 DEF Joined
  <2> QED BY <1>1, <2>1, <2>2, <2>3
<1>5. Paired(x, k)
  BY <1>2, <1>3, <1>4 DEF Paired
<1> QED BY <1>5 DEF x

\* Reading the reply of a command leaves `asked` true just after an ASKING.
LEMMA PairedTail ==
    ASSUME NEW w \in Seq(CmdType), w # <<>>, NEW k \in BOOLEAN, Paired(w, k)
    PROVE  Paired(Tail(w), Head(w).op = "asking")
<1> DEFINE x == Tail(w)
           h == Head(w)
<1>1. /\ Len(w) \in Nat /\ Len(w) > 0 /\ Len(x) = Len(w) - 1 /\ h = w[1]
      /\ \A i \in 1..Len(x) : x[i] = w[i + 1]
  BY TailPlaces
<1> HIDE DEF x, h
<1>2. Paired(x, h.op = "asking")
  <2>1. ASSUME NEW i \in 1..Len(x)
        PROVE  x[i].ask = IF i = 1 THEN h.op = "asking" ELSE x[i - 1].op = "asking"
    <3>1. /\ i + 1 \in 1..Len(w) /\ i + 1 # 1 /\ (i + 1) - 1 = i
          /\ i # 1 => i - 1 \in 1..Len(x) /\ (i - 1) + 1 = i
      BY <1>1
    <3>2. x[i] = w[i + 1] /\ w[i + 1].ask = (w[i].op = "asking")
      BY <1>1, <3>1, Zenon DEF Paired
    <3>3. i # 1 => x[i - 1] = w[i]
      BY <1>1, <3>1
    <3> QED BY <1>1, <3>2, <3>3
  <2>2. w[Len(w)].op # "asking"
    BY <1>1 DEF Paired
  <2>3. Len(x) = 0 => ~(h.op = "asking")
    <3>1. Len(x) = 0 => Len(w) = 1
      BY <1>1
    <3> QED BY <1>1, <2>2, <3>1, Zenon
  <2>4. Len(x) > 0 => x[Len(x)].op # "asking"
    <3>1. Len(x) > 0 => Len(x) \in 1..Len(x) /\ Len(x) + 1 = Len(w)
      BY <1>1
    <3> QED BY <1>1, <2>2, <3>1
  <2> QED BY <2>1, <2>3, <2>4 DEF Paired
<1> QED BY <1>2 DEF x, h

------------------------------------------------------------------------------
\* What lists of entries wait for.

\* What it is to be waited for.
LEMMA InKeys == ASSUME NEW s, NEW k
                PROVE  k \in Keys(s) <=> \E i \in 1..Len(s) : ~s[i].skip /\ Key(s[i]) = k
  BY Zenon DEF Keys

\* Entries put after others: what they wait for is added, and each is still
\* there once if they had nothing in common.
LEMMA KeysJoined ==
    ASSUME NEW x, NEW s, NEW t, Len(s) \in Nat, Len(t) \in Nat, Joined(x, s, t)
    PROVE  /\ Keys(x) = Keys(s) \cup Keys(t)
           /\ AllOwe(s) /\ AllOwe(t) => AllOwe(x)
           /\ Once(s) /\ Once(t) /\ Keys(s) \cap Keys(t) = {} => Once(x)
<1>1. \A i \in 1..Len(x) : \/ i \in 1..Len(s) /\ x[i] = s[i]
                           \/ i - Len(s) \in 1..Len(t) /\ x[i] = t[i - Len(s)]
  BY JoinedCases
<1>2. \A i \in 1..Len(s) : i \in 1..Len(x) /\ x[i] = s[i]
  BY DEF Joined
<1>3. \A i \in 1..Len(t) : Len(s) + i \in 1..Len(x) /\ x[Len(s) + i] = t[i]
  BY DEF Joined
<1>4. Keys(x) = Keys(s) \cup Keys(t)
  <2>1. ASSUME NEW k \in Keys(x) PROVE k \in Keys(s) \/ k \in Keys(t)
    <3>1. PICK i \in 1..Len(x) : ~x[i].skip /\ Key(x[i]) = k
      BY <2>1, InKeys, Zenon
    <3> QED BY <1>1, <3>1, InKeys, Zenon
  <2>2. ASSUME NEW k \in Keys(s) PROVE k \in Keys(x)
    <3>1. PICK i \in 1..Len(s) : ~s[i].skip /\ Key(s[i]) = k
      BY <2>2, InKeys, Zenon
    <3> QED BY <1>2, <3>1, InKeys, Zenon
  <2>3. ASSUME NEW k \in Keys(t) PROVE k \in Keys(x)
    <3>1. PICK i \in 1..Len(t) : ~t[i].skip /\ Key(t[i]) = k
      BY <2>3, InKeys, Zenon
    <3> QED BY <1>3, <3>1, InKeys, Zenon
  <2> QED BY <2>1, <2>2, <2>3, Zenon
<1>5. AllOwe(s) /\ AllOwe(t) => AllOwe(x)
  BY <1>1, Zenon DEF AllOwe
<1>6. ASSUME Once(s), Once(t), Keys(s) \cap Keys(t) = {},
             NEW i \in 1..Len(x), NEW j \in 1..Len(x),
             ~x[i].skip, ~x[j].skip, Key(x[i]) = Key(x[j])
      PROVE  i = j
  <2>1. CASE i \in 1..Len(s) /\ x[i] = s[i] /\ j \in 1..Len(s) /\ x[j] = s[j]
    BY <1>6, <2>1, Zenon DEF Once
  <2>2. CASE i \in 1..Len(s) /\ x[i] = s[i] /\ j - Len(s) \in 1..Len(t) /\ x[j] = t[j - Len(s)]
    <3>1. Key(x[i]) \in Keys(s) /\ Key(x[j]) \in Keys(t)
      BY <1>6, <2>2, InKeys, Zenon
    <3> QED BY <1>6, <3>1, Zenon
  <2>3. CASE j \in 1..Len(s) /\ x[j] = s[j] /\ i - Len(s) \in 1..Len(t) /\ x[i] = t[i - Len(s)]
    <3>1. Key(x[j]) \in Keys(s) /\ Key(x[i]) \in Keys(t)
      BY <1>6, <2>3, InKeys, Zenon
    <3> QED BY <1>6, <3>1, Zenon
  <2>4. CASE /\ i - Len(s) \in 1..Len(t) /\ x[i] = t[i - Len(s)]
             /\ j - Len(s) \in 1..Len(t) /\ x[j] = t[j - Len(s)]
    <3>1. i - Len(s) = j - Len(s)
      BY <1>6, <2>4, Zenon DEF Once
    <3> QED BY <3>1
  <2> QED BY <1>1, <2>1, <2>2, <2>3, <2>4, Zenon
<1> QED BY <1>4, <1>5, <1>6, Zenon DEF Once

\* The entry of a reply that was read is waited for no more.
LEMMA KeysTail ==
    ASSUME NEW s \in Seq(EntryType), s # <<>>, AllOwe(s)
    PROVE  /\ AllOwe(Tail(s)) /\ Owes(Head(s))
           /\ Keys(Tail(s)) \subseteq Keys(s)
           /\ ~Head(s).skip => Key(Head(s)) \in Keys(s)
           /\ Once(s) => Once(Tail(s)) /\ (~Head(s).skip => Key(Head(s)) \notin Keys(Tail(s)))
<1> DEFINE x == Tail(s)
           h == Head(s)
<1>1. /\ Len(s) \in Nat /\ Len(s) > 0 /\ Len(x) = Len(s) - 1
      /\ h = s[1] /\ \A i \in 1..Len(x) : x[i] = s[i + 1]
  BY TailPlaces
<1> HIDE DEF x, h
<1>2. 1 \in 1..Len(s) /\ \A i \in 1..Len(x) : i + 1 \in 1..Len(s) /\ x[i] = s[i + 1] /\ i + 1 # 1
  BY <1>1
<1>3. AllOwe(x) /\ Owes(h)
  BY <1>1, <1>2, Zenon DEF AllOwe
<1>4. ASSUME NEW k \in Keys(x) PROVE k \in Keys(s)
  <2>1. PICK i \in 1..Len(x) : ~x[i].skip /\ Key(x[i]) = k
    BY <1>4, InKeys, Zenon
  <2> QED BY <1>2, <2>1, InKeys, Zenon
<1>5. ~h.skip => Key(h) \in Keys(s)
  BY <1>1, <1>2, InKeys, Zenon
<1>6. ASSUME Once(s) PROVE Once(x)
  <2>1. ASSUME NEW i \in 1..Len(x), NEW j \in 1..Len(x),
               ~x[i].skip, ~x[j].skip, Key(x[i]) = Key(x[j])
        PROVE  i = j
    <3>1. i + 1 = j + 1
      BY <1>2, <1>6, <2>1, Zenon DEF Once
    <3> QED BY <3>1
  <2> QED BY <2>1, Zenon DEF Once
<1>7. ASSUME Once(s), ~h.skip, Key(h) \in Keys(x) PROVE FALSE
  <2>1. PICK i \in 1..Len(x) : ~x[i].skip /\ Key(x[i]) = Key(h)
    BY <1>7, InKeys, Zenon
  <2>2. i + 1 = 1
    BY <1>1, <1>2, <1>7, <2>1, Zenon DEF Once
  <2> QED BY <1>2, <2>2
<1>8. Keys(x) \subseteq Keys(s)
  BY <1>4, Zenon
<1>9. Once(s) => Once(x) /\ (~h.skip => Key(h) \notin Keys(x))
  BY <1>6, <1>7, Zenon
<1> QED BY <1>3, <1>5, <1>8, <1>9 DEF x, h

\* Nothing waits in an empty list.
LEMMA EmptyList ==
    /\ <<>> \in Seq(EntryType) /\ <<>> \in Seq(CmdType) /\ Keys(<<>>) = {} /\ Once(<<>>)
    /\ AllOwe(<<>>) /\ Paired(<<>>, FALSE) /\ Wires(<<>>) = <<>> /\ <<>> \o <<>> = <<>>
<1>1. Len(<<>>) = 0 /\ 1..0 = {}
  OBVIOUS
<1>2. Keys(<<>>) = {}
  BY <1>1, InKeys, Zenon
<1>3. Once(<<>>) /\ AllOwe(<<>>)
  BY <1>1, Zenon DEF Once, AllOwe
<1>4. Paired(<<>>, FALSE)
  BY <1>1 DEF Paired
<1>5. <<>> \in Seq(EntryType) /\ <<>> \in Seq(CmdType) /\ <<>> \o <<>> = <<>>
  OBVIOUS
<1>6. Wires(<<>>) = <<>>
  <2>1. Wires(<<>>) \in Seq(CmdType) /\ Len(Wires(<<>>)) = Len(<<>>)
    BY <1>5, WiresPlaces, Zenon
  <2> HIDE DEF Wires
  <2> QED BY <1>1, <2>1
<1> QED BY <1>2, <1>3, <1>4, <1>5, <1>6, Zenon

\* One command that neither is ASKING nor needs it.
LEMMA PairedOne ==
    ASSUME NEW w, Len(w) = 1, w[1].ask = FALSE, w[1].op # "asking"
    PROVE  Paired(w, FALSE)
<1>1. 1..Len(w) = {1} /\ ~(Len(w) = 0)
  OBVIOUS
<1>2. \A i \in 1..Len(w) : w[i].ask = IF i = 1 THEN FALSE ELSE w[i - 1].op = "asking"
  BY <1>1, Zenon
<1> QED BY <1>1, <1>2, Zenon DEF Paired

\* ASKING and the request it is for.
LEMMA PairedTwo ==
    ASSUME NEW w, Len(w) = 2, w[1].ask = FALSE, w[1].op = "asking",
           w[2].ask = TRUE, w[2].op # "asking"
    PROVE  Paired(w, FALSE)
<1>1. 1..Len(w) = {1, 2} /\ ~(Len(w) = 0) /\ 2 - 1 = 1 /\ 2 # 1
  OBVIOUS
<1>2. w[2].ask = (w[2 - 1].op = "asking")
  BY <1>1, Zenon
<1>3. \A i \in 1..Len(w) : w[i].ask = IF i = 1 THEN FALSE ELSE w[i - 1].op = "asking"
  BY <1>1, <1>2, Zenon
<1> QED BY <1>1, <1>3, Zenon DEF Paired

\* Entries sent together for one sub-request: the request, or ASKING and the
\* request; or none (READONLY).
Packet(t, ks) ==
    /\ t \in Seq(EntryType) /\ AllOwe(t) /\ Paired(Wires(t), FALSE)
    /\ Keys(t) = ks /\ Once(t)

\* send puts out a request that needs no ASKING.
LEMMA OnePacket ==
    ASSUME NEW e \in EntryType, Owes(e), ~e.skip, ~e.cmd.ask
    PROVE  Packet(<<e>>, {Key(e)}) /\ Wires(<<e>>) = <<Wire(e)>>
<1> DEFINE t == <<e>>
<1>1. t \in Seq(EntryType) /\ Len(t) = 1 /\ t[1] = e
  OBVIOUS
<1> HIDE DEF t
<1>2. Wires(t) \in Seq(CmdType) /\ Len(Wires(t)) = 1 /\ Wires(t)[1] = Wire(e)
  <2>1. 1 \in 1..Len(t)
    BY <1>1
  <2> QED BY <1>1, <2>1, WiresPlaces
<1>3. Wires(t) = <<Wire(e)>>
  BY <1>2
<1>4. Wire(e) = e.cmd /\ e.cmd.op = "req" /\ e.cmd.ask = FALSE
  BY DEF Wire, Owes, EntryType, CmdType
<1>5. Paired(Wires(t), FALSE)
  BY <1>2, <1>4, PairedOne, Zenon
<1>6. 1..Len(t) = {1}
  BY <1>1
<1>7. AllOwe(t) /\ Once(t)
  BY <1>1, <1>6, Zenon DEF AllOwe, Once
<1>8. Keys(t) = {Key(e)}
  <2>1. ASSUME NEW k PROVE k \in Keys(t) <=> k = Key(e)
    BY <1>1, <1>6, InKeys, Zenon
  <2> QED BY <2>1, Zenon
<1>9. Packet(t, {Key(e)})
  BY <1>1, <1>5, <1>7, <1>8, Zenon DEF Packet
<1> QED BY <1>3, <1>9 DEF t

\* The two entries of sendAsk.
Deferred(e) == [e EXCEPT !.cmd.ask = TRUE]
Sentinel(e) == [Deferred(e) EXCEPT !.skip = TRUE, !.asking = TRUE]

\* sendAsk puts out ASKING and the request.
LEMMA AskPacket ==
    ASSUME NEW e \in EntryType, Owes(e), ~e.skip
    PROVE  /\ Packet(<<Sentinel(e), Deferred(e)>>, {Key(e)})
           /\ Wires(<<Sentinel(e), Deferred(e)>>) = <<Wire(Sentinel(e)), Wire(Deferred(e))>>
<1> DEFINE d == Deferred(e)
           n == Sentinel(e)
           t == <<n, d>>
<1>1. /\ d \in EntryType /\ ~d.skip /\ Owes(d) /\ Key(d) = Key(e)
      /\ Wire(d).op = "req" /\ Wire(d).ask = TRUE
  BY Zenon DEF Deferred, EntryType, CmdType, Owes, Key, Wire
<1>2. n \in EntryType /\ n.skip /\ Owes(n) /\ Wire(n).op = "asking" /\ Wire(n).ask = FALSE
  BY Zenon DEF Deferred, Sentinel, EntryType, CmdType, Owes, Wire
<1> HIDE DEF d, n
<1>3. t \in Seq(EntryType) /\ Len(t) = 2 /\ t[1] = n /\ t[2] = d
  BY <1>1, <1>2
<1> HIDE DEF t
<1>4. /\ Wires(t) \in Seq(CmdType) /\ Len(Wires(t)) = 2
      /\ Wires(t)[1] = Wire(n) /\ Wires(t)[2] = Wire(d)
  <2>1. 1 \in 1..Len(t) /\ 2 \in 1..Len(t)
    BY <1>3
  <2> QED BY <1>3, <2>1, WiresPlaces
<1>5. Wires(t) = <<Wire(n), Wire(d)>>
  BY <1>4
<1>6. Paired(Wires(t), FALSE)
  BY <1>1, <1>2, <1>4, PairedTwo, Zenon
<1>7. 1..Len(t) = {1, 2}
  BY <1>3
<1>8. AllOwe(t) /\ Once(t)
  BY <1>1, <1>2, <1>3, <1>7, Zenon DEF AllOwe, Once
<1>9. Keys(t) = {Key(e)}
  <2>1. Key(e) \in Keys(t)
    BY <1>1, <1>3, <1>7, InKeys, Zenon
  <2>2. ASSUME NEW k \in Keys(t) PROVE k = Key(e)
    <3>1. PICK i \in {1, 2} : ~t[i].skip /\ Key(t[i]) = k
      BY <1>7, <2>2, InKeys, Zenon
    <3>2. t[i] = d
      BY <1>2, <1>3, <3>1, Zenon
    <3> QED BY <1>1, <3>1, <3>2, Zenon
  <2> QED BY <2>1, <2>2, Zenon
<1>10. Packet(t, {Key(e)})
  BY <1>3, <1>6, <1>8, <1>9, Zenon DEF Packet
<1> QED BY <1>5, <1>10 DEF t, d, n

\* READONLY, before the queue of a dial.
LEMMA ReadonlyPacket ==
    ASSUME NEW e \in EntryType
    PROVE  Packet(<<Readonly(e)>>, {})
<1> DEFINE r == Readonly(e)
           t == <<r>>
<1>1. r \in EntryType /\ r.skip /\ Owes(r) /\ Wire(r).op = "readonly" /\ Wire(r).ask = FALSE
  BY Zenon DEF Readonly, EntryType, CmdType, Owes, Wire
<1> HIDE DEF r
<1>2. t \in Seq(EntryType) /\ Len(t) = 1 /\ t[1] = r
  BY <1>1
<1> HIDE DEF t
<1>3. Wires(t) \in Seq(CmdType) /\ Len(Wires(t)) = 1 /\ Wires(t)[1] = Wire(r)
  <2>1. 1 \in 1..Len(t)
    BY <1>2
  <2> QED BY <1>2, <2>1, WiresPlaces
<1>4. Paired(Wires(t), FALSE)
  BY <1>1, <1>3, PairedOne, Zenon
<1>5. 1..Len(t) = {1}
  BY <1>2
<1>6. AllOwe(t) /\ Once(t)
  BY <1>1, <1>2, <1>5, Zenon DEF AllOwe, Once
<1>7. Keys(t) = {}
  BY <1>1, <1>2, <1>5, InKeys, Zenon
<1>8. Packet(t, {})
  BY <1>2, <1>4, <1>6, <1>7, Zenon DEF Packet
<1> QED BY <1>8 DEF t, r

------------------------------------------------------------------------------
\* What send, sendAsk and the flush do to the connections.

\* c1 is connection c0 with the entries of t: in line, their bytes buffered or
\* written at once; or queued for the dial.
Added(c0, c1, t) ==
    \/ /\ c1.dialing = c0.dialing /\ c1.pending = c0.pending \o t /\ c1.asked = c0.asked
       /\ \/ c1.wire = c0.wire /\ c1.writeBuf = c0.writeBuf \o Wires(t)
          \/ c1.wire = c0.wire \o Wires(t) /\ c1.writeBuf = c0.writeBuf
    \/ /\ c1.dialing = c0.dialing \o t /\ c1.pending = c0.pending /\ c1.asked = c0.asked
       /\ c1.wire = c0.wire /\ c1.writeBuf = c0.writeBuf

AddsTo(m, n, a, t) ==
    /\ n \in [Addrs -> ConnType]
    /\ \A b \in Addrs : b # a => n[b] = m[b]
    /\ Added(m[a], n[a], t)

\* send adds its one entry; nothing is written before the flush.
LEMMA SendAdds ==
    ASSUME NEW m \in [Addrs -> ConnType], NEW a \in Addrs, NEW e \in EntryType,
           Wires(<<e>>) = <<Wire(e)>>
    PROVE  AddsTo(m, Send(m, a, e), a, <<e>>) /\ Send(m, a, e)[a].wire = m[a].wire
<1> DEFINE c == m[a]
           n == Send(m, a, e)
           p == Append(c.pending, e)
           w == Append(c.writeBuf, Wire(e))
           d == Append(c.dialing, e)
<1>1. c \in ConnType /\ Wire(e) \in CmdType
  BY WireType
<1>2. /\ c.pending \in Seq(EntryType) /\ c.dialing \in Seq(EntryType)
      /\ c.writeBuf \in Seq(CmdType) /\ c.wire \in Seq(CmdType)
  BY <1>1 DEF ConnType
<1>3. /\ p = c.pending \o <<e>> /\ p \in Seq(EntryType)
      /\ d = c.dialing \o <<e>> /\ d \in Seq(EntryType)
      /\ w = c.writeBuf \o <<Wire(e)>> /\ w \in Seq(CmdType)
  <2>1. /\ p = c.pending \o <<e>> /\ d = c.dialing \o <<e>> /\ w = c.writeBuf \o <<Wire(e)>>
        /\ <<e>> \in Seq(EntryType) /\ <<Wire(e)>> \in Seq(CmdType)
    BY <1>1, <1>2, AppendConcat, Zenon
  <2> HIDE DEF p, d, w
  <2>2. /\ c.pending \o <<e>> \in Seq(EntryType) /\ c.dialing \o <<e>> \in Seq(EntryType)
        /\ c.writeBuf \o <<Wire(e)>> \in Seq(CmdType)
    BY <1>2, <2>1, Concat
  <2> QED BY <2>1, <2>2, Zenon
<1>4. n = [m EXCEPT ![a] = IF c.open THEN [c EXCEPT !.pending = p, !.writeBuf = w]
                                     ELSE [c EXCEPT !.dialing = d]]
  <2>1. CASE c.open
    BY <2>1, Zenon DEF Send
  <2>2. CASE ~c.open
    BY <2>2, Zenon DEF Send
  <2> QED BY <2>1, <2>2, Zenon
<1> HIDE DEF p, w, d
<1>5. /\ [c EXCEPT !.pending = p, !.writeBuf = w] \in ConnType
      /\ [c EXCEPT !.dialing = d] \in ConnType
  BY <1>1, <1>3, Zenon DEF ConnType
<1>6. n \in [Addrs -> ConnType] /\ \A b \in Addrs : b # a => n[b] = m[b]
  BY <1>4, <1>5
<1>7. n[a] = IF c.open THEN [c EXCEPT !.pending = p, !.writeBuf = w] ELSE [c EXCEPT !.dialing = d]
  BY <1>4
<1>8. \/ /\ n[a].dialing = c.dialing /\ n[a].pending = p /\ n[a].asked = c.asked
         /\ n[a].wire = c.wire /\ n[a].writeBuf = w
      \/ /\ n[a].dialing = d /\ n[a].pending = c.pending /\ n[a].asked = c.asked
         /\ n[a].wire = c.wire /\ n[a].writeBuf = c.writeBuf
  <2>1. CASE c.open
    BY <1>1, <1>7, <2>1 DEF ConnType
  <2>2. CASE ~c.open
    BY <1>1, <1>7, <2>2 DEF ConnType
  <2> QED BY <2>1, <2>2, Zenon
<1>9. Added(c, n[a], <<e>>) /\ n[a].wire = c.wire
  BY <1>3, <1>8, Zenon DEF Added
<1> QED BY <1>6, <1>9, Zenon DEF AddsTo

\* sendAsk adds the sentinel and the request; the write buffer is passed by.
LEMMA SendAskAdds ==
    ASSUME NEW m \in [Addrs -> ConnType], NEW a \in Addrs, NEW e \in EntryType,
           NEW t, t = <<Sentinel(e), Deferred(e)>>, t \in Seq(EntryType),
           Wires(t) = <<Wire(Sentinel(e)), Wire(Deferred(e))>>
    PROVE  AddsTo(m, SendAsk(m, a, e), a, t) /\ SendAsk(m, a, e)[a].writeBuf = m[a].writeBuf
<1> DEFINE c == m[a]
           n == SendAsk(m, a, e)
           p == c.pending \o t
           w == c.wire \o Wires(t)
           d == c.dialing \o t
<1>1. c \in ConnType /\ Wires(t) \in Seq(CmdType)
  BY WiresPlaces, Zenon
<1>2. /\ c.pending \in Seq(EntryType) /\ c.dialing \in Seq(EntryType)
      /\ c.writeBuf \in Seq(CmdType) /\ c.wire \in Seq(CmdType)
  BY <1>1 DEF ConnType
<1>3. p \in Seq(EntryType) /\ d \in Seq(EntryType) /\ w \in Seq(CmdType)
  BY <1>1, <1>2, Concat
<1>4. n = [m EXCEPT ![a] = IF c.open THEN [c EXCEPT !.pending = p, !.wire = w]
                                     ELSE [c EXCEPT !.dialing = d]]
  <2>1. CASE c.open
    BY <2>1, Zenon DEF SendAsk, Sentinel, Deferred
  <2>2. CASE ~c.open
    BY <2>2, Zenon DEF SendAsk, Sentinel, Deferred
  <2> QED BY <2>1, <2>2, Zenon
<1> HIDE DEF p, w, d
<1>5. /\ [c EXCEPT !.pending = p, !.wire = w] \in ConnType
      /\ [c EXCEPT !.dialing = d] \in ConnType
  BY <1>1, <1>3, Zenon DEF ConnType
<1>6. n \in [Addrs -> ConnType] /\ \A b \in Addrs : b # a => n[b] = m[b]
  BY <1>4, <1>5
<1>7. n[a] = IF c.open THEN [c EXCEPT !.pending = p, !.wire = w] ELSE [c EXCEPT !.dialing = d]
  BY <1>4
<1>8. \/ /\ n[a].dialing = c.dialing /\ n[a].pending = p /\ n[a].asked = c.asked
         /\ n[a].wire = w /\ n[a].writeBuf = c.writeBuf
      \/ /\ n[a].dialing = d /\ n[a].pending = c.pending /\ n[a].asked = c.asked
         /\ n[a].wire = c.wire /\ n[a].writeBuf = c.writeBuf
  <2>1. CASE c.open
    BY <1>1, <1>7, <2>1 DEF ConnType
  <2>2. CASE ~c.open
    BY <1>1, <1>7, <2>2 DEF ConnType
  <2> QED BY <2>1, <2>2, Zenon
<1>9. Added(c, n[a], t) /\ n[a].writeBuf = c.writeBuf
  BY <1>8, Zenon DEF Added, p, w, d
<1> QED BY <1>6, <1>9, Zenon DEF AddsTo

\* A connection stays in order when a packet is added to it.
LEMMA AddedOK ==
    ASSUME NEW c \in ConnType, NEW n \in ConnType, NEW t, NEW ks,
           Packet(t, ks), Added(c, n, t), ConnOK(c)
    PROVE  ConnOK(n)
<1>1. /\ t \in Seq(EntryType) /\ Wires(t) \in Seq(CmdType) /\ AllOwe(t) /\ Paired(Wires(t), FALSE)
      /\ c.pending \in Seq(EntryType) /\ c.dialing \in Seq(EntryType)
      /\ c.writeBuf \in Seq(CmdType) /\ c.wire \in Seq(CmdType) /\ c.asked \in BOOLEAN
      /\ Wires(c.dialing) \in Seq(CmdType)
  BY WiresPlaces, Zenon DEF Packet, ConnType
<1>2. AllOwe(c.pending \o t) /\ AllOwe(c.dialing \o t)
  <2>1. AllOwe(c.pending \o t)
    BY <1>1, Concat, KeysJoined DEF ConnOK
  <2>2. AllOwe(c.dialing \o t)
    BY <1>1, Concat, KeysJoined DEF ConnOK
  <2> QED BY <2>1, <2>2
<1>3. /\ Paired(c.wire \o Wires(t), c.asked) /\ Paired(c.writeBuf \o Wires(t), FALSE)
      /\ Paired(Wires(c.dialing) \o Wires(t), FALSE)
  BY <1>1, PairedConcat, Zenon DEF ConnOK
<1>4. Wires(c.dialing \o t) = Wires(c.dialing) \o Wires(t)
  BY <1>1, WiresConcat, Zenon
<1> QED BY <1>2, <1>3, <1>4, Zenon DEF Added, ConnOK

\* Then it waits for the packet's reply too.
LEMMA AddedKeys ==
    ASSUME NEW c \in ConnType, NEW n \in ConnType, NEW t, NEW ks,
           Packet(t, ks), Added(c, n, t)
    PROVE  /\ ConnKeys(n) = ConnKeys(c) \cup ks
           /\ OnceConn(c) /\ ks \cap ConnKeys(c) = {} => OnceConn(n)
<1>1. /\ t \in Seq(EntryType) /\ Keys(t) = ks /\ Once(t)
      /\ c.pending \in Seq(EntryType) /\ c.dialing \in Seq(EntryType)
  BY DEF Packet, ConnType
<1> DEFINE p == c.pending \o t
           d == c.dialing \o t
<1>2. /\ Len(t) \in Nat /\ Len(c.pending) \in Nat /\ Joined(p, c.pending, t)
      /\ Len(c.dialing) \in Nat /\ Joined(d, c.dialing, t)
  BY <1>1, Concat
<1>3. \/ n.dialing = c.dialing /\ n.pending = p
      \/ n.dialing = d /\ n.pending = c.pending
  BY Zenon DEF Added
<1> HIDE DEF p, d
<1>4. /\ Keys(p) = Keys(c.pending) \cup ks
      /\ Once(c.pending) /\ Keys(c.pending) \cap ks = {} => Once(p)
  BY <1>1, <1>2, KeysJoined
<1>5. /\ Keys(d) = Keys(c.dialing) \cup ks
      /\ Once(c.dialing) /\ Keys(c.dialing) \cap ks = {} => Once(d)
  BY <1>1, <1>2, KeysJoined
<1> QED BY <1>3, <1>4, <1>5, Zenon DEF ConnKeys, OnceConn

\* What it is to be waited for on some connection.
LEMMA InHeld == ASSUME NEW m, NEW k PROVE k \in Held(m) <=> \E a \in Addrs : k \in ConnKeys(m[a])
  BY Zenon DEF Held

\* The connections after a packet was added to one.
LEMMA MuxAdds ==
    ASSUME NEW m, NEW n, NEW a \in Addrs, NEW t, NEW k,
           ConnsOK(m), Packet(t, {k}), AddsTo(m, n, a, t)
    PROVE  /\ ConnsOK(n)
           /\ Held(n) = Held(m) \cup {k}
           /\ KeysApart(m) /\ k \notin Held(m) => KeysApart(n)
<1>1. /\ m \in [Addrs -> ConnType] /\ n \in [Addrs -> ConnType]
      /\ \A b \in Addrs : b # a => n[b] = m[b]
      /\ Added(m[a], n[a], t) /\ m[a] \in ConnType /\ n[a] \in ConnType
      /\ \A b \in Addrs : ConnOK(m[b])
  BY DEF AddsTo, ConnsOK
<1>2. ConnsOK(n)
  <2>1. ConnOK(n[a])
    BY <1>1, AddedOK
  <2> QED BY <1>1, <2>1, Zenon DEF ConnsOK
<1>3. /\ ConnKeys(n[a]) = ConnKeys(m[a]) \cup {k}
      /\ OnceConn(m[a]) /\ {k} \cap ConnKeys(m[a]) = {} => OnceConn(n[a])
  BY <1>1, AddedKeys
<1>4. Held(n) = Held(m) \cup {k}
  <2>1. ASSUME NEW x \in Held(n) PROVE x \in Held(m) \/ x = k
    <3>1. PICK b \in Addrs : x \in ConnKeys(n[b])
      BY <2>1, InHeld, Zenon
    <3> QED BY <1>1, <1>3, <3>1, InHeld, Zenon
  <2>2. ASSUME NEW x \in Held(m) PROVE x \in Held(n)
    <3>1. PICK b \in Addrs : x \in ConnKeys(m[b])
      BY <2>2, InHeld, Zenon
    <3> QED BY <1>1, <1>3, <3>1, InHeld, Zenon
  <2>3. k \in Held(n)
    BY <1>3, InHeld, Zenon
  <2> QED BY <2>1, <2>2, <2>3, Zenon
<1>5. ASSUME KeysApart(m), k \notin Held(m) PROVE KeysApart(n)
  <2>1. \A b \in Addrs : k \notin ConnKeys(m[b])
    BY <1>5, InHeld, Zenon
  <2>2. \A b \in Addrs : OnceConn(n[b])
    <3>1. {k} \cap ConnKeys(m[a]) = {}
      BY <2>1, Zenon
    <3>2. OnceConn(n[a])
      BY <1>3, <1>5, <3>1, Zenon DEF KeysApart
    <3> QED BY <1>1, <1>5, <3>2, Zenon DEF KeysApart
  <2>3. ASSUME NEW b \in Addrs, NEW d \in Addrs, b # d
        PROVE  ConnKeys(n[b]) \cap ConnKeys(n[d]) = {}
    <3>1. ConnKeys(m[b]) \cap ConnKeys(m[d]) = {}
      BY <1>5, <2>3, Zenon DEF KeysApart
    <3>2. \A c \in Addrs : \/ ConnKeys(n[c]) = ConnKeys(m[c])
                           \/ c = a /\ ConnKeys(n[c]) = ConnKeys(m[c]) \cup {k}
      BY <1>1, <1>3, Zenon
    <3>3. \/ ConnKeys(n[b]) = ConnKeys(m[b]) /\ ConnKeys(n[d]) = ConnKeys(m[d])
          \/ ConnKeys(n[b]) = ConnKeys(m[b]) \cup {k} /\ ConnKeys(n[d]) = ConnKeys(m[d])
          \/ ConnKeys(n[b]) = ConnKeys(m[b]) /\ ConnKeys(n[d]) = ConnKeys(m[d]) \cup {k}
      BY <2>3, <3>2, Zenon
    <3> QED BY <2>1, <3>1, <3>3, Zenon
  <2> QED BY <2>2, <2>3, Zenon DEF KeysApart
<1> QED BY <1>2, <1>4, <1>5

\* An entry per command stays so, if the bytes go where the entry's place is:
\* to the end of the buffer, or to the wire when the buffer is empty.
LEMMA MatchedAdds ==
    ASSUME NEW m, NEW n, NEW a \in Addrs, NEW t,
           m \in [Addrs -> ConnType], t \in Seq(EntryType), AddsTo(m, n, a, t), Matched(m),
           n[a].wire = m[a].wire \/ m[a].writeBuf = <<>>
    PROVE  Matched(n)
<1> DEFINE c == m[a]
           d == n[a]
<1>1. /\ c.pending \in Seq(EntryType) /\ Wires(c.pending) \in Seq(CmdType)
      /\ c.writeBuf \in Seq(CmdType) /\ c.wire \in Seq(CmdType) /\ Wires(t) \in Seq(CmdType)
  BY WiresPlaces DEF ConnType
<1>2. Wires(c.pending) = c.wire \o c.writeBuf
  BY Zenon DEF Matched, MatchedConn
<1>3. Wires(c.pending \o t) = (c.wire \o c.writeBuf) \o Wires(t)
  BY <1>1, <1>2, WiresConcat, Zenon
<1>4. /\ (c.wire \o c.writeBuf) \o Wires(t) = c.wire \o (c.writeBuf \o Wires(t))
      /\ c.wire \o <<>> = c.wire
      /\ (c.wire \o Wires(t)) \o <<>> = c.wire \o Wires(t)
  <2> DEFINE w == c.wire
             v == c.writeBuf
             u == Wires(t)
  <2>1. c.wire \o Wires(t) \in Seq(CmdType)
    BY <1>1, Concat
  <2>2. w \in Seq(CmdType) /\ v \in Seq(CmdType) /\ u \in Seq(CmdType)
    BY <1>1, Zenon
  <2>3. (w \o v) \o u = w \o (v \o u)
    <3> HIDE DEF w, v, u
    <3> QED BY <2>2
  <2>4. c.wire \o <<>> = c.wire
    BY <1>1, ConcatLaws
  <2>5. (c.wire \o Wires(t)) \o <<>> = c.wire \o Wires(t)
    BY <2>1, ConcatLaws
  <2> QED BY <2>3, <2>4, <2>5, Zenon
<1>5. Added(c, d, t) /\ (d.wire = c.wire \/ c.writeBuf = <<>>)
  BY Zenon DEF AddsTo
<1>6. \A b \in Addrs : b # a => n[b] = m[b]
  BY Zenon DEF AddsTo
<1> HIDE DEF c, d
<1>7. Wires(d.pending) = d.wire \o d.writeBuf
  <2>1. CASE /\ d.pending = c.pending \o t
             /\ d.wire = c.wire /\ d.writeBuf = c.writeBuf \o Wires(t)
    BY <1>3, <1>4, <2>1, Zenon
  <2>2. CASE /\ d.pending = c.pending \o t /\ c.writeBuf = <<>>
             /\ d.wire = c.wire \o Wires(t) /\ d.writeBuf = c.writeBuf
    BY <1>3, <1>4, <2>2, Zenon
  <2>3. CASE /\ d.pending = c.pending \o t /\ d.wire = c.wire
             /\ d.wire = c.wire \o Wires(t) /\ d.writeBuf = c.writeBuf
    <3>1. /\ Len(c.wire \o Wires(t)) = Len(c.wire) + Len(Wires(t))
          /\ Len(c.wire) \in Nat /\ Len(Wires(t)) \in Nat
      BY <1>1, Concat DEF Joined
    <3>2. Len(Wires(t)) = 0
      BY <2>3, <3>1
    <3>3. Wires(t) = <<>>
      BY <1>1, <3>2
    <3>4. (c.wire \o c.writeBuf) \o <<>> = c.wire \o c.writeBuf
      <4>1. c.wire \o c.writeBuf \in Seq(CmdType)
        BY <1>1, Concat
      <4> QED BY <4>1, ConcatLaws
    <3> QED BY <1>3, <2>3, <3>3, <3>4, Zenon
  <2>4. CASE d.pending = c.pending /\ d.wire = c.wire /\ d.writeBuf = c.writeBuf
    BY <1>2, <2>4, Zenon
  <2> QED BY <1>5, <2>1, <2>2, <2>3, <2>4, Zenon DEF Added
<1> QED BY <1>6, <1>7, Zenon DEF Matched, MatchedConn, c, d

\* flushBackendWrites moves bytes from the buffers to the wires and changes
\* nothing else.
LEMMA FlushOK ==
    ASSUME NEW m, ConnsOK(m)
    PROVE  /\ ConnsOK(FlushWrites(m)) /\ Held(FlushWrites(m)) = Held(m) /\ Flushed(FlushWrites(m))
           /\ KeysApart(m) => KeysApart(FlushWrites(m))
           /\ Matched(m) => Matched(FlushWrites(m))
<1> DEFINE n == FlushWrites(m)
<1>1. m \in [Addrs -> ConnType] /\ \A a \in Addrs : ConnOK(m[a])
  BY Zenon DEF ConnsOK
<1>2. ASSUME NEW a \in Addrs
      PROVE  /\ n[a] \in ConnType /\ ConnOK(n[a])
             /\ n[a].dialing = m[a].dialing /\ n[a].pending = m[a].pending
             /\ n[a].writeBuf = <<>>
             /\ n[a].wire \o n[a].writeBuf = m[a].wire \o m[a].writeBuf
  <2> DEFINE c == m[a]
             w == c.wire \o c.writeBuf
             d == [c EXCEPT !.wire = w, !.writeBuf = <<>>]
  <2>1. c \in ConnType /\ ConnOK(c)
    BY <1>1
  <2>2. c.wire \in Seq(CmdType) /\ c.writeBuf \in Seq(CmdType) /\ c.asked \in BOOLEAN
    BY <2>1 DEF ConnType
  <2>3. w \in Seq(CmdType) /\ Paired(w, c.asked)
    BY <2>1, <2>2, Concat, PairedConcat, Zenon DEF ConnOK
  <2>4. w \o <<>> = w /\ <<>> \in Seq(CmdType) /\ Paired(<<>>, FALSE)
    BY <2>3, ConcatLaws, EmptyList, Zenon
  <2>5. n[a] = d
    BY Zenon DEF FlushWrites
  <2> HIDE DEF w, n, c
  <2>6. d \in ConnType
    BY <2>1, <2>3, <2>4, Zenon DEF ConnType
  <2>7. /\ d.dialing = c.dialing /\ d.pending = c.pending /\ d.asked = c.asked
        /\ d.wire = w /\ d.writeBuf = <<>>
    BY <2>1 DEF ConnType
  <2> HIDE DEF d
  <2>8. ConnOK(d)
    BY <2>1, <2>3, <2>4, <2>7, Zenon DEF ConnOK
  <2> QED BY <2>4, <2>5, <2>6, <2>7, <2>8, Zenon DEF c, w
<1>3. n = [a \in Addrs |-> n[a]]
  BY DEF FlushWrites
<1> HIDE DEF n
<1>4. n \in [Addrs -> ConnType]
  BY <1>2, <1>3, Zenon
<1>5. \A a \in Addrs : ConnKeys(n[a]) = ConnKeys(m[a])
  BY <1>2, Zenon DEF ConnKeys
<1>6. Held(n) = Held(m)
  <2>1. \A k : k \in Held(n) <=> k \in Held(m)
    BY <1>5, InHeld, Zenon
  <2> QED BY <2>1, Zenon
<1>7. KeysApart(m) => KeysApart(n)
  <2>1. \A a \in Addrs : OnceConn(m[a]) => OnceConn(n[a])
    BY <1>2, Zenon DEF OnceConn
  <2> QED BY <1>5, <2>1, Zenon DEF KeysApart
<1>8. Matched(m) => Matched(n)
  BY <1>2, Zenon DEF Matched, MatchedConn
<1>9. ConnsOK(n) /\ Flushed(n)
  BY <1>2, <1>4, Zenon DEF ConnsOK, Flushed
<1> QED BY <1>6, <1>7, <1>8, <1>9 DEF n

\* One connection is replaced by another that waits for no more.
ReplacedBy(m, n, a, c) ==
    /\ n = [m EXCEPT ![a] = c]
    /\ c \in ConnType /\ ConnOK(c) /\ ConnKeys(c) \subseteq ConnKeys(m[a])

\* The connections then.
LEMMA Replaced ==
    ASSUME NEW m, NEW a \in Addrs, NEW c, NEW n, ConnsOK(m), ReplacedBy(m, n, a, c)
    PROVE  /\ ConnsOK(n) /\ Held(n) \subseteq Held(m)
           /\ n[a] = c /\ \A b \in Addrs : b # a => n[b] = m[b]
           /\ KeysApart(m) /\ OnceConn(c) => KeysApart(n)
           /\ Matched(m) /\ MatchedConn(c) => Matched(n)
           /\ Flushed(m) /\ c.writeBuf = <<>> => Flushed(n)
<1>1. /\ m \in [Addrs -> ConnType] /\ \A b \in Addrs : ConnOK(m[b])
      /\ n = [m EXCEPT ![a] = c]
      /\ c \in ConnType /\ ConnOK(c) /\ ConnKeys(c) \subseteq ConnKeys(m[a])
  BY Zenon DEF ConnsOK, ReplacedBy
<1>2. n \in [Addrs -> ConnType] /\ n[a] = c /\ \A b \in Addrs : b # a => n[b] = m[b]
  BY <1>1
<1>3. ConnsOK(n)
  BY <1>1, <1>2, Zenon DEF ConnsOK
<1>4. \A b \in Addrs : ConnKeys(n[b]) \subseteq ConnKeys(m[b])
  BY <1>1, <1>2, Zenon
<1>5. Held(n) \subseteq Held(m)
  <2>1. \A k : k \in Held(n) => k \in Held(m)
    BY <1>4, InHeld, Zenon
  <2> QED BY <2>1, Zenon
<1>6. ASSUME KeysApart(m), OnceConn(c) PROVE KeysApart(n)
  <2>1. \A b \in Addrs : OnceConn(n[b])
    BY <1>2, <1>6, Zenon DEF KeysApart
  <2>2. ASSUME NEW b \in Addrs, NEW d \in Addrs, b # d
        PROVE  ConnKeys(n[b]) \cap ConnKeys(n[d]) = {}
    <3>1. ConnKeys(m[b]) \cap ConnKeys(m[d]) = {}
      BY <1>6, <2>2, Zenon DEF KeysApart
    <3> QED BY <1>4, <3>1, Zenon
  <2> QED BY <2>1, <2>2, Zenon DEF KeysApart
<1>7. Matched(m) /\ MatchedConn(c) => Matched(n)
  BY <1>2, Zenon DEF Matched
<1>8. Flushed(m) /\ c.writeBuf = <<>> => Flushed(n)
  BY <1>2, Zenon DEF Flushed
<1> QED BY <1>2, <1>3, <1>5, <1>6, <1>7, <1>8, Zenon

\* What stays so, as a predicate.
KeptBy(m, n, c) ==
    /\ ConnsOK(n) /\ Held(n) \subseteq Held(m)
    /\ KeysApart(m) /\ OnceConn(c) => KeysApart(n)
    /\ Matched(m) /\ MatchedConn(c) => Matched(n)
    /\ Flushed(m) /\ c.writeBuf = <<>> => Flushed(n)

LEMMA ReplacedKept ==
    ASSUME NEW m, NEW a \in Addrs, NEW c, NEW n, ConnsOK(m), ReplacedBy(m, n, a, c)
    PROVE  KeptBy(m, n, c)
  BY Replaced, Zenon DEF KeptBy

\* The new connection that onClose and failDialing leave behind is none.
LEMMA NoConnOK ==
    /\ NoConn \in ConnType /\ ConnOK(NoConn) /\ ConnKeys(NoConn) = {}
    /\ NoConn.dialing = <<>> /\ NoConn.pending = <<>> /\ NoConn.writeBuf = <<>>
    /\ NoConn.wire = <<>> /\ NoConn.asked = FALSE
<1>1. /\ NoConn.dialing = <<>> /\ NoConn.pending = <<>> /\ NoConn.writeBuf = <<>>
      /\ NoConn.wire = <<>> /\ NoConn.asked = FALSE
  BY DEF NoConn
<1>2. NoConn \in ConnType
  BY DEF NoConn, ConnType
<1>3. ConnOK(NoConn) /\ ConnKeys(NoConn) = {}
  BY <1>1, EmptyList, Zenon DEF ConnOK, ConnKeys
<1> QED BY <1>1, <1>2, <1>3

\* The lists of entries and commands of a connection.
LEMMA ConnLists ==
    ASSUME NEW m, ConnsOK(m), NEW a \in Addrs
    PROVE  /\ m[a] \in ConnType /\ ConnOK(m[a])
           /\ m[a].dialing \in Seq(EntryType) /\ m[a].pending \in Seq(EntryType)
           /\ m[a].wire \in Seq(CmdType) /\ m[a].writeBuf \in Seq(CmdType)
           /\ m[a].asked \in BOOLEAN
<1>1. m[a] \in ConnType /\ ConnOK(m[a])
  BY DEF ConnsOK
<1> QED BY <1>1 DEF ConnType

\* A connection that is lost, or a dial that failed.
LEMMA CloseOK ==
    ASSUME NEW m, NEW n, NEW a \in Addrs, n = [m EXCEPT ![a] = NoConn], ConnsOK(m)
    PROVE  /\ ConnsOK(n) /\ Held(n) \subseteq Held(m)
           /\ KeysApart(m) => KeysApart(n)
           /\ Matched(m) => Matched(n)
           /\ Flushed(m) => Flushed(n)
<1>1. ConnKeys(NoConn) \subseteq ConnKeys(m[a])
  BY NoConnOK, Zenon
<1>2. OnceConn(NoConn) /\ MatchedConn(NoConn)
  BY NoConnOK, EmptyList, Zenon DEF OnceConn, MatchedConn
<1>3. NoConn \in ConnType /\ ConnOK(NoConn) /\ NoConn.writeBuf = <<>>
  BY NoConnOK, Zenon
<1>4. ReplacedBy(m, n, a, NoConn)
  BY <1>1, <1>3, Zenon DEF ReplacedBy
<1>5. KeptBy(m, n, NoConn)
  BY <1>4, ReplacedKept, Zenon
<1> QED BY <1>2, <1>3, <1>5, Zenon DEF KeptBy

\* The connection of onOpen, with the queue of the dial on its wire.
Dialed(all) == [NoConn EXCEPT !.open = TRUE, !.pending = all, !.wire = Wires(all)]

\* onOpen: the queue of the dial becomes the list of pending replies.
LEMMA DialedOK ==
    ASSUME NEW m, NEW n, NEW a \in Addrs, ConnsOK(m), NEW all, NEW t,
           Packet(t, {}), all = m[a].dialing \/ all = t \o m[a].dialing,
           n = [m EXCEPT ![a] = Dialed(all)]
    PROVE  /\ ConnsOK(n) /\ Held(n) \subseteq Held(m)
           /\ KeysApart(m) => KeysApart(n)
           /\ Matched(m) => Matched(n)
           /\ Flushed(m) => Flushed(n)
<1> DEFINE q == m[a].dialing
           x == t \o q
<1>1. q \in Seq(EntryType) /\ ConnOK(m[a])
  BY ConnLists
<1>2. /\ t \in Seq(EntryType) /\ AllOwe(t) /\ Keys(t) = {} /\ Once(t) /\ Paired(Wires(t), FALSE)
      /\ AllOwe(q) /\ Paired(Wires(q), FALSE)
  BY <1>1, Zenon DEF Packet, ConnOK
<1>3. Wires(t) \in Seq(CmdType) /\ Wires(q) \in Seq(CmdType)
  BY <1>1, <1>2, WiresPlaces
<1>4. Paired(Wires(x), FALSE)
  <2>1. Wires(x) = Wires(t) \o Wires(q)
    BY <1>1, <1>2, WiresConcat, Zenon
  <2>2. Paired(Wires(t) \o Wires(q), FALSE)
    BY <1>2, <1>3, PairedConcat, Zenon
  <2> QED BY <2>1, <2>2, Zenon
<1>5. x \in Seq(EntryType) /\ Len(t) \in Nat /\ Len(q) \in Nat /\ Joined(x, t, q)
  BY <1>1, <1>2, Concat
<1> HIDE DEF x
<1>6. AllOwe(x) /\ Keys(x) = Keys(q) /\ (Once(q) => Once(x))
  <2>1. /\ Keys(x) = Keys(t) \cup Keys(q)
        /\ AllOwe(t) /\ AllOwe(q) => AllOwe(x)
        /\ Once(t) /\ Once(q) /\ Keys(t) \cap Keys(q) = {} => Once(x)
    BY <1>5, KeysJoined
  <2> QED BY <1>2, <2>1, Zenon
<1>7. /\ all \in Seq(EntryType) /\ AllOwe(all) /\ Keys(all) = Keys(q) /\ Paired(Wires(all), FALSE)
      /\ Once(q) => Once(all)
  BY <1>1, <1>2, <1>4, <1>5, <1>6, Zenon DEF x
<1>8. Wires(all) \in Seq(CmdType) /\ Wires(all) \o <<>> = Wires(all)
  <2>1. Wires(all) \in Seq(CmdType)
    BY <1>7, WiresPlaces
  <2> QED BY <2>1, ConcatLaws
<1> DEFINE c == Dialed(all)
<1>9. /\ c \in ConnType /\ c.dialing = <<>> /\ c.pending = all /\ c.wire = Wires(all)
      /\ c.writeBuf = <<>> /\ c.asked = FALSE
  <2>1. /\ c.dialing = <<>> /\ c.pending = all /\ c.wire = Wires(all)
        /\ c.writeBuf = <<>> /\ c.asked = FALSE
    BY DEF Dialed, NoConn
  <2>2. c \in ConnType
    BY <1>7, <1>8, NoConnOK, Zenon DEF Dialed, ConnType
  <2> QED BY <2>1, <2>2
<1> HIDE DEF c
<1>10. ConnOK(c) /\ ConnKeys(c) = Keys(all)
  BY <1>7, <1>9, EmptyList, Zenon DEF ConnOK, ConnKeys
<1>11. ConnKeys(c) \subseteq ConnKeys(m[a])
  BY <1>7, <1>10, Zenon DEF ConnKeys
<1>12. KeysApart(m) => OnceConn(c)
  BY <1>7, <1>9, EmptyList, Zenon DEF KeysApart, OnceConn
<1>13. MatchedConn(c)
  BY <1>8, <1>9, Zenon DEF MatchedConn
<1>14. n = [m EXCEPT ![a] = c]
  BY Zenon DEF c
<1>15. ReplacedBy(m, n, a, c)
  BY <1>9, <1>10, <1>11, <1>14, Zenon DEF ReplacedBy
<1> QED BY <1>9, <1>12, <1>13, <1>15, Replaced, Zenon

------------------------------------------------------------------------------
\* Reading a reply.

\* The connection when its next reply was read.
AfterRead(c) ==
    [c EXCEPT !.pending = IF @ = <<>> THEN @ ELSE Tail(@),
              !.wire = Tail(@),
              !.asked = Head(c.wire).op = "asking"]

\* onTraffic, for the connections: the reply and its entry are taken together.
LEMMA ReadOK ==
    ASSUME NEW a \in Addrs, ConnsOK(mux), mux[a].wire # <<>>
    PROVE  /\ ConnsOK(Read(a)) /\ Held(Read(a)) \subseteq Held(mux)
           /\ KeysApart(mux) => KeysApart(Read(a))
           /\ Matched(mux) => Matched(Read(a))
           /\ Flushed(mux) => Flushed(Read(a))
           /\ \A b \in Addrs : b # a => Read(a)[b] = mux[b]
           /\ Read(a)[a].dialing = mux[a].dialing
           /\ mux[a].pending # <<>> => Read(a)[a].pending = Tail(mux[a].pending)
<1> DEFINE c == mux[a]
           p == IF c.pending = <<>> THEN c.pending ELSE Tail(c.pending)
           d == AfterRead(c)
<1>1. /\ c \in ConnType /\ ConnOK(c) /\ c.dialing \in Seq(EntryType) /\ c.pending \in Seq(EntryType)
      /\ c.wire \in Seq(CmdType) /\ c.writeBuf \in Seq(CmdType) /\ c.asked \in BOOLEAN
  BY ConnLists
<1>2. /\ Tail(c.wire) \in Seq(CmdType) /\ Paired(Tail(c.wire), Head(c.wire).op = "asking")
      /\ (Head(c.wire).op = "asking") \in BOOLEAN
  BY <1>1, TailPlaces, PairedTail DEF ConnOK
<1>3. /\ p \in Seq(EntryType) /\ AllOwe(p) /\ Keys(p) \subseteq Keys(c.pending)
      /\ Once(c.pending) => Once(p)
  <2>1. CASE c.pending = <<>>
    BY <1>1, <2>1, Zenon DEF ConnOK
  <2>2. CASE c.pending # <<>>
    <3>1. Tail(c.pending) \in Seq(EntryType)
      BY <1>1, <2>2, TailPlaces
    <3>2. /\ AllOwe(Tail(c.pending)) /\ Keys(Tail(c.pending)) \subseteq Keys(c.pending)
          /\ Once(c.pending) => Once(Tail(c.pending))
      BY <1>1, <2>2, KeysTail DEF ConnOK
    <3> QED BY <2>2, <3>1, <3>2, Zenon
  <2> QED BY <2>1, <2>2, Zenon
<1>4. ASSUME Matched(mux) PROVE Wires(p) = Tail(c.wire) \o c.writeBuf
  <2>1. Wires(c.pending) = c.wire \o c.writeBuf
    BY <1>4, Zenon DEF Matched, MatchedConn
  <2>2. Tail(c.wire \o c.writeBuf) = Tail(c.wire) \o c.writeBuf /\ c.wire \o c.writeBuf # <<>>
    BY <1>1, TailConcat, Zenon
  <2>3. c.pending # <<>>
    BY <2>1, <2>2, EmptyList, Zenon
  <2>4. Wires(Tail(c.pending)) = Tail(Wires(c.pending))
    BY <1>1, <2>3, WiresTail
  <2> QED BY <2>1, <2>2, <2>3, <2>4, Zenon
<1>5. /\ d \in ConnType /\ d.dialing = c.dialing /\ d.pending = p /\ d.wire = Tail(c.wire)
      /\ d.writeBuf = c.writeBuf /\ d.asked = (Head(c.wire).op = "asking")
  <2> DEFINE w == Tail(c.wire)
             k == (Head(c.wire).op = "asking")
  <2>1. d = [c EXCEPT !.pending = p, !.wire = w, !.asked = k]
    BY Zenon DEF AfterRead
  <2>2. w \in Seq(CmdType) /\ k \in BOOLEAN
    BY <1>2, Zenon
  <2> HIDE DEF w, k, p, d, c
  <2>3. d \in ConnType
    BY <1>1, <1>3, <2>1, <2>2, Zenon DEF ConnType
  <2>4. /\ d.dialing = c.dialing /\ d.pending = p /\ d.wire = w
        /\ d.writeBuf = c.writeBuf /\ d.asked = k
    BY <1>1, <2>1 DEF ConnType
  <2> QED BY <2>3, <2>4 DEF w, k
<1>6. Read(a) = [mux EXCEPT ![a] = d]
  BY Zenon DEF Read, AfterRead
<1>7. c.pending # <<>> => p = Tail(c.pending)
  BY Zenon
<1> HIDE DEF p, d
<1>8. ConnOK(d)
  BY <1>1, <1>2, <1>3, <1>5, Zenon DEF ConnOK
<1>9. ConnKeys(d) \subseteq ConnKeys(c)
  BY <1>3, <1>5, Zenon DEF ConnKeys
<1>10. KeysApart(mux) => OnceConn(d)
  BY <1>3, <1>5, Zenon DEF KeysApart, OnceConn
<1>11. Matched(mux) => MatchedConn(d)
  BY <1>4, <1>5, Zenon DEF MatchedConn
<1>12. Flushed(mux) => d.writeBuf = <<>>
  BY <1>5, Zenon DEF Flushed
<1>13. /\ ConnsOK(Read(a)) /\ Held(Read(a)) \subseteq Held(mux)
       /\ Read(a)[a] = d /\ \A b \in Addrs : b # a => Read(a)[b] = mux[b]
       /\ KeysApart(mux) => KeysApart(Read(a))
       /\ Matched(mux) => Matched(Read(a))
       /\ Flushed(mux) => Flushed(Read(a))
  <2>1. ReplacedBy(mux, Read(a), a, d)
    BY <1>5, <1>6, <1>8, <1>9, Zenon DEF ReplacedBy
  <2> QED BY <1>10, <1>11, <1>12, <2>1, Replaced
<1> QED BY <1>5, <1>7, <1>13, Zenon

\* The entry of the reply: unless it is skipped, it is the first in line; it
\* owes its client a reply that nobody waits for any longer, and the command
\* answered is its own.
LEMMA WaitingOK ==
    ASSUME NEW a \in Addrs, ConnsOK(mux), mux[a].wire # <<>>, ~Waiting(a).skip
    PROVE  /\ Waiting(a) \in EntryType /\ Owes(Waiting(a))
           /\ Key(Waiting(a)) \in Held(mux)
           /\ KeysApart(mux) => Key(Waiting(a)) \notin Held(Read(a))
           /\ Matched(mux) => Head(mux[a].wire) = Waiting(a).cmd
<1> DEFINE c == mux[a]
           e == Waiting(a)
<1>1. /\ c \in ConnType /\ ConnOK(c) /\ c.pending \in Seq(EntryType)
      /\ c.wire \in Seq(CmdType) /\ c.writeBuf \in Seq(CmdType)
  BY ConnLists
<1>2. c.pending # <<>>
  <2>1. [Entry(Head(mux[a].wire).client, 0, Head(mux[a].wire)) EXCEPT !.skip = TRUE].skip = TRUE
    BY DEF Entry
  <2> QED BY <2>1, Zenon DEF Waiting
<1>3. e = Head(c.pending)
  BY <1>2, Zenon DEF Waiting
<1>4. e \in EntryType
  BY <1>1, <1>2, <1>3, TailPlaces
<1>5. /\ Owes(e) /\ Key(e) \in Keys(c.pending)
      /\ Once(c.pending) => Key(e) \notin Keys(Tail(c.pending))
  BY <1>1, <1>2, <1>3, KeysTail, Zenon DEF ConnOK
<1>6. Key(e) \in ConnKeys(c)
  BY <1>5, Zenon DEF ConnKeys
<1>7. Key(e) \in Held(mux)
  BY <1>6, InHeld, Zenon
<1>8. ASSUME KeysApart(mux), NEW b \in Addrs, Key(e) \in ConnKeys(Read(a)[b]) PROVE FALSE
  <2>1. CASE b # a
    <3>1. Read(a)[b] = mux[b]
      BY <2>1, ReadOK, Zenon
    <3> QED BY <1>6, <1>8, <2>1, <3>1, Zenon DEF KeysApart
  <2>2. CASE b = a
    <3>1. Read(a)[a].dialing = c.dialing /\ Read(a)[a].pending = Tail(c.pending)
      BY <1>2, ReadOK, Zenon
    <3>2. Once(c.pending) /\ Keys(c.dialing) \cap Keys(c.pending) = {}
      BY <1>8, Zenon DEF KeysApart, OnceConn
    <3> QED BY <1>5, <1>8, <2>2, <3>1, <3>2, Zenon DEF ConnKeys
  <2> QED BY <2>1, <2>2, Zenon
<1>9. KeysApart(mux) => Key(e) \notin Held(Read(a))
  BY <1>8, InHeld, Zenon
<1>10. ASSUME Matched(mux) PROVE Head(c.wire) = e.cmd
  <2>1. Wires(c.pending) = c.wire \o c.writeBuf
    BY <1>10, Zenon DEF Matched, MatchedConn
  <2>2. Head(c.wire \o c.writeBuf) = Head(c.wire)
    BY <1>1, TailConcat, Zenon
  <2>3. Head(Wires(c.pending)) = Wire(e)
    BY <1>1, <1>2, <1>3, WiresTail
  <2>4. Wire(e) = e.cmd
    BY <1>5, Zenon DEF Wire, Owes
  <2> QED BY <2>1, <2>2, <2>3, <2>4, Zenon
<1> QED BY <1>4, <1>5, <1>7, <1>9, <1>10, Zenon

------------------------------------------------------------------------------
\* The queue of response slots.

FanType == [total : Nat, received : Nat, subData : SUBSET CmdType]

ReplyType ==
    [kind : {"reply", "error", "merged"}, req : Nat, total : Nat, parts : SUBSET CmdType]

DataType == ReplyType \cup {NoData}

SlotType == [ready : BOOLEAN, data : DataType, fanIn : FanType]

\* A reply to request n of client c and to nothing else, with all its parts.
ReplyOK(r, c, n) ==
    /\ r.req = n
    /\ \A p \in r.parts : p.op = "req" /\ p.client = c /\ p.req = n
    /\ r.kind = "merged" => {p.sub : p \in r.parts} = 1..r.total

\* The sub-requests whose replies a fan-in has.
Subs(f) == {p.sub : p \in f.subData}

\* A fan-in of that request holds its own sub-replies, and counts them.
FanOK(f, c, n) ==
    /\ f.total \in {0, 2}
    /\ f.total = 2 => \/ f.received = 0 /\ Subs(f) = {}
                      \/ f.received = 1 /\ \E s \in 1..2 : Subs(f) = {s}
    /\ \A p \in f.subData : p.op = "req" /\ p.client = c /\ p.req = n

SlotOK(s, c, n) == (s.ready => ReplyOK(s.data, c, n)) /\ FanOK(s.fanIn, c, n)

\* A queue whose first slot is the one of request B + 1.
QueueOK(q, c, B) == \A k \in 1..Len(q) : SlotOK(q[k], c, B + k)

\* r is what is left of q, and what is written, when some ready slots are taken
\* off the front.
Taken(r, q) ==
    /\ r.queue \in Seq(SlotType) /\ r.iov \in Seq(DataType)
    /\ Len(r.queue) + Len(r.iov) = Len(q)
    /\ \A i \in 1..Len(r.iov) : q[i].ready /\ r.iov[i] = q[i].data
    /\ \A k \in 1..Len(r.queue) : r.queue[k] = q[Len(r.iov) + k]

\* The tail of the filling functions takes ready slots off the front.
LEMMA TakeReadyTaken ==
    ASSUME NEW q \in Seq(SlotType), NEW r \in TakeReady(q)
    PROVE  Taken(r, q)
<1>1. PICK n \in Head0(q) : r = [queue |-> SubSeq(q, n + 1, Len(q)),
                                 iov |-> [i \in 1..n |-> q[i].data]]
  BY DEF TakeReady
<1>2. Len(q) \in Nat /\ n \in 0..Len(q) /\ \A i \in 1..n : q[i].ready
  BY <1>1 DEF Head0
<1>3. ASSUME NEW i \in 1..n PROVE q[i].data \in DataType
  <2>1. q[i] \in SlotType
    BY <1>2
  <2> QED BY <2>1 DEF SlotType
<1>4. r.iov \in Seq(DataType) /\ Len(r.iov) = n /\ \A i \in 1..n : r.iov[i] = q[i].data
  <2>1. r.iov = [i \in 1..n |-> q[i].data] /\ n \in Nat
    BY <1>1, <1>2
  <2> QED BY <1>3, <2>1
<1>5. /\ r.queue \in Seq(SlotType) /\ Len(r.queue) = Len(q) - n
      /\ \A k \in 1..(Len(q) - n) : r.queue[k] = q[n + k]
  BY <1>1, <1>2
<1> DEFINE rest == r.queue  iov == r.iov
<1>6. /\ rest \in Seq(SlotType) /\ Len(rest) = Len(q) - n
      /\ iov \in Seq(DataType) /\ Len(iov) = n
  BY <1>4, <1>5, Zenon
<1>7. \A i \in 1..n : q[i].ready /\ iov[i] = q[i].data
  BY <1>2, <1>4, Zenon
<1>8. \A k \in 1..(Len(q) - n) : rest[k] = q[n + k]
  BY <1>5, Zenon
<1> HIDE DEF rest, iov
<1>9. Len(rest) + Len(iov) = Len(q)
  BY <1>2, <1>6
<1>10. /\ \A i \in 1..Len(iov) : q[i].ready /\ iov[i] = q[i].data
       /\ \A k \in 1..Len(rest) : rest[k] = q[Len(iov) + k]
  BY <1>6, <1>7, <1>8, Zenon
<1> QED BY <1>6, <1>9, <1>10, Zenon DEF Taken, rest, iov

\* Or none.
LEMMA NothingTaken ==
    ASSUME NEW q \in Seq(SlotType), NEW r \in Nothing(q)
    PROVE  Taken(r, q)
<1>1. r = [queue |-> q, iov |-> <<>>]
  BY DEF Nothing
<1>2. r.queue = q /\ r.iov = <<>> /\ Len(r.iov) = 0 /\ r.iov \in Seq(DataType) /\ Len(q) \in Nat
  BY <1>1
<1>3. 1..Len(r.iov) = {} /\ \A k \in 1..Len(q) : Len(r.iov) + k = k
  BY <1>2
<1> QED BY <1>2, <1>3 DEF Taken

\* What is taken off a queue in order is in order, and so is the rest.
LEMMA TakenOK ==
    ASSUME NEW q \in Seq(SlotType), NEW r, NEW c, NEW B \in Nat, Taken(r, q), QueueOK(q, c, B)
    PROVE  /\ QueueOK(r.queue, c, B + Len(r.iov))
           /\ \A i \in 1..Len(r.iov) : ReplyOK(r.iov[i], c, B + i)
<1> DEFINE n == Len(r.iov)
           l == Len(r.queue)
<1>1. /\ r.queue \in Seq(SlotType) /\ r.iov \in Seq(DataType) /\ l + n = Len(q)
      /\ \A i \in 1..n : q[i].ready /\ r.iov[i] = q[i].data
      /\ \A k \in 1..l : r.queue[k] = q[n + k]
  BY Zenon DEF Taken
<1>2. l \in Nat /\ n \in Nat
  BY <1>1
<1> HIDE DEF n, l
<1>3. /\ \A k \in 1..l : n + k \in 1..Len(q) /\ (B + n) + k = B + (n + k)
      /\ \A i \in 1..n : i \in 1..Len(q)
  BY <1>1, <1>2
<1>4. \A k \in 1..l : SlotOK(r.queue[k], c, (B + n) + k)
  BY <1>1, <1>3, Zenon DEF QueueOK
<1>5. \A i \in 1..n : ReplyOK(r.iov[i], c, B + i)
  BY <1>1, <1>3, Zenon DEF QueueOK, SlotOK
<1> QED BY <1>4, <1>5, Zenon DEF QueueOK, n, l

\* A slot of the queue is replaced.
Put(q, q1, rel, s) == q1 \in Seq(SlotType) /\ q1 = [q EXCEPT ![rel] = s] /\ s \in SlotType

\* Places of such a queue.
LEMMA PutPlaces ==
    ASSUME NEW q \in Seq(SlotType), NEW q1, NEW rel \in 1..Len(q), NEW s, Put(q, q1, rel, s)
    PROVE  /\ q1 \in Seq(SlotType) /\ Len(q1) = Len(q) /\ Len(q) \in Nat
           /\ q1[rel] = s /\ \A k \in 1..Len(q) : k # rel => q1[k] = q[k]
  BY DEF Put

\* A slot in order keeps the queue in order.
LEMMA PutOK ==
    ASSUME NEW q \in Seq(SlotType), NEW q1, NEW rel \in 1..Len(q), NEW s, Put(q, q1, rel, s),
           NEW c, NEW B \in Nat, QueueOK(q, c, B), SlotOK(s, c, B + rel)
    PROVE  QueueOK(q1, c, B)
<1>1. Len(q1) = Len(q) /\ q1[rel] = s /\ \A k \in 1..Len(q) : k # rel => q1[k] = q[k]
  BY PutPlaces
<1> QED BY <1>1, Zenon DEF QueueOK

\* The slots that the filling functions put in place.
Answered1(s, data) == [ready |-> TRUE, data |-> data, fanIn |-> s.fanIn]
SubAdded(s, tag) ==
    [ready |-> s.ready, data |-> s.data,
     fanIn |-> [total |-> s.fanIn.total, received |-> s.fanIn.received + 1,
                subData |-> s.fanIn.subData \cup {tag}]]
AllMerged(s, tag) ==
    [ready |-> TRUE, data |-> Merged(SubAdded(s, tag).fanIn, tag), fanIn |-> NewSlot(0).fanIn]

\* What a stored sub-reply counts.
LEMMA SubAddedFan ==
    ASSUME NEW s, NEW tag
    PROVE  /\ SubAdded(s, tag).fanIn.received = s.fanIn.received + 1
           /\ SubAdded(s, tag).fanIn.total = s.fanIn.total
  BY DEF SubAdded

\* Replies and slots, typed.
LEMMA ReplyTyped ==
    ASSUME NEW tag \in CmdType, NEW kind \in {"reply", "error", "merged"}
    PROVE  Reply(kind, tag) \in ReplyType
<1>1. tag.req \in Nat /\ {tag} \in SUBSET CmdType
  BY DEF CmdType
<1> QED BY <1>1 DEF Reply, ReplyType

\* A new slot, typed.
LEMMA NewSlotTyped ==
    /\ NewSlot(0) \in SlotType /\ NewSlot(2) \in SlotType
    /\ NewSlot(0).fanIn \in FanType
    /\ NewSlot(0).fanIn.total = 0 /\ NewSlot(0).fanIn.subData = {}
    /\ NewSlot(2).fanIn.total = 2 /\ NewSlot(2).fanIn.subData = {}
    /\ NewSlot(2).fanIn.received = 0
    /\ NewSlot(0).ready = FALSE /\ NewSlot(2).ready = FALSE
  BY Zenon DEF NewSlot, SlotType, FanType, DataType

\* The slots put in place, typed.
LEMMA SlotTyped ==
    ASSUME NEW s \in SlotType, NEW tag \in CmdType, NEW data \in ReplyType
    PROVE  /\ Answered1(s, data) \in SlotType /\ SubAdded(s, tag) \in SlotType
           /\ AllMerged(s, tag) \in SlotType
<1>1. s.ready \in BOOLEAN /\ s.data \in DataType /\ s.fanIn \in FanType /\ data \in DataType
  BY DEF SlotType, DataType
<1>2. Answered1(s, data) \in SlotType
  BY <1>1 DEF Answered1, SlotType
<1>3. /\ SubAdded(s, tag).fanIn \in FanType
      /\ SubAdded(s, tag).fanIn.total \in Nat /\ SubAdded(s, tag).fanIn.subData \in SUBSET CmdType
  <2>1. /\ s.fanIn.total \in Nat /\ s.fanIn.received + 1 \in Nat
        /\ s.fanIn.subData \cup {tag} \in SUBSET CmdType
    BY <1>1 DEF FanType
  <2> QED BY <2>1 DEF SubAdded, FanType
<1>4. SubAdded(s, tag) \in SlotType
  <2>1. SubAdded(s, tag) = [ready |-> s.ready, data |-> s.data, fanIn |-> SubAdded(s, tag).fanIn]
    BY DEF SubAdded
  <2> QED BY <1>1, <1>3, <2>1 DEF SlotType
<1>5. Merged(SubAdded(s, tag).fanIn, tag) \in DataType
  <2>1. tag.req \in Nat
    BY DEF CmdType
  <2> QED BY <1>3, <2>1 DEF Merged, ReplyType, DataType
<1>6. AllMerged(s, tag) \in SlotType
  BY <1>5, NewSlotTyped, Zenon DEF AllMerged, SlotType
<1> QED BY <1>2, <1>4, <1>6

\* Storing a reply in a slot leaves the queue with that slot answered.
LEMMA MarkReadyPut ==
    ASSUME NEW q \in Seq(SlotType), NEW rel \in 1..Len(q), NEW data \in ReplyType
    PROVE  Put(q, MarkReady(q, rel, data), rel, Answered1(q[rel], data))
<1>1. q[rel] \in SlotType /\ rel \in DOMAIN q
  OBVIOUS
<1>2. Answered1(q[rel], data) \in SlotType
  <2>1. q[rel].fanIn \in FanType /\ data \in DataType
    BY <1>1 DEF SlotType, DataType
  <2> QED BY <2>1 DEF Answered1, SlotType
<1>3. MarkReady(q, rel, data) = [q EXCEPT ![rel] = Answered1(q[rel], data)]
  BY Zenon DEF MarkReady, Answered1
<1>4. [q EXCEPT ![rel] = Answered1(q[rel], data)] \in Seq(SlotType)
  BY <1>2
<1> QED BY <1>2, <1>3, <1>4, Zenon DEF Put

\* Storing a sub-response.
LEMMA StoreSubPut ==
    ASSUME NEW q \in Seq(SlotType), NEW rel \in 1..Len(q), NEW tag \in CmdType
    PROVE  Put(q, StoreSub(q, rel, tag), rel, SubAdded(q[rel], tag))
<1>1. q[rel] \in SlotType
  OBVIOUS
<1>2. SubAdded(q[rel], tag) \in SlotType
  BY <1>1, ReplyTyped, SlotTyped
<1>3. StoreSub(q, rel, tag) = [q EXCEPT ![rel] = SubAdded(q[rel], tag)]
  BY Zenon DEF StoreSub, SubAdded
<1>4. [q EXCEPT ![rel] = SubAdded(q[rel], tag)] \in Seq(SlotType)
  BY <1>2
<1> QED BY <1>2, <1>3, <1>4, Zenon DEF Put

\* Storing the last sub-response.
LEMMA MergedPut ==
    ASSUME NEW q \in Seq(SlotType), NEW rel \in 1..Len(q), NEW tag \in CmdType,
           NEW s1, s1 = StoreSub(q, rel, tag)
    PROVE  /\ Put(q, MarkReady(ClearFanIn(s1, rel), rel, Merged(s1[rel].fanIn, tag)), rel,
                  AllMerged(q[rel], tag))
           /\ ClearFanIn(s1, rel) \in Seq(SlotType) /\ Len(ClearFanIn(s1, rel)) = Len(q)
           /\ s1 \in Seq(SlotType) /\ Len(s1) = Len(q) /\ s1[rel] = SubAdded(q[rel], tag)
<1> DEFINE c1 == ClearFanIn(s1, rel)
           d == Merged(s1[rel].fanIn, tag)
           z == [ready |-> s1[rel].ready, data |-> s1[rel].data, fanIn |-> NewSlot(0).fanIn]
<1>1. Put(q, s1, rel, SubAdded(q[rel], tag))
  BY StoreSubPut
<1>2. /\ s1 \in Seq(SlotType) /\ Len(s1) = Len(q) /\ Len(q) \in Nat
      /\ s1[rel] = SubAdded(q[rel], tag)
      /\ \A k \in 1..Len(q) : k # rel => s1[k] = q[k]
  BY <1>1, PutPlaces
<1>3. z \in SlotType
  <2>1. s1[rel] \in SlotType
    BY <1>2
  <2>2. s1[rel].ready \in BOOLEAN /\ s1[rel].data \in DataType
    BY <2>1 DEF SlotType
  <2> QED BY <2>2, NewSlotTyped DEF SlotType
<1>4. c1 = [s1 EXCEPT ![rel] = z]
  BY Zenon DEF ClearFanIn
<1>5. z.fanIn = NewSlot(0).fanIn
  OBVIOUS
<1> HIDE DEF z, c1
<1>6. /\ c1 \in Seq(SlotType) /\ Len(c1) = Len(q) /\ c1[rel] = z
      /\ \A k \in 1..Len(q) : k # rel => c1[k] = s1[k]
  BY <1>2, <1>3, <1>4
<1>7. AllMerged(q[rel], tag) \in SlotType /\ d = AllMerged(q[rel], tag).data
  <2>1. q[rel] \in SlotType
    OBVIOUS
  <2>2. AllMerged(q[rel], tag) \in SlotType
    BY <2>1, ReplyTyped, SlotTyped
  <2>3. d = AllMerged(q[rel], tag).data
    BY <1>2 DEF AllMerged
  <2> QED BY <2>2, <2>3
<1>8. MarkReady(c1, rel, d) = [c1 EXCEPT ![rel] = AllMerged(q[rel], tag)]
  <2>1. MarkReady(c1, rel, d)
          = [c1 EXCEPT ![rel] = [ready |-> TRUE, data |-> d, fanIn |-> c1[rel].fanIn]]
    BY Zenon DEF MarkReady
  <2>2. [ready |-> TRUE, data |-> d, fanIn |-> c1[rel].fanIn] = AllMerged(q[rel], tag)
    BY <1>2, <1>5, <1>6, Zenon DEF AllMerged
  <2> QED BY <2>1, <2>2, Zenon
<1> HIDE DEF d
<1>9. /\ MarkReady(c1, rel, d) \in Seq(SlotType)
      /\ MarkReady(c1, rel, d) = [q EXCEPT ![rel] = AllMerged(q[rel], tag)]
  <2> DEFINE y == [c1 EXCEPT ![rel] = AllMerged(q[rel], tag)]
             x == [q EXCEPT ![rel] = AllMerged(q[rel], tag)]
  <2>1. y \in Seq(SlotType) /\ x \in Seq(SlotType) /\ Len(y) = Len(q) /\ Len(x) = Len(q)
    BY <1>6, <1>7
  <2>2. \A k \in 1..Len(q) : y[k] = x[k]
    BY <1>2, <1>6
  <2> HIDE DEF x, y
  <2>3. x = y
    BY <2>1, <2>2, SameSeq
  <2> QED BY <1>8, <2>1, <2>3, Zenon DEF x, y
<1>10. Put(q, MarkReady(c1, rel, d), rel, AllMerged(q[rel], tag))
  BY <1>7, <1>9, Zenon DEF Put
<1> QED BY <1>2, <1>6, <1>10, Zenon DEF c1, d

\* A place in the queue.
LEMMA RelPlace ==
    ASSUME NEW q \in Seq(SlotType), NEW base \in Nat, NEW idx \in Nat, InQueue(q, base, idx)
    PROVE  Rel(base, idx) \in 1..Len(q) /\ base + Rel(base, idx) = idx + 1
  BY DEF InQueue, Rel

\* fillResponseSlotInLoop: nothing is stored, or the slot is answered.
LEMMA FillCases ==
    ASSUME NEW q \in Seq(SlotType), NEW base \in Nat, NEW idx \in Nat, NEW data \in ReplyType,
           NEW r \in FillInLoop(q, base, idx, data)
    PROVE  \/ Taken(r, q)
           \/ \E rel \in 1..Len(q), q1 \in Seq(SlotType) :
                 /\ base + rel = idx + 1 /\ Taken(r, q1)
                 /\ Put(q, q1, rel, Answered1(q[rel], data))
<1>1. CASE InQueue(q, base, idx)
  <2> DEFINE rel == Rel(base, idx)
             q1 == MarkReady(q, rel, data)
  <2>1. rel \in 1..Len(q) /\ base + rel = idx + 1
    BY <1>1, RelPlace
  <2>2. Put(q, q1, rel, Answered1(q[rel], data))
    BY <2>1, MarkReadyPut
  <2>3. q1 \in Seq(SlotType)
    BY <2>2, Zenon DEF Put
  <2>4. r \in TakeReady(q1)
    BY <1>1, Zenon DEF FillInLoop
  <2> HIDE DEF rel, q1
  <2>5. Taken(r, q1)
    BY <2>3, <2>4, TakeReadyTaken
  <2> QED BY <2>1, <2>2, <2>3, <2>5, Zenon
<1>2. CASE ~InQueue(q, base, idx)
  <2>1. r \in Nothing(q)
    BY <1>2, Zenon DEF FillInLoop
  <2> QED BY <2>1, NothingTaken
<1> QED BY <1>1, <1>2

\* The shared tail of the accumulate functions.
LEMMA StoreTaken ==
    ASSUME NEW q \in Seq(SlotType), NEW rel, NEW data, MarkReady(q, rel, data) \in Seq(SlotType),
           NEW r \in Store(q, rel, data)
    PROVE  Taken(r, MarkReady(q, rel, data))
<1>1. r \in TakeReady(MarkReady(q, rel, data)) \/ r \in Nothing(MarkReady(q, rel, data))
  BY Zenon DEF Store
<1> QED BY <1>1, TakeReadyTaken, NothingTaken

\* accumulateResponseSlot: nothing is stored, or the slot is answered.
LEMMA AccumulateSlotCases ==
    ASSUME NEW q \in Seq(SlotType), NEW base \in Nat, NEW idx \in Nat, NEW tag \in CmdType,
           NEW r \in AccumulateSlot(q, base, idx, tag)
    PROVE  \/ Taken(r, q)
           \/ \E rel \in 1..Len(q), q1 \in Seq(SlotType) :
                 /\ base + rel = idx + 1 /\ Taken(r, q1)
                 /\ Put(q, q1, rel, Answered1(q[rel], Reply("reply", tag)))
<1> DEFINE data == Reply("reply", tag)
<1>0. data \in ReplyType
  BY ReplyTyped
<1> HIDE DEF data
<1>1. CASE SlotAt(q, base, idx, FALSE)
  <2> DEFINE rel == Rel(base, idx)
             q1 == MarkReady(q, rel, data)
  <2>1. rel \in 1..Len(q) /\ base + rel = idx + 1
    BY <1>1, RelPlace DEF SlotAt
  <2>2. Put(q, q1, rel, Answered1(q[rel], data))
    BY <1>0, <2>1, MarkReadyPut
  <2>3. q1 \in Seq(SlotType)
    BY <2>2, Zenon DEF Put
  <2>4. r \in Store(q, rel, data)
    BY <1>1, Zenon DEF AccumulateSlot, data
  <2> HIDE DEF rel
  <2>5. Taken(r, q1)
    BY <2>3, <2>4, StoreTaken
  <2> HIDE DEF q1
  <2> QED BY <2>1, <2>2, <2>3, <2>5, Zenon DEF data
<1>2. CASE ~SlotAt(q, base, idx, FALSE)
  <2>1. r \in Nothing(q)
    BY <1>2, Zenon DEF AccumulateSlot
  <2> QED BY <2>1, NothingTaken
<1> QED BY <1>1, <1>2, Zenon

\* accumulateFanInSubResponse: nothing is stored, or the sub-response is; the
\* last one answers the slot.
LEMMA AccumulateSubCases ==
    ASSUME NEW q \in Seq(SlotType), NEW base \in Nat, NEW idx \in Nat, NEW tag \in CmdType,
           NEW r \in AccumulateSub(q, base, idx, tag)
    PROVE  \/ Taken(r, q)
           \/ \E rel \in 1..Len(q), q1 \in Seq(SlotType) :
                 /\ base + rel = idx + 1 /\ Taken(r, q1) /\ q[rel].fanIn.total > 0
                 /\ \/ /\ Put(q, q1, rel, SubAdded(q[rel], tag))
                       /\ q[rel].fanIn.received + 1 < q[rel].fanIn.total
                    \/ /\ Put(q, q1, rel, AllMerged(q[rel], tag))
                       /\ ~(q[rel].fanIn.received + 1 < q[rel].fanIn.total)
<1>1. CASE SlotAt(q, base, idx, TRUE)
  <2> DEFINE rel == Rel(base, idx)
             s1 == StoreSub(q, rel, tag)
             c1 == ClearFanIn(s1, rel)
             d == Merged(s1[rel].fanIn, tag)
             q2 == MarkReady(c1, rel, d)
  <2>1. rel \in 1..Len(q) /\ base + rel = idx + 1 /\ q[rel].fanIn.total > 0
    BY <1>1, RelPlace DEF SlotAt
  <2>2. Put(q, s1, rel, SubAdded(q[rel], tag))
    BY <2>1, StoreSubPut
  <2>3. /\ Put(q, q2, rel, AllMerged(q[rel], tag)) /\ c1 \in Seq(SlotType)
        /\ s1 \in Seq(SlotType) /\ s1[rel] = SubAdded(q[rel], tag)
    BY <2>1, MergedPut, Zenon
  <2>4. /\ s1[rel].fanIn.received = q[rel].fanIn.received + 1
        /\ s1[rel].fanIn.total = q[rel].fanIn.total
    <3> HIDE DEF rel, s1
    <3>1. s1[rel] = SubAdded(q[rel], tag)
      BY <2>3, Zenon
    <3>2. /\ SubAdded(q[rel], tag).fanIn.received = q[rel].fanIn.received + 1
          /\ SubAdded(q[rel], tag).fanIn.total = q[rel].fanIn.total
      BY SubAddedFan
    <3> QED BY <3>1, <3>2
  <2>5. IF q[rel].fanIn.received + 1 < q[rel].fanIn.total
        THEN r \in Nothing(s1) ELSE r \in Store(c1, rel, d)
    BY <1>1, <2>4, Zenon DEF AccumulateSub
  <2>6. q2 \in Seq(SlotType)
    BY <2>3, Zenon DEF Put
  <2> HIDE DEF rel, s1, c1, d
  <2>7. CASE q[rel].fanIn.received + 1 < q[rel].fanIn.total
    <3>1. Taken(r, s1)
      BY <2>3, <2>5, <2>7, NothingTaken, Zenon
    <3> QED BY <2>1, <2>2, <2>3, <2>7, <3>1, Zenon
  <2>8. CASE ~(q[rel].fanIn.received + 1 < q[rel].fanIn.total)
    <3>1. Taken(r, q2)
      BY <2>3, <2>5, <2>6, <2>8, StoreTaken, Zenon
    <3> HIDE DEF q2
    <3> QED BY <2>1, <2>3, <2>6, <2>8, <3>1, Zenon
  <2> QED BY <2>7, <2>8, Zenon
<1>2. CASE ~SlotAt(q, base, idx, TRUE)
  <2>1. r \in Nothing(q)
    BY <1>2, Zenon DEF AccumulateSub
  <2> QED BY <2>1, NothingTaken
<1> QED BY <1>1, <1>2, Zenon

------------------------------------------------------------------------------
\* The slots stay in order.

\* A reply for the request it is tagged with.
LEMMA ReplyGood ==
    ASSUME NEW tag \in CmdType, tag.op = "req", NEW kind \in {"reply", "error"}
    PROVE  ReplyOK(Reply(kind, tag), tag.client, tag.req)
<1>1. /\ Reply(kind, tag).req = tag.req /\ Reply(kind, tag).parts = {tag}
      /\ Reply(kind, tag).kind = kind
  BY DEF Reply
<1>2. kind # "merged"
  OBVIOUS
<1> QED BY <1>1, <1>2, Zenon DEF ReplyOK

\* An answered slot keeps its fan-in.
LEMMA AnsweredOK ==
    ASSUME NEW s \in SlotType, NEW c, NEW n, SlotOK(s, c, n), NEW data, ReplyOK(data, c, n)
    PROVE  SlotOK(Answered1(s, data), c, n) /\ Subs(Answered1(s, data).fanIn) = Subs(s.fanIn)
<1>1. Answered1(s, data).data = data /\ Answered1(s, data).fanIn = s.fanIn
  BY DEF Answered1
<1> QED BY <1>1, Zenon DEF SlotOK

\* A fan-in gets one more sub-response, which it did not have; with the second
\* of the two the slot is answered, by both.
LEMMA SubAddedOK ==
    ASSUME NEW s \in SlotType, NEW c, NEW n, SlotOK(s, c, n), s.fanIn.total > 0,
           NEW tag \in CmdType, tag.op = "req", tag.client = c, tag.req = n,
           tag.sub # 0, tag.sub \notin Subs(s.fanIn)
    PROVE  /\ s.fanIn.received + 1 < s.fanIn.total => SlotOK(SubAdded(s, tag), c, n)
           /\ ~(s.fanIn.received + 1 < s.fanIn.total) => SlotOK(AllMerged(s, tag), c, n)
           /\ Subs(SubAdded(s, tag).fanIn) \subseteq Subs(s.fanIn) \cup {tag.sub}
           /\ Subs(AllMerged(s, tag).fanIn) = {}
<1> DEFINE f == s.fanIn
           g == SubAdded(s, tag).fanIn
           m == AllMerged(s, tag)
<1>1. /\ g.total = f.total /\ g.received = f.received + 1 /\ g.subData = f.subData \cup {tag}
      /\ SubAdded(s, tag).ready = s.ready /\ SubAdded(s, tag).data = s.data
  BY Zenon DEF SubAdded
<1>2. /\ m.data.req = tag.req /\ m.data.parts = g.subData /\ m.data.total = g.total
      /\ m.fanIn = NewSlot(0).fanIn
  BY Zenon DEF AllMerged, Merged
<1>3. /\ f.total = 2 /\ \A p \in f.subData : p.op = "req" /\ p.client = c /\ p.req = n
      /\ s.ready => ReplyOK(s.data, c, n)
      /\ \/ f.received = 0 /\ Subs(f) = {}
         \/ f.received = 1 /\ \E x \in 1..2 : Subs(f) = {x}
  BY DEF SlotOK, FanOK
<1>4. tag.sub \in 1..2
  BY DEF CmdType
<1> HIDE DEF f, g, m
<1>5. Subs(g) = Subs(f) \cup {tag.sub}
  BY <1>1, Zenon DEF Subs
<1>6. \A p \in g.subData : p.op = "req" /\ p.client = c /\ p.req = n
  BY <1>1, <1>3, Zenon
<1>7. ASSUME f.received + 1 < f.total PROVE SlotOK(SubAdded(s, tag), c, n)
  <2>1. f.received = 0 /\ Subs(f) = {}
    BY <1>3, <1>7
  <2>2. g.received = 1 /\ Subs(g) = {tag.sub}
    <3>1. g.received = 0 + 1 /\ Subs(g) = {tag.sub}
      BY <1>1, <1>5, <2>1, Zenon
    <3> QED BY <3>1
  <2>3. FanOK(g, c, n)
    BY <1>1, <1>3, <1>4, <1>6, <2>2, Zenon DEF FanOK
  <2> QED BY <1>1, <1>3, <2>3, Zenon DEF SlotOK, g
<1>8. Subs(m.fanIn) = {} /\ FanOK(m.fanIn, c, n)
  <2>1. m.fanIn.total = 0 /\ m.fanIn.subData = {}
    BY <1>2, NewSlotTyped, Zenon
  <2>2. 0 # 2
    OBVIOUS
  <2> QED BY <2>1, <2>2, Zenon DEF Subs, FanOK
<1>9. ASSUME ~(f.received + 1 < f.total) PROVE SlotOK(m, c, n)
  <2>1. PICK x \in 1..2 : Subs(f) = {x}
    BY <1>3, <1>9
  <2>2. x # tag.sub
    BY <2>1 DEF f
  <2>3. {x, tag.sub} = 1..2
    BY <1>4, <2>1, <2>2
  <2>4. Subs(g) = {x, tag.sub}
    BY <1>5, <2>1, Zenon
  <2>5. Subs(g) = 1..2
    BY <2>3, <2>4, Zenon
  <2>6. {p.sub : p \in m.data.parts} = 1..m.data.total
    BY <1>1, <1>2, <1>3, <2>5, Zenon DEF Subs
  <2>7. ReplyOK(m.data, c, n)
    BY <1>2, <1>6, <2>6, Zenon DEF ReplyOK
  <2> QED BY <1>8, <2>7, Zenon DEF SlotOK
<1> QED BY <1>5, <1>7, <1>8, <1>9, Zenon DEF f, g, m

\* The sub-requests whose replies wait in the slots of c's queue.
SubKeys(c, idx, S) == {<<c, idx, x>> : x \in S}

SlotKeys(s, c, idx) == SubKeys(c, idx, Subs(s.fanIn))

StoredKeys(q, c, B) == UNION {SlotKeys(q[k], c, B + k - 1) : k \in 1..Len(q)}

\* What it is to wait there.
LEMMA InStored ==
    ASSUME NEW q, NEW c, NEW B, NEW y
    PROVE  y \in StoredKeys(q, c, B) <=>
             \E k \in 1..Len(q) : y \in SlotKeys(q[k], c, B + k - 1)
  BY Zenon DEF StoredKeys

\* Taking slots off the front moves no slot to another request.
LEMMA TakenStored ==
    ASSUME NEW q \in Seq(SlotType), NEW r, NEW c, NEW B \in Nat, Taken(r, q)
    PROVE  StoredKeys(r.queue, c, B + Len(r.iov)) \subseteq StoredKeys(q, c, B)
<1> DEFINE n == Len(r.iov)
           l == Len(r.queue)
<1>1. /\ r.queue \in Seq(SlotType) /\ r.iov \in Seq(DataType) /\ l + n = Len(q)
      /\ \A k \in 1..l : r.queue[k] = q[n + k]
  BY Zenon DEF Taken
<1>2. l \in Nat /\ n \in Nat
  BY <1>1
<1> HIDE DEF n, l
<1>3. \A k \in 1..l : n + k \in 1..Len(q) /\ (B + n) + k - 1 = B + (n + k) - 1
  BY <1>1, <1>2
<1>4. ASSUME NEW y \in StoredKeys(r.queue, c, B + n) PROVE y \in StoredKeys(q, c, B)
  <2>1. PICK k \in 1..l : y \in SlotKeys(r.queue[k], c, (B + n) + k - 1)
    BY <1>4, InStored, Zenon DEF l
  <2>2. n + k \in 1..Len(q) /\ y \in SlotKeys(q[n + k], c, B + (n + k) - 1)
    BY <1>1, <1>3, <2>1, Zenon
  <2> QED BY <2>2, InStored, Zenon
<1> QED BY <1>4, Zenon DEF n

\* Replacing a slot adds what the new one has stored.
LEMMA PutStored ==
    ASSUME NEW q \in Seq(SlotType), NEW q1, NEW rel \in 1..Len(q), NEW s, Put(q, q1, rel, s),
           NEW c, NEW B \in Nat, NEW S, Subs(s.fanIn) \subseteq Subs(q[rel].fanIn) \cup S
    PROVE  StoredKeys(q1, c, B) \subseteq StoredKeys(q, c, B) \cup SubKeys(c, B + rel - 1, S)
<1>1. Len(q1) = Len(q) /\ q1[rel] = s /\ \A k \in 1..Len(q) : k # rel => q1[k] = q[k]
  BY PutPlaces
<1>2. ASSUME NEW y \in StoredKeys(q1, c, B)
      PROVE  y \in StoredKeys(q, c, B) \/ y \in SubKeys(c, B + rel - 1, S)
  <2>1. PICK k \in 1..Len(q1) : y \in SlotKeys(q1[k], c, B + k - 1)
    BY <1>2, InStored, Zenon
  <2>2. PICK x \in Subs(q1[k].fanIn) : y = <<c, B + k - 1, x>>
    BY <2>1, Zenon DEF SlotKeys, SubKeys
  <2>3. k \in 1..Len(q)
    BY <1>1, Zenon
  <2>4. x \in Subs(q[k].fanIn) \/ (k = rel /\ x \in S)
    BY <1>1, <2>2, <2>3, Zenon
  <2>5. CASE x \in Subs(q[k].fanIn)
    <3>1. y \in SlotKeys(q[k], c, B + k - 1)
      BY <2>2, <2>5, Zenon DEF SlotKeys, SubKeys
    <3> QED BY <2>3, <3>1, InStored, Zenon
  <2>6. CASE k = rel /\ x \in S
    BY <2>2, <2>6, Zenon DEF SubKeys
  <2> QED BY <2>4, <2>5, <2>6, Zenon
<1> QED BY <1>2, Zenon

\* What a filling function leaves of a queue that starts at B + 1, with at most
\* the replies of ks stored in addition.
Typed(r, q) ==
    /\ r.queue \in Seq(SlotType) /\ r.iov \in Seq(DataType)
    /\ Len(r.queue) + Len(r.iov) = Len(q)

Good(r, q, c, B, ks) ==
    /\ QueueOK(r.queue, c, B + Len(r.iov))
    /\ \A i \in 1..Len(r.iov) : ReplyOK(r.iov[i], c, B + i)
    /\ StoredKeys(r.queue, c, B + Len(r.iov)) \subseteq StoredKeys(q, c, B) \cup ks

\* Nothing was stored.
LEMMA TakenGood ==
    ASSUME NEW q \in Seq(SlotType), NEW r, Taken(r, q), NEW c, NEW B \in Nat,
           QueueOK(q, c, B), NEW ks
    PROVE  Good(r, q, c, B, ks)
<1>1. /\ QueueOK(r.queue, c, B + Len(r.iov))
      /\ \A i \in 1..Len(r.iov) : ReplyOK(r.iov[i], c, B + i)
  BY TakenOK
<1>2. StoredKeys(r.queue, c, B + Len(r.iov)) \subseteq StoredKeys(q, c, B)
  BY TakenStored
<1> QED BY <1>1, <1>2, Zenon DEF Good

\* One slot was replaced, by one in order.
LEMMA PutGood ==
    ASSUME NEW q \in Seq(SlotType), NEW q1, NEW rel \in 1..Len(q), NEW s, Put(q, q1, rel, s),
           NEW r, Taken(r, q1), NEW c, NEW B \in Nat, QueueOK(q, c, B), SlotOK(s, c, B + rel),
           NEW S, Subs(s.fanIn) \subseteq Subs(q[rel].fanIn) \cup S
    PROVE  Typed(r, q) /\ Good(r, q, c, B, SubKeys(c, B + rel - 1, S))
<1>1. q1 \in Seq(SlotType) /\ Len(q1) = Len(q)
  BY PutPlaces, Zenon
<1>2. QueueOK(q1, c, B)
  BY PutOK, Zenon
<1>3. /\ QueueOK(r.queue, c, B + Len(r.iov))
      /\ \A i \in 1..Len(r.iov) : ReplyOK(r.iov[i], c, B + i)
  BY <1>1, <1>2, TakenOK
<1>4. StoredKeys(r.queue, c, B + Len(r.iov)) \subseteq StoredKeys(q1, c, B)
  BY <1>1, TakenStored, Zenon
<1>5. StoredKeys(q1, c, B) \subseteq StoredKeys(q, c, B) \cup SubKeys(c, B + rel - 1, S)
  BY PutStored, Zenon
<1>6. Typed(r, q)
  BY <1>1, Zenon DEF Taken, Typed
<1> QED BY <1>3, <1>4, <1>5, <1>6, Zenon DEF Good

\* What was put in one slot or none leaves a typed queue.
LEMMA PutTyped ==
    ASSUME NEW q \in Seq(SlotType), NEW r,
           Taken(r, q) \/ \E rel \in 1..Len(q), q1 \in Seq(SlotType) : \E s :
                             Taken(r, q1) /\ Put(q, q1, rel, s)
    PROVE  Typed(r, q)
<1>1. CASE Taken(r, q)
  BY <1>1, Zenon DEF Taken, Typed
<1>2. ASSUME NEW rel \in 1..Len(q), NEW q1 \in Seq(SlotType), NEW s,
             Taken(r, q1), Put(q, q1, rel, s)
      PROVE  Typed(r, q)
  <2>1. Len(q1) = Len(q)
    BY <1>2, PutPlaces
  <2> QED BY <1>2, <2>1, Zenon DEF Taken, Typed
<1> QED BY <1>1, <1>2, Zenon

\* fillResponseSlotInLoop with a reply of the slot's request.
LEMMA FillGood ==
    ASSUME NEW q \in Seq(SlotType), NEW base \in Nat, NEW idx \in Nat, NEW data \in ReplyType,
           NEW r \in FillInLoop(q, base, idx, data)
    PROVE  /\ Typed(r, q)
           /\ \A c : QueueOK(q, c, base) /\ ReplyOK(data, c, idx + 1) => Good(r, q, c, base, {})
<1>1. \/ Taken(r, q)
      \/ \E rel \in 1..Len(q), q1 \in Seq(SlotType) :
            /\ base + rel = idx + 1 /\ Taken(r, q1)
            /\ Put(q, q1, rel, Answered1(q[rel], data))
  BY FillCases
<1>2. Typed(r, q)
  BY <1>1, PutTyped, Zenon
<1>3. ASSUME NEW c, QueueOK(q, c, base), ReplyOK(data, c, idx + 1)
      PROVE  Good(r, q, c, base, {})
  <2>1. CASE Taken(r, q)
    BY <1>3, <2>1, TakenGood
  <2>2. ASSUME NEW rel \in 1..Len(q), NEW q1 \in Seq(SlotType), base + rel = idx + 1, Taken(r, q1),
               Put(q, q1, rel, Answered1(q[rel], data))
        PROVE  Good(r, q, c, base, {})
    <3> DEFINE s == Answered1(q[rel], data)
    <3>1. q[rel] \in SlotType
      OBVIOUS
    <3>2. SlotOK(q[rel], c, base + rel) /\ ReplyOK(data, c, base + rel)
      BY <1>3, <2>2, Zenon DEF QueueOK
    <3>3. SlotOK(s, c, base + rel) /\ Subs(s.fanIn) \subseteq Subs(q[rel].fanIn) \cup {}
      BY <3>1, <3>2, AnsweredOK, Zenon
    <3> HIDE DEF s
    <3>4. Good(r, q, c, base, SubKeys(c, base + rel - 1, {}))
      BY <1>3, <2>2, <3>3, PutGood, Zenon DEF s
    <3>5. SubKeys(c, base + rel - 1, {}) = {}
      BY Zenon DEF SubKeys
    <3> QED BY <3>4, <3>5, Zenon
  <2> QED BY <1>1, <2>1, <2>2, Zenon
<1> QED BY <1>2, <1>3, Zenon

\* accumulateResponseSlot, likewise.
LEMMA AccumulateSlotGood ==
    ASSUME NEW q \in Seq(SlotType), NEW base \in Nat, NEW idx \in Nat, NEW tag \in CmdType,
           NEW r \in AccumulateSlot(q, base, idx, tag)
    PROVE  /\ Typed(r, q)
           /\ \A c : QueueOK(q, c, base) /\ tag.op = "req" /\ tag.client = c /\ tag.req = idx + 1
                     => Good(r, q, c, base, {})
<1> DEFINE data == Reply("reply", tag)
<1>1. \/ Taken(r, q)
      \/ \E rel \in 1..Len(q), q1 \in Seq(SlotType) :
            /\ base + rel = idx + 1 /\ Taken(r, q1)
            /\ Put(q, q1, rel, Answered1(q[rel], data))
  BY AccumulateSlotCases
<1>2. Typed(r, q)
  BY <1>1, PutTyped, Zenon
<1>3. ASSUME NEW c, QueueOK(q, c, base), tag.op = "req", tag.client = c, tag.req = idx + 1
      PROVE  Good(r, q, c, base, {})
  <2>0. ReplyOK(data, c, idx + 1)
    BY <1>3, ReplyGood
  <2> HIDE DEF data
  <2>1. CASE Taken(r, q)
    BY <1>3, <2>1, TakenGood
  <2>2. ASSUME NEW rel \in 1..Len(q), NEW q1 \in Seq(SlotType), base + rel = idx + 1, Taken(r, q1),
               Put(q, q1, rel, Answered1(q[rel], data))
        PROVE  Good(r, q, c, base, {})
    <3> DEFINE s == Answered1(q[rel], data)
    <3>1. q[rel] \in SlotType
      OBVIOUS
    <3>2. SlotOK(q[rel], c, base + rel) /\ ReplyOK(data, c, base + rel)
      BY <1>3, <2>0, <2>2, Zenon DEF QueueOK
    <3>3. SlotOK(s, c, base + rel) /\ Subs(s.fanIn) \subseteq Subs(q[rel].fanIn) \cup {}
      BY <3>1, <3>2, AnsweredOK, Zenon
    <3> HIDE DEF s
    <3>4. Good(r, q, c, base, SubKeys(c, base + rel - 1, {}))
      BY <1>3, <2>2, <3>3, PutGood, Zenon DEF s
    <3>5. SubKeys(c, base + rel - 1, {}) = {}
      BY Zenon DEF SubKeys
    <3> QED BY <3>4, <3>5, Zenon
  <2> QED BY <1>1, <2>1, <2>2, Zenon
<1> QED BY <1>2, <1>3, Zenon

\* accumulateFanInSubResponse, with a sub-response that was not stored before.
LEMMA AccumulateSubGood ==
    ASSUME NEW q \in Seq(SlotType), NEW base \in Nat, NEW idx \in Nat, NEW tag \in CmdType,
           NEW r \in AccumulateSub(q, base, idx, tag)
    PROVE  /\ Typed(r, q)
           /\ \A c : /\ QueueOK(q, c, base) /\ tag.op = "req" /\ tag.client = c /\ tag.req = idx + 1
                     /\ tag.sub # 0 /\ <<c, idx, tag.sub>> \notin StoredKeys(q, c, base)
                     => Good(r, q, c, base, {<<c, idx, tag.sub>>})
<1>1. \/ Taken(r, q)
      \/ \E rel \in 1..Len(q), q1 \in Seq(SlotType) :
            /\ base + rel = idx + 1 /\ Taken(r, q1) /\ q[rel].fanIn.total > 0
            /\ \/ /\ Put(q, q1, rel, SubAdded(q[rel], tag))
                  /\ q[rel].fanIn.received + 1 < q[rel].fanIn.total
               \/ /\ Put(q, q1, rel, AllMerged(q[rel], tag))
                  /\ ~(q[rel].fanIn.received + 1 < q[rel].fanIn.total)
  BY AccumulateSubCases, Zenon
<1>2. Typed(r, q)
  BY <1>1, PutTyped, Zenon
<1>3. ASSUME NEW c, QueueOK(q, c, base), tag.op = "req", tag.client = c, tag.req = idx + 1,
             tag.sub # 0, <<c, idx, tag.sub>> \notin StoredKeys(q, c, base)
      PROVE  Good(r, q, c, base, {<<c, idx, tag.sub>>})
  <2>1. CASE Taken(r, q)
    BY <1>3, <2>1, TakenGood
  <2>2. ASSUME NEW rel \in 1..Len(q), NEW q1 \in Seq(SlotType), base + rel = idx + 1, Taken(r, q1),
               q[rel].fanIn.total > 0,
               \/ /\ Put(q, q1, rel, SubAdded(q[rel], tag))
                  /\ q[rel].fanIn.received + 1 < q[rel].fanIn.total
               \/ /\ Put(q, q1, rel, AllMerged(q[rel], tag))
                  /\ ~(q[rel].fanIn.received + 1 < q[rel].fanIn.total)
        PROVE  Good(r, q, c, base, {<<c, idx, tag.sub>>})
    <3>1. q[rel] \in SlotType
      OBVIOUS
    <3>2. SlotOK(q[rel], c, base + rel) /\ base + rel - 1 = idx
      <4>1. base + rel - 1 = idx
        BY <2>2
      <4> QED BY <1>3, <4>1, Zenon DEF QueueOK
    <3>3. tag.sub \notin Subs(q[rel].fanIn)
      <4>1. tag.sub \in Subs(q[rel].fanIn) =>
              <<c, idx, tag.sub>> \in SlotKeys(q[rel], c, base + rel - 1)
        BY <3>2, Zenon DEF SlotKeys, SubKeys
      <4> QED BY <1>3, <4>1, InStored, Zenon
    <3>4. /\ q[rel].fanIn.received + 1 < q[rel].fanIn.total =>
                SlotOK(SubAdded(q[rel], tag), c, base + rel)
          /\ ~(q[rel].fanIn.received + 1 < q[rel].fanIn.total) =>
                SlotOK(AllMerged(q[rel], tag), c, base + rel)
          /\ Subs(SubAdded(q[rel], tag).fanIn) \subseteq Subs(q[rel].fanIn) \cup {tag.sub}
          /\ Subs(AllMerged(q[rel], tag).fanIn) = {}
      <4>1. /\ tag.op = "req" /\ tag.client = c /\ tag.req = base + rel /\ tag.sub # 0
            /\ q[rel].fanIn.total > 0
        BY <1>3, <2>2, Zenon
      <4> DEFINE z == q[rel]
                 n == base + rel
      <4>2. /\ z \in SlotType /\ SlotOK(z, c, n) /\ z.fanIn.total > 0 /\ tag.op = "req"
            /\ tag.client = c /\ tag.req = n /\ tag.sub # 0 /\ tag.sub \notin Subs(z.fanIn)
        BY <3>1, <3>2, <3>3, <4>1, Zenon
      <4> HIDE DEF z, n
      <4>3. /\ z.fanIn.received + 1 < z.fanIn.total => SlotOK(SubAdded(z, tag), c, n)
            /\ ~(z.fanIn.received + 1 < z.fanIn.total) => SlotOK(AllMerged(z, tag), c, n)
            /\ Subs(SubAdded(z, tag).fanIn) \subseteq Subs(z.fanIn) \cup {tag.sub}
            /\ Subs(AllMerged(z, tag).fanIn) = {}
        BY <4>2, SubAddedOK, Zenon
      <4> QED BY <4>3, Zenon DEF z, n
    <3>5. PICK s : /\ Put(q, q1, rel, s) /\ SlotOK(s, c, base + rel)
                   /\ Subs(s.fanIn) \subseteq Subs(q[rel].fanIn) \cup {tag.sub}
      BY <2>2, <3>4, Zenon
    <3>6. Good(r, q, c, base, SubKeys(c, base + rel - 1, {tag.sub}))
      BY <1>3, <2>2, <3>5, PutGood, Zenon
    <3>7. SubKeys(c, base + rel - 1, {tag.sub}) = {<<c, idx, tag.sub>>}
      BY <3>2, Zenon DEF SubKeys
    <3> QED BY <3>6, <3>7, Zenon
  <2> QED BY <1>1, <2>1, <2>2, Zenon
<1> QED BY <1>2, <1>3, Zenon

------------------------------------------------------------------------------
\* The invariant.

TaskType == [client : Clients, idx : Nat, data : ReplyType]

Types ==
    /\ respQueue \in [Clients -> Seq(SlotType)] /\ respBase \in [Clients -> Nat]
    /\ nreq \in [Clients -> Nat] /\ open \in SUBSET Clients
    /\ accum \in [Clients -> Seq(DataType)] /\ out \in [Clients -> Seq(DataType)]
    /\ tasks \in Seq(TaskType) /\ kinds \in SUBSET {"moved", "ask"}

\* A slot's index is the number of requests before its own.
Counted == \A c \in Clients : nreq[c] = respBase[c] + Len(respQueue[c])

MuxInv == Types /\ Counted /\ ConnsOK(mux)

\* The nodes of a behaviour do not send both MOVED and ASK.
Unmixed == kinds # {"moved", "ask"}

\* sendAsk passes by the write buffer, so nothing may wait there when it is used.
WireInv == Unmixed => Matched(mux) /\ ("ask" \in kinds => Flushed(mux))

\* What a step does to the connections: it waits for ks in addition, at most.
MuxStep(ks) ==
    /\ ConnsOK(mux')
    /\ Held(mux') \subseteq Held(mux) \cup ks
    /\ KeysApart(mux) /\ ks \cap Held(mux) = {} => KeysApart(mux')
    /\ WireInv => WireInv'

\* The entry of a request that is dispatched.
LEMMA EntryOK ==
    ASSUME NEW c \in Clients, NEW i \in Nat, NEW n \in Nat, n = i + 1, NEW s \in 0..2
    PROVE  /\ Entry(c, i, Cmd(c, n, s)) \in EntryType /\ Owes(Entry(c, i, Cmd(c, n, s)))
           /\ ~Entry(c, i, Cmd(c, n, s)).skip /\ ~Entry(c, i, Cmd(c, n, s)).cmd.ask
           /\ Key(Entry(c, i, Cmd(c, n, s))) = <<c, i, s>>
  BY Zenon DEF Entry, Cmd, EntryType, CmdType, Owes, Key

\* send, of a request that nobody waits for yet.
LEMMA SendOK ==
    ASSUME NEW m, ConnsOK(m), NEW a \in Addrs, NEW e \in EntryType, Owes(e), ~e.skip, ~e.cmd.ask
    PROVE  /\ ConnsOK(Send(m, a, e)) /\ Held(Send(m, a, e)) = Held(m) \cup {Key(e)}
           /\ KeysApart(m) /\ Key(e) \notin Held(m) => KeysApart(Send(m, a, e))
           /\ Matched(m) => Matched(Send(m, a, e))
<1> DEFINE n == Send(m, a, e)
           t == <<e>>
<1>1. Packet(t, {Key(e)}) /\ Wires(t) = <<Wire(e)>>
  BY OnePacket
<1>2. m \in [Addrs -> ConnType]
  BY Zenon DEF ConnsOK
<1>3. AddsTo(m, n, a, t) /\ n[a].wire = m[a].wire
  BY <1>1, <1>2, SendAdds, Zenon
<1>4. t \in Seq(EntryType)
  BY <1>1, Zenon DEF Packet
<1> HIDE DEF n, t
<1>5. /\ ConnsOK(n) /\ Held(n) = Held(m) \cup {Key(e)}
      /\ KeysApart(m) /\ Key(e) \notin Held(m) => KeysApart(n)
  BY <1>1, <1>3, MuxAdds
<1>6. Matched(m) => Matched(n)
  BY <1>2, <1>3, <1>4, MatchedAdds, Zenon
<1> QED BY <1>5, <1>6 DEF n

\* sendAsk, likewise; the buffer of the connection must be empty.
LEMMA SendAskOK ==
    ASSUME NEW m, ConnsOK(m), NEW a \in Addrs, NEW e \in EntryType, Owes(e), ~e.skip
    PROVE  /\ ConnsOK(SendAsk(m, a, e)) /\ Held(SendAsk(m, a, e)) = Held(m) \cup {Key(e)}
           /\ KeysApart(m) /\ Key(e) \notin Held(m) => KeysApart(SendAsk(m, a, e))
           /\ Flushed(m) => Flushed(SendAsk(m, a, e))
           /\ Flushed(m) /\ Matched(m) => Matched(SendAsk(m, a, e))
<1> DEFINE n == SendAsk(m, a, e)
           t == <<Sentinel(e), Deferred(e)>>
<1>1. Packet(t, {Key(e)}) /\ Wires(t) = <<Wire(Sentinel(e)), Wire(Deferred(e))>>
  BY AskPacket
<1>2. m \in [Addrs -> ConnType] /\ t \in Seq(EntryType)
  BY <1>1, Zenon DEF ConnsOK, Packet
<1>3. AddsTo(m, n, a, t) /\ n[a].writeBuf = m[a].writeBuf
  <2>1. /\ m \in [Addrs -> ConnType] /\ t \in Seq(EntryType)
        /\ Wires(t) = <<Wire(Sentinel(e)), Wire(Deferred(e))>>
    BY <1>1, <1>2, Zenon
  <2> QED BY <2>1, SendAskAdds, Zenon
<1> HIDE DEF n, t
<1>4. /\ ConnsOK(n) /\ Held(n) = Held(m) \cup {Key(e)}
      /\ KeysApart(m) /\ Key(e) \notin Held(m) => KeysApart(n)
  <2>1. Packet(t, {Key(e)}) /\ AddsTo(m, n, a, t)
    BY <1>1, <1>3, Zenon
  <2> QED BY <2>1, MuxAdds
<1>5. Flushed(m) => m[a].writeBuf = <<>> /\ Flushed(n)
  BY <1>3, Zenon DEF Flushed, AddsTo
<1>6. Flushed(m) /\ Matched(m) => Matched(n)
  BY <1>2, <1>3, <1>5, MatchedAdds, Zenon
<1> QED BY <1>4, <1>5, <1>6, Zenon DEF n

\* routeToBackend: one entry more, for a new request.
LEMMA DispatchMux ==
    ASSUME MuxInv, NEW c \in Clients, NEW a \in Addrs, Dispatch(c, a), kinds' = kinds
    PROVE  MuxStep({<<c, nreq[c], 0>>})
<1> DEFINE e == Entry(c, NextIdx(respQueue[c], respBase[c]), Cmd(c, nreq[c] + 1, 0))
           n == Send(mux, a, e)
<1>1. ConnsOK(mux) /\ mux' = FlushWrites(n)
  BY DEF MuxInv, Dispatch
<1>2. NextIdx(respQueue[c], respBase[c]) = nreq[c] /\ nreq[c] \in Nat
  BY DEF MuxInv, Types, Counted, NextIdx
<1>3. e \in EntryType /\ Owes(e) /\ ~e.skip /\ ~e.cmd.ask /\ Key(e) = <<c, nreq[c], 0>>
  <2> DEFINE i == nreq[c]
  <2>1. e = Entry(c, i, Cmd(c, i + 1, 0)) /\ i \in Nat
    BY <1>2, Zenon
  <2> HIDE DEF e, i
  <2>2. i + 1 \in Nat /\ 0 \in 0..2
    BY <2>1
  <2>3. e \in EntryType /\ Owes(e) /\ ~e.skip /\ ~e.cmd.ask /\ Key(e) = <<c, i, 0>>
    BY <2>1, <2>2, EntryOK, Zenon
  <2> QED BY <2>3, Zenon DEF i
<1> HIDE DEF e
<1>4. /\ ConnsOK(n) /\ Held(n) = Held(mux) \cup {<<c, nreq[c], 0>>}
      /\ KeysApart(mux) /\ <<c, nreq[c], 0>> \notin Held(mux) => KeysApart(n)
      /\ Matched(mux) => Matched(n)
  BY <1>1, <1>3, SendOK
<1> HIDE DEF n
<1>5. /\ ConnsOK(mux') /\ Held(mux') = Held(n) /\ Flushed(mux')
      /\ KeysApart(n) => KeysApart(mux')
      /\ Matched(n) => Matched(mux')
  BY <1>1, <1>4, FlushOK
<1> QED BY <1>4, <1>5, Zenon DEF MuxStep, WireInv, Unmixed

\* routeMultiKeyToMux: two entries more.
LEMMA DispatchFanInMux ==
    ASSUME MuxInv, NEW c \in Clients, NEW a \in Addrs, NEW b \in Addrs, DispatchFanIn(c, a, b),
           kinds' = kinds
    PROVE  MuxStep({<<c, nreq[c], 1>>, <<c, nreq[c], 2>>})
<1> DEFINE idx == NextIdx(respQueue[c], respBase[c])
           d == Entry(c, idx, Cmd(c, nreq[c] + 1, 1))
           e == Entry(c, idx, Cmd(c, nreq[c] + 1, 2))
           m == Send(mux, a, d)
           n == Send(m, b, e)
           k1 == <<c, nreq[c], 1>>
           k2 == <<c, nreq[c], 2>>
<1>1. ConnsOK(mux) /\ mux' = FlushWrites(n)
  BY DEF MuxInv, DispatchFanIn
<1>2. idx = nreq[c] /\ nreq[c] \in Nat
  BY DEF MuxInv, Types, Counted, NextIdx
<1>3. d \in EntryType /\ Owes(d) /\ ~d.skip /\ ~d.cmd.ask /\ Key(d) = k1
  <2> DEFINE i == nreq[c]
  <2>1. d = Entry(c, i, Cmd(c, i + 1, 1)) /\ i \in Nat
    BY <1>2, Zenon
  <2> HIDE DEF d, i
  <2>2. i + 1 \in Nat /\ 1 \in 0..2
    BY <2>1
  <2>3. d \in EntryType /\ Owes(d) /\ ~d.skip /\ ~d.cmd.ask /\ Key(d) = <<c, i, 1>>
    BY <2>1, <2>2, EntryOK, Zenon
  <2> QED BY <2>3, Zenon DEF i
<1>4. e \in EntryType /\ Owes(e) /\ ~e.skip /\ ~e.cmd.ask /\ Key(e) = k2
  <2> DEFINE i == nreq[c]
  <2>1. e = Entry(c, i, Cmd(c, i + 1, 2)) /\ i \in Nat
    BY <1>2, Zenon
  <2> HIDE DEF e, i
  <2>2. i + 1 \in Nat /\ 2 \in 0..2
    BY <2>1
  <2>3. e \in EntryType /\ Owes(e) /\ ~e.skip /\ ~e.cmd.ask /\ Key(e) = <<c, i, 2>>
    BY <2>1, <2>2, EntryOK, Zenon
  <2> QED BY <2>3, Zenon DEF i
<1>5. k1 # k2
  OBVIOUS
<1> HIDE DEF d, e, k1, k2
<1>6. /\ ConnsOK(m) /\ Held(m) = Held(mux) \cup {k1}
      /\ KeysApart(mux) /\ k1 \notin Held(mux) => KeysApart(m)
      /\ Matched(mux) => Matched(m)
  BY <1>1, <1>3, SendOK
<1> HIDE DEF m
<1>7. /\ ConnsOK(n) /\ Held(n) = Held(m) \cup {k2}
      /\ KeysApart(m) /\ k2 \notin Held(m) => KeysApart(n)
      /\ Matched(m) => Matched(n)
  BY <1>4, <1>6, SendOK
<1> HIDE DEF n
<1>8. /\ ConnsOK(mux') /\ Held(mux') = Held(n) /\ Flushed(mux')
      /\ KeysApart(n) => KeysApart(mux')
      /\ Matched(n) => Matched(mux')
  BY <1>1, <1>7, FlushOK
<1>9. Held(mux') \subseteq Held(mux) \cup {k1, k2}
  BY <1>6, <1>7, <1>8, Zenon
<1>10. KeysApart(mux) /\ {k1, k2} \cap Held(mux) = {} => KeysApart(mux')
  BY <1>5, <1>6, <1>7, <1>8, Zenon
<1>11. MuxStep({k1, k2})
  BY <1>6, <1>7, <1>8, <1>9, <1>10, Zenon DEF MuxStep, WireInv, Unmixed
<1> QED BY <1>11 DEF k1, k2

\* onOpen: the queue of the dial becomes the list of pending replies.
LEMMA DialOkMux ==
    ASSUME MuxInv, NEW a \in Addrs, DialOk(a), kinds' = kinds
    PROVE  MuxStep({})
<1> DEFINE q == mux[a].dialing
           t == <<Readonly(Head(q))>>
           all == IF a \in Replicas THEN t \o q ELSE q
<1>1. ConnsOK(mux) /\ q # <<>> /\ mux' = [mux EXCEPT ![a] = Dialed(all)]
  BY Zenon DEF MuxInv, DialOk, Dialed
<1>2. q \in Seq(EntryType)
  BY <1>1, ConnLists
<1>3. Head(q) \in EntryType
  BY <1>1, <1>2, TailPlaces
<1>4. Packet(t, {})
  BY <1>3, ReadonlyPacket
<1>5. all = q \/ all = t \o q
  BY Zenon
<1> HIDE DEF t, all
<1>6. /\ ConnsOK(mux') /\ Held(mux') \subseteq Held(mux)
      /\ KeysApart(mux) => KeysApart(mux')
      /\ Matched(mux) => Matched(mux')
      /\ Flushed(mux) => Flushed(mux')
  BY <1>1, <1>4, <1>5, DialedOK, Zenon
<1> QED BY <1>6, Zenon DEF MuxStep, WireInv, Unmixed

\* onClose and failDialing: nothing is waited for any longer.
LEMMA CloseMux ==
    ASSUME MuxInv, NEW a \in Addrs, mux' = [mux EXCEPT ![a] = NoConn], kinds' = kinds
    PROVE  MuxStep({})
<1>1. ConnsOK(mux)
  BY Zenon DEF MuxInv
<1>2. /\ ConnsOK(mux') /\ Held(mux') \subseteq Held(mux)
      /\ KeysApart(mux) => KeysApart(mux')
      /\ Matched(mux) => Matched(mux')
      /\ Flushed(mux) => Flushed(mux')
  BY <1>1, CloseOK, Zenon
<1> QED BY <1>2, Zenon DEF MuxStep, WireInv, Unmixed

\* The end of onTraffic writes what is buffered.
LEMMA FlushMux ==
    ASSUME MuxInv, mux' = FlushWrites(mux), kinds' = kinds
    PROVE  MuxStep({})
<1>1. ConnsOK(mux)
  BY Zenon DEF MuxInv
<1>2. /\ ConnsOK(mux') /\ Held(mux') = Held(mux) /\ Flushed(mux')
      /\ KeysApart(mux) => KeysApart(mux')
      /\ Matched(mux) => Matched(mux')
  BY <1>1, FlushOK
<1> QED BY <1>2, Zenon DEF MuxStep, WireInv, Unmixed

\* Steps that leave the connections alone.
LEMMA StillMux ==
    ASSUME MuxInv, mux' = mux, kinds' = kinds
    PROVE  MuxStep({})
  BY Zenon DEF MuxInv, MuxStep, WireInv, Unmixed

\* A reply is read that asks for nothing more.
LEMMA ReadMux ==
    ASSUME MuxInv, NEW a \in Addrs, CanRead(a), mux' = Read(a), kinds' = kinds
    PROVE  MuxStep({})
<1>1. ConnsOK(mux) /\ mux[a].wire # <<>>
  BY Zenon DEF MuxInv, CanRead
<1>2. /\ ConnsOK(mux') /\ Held(mux') \subseteq Held(mux)
      /\ KeysApart(mux) => KeysApart(mux')
      /\ Matched(mux) => Matched(mux')
      /\ Flushed(mux) => Flushed(mux')
  BY <1>1, ReadOK, Zenon
<1> QED BY <1>2, Zenon DEF MuxStep, WireInv, Unmixed

\* A redirection: the entry that was read waits elsewhere.
LEMMA RedirectMux ==
    ASSUME MuxInv, NEW a \in Addrs, NEW kind \in kinds, NEW b \in Addrs, ReadRedirect(a, kind, b),
           kinds' = kinds
    PROVE  MuxStep({})
<1> DEFINE w == Waiting(a)
           e == [w EXCEPT !.depth = @ + 1, !.cmd.ask = FALSE]
           m == Read(a)
<1>1. /\ ConnsOK(mux) /\ mux[a].wire # <<>> /\ ~w.skip /\ kinds \in SUBSET {"moved", "ask"}
      /\ \/ kind = "moved" /\ mux' = Send(m, b, e)
         \/ kind = "ask" /\ mux' = SendAsk(m, b, e)
  BY Zenon DEF MuxInv, Types, ReadRedirect, CanRead
<1>2. /\ w \in EntryType /\ Owes(w) /\ Key(w) \in Held(mux)
      /\ KeysApart(mux) => Key(w) \notin Held(m)
  BY <1>1, WaitingOK, Zenon
<1>3. /\ ConnsOK(m) /\ Held(m) \subseteq Held(mux)
      /\ KeysApart(mux) => KeysApart(m)
      /\ Matched(mux) => Matched(m)
      /\ Flushed(mux) => Flushed(m)
  BY <1>1, ReadOK, Zenon
<1> HIDE DEF m, w
<1>4. e \in EntryType /\ Owes(e) /\ ~e.skip /\ ~e.cmd.ask /\ Key(e) = Key(w)
  <2>1. w.depth + 1 \in Nat
    BY <1>2 DEF EntryType
  <2> QED BY <1>1, <1>2, <2>1, Zenon DEF EntryType, CmdType, Owes, Key
<1> HIDE DEF e
<1>5. CASE kind = "moved" /\ mux' = Send(m, b, e)
  <2>1. /\ ConnsOK(mux') /\ Held(mux') = Held(m) \cup {Key(e)}
        /\ KeysApart(m) /\ Key(e) \notin Held(m) => KeysApart(mux')
        /\ Matched(m) => Matched(mux')
    BY <1>3, <1>4, <1>5, SendOK, Zenon
  <2>2. Unmixed => "ask" \notin kinds
    BY <1>1, <1>5, Zenon DEF Unmixed
  <2>3. WireInv => WireInv'
    BY <1>3, <2>1, <2>2, Zenon DEF WireInv, Unmixed
  <2> QED BY <1>2, <1>3, <1>4, <2>1, <2>3, Zenon DEF MuxStep
<1>6. CASE kind = "ask" /\ mux' = SendAsk(m, b, e)
  <2>1. /\ ConnsOK(mux') /\ Held(mux') = Held(m) \cup {Key(e)}
        /\ KeysApart(m) /\ Key(e) \notin Held(m) => KeysApart(mux')
        /\ Flushed(m) => Flushed(mux')
        /\ Flushed(m) /\ Matched(m) => Matched(mux')
    BY <1>3, <1>4, <1>6, SendAskOK, Zenon
  <2>2. WireInv => WireInv'
    BY <1>3, <1>6, <2>1, Zenon DEF WireInv, Unmixed
  <2> QED BY <1>2, <1>3, <1>4, <2>1, <2>2, Zenon DEF MuxStep
<1> QED BY <1>1, <1>5, <1>6, Zenon

------------------------------------------------------------------------------
\* The closures that a lost connection or a failed dial queues.

\* What is used of finite sets, as an assumption: the library of which it is a
\* consequence is brought in at the end.
PlacesFact == \A n \in Nat : \A S \in SUBSET (1..n) : Cardinality(S) \in Nat

TaskOK(t) == ReplyOK(t.data, t.client, t.idx + 1)

\* Each answers its entry's request with an error.
LEMMA ErrorTaskOK ==
    ASSUME NEW e \in EntryType, Owes(e), ~e.skip
    PROVE  ErrorTask(e) \in TaskType /\ TaskOK(ErrorTask(e))
<1>1. /\ e.client \in Clients /\ e.idx \in Nat /\ e.cmd \in CmdType
      /\ e.cmd.op = "req" /\ e.cmd.client = e.client /\ e.cmd.req = e.idx + 1
  BY DEF EntryType, Owes
<1> DEFINE d == Reply("error", e.cmd)
<1>2. d \in ReplyType /\ ReplyOK(d, e.client, e.idx + 1)
  BY <1>1, ReplyTyped, ReplyGood, Zenon
<1> HIDE DEF d
<1>3. ErrorTask(e) = [client |-> e.client, idx |-> e.idx, data |-> d]
  BY DEF ErrorTask, d
<1>4. ErrorTask(e).client = e.client /\ ErrorTask(e).idx = e.idx /\ ErrorTask(e).data = d
  BY <1>3
<1>5. TaskOK(ErrorTask(e))
  BY <1>2, <1>4, Zenon DEF TaskOK
<1>6. ErrorTask(e) \in TaskType
  BY <1>1, <1>2, <1>3 DEF TaskType
<1> QED BY <1>5, <1>6, Zenon

\* And so does the list of them.
LEMMA ErrorsOK ==
    ASSUME PlacesFact, NEW s \in Seq(EntryType), AllOwe(s), NEW t \in Errors(s)
    PROVE  t \in Seq(TaskType) /\ \A i \in 1..Len(t) : TaskOK(t[i])
<1> DEFINE owing == {i \in DOMAIN s : ~s[i].skip /\ s[i].client \in open}
           n == Cardinality(owing)
<1>1. Len(s) \in Nat /\ DOMAIN s = 1..Len(s)
  OBVIOUS
<1>2. n \in Nat
  <2>1. owing \in SUBSET (1..Len(s))
    BY <1>1
  <2> QED BY <1>1, <2>1, Zenon DEF PlacesFact
<1>3. PICK f \in [1..n -> owing] : t = [k \in 1..n |-> ErrorTask(s[f[k]])]
  BY Zenon DEF Errors
<1>4. ASSUME NEW k \in 1..n
      PROVE  ErrorTask(s[f[k]]) \in TaskType /\ TaskOK(ErrorTask(s[f[k]]))
  <2> DEFINE i == f[k]
  <2>1. i \in owing
    BY <1>3, Zenon
  <2> HIDE DEF i
  <2>2. i \in 1..Len(s) /\ ~s[i].skip
    BY <1>1, <2>1, Zenon
  <2>3. s[i] \in EntryType /\ Owes(s[i])
    BY <2>2 DEF AllOwe
  <2>4. ErrorTask(s[i]) \in TaskType /\ TaskOK(ErrorTask(s[i]))
    BY <2>2, <2>3, ErrorTaskOK
  <2> QED BY <2>4, Zenon DEF i
<1> HIDE DEF n, owing
<1> DEFINE g(k) == ErrorTask(s[f[k]])
<1>5. \A k \in 1..n : g(k) \in TaskType /\ TaskOK(g(k))
  BY <1>4, Zenon
<1>6. t = [k \in 1..n |-> g(k)]
  BY <1>3, Zenon
<1> HIDE DEF g
<1>7. t \in Seq(TaskType) /\ Len(t) = n /\ \A k \in 1..n : t[k] = g(k)
  BY <1>2, <1>5, <1>6
<1> QED BY <1>5, <1>7

\* Both lists of a connection are such lists.
LEMMA FailedOK ==
    ASSUME PlacesFact, MuxInv, NEW a \in Addrs,
           NEW t \in Errors(mux[a].dialing) \cup Errors(mux[a].pending)
    PROVE  t \in Seq(TaskType) /\ \A i \in 1..Len(t) : TaskOK(t[i])
<1>1. /\ mux[a].dialing \in Seq(EntryType) /\ mux[a].pending \in Seq(EntryType)
      /\ AllOwe(mux[a].dialing) /\ AllOwe(mux[a].pending)
  BY ConnLists, Zenon DEF MuxInv, ConnsOK, ConnOK
<1>2. CASE t \in Errors(mux[a].dialing)
  BY <1>1, <1>2, ErrorsOK
<1>3. CASE t \in Errors(mux[a].pending)
  BY <1>1, <1>3, ErrorsOK
<1> QED BY <1>2, <1>3

------------------------------------------------------------------------------
\* What the filling steps do to a client's queue.

\* The slots r takes off the front of c's queue are written; the others stay.
Drains(c, r) ==
    /\ Typed(r, respQueue[c])
    /\ respQueue' = [respQueue EXCEPT ![c] = r.queue]
    /\ respBase' = [respBase EXCEPT ![c] = @ + Len(r.iov)]

\* fillResponseSlotInLoop, with a right reply.
LEMMA FillDrains ==
    ASSUME MuxInv, FillResponseSlotInLoop
    PROVE  /\ tasks # <<>> /\ Head(tasks) \in TaskType /\ tasks' = Tail(tasks)
           /\ \E r : LET c == Head(tasks).client IN
                /\ Drains(c, r)
                /\ QueueOK(respQueue[c], c, respBase[c]) /\ TaskOK(Head(tasks))
                   => Good(r, respQueue[c], c, respBase[c], {})
                /\ out' = [out EXCEPT ![c] = IF c \in open THEN @ \o r.iov ELSE @]
<1> DEFINE t == Head(tasks)
           c == t.client
           q == respQueue[c]
           B == respBase[c]
<1>1. tasks # <<>> /\ tasks \in Seq(TaskType) /\ tasks' = Tail(tasks)
  BY Zenon DEF MuxInv, Types, FillResponseSlotInLoop
<1>2. t \in TaskType
  BY <1>1
<1>3. PICK r \in FillInLoop(q, B, t.idx, t.data) :
         /\ respQueue' = [respQueue EXCEPT ![c] = r.queue]
         /\ respBase' = [respBase EXCEPT ![c] = @ + Len(r.iov)]
         /\ out' = [out EXCEPT ![c] = IF c \in open THEN @ \o r.iov ELSE @]
  BY Zenon DEF FillResponseSlotInLoop
<1> HIDE DEF t
<1>4. c \in Clients /\ t.idx \in Nat /\ t.data \in ReplyType
  BY <1>2 DEF TaskType
<1>5. q \in Seq(SlotType) /\ B \in Nat
  BY <1>4, Zenon DEF MuxInv, Types
<1> HIDE DEF c, q, B
<1>6. Typed(r, q) /\ (QueueOK(q, c, B) /\ ReplyOK(t.data, c, t.idx + 1) => Good(r, q, c, B, {}))
  BY <1>3, <1>4, <1>5, FillGood
<1> QED BY <1>1, <1>2, <1>3, <1>6, Zenon DEF Drains, TaskOK, t, c, q, B

\* accumulateResponseSlot and accumulateFanInSubResponse, with the reply that
\* is due: what they store is no longer waited for.
LEMMA ReplyDrains ==
    ASSUME MuxInv, NEW a \in Addrs, ReadReply(a), Waiting(a).client \in open
    PROVE  \E r : LET c == Waiting(a).client IN
                /\ Drains(c, r)
                /\ /\ QueueOK(respQueue[c], c, respBase[c]) /\ Matched(mux)
                   /\ Key(Waiting(a)) \notin StoredKeys(respQueue[c], c, respBase[c])
                   => Good(r, respQueue[c], c, respBase[c], {Key(Waiting(a))})
                /\ accum' = [accum EXCEPT ![c] = @ \o r.iov]
<1> DEFINE e == Waiting(a)
           c == e.client
           q == respQueue[c]
           B == respBase[c]
           tag == Head(mux[a].wire)
<1>1. ConnsOK(mux) /\ mux[a].wire # <<>> /\ ~e.skip
  BY Zenon DEF MuxInv, ReadReply, CanRead
<1>2. e \in EntryType /\ Owes(e) /\ (Matched(mux) => tag = e.cmd)
  BY <1>1, WaitingOK, Zenon
<1>3. mux[a].wire \in Seq(CmdType)
  BY <1>1, ConnLists, Zenon
<1>4. tag \in CmdType
  <2> DEFINE w == mux[a].wire
  <2>1. w \in Seq(CmdType) /\ w # <<>>
    BY <1>1, <1>3, Zenon
  <2> HIDE DEF w
  <2>2. Head(w) \in CmdType
    BY <2>1
  <2> QED BY <2>2, Zenon DEF w
<1>5. PICK r \in IF e.cmd.sub # 0 THEN AccumulateSub(q, B, e.idx, tag)
                                  ELSE AccumulateSlot(q, B, e.idx, tag) :
         /\ respQueue' = [respQueue EXCEPT ![c] = r.queue]
         /\ respBase' = [respBase EXCEPT ![c] = @ + Len(r.iov)]
         /\ accum' = [accum EXCEPT ![c] = @ \o r.iov]
  BY Zenon DEF ReadReply
<1> HIDE DEF e, tag
<1>6. /\ c \in Clients /\ e.idx \in Nat /\ Key(e) = <<c, e.idx, e.cmd.sub>>
      /\ Matched(mux) => tag.op = "req" /\ tag.client = c /\ tag.req = e.idx + 1
                         /\ tag.sub = e.cmd.sub
  BY <1>1, <1>2, Zenon DEF EntryType, Owes, Key
<1>7. q \in Seq(SlotType) /\ B \in Nat
  BY <1>6, Zenon DEF MuxInv, Types
<1> HIDE DEF c, q, B
<1>8. Typed(r, q) /\ (QueueOK(q, c, B) /\ Matched(mux) /\ Key(e) \notin StoredKeys(q, c, B)
                        => Good(r, q, c, B, {Key(e)}))
  <2>1. CASE e.cmd.sub # 0
    <3>1. r \in AccumulateSub(q, B, e.idx, tag)
      BY <1>5, <2>1, Zenon
    <3>2. /\ Typed(r, q)
          /\ /\ QueueOK(q, c, B) /\ tag.op = "req" /\ tag.client = c /\ tag.req = e.idx + 1
             /\ tag.sub # 0 /\ <<c, e.idx, tag.sub>> \notin StoredKeys(q, c, B)
             => Good(r, q, c, B, {<<c, e.idx, tag.sub>>})
      BY <1>4, <1>6, <1>7, <3>1, AccumulateSubGood, Zenon
    <3> QED BY <1>6, <2>1, <3>2, Zenon
  <2>2. CASE e.cmd.sub = 0
    <3>1. r \in AccumulateSlot(q, B, e.idx, tag)
      BY <1>5, <2>2, Zenon
    <3>2. /\ Typed(r, q)
          /\ QueueOK(q, c, B) /\ tag.op = "req" /\ tag.client = c /\ tag.req = e.idx + 1
             => Good(r, q, c, B, {})
      BY <1>4, <1>6, <1>7, <3>1, AccumulateSlotGood, Zenon
    <3>3. Good(r, q, c, B, {}) => Good(r, q, c, B, {Key(e)})
      BY Zenon DEF Good
    <3> QED BY <1>6, <3>2, <3>3, Zenon
  <2> QED BY <2>1, <2>2, Zenon
<1> QED BY <1>5, <1>8, Zenon DEF Drains, e, c, q, B

\* Types and counts of such a step.
LEMMA DrainsTyped ==
    ASSUME MuxInv, NEW c \in Clients, NEW r, Drains(c, r)
    PROVE  /\ respQueue' \in [Clients -> Seq(SlotType)] /\ respBase' \in [Clients -> Nat]
           /\ nreq' = nreq => Counted'
<1> DEFINE n == respBase[c] + Len(r.iov)
<1>1. /\ respQueue \in [Clients -> Seq(SlotType)] /\ respBase \in [Clients -> Nat]
      /\ r.queue \in Seq(SlotType) /\ r.iov \in Seq(DataType)
      /\ Len(r.queue) + Len(r.iov) = Len(respQueue[c])
      /\ respQueue' = [respQueue EXCEPT ![c] = r.queue]
      /\ respBase' = [respBase EXCEPT ![c] = n]
  BY Zenon DEF MuxInv, Types, Drains, Typed
<1>2. n \in Nat /\ Len(r.queue) \in Nat /\ n + Len(r.queue) = respBase[c] + Len(respQueue[c])
  <2> DEFINE x == r.queue
             y == r.iov
             z == respQueue[c]
  <2>1. /\ x \in Seq(SlotType) /\ y \in Seq(DataType) /\ respBase[c] \in Nat
        /\ Len(x) + Len(y) = Len(z)
    BY <1>1, Zenon
  <2> DEFINE lx == Len(x)
             ly == Len(y)
             b == respBase[c]
  <2> HIDE DEF x, y, z
  <2>2. lx \in Nat /\ ly \in Nat
    BY <2>1
  <2>3. b \in Nat /\ lx + ly = Len(z)
    BY <2>1, Zenon
  <2> HIDE DEF lx, ly, b
  <2>4. b + ly \in Nat /\ (b + ly) + lx = b + (lx + ly)
    BY <2>2, <2>3
  <2>5. b + ly \in Nat /\ lx \in Nat /\ (b + ly) + lx = b + Len(z)
    BY <2>2, <2>3, <2>4, Zenon
  <2> QED BY <2>5, Zenon DEF x, y, z, lx, ly, b
<1> HIDE DEF n
<1>3. respQueue' \in [Clients -> Seq(SlotType)] /\ respBase' \in [Clients -> Nat]
  BY <1>1, <1>2, Zenon
<1>4. ASSUME nreq' = nreq, NEW d \in Clients
      PROVE  nreq'[d] = respBase'[d] + Len(respQueue'[d])
  <2>1. nreq[d] = respBase[d] + Len(respQueue[d])
    BY Zenon DEF MuxInv, Counted
  <2>2. CASE d = c
    <3>1. respQueue'[d] = r.queue /\ respBase'[d] = n
      BY <1>1, <2>2, Zenon
    <3> QED BY <1>2, <1>4, <2>1, <2>2, <3>1, Zenon
  <2>3. CASE d # c
    <3>1. respQueue'[d] = respQueue[d] /\ respBase'[d] = respBase[d]
      BY <1>1, <2>3, Zenon
    <3> QED BY <1>4, <2>1, <3>1, Zenon
  <2> QED BY <2>2, <2>3, Zenon
<1> QED BY <1>3, <1>4, Zenon DEF Counted

------------------------------------------------------------------------------
\* MuxInv and WireInv are kept.

\* allocResponseSlot gives a new request a slot at the end.
Allocates(c, slot) ==
    /\ nreq' = [nreq EXCEPT ![c] = @ + 1]
    /\ respQueue' = [respQueue EXCEPT ![c] = Append(@, slot)]
    /\ respBase' = respBase

\* The slot has its type, and the queue still ends with the newest request's.
LEMMA AllocatesTyped ==
    ASSUME MuxInv, NEW c \in Clients, NEW slot \in SlotType, Allocates(c, slot)
    PROVE  /\ respQueue' \in [Clients -> Seq(SlotType)] /\ nreq' \in [Clients -> Nat]
           /\ Counted'
<1> DEFINE q == respQueue[c]
           p == Append(q, slot)
           n == nreq[c] + 1
<1>1. /\ respQueue \in [Clients -> Seq(SlotType)] /\ nreq \in [Clients -> Nat]
      /\ respBase \in [Clients -> Nat] /\ respBase' = respBase
      /\ respQueue' = [respQueue EXCEPT ![c] = p] /\ nreq' = [nreq EXCEPT ![c] = n]
  BY Zenon DEF MuxInv, Types, Allocates
<1>2. /\ nreq[c] = respBase[c] + Len(q) /\ q \in Seq(SlotType)
      /\ nreq[c] \in Nat /\ respBase[c] \in Nat
  BY <1>1, Zenon DEF MuxInv, Counted
<1> HIDE DEF q
<1>3. p \in Seq(SlotType) /\ n \in Nat /\ n = respBase[c] + Len(p)
  BY <1>2
<1> HIDE DEF p, n
<1>4. respQueue' \in [Clients -> Seq(SlotType)] /\ nreq' \in [Clients -> Nat]
  BY <1>1, <1>3, Zenon
<1>5. ASSUME NEW d \in Clients
      PROVE  nreq'[d] = respBase'[d] + Len(respQueue'[d])
  <2>1. CASE d = c
    <3>1. respQueue'[d] = p /\ nreq'[d] = n
      BY <1>1, <2>1, Zenon
    <3> QED BY <1>1, <1>3, <2>1, <3>1, Zenon
  <2>2. CASE d # c
    <3>1. respQueue'[d] = respQueue[d] /\ nreq'[d] = nreq[d]
      BY <1>1, <2>2, Zenon
    <3> QED BY <1>1, <3>1, Zenon DEF MuxInv, Counted
  <2> QED BY <2>1, <2>2, Zenon
<1> QED BY <1>4, <1>5, Zenon DEF Counted

\* Lists that grow keep their type.
LEMMA Lists ==
    /\ \A s, t \in Seq(DataType) : s \o t \in Seq(DataType) /\ Len(s \o t) = Len(s) + Len(t)
    /\ \A s, t \in Seq(TaskType) : s \o t \in Seq(TaskType)
    /\ \A s \in Seq(TaskType) : s # <<>> => Tail(s) \in Seq(TaskType)
    /\ <<>> \in Seq(DataType) /\ <<>> \in Seq(TaskType) /\ <<>> \in Seq(SlotType)
  OBVIOUS

\* Steps that leave the client's variables alone, or only the closures grow.
LEMMA StillTyped ==
    ASSUME MuxInv, UNCHANGED clientVars, kinds' = kinds, open' \in SUBSET Clients,
           tasks' \in Seq(TaskType)
    PROVE  Types' /\ Counted'
  BY Zenon DEF MuxInv, Types, Counted, clientVars

\* The invariant is kept by every step, and so is the match of requests and
\* entries if a behaviour has one kind of redirection.
LEMMA MuxInvNext ==
    ASSUME PlacesFact, MuxInv, [Next]_vars
    PROVE  MuxInv' /\ (WireInv => WireInv')
<1> SUFFICES Types' /\ Counted' /\ \E ks : MuxStep(ks)
  BY Zenon DEF MuxInv, MuxStep
<1>0. /\ kinds' = kinds /\ kinds \in SUBSET {"moved", "ask"} /\ open \in SUBSET Clients
      /\ tasks \in Seq(TaskType)
  BY Zenon DEF MuxInv, Types, Next, vars
<1>1. ASSUME NEW c \in Clients, NEW a \in Addrs, Dispatch(c, a)
      PROVE  Types' /\ Counted' /\ \E ks : MuxStep(ks)
  <2>1. Allocates(c, NewSlot(0)) /\ UNCHANGED <<respBase, open, tasks, accum, out>>
    BY <1>1, Zenon DEF Dispatch, Allocates
  <2>2. /\ respQueue' \in [Clients -> Seq(SlotType)] /\ nreq' \in [Clients -> Nat]
        /\ Counted'
    BY <2>1, NewSlotTyped, AllocatesTyped, Zenon
  <2> QED BY <1>0, <1>1, <2>1, <2>2, DispatchMux, Zenon DEF Types, MuxInv
<1>2. ASSUME NEW c \in Clients, NEW a \in Addrs, NEW b \in Addrs, DispatchFanIn(c, a, b)
      PROVE  Types' /\ Counted' /\ \E ks : MuxStep(ks)
  <2>1. Allocates(c, NewSlot(2)) /\ UNCHANGED <<respBase, open, tasks, accum, out>>
    BY <1>2, Zenon DEF DispatchFanIn, Allocates
  <2>2. /\ respQueue' \in [Clients -> Seq(SlotType)] /\ nreq' \in [Clients -> Nat]
        /\ Counted'
    BY <2>1, NewSlotTyped, AllocatesTyped, Zenon
  <2> QED BY <1>0, <1>2, <2>1, <2>2, DispatchFanInMux, Zenon DEF Types, MuxInv
<1>3. ASSUME NEW c \in Clients, ClientClose(c)
      PROVE  Types' /\ Counted' /\ \E ks : MuxStep(ks)
  <2>1. UNCHANGED <<mux, tasks, clientVars>> /\ open' \in SUBSET Clients
    BY <1>0, <1>3 DEF ClientClose
  <2>2. Types' /\ Counted'
    BY <1>0, <2>1, StillTyped, Zenon
  <2> QED BY <1>0, <2>1, <2>2, StillMux, Zenon
<1>4. ASSUME NEW a \in Addrs, ConnClose(a) \/ DialFail(a)
      PROVE  Types' /\ Counted' /\ \E ks : MuxStep(ks)
  <2>1. PICK t \in Errors(mux[a].dialing) \cup Errors(mux[a].pending) : tasks' = tasks \o t
    BY <1>4, Zenon DEF ConnClose, DialFail
  <2>2. /\ mux' = [mux EXCEPT ![a] = NoConn] /\ UNCHANGED <<open, clientVars>>
    BY <1>4, Zenon DEF ConnClose, DialFail
  <2>3. tasks' \in Seq(TaskType)
    BY <1>0, <2>1, FailedOK, Lists, Zenon
  <2>4. Types' /\ Counted'
    BY <1>0, <2>2, <2>3, StillTyped, Zenon
  <2> QED BY <1>0, <2>2, <2>4, CloseMux, Zenon
<1>5. ASSUME NEW a \in Addrs, DialOk(a)
      PROVE  Types' /\ Counted' /\ \E ks : MuxStep(ks)
  <2>1. UNCHANGED <<open, tasks, clientVars>>
    BY <1>5, Zenon DEF DialOk
  <2>2. Types' /\ Counted'
    BY <1>0, <2>1, StillTyped, Zenon
  <2> QED BY <1>0, <1>5, <2>2, DialOkMux, Zenon
<1>6. ASSUME FillResponseSlotInLoop
      PROVE  Types' /\ Counted' /\ \E ks : MuxStep(ks)
  <2> DEFINE c == Head(tasks).client
  <2>1. UNCHANGED <<mux, open, accum, nreq>>
    BY <1>6, Zenon DEF FillResponseSlotInLoop
  <2>2. tasks # <<>> /\ Head(tasks) \in TaskType /\ tasks' = Tail(tasks)
    BY <1>6, FillDrains, Zenon
  <2>3. PICK r : /\ Drains(c, r)
                 /\ out' = [out EXCEPT ![c] = IF c \in open THEN @ \o r.iov ELSE @]
    BY <1>6, FillDrains, Zenon
  <2>4. c \in Clients
    BY <2>2 DEF TaskType
  <2> HIDE DEF c
  <2>5. /\ respQueue' \in [Clients -> Seq(SlotType)] /\ respBase' \in [Clients -> Nat]
        /\ Counted'
    BY <2>1, <2>3, <2>4, DrainsTyped
  <2>6. out' \in [Clients -> Seq(DataType)]
    <3>1. out \in [Clients -> Seq(DataType)] /\ r.iov \in Seq(DataType)
      BY <2>3, Zenon DEF MuxInv, Types, Drains, Typed
    <3>2. out[c] \in Seq(DataType) /\ out[c] \o r.iov \in Seq(DataType)
      BY <2>4, <3>1, Lists, Zenon
    <3> QED BY <2>3, <3>1, <3>2, Zenon
  <2>7. tasks' \in Seq(TaskType)
    BY <1>0, <2>2, Lists, Zenon
  <2> QED BY <1>0, <2>1, <2>5, <2>6, <2>7, StillMux, Zenon DEF Types, MuxInv
<1>7. ASSUME NEW a \in Addrs, ReadSkipped(a)
      PROVE  Types' /\ Counted' /\ \E ks : MuxStep(ks)
  <2>1. UNCHANGED <<open, tasks, clientVars>> /\ CanRead(a) /\ mux' = Read(a)
    BY <1>7, Zenon DEF ReadSkipped
  <2>2. Types' /\ Counted'
    BY <1>0, <2>1, StillTyped, Zenon
  <2> QED BY <1>0, <2>1, <2>2, ReadMux, Zenon
<1>8. ASSUME NEW a \in Addrs, NEW kind \in kinds, NEW b \in Addrs, ReadRedirect(a, kind, b)
      PROVE  Types' /\ Counted' /\ \E ks : MuxStep(ks)
  <2>1. UNCHANGED <<open, tasks, clientVars>>
    BY <1>8, Zenon DEF ReadRedirect
  <2>2. Types' /\ Counted'
    BY <1>0, <2>1, StillTyped, Zenon
  <2> QED BY <1>0, <1>8, <2>2, RedirectMux, Zenon
<1>9. ASSUME NEW a \in Addrs, ReadReply(a)
      PROVE  Types' /\ Counted' /\ \E ks : MuxStep(ks)
  <2> DEFINE c == Waiting(a).client
  <2>1. UNCHANGED <<open, tasks, out, nreq>> /\ CanRead(a) /\ mux' = Read(a)
    BY <1>9, Zenon DEF ReadReply
  <2>2. MuxStep({})
    BY <1>0, <2>1, ReadMux, Zenon
  <2>3. CASE c \in open
    <3>1. PICK r : Drains(c, r) /\ accum' = [accum EXCEPT ![c] = @ \o r.iov]
      BY <1>9, <2>3, ReplyDrains, Zenon
    <3>2. c \in Clients
      BY <1>0, <2>3, Zenon
    <3> HIDE DEF c
    <3>3. /\ respQueue' \in [Clients -> Seq(SlotType)] /\ respBase' \in [Clients -> Nat]
          /\ Counted'
      BY <2>1, <3>1, <3>2, DrainsTyped
    <3>4. accum' \in [Clients -> Seq(DataType)]
      <4>1. accum \in [Clients -> Seq(DataType)] /\ r.iov \in Seq(DataType)
        BY <3>1, Zenon DEF MuxInv, Types, Drains, Typed
      <4>2. accum[c] \o r.iov \in Seq(DataType)
        BY <3>2, <4>1, Lists, Zenon
      <4> QED BY <3>1, <4>1, <4>2, Zenon
    <3> QED BY <1>0, <2>1, <2>2, <3>3, <3>4, Zenon DEF Types, MuxInv
  <2>4. CASE c \notin open
    <3>1. UNCHANGED <<respQueue, respBase, accum>>
      BY <1>9, <2>4, Zenon DEF ReadReply
    <3>2. UNCHANGED clientVars
      BY <2>1, <3>1, Zenon DEF clientVars
    <3>3. Types' /\ Counted'
      BY <1>0, <2>1, <3>2, StillTyped, Zenon
    <3> QED BY <2>2, <3>3, Zenon
  <2> QED BY <2>3, <2>4, Zenon
<1>10. ASSUME EndTraffic
       PROVE  Types' /\ Counted' /\ \E ks : MuxStep(ks)
  <2>1. /\ out' = [c \in Clients |-> out[c] \o accum[c]] /\ accum' = [c \in Clients |-> <<>>]
        /\ mux' = FlushWrites(mux) /\ UNCHANGED <<respQueue, respBase, open, tasks, nreq>>
    BY <1>10, Zenon DEF EndTraffic
  <2>2. out' \in [Clients -> Seq(DataType)] /\ accum' \in [Clients -> Seq(DataType)]
    <3>1. out \in [Clients -> Seq(DataType)] /\ accum \in [Clients -> Seq(DataType)]
      BY Zenon DEF MuxInv, Types
    <3>2. \A c \in Clients : out[c] \o accum[c] \in Seq(DataType)
      BY <3>1, Lists, Zenon
    <3> QED BY <2>1, <3>2, Lists, Zenon
  <2> QED BY <1>0, <2>1, <2>2, FlushMux, Zenon DEF Types, MuxInv, Counted
<1>11. ASSUME UNCHANGED vars
       PROVE  Types' /\ Counted' /\ \E ks : MuxStep(ks)
  <2>1. UNCHANGED <<mux, open, tasks, clientVars>>
    BY <1>11, Zenon DEF vars, clientVars
  <2>2. Types' /\ Counted'
    BY <1>0, <2>1, StillTyped, Zenon
  <2> QED BY <1>0, <2>1, <2>2, StillMux, Zenon
<1> QED
  BY <1>1, <1>2, <1>3, <1>4, <1>5, <1>6, <1>7, <1>8, <1>9, <1>10, <1>11, Zenon
     DEF Next, Progress

------------------------------------------------------------------------------
\* The replies.

\* What a sub-request is waited for is below the number of requests sent.
Fresh(H, n) == \A c \in Clients, i \in Nat, s \in 0..2 : <<c, i, s>> \in H => i < n[c]

\* o is what c was sent, ac what is accumulated for it: one reply per request.
Written(o, ac, c) ==
    /\ \A i \in 1..Len(o) : ReplyOK(o[i], c, i)
    /\ \A i \in 1..Len(ac) : ReplyOK(ac[i], c, Len(o) + i)

\* The queue of a connected client goes on where the written replies end, and
\* no sub-reply is both stored and waited for.
Level(q, B, o, ac, H, c) ==
    /\ B = Len(o) + Len(ac)
    /\ QueueOK(q, c, B)
    /\ StoredKeys(q, c, B) \cap H = {}

\* Only onTraffic accumulates, and only for connected clients.
Idle == \A c \in Clients : traffic = NoAddr \/ c \notin open => accum[c] = <<>>

Replies ==
    /\ KeysApart(mux) /\ Fresh(Held(mux), nreq) /\ Idle
    /\ \A i \in 1..Len(tasks) : TaskOK(tasks[i])
    /\ \A c \in Clients : Written(out[c], accum[c], c)
    /\ \A c \in open : Level(respQueue[c], respBase[c], out[c], accum[c], Held(mux), c)

\* A stored sub-reply is one of a request whose slot is in the queue.
Below(y, c, n) == \E i \in Nat : \E s : y = <<c, i, s>> /\ i < n

LEMMA StoredBelow ==
    ASSUME NEW q \in Seq(SlotType), NEW c, NEW B \in Nat, NEW y \in StoredKeys(q, c, B)
    PROVE  Below(y, c, B + Len(q))
<1>1. PICK k \in 1..Len(q) : y \in SlotKeys(q[k], c, B + k - 1)
  BY InStored
<1>2. PICK s : y = <<c, B + k - 1, s>>
  BY <1>1, Zenon DEF SlotKeys, SubKeys
<1> DEFINE i == B + k - 1
<1>3. i \in Nat /\ i < B + Len(q)
  OBVIOUS
<1> QED BY <1>2, <1>3, Zenon DEF Below

\* A new slot stores nothing and is as it should be.
LEMMA NewSlotLevel ==
    ASSUME NEW q \in Seq(SlotType), NEW c, NEW B \in Nat, NEW slot \in {NewSlot(0), NewSlot(2)},
           QueueOK(q, c, B)
    PROVE  /\ QueueOK(Append(q, slot), c, B)
           /\ StoredKeys(Append(q, slot), c, B) \subseteq StoredKeys(q, c, B)
<1> DEFINE p == Append(q, slot)
<1>1. /\ slot \in SlotType /\ slot.ready = FALSE /\ slot.fanIn.subData = {}
      /\ slot.fanIn.total \in {0, 2} /\ (slot.fanIn.total = 2 => slot.fanIn.received = 0)
  BY NewSlotTyped
<1>2. /\ Len(p) = Len(q) + 1 /\ Len(q) \in Nat /\ p[Len(q) + 1] = slot
      /\ \A k \in 1..Len(q) : p[k] = q[k]
  BY <1>1
<1> HIDE DEF p
<1>3. Subs(slot.fanIn) = {}
  BY <1>1, Zenon DEF Subs
<1>4. \A n : SlotOK(slot, c, n)
  BY <1>1, <1>3, Zenon DEF SlotOK, FanOK
<1>5. QueueOK(p, c, B)
  <2>1. ASSUME NEW k \in 1..Len(p)
        PROVE  SlotOK(p[k], c, B + k)
    <3>1. k \in 1..Len(q) \/ k = Len(q) + 1
      BY <1>2
    <3> QED BY <1>2, <1>4, <3>1, Zenon DEF QueueOK
  <2> QED BY <2>1, Zenon DEF QueueOK
<1>6. ASSUME NEW y \in StoredKeys(p, c, B)
      PROVE  y \in StoredKeys(q, c, B)
  <2>1. PICK k \in 1..Len(p) : y \in SlotKeys(p[k], c, B + k - 1)
    BY InStored
  <2>2. k # Len(q) + 1
    BY <1>2, <1>3, <2>1, Zenon DEF SlotKeys, SubKeys
  <2>3. k \in 1..Len(q)
    BY <1>2, <2>2
  <2>4. p[k] = q[k]
    BY <1>2, <2>3
  <2> QED BY <2>1, <2>3, <2>4, InStored, Zenon
<1>7. StoredKeys(p, c, B) \subseteq StoredKeys(q, c, B)
  BY <1>6, Zenon
<1> QED BY <1>5, <1>7 DEF p

\* A dispatch: its keys are new.
LEMMA DispatchReplies ==
    ASSUME MuxInv, Replies, NEW c \in Clients, NEW S \in SUBSET (0..2),
           NEW slot \in {NewSlot(0), NewSlot(2)}, MuxStep({<<c, nreq[c], s>> : s \in S}),
           Allocates(c, slot), UNCHANGED <<open, tasks, accum, traffic, out>>
    PROVE  Replies'
<1> DEFINE ks == {<<c, nreq[c], s>> : s \in S}
           H == Held(mux)
           K == Held(mux')
<1>1. /\ respQueue \in [Clients -> Seq(SlotType)] /\ nreq \in [Clients -> Nat]
      /\ respBase \in [Clients -> Nat] /\ open \in SUBSET Clients
      /\ nreq[c] = respBase[c] + Len(respQueue[c])
  BY Zenon DEF MuxInv, Types, Counted
<1>2. /\ nreq' = [nreq EXCEPT ![c] = nreq[c] + 1] /\ respBase' = respBase
      /\ respQueue' = [respQueue EXCEPT ![c] = Append(respQueue[c], slot)]
  BY Zenon DEF Allocates
<1>3. ks \cap H = {}
  <2>1. ASSUME NEW s \in S, <<c, nreq[c], s>> \in H
        PROVE  FALSE
    <3>1. nreq[c] \in Nat /\ s \in 0..2
      BY <1>1
    <3>2. nreq[c] < nreq[c]
      BY <2>1, <3>1, Zenon DEF Replies, Fresh
    <3> QED BY <3>1, <3>2
  <2> QED BY <2>1, Zenon
<1>4. K \subseteq H \cup ks /\ KeysApart(mux')
  BY <1>3, Zenon DEF MuxStep, Replies
<1>5. Fresh(K, nreq')
  <2>1. ASSUME NEW d \in Clients, NEW i \in Nat, NEW s \in 0..2, <<d, i, s>> \in K
        PROVE  i < nreq'[d]
    <3>1. nreq'[d] = IF d = c THEN nreq[c] + 1 ELSE nreq[d]
      BY <1>1, <1>2, Zenon
    <3>2. nreq[d] \in Nat /\ nreq[c] \in Nat
      BY <1>1, Zenon
    <3>3. CASE <<d, i, s>> \in H
      <4>1. i < nreq[d]
        BY <3>3, Zenon DEF Replies, Fresh
      <4> QED BY <3>1, <3>2, <4>1
    <3>4. CASE <<d, i, s>> \in ks
      <4>1. d = c /\ i = nreq[c]
        BY <3>4
      <4> QED BY <3>1, <3>2, <4>1
    <3> QED BY <1>4, <2>1, <3>3, <3>4, Zenon
  <2> QED BY <2>1, Zenon DEF Fresh
<1>6. ASSUME NEW d \in open
      PROVE  Level(respQueue'[d], respBase'[d], out[d], accum[d], K, d)
  <2> DEFINE q == respQueue[d]
             B == respBase[d]
  <2>1. /\ B = Len(out[d]) + Len(accum[d]) /\ QueueOK(q, d, B) /\ StoredKeys(q, d, B) \cap H = {}
    BY Zenon DEF Replies, Level
  <2>2. q \in Seq(SlotType) /\ B \in Nat /\ respBase'[d] = B
    BY <1>1, <1>2, Zenon
  <2>3. /\ QueueOK(respQueue'[d], d, B)
        /\ StoredKeys(respQueue'[d], d, B) \subseteq StoredKeys(q, d, B)
    <3>1. CASE d = c
      <4>1. respQueue'[d] = Append(q, slot)
        BY <1>1, <1>2, <3>1, Zenon
      <4> HIDE DEF q, B
      <4>2. /\ QueueOK(Append(q, slot), d, B)
            /\ StoredKeys(Append(q, slot), d, B) \subseteq StoredKeys(q, d, B)
        BY <2>1, <2>2, NewSlotLevel, Zenon
      <4> QED BY <4>1, <4>2, Zenon
    <3>2. CASE d # c
      <4>1. respQueue'[d] = q
        BY <1>1, <1>2, <3>2, Zenon
      <4> QED BY <2>1, <4>1, Zenon
    <3> QED BY <3>1, <3>2, Zenon
  <2>4. StoredKeys(q, d, B) \cap ks = {}
    <3> SUFFICES ASSUME NEW s \in S, <<c, nreq[c], s>> \in StoredKeys(q, d, B)
                 PROVE  FALSE
      BY Zenon
    <3> DEFINE y == <<c, nreq[c], s>>
    <3> HIDE DEF q, B, y
    <3>1. y \in StoredKeys(q, d, B)
      BY DEF y
    <3>2. PICK i \in Nat : \E x : y = <<d, i, x>> /\ i < B + Len(q)
      <4>1. Below(y, d, B + Len(q))
        BY <2>2, <3>1, StoredBelow, Zenon
      <4> QED BY <4>1, Zenon DEF Below
    <3>3. d = c /\ nreq[c] = i
      BY <3>2, Zenon DEF y
    <3>4. nreq[c] = B + Len(q) /\ nreq[c] \in Nat
      BY <1>1, <3>3, Zenon DEF q, B
    <3> QED BY <3>2, <3>3, <3>4
  <2> HIDE DEF q, B
  <2>5. StoredKeys(respQueue'[d], d, B) \cap K = {}
    BY <1>4, <2>1, <2>3, <2>4, Zenon
  <2> QED BY <2>1, <2>2, <2>3, <2>5, Zenon DEF Level
<1> HIDE DEF ks, H, K
<1>7. K = Held(mux)'
  BY DEF K
<1> QED BY <1>4, <1>5, <1>6, <1>7, Zenon DEF Replies, Idle

\* Steps that leave the clients' variables alone.
LEMMA StillReplies ==
    ASSUME MuxInv, Replies, MuxStep({}), UNCHANGED clientVars, Idle',
           open' \in SUBSET open, \A i \in 1..Len(tasks') : TaskOK(tasks'[i])
    PROVE  Replies'
<1>1. Held(mux') \subseteq Held(mux) /\ KeysApart(mux')
  BY Zenon DEF MuxStep, Replies
<1>2. /\ respQueue' = respQueue /\ respBase' = respBase /\ out' = out /\ accum' = accum
      /\ nreq' = nreq
  BY Zenon DEF clientVars
<1>3. Fresh(Held(mux'), nreq)
  BY <1>1, Zenon DEF Replies, Fresh
<1>4. \A c \in open' : Level(respQueue[c], respBase[c], out[c], accum[c], Held(mux'), c)
  BY <1>1, Zenon DEF Replies, Level
<1> QED BY <1>1, <1>2, <1>3, <1>4, Zenon DEF Replies

\* More is accumulated.
LEMMA WrittenMore ==
    ASSUME NEW o \in Seq(DataType), NEW ac \in Seq(DataType), NEW t \in Seq(DataType), NEW c,
           Written(o, ac, c), \A i \in 1..Len(t) : ReplyOK(t[i], c, Len(o) + Len(ac) + i)
    PROVE  Written(o, ac \o t, c)
<1> DEFINE x == ac \o t
<1>1. Len(ac) \in Nat /\ Len(t) \in Nat /\ Len(o) \in Nat /\ Joined(x, ac, t)
  BY Concat
<1> HIDE DEF x
<1>2. ASSUME NEW i \in 1..Len(x)
      PROVE  ReplyOK(x[i], c, Len(o) + i)
  <2>1. CASE i \in 1..Len(ac) /\ x[i] = ac[i]
    BY <2>1, Zenon DEF Written
  <2>2. CASE i - Len(ac) \in 1..Len(t) /\ x[i] = t[i - Len(ac)]
    <3> DEFINE j == i - Len(ac)
    <3>1. Len(o) + Len(ac) + j = Len(o) + i
      BY <1>1
    <3> HIDE DEF j
    <3>2. ReplyOK(t[j], c, Len(o) + Len(ac) + j)
      BY <2>2, Zenon DEF j
    <3> QED BY <2>2, <3>1, <3>2, Zenon DEF j
  <2>3. FromOne(x, ac, t, i)
    BY <1>1, <1>2, JoinedFrom, Zenon
  <2> QED BY <2>1, <2>2, <2>3, Zenon DEF FromOne
<1> QED BY <1>2, Zenon DEF Written, x

\* What is accumulated is written.
LEMMA WrittenFlush ==
    ASSUME NEW o \in Seq(DataType), NEW ac \in Seq(DataType), NEW c, Written(o, ac, c)
    PROVE  Written(o \o ac, <<>>, c) /\ Len(o \o ac) + Len(<<>>) = Len(o) + Len(ac)
<1> DEFINE x == o \o ac
<1>1. Len(o) \in Nat /\ Len(ac) \in Nat /\ Joined(x, o, ac)
  BY Concat
<1> HIDE DEF x
<1>2. ASSUME NEW i \in 1..Len(x)
      PROVE  ReplyOK(x[i], c, i)
  <2>1. CASE i \in 1..Len(o) /\ x[i] = o[i]
    BY <2>1, Zenon DEF Written
  <2>2. CASE i - Len(o) \in 1..Len(ac) /\ x[i] = ac[i - Len(o)]
    <3> DEFINE j == i - Len(o)
    <3>1. Len(o) + j = i
      BY <1>1
    <3> HIDE DEF j
    <3>2. ReplyOK(ac[j], c, Len(o) + j)
      BY <2>2, Zenon DEF Written, j
    <3> QED BY <2>2, <3>1, <3>2, Zenon DEF j
  <2>3. FromOne(x, o, ac, i)
    BY <1>1, <1>2, JoinedFrom, Zenon
  <2> QED BY <2>1, <2>2, <2>3, Zenon DEF FromOne
<1>3. Len(<<>>) = 0 /\ Len(x) = Len(o) + Len(ac)
  BY <1>1 DEF Joined
<1>4. \A i \in 1..Len(<<>>) : FALSE
  OBVIOUS
<1>5. Len(x) + Len(<<>>) = Len(o) + Len(ac)
  BY <1>1, <1>3
<1> QED BY <1>2, <1>4, <1>5, Zenon DEF Written, x

\* Taking slots off the queue keeps it level, if they are accumulated ...
LEMMA DrainedLevel ==
    ASSUME NEW q \in Seq(SlotType), NEW r, Typed(r, q), NEW c, NEW B \in Nat, NEW ks,
           Good(r, q, c, B, ks), NEW o \in Seq(DataType), NEW ac \in Seq(DataType), NEW H, NEW K,
           Level(q, B, o, ac, H, c), Written(o, ac, c), K \subseteq H, ks \cap K = {}
    PROVE  /\ Level(r.queue, B + Len(r.iov), o, ac \o r.iov, K, c)
           /\ Written(o, ac \o r.iov, c)
<1> DEFINE t == r.iov
           x == ac \o t
<1>1. t \in Seq(DataType) /\ B = Len(o) + Len(ac) /\ Len(o) \in Nat /\ Len(ac) \in Nat
  BY DEF Typed, Level
<1>2. \A i \in 1..Len(t) : ReplyOK(t[i], c, Len(o) + Len(ac) + i)
  BY <1>1, Zenon DEF Good
<1> HIDE DEF t
<1>3. Written(o, x, c)
  BY <1>1, <1>2, WrittenMore, Zenon
<1>4. Len(x) = Len(ac) + Len(t) /\ Len(t) \in Nat
  BY <1>1, Lists
<1> HIDE DEF x
<1>5. B + Len(t) = Len(o) + Len(x)
  BY <1>1, <1>4
<1>6. /\ QueueOK(r.queue, c, B + Len(t))
      /\ StoredKeys(r.queue, c, B + Len(t)) \cap K = {}
  BY Zenon DEF Good, Level, t
<1> QED BY <1>3, <1>5, <1>6, Zenon DEF Level, t, x

\* ... or written at once.
LEMMA FlushedLevel ==
    ASSUME NEW q, NEW B, NEW c, NEW H, NEW o \in Seq(DataType), NEW ac \in Seq(DataType),
           Level(q, B, o, ac, H, c), Written(o, ac, c)
    PROVE  Level(q, B, o \o ac, <<>>, H, c) /\ Written(o \o ac, <<>>, c)
<1>1. Written(o \o ac, <<>>, c) /\ Len(o \o ac) + Len(<<>>) = Len(o) + Len(ac)
  BY WrittenFlush
<1> QED BY <1>1, Zenon DEF Level

\* The end of onTraffic.
LEMMA EndReplies ==
    ASSUME MuxInv, Replies, MuxStep({}), EndTraffic
    PROVE  Replies'
<1>1. Held(mux') \subseteq Held(mux) /\ KeysApart(mux')
  BY Zenon DEF MuxStep, Replies
<1>2. /\ out' = [c \in Clients |-> out[c] \o accum[c]] /\ accum' = [c \in Clients |-> <<>>]
      /\ UNCHANGED <<respQueue, respBase, open, tasks, nreq>>
  BY Zenon DEF EndTraffic
<1>3. Fresh(Held(mux'), nreq)
  BY <1>1, Zenon DEF Replies, Fresh
<1>4. \A c \in Clients : out[c] \in Seq(DataType) /\ accum[c] \in Seq(DataType)
  BY Zenon DEF MuxInv, Types
<1>5. \A c \in Clients : Written(out[c] \o accum[c], <<>>, c)
  BY <1>4, WrittenFlush, Zenon DEF Replies
<1>6. \A c \in Clients : out'[c] = out[c] \o accum[c] /\ accum'[c] = <<>>
  BY <1>2, Zenon
<1>7. open \subseteq Clients
  BY Zenon DEF MuxInv, Types
<1>8. \A c \in open : Level(respQueue[c], respBase[c], out'[c], accum'[c], Held(mux'), c)
  <2> SUFFICES ASSUME NEW c \in open
               PROVE  Level(respQueue[c], respBase[c], out'[c], accum'[c], Held(mux'), c)
    BY Zenon
  <2>1. /\ Level(respQueue[c], respBase[c], out[c], accum[c], Held(mux'), c)
        /\ Written(out[c], accum[c], c)
    BY <1>1, <1>7, Zenon DEF Replies, Level
  <2>2. Level(respQueue[c], respBase[c], out[c] \o accum[c], <<>>, Held(mux'), c)
    BY <1>4, <1>7, <2>1, FlushedLevel, Zenon
  <2> QED BY <1>6, <1>7, <2>2, Zenon
<1> QED BY <1>1, <1>2, <1>3, <1>5, <1>6, <1>7, <1>8, Zenon DEF Replies, Idle

\* The closure of fillResponseSlot.
LEMMA FillReplies ==
    ASSUME MuxInv, Replies, FillResponseSlotInLoop
    PROVE  Replies'
<1> DEFINE t == Head(tasks)
           c == t.client
           q == respQueue[c]
           B == respBase[c]
<1>1. UNCHANGED <<mux, open, accum, traffic, nreq>> /\ traffic = NoAddr
  BY Zenon DEF FillResponseSlotInLoop
<1>2. tasks # <<>> /\ t \in TaskType /\ tasks' = Tail(tasks) /\ tasks \in Seq(TaskType)
  BY FillDrains, Zenon DEF MuxInv, Types
<1>3. PICK r : /\ Drains(c, r)
               /\ QueueOK(q, c, B) /\ TaskOK(t) => Good(r, q, c, B, {})
               /\ out' = [out EXCEPT ![c] = IF c \in open THEN @ \o r.iov ELSE @]
  BY FillDrains, Zenon
<1>4. TaskOK(t) /\ \A i \in 1..Len(tasks') : TaskOK(tasks'[i])
  <2>1. /\ t = tasks[1] /\ Len(tasks) \in Nat /\ Len(tasks) > 0 /\ Len(tasks') = Len(tasks) - 1
        /\ \A i \in 1..Len(tasks') : tasks'[i] = tasks[i + 1]
    BY <1>2, TailPlaces
  <2>2. 1 \in 1..Len(tasks) /\ \A i \in 1..Len(tasks') : i + 1 \in 1..Len(tasks)
    BY <2>1
  <2> QED BY <2>1, <2>2, Zenon DEF Replies
<1>5. c \in Clients
  BY <1>2 DEF TaskType
<1> HIDE DEF t, c, q, B
<1>6. /\ q \in Seq(SlotType) /\ B \in Nat /\ out \in [Clients -> Seq(DataType)]
      /\ out[c] \in Seq(DataType) /\ <<>> \in Seq(DataType) /\ open \subseteq Clients
      /\ respQueue \in [Clients -> Seq(SlotType)] /\ respBase \in [Clients -> Nat]
  BY <1>5, Lists, Zenon DEF MuxInv, Types, q, B
<1>7. \A d \in Clients : accum[d] = <<>>
  BY <1>1, Zenon DEF Replies, Idle
<1>8. /\ Typed(r, q) /\ r.iov \in Seq(DataType)
      /\ respQueue' = [respQueue EXCEPT ![c] = r.queue]
      /\ respBase' = [respBase EXCEPT ![c] = B + Len(r.iov)]
  BY <1>3, Zenon DEF Drains, Typed, q, B
<1>9. ASSUME NEW d \in Clients, d # c
      PROVE  /\ respQueue'[d] = respQueue[d] /\ respBase'[d] = respBase[d] /\ out'[d] = out[d]
  BY <1>3, <1>6, <1>8, <1>9, Zenon
<1>10. CASE c \in open
  <2> DEFINE H == Held(mux)
             e == <<>>
             x == out[c] \o r.iov
  <2>1. Level(q, B, out[c], e, H, c) /\ Written(out[c], e, c)
    BY <1>5, <1>7, <1>10, Zenon DEF Replies, q, B
  <2>2. Good(r, q, c, B, {})
    BY <1>3, <1>4, <2>1, Zenon DEF Level
  <2>3. e \in Seq(DataType) /\ H \subseteq H /\ {} \cap H = {}
    BY <1>6, Zenon
  <2> HIDE DEF e, H
  <2>4. Level(r.queue, B + Len(r.iov), out[c], e \o r.iov, H, c) /\ Written(out[c], e \o r.iov, c)
    BY <1>6, <1>8, <2>1, <2>2, <2>3, DrainedLevel, Zenon
  <2>5. e \o r.iov = r.iov
    BY <1>8 DEF e
  <2>6. Level(r.queue, B + Len(r.iov), x, <<>>, H, c) /\ Written(x, <<>>, c)
    BY <1>6, <1>8, <2>4, <2>5, FlushedLevel
  <2> HIDE DEF x
  <2>7. respQueue'[c] = r.queue /\ respBase'[c] = B + Len(r.iov) /\ out'[c] = x
    BY <1>3, <1>5, <1>6, <1>8, <1>10, Zenon DEF x
  <2>8. \A d \in Clients : Written(out'[d], accum[d], d)
    BY <1>7, <1>9, <2>6, <2>7, Zenon DEF Replies
  <2>9. \A d \in open : Level(respQueue'[d], respBase'[d], out'[d], accum[d], H, d)
    BY <1>6, <1>7, <1>9, <2>6, <2>7, Zenon DEF Replies, H
  <2> QED BY <1>1, <1>4, <2>8, <2>9, Zenon DEF Replies, Idle, H
<1>11. CASE c \notin open
  <2>1. out'[c] = out[c]
    BY <1>3, <1>5, <1>6, <1>11, Zenon
  <2>2. \A d \in Clients : Written(out'[d], accum[d], d)
    BY <1>9, <2>1, Zenon DEF Replies
  <2>3. \A d \in open : Level(respQueue'[d], respBase'[d], out'[d], accum[d], Held(mux), d)
    BY <1>6, <1>9, <1>11, Zenon DEF Replies
  <2> QED BY <1>1, <1>4, <2>2, <2>3, Zenon DEF Replies, Idle
<1> QED BY <1>10, <1>11, Zenon

\* A reply is accumulated: it is the one its slot waits for.
LEMMA ReadReplies ==
    ASSUME MuxInv, Matched(mux), Replies, NEW a \in Addrs, ReadReply(a), MuxStep({})
    PROVE  Replies'
<1> DEFINE e == Waiting(a)
           c == e.client
           q == respQueue[c]
           B == respBase[c]
           H == Held(mux)
           K == Held(mux')
<1>1. UNCHANGED <<open, tasks, out, nreq>> /\ CanRead(a) /\ mux' = Read(a) /\ ~e.skip
      /\ traffic' = a
  BY Zenon DEF ReadReply
<1>2. K \subseteq H /\ KeysApart(mux') /\ KeysApart(mux)
  BY Zenon DEF MuxStep, Replies
<1>3. Fresh(K, nreq)
  BY <1>2, Zenon DEF Replies, Fresh
<1>4. Key(e) \in H /\ Key(e) \notin K /\ e \in EntryType
  BY <1>1, <1>2, WaitingOK, Zenon DEF MuxInv, CanRead
<1>5. traffic' # NoAddr
  BY <1>1, MuxAssumption, Zenon
<1>6. /\ respQueue \in [Clients -> Seq(SlotType)] /\ respBase \in [Clients -> Nat]
      /\ out \in [Clients -> Seq(DataType)] /\ accum \in [Clients -> Seq(DataType)]
      /\ open \subseteq Clients
  BY Zenon DEF MuxInv, Types
<1> HIDE DEF H, K, e
<1>7. CASE c \in open
  <2>1. c \in Clients
    BY <1>6, <1>7, Zenon
  <2>2. Level(q, B, out[c], accum[c], H, c) /\ Written(out[c], accum[c], c)
    BY <1>7, <2>1, Zenon DEF Replies, H
  <2>3. Key(e) \notin StoredKeys(q, c, B)
    BY <1>4, <2>2, Zenon DEF Level
  <2>4. PICK r : /\ Drains(c, r) /\ Good(r, q, c, B, {Key(e)})
                 /\ accum' = [accum EXCEPT ![c] = @ \o r.iov]
    BY <1>7, <2>2, <2>3, ReplyDrains, Zenon DEF Level, e
  <2>5. /\ Typed(r, q) /\ r.iov \in Seq(DataType)
        /\ respQueue' = [respQueue EXCEPT ![c] = r.queue]
        /\ respBase' = [respBase EXCEPT ![c] = B + Len(r.iov)]
    BY <2>4, Zenon DEF Drains, Typed
  <2>6. /\ q \in Seq(SlotType) /\ B \in Nat /\ out[c] \in Seq(DataType)
        /\ accum[c] \in Seq(DataType) /\ {Key(e)} \cap K = {}
    BY <1>4, <1>6, <2>1, Zenon
  <2>7. ASSUME NEW d \in Clients, d # c
        PROVE  /\ respQueue'[d] = respQueue[d] /\ respBase'[d] = respBase[d]
               /\ accum'[d] = accum[d]
    BY <1>6, <2>4, <2>5, <2>7, Zenon
  <2> DEFINE ac == accum[c] \o r.iov
             n == B + Len(r.iov)
  <2>8. respQueue'[c] = r.queue /\ respBase'[c] = n /\ accum'[c] = ac
    BY <1>6, <2>1, <2>4, <2>5, Zenon
  <2> HIDE DEF c, q, B
  <2>9. Level(r.queue, n, out[c], ac, K, c) /\ Written(out[c], ac, c)
    BY <1>2, <2>2, <2>4, <2>5, <2>6, DrainedLevel, Zenon
  <2> HIDE DEF ac, n
  <2>10. \A d \in Clients : Written(out[d], accum'[d], d)
    BY <2>7, <2>8, <2>9, Zenon DEF Replies
  <2>11. ASSUME NEW d \in open
         PROVE  Level(respQueue'[d], respBase'[d], out[d], accum'[d], K, d)
    <3>1. CASE d = c
      BY <2>8, <2>9, <3>1, Zenon
    <3>2. CASE d # c
      <4>1. Level(respQueue[d], respBase[d], out[d], accum[d], K, d)
        BY <1>2, Zenon DEF Replies, Level, H
      <4> QED BY <1>6, <2>7, <3>2, <4>1, Zenon
    <3> QED BY <3>1, <3>2, Zenon
  <2>12. Idle'
    <3>1. ASSUME NEW d \in Clients, d \notin open
          PROVE  accum'[d] = <<>>
      <4>1. d # c
        BY <1>7, <3>1, Zenon DEF c
      <4> QED BY <2>7, <3>1, <4>1, Zenon DEF Replies, Idle
    <3> QED BY <1>1, <1>5, <3>1, Zenon DEF Idle
  <2> QED BY <1>1, <1>2, <1>3, <2>10, <2>11, <2>12, Zenon DEF Replies, K
<1>8. CASE c \notin open
  <2>1. UNCHANGED <<respQueue, respBase, accum>>
    BY <1>8, Zenon DEF ReadReply, e
  <2>2. UNCHANGED clientVars
    BY <1>1, <2>1, Zenon DEF clientVars
  <2>3. Idle'
    BY <1>1, <1>5, <2>1, Zenon DEF Replies, Idle
  <2>4. open' \in SUBSET open /\ \A i \in 1..Len(tasks') : TaskOK(tasks'[i])
    BY <1>1, Zenon DEF Replies
  <2> QED BY <2>2, <2>3, <2>4, StillReplies
<1> QED BY <1>7, <1>8, Zenon

------------------------------------------------------------------------------
\* The inductive invariant.

ReplyInv == Unmixed => Replies

IInv == MuxInv /\ WireInv /\ ReplyInv

\* It holds at the start, where there are neither connections nor requests.
LEMMA InitInv == Init => IInv
<1> SUFFICES ASSUME Init
             PROVE  IInv
  OBVIOUS
<1> DEFINE e == <<>>
<1>1. \A a \in Addrs : mux[a] = NoConn
  BY Zenon DEF Init
<1>2. /\ NoConn \in ConnType /\ ConnOK(NoConn) /\ ConnKeys(NoConn) = {}
      /\ OnceConn(NoConn) /\ MatchedConn(NoConn) /\ NoConn.writeBuf = <<>>
  BY NoConnOK, EmptyList, Zenon DEF OnceConn, MatchedConn
<1>3. mux \in [Addrs -> ConnType]
  BY <1>2, Zenon DEF Init
<1>4. ConnsOK(mux) /\ Matched(mux) /\ Flushed(mux)
  BY <1>1, <1>2, <1>3, Zenon DEF ConnsOK, Matched, Flushed
<1>5. KeysApart(mux) /\ Held(mux) = {}
  BY <1>1, <1>2, Zenon DEF KeysApart, Held
<1>6. /\ e \in Seq(DataType) /\ e \in Seq(TaskType) /\ e \in Seq(SlotType) /\ Len(e) = 0
      /\ \A i \in 1..Len(e) : FALSE
  BY Lists
<1> HIDE DEF e
<1>7. /\ respQueue = [c \in Clients |-> e] /\ accum = [c \in Clients |-> e]
      /\ out = [c \in Clients |-> e] /\ tasks = e /\ e = <<>>
      /\ respBase = [c \in Clients |-> 0] /\ nreq = [c \in Clients |-> 0] /\ open \in SUBSET Clients
      /\ kinds \in SUBSET {"moved", "ask"}
  BY MuxAssumption DEF Init, e
<1>8. 0 \in Nat /\ 0 = 0 + Len(e) /\ 0 = Len(e) + Len(e)
  BY <1>6
<1>9. Types
  BY <1>6, <1>7, <1>8, Zenon DEF Types
<1>10. Counted
  <2>1. \A c \in Clients : nreq[c] = 0 /\ respBase[c] = 0 /\ respQueue[c] = e
    BY <1>7, Zenon
  <2> QED BY <1>8, <2>1, Zenon DEF Counted
<1>11. \A c : StoredKeys(e, c, 0) = {}
  BY <1>6, InStored, Zenon
<1>12. \A c : Level(e, 0, e, e, {}, c) /\ Written(e, e, c)
  BY <1>6, <1>8, <1>11, Zenon DEF Level, Written, QueueOK
<1>13. /\ \A c \in Clients : Written(out[c], accum[c], c)
       /\ \A c \in open : Level(respQueue[c], respBase[c], out[c], accum[c], Held(mux), c)
  BY <1>5, <1>7, <1>12, Zenon
<1>14. Replies
  BY <1>5, <1>6, <1>7, <1>13, Zenon DEF Replies, Fresh, Idle
<1> QED BY <1>4, <1>9, <1>10, <1>14, Zenon DEF IInv, MuxInv, WireInv, ReplyInv

\* Every step keeps it: one step of this proof per action.
LEMMA NextInv ==
    ASSUME PlacesFact, IInv, [Next]_vars
    PROVE  IInv'
<1>0. /\ MuxInv /\ kinds' = kinds /\ open \in SUBSET Clients /\ tasks \in Seq(TaskType)
  BY Zenon DEF IInv, MuxInv, Types, Next, vars
<1>1. MuxInv' /\ WireInv'
  BY <1>0, MuxInvNext, Zenon DEF IInv
<1> SUFFICES ASSUME Unmixed
             PROVE  Replies'
  BY <1>0, <1>1, Zenon DEF IInv, ReplyInv, Unmixed
<1>2. Replies /\ Matched(mux) /\ Idle /\ \A i \in 1..Len(tasks) : TaskOK(tasks[i])
  BY Zenon DEF IInv, WireInv, ReplyInv, Replies
<1>3. ASSUME NEW c \in Clients, NEW a \in Addrs, Dispatch(c, a)
      PROVE  Replies'
  <2>1. Allocates(c, NewSlot(0)) /\ UNCHANGED <<open, tasks, accum, traffic, out>>
    BY <1>3, Zenon DEF Dispatch, Allocates
  <2>2. MuxStep({<<c, nreq[c], 0>>})
    BY <1>0, <1>3, DispatchMux, Zenon
  <2>3. {<<c, nreq[c], 0>>} = {<<c, nreq[c], s>> : s \in {0}}
    BY Zenon
  <2>4. MuxStep({<<c, nreq[c], s>> : s \in {0}}) /\ {0} \in SUBSET (0..2)
    BY <2>2, <2>3
  <2> QED BY <1>0, <1>2, <2>1, <2>4, DispatchReplies, Zenon
<1>4. ASSUME NEW c \in Clients, NEW a \in Addrs, NEW b \in Addrs, DispatchFanIn(c, a, b)
      PROVE  Replies'
  <2>1. Allocates(c, NewSlot(2)) /\ UNCHANGED <<open, tasks, accum, traffic, out>>
    BY <1>4, Zenon DEF DispatchFanIn, Allocates
  <2>2. MuxStep({<<c, nreq[c], 1>>, <<c, nreq[c], 2>>})
    BY <1>0, <1>4, DispatchFanInMux, Zenon
  <2>3. {<<c, nreq[c], 1>>, <<c, nreq[c], 2>>} = {<<c, nreq[c], s>> : s \in {1, 2}}
    BY Zenon
  <2>4. MuxStep({<<c, nreq[c], s>> : s \in {1, 2}}) /\ {1, 2} \in SUBSET (0..2)
    BY <2>2, <2>3
  <2> QED BY <1>0, <1>2, <2>1, <2>4, DispatchReplies, Zenon
<1>5. ASSUME NEW c \in Clients, ClientClose(c)
      PROVE  Replies'
  <2>1. UNCHANGED <<mux, tasks, traffic, clientVars>> /\ traffic = NoAddr /\ open' \in SUBSET open
    BY <1>5 DEF ClientClose
  <2>2. MuxStep({})
    BY <1>0, <2>1, StillMux, Zenon
  <2>3. Idle'
    BY <1>2, <2>1, Zenon DEF Idle, clientVars
  <2> QED BY <1>0, <1>2, <2>1, <2>2, <2>3, StillReplies, Zenon
<1>6. ASSUME NEW a \in Addrs, ConnClose(a) \/ DialFail(a)
      PROVE  Replies'
  <2>1. PICK t \in Errors(mux[a].dialing) \cup Errors(mux[a].pending) : tasks' = tasks \o t
    BY <1>6, Zenon DEF ConnClose, DialFail
  <2>2. mux' = [mux EXCEPT ![a] = NoConn] /\ UNCHANGED <<open, traffic, clientVars>>
    BY <1>6, Zenon DEF ConnClose, DialFail
  <2>3. t \in Seq(TaskType) /\ \A i \in 1..Len(t) : TaskOK(t[i])
    BY <1>0, FailedOK, Zenon
  <2>4. \A i \in 1..Len(tasks') : TaskOK(tasks'[i])
    <3>1. Len(tasks) \in Nat /\ Len(t) \in Nat /\ Joined(tasks', tasks, t)
      BY <1>0, <2>1, <2>3, Concat, Zenon
    <3>2. ASSUME NEW i \in 1..Len(tasks')
          PROVE  TaskOK(tasks'[i])
      <4> DEFINE all == tasks'
      <4>1. Joined(all, tasks, t) /\ i \in 1..Len(all)
        BY <3>1, <3>2, Zenon
      <4> HIDE DEF all
      <4>2. FromOne(all, tasks, t, i)
        BY <3>1, <4>1, JoinedFrom, Zenon
      <4> QED BY <1>2, <2>3, <4>2, Zenon DEF all, FromOne
    <3> QED BY <3>2, Zenon
  <2>5. MuxStep({})
    BY <1>0, <2>2, CloseMux, Zenon
  <2>6. Idle' /\ open' \in SUBSET open
    BY <1>2, <2>2, Zenon DEF Idle, clientVars
  <2> QED BY <1>0, <1>2, <2>2, <2>4, <2>5, <2>6, StillReplies, Zenon
<1>7. ASSUME NEW a \in Addrs, DialOk(a)
      PROVE  Replies'
  <2>1. UNCHANGED <<open, tasks, traffic, clientVars>>
    BY <1>7, Zenon DEF DialOk
  <2>2. MuxStep({})
    BY <1>0, <1>7, DialOkMux, Zenon
  <2>3. Idle' /\ open' \in SUBSET open
    BY <1>2, <2>1, Zenon DEF Idle, clientVars
  <2> QED BY <1>0, <1>2, <2>1, <2>2, <2>3, StillReplies, Zenon
<1>8. ASSUME FillResponseSlotInLoop
      PROVE  Replies'
  BY <1>0, <1>2, <1>8, FillReplies, Zenon
<1>9. ASSUME NEW a \in Addrs, traffic' = a, UNCHANGED <<open, tasks, clientVars>>, MuxStep({})
      PROVE  Replies'
  <2>1. Idle' /\ open' \in SUBSET open
    BY <1>2, <1>9, MuxAssumption, Zenon DEF Idle, clientVars
  <2> QED BY <1>0, <1>2, <1>9, <2>1, StillReplies, Zenon
<1>10. ASSUME NEW a \in Addrs, ReadSkipped(a)
       PROVE  Replies'
  <2>1. MuxStep({})
    BY <1>0, <1>10, ReadMux, Zenon DEF ReadSkipped
  <2> QED BY <1>9, <1>10, <2>1, Zenon DEF ReadSkipped
<1>11. ASSUME NEW a \in Addrs, NEW kind \in kinds, NEW b \in Addrs, ReadRedirect(a, kind, b)
       PROVE  Replies'
  <2>1. MuxStep({})
    BY <1>0, <1>11, RedirectMux, Zenon
  <2> QED BY <1>9, <1>11, <2>1, Zenon DEF ReadRedirect
<1>12. ASSUME NEW a \in Addrs, ReadReply(a)
       PROVE  Replies'
  <2>1. MuxStep({})
    BY <1>0, <1>12, ReadMux, Zenon DEF ReadReply
  <2> QED BY <1>0, <1>2, <1>12, <2>1, ReadReplies, Zenon
<1>13. ASSUME EndTraffic
       PROVE  Replies'
  <2>1. MuxStep({})
    BY <1>0, <1>13, FlushMux, Zenon DEF EndTraffic
  <2> QED BY <1>0, <1>2, <1>13, <2>1, EndReplies, Zenon
<1>14. ASSUME UNCHANGED vars
       PROVE  Replies'
  <2>1. UNCHANGED <<mux, open, tasks, traffic, clientVars>>
    BY <1>14, Zenon DEF vars, clientVars
  <2>2. MuxStep({})
    BY <1>0, <2>1, StillMux, Zenon
  <2>3. Idle' /\ open' \in SUBSET open
    BY <1>2, <2>1, Zenon DEF Idle, clientVars
  <2> QED BY <1>0, <1>2, <2>1, <2>2, <2>3, StillReplies, Zenon
<1> QED
  BY <1>3, <1>4, <1>5, <1>6, <1>7, <1>8, <1>10, <1>11, <1>12, <1>13, <1>14, Zenon
     DEF Next, Progress

------------------------------------------------------------------------------
\* What follows from it.

\* ASKING and its request stay together on the wire and across the write.
LEMMA AskingFollows == IInv => AskingAdjacent
<1> SUFFICES ASSUME IInv, NEW a \in Addrs
             PROVE  LET w == mux[a].wire \o mux[a].writeBuf IN
                    /\ \A i \in DOMAIN w :
                          w[i].ask = IF i = 1 THEN mux[a].asked ELSE w[i - 1].op = "asking"
                    /\ w = <<>> => ~mux[a].asked
  BY Zenon DEF AskingAdjacent
<1> DEFINE v == mux[a].wire
           b == mux[a].writeBuf
           k == mux[a].asked
           w == v \o b
<1>1. /\ v \in Seq(CmdType) /\ b \in Seq(CmdType) /\ k \in BOOLEAN
      /\ Paired(v, k) /\ Paired(b, FALSE)
  BY ConnLists, Zenon DEF IInv, MuxInv, ConnOK
<1> HIDE DEF v, b, k
<1>2. Paired(w, k) /\ w \in Seq(CmdType)
  BY <1>1, PairedConcat, Concat, Zenon
<1> HIDE DEF w
<1>3. DOMAIN w = 1..Len(w) /\ (w = <<>> => Len(w) = 0)
  BY <1>2
<1>4. /\ \A i \in DOMAIN w : w[i].ask = IF i = 1 THEN k ELSE w[i - 1].op = "asking"
      /\ w = <<>> => ~k
  BY <1>2, <1>3, Zenon DEF Paired
<1> QED BY <1>4, Zenon DEF v, b, k, w

\* Every reply in out is the one its place asks for.
LEMMA RepliesFollow == IInv => (Unmixed => PendingMatchesWire /\ OwnRepliesInOrder)
<1> SUFFICES ASSUME IInv, Unmixed
             PROVE  PendingMatchesWire /\ OwnRepliesInOrder
  OBVIOUS
<1>1. PendingMatchesWire
  BY Zenon DEF IInv, WireInv, Matched, MatchedConn, PendingMatchesWire
<1>2. ASSUME NEW c \in Clients
      PROVE  out[c] \in Seq(DataType) /\ Written(out[c], accum[c], c)
  BY Zenon DEF IInv, MuxInv, Types, ReplyInv, Replies
<1>3. \A c \in Clients : DOMAIN out[c] = 1..Len(out[c])
  BY <1>2
<1>4. ASSUME NEW c \in Clients, NEW i \in DOMAIN out[c]
      PROVE  ReplyOK(out[c][i], c, i)
  BY <1>2, <1>3, Zenon DEF Written
<1>5. OwnRepliesInOrder
  BY <1>4, Zenon DEF OwnRepliesInOrder, ReplyOK
<1> QED BY <1>1, <1>5

------------------------------------------------------------------------------
\* Counting, which only the last step needs.

Sets == INSTANCE FiniteSetTheorems

\* The places of a list are finitely many.
LEMMA Places == PlacesFact
<1>1. \A S : Sets!Cardinality(S) = Cardinality(S)
  BY DEF Sets!Cardinality, Cardinality
<1>2. ASSUME NEW n \in Nat, NEW S \in SUBSET (1..n)
      PROVE  Sets!Cardinality(S) \in Nat
  <2>1. Sets!IsFiniteSet(1..n)
    BY Sets!FS_Interval
  <2>2. Sets!IsFiniteSet(S)
    BY <2>1, Sets!FS_Subset, Zenon
  <2> QED BY <2>2, Sets!FS_CardinalityType
<1> QED BY <1>1, <1>2, Zenon DEF PlacesFact

\* The inductive invariant of the mux and its clients.
THEOREM MuxInvariance == Spec => []IInv
<1>1. IInv /\ [Next]_vars => IInv'
  BY NextInv, Places, Zenon
<1> QED BY InitInv, <1>1, PTL DEF Spec

\* ASKING is followed by the request it is for, and a deferred request follows
\* its ASKING, on every connection and through every flush, dial and redirection,
\* whatever the nodes answer (backend_mux.go: send, sendAsk, flushBackendWrites,
\* onOpen).
THEOREM AskingKept == Spec => []AskingAdjacent
  BY MuxInvariance, AskingFollows, PTL

\* While the nodes send one kind of redirection, the k-th pending entry of a
\* connection is the one for the k-th command sent on it: no reply is handed to
\* another request.
THEOREM PendingKept == Spec => [](Unmixed => PendingMatchesWire)
<1>1. IInv => (Unmixed => PendingMatchesWire)
  BY RepliesFollow, Zenon
<1> QED BY <1>1, MuxInvariance, PTL

\* Under the same condition every client reads the replies to its own requests,
\* in the order of the requests, each once, and merged replies are complete:
\* through lost connections, failed dials, redirections and closed clients.
THEOREM OwnReplies == Spec => [](Unmixed => OwnRepliesInOrder)
<1>1. IInv => (Unmixed => OwnRepliesInOrder)
  BY RepliesFollow, Zenon
<1> QED BY <1>1, MuxInvariance, PTL
=============================================================================
