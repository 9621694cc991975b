------------------------------- MODULE MCRouter -------------------------------
(***************************************************************************)
(* Router for TLC: two slots on two or three masters, the interesting      *)
(* shapes of keys, and every kind of call.                                 *)
(***************************************************************************)
EXTENDS Router, TLC

MCNodes == {1, 2, 3}

\* Keys without tags, and with the plain, the repeated, the nested and the
\* empty-then-filled tag.
a == <<"a">>
b == <<"b">>
c == <<"c">>
tagA == <<"{", "a", "}", "b">>
twoTags == <<"{", "a", "}", "{", "b", "}">>
nested == <<"{", "b", "{", "a", "}">>
emptyTag == <<"{", "}", "b", "{", "a", "}">>

MCExisting == {a, b, tagA, nested}

\* The hash: how many b, modulo the number of slots.
MCSlots == {0, 1}
MCLayouts == {[s \in MCSlots |-> 1], [s \in MCSlots |-> s + 1]}
MCCrc(str) == Cardinality({i \in DOMAIN str : str[i] = "b"}) % 2

Job(cmd, keys) == [cmd |-> cmd, keys |-> keys, len |-> <<1, 1, 1>>]
Scan(len) == [cmd |-> "SCAN", keys |-> <<>>, len |-> len]

MCJobs ==
    {Job("MGET", keys) : keys \in {<<a, b, tagA>>, <<tagA, b, twoTags>>, <<a, nested>>}}
    \cup {Job("DEL", keys) : keys \in {<<b, c, b>>, <<a, tagA>>}}
    \cup {Job("MSET", <<a, c, b>>), Job("MSET", <<emptyTag, tagA>>), Job("EXISTS", <<a, b, a>>)}
    \cup {Job(cmd, keys) : cmd \in {"MSETNX", "EVAL"}, keys \in {<<c, emptyTag>>, <<a, b>>}}
    \cup {Job("GET", <<nested>>), Job("SINTER", <<a, b>>), Job("EVAL", <<>>), Job("PING", <<>>)}
    \cup {Job(cmd, <<>>) : cmd \in AllMasters}
    \cup {Scan(<<2, 3, 1>>), Scan(<<1, 2, 4>>), Scan(<<2, 5, 2>>)}
===============================================================================
