------------------------------- MODULE HashTags -------------------------------
(***************************************************************************)
(* Which part of a key is hashed: pkg/proto/crc16.go, and the rule of the  *)
(* cluster it has to agree with.  A key is a sequence of characters; only  *)
(* the braces matter.                                                      *)
(***************************************************************************)
EXTENDS Integers, Sequences, FiniteSetsExt

\* The positions of an opening and a closing brace of the key.
Opens(key) == {i \in DOMAIN key : key[i] = "{"}
Closes(key) == {i \in DOMAIN key : key[i] = "}"}

Between(key, s, i) == SubSeq(key, s + 1, i - 1)

\* Mutated form: the tag runs to the last closing brace.
hashTag_Greedy(key) ==
    LET tags == {<<s, i>> \in Opens(key) \X Closes(key) : s + 1 < i}
    IN  IF tags = {} THEN <<>>
        ELSE Between(key, Min({t[1] : t \in tags}), Max({t[2] : t \in tags}))

\* hashTag: the loop remembers the last opening brace and forgets it at a
\* closing one, so a tag is a pair of braces with none between them; the first
\* such pair with something in it is the tag.
hashTag(key) ==
    LET tags == {<<s, i>> \in Opens(key) \X Closes(key) :
                    s + 1 < i /\ \A j \in (s + 1)..(i - 1) : key[j] \notin {"{", "}"}}
        t == CHOOSE t \in tags : \A u \in tags : t[2] <= u[2]
    IN  IF tags = {} THEN <<>> ELSE Between(key, t[1], t[2])

\* HashSlot's choice of what to hash.
Hashed(key) == IF hashTag(key) # <<>> THEN hashTag(key) ELSE key

\* What Redis Cluster hashes: between the first opening brace and the first
\* closing one after it, if there is something there.
ClusterHashed(key) ==
    LET s == Min(Opens(key))
        ends == {i \in Closes(key) : i > s}
    IN  IF Opens(key) = {} \/ ends = {} \/ Min(ends) = s + 1 THEN key
        ELSE Between(key, s, Min(ends))

\* Keys on which the two rules can be told apart: a brace opens inside the
\* first tag, or the first tag is empty and another brace opens later.
Nested(key) ==
    \E t \in Opens(key) :
        LET s == Min(Opens(key))
            ends == {i \in Closes(key) : i > s}
        IN  s < t /\ ends # {} /\ (t < Min(ends) \/ Min(ends) = s + 1)
===============================================================================
