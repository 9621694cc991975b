---------------------------- MODULE OrderedReplies ----------------------------
(***************************************************************************)
(* What a client of the proxy relies on: the requests it pipelines are     *)
(* answered once each and in the order it sent them.  Nothing is said of   *)
(* how or where the replies are produced.                                  *)
(***************************************************************************)
EXTENDS Integers, Sequences

VARIABLES accepted,   \* number of requests taken from the client
          delivered   \* the requests whose replies were written, in order

vars == <<accepted, delivered>>

Init == accepted = 0 /\ delivered = <<>>

\* A request is taken from the connection.
Accept == accepted' = accepted + 1 /\ UNCHANGED delivered

\* The next n requests in line are answered by one write.
Deliver(n) ==
    /\ delivered' = delivered \o [i \in 1..n |-> Len(delivered) + i]
    /\ UNCHANGED accepted

\* A request is answered as it is taken; nothing may be waiting before it.
AcceptAndDeliver ==
    /\ Len(delivered) = accepted
    /\ accepted' = accepted + 1
    /\ delivered' = Append(delivered, accepted + 1)

Next ==
    \/ Accept
    \/ \E n \in 1..(accepted - Len(delivered)) : Deliver(n)
    \/ AcceptAndDeliver

Spec == Init /\ [][Next]_vars
===============================================================================
