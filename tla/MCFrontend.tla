------------------------------ MODULE MCFrontend ------------------------------
(***************************************************************************)
(* Frontend for TLC: two loops; either four connections at a limit of one  *)
(* or two, or clients that write requests in every form.                   *)
(***************************************************************************)
EXTENDS Frontend, TLC

MCLoops == {1, 2}
MCConns == 1..4
MCLoopOf == [c \in MCConns |-> 1 + (c % 2)]

Message(req, bytes) == [req |-> req, bytes |-> bytes]
Typed(args) == Message(args, Inline(args))
Sent(args) == Message(args, EncodeCommand(args))

\* Requests: for a node, for the router and for a dedicated connection, an empty
\* argument, and one that holds a line end and what looks like a header.
ping == <<<<Byte(1)>>>>
scan == <<<<Byte(2)>>>>
exec == <<<<Byte(4)>>>>
get == <<<<Byte(1)>>, <<Byte(3)>>>>
set == <<<<Byte(1)>>, <<>>>>
binary == <<<<Byte(2)>>, <<LF, Dollar(1)>>>>

\* Not requests: no arguments; an empty line; an argument without its header.
Zero == Message(<<>>, <<Star(0), CR, LF>>)
Blank == Message(<<>>, <<SP, CR, LF>>)
NoHeader == Message(<<>>, <<Star(1), CR, LF, Byte(1), CR, LF>>)

\* The bytes of some messages, and the requests before anything else.
Client(ms) ==
    LET bad == SelectInSeq(ms, LAMBDA m : m.req = <<>>)
        n == IF bad = 0 THEN Len(ms) ELSE bad - 1
        bytes(k) == FlattenSeq([i \in 1..k |-> ms[i].bytes])
    IN  [bytes |-> bytes(Len(ms)), reqs |-> [i \in 1..n |-> ms[i].req],
         ends |-> [i \in 1..n |-> Len(bytes(i))]]

Writes(ws, ls) == [writes |-> ws, limits |-> ls]

MCPlans ==
    {Writes([c \in 1..4 |-> Client(<<>>)], ls) : ls \in {{1, 2}, {0, 1}}}
    \cup {Writes(<<Client(ws)>>, {0}) :
            ws \in {<<Sent(binary), Sent(set), Typed(ping)>>, <<Typed(get), Sent(ping), Zero, Typed(ping)>>,
                    <<Typed(scan), Blank, Typed(ping)>>, <<Sent(scan), NoHeader, Typed(ping)>>}}
    \cup {Writes(<<Client(<<Typed(ping), Typed(scan)>>), Client(<<Typed(scan), Typed(ping)>>)>>, {0}),
          Writes(<<Client(<<Typed(exec), Typed(scan)>>), Client(<<Typed(exec)>>)>>, {0})}
===============================================================================
