--------------------------- MODULE MCClientSession ---------------------------
(* The clients that the configurations let use the proxy. *)
EXTENDS ClientSession

\* A client that sends no command that is transactional, to nodes without a
\* password.
Plain ==
    [ops |-> {"get"}, serial |-> {}, keys |-> {"a"}, unresolvable |-> {}, auth |-> FALSE,
     reqs |-> 4, moves |-> 0, fails |-> {}]

\* Blocking commands, pipelined: to nodes of which connections fail, to nodes
\* that want a password and may refuse it, and moved to one whose address does
\* not resolve.
MCBlocking ==
    {[Plain EXCEPT !.ops = {"ping", "get", "block", "quit"}, !.serial = {"quit"}, !.moves = 1,
                   !.fails = {"dial", "loss"}],
     [Plain EXCEPT !.ops = {"ping", "get", "block"}, !.auth = TRUE, !.moves = 1,
                   !.unresolvable = {"b"}, !.fails = {"auth"}]}

MCSessions ==
    MCBlocking \cup
    {\* Transactions; it awaits the reply to EXEC and RESET.
     [Plain EXCEPT !.ops = {"get", "ping", "bad", "multi", "exec", "discard", "reset", "quit"},
                   !.serial = {"exec", "reset", "quit"}, !.keys = {"a", "b"},
                   !.unresolvable = {"b"}, !.auth = TRUE, !.reqs = 6, !.fails = {"dial"}],
     \* WATCH, whose reply it awaits too.
     [Plain EXCEPT !.ops = {"get", "watch", "unwatch", "multi", "exec"},
                   !.serial = {"watch", "exec"}, !.auth = TRUE, !.reqs = 5, !.moves = 1,
                   !.fails = {"watch", "auth"}],
     \* WATCH, whose reply it awaits, and blocking commands before, between and
     \* in the transactions.
     [Plain EXCEPT !.ops = {"watch", "block", "multi", "get", "exec"},
                   !.serial = {"watch", "exec"}, !.reqs = 5],
     \* WATCH, pipelined.
     [Plain EXCEPT !.ops = {"get", "watch", "multi", "exec"}, !.serial = {"exec"},
                   !.auth = TRUE, !.reqs = 5, !.fails = {"watch"}]}

\* WATCH and ordinary commands in one pipeline.
MCPipelinedWatch == {[Plain EXCEPT !.ops = {"watch", "get"}]}
===============================================================================
