------------------------------ MODULE RespParser ------------------------------
(***************************************************************************)
(* ParseRequest of pkg/proto/resp.go: what it takes from the front of a    *)
(* buffer that holds whatever has arrived so far.                          *)
(*                                                                         *)
(* A byte is a pair <<class, number>>.  The digits of a length are one     *)
(* with the type byte before them: however much of a line has arrived, it  *)
(* is incomplete until its line feed is there.  Lengths fit an int64, with *)
(* room for what is added to them: parseIntBytes and its callers do not    *)
(* check for overflow, and what they make of larger ones is left out.      *)
(***************************************************************************)
EXTENDS Integers, FiniteSets, SequencesExt

Star(n) == <<"*", n>>
Dollar(n) == <<"$", n>>
Byte(k) == <<"b", k>>
CR == <<"cr", 0>>
LF == <<"lf", 0>>
SP == <<"sp", 0>>

\* Every result: "ok", "more" (errIncomplete) or "bad" (ErrInvalidProtocol).
\* `end` is the position after what was read.
Result(st, end, args) == [st |-> st, end |-> end, args |-> args]

\* readLine from the type byte at pos, and parseIntBytes of the line, for a
\* number that fits.
ReadLen(buf, pos) ==
    LET lf == SelectInSubSeq(buf, pos, Len(buf), LAMBDA x : x = LF)
        line == SubSeq(buf, pos + 1, lf - 1)
    IN  IF lf = 0 THEN [st |-> "more", n |-> 0, end |-> 0]
        ELSE [st |-> IF line \in {<<>>, <<CR>>} THEN "ok" ELSE "bad",
              n |-> buf[pos][2], end |-> lf + 1]

\* Mutated form: the line end after an argument is not stepped over.
Argument_NoTrailer(buf, r) ==
    LET h == ReadLen(buf, r.end) IN
    IF r.st # "ok" THEN r
    ELSE IF r.end > Len(buf) \/ buf[r.end][1] # "$" THEN Result("more", 0, <<>>)
    ELSE IF h.st # "ok" THEN Result(h.st, 0, <<>>)
    ELSE IF h.n < 0 THEN Result("bad", 0, <<>>)
    ELSE IF h.end + h.n + 1 > Len(buf) THEN Result("more", 0, <<>>)
    ELSE Result("ok", h.end + h.n, Append(r.args, SubSeq(buf, h.end, h.end + h.n - 1)))

\* One round of parseRequestDirect's loop.  A byte other than '$' where an
\* argument should start is taken for an incomplete request, and the two bytes
\* after the argument are not looked at.
Argument(buf, r) ==
    LET h == ReadLen(buf, r.end) IN
    IF r.st # "ok" THEN r
    ELSE IF r.end > Len(buf) \/ buf[r.end][1] # "$" THEN Result("more", 0, <<>>)
    ELSE IF h.st # "ok" THEN Result(h.st, 0, <<>>)
    ELSE IF h.n < 0 THEN Result("bad", 0, <<>>)
    ELSE IF h.end + h.n + 1 > Len(buf) THEN Result("more", 0, <<>>)
    ELSE Result("ok", h.end + h.n + 2, Append(r.args, SubSeq(buf, h.end, h.end + h.n - 1)))

parseRequestDirect(buf) ==
    LET h == ReadLen(buf, 1) IN
    IF h.st # "ok" THEN Result(h.st, 0, <<>>)
    ELSE IF h.n <= 0 THEN Result("bad", 0, <<>>)
    ELSE LET read[i \in 0..h.n] ==
               IF i = 0 THEN Result("ok", h.end, <<>>) ELSE Argument(buf, read[i - 1])
         IN  read[h.n]

\* bytes.Fields
Fields(line) ==
    LET space(i) == i \notin DOMAIN line \/ line[i] \in {SP, CR, LF}
        starts == {i \in DOMAIN line : ~space(i) /\ space(i - 1)}
        start(w) == CHOOSE i \in starts : Cardinality({j \in starts : j <= i}) = w
        stop(i) == Min({j \in i..Len(line) : space(j + 1)})
    IN  [w \in 1..Cardinality(starts) |-> SubSeq(line, start(w), stop(start(w)))]

parseInlineRequest(buf) ==
    LET lf == SelectInSeq(buf, LAMBDA x : x = LF)
        words == Fields(SubSeq(buf, 1, lf - 1))
    IN  IF lf = 0 THEN Result("more", 0, <<>>)
        ELSE IF words = <<>> THEN Result("bad", 0, <<>>)
        ELSE Result("ok", lf + 1, words)

ParseRequest(buf) ==
    IF buf = <<>> THEN Result("more", 0, <<>>)
    ELSE IF buf[1][1] = "*" THEN parseRequestDirect(buf)
    ELSE parseInlineRequest(buf)

------------------------------------------------------------------------------
\* What a client writes for a request: EncodeCommand's form, and the line a
\* person types.

EncodeCommand(args) ==
    <<Star(Len(args)), CR, LF>>
        \o FlattenSeq([i \in DOMAIN args |-> <<Dollar(Len(args[i])), CR, LF>> \o args[i] \o <<CR, LF>>])

Inline(args) ==
    FlattenSeq([i \in DOMAIN args |-> args[i] \o (IF i < Len(args) THEN <<SP>> ELSE <<LF>>)])
===============================================================================
