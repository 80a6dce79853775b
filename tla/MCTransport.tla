---------------------------- MODULE MCTransport ----------------------------
(* Instances of Transport.                                                 *)
EXTENDS Transport

\* The transports that keep the contract, and the one that does not.
Guarded == {"chat", "responses", "messages", "gemini"}
Compatible == {"compatible"}

Layout(eol, lines, comment, tail) ==
    [eol |-> eol, lines |-> lines, comment |-> comment, tail |-> tail]

\* Two data lines under CR LF before a long line, two under CR behind comments
\* and before a line that never ends, and one under LF before too much data.
LimitLayouts == {Layout(<<CR, LF>>, 2, FALSE, "long"), Layout(<<CR>>, 2, TRUE, "endless"),
                 Layout(<<LF>>, 1, FALSE, "much")}
PlainLayout == {Layout(<<LF>>, 1, FALSE, "none")}

\* Nothing, text, text held back and released or not, one call, two calls whose
\* arguments cross, text around a call, a decline alone, after text and before it.
Sayings == LET t == <<"text", 0>>
               h == <<"held", 0>>
               r == <<"refuse", 0>>
               c(i) == <<"call", i>>
               a(i) == <<"args", i>>
           IN {<<>>, <<t>>, <<h>>, <<h, t>>, <<h, c(0), a(0)>>, <<c(0), a(0)>>, <<c(0)>>,
               <<c(0), c(1), a(1), a(0)>>, <<c(0), t, c(1)>>, <<t, c(0), c(1)>>,
               <<r>>, <<t, r>>, <<r, t>>, <<c(0), r>>}
ShortSayings == {<<>>, <<<<"text", 0>>>>, <<<<"call", 0>>, <<"args", 0>>>>}
\* A character, two, and a few lines at once.
Sizes == {1, 2, 9}

=============================================================================
