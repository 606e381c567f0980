----------------------------- MODULE MCConsoleSink -----------------------------
EXTENDS ConsoleSink, TLC

\* The patterns that the sinks use: the message alone.
MCConsolePatterns == {<<"{", "msg", "}">>}

\* Every text of up to five symbols: tokens that are known, unknown, joined, empty,
\* nested or left open.
MCPatterns == UNION {[1 .. n -> {"{", "}", "met", "word", "-"}] : n \in 0 .. 5}
                \cup MCConsolePatterns

\* An empty message, and one with a newline of its own.
MCMessages == {<<>>, <<"text", "\n">>}

\* No definition singles out a thread or a sink.
Symmetry == Permutations(Threads) \cup Permutations(Consoles)
=============================================================================
