-------------------------- MODULE MCLoggerRegistry --------------------------
EXTENDS LoggerRegistry, TLC

\* Names below and next to each other, and one that "logger" begins with.
MCNames == {<<"a">>, <<"a", "b">>, <<"log">>}
MCSymmetry == Permutations(Threads)
=============================================================================
