--------------------------- MODULE MCFileAppender ---------------------------
(* Instances of FileAppender for TLC.                                      *)
EXTENDS FileAppender, TLC

\* The threads run the same code and no property names one of them.
ThreadSymmetry == Permutations(Threads)
=============================================================================
