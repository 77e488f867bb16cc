---------------------------- MODULE MCChromaPool ----------------------------
(***************************************************************************)
(* Instances of ChromaPool for TLC.                                        *)
(***************************************************************************)
EXTENDS ChromaPool, TLC

\* Threads and instances are interchangeable, but the first instance is what
\* the initial state names: only threads are permuted.
ThreadSymmetry == Permutations(Threads)
=============================================================================
