----------------------------- MODULE MCJournal -----------------------------
(***************************************************************************)
(* Instances of Journal for TLC.                                           *)
(***************************************************************************)
EXTENDS Journal, TLC

\* Threads are interchangeable as long as all or none of them reconcile.
ThreadSymmetry == Permutations(Threads)
=============================================================================
