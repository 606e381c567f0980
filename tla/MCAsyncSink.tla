----------------------------- MODULE MCAsyncSink -----------------------------
(***************************************************************************)
(* AsyncSink for TLC.  Records and client threads are interchangeable      *)
(* model values: no definition singles one out, so the safety runs use     *)
(* both permutations as symmetry.  The liveness runs use none.             *)
(***************************************************************************)
EXTENDS AsyncSink, TLC

Symmetry == Permutations(Records) \cup Permutations(Producers)
=============================================================================
