--------------------------- MODULE MCLoggerRegistry ---------------------------
(***************************************************************************)
(* Names for the registry: a chain of well-formed names for the races, and *)
(* names with leading, trailing and doubled dots.                          *)
(***************************************************************************)
EXTENDS LoggerRegistry, TLC

Names ==
  {<<"a", ".", "b">>, <<"a", ".", "b", ".", "c">>, <<"a", ".", ".", "b">>,
   <<"a", ".", "b", ".">>, <<".", "a">>, <<".", ".">>, <<"root", ".">>, NoName}

Symmetry == Permutations(Clients)
=============================================================================
