-------------------------------- MODULE MCCApi --------------------------------
(***************************************************************************)
(* Values for the constants of Logger and CApi: a logger and its parent.   *)
(***************************************************************************)
EXTENDS CApi, TLC

CONSTANTS root, a, s1, s2

MCParent == [l \in Loggers |-> IF l = a THEN root ELSE NoLogger]

MCRootSinks == <<s1, s2>>

MCSinkLists == {<<s2>>}

\* No definition singles out a client.
Symmetry == Permutations(Clients)
=============================================================================
