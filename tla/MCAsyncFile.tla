------------------------------ MODULE MCAsyncFile ------------------------------
EXTENDS AsyncFile

\* No definition singles out a record or a client.
Symmetry == Permutations(Records) \cup Permutations(Producers)
=============================================================================
