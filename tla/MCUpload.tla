------------------------------ MODULE MCUpload ------------------------------
(* ChunkedUpload for TLC: requests of one kind are interchangeable. *)
EXTENDS ChunkedUpload, TLC

CONSTANTS s1, s2    \* sessions, named so that a cfg can single one out

RequestSymmetry ==
    Permutations(Puts) \cup Permutations(Completes) \cup Permutations(Deletes)
=============================================================================
