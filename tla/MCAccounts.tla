----------------------------- MODULE MCAccounts -----------------------------
(* Accounts for TLC. *)
EXTENDS Accounts, TLC

CONSTANTS me, adm, r1, r2, t1, t2, s1, s2, k1, c1, c2

OneBatch == {{c1, c2}}
RowSymmetry == Permutations(Requests) \cup Permutations(Tokens) \cup Permutations(Sessions) \cup Permutations(Codes)
=============================================================================
