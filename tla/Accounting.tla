----------------------------- MODULE Accounting -----------------------------
(***************************************************************************)
(* The arithmetic every upload and delete route shares                     *)
(* (backend/src/services/quota.service.js).  Bytes are naturals: the code  *)
(* keeps them in BigInt, so nothing wraps.                                 *)
(***************************************************************************)
EXTENDS Integers

\* Bytes an overwrite adds to the owner's usage, floored at zero.
NetCost(upload, refund) == IF upload > refund THEN upload - refund ELSE 0

\* The balance a refund of d bytes leaves: floored at zero.
Refunded(balance, d) == IF balance >= d THEN balance - d ELSE 0

\* The bound a read-only quota check and a reservation both apply.
Fits(balance, add, limit) == balance + add <= limit
=============================================================================
