----------------------------- MODULE QuotaLedger ----------------------------
(***************************************************************************)
(* What services/quota.service.js promises to its callers: an owner's      *)
(* balance on which every call acts once, in one step, at some moment      *)
(* between the call and its answer.                                        *)
(*                                                                         *)
(*   - a reservation is added whole and only if it fits a quota that was   *)
(*     in force while the call ran, or it is refused and nothing changes;  *)
(*   - a refund is taken off whole, with a floor at zero;                  *)
(*   - a charge is added whatever the quota says;                          *)
(*   - a call may also end without any effect (the database failed, the    *)
(*     process restarted, a refund gave up under contention).              *)
(*                                                                         *)
(* The module Quota refines this one statement by statement.               *)
(***************************************************************************)
EXTENDS Accounting

CONSTANTS
    Requests,   \* concurrent calls on one owner's row
    Amounts,    \* byte counts the calls carry
    Quotas      \* quotas an administrator may set

VARIABLES
    used,       \* User.usedBytes
    quota,      \* User.quotaBytes
    pending,    \* the call each request is making, or Idle
    inForce     \* quotas that were in force since that call began

vars == <<used, quota, pending, inForce>>

Ops  == {"reserve", "refund", "charge"}
Idle == [op |-> "none", amount |-> 0]
Calls == [op : Ops, amount : Amounts]

Init ==
    /\ used \in Quotas \cup {0}
    /\ quota \in Quotas
    /\ pending = [r \in Requests |-> Idle]
    /\ inForce = [r \in Requests |-> {}]

Open(r, c) ==
    /\ pending[r] = Idle
    /\ pending' = [pending EXCEPT ![r] = c]
    /\ inForce' = [inForce EXCEPT ![r] = {quota}]
    /\ UNCHANGED <<used, quota>>

\* The call of r ends: nothing is pending for it any more.
Close(r) ==
    /\ pending' = [pending EXCEPT ![r] = Idle]
    /\ inForce' = [inForce EXCEPT ![r] = {}]
    /\ UNCHANGED quota

Reserve(r) ==
    /\ pending[r].op = "reserve"
    /\ \/ pending[r].amount = 0
       \/ \E q \in inForce[r] : Fits(used, pending[r].amount, q)
    /\ used' = used + pending[r].amount
    /\ Close(r)

Refuse(r) ==
    /\ pending[r].op = "reserve"
    /\ \E q \in inForce[r] : ~Fits(used, pending[r].amount, q)
    /\ used' = used
    /\ Close(r)

Refund(r) ==
    /\ pending[r].op = "refund"
    /\ used' = Refunded(used, pending[r].amount)
    /\ Close(r)

Charge(r) ==
    /\ pending[r].op = "charge"
    /\ used' = used + pending[r].amount
    /\ Close(r)

\* A call that ends without an effect.
Lose(r) ==
    /\ pending[r] # Idle
    /\ used' = used
    /\ Close(r)

SetQuota(q) ==
    /\ quota' = q
    /\ inForce' = [r \in Requests |->
                     IF pending[r] = Idle THEN {} ELSE inForce[r] \cup {q}]
    /\ UNCHANGED <<used, pending>>

Next ==
    \/ \E r \in Requests :
         \/ \E c \in Calls : Open(r, c)
         \/ Reserve(r) \/ Refuse(r) \/ Refund(r) \/ Charge(r) \/ Lose(r)
    \/ \E q \in Quotas : SetQuota(q)

Spec == Init /\ [][Next]_vars
=============================================================================
