------------------------------- MODULE Quota --------------------------------
(***************************************************************************)
(* backend/src/services/quota.service.js, one action per SQL statement.    *)
(*                                                                         *)
(* The owner's row is one record in the database; every request that       *)
(* touches it runs reserveQuota, subUsage (also called releaseQuota) or    *)
(* addUsage, and the statements of concurrent requests interleave freely.  *)
(* A statement is atomic: it is one UPDATE ... WHERE or one SELECT.        *)
(***************************************************************************)
EXTENDS Accounting

CONSTANTS
    Requests,         \* concurrent calls on one owner's row
    Amounts,          \* byte counts the calls carry
    Quotas,           \* quotas an administrator may set
    RefundAttempts,   \* tries of subUsage's fallback loop (3 in the code)
    MaxCharged        \* bound: no charge is called once this many bytes were
                      \* charged unconditionally

ASSUME QuotaAssumption ==
    /\ Amounts \subseteq Nat
    /\ Quotas \subseteq Nat
    /\ RefundAttempts \in Nat \ {0}
    /\ MaxCharged \in Nat

VARIABLES
    used,      \* User.usedBytes
    quota,     \* User.quotaBytes
    pc,        \* the statement each request executes next
    amount,    \* the bytes its call is about
    limit,     \* reserveQuota: the quota it read
    seen,      \* subUsage: the balance the fallback read
    attempt,   \* subUsage: the fallback's loop counter
    inForce,   \* history: quotas in force since the call began
    peak,      \* history: the highest quota ever in force
    charged    \* history: bytes charged unconditionally

vars  == <<used, quota, pc, amount, limit, seen, attempt, inForce, peak, charged>>

ReserveSteps == {"readQuota", "tryReserve"}
RefundSteps  == {"tryRefund", "reread", "refundAgain", "clear"}
Steps == {"idle", "charge"} \cup ReserveSteps \cup RefundSteps

TypeOK ==
    /\ used \in Nat
    /\ quota \in Quotas
    /\ pc \in [Requests -> Steps]
    /\ amount \in [Requests -> Amounts \cup {0}]
    /\ limit \in [Requests -> Quotas \cup {0}]
    /\ seen \in [Requests -> Nat]
    /\ attempt \in [Requests -> 0..(RefundAttempts - 1)]
    /\ inForce \in [Requests -> SUBSET Quotas]
    /\ peak \in Quotas
    /\ charged \in Nat

Init ==
    /\ quota \in Quotas
    /\ used \in {n \in Quotas \cup {0} : n <= quota}
    /\ pc = [r \in Requests |-> "idle"]
    /\ amount = [r \in Requests |-> 0]
    /\ limit = [r \in Requests |-> 0]
    /\ seen = [r \in Requests |-> 0]
    /\ attempt = [r \in Requests |-> 0]
    /\ inForce = [r \in Requests |-> {}]
    /\ peak = quota
    /\ charged = 0

-----------------------------------------------------------------------------
\* A request enters the service at its first statement.
Enter(r, step, a) ==
    /\ pc[r] = "idle"
    /\ pc' = [pc EXCEPT ![r] = step]
    /\ amount' = [amount EXCEPT ![r] = a]
    /\ inForce' = [inForce EXCEPT ![r] = {quota}]
    /\ UNCHANGED <<used, quota, limit, seen, attempt, peak, charged>>

\* The call of r returns or throws; its local variables are gone.
Answer(r) ==
    /\ pc' = [pc EXCEPT ![r] = "idle"]
    /\ amount' = [amount EXCEPT ![r] = 0]
    /\ limit' = [limit EXCEPT ![r] = 0]
    /\ seen' = [seen EXCEPT ![r] = 0]
    /\ attempt' = [attempt EXCEPT ![r] = 0]
    /\ inForce' = [inForce EXCEPT ![r] = {}]
    /\ UNCHANGED <<quota, peak>>

CallReserve(r) == \E a \in Amounts : Enter(r, "readQuota", a)

\* subUsage returns at once for d <= 0, so only a positive d reaches a statement.
CallRefund(r) == \E a \in Amounts \ {0} : Enter(r, "tryRefund", a)

CallCharge(r) ==
    /\ charged < MaxCharged
    /\ \E a \in Amounts : Enter(r, "charge", a)

-----------------------------------------------------------------------------
(* reserveQuota *)

\* The SELECT: nothing to charge, an upload larger than the quota, or go on
\* with the quota as read.
ReadQuota(r) ==
    /\ pc[r] = "readQuota"
    /\ IF amount[r] = 0 \/ amount[r] > quota
         THEN Answer(r) /\ UNCHANGED <<used, charged>>
         ELSE /\ pc' = [pc EXCEPT ![r] = "tryReserve"]
              /\ limit' = [limit EXCEPT ![r] = quota]
              /\ UNCHANGED <<used, quota, amount, seen, attempt, inForce, peak, charged>>

\* Mutation: the condition forgets the bytes that are about to be added.
TryReserveFull(r) ==
    /\ pc[r] = "tryReserve"
    /\ used' = IF used <= limit[r] THEN used + amount[r] ELSE used
    /\ Answer(r)
    /\ UNCHANGED charged

\* UPDATE ... SET usedBytes += add WHERE usedBytes <= quota - add.
TryReserve(r) ==
    /\ pc[r] = "tryReserve"
    /\ used' = IF used <= limit[r] - amount[r] THEN used + amount[r] ELSE used
    /\ Answer(r)
    /\ UNCHANGED charged

-----------------------------------------------------------------------------
(* subUsage *)

\* Mutation: a decrement without a condition.
TryRefundBlind(r) ==
    /\ pc[r] = "tryRefund"
    /\ used' = used - amount[r]
    /\ Answer(r)
    /\ UNCHANGED charged

\* UPDATE ... SET usedBytes -= d WHERE usedBytes >= d, the common case.
TryRefund(r) ==
    /\ pc[r] = "tryRefund"
    /\ IF used >= amount[r]
         THEN used' = used - amount[r] /\ Answer(r) /\ UNCHANGED charged
         ELSE /\ pc' = [pc EXCEPT ![r] = "reread"]
              /\ UNCHANGED <<used, quota, amount, limit, seen, attempt, inForce, peak, charged>>

\* Mutation: a balance equal to the refund is sent to the clamp.
RereadStrict(r) ==
    /\ pc[r] = "reread"
    /\ seen' = [seen EXCEPT ![r] = used]
    /\ pc' = [pc EXCEPT ![r] = IF used > amount[r] THEN "refundAgain" ELSE "clear"]
    /\ UNCHANGED <<used, quota, amount, limit, attempt, inForce, peak, charged>>

\* The fallback's SELECT chooses between the decrement and the clamp.
Reread(r) ==
    /\ pc[r] = "reread"
    /\ seen' = [seen EXCEPT ![r] = used]
    /\ pc' = [pc EXCEPT ![r] = IF used >= amount[r] THEN "refundAgain" ELSE "clear"]
    /\ UNCHANGED <<used, quota, amount, limit, attempt, inForce, peak, charged>>

\* Mutation: a loop that never gives up.
RetryForever(r) ==
    /\ pc' = [pc EXCEPT ![r] = "reread"]
    /\ UNCHANGED <<used, quota, amount, limit, seen, attempt, inForce, peak, charged>>

\* The UPDATE of this attempt changed no row: next attempt, or give up.
Retry(r) ==
    IF attempt[r] + 1 = RefundAttempts
      THEN Answer(r) /\ UNCHANGED <<used, charged>>
      ELSE /\ attempt' = [attempt EXCEPT ![r] = @ + 1]
           /\ pc' = [pc EXCEPT ![r] = "reread"]
           /\ UNCHANGED <<used, quota, amount, limit, seen, inForce, peak, charged>>

RefundAgain(r) ==
    /\ pc[r] = "refundAgain"
    /\ IF used >= amount[r]
         THEN used' = used - amount[r] /\ Answer(r) /\ UNCHANGED charged
         ELSE Retry(r)

\* Mutation: the clamp writes zero over whatever the balance is by now.
ClearBlind(r) ==
    /\ pc[r] = "clear"
    /\ used' = 0
    /\ Answer(r)
    /\ UNCHANGED charged

\* UPDATE ... SET usedBytes = 0 WHERE usedBytes = <the balance read>.
Clear(r) ==
    /\ pc[r] = "clear"
    /\ IF used = seen[r]
         THEN used' = 0 /\ Answer(r) /\ UNCHANGED charged
         ELSE Retry(r)

-----------------------------------------------------------------------------
\* addUsage: UPDATE ... SET usedBytes += delta, no condition.
Charge(r) ==
    /\ pc[r] = "charge"
    /\ used' = used + amount[r]
    /\ charged' = charged + amount[r]
    /\ Answer(r)

\* A statement fails or the process restarts: the call ends where it was.
Abandon(r) ==
    /\ pc[r] # "idle"
    /\ Answer(r)
    /\ UNCHANGED <<used, charged>>

\* PATCH /users/:id by an administrator.
SetQuota(q) ==
    /\ quota' = q
    /\ peak' = IF q > peak THEN q ELSE peak
    /\ inForce' = [r \in Requests |->
                     IF pc[r] = "idle" THEN {} ELSE inForce[r] \cup {q}]
    /\ UNCHANGED <<used, pc, amount, limit, seen, attempt, charged>>

-----------------------------------------------------------------------------
Statement(r) ==
    \/ ReadQuota(r) \/ TryReserve(r)
    \/ TryRefund(r) \/ Reread(r) \/ RefundAgain(r) \/ Clear(r)
    \/ Charge(r)

Next ==
    \/ \E r \in Requests :
         \/ CallReserve(r) \/ CallRefund(r) \/ CallCharge(r)
         \/ Statement(r)
         \/ Abandon(r)
    \/ \E q \in Quotas : SetQuota(q)

Spec == Init /\ [][Next]_vars

\* The event loop runs every request and the database answers every
\* statement, so a started call takes its next statement.
Fairness == \A r \in Requests : WF_vars(Statement(r))

FairSpec == Spec /\ Fairness

-----------------------------------------------------------------------------
(* Properties *)

\* Reservations alone never lift the balance above the highest quota that was
\* ever in force; only the unconditional addUsage can, and by no more than
\* the bytes it added.  Stale quota reads, lost updates and the
\* clamp of an over-large refund are what could break it.
UsedBound == used <= peak + charged

\* What a request read is still good enough when it writes: a refund clamps to
\* zero only a balance that was smaller than the refund, and a reservation is
\* weighed against a quota that was in force while it ran.
LocalReads ==
    \A r \in Requests :
        /\ pc[r] = "clear" => seen[r] < amount[r]
        /\ pc[r] = "tryReserve" =>
             limit[r] \in inForce[r] /\ amount[r] <= limit[r]

\* A request carries an amount and a record of quotas exactly while it runs.
CallState ==
    \A r \in Requests :
        IF pc[r] = "idle"
          THEN amount[r] = 0 /\ inForce[r] = {}
          ELSE amount[r] \in Amounts /\ quota \in inForce[r]

PeakHolds == quota <= peak /\ \A r \in Requests : limit[r] <= peak

\* The inductive invariant: UsedBound needs every quota a request still holds to
\* lie below the peak, the ledger needs what the requests read.
IInv == TypeOK /\ LocalReads /\ CallState /\ PeakHolds /\ UsedBound

\* The call each request is making, as the abstract ledger sees it.
OpOf(step) == CASE step \in ReserveSteps -> "reserve"
                [] step \in RefundSteps -> "refund"
                [] step = "charge" -> "charge"
                [] OTHER -> "none"

pendingCalls == [r \in Requests |-> [op |-> OpOf(pc[r]), amount |-> amount[r]]]

Ledger == INSTANCE QuotaLedger WITH pending <- pendingCalls

\* The statements of overlapping reservations, refunds and charges have the
\* effect of one atomic step per call: no refund is applied twice or in part,
\* and the clamp to zero never erases bytes charged by somebody else.
LedgerSpec == Ledger!Spec

\* The retry loop of a refund ends whatever the other requests do to the
\* balance: every call is answered.
Answered == \A r \in Requests : pc[r] # "idle" ~> pc[r] = "idle"
=============================================================================
