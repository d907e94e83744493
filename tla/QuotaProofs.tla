---------------------------- MODULE QuotaProofs -----------------------------
(***************************************************************************)
(* Proofs about the quota service, for every set of requests, amounts and  *)
(* quotas: type correctness, the bound on the balance, and that the        *)
(* statements implement the atomic ledger.                                 *)
(***************************************************************************)
EXTENDS Quota, TLAPS

USE DEF ReserveSteps, RefundSteps, Steps

\* Amounts and quotas are byte counts.
LEMMA BytesAreNat == ASSUME NEW b \in Amounts \cup Quotas \cup {0} PROVE b \in Nat
  BY QuotaAssumption

-----------------------------------------------------------------------------
\* One step of the service keeps every variable in its type.
LEMMA TypeStep == TypeOK /\ [Next]_vars => TypeOK'
<1> SUFFICES ASSUME TypeOK, [Next]_vars
             PROVE  TypeOK'
  OBVIOUS
<1> USE QuotaAssumption DEF TypeOK
<1>0. \A r \in Requests : amount[r] \in Nat /\ limit[r] \in Nat
  BY BytesAreNat
<1>1. ASSUME NEW r \in Requests, CallReserve(r) PROVE TypeOK'
  BY <1>1 DEF CallReserve, Enter
<1>2. ASSUME NEW r \in Requests, CallRefund(r) PROVE TypeOK'
  BY <1>2 DEF CallRefund, Enter
<1>3. ASSUME NEW r \in Requests, CallCharge(r) PROVE TypeOK'
  BY <1>3 DEF CallCharge, Enter
<1>4. ASSUME NEW r \in Requests, ReadQuota(r) PROVE TypeOK'
  BY <1>4 DEF ReadQuota, Answer
<1>5. ASSUME NEW r \in Requests, TryReserve(r) PROVE TypeOK'
  BY <1>0, <1>5 DEF TryReserve, Answer
<1>6. ASSUME NEW r \in Requests, TryRefund(r) PROVE TypeOK'
  BY <1>0, <1>6 DEF TryRefund, Answer
<1>7. ASSUME NEW r \in Requests, Reread(r) PROVE TypeOK'
  BY <1>7 DEF Reread
<1>8. ASSUME NEW r \in Requests, RefundAgain(r) PROVE TypeOK'
  BY <1>0, <1>8 DEF RefundAgain, Retry, Answer
<1>9. ASSUME NEW r \in Requests, Clear(r) PROVE TypeOK'
  BY <1>9 DEF Clear, Retry, Answer
<1>10. ASSUME NEW r \in Requests, Charge(r) PROVE TypeOK'
  BY <1>0, <1>10 DEF Charge, Answer
<1>11. ASSUME NEW r \in Requests, Abandon(r) PROVE TypeOK'
  BY <1>11 DEF Abandon, Answer
<1>12. ASSUME NEW q \in Quotas, SetQuota(q) PROVE TypeOK'
  BY <1>12 DEF SetQuota
<1>13. CASE UNCHANGED vars
  BY <1>13 DEF vars
<1> QED
  BY <1>1, <1>2, <1>3, <1>4, <1>5, <1>6, <1>7, <1>8, <1>9, <1>10, <1>11,
     <1>12, <1>13 DEF Next, Statement

\* Every variable keeps its type: in particular no sequence of overlapping
\* refunds drives the balance below zero.
THEOREM TypeCorrect == Spec => []TypeOK
<1>1. Init => TypeOK
  BY QuotaAssumption DEF Init, TypeOK
<1> QED
  BY <1>1, TypeStep, PTL DEF Spec

-----------------------------------------------------------------------------
\* One step keeps the inductive invariant.
LEMMA InvStep == IInv /\ [Next]_vars => IInv'
<1> SUFFICES ASSUME IInv, [Next]_vars
             PROVE  IInv'
  OBVIOUS
<1>t. TypeOK /\ TypeOK'
  BY TypeStep DEF IInv
<1>n. /\ \A r \in Requests : amount[r] \in Nat /\ limit[r] \in Nat
      /\ quota \in Nat /\ peak \in Nat /\ used \in Nat /\ charged \in Nat
  BY <1>t, BytesAreNat DEF TypeOK
<1>i. LocalReads /\ CallState /\ PeakHolds /\ UsedBound
  BY DEF IInv
<1> USE <1>t, <1>n, <1>i DEF TypeOK, LocalReads, CallState, PeakHolds, UsedBound
<1> SUFFICES LocalReads' /\ CallState' /\ PeakHolds' /\ UsedBound'
  BY DEF IInv
<1>1. ASSUME NEW r \in Requests, CallReserve(r) \/ CallRefund(r) \/ CallCharge(r)
      PROVE  LocalReads' /\ CallState' /\ PeakHolds' /\ UsedBound'
  <2>1. LocalReads'
    BY <1>1 DEF CallReserve, CallRefund, CallCharge, Enter
  <2>2. CallState'
    BY <1>1 DEF CallReserve, CallRefund, CallCharge, Enter
  <2>3. PeakHolds'
    BY <1>1 DEF CallReserve, CallRefund, CallCharge, Enter
  <2>4. UsedBound'
    BY <1>1 DEF CallReserve, CallRefund, CallCharge, Enter
  <2> QED
    BY <2>1, <2>2, <2>3, <2>4
<1>4. ASSUME NEW r \in Requests, ReadQuota(r)
      PROVE  LocalReads' /\ CallState' /\ PeakHolds' /\ UsedBound'
  <2>1. LocalReads'
    BY <1>4 DEF ReadQuota, Answer
  <2>2. CallState'
    BY <1>4 DEF ReadQuota, Answer
  <2>3. PeakHolds'
    BY <1>4 DEF ReadQuota, Answer
  <2>4. UsedBound'
    BY <1>4 DEF ReadQuota, Answer
  <2> QED
    BY <2>1, <2>2, <2>3, <2>4
<1>5. ASSUME NEW r \in Requests, TryReserve(r)
      PROVE  LocalReads' /\ CallState' /\ PeakHolds' /\ UsedBound'
  <2>1. LocalReads'
    BY <1>5 DEF TryReserve, Answer
  <2>2. CallState'
    BY <1>5 DEF TryReserve, Answer
  <2>3. PeakHolds'
    BY <1>5 DEF TryReserve, Answer
  <2>4. UsedBound'
    BY <1>5 DEF TryReserve, Answer
  <2> QED
    BY <2>1, <2>2, <2>3, <2>4
<1>6. ASSUME NEW r \in Requests, TryRefund(r)
      PROVE  LocalReads' /\ CallState' /\ PeakHolds' /\ UsedBound'
  <2>1. LocalReads'
    BY <1>6 DEF TryRefund, Answer
  <2>2. CallState'
    BY <1>6 DEF TryRefund, Answer
  <2>3. PeakHolds'
    BY <1>6 DEF TryRefund, Answer
  <2>4. UsedBound'
    <3>1. used' \in {used - amount[r], used} /\ UNCHANGED <<peak, charged>>
      BY <1>6 DEF TryRefund, Answer
    <3>2. amount[r] \in Nat
      OBVIOUS
    <3> QED
      BY <3>1, <3>2
  <2> QED
    BY <2>1, <2>2, <2>3, <2>4
<1>7. ASSUME NEW r \in Requests, Reread(r)
      PROVE  LocalReads' /\ CallState' /\ PeakHolds' /\ UsedBound'
  <2>1. LocalReads'
    BY <1>7 DEF Reread
  <2>2. CallState'
    BY <1>7 DEF Reread
  <2>3. PeakHolds'
    BY <1>7 DEF Reread
  <2>4. UsedBound'
    BY <1>7 DEF Reread
  <2> QED
    BY <2>1, <2>2, <2>3, <2>4
<1>8. ASSUME NEW r \in Requests, RefundAgain(r)
      PROVE  LocalReads' /\ CallState' /\ PeakHolds' /\ UsedBound'
  <2>1. LocalReads'
    BY <1>8 DEF RefundAgain, Retry, Answer
  <2>2. CallState'
    BY <1>8 DEF RefundAgain, Retry, Answer
  <2>3. PeakHolds'
    BY <1>8 DEF RefundAgain, Retry, Answer
  <2>4. UsedBound'
    <3>1. used' \in {used - amount[r], used} /\ UNCHANGED <<peak, charged>>
      BY <1>8 DEF RefundAgain, Retry, Answer
    <3>2. amount[r] \in Nat
      OBVIOUS
    <3> QED
      BY <3>1, <3>2
  <2> QED
    BY <2>1, <2>2, <2>3, <2>4
<1>9. ASSUME NEW r \in Requests, Clear(r)
      PROVE  LocalReads' /\ CallState' /\ PeakHolds' /\ UsedBound'
  <2>1. LocalReads'
    BY <1>9 DEF Clear, Retry, Answer
  <2>2. CallState'
    BY <1>9 DEF Clear, Retry, Answer
  <2>3. PeakHolds'
    BY <1>9 DEF Clear, Retry, Answer
  <2>4. UsedBound'
    <3>1. used' \in {0, used} /\ UNCHANGED <<peak, charged>>
      BY <1>9 DEF Clear, Retry, Answer
    <3> QED
      BY <3>1
  <2> QED
    BY <2>1, <2>2, <2>3, <2>4
<1>10. ASSUME NEW r \in Requests, Charge(r)
       PROVE  LocalReads' /\ CallState' /\ PeakHolds' /\ UsedBound'
  <2>1. LocalReads'
    BY <1>10 DEF Charge, Answer
  <2>2. CallState'
    BY <1>10 DEF Charge, Answer
  <2>3. PeakHolds'
    BY <1>10 DEF Charge, Answer
  <2>4. UsedBound'
    BY <1>10 DEF Charge, Answer
  <2> QED
    BY <2>1, <2>2, <2>3, <2>4
<1>11. ASSUME NEW r \in Requests, Abandon(r)
       PROVE  LocalReads' /\ CallState' /\ PeakHolds' /\ UsedBound'
  <2>1. LocalReads'
    BY <1>11 DEF Abandon, Answer
  <2>2. CallState'
    BY <1>11 DEF Abandon, Answer
  <2>3. PeakHolds'
    BY <1>11 DEF Abandon, Answer
  <2>4. UsedBound'
    BY <1>11 DEF Abandon, Answer
  <2> QED
    BY <2>1, <2>2, <2>3, <2>4
<1>12. ASSUME NEW q \in Quotas, SetQuota(q)
       PROVE  LocalReads' /\ CallState' /\ PeakHolds' /\ UsedBound'
  BY <1>12, BytesAreNat DEF SetQuota
<1>13. CASE UNCHANGED vars
  BY <1>13 DEF vars
<1> QED
  BY <1>1, <1>4, <1>5, <1>6, <1>7, <1>8, <1>9, <1>10, <1>11, <1>12, <1>13
     DEF Next, Statement

\* The inductive invariant holds in every reachable state.
THEOREM Invariance == Spec => []IInv
<1>1. Init => IInv
  BY QuotaAssumption, BytesAreNat
     DEF Init, IInv, TypeOK, LocalReads, CallState, PeakHolds, UsedBound
<1> QED
  BY <1>1, InvStep, PTL DEF Spec

\* Reservations, however they interleave with refunds and quota changes, never
\* lift the balance above the highest quota ever in force: only the bytes
\* charged unconditionally can exceed it.
THEOREM BalanceBound == Spec => []UsedBound
<1>1. IInv => UsedBound
  BY DEF IInv
<1> QED
  BY <1>1, Invariance, PTL

-----------------------------------------------------------------------------
(* The statements implement the ledger. *)

LEMMA RefinesInit == Init => Ledger!Init
  BY DEF Init, Ledger!Init, Ledger!Idle, pendingCalls, OpOf

\* Moving one request on moves its entry of the ledger's pending calls only.
LEMMA PendingUpdate ==
    ASSUME TypeOK, NEW r \in Requests, NEW step, NEW a,
           pc' = [pc EXCEPT ![r] = step], amount' = [amount EXCEPT ![r] = a]
    PROVE  pendingCalls' =
             [pendingCalls EXCEPT ![r] = [op |-> OpOf(step), amount |-> a]]
  BY DEF TypeOK, pendingCalls

\* What the ledger sees of a request that is answered.
LEMMA AnswerCloses ==
    ASSUME TypeOK, NEW r \in Requests, Answer(r)
    PROVE  Ledger!Close(r)
<1>1. pendingCalls' = [pendingCalls EXCEPT ![r] = [op |-> "none", amount |-> 0]]
  BY PendingUpdate DEF Answer, OpOf
<1> QED
  BY <1>1 DEF Answer, Ledger!Close, Ledger!Idle

\* What the ledger sees of a request that enters the service.
LEMMA EnterOpens ==
    ASSUME IInv, NEW r \in Requests, NEW step \in Steps \ {"idle"},
           NEW a \in Amounts, Enter(r, step, a)
    PROVE  \E c \in Ledger!Calls : Ledger!Open(r, c)
<1> DEFINE c == [op |-> OpOf(step), amount |-> a]
<1>1. c \in Ledger!Calls
  BY DEF Ledger!Calls, Ledger!Ops, OpOf
<1>2. pendingCalls' = [pendingCalls EXCEPT ![r] = c]
  BY PendingUpdate DEF IInv, Enter
<1>3. pendingCalls[r] = Ledger!Idle
  BY DEF Enter, IInv, CallState, pendingCalls, OpOf, Ledger!Idle
<1>4. Ledger!Open(r, c)
  BY <1>2, <1>3 DEF Ledger!Open, Enter
<1> QED
  BY <1>1, <1>4

\* A statement that leaves its request in the same call is invisible.
LEMMA InternalStep ==
    ASSUME TypeOK, NEW r \in Requests, NEW step, OpOf(step) = OpOf(pc[r]),
           pc' = [pc EXCEPT ![r] = step], UNCHANGED <<used, quota, amount, inForce>>
    PROVE  UNCHANGED Ledger!vars
<1>1. pendingCalls' = pendingCalls
  BY DEF TypeOK, pendingCalls
<1> QED
  BY <1>1 DEF Ledger!vars

\* Every statement is a step of the ledger or is invisible to it.
LEMMA RefinesStep == IInv /\ [Next]_vars => [Ledger!Next]_(Ledger!vars)
<1> SUFFICES ASSUME IInv, [Next]_vars
             PROVE  Ledger!Next \/ UNCHANGED Ledger!vars
  BY DEF Ledger!vars
<1>t. TypeOK
  BY DEF IInv
<1>n. /\ \A r \in Requests : amount[r] \in Nat /\ limit[r] \in Nat
      /\ quota \in Nat /\ used \in Nat
  BY <1>t, BytesAreNat DEF TypeOK
<1>i. LocalReads /\ CallState
  BY DEF IInv
<1>p. \A r \in Requests :
        pendingCalls[r].op = OpOf(pc[r]) /\ pendingCalls[r].amount = amount[r]
  BY DEF pendingCalls
<1>g. ASSUME NEW r \in Requests, pc[r] # "idle", UNCHANGED used, Answer(r)
      PROVE  Ledger!Next
  <2>1. Ledger!Close(r)
    BY <1>t, <1>g, AnswerCloses
  <2>2. pendingCalls[r] # Ledger!Idle
    BY <1>t, <1>g, <1>p DEF TypeOK, OpOf, Ledger!Idle
  <2> QED
    BY <1>g, <2>1, <2>2 DEF Ledger!Next, Ledger!Lose
<1>f. ASSUME NEW r \in Requests, pc[r] \in RefundSteps,
             used' = Refunded(used, amount[r]), Answer(r)
      PROVE  Ledger!Next
  <2>1. Ledger!Close(r)
    BY <1>t, <1>f, AnswerCloses
  <2>2. pendingCalls[r].op = "refund"
    BY <1>f, <1>p DEF OpOf
  <2> QED
    BY <1>f, <1>p, <2>1, <2>2 DEF Ledger!Next, Ledger!Refund, Refunded, Ledger!Refunded
<1>1. ASSUME NEW r \in Requests, CallReserve(r) \/ CallRefund(r) \/ CallCharge(r)
      PROVE  Ledger!Next
  <2>1. PICK step \in Steps \ {"idle"}, a \in Amounts : Enter(r, step, a)
    BY <1>1 DEF CallReserve, CallRefund, CallCharge
  <2> QED
    BY <2>1, EnterOpens DEF Ledger!Next
<1>2. ASSUME NEW r \in Requests, ReadQuota(r)
      PROVE  Ledger!Next \/ UNCHANGED Ledger!vars
  <2>1. CASE amount[r] = 0 \/ amount[r] > quota
    BY <1>2, <1>g, <2>1 DEF ReadQuota
  <2>2. CASE ~(amount[r] = 0 \/ amount[r] > quota)
    BY <1>2, <1>t, <2>2, InternalStep DEF ReadQuota, OpOf
  <2> QED
    BY <2>1, <2>2
<1>3. ASSUME NEW r \in Requests, TryReserve(r)
      PROVE  Ledger!Next
  <2>1. Ledger!Close(r) /\ pc[r] = "tryReserve"
    BY <1>3, <1>t, AnswerCloses DEF TryReserve
  <2>2. pendingCalls[r].op = "reserve" /\ pendingCalls[r].amount = amount[r]
    BY <1>p, <2>1 DEF OpOf
  <2>3. limit[r] \in inForce[r] /\ amount[r] <= limit[r]
    BY <1>i, <2>1 DEF LocalReads
  <2>4. CASE used <= limit[r] - amount[r]
    <3>1. Ledger!Fits(used, amount[r], limit[r])
      BY <1>n, <2>4 DEF Ledger!Fits
    <3>2. used' = used + amount[r]
      BY <1>3, <2>4 DEF TryReserve
    <3>3. Ledger!Reserve(r)
      BY <2>1, <2>2, <2>3, <3>1, <3>2 DEF Ledger!Reserve
    <3> QED
      BY <3>3 DEF Ledger!Next
  <2>5. CASE ~(used <= limit[r] - amount[r])
    BY <1>3, <1>g, <2>1, <2>5 DEF TryReserve
  <2> QED
    BY <2>4, <2>5
<1>4. ASSUME NEW r \in Requests, TryRefund(r)
      PROVE  Ledger!Next \/ UNCHANGED Ledger!vars
  <2>1. CASE used >= amount[r]
    BY <1>4, <1>f, <2>1 DEF TryRefund, Refunded
  <2>2. CASE ~(used >= amount[r])
    BY <1>4, <1>t, <2>2, InternalStep DEF TryRefund, OpOf
  <2> QED
    BY <2>1, <2>2
<1>5. ASSUME NEW r \in Requests, Reread(r)
      PROVE  UNCHANGED Ledger!vars
  BY <1>5, <1>t, InternalStep DEF Reread, OpOf
<1>r. ASSUME NEW r \in Requests, pc[r] \in RefundSteps, Retry(r)
      PROVE  Ledger!Next \/ UNCHANGED Ledger!vars
  <2>1. CASE attempt[r] + 1 = RefundAttempts
    BY <1>r, <1>g, <2>1 DEF Retry
  <2>2. CASE attempt[r] + 1 # RefundAttempts
    BY <1>r, <1>t, <2>2, InternalStep DEF Retry, OpOf
  <2> QED
    BY <2>1, <2>2
<1>6. ASSUME NEW r \in Requests, RefundAgain(r)
      PROVE  Ledger!Next \/ UNCHANGED Ledger!vars
  <2>1. CASE used >= amount[r]
    BY <1>6, <1>f, <2>1 DEF RefundAgain, Refunded
  <2>2. CASE ~(used >= amount[r])
    BY <1>6, <1>r, <2>2 DEF RefundAgain
  <2> QED
    BY <2>1, <2>2
<1>7. ASSUME NEW r \in Requests, Clear(r)
      PROVE  Ledger!Next \/ UNCHANGED Ledger!vars
  <2>1. CASE used = seen[r]
    <3>1. used' = 0 /\ Answer(r) /\ pc[r] = "clear"
      BY <1>7, <2>1 DEF Clear
    <3>2. used < amount[r]
      BY <1>i, <2>1, <3>1 DEF LocalReads
    <3>3. used' = Refunded(used, amount[r])
      BY <1>n, <3>1, <3>2 DEF Refunded
    <3> QED
      BY <1>f, <3>1, <3>3
  <2>2. CASE used # seen[r]
    BY <1>7, <1>r, <2>2 DEF Clear
  <2> QED
    BY <2>1, <2>2
<1>8. ASSUME NEW r \in Requests, Charge(r)
      PROVE  Ledger!Next
  <2>1. Ledger!Close(r)
    BY <1>8, <1>t, AnswerCloses DEF Charge
  <2>2. Ledger!Charge(r)
    BY <1>8, <1>p, <2>1 DEF Charge, OpOf, Ledger!Charge
  <2> QED
    BY <2>2 DEF Ledger!Next
<1>9. ASSUME NEW r \in Requests, Abandon(r)
      PROVE  Ledger!Next
  BY <1>9, <1>g DEF Abandon
<1>10. ASSUME NEW q \in Quotas, SetQuota(q)
       PROVE  Ledger!Next
  <2>1. pendingCalls' = pendingCalls
    BY <1>10 DEF SetQuota, pendingCalls
  <2>2. \A r \in Requests : pendingCalls[r] = Ledger!Idle <=> pc[r] = "idle"
    BY <1>t, <1>i DEF TypeOK, CallState, pendingCalls, OpOf, Ledger!Idle
  <2>3. Ledger!SetQuota(q)
    BY <1>10, <2>1, <2>2 DEF SetQuota, Ledger!SetQuota
  <2> QED
    BY <2>3 DEF Ledger!Next
<1>11. CASE UNCHANGED vars
  BY <1>11 DEF vars, Ledger!vars, pendingCalls
<1> QED
  BY <1>1, <1>2, <1>3, <1>4, <1>5, <1>6, <1>7, <1>8, <1>9, <1>10, <1>11
     DEF Next, Statement

\* Overlapping reservations, refunds and charges have the effect of one atomic
\* step per call: no refund counts twice or in part, and the clamp of an
\* over-large refund never erases bytes that another request charged.
THEOREM ImplementsLedger == Spec => LedgerSpec
<1> QED
  BY RefinesInit, RefinesStep, Invariance, PTL DEF Spec, LedgerSpec, Ledger!Spec
=============================================================================
