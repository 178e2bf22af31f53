-------------------------- MODULE PentestRuns_proofs --------------------------
(***************************************************************************)
(* Proofs about PentestRuns, for any set of runs and any allowance.        *)
(***************************************************************************)
EXTENDS PentestRuns, FiniteSetTheorems, TLAPS

\* TypeOK in two parts: the types, and the conservation of what can be paid.
Types ==
  /\ charge \in [Runs -> {"unpaid", "paid", "refunded"}]
  /\ maced \in [Runs -> {"none", "running", "failed", "completed"}]
  /\ row \in [Runs -> [exists : BOOLEAN, refunded : BOOLEAN, audited : BOOLEAN]]
  /\ pc \in [Runs -> Stages]
  /\ attempts \in [Runs -> 0..MaxAttempts]
  /\ logged \subseteq Runs /\ auditing \subseteq Runs /\ answered \subseteq Runs
  /\ early \subseteq Runs
  /\ audits \in [Runs -> Nat]

Conserved == available \in Nat /\ available = Allowance - Cardinality(Paid)

\* Where createReport stands, and what it has done by then.
Calls ==
  \A r \in Runs :
    /\ charge[r] = "unpaid" <=> pc[r] \in {"idle", "blocked"}
    /\ charge[r] = "unpaid" => maced[r] = "none" /\ ~row[r].exists
    /\ pc[r] \in {"idle", "maced"} => attempts[r] = 0 /\ maced[r] = "none"
    /\ pc[r] = "persist" => attempts[r] < MaxAttempts
    /\ ~row[r].exists => row[r] = NoRow

\* What Maced was told of a run, and what the tables say of it then.
Ends ==
  \A r \in Runs :
    /\ r \in answered \cup auditing => Ended(r)
    /\ r \in auditing => maced[r] = "completed"
    /\ maced[r] = "failed" /\ r \in answered /\ ~row[r].exists => r \in early

\* The claim column counts the audit entry written or about to be written.
Audits ==
  \A r \in Runs :
    /\ ~row[r].audited => audits[r] = 0 /\ r \notin auditing
    /\ r \in auditing => audits[r] = 0

\* The inductive invariant but for Conserved, which only payments and refunds
\* touch.
Inv0 ==
  /\ Types /\ Calls /\ Ends /\ Audits
  /\ FailureSettled /\ MarkedIsRefunded /\ AuditedAtMostOnce /\ OnlyEarlyIsLost

IInv == Inv0 /\ Conserved

-----------------------------------------------------------------------------
(* Payments and refunds keep the pool in step with the paid runs. *)

LEMMA PaidFinite == IsFiniteSet(Paid) /\ Cardinality(Paid) \in Nat
<1>1. Paid \subseteq Runs BY DEF Paid
<1>2. IsFiniteSet(Paid) BY <1>1, RunsAssumption, FS_Subset
<1> QED BY <1>2, FS_CardinalityType

\* A unit is taken from a pool that has one.
LEMMA PayConserves ==
  ASSUME Inv0, Conserved, NEW r \in Runs, Pay(r)
  PROVE  Conserved'
<1>1. charge[r] # "paid" /\ charge' = [charge EXCEPT ![r] = "paid"]
  BY DEF Inv0, Calls, Pay
<1>2. Paid' = Paid \cup {r} /\ r \notin Paid BY <1>1 DEF Inv0, Types, Paid
<1>3. Cardinality(Paid') = Cardinality(Paid) + 1
  BY <1>2, PaidFinite, FS_AddElement
<1>4. available > 0 /\ available' = available - 1 BY DEF Pay, CanPay
<1> QED BY <1>3, <1>4, PaidFinite, ParamsAssumption DEF Conserved

\* A unit goes back to the pool when its run stops holding it.
LEMMA GiveBackConserves ==
  ASSUME Inv0, Conserved, NEW r \in Runs, Refundable(r), GiveBack(r)
  PROVE  Conserved'
<1>1. r \in Paid /\ Paid' = Paid \ {r}
  BY DEF Inv0, Types, Paid, Refundable, GiveBack
<1>2. Cardinality(Paid') = Cardinality(Paid) - 1
  BY <1>1, PaidFinite, FS_RemoveElement
<1>3. available' = available + 1 BY DEF GiveBack
<1> QED BY <1>2, <1>3, PaidFinite, ParamsAssumption DEF Conserved

\* Nothing else touches either.
LEMMA OtherConserves ==
  ASSUME Conserved, UNCHANGED <<charge, available>>
  PROVE  Conserved'
BY DEF Conserved, Paid

-----------------------------------------------------------------------------
(* createReport *)

Row == [exists : BOOLEAN, refunded : BOOLEAN, audited : BOOLEAN]

\* Setting a mark of a row leaves a row.
LEMMA MarkedRows ==
  ASSUME NEW x \in Row
  PROVE  [x EXCEPT !.audited = TRUE] \in Row /\ [x EXCEPT !.refunded = TRUE] \in Row
BY DEF Row

LEMMA RowsAreRows == Types => row \in [Runs -> Row]
BY DEF Types, Row

USE DEF Inv0, Types, Calls, Ends, Audits, FailureSettled, MarkedIsRefunded,
        AuditedAtMostOnce, OnlyEarlyIsLost, Stages, MaxAttempts, Ended, Goto

LEMMA PayInv ==
  ASSUME Inv0, NEW r \in Runs, Pay(r)
  PROVE  Inv0'
BY DEF Pay

LEMMA BlockedInv ==
  ASSUME Inv0, NEW r \in Runs, Blocked(r)
  PROVE  Inv0'
BY DEF Blocked

LEMMA CreateAtMacedInv ==
  ASSUME Inv0, NEW r \in Runs, CreateAtMaced(r)
  PROVE  Inv0'
<1> USE DEF CreateAtMaced
<1>1. Types' OBVIOUS
<1>2. Calls' BY <1>1
<1>3. Ends' BY <1>1
<1>4. Audits' BY <1>1
<1>5. FailureSettled' /\ MarkedIsRefunded' BY <1>1
<1>6. AuditedAtMostOnce' BY <1>1
<1>7. OnlyEarlyIsLost' BY <1>1
<1> QED BY <1>1, <1>2, <1>3, <1>4, <1>5, <1>6, <1>7

\* The row appears: a failure answered before is an early one.
LEMMA PersistInv ==
  ASSUME Inv0, NEW r \in Runs, Persist(r)
  PROVE  Inv0'
<1>1. /\ pc[r] = "persist"
      /\ pc' = [pc EXCEPT ![r] = "created"]
      /\ UNCHANGED <<charge, maced, attempts, logged, auditing, audits,
                     answered, early>>
  BY DEF Persist
<1>2. CASE row' = row
  <2>1. Types' /\ Ends' /\ Audits' BY <1>1, <1>2
  <2>2. Calls' BY <1>1, <1>2
  <2>3. FailureSettled' /\ MarkedIsRefunded' BY <1>1, <1>2
  <2>4. AuditedAtMostOnce' /\ OnlyEarlyIsLost' BY <1>1, <1>2
  <2> QED BY <2>1, <2>2, <2>3, <2>4
<1>3. CASE ~row[r].exists /\ row' = [row EXCEPT ![r] = NewRow]
  <2>1. NewRow \in Row /\ NewRow.exists /\ ~NewRow.refunded /\ ~NewRow.audited
    BY DEF NewRow, Row
  <2>2. row' \in [Runs -> Row] /\ row'[r] = NewRow BY <1>3, <2>1 DEF Row
  <2>3. \A q \in Runs : q # r => row'[q] = row[q] BY <1>3
  <2>4. ~row[r].audited /\ ~row[r].refunded BY <1>3 DEF NoRow
  <2>5. Types' BY <1>1, <2>2 DEF Row
  <2>6. Calls' BY <1>1, <2>1, <2>2, <2>3
  <2>7. Ends' BY <1>1, <2>1, <2>2, <2>3
  <2>8. Audits' BY <1>1, <2>1, <2>2, <2>3, <2>4
  <2>9. FailureSettled' BY <1>1
  <2>10. MarkedIsRefunded' BY <1>1, <2>1, <2>2, <2>3
  <2>11. AuditedAtMostOnce' BY <1>1
  <2>12. OnlyEarlyIsLost' BY <1>1, <1>3, <2>2, <2>3
  <2> QED BY <2>5, <2>6, <2>7, <2>8, <2>9, <2>10, <2>11, <2>12
<1> QED BY <1>2, <1>3 DEF Persist, Persisted

\* The row may appear all the same; the third error leads to the refund.
LEMMA PersistErrorInv ==
  ASSUME Inv0, NEW r \in Runs, PersistError(r)
  PROVE  Inv0'
<1>1. /\ pc[r] = "persist"
      /\ attempts' = [attempts EXCEPT ![r] = @ + 1]
      /\ pc' = [pc EXCEPT ![r] = IF attempts[r] + 1 < MaxAttempts
                                 THEN "persist" ELSE "refund"]
      /\ UNCHANGED <<charge, maced, logged, auditing, audits, answered,
                     early>>
  BY DEF PersistError, AfterLastAttempt
<1>2. CASE row' = row
  <2>1. Types' /\ Ends' /\ Audits' BY <1>1, <1>2
  <2>2. Calls' BY <1>1, <1>2
  <2>3. FailureSettled' /\ MarkedIsRefunded' BY <1>1, <1>2
  <2>4. AuditedAtMostOnce' /\ OnlyEarlyIsLost' BY <1>1, <1>2
  <2> QED BY <2>1, <2>2, <2>3, <2>4
<1>3. CASE ~row[r].exists /\ row' = [row EXCEPT ![r] = NewRow]
  <2>1. NewRow \in Row /\ NewRow.exists /\ ~NewRow.refunded /\ ~NewRow.audited
    BY DEF NewRow, Row
  <2>2. row' \in [Runs -> Row] /\ row'[r] = NewRow BY <1>3, <2>1 DEF Row
  <2>3. \A q \in Runs : q # r => row'[q] = row[q] BY <1>3
  <2>4. ~row[r].audited /\ ~row[r].refunded BY <1>3 DEF NoRow
  <2>a. attempts' \in [Runs -> 0..MaxAttempts] BY <1>1
  <2>b. pc' \in [Runs -> Stages] BY <1>1
  <2>5. Types' BY <1>1, <2>2, <2>a, <2>b DEF Row
  <2>6. Calls' BY <1>1, <2>1, <2>2, <2>3
  <2>7. Ends' BY <1>1, <2>1, <2>2, <2>3
  <2>8. Audits' BY <1>1, <2>1, <2>2, <2>3, <2>4
  <2>9. FailureSettled' BY <1>1
  <2>10. MarkedIsRefunded' BY <1>1, <2>1, <2>2, <2>3
  <2>11. AuditedAtMostOnce' BY <1>1
  <2>12. OnlyEarlyIsLost' BY <1>1, <1>3, <2>2, <2>3
  <2> QED BY <2>5, <2>6, <2>7, <2>8, <2>9, <2>10, <2>11, <2>12
<1> QED BY <1>2, <1>3 DEF PersistError, Persisted

LEMMA RefundQuietlyInv ==
  ASSUME Inv0, NEW r \in Runs, RefundQuietly(r)
  PROVE  Inv0'
<1> USE DEF RefundQuietly, Refundable, GiveBack
<1>1. Types' OBVIOUS
<1>2. Calls' BY <1>1
<1>3. Ends' BY <1>1
<1>4. Audits' BY <1>1
<1>5. FailureSettled' /\ MarkedIsRefunded' BY <1>1
<1>6. AuditedAtMostOnce' BY <1>1
<1>7. OnlyEarlyIsLost' BY <1>1
<1> QED BY <1>1, <1>2, <1>3, <1>4, <1>5, <1>6, <1>7

-----------------------------------------------------------------------------
(* Maced and its webhooks *)

LEMMA MacedEndsInv ==
  ASSUME Inv0, NEW r \in Runs, MacedEnds(r)
  PROVE  Inv0'
BY DEF MacedEnds

LEMMA WebhookRefundInv ==
  ASSUME Inv0, NEW r \in Runs, WebhookRefund(r)
  PROVE  Inv0'
<1>1. /\ maced[r] = "failed" /\ row[r].exists /\ charge[r] = "paid"
      /\ row' = [row EXCEPT ![r].refunded = TRUE]
      /\ charge' = [charge EXCEPT ![r] = "refunded"]
      /\ answered' = answered \cup {r}
      /\ UNCHANGED <<maced, pc, attempts, logged, auditing, audits, early>>
  BY DEF WebhookRefund, Refundable, GiveBack, Answer
<1>2. row' \in [Runs -> Row]
  <2>1. row \in [Runs -> Row] BY RowsAreRows
  <2>2. [row[r] EXCEPT !.refunded = TRUE] \in Row BY <2>1, MarkedRows
  <2> QED BY <1>1, <2>1, <2>2
<1>3. \A q \in Runs : /\ row'[q].exists = row[q].exists
                      /\ row'[q].audited = row[q].audited
                      /\ q # r => row'[q] = row[q]
  BY <1>1
<1>4. Types' BY <1>1, <1>2 DEF Row
<1>5. Calls' BY <1>1, <1>3
<1>6. Ends' BY <1>1, <1>3
<1>7. Audits' BY <1>1, <1>3
<1>8. FailureSettled' /\ MarkedIsRefunded' BY <1>1, <1>3
<1>9. AuditedAtMostOnce' /\ OnlyEarlyIsLost' BY <1>1, <1>3
<1> QED BY <1>4, <1>5, <1>6, <1>7, <1>8, <1>9

LEMMA WebhookRefundErrorInv ==
  ASSUME Inv0, NEW r \in Runs, WebhookRefundError(r)
  PROVE  Inv0'
BY DEF WebhookRefundError, AfterFailedRefund

\* Answered without a refund: there is no row, or the charge is back already.
LEMMA WebhookNoRefundInv ==
  ASSUME Inv0, NEW r \in Runs, WebhookNoRefund(r)
  PROVE  Inv0'
BY DEF WebhookNoRefund, Refundable, Answer

LEMMA AuditClaimInv ==
  ASSUME Inv0, NEW r \in Runs, AuditClaim(r)
  PROVE  Inv0'
<1>1. CASE /\ row[r].exists /\ ~row[r].audited /\ r \notin auditing
           /\ row' = [row EXCEPT ![r].audited = TRUE]
           /\ auditing' = auditing \cup {r}
           /\ UNCHANGED answered
  <2>a. row \in [Runs -> Row] BY RowsAreRows
  <2>b. [row[r] EXCEPT !.audited = TRUE] \in Row BY <2>a, MarkedRows
  <2>1. row' \in [Runs -> Row] BY <1>1, <2>a, <2>b
  <2>2. \A q \in Runs : /\ row'[q].exists = row[q].exists
                        /\ row'[q].refunded = row[q].refunded
                        /\ row[q].audited => row'[q].audited
                        /\ q # r => row'[q] = row[q]
    BY <1>1
  <2>3. /\ maced[r] = "completed"
        /\ UNCHANGED <<available, charge, maced, pc, attempts, logged, audits, early>>
    BY DEF AuditClaim
  <2>4. row'[r].audited BY <1>1
  <2>5. Types' BY <1>1, <2>1, <2>3 DEF Row
  <2>6. Calls' BY <1>1, <2>2, <2>3
  <2>7. Ends' BY <1>1, <2>2, <2>3
  <2>8. Audits' BY <1>1, <2>2, <2>3, <2>4
  <2>9. FailureSettled' /\ MarkedIsRefunded' BY <2>2, <2>3
  <2>10. AuditedAtMostOnce' /\ OnlyEarlyIsLost' BY <1>1, <2>2, <2>3
  <2> QED BY <2>5, <2>6, <2>7, <2>8, <2>9, <2>10
<1>2. CASE answered' = answered \cup {r} /\ UNCHANGED <<row, auditing>>
  BY <1>2 DEF AuditClaim
<1> QED BY <1>1, <1>2 DEF AuditClaim, Unaudited, Answer

LEMMA AuditWriteInv ==
  ASSUME Inv0, NEW r \in Runs, AuditWrite(r)
  PROVE  Inv0'
<1> USE DEF AuditWrite, Answer
<1>1. Types' OBVIOUS
<1>2. Calls' BY <1>1
<1>3. Ends' BY <1>1
<1>4. Audits' BY <1>1
<1>5. FailureSettled' /\ MarkedIsRefunded' BY <1>1
<1>6. AuditedAtMostOnce' BY <1>1
<1>7. OnlyEarlyIsLost' BY <1>1
<1> QED BY <1>1, <1>2, <1>3, <1>4, <1>5, <1>6, <1>7

LEMMA CrashInv ==
  ASSUME Inv0, NEW r \in Runs, Crash(r)
  PROVE  Inv0'
BY DEF Crash

-----------------------------------------------------------------------------
(* The theorems *)

LEMMA InitInv == Init => IInv
<1> SUFFICES ASSUME Init PROVE IInv OBVIOUS
<1>1. Inv0 BY DEF Init, NoRow
<1>2. Paid = {} BY DEF Init, Paid
<1>3. Conserved
  BY <1>2, FS_EmptySet, ParamsAssumption DEF Init, Conserved
<1> QED BY <1>1, <1>3 DEF IInv

LEMMA NextInv == IInv /\ [Next]_vars => IInv'
<1> SUFFICES ASSUME Inv0, Conserved, [Next]_vars PROVE Inv0' /\ Conserved'
  BY DEF IInv
<1>1. CASE UNCHANGED vars
  <2>1. Inv0' BY <1>1 DEF vars
  <2>2. Conserved' BY <1>1, OtherConserves DEF vars
  <2> QED BY <2>1, <2>2
<1>2. ASSUME NEW r \in Runs, Pay(r) PROVE Inv0' /\ Conserved'
  BY <1>2, PayInv, PayConserves
<1>3. ASSUME NEW r \in Runs, Blocked(r) PROVE Inv0' /\ Conserved'
  <2>1. UNCHANGED <<charge, available>> BY <1>3 DEF Blocked
  <2> QED BY <1>3, <2>1, BlockedInv, OtherConserves
<1>4. ASSUME NEW r \in Runs, CreateAtMaced(r) PROVE Inv0' /\ Conserved'
  <2>1. UNCHANGED <<charge, available>> BY <1>4 DEF CreateAtMaced
  <2> QED BY <1>4, <2>1, CreateAtMacedInv, OtherConserves
<1>5. ASSUME NEW r \in Runs, Persist(r) PROVE Inv0' /\ Conserved'
  <2>1. UNCHANGED <<charge, available>> BY <1>5 DEF Persist
  <2> QED BY <1>5, <2>1, PersistInv, OtherConserves
<1>6. ASSUME NEW r \in Runs, PersistError(r) PROVE Inv0' /\ Conserved'
  <2>1. UNCHANGED <<charge, available>> BY <1>6 DEF PersistError
  <2> QED BY <1>6, <2>1, PersistErrorInv, OtherConserves
<1>7. ASSUME NEW r \in Runs, RefundQuietly(r) PROVE Inv0' /\ Conserved'
  <2>1. \/ Refundable(r) /\ GiveBack(r)
        \/ UNCHANGED <<charge, available>>
    BY <1>7 DEF RefundQuietly
  <2>2. Conserved' BY <2>1, GiveBackConserves, OtherConserves
  <2> QED BY <1>7, <2>2, RefundQuietlyInv
<1>8. ASSUME NEW r \in Runs, MacedEnds(r) PROVE Inv0' /\ Conserved'
  <2>1. UNCHANGED <<charge, available>> BY <1>8 DEF MacedEnds
  <2> QED BY <1>8, <2>1, MacedEndsInv, OtherConserves
<1>9. ASSUME NEW r \in Runs, WebhookRefund(r) PROVE Inv0' /\ Conserved'
  <2>1. Refundable(r) /\ GiveBack(r) BY <1>9 DEF WebhookRefund
  <2> QED BY <1>9, <2>1, WebhookRefundInv, GiveBackConserves
<1>10. ASSUME NEW r \in Runs, WebhookRefundError(r) PROVE Inv0' /\ Conserved'
  <2>1. UNCHANGED <<charge, available>> BY <1>10 DEF WebhookRefundError
  <2> QED BY <1>10, <2>1, WebhookRefundErrorInv, OtherConserves
<1>11. ASSUME NEW r \in Runs, WebhookNoRefund(r) PROVE Inv0' /\ Conserved'
  <2>1. UNCHANGED <<charge, available>> BY <1>11 DEF WebhookNoRefund
  <2> QED BY <1>11, <2>1, WebhookNoRefundInv, OtherConserves
<1>12. ASSUME NEW r \in Runs, AuditClaim(r) PROVE Inv0' /\ Conserved'
  <2>1. UNCHANGED <<charge, available>> BY <1>12 DEF AuditClaim
  <2> QED BY <1>12, <2>1, AuditClaimInv, OtherConserves
<1>13. ASSUME NEW r \in Runs, AuditWrite(r) PROVE Inv0' /\ Conserved'
  <2>1. UNCHANGED <<charge, available>> BY <1>13 DEF AuditWrite
  <2> QED BY <1>13, <2>1, AuditWriteInv, OtherConserves
<1>14. ASSUME NEW r \in Runs, Crash(r) PROVE Inv0' /\ Conserved'
  <2>1. UNCHANGED <<charge, available>> BY <1>14 DEF Crash
  <2> QED BY <1>14, <2>1, CrashInv, OtherConserves
<1> QED
  BY <1>1, <1>2, <1>3, <1>4, <1>5, <1>6, <1>7, <1>8, <1>9, <1>10, <1>11,
     <1>12, <1>13, <1>14 DEF Next

LEMMA AlwaysIInv == Spec => []IInv
BY InitInv, NextInv, PTL DEF Spec

\* The state is always well formed, and the pool and the paid runs add up.
THEOREM TypeCorrect == Spec => []TypeOK
<1>1. IInv => TypeOK BY DEF IInv, Conserved, TypeOK
<1> QED BY <1>1, AlwaysIInv, PTL

\* However many requests race, there are never more runs at the provider that
\* were not given back than could be paid for.
THEOREM AlwaysNeverOverbooked == Spec => []NeverOverbooked
<1>1. ASSUME Inv0, Conserved PROVE NeverOverbooked
  <2> DEFINE Held == {r \in Runs : maced[r] # "none" /\ charge[r] # "refunded"}
  <2>1. Held \subseteq Paid BY <1>1 DEF Paid
  <2>2. Cardinality(Held) \in Nat /\ Cardinality(Held) <= Cardinality(Paid)
    BY <2>1, PaidFinite, FS_Subset, FS_CardinalityType
  <2>3. Cardinality(Paid) <= Allowance
    BY <1>1, PaidFinite, ParamsAssumption DEF Conserved
  <2>4. Cardinality(Held) <= Allowance
    BY <2>2, <2>3, PaidFinite, ParamsAssumption
  <2> QED BY <2>4 DEF NeverOverbooked
<1>2. IInv => NeverOverbooked BY <1>1 DEF IInv
<1> QED BY <1>2, AlwaysIInv, PTL

\* createReport never fails with the customer's money unnoticed.
THEOREM FailuresSettled == Spec => []FailureSettled
<1>1. IInv => FailureSettled BY DEF IInv
<1> QED BY <1>1, AlwaysIInv, PTL

\* A run marked as refunded was refunded.
THEOREM MarkedAlwaysRefunded == Spec => []MarkedIsRefunded
<1>1. IInv => MarkedIsRefunded BY DEF IInv
<1> QED BY <1>1, AlwaysIInv, PTL

\* A completion is audited at most once.
THEOREM AlwaysAuditedAtMostOnce == Spec => []AuditedAtMostOnce
<1>1. IInv => AuditedAtMostOnce BY DEF IInv
<1> QED BY <1>1, AlwaysIInv, PTL

\* A failed run is closed without its refund only if its failure was answered
\* before its row existed.
THEOREM LossesAreEarly == Spec => []OnlyEarlyIsLost
<1>1. IInv => OnlyEarlyIsLost BY DEF IInv
<1> QED BY <1>1, AlwaysIInv, PTL
=============================================================================
