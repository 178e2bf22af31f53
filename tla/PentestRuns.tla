---------------------------- MODULE PentestRuns ----------------------------
(***************************************************************************)
(* Paid penetration-test runs of one organisation                          *)
(* (SecurityPenetrationTestsService): createReport pays for a run, asks    *)
(* the provider Maced for it and records its ownership; handleWebhook      *)
(* reacts to the run's end, refunding a failed run and writing the audit   *)
(* entry of a completed one.                                               *)
(*                                                                         *)
(* Each run stands for one createReport call: its source id is a fresh     *)
(* UUID and Maced never reuses a run id, so one name serves both.  Paying  *)
(* and refunding are single steps here: UsageAllowance and CreditWallet    *)
(* model what they do inside.  Maced is external: it runs, ends, and       *)
(* delivers each end at least once, until it is answered with 2xx.         *)
(*                                                                         *)
(* Abstracted: the request and report contents, the audit entries of       *)
(* blocked attempts, log texts, and the refund path of createReport for a  *)
(* run it did not charge, which is unreachable (every run that gets that   *)
(* far was charged).                                                       *)
(***************************************************************************)
EXTENDS Integers, FiniteSets

CONSTANTS Runs,
          Allowance,  \* runs the organisation can pay for
          Crashes     \* the API process may die

ASSUME RunsAssumption == IsFiniteSet(Runs)
ASSUME ParamsAssumption == Allowance \in Nat /\ Crashes \in BOOLEAN

MaxAttempts == 3   \* persistRunOwnershipWithRetry

VARIABLES
  available,  \* included usage and credits that are left
  charge,     \* what each run's source paid
  maced,      \* each run at the provider
  row,        \* security_penetration_test_runs: its two claim columns
  pc,         \* where createReport stands
  attempts,   \* failed attempts to record the ownership
  logged,     \* runs whose refund failed and was logged for support
  auditing,   \* completion webhooks between their claim and their audit entry
  audits,     \* completion audit entries
  answered,   \* runs whose end Maced saw answered with 2xx
  early       \* history: runs whose failure was answered before their row existed

vars == <<available, charge, maced, row, pc, attempts, logged, auditing,
          audits, answered, early>>

NoRow  == [exists |-> FALSE, refunded |-> FALSE, audited |-> FALSE]
NewRow == [exists |-> TRUE, refunded |-> FALSE, audited |-> FALSE]

Init ==
  /\ available = Allowance
  /\ charge = [r \in Runs |-> "unpaid"]
  /\ maced = [r \in Runs |-> "none"]
  /\ row = [r \in Runs |-> NoRow]
  /\ pc = [r \in Runs |-> "idle"]
  /\ attempts = [r \in Runs |-> 0]
  /\ logged = {} /\ auditing = {} /\ answered = {} /\ early = {}
  /\ audits = [r \in Runs |-> 0]

Goto(r, stage) == pc' = [pc EXCEPT ![r] = stage]

\* A refund without its idempotency key.
Refundable_Unkeyed(r) == charge[r] # "unpaid"
\* refundIncludedUsageForProduct has something to do: the source paid and
\* its refund key is not taken.
Refundable(r) == charge[r] = "paid"

GiveBack(r) ==
  /\ charge' = [charge EXCEPT ![r] = "refunded"]
  /\ available' = available + 1

-----------------------------------------------------------------------------
(* createReport *)

\* tryConsumeIncludedUsageForProduct finds included usage or a credit.
CanPay == available > 0

Pay(r) ==
  /\ pc[r] = "idle"
  /\ CanPay
  /\ charge' = [charge EXCEPT ![r] = "paid"]
  /\ available' = available - 1
  /\ Goto(r, "maced")
  /\ UNCHANGED <<maced, row, attempts, logged, auditing, audits,
                 answered, early>>

\* Answered with 402.
Blocked(r) ==
  /\ pc[r] = "idle"
  /\ ~CanPay
  /\ Goto(r, "blocked")
  /\ UNCHANGED <<available, charge, maced, row, attempts, logged, auditing,
                 audits, answered, early>>

\* pentests.create: Maced starts a run and names it; or the call fails or
\* names no run, whether or not Maced started one.
CreateAtMaced(r) ==
  /\ pc[r] = "maced"
  /\ \/ /\ maced' = [maced EXCEPT ![r] = "running"]
        /\ Goto(r, "persist")
     \/ /\ maced' \in {maced, [maced EXCEPT ![r] = "running"]}
        /\ Goto(r, "refund")
  /\ UNCHANGED <<available, charge, row, attempts, logged, auditing, audits,
                 answered, early>>

\* The upsert of the ownership row, which changes no row that is there.
Persisted(r) == IF row[r].exists THEN row ELSE [row EXCEPT ![r] = NewRow]

Persist(r) ==
  /\ pc[r] = "persist"
  /\ row' = Persisted(r)
  /\ Goto(r, "created")
  /\ UNCHANGED <<available, charge, maced, attempts, logged, auditing, audits,
                 answered, early>>

\* Giving up without a refund.
AfterLastAttempt_NoRefund == "failed"
AfterLastAttempt == "refund"

\* The upsert reports an error, whether or not the database wrote the row.
PersistError(r) ==
  /\ pc[r] = "persist"
  /\ row' \in {row, Persisted(r)}
  /\ attempts' = [attempts EXCEPT ![r] = @ + 1]
  /\ Goto(r, IF attempts[r] + 1 < MaxAttempts THEN "persist" ELSE AfterLastAttempt)
  /\ UNCHANGED <<available, charge, maced, logged, auditing, audits, answered,
                 early>>

\* refundBillingUsageQuietly, then the error that led here is thrown.
RefundQuietly(r) ==
  /\ pc[r] = "refund"
  /\ \/ /\ Refundable(r)
        /\ GiveBack(r)
        /\ UNCHANGED logged
     \/ /\ logged' = logged \cup {r}
        /\ UNCHANGED <<charge, available>>
     \/ /\ ~Refundable(r)
        /\ UNCHANGED <<charge, available, logged>>
  /\ Goto(r, "failed")
  /\ UNCHANGED <<maced, row, attempts, auditing, audits, answered, early>>

-----------------------------------------------------------------------------
(* Maced, external *)

Ended(r) == maced[r] \in {"failed", "completed"}

MacedEnds(r) ==
  /\ maced[r] = "running"
  /\ \E end \in {"failed", "completed"} : maced' = [maced EXCEPT ![r] = end]
  /\ UNCHANGED <<available, charge, row, pc, attempts, logged, auditing,
                 audits, answered, early>>

-----------------------------------------------------------------------------
(* handleWebhook *)

Answer(r) == answered' = answered \cup {r}

\* The marker of a refund that did not happen is kept.
AfterFailedRefund_Kept(r) == [row EXCEPT ![r].refunded = TRUE]
\* A failed refund rolls the claim back.
AfterFailedRefund(r) == row

\* pentest.failed or pentest.cancelled, refundOnTerminalFailure: claim and
\* refund in one transaction.
WebhookRefund(r) ==
  /\ maced[r] = "failed"
  /\ row[r].exists /\ ~row[r].refunded
  /\ Refundable(r)
  /\ row' = [row EXCEPT ![r].refunded = TRUE]
  /\ GiveBack(r)
  /\ Answer(r)
  /\ UNCHANGED <<maced, pc, attempts, logged, auditing, audits, early>>

\* The transaction fails: the delivery is answered with an error.
WebhookRefundError(r) ==
  /\ maced[r] = "failed"
  /\ row[r].exists /\ ~row[r].refunded
  /\ row' = AfterFailedRefund(r)
  /\ UNCHANGED <<available, charge, maced, pc, attempts, logged, auditing,
                 audits, answered, early>>

\* Nothing to claim; or the refund key is taken, which aborts the transaction
\* and is not reported.
WebhookNoRefund(r) ==
  /\ maced[r] = "failed"
  /\ ~row[r].exists \/ row[r].refunded \/ ~Refundable(r)
  /\ Answer(r)
  /\ early' = IF row[r].exists THEN early ELSE early \cup {r}
  /\ UNCHANGED <<available, charge, maced, row, pc, attempts, logged, auditing,
                 audits>>

\* An audit entry per delivery.
Unaudited_Unchecked(r) == TRUE
\* The condition of the claim.
Unaudited(r) == ~row[r].audited

\* pentest.completed, auditPentestCompleted: the claim.
AuditClaim(r) ==
  /\ maced[r] = "completed"
  /\ \/ /\ row[r].exists /\ Unaudited(r)
        /\ r \notin auditing
        /\ row' = [row EXCEPT ![r].audited = TRUE]
        /\ auditing' = auditing \cup {r}
        /\ UNCHANGED answered
     \/ /\ ~row[r].exists \/ ~Unaudited(r)
        /\ Answer(r)
        /\ UNCHANGED <<row, auditing>>
  /\ UNCHANGED <<available, charge, maced, pc, attempts, logged, audits, early>>

\* The best-effort audit entry: its failure is logged and the delivery
\* answered all the same.
AuditWrite(r) ==
  /\ r \in auditing
  /\ \/ audits' = [audits EXCEPT ![r] = @ + 1]
     \/ UNCHANGED audits
  /\ auditing' = auditing \ {r}
  /\ Answer(r)
  /\ UNCHANGED <<available, charge, maced, row, pc, attempts, logged, early>>

-----------------------------------------------------------------------------
\* The process of a createReport call, or of a webhook between claim and
\* audit, dies.
Crash(r) ==
  /\ Crashes
  /\ \/ /\ pc[r] \in {"maced", "persist", "refund"}
        /\ Goto(r, "died")
        /\ UNCHANGED auditing
     \/ /\ r \in auditing
        /\ auditing' = auditing \ {r}
        /\ UNCHANGED pc
  /\ UNCHANGED <<available, charge, maced, row, attempts, logged, audits,
                 answered, early>>

Next ==
  \E r \in Runs :
    \/ Pay(r) \/ Blocked(r) \/ CreateAtMaced(r)
    \/ Persist(r) \/ PersistError(r) \/ RefundQuietly(r)
    \/ MacedEnds(r)
    \/ WebhookRefund(r) \/ WebhookRefundError(r) \/ WebhookNoRefund(r)
    \/ AuditClaim(r) \/ AuditWrite(r)
    \/ Crash(r)

Spec == Init /\ [][Next]_vars

\* Maced redelivers until it is answered and the refund transaction does not
\* fail every time.
FairSpec == Spec /\ \A r \in Runs : SF_vars(r \notin answered /\ WebhookRefund(r))

-----------------------------------------------------------------------------
(* Properties *)

Stages == {"idle", "blocked", "maced", "persist", "refund", "created",
           "failed", "died"}

Paid == {r \in Runs : charge[r] = "paid"}

\* Types, and the conservation of what the organisation can pay with.
TypeOK ==
  /\ charge \in [Runs -> {"unpaid", "paid", "refunded"}]
  /\ available \in Nat /\ available = Allowance - Cardinality(Paid)
  /\ maced \in [Runs -> {"none", "running", "failed", "completed"}]
  /\ row \in [Runs -> [exists : BOOLEAN, refunded : BOOLEAN, audited : BOOLEAN]]
  /\ pc \in [Runs -> Stages]
  /\ attempts \in [Runs -> 0..MaxAttempts]
  /\ logged \subseteq Runs /\ auditing \subseteq Runs /\ answered \subseteq Runs
  /\ early \subseteq Runs
  /\ audits \in [Runs -> Nat]

\* However many createReport calls race, the organisation never has more runs
\* at the provider that were not given back than it could pay for.
NeverOverbooked ==
  Cardinality({r \in Runs : maced[r] # "none" /\ charge[r] # "refunded"}) <= Allowance

\* createReport never fails with the customer's money: when it ends with an
\* error the charge was given back, or support was told.
FailureSettled ==
  \A r \in Runs : pc[r] = "failed" => charge[r] = "refunded" \/ r \in logged

\* The marker that stops further refunds is only there when the refund is.
MarkedIsRefunded ==
  \A r \in Runs : row[r].refunded => charge[r] = "refunded"

\* The completion of a run is recorded at most once, however often it is
\* announced.
AuditedAtMostOnce == \A r \in Runs : audits[r] <= 1

\* A failed run of the customer's is not closed without its refund, when Maced
\* has been told all is well and stops announcing the failure, unless the failure
\* was answered before the row existed: neither redeliveries, nor failing
\* transactions, nor createReport's own refund racing the webhook's, nor a
\* crash close a failed run with the customer's money.
OnlyEarlyIsLost ==
  \A r \in Runs \ early : maced[r] = "failed" /\ r \in answered /\ row[r].exists
                    => charge[r] = "refunded"

\* A run the customer owns and that failed is refunded in the end, however
\* often the refund fails on the way, unless its failure was answered early.
FailedRunRefunded ==
  \A r \in Runs : maced[r] = "failed" /\ row[r].exists /\ r \notin early
                    ~> charge[r] = "refunded"
=============================================================================
