-------------------------- MODULE BackgroundChecks --------------------------
(***************************************************************************)
(* Paid background checks of an organisation's members                     *)
(* (BackgroundChecksService, BackgroundCheckPaymentService and             *)
(* BackgroundCheckCustomService): requestForMember pays for a check and    *)
(* orders it from the Identity service, handleWebhook follows its status,  *)
(* attachForMember completes it with an uploaded report instead.           *)
(*                                                                         *)
(* A step is one database call, one payment or one call of a service.      *)
(* Paying and refunding are single steps (UsageAllowance and CreditWallet  *)
(* model their inside).  Identity is external: it creates at most one      *)
(* check per member (its idempotency key) and announces every status at    *)
(* least once, late, repeatedly and in any order.                          *)
(*                                                                         *)
(* Abstracted: names, addresses, notes, reports, signatures; the statuses  *)
(* in_review, completed_with_flags and cancelled, set by webhooks as the   *)
(* others are; the lookup of the member; the table of webhook events, of   *)
(* which only the word "duplicate" in the answer depends.                  *)
(***************************************************************************)
EXTENDS Integers, Sequences, FiniteSets

CONSTANTS Members,
          Workers,      \* requests being handled
          Allowance,    \* checks the organisation can pay for
          Uploads,      \* reports may be uploaded
          Crashes,      \* the API process may die
          None

ASSUME MembersAssumption == IsFiniteSet(Members) /\ None \notin Members
ASSUME ParamsAssumption ==
  Allowance \in Nat /\ {Uploads, Crashes} \subseteq BOOLEAN

\* How far a check has come at Identity, and what its webhooks say.
Progress == <<"invited", "in_progress", "completed">>
Statuses == {"invited", "in_progress", "completed", "failed"}

VARIABLES
  available,  \* included usage and credits that are left
  charge,     \* what each member's check has cost
  record,     \* background_check_requests: status, and whether the payment and
              \* identityBackgroundCheckId are stored
  identity,   \* how many statuses each member's check has gone through
  pc,         \* where each request stands
  member,     \* whom it is about
  status,     \* the status it got from Identity
  result,     \* how a worker's last requestForMember ended
  logged,     \* members whose refund failed and was logged for support
  died,       \* history: members whose request was cut short
  lost        \* history: members whose check was created by a call that failed

store == <<available, charge, record, identity, logged, died, lost>>
vars  == <<store, pc, member, status, result>>

NoRecord == [status |-> "none", paid |-> FALSE, linked |-> FALSE]
Exists(m) == record[m].status # "none"

Init ==
  /\ available = Allowance
  /\ charge = [m \in Members |-> "unpaid"]
  /\ record = [m \in Members |-> NoRecord]
  /\ identity = [m \in Members |-> 0]
  /\ logged = {} /\ died = {} /\ lost = {}
  /\ pc = [w \in Workers |-> "idle"]
  /\ member = [w \in Workers |-> None]
  /\ status = [w \in Workers |-> None]
  /\ result = [w \in Workers |-> "none"]

Goto(w, stage) == pc' = [pc EXCEPT ![w] = stage]
End(w, outcome) == Goto(w, "idle") /\ result' = [result EXCEPT ![w] = outcome]
Begin(w, m, stage) ==
  /\ pc[w] = "idle"
  /\ Goto(w, stage)
  /\ member' = [member EXCEPT ![w] = m]
  /\ status' = [status EXCEPT ![w] = None]
  /\ result' = [result EXCEPT ![w] = "none"]

SetRecord(m, new) == record' = [record EXCEPT ![m] = new]

-----------------------------------------------------------------------------
(* requestForMember *)

\* getForMember: an existing record is returned as it is.
RequestLookup(w, m) ==
  /\ pc[w] = "idle"
  /\ \/ ~Exists(m) /\ Begin(w, m, "claim")
     \/ /\ Exists(m)
        /\ member' = [member EXCEPT ![w] = m]
        /\ result' = [result EXCEPT ![w] = "returned"]
        /\ UNCHANGED <<pc, status>>
  /\ UNCHANGED store

\* A table without the unique key on (organisation, member).
Claimed_Unkeyed(m) == FALSE
Claimed(m) == Exists(m)

\* Step 1: the insert; a lost race returns the other request's record.
RequestClaim(w) ==
  LET m == member[w] IN
  /\ pc[w] = "claim"
  /\ \/ /\ Claimed(m)
        /\ End(w, "returned")
        /\ UNCHANGED record
     \/ /\ ~Claimed(m)
        /\ SetRecord(m, [NoRecord EXCEPT !.status = "invited"])
        /\ Goto(w, "charge")
        /\ UNCHANGED result
  /\ UNCHANGED <<available, charge, identity, logged, died, lost, member, status>>

\* The allowance is not consulted.
CanPay_Unchecked == TRUE
CanPay == available > 0

\* Step 2: the member is the source, so a member pays once.
RequestCharge(w) ==
  LET m == member[w] IN
  /\ pc[w] = "charge"
  /\ \/ /\ charge[m] # "unpaid" \/ CanPay
        /\ charge' = [charge EXCEPT ![m] = IF @ = "unpaid" THEN "paid" ELSE @]
        /\ available' = available - (IF charge[m] = "unpaid" THEN 1 ELSE 0)
        /\ Goto(w, "save_payment")
        /\ UNCHANGED result
     \/ /\ charge[m] = "unpaid" /\ ~CanPay
        /\ End(w, "payment_required")
        /\ UNCHANGED <<charge, available>>
  /\ UNCHANGED <<record, identity, logged, died, lost, member, status>>

\* The write that fails is not refunded.
AfterPaymentError_NoRefund == "failed"
AfterPaymentError == "refund"

\* Step 3: store the payment.
RequestSavePayment(w) ==
  LET m == member[w] IN
  /\ pc[w] = "save_payment"
  /\ \/ /\ SetRecord(m, [record[m] EXCEPT !.paid = TRUE])
        /\ Goto(w, "identity")
     \/ /\ Goto(w, AfterPaymentError)
        /\ UNCHANGED record
  /\ UNCHANGED <<available, charge, identity, logged, died, lost, member,
                 status, result>>

\* Step 4: createBackgroundCheck, which for a member that has a check answers
\* with that check.
Created(m) == [identity EXCEPT ![m] = IF @ = 0 THEN 1 ELSE @]

RequestIdentity(w) ==
  LET m == member[w] IN
  /\ pc[w] = "identity"
  /\ \/ /\ identity' = Created(m)
        /\ status' = [status EXCEPT ![w] = Progress[identity'[m]]]
        /\ Goto(w, "save_identity")
        /\ UNCHANGED lost
     \/ /\ \/ UNCHANGED <<identity, lost>>
           \/ identity' = Created(m) /\ lost' = lost \cup {m}
        /\ Goto(w, "refund_identity")
        /\ UNCHANGED status
  /\ UNCHANGED <<available, charge, record, logged, died, member, result>>

\* Payment.refund: what fails is logged, not thrown.  After a failed Step 3 the
\* error is thrown, after a failed Step 4 the record is marked first.
RequestRefund(w) ==
  LET m == member[w] IN
  /\ pc[w] \in {"refund", "refund_identity"}
  /\ \/ /\ charge[m] = "paid"
        /\ charge' = [charge EXCEPT ![m] = "refunded"]
        /\ available' = available + 1
        /\ UNCHANGED logged
     \/ /\ logged' = logged \cup {m}
        /\ UNCHANGED <<charge, available>>
  /\ Goto(w, IF pc[w] = "refund" THEN "failed" ELSE "mark_failed")
  /\ UNCHANGED <<record, identity, died, lost, member, status, result>>

RequestMarkFailed(w) ==
  LET m == member[w] IN
  /\ pc[w] = "mark_failed"
  /\ record' \in {record, [record EXCEPT ![m].status = "failed"]}
  /\ Goto(w, "failed")
  /\ UNCHANGED <<available, charge, identity, logged, died, lost, member,
                 status, result>>

RequestThrow(w) ==
  /\ pc[w] = "failed"
  /\ End(w, "error")
  /\ UNCHANGED <<store, member, status>>

\* Step 5: store what Identity answered; the error of this write is thrown.
RequestSaveIdentity(w) ==
  LET m == member[w] IN
  /\ pc[w] = "save_identity"
  /\ \/ /\ SetRecord(m, [record[m] EXCEPT !.status = status[w], !.linked = TRUE])
        /\ End(w, "returned")
     \/ /\ End(w, "error")
        /\ UNCHANGED record
  /\ UNCHANGED <<available, charge, identity, logged, died, lost, member, status>>

-----------------------------------------------------------------------------
(* Identity, external, and its webhooks *)

IdentityAdvances(m) ==
  /\ identity[m] \in 1..(Len(Progress) - 1)
  /\ identity' = [identity EXCEPT ![m] = @ + 1]
  /\ UNCHANGED <<available, charge, record, logged, died, lost, pc, member,
                 status, result>>

\* handleWebhook: the record is looked up and the event noted; the report of
\* a completed check is fetched.
WebhookReceive(w, m) ==
  /\ pc[w] = "idle" /\ Exists(m)
  /\ \E n \in 1..identity[m] : status' = [status EXCEPT ![w] = Progress[n]]
  /\ member' = [member EXCEPT ![w] = m]
  /\ Goto(w, "hook")
  /\ result' = [result EXCEPT ![w] = "none"]
  /\ UNCHANGED store

\* The update of the record, also for a delivery that was a duplicate.
WebhookUpdate(w) ==
  LET m == member[w] IN
  /\ pc[w] = "hook"
  /\ SetRecord(m, [record[m] EXCEPT !.status = status[w], !.linked = TRUE])
  /\ End(w, "none")
  /\ UNCHANGED <<available, charge, identity, logged, died, lost, member, status>>

-----------------------------------------------------------------------------
(* attachForMember *)

\* The upsert, which leaves the status of an existing record alone.
AttachUpsert(w, m) ==
  /\ Uploads
  /\ Begin(w, m, "attach")
  /\ SetRecord(m, IF Exists(m) THEN record[m] ELSE [NoRecord EXCEPT !.status = "invited"])
  /\ UNCHANGED <<available, charge, identity, logged, died, lost>>

\* The upload, which may fail, and the update after it.
AttachComplete(w) ==
  LET m == member[w] IN
  /\ pc[w] = "attach"
  /\ record' \in {record, [record EXCEPT ![m].status = "completed"]}
  /\ End(w, "none")
  /\ UNCHANGED <<available, charge, identity, logged, died, lost, member, status>>

-----------------------------------------------------------------------------
Paying == {"save_payment", "identity", "refund", "refund_identity",
           "mark_failed", "failed", "save_identity"}

\* The process dies in the middle of a request.
Crash(w) ==
  /\ Crashes
  /\ pc[w] # "idle"
  /\ died' = IF pc[w] \in Paying THEN died \cup {member[w]} ELSE died
  /\ End(w, "none")
  /\ UNCHANGED <<available, charge, record, identity, logged, lost, member, status>>

Next ==
  \/ \E w \in Workers :
       \/ \E m \in Members :
            RequestLookup(w, m) \/ WebhookReceive(w, m) \/ AttachUpsert(w, m)
       \/ RequestClaim(w) \/ RequestCharge(w) \/ RequestSavePayment(w)
       \/ RequestIdentity(w) \/ RequestRefund(w) \/ RequestMarkFailed(w)
       \/ RequestThrow(w) \/ RequestSaveIdentity(w)
       \/ WebhookUpdate(w) \/ AttachComplete(w)
       \/ Crash(w)
  \/ \E m \in Members : IdentityAdvances(m)

Spec == Init /\ [][Next]_vars

-----------------------------------------------------------------------------
(* Properties *)

Stages == Paying \cup {"idle", "claim", "charge", "hook", "attach"}
Paid   == {m \in Members : charge[m] = "paid"}

\* Types, and the conservation of what the organisation can pay with.
TypeOK ==
  /\ charge \in [Members -> {"unpaid", "paid", "refunded"}]
  /\ available \in Nat /\ available = Allowance - Cardinality(Paid)
  /\ record \in [Members -> [status : Statuses \cup {"none"},
                             paid : BOOLEAN, linked : BOOLEAN]]
  /\ identity \in [Members -> 0..Len(Progress)]
  /\ logged \subseteq Members /\ died \subseteq Members /\ lost \subseteq Members
  /\ pc \in [Workers -> Stages]
  /\ member \in [Workers -> Members \cup {None}]
  /\ status \in [Workers -> Statuses \cup {None}]
  /\ result \in [Workers -> {"none", "returned", "payment_required", "error"}]

\* However many requests for a member race, at most one of them gets as far as
\* paying and ordering: the record decides which.
OneRequestPays ==
  \A w, w2 \in Workers :
    /\ pc[w] \in Paying \cup {"charge"} /\ pc[w2] \in Paying \cup {"charge"}
    /\ member[w] = member[w2]
    => w = w2

\* No check runs at Identity on money that was given back or never taken, except
\* one created by a call that failed and so was refunded.
RunningCheckIsPaid ==
  \A m \in Members \ lost : identity[m] > 0 => charge[m] = "paid"

\* Money taken for a check is accounted for: it is on the record, or a request
\* is still working with it, or support was told, or the process died.
PaymentAccounted ==
  \A m \in Members :
    charge[m] = "paid" =>
      \/ record[m].paid
      \/ \E w \in Workers : pc[w] \in Paying /\ member[w] = m
      \/ m \in logged \cup died

\* A failed payment is recoverable: a request that succeeds, and did not just
\* meet another one at work, stands for a check that was paid for or that an
\* upload replaces.
SuccessMeansPaid ==
  \A w \in Workers : result[w] = "returned" =>
    LET m == member[w] IN
    \/ charge[m] # "unpaid" \/ record[m].status = "completed"
    \/ \E w2 \in Workers \ {w} : pc[w2] # "idle" /\ member[w2] = m
=============================================================================
