------------------------ MODULE BackgroundChecks_proofs ------------------------
(***************************************************************************)
(* Proofs about BackgroundChecks, for any members, requests and allowance. *)
(***************************************************************************)
EXTENDS BackgroundChecks, FiniteSetTheorems, TLAPS

Record == [status : Statuses \cup {"none"}, paid : BOOLEAN, linked : BOOLEAN]

\* TypeOK in two parts: the types, and the conservation of what can be paid.
Types ==
  /\ charge \in [Members -> {"unpaid", "paid", "refunded"}]
  /\ record \in [Members -> Record]
  /\ identity \in [Members -> 0..3]
  /\ logged \subseteq Members /\ died \subseteq Members /\ lost \subseteq Members
  /\ pc \in [Workers -> Stages]
  /\ member \in [Workers -> Members \cup {None}]
  /\ status \in [Workers -> Statuses \cup {None}]
  /\ result \in [Workers -> {"none", "returned", "payment_required", "error"}]

Conserved == available \in Nat /\ available = Allowance - Cardinality(Paid)

\* What holds at each stage of a call.
Calls ==
  \A w \in Workers :
    LET m == member[w] IN
    /\ pc[w] # "idle" => m \in Members
    /\ pc[w] \in Paying \cup {"charge"} => Exists(m)
    /\ pc[w] = "charge" => charge[m] = "unpaid"
    /\ pc[w] \in {"charge", "save_payment", "identity", "refund"} => identity[m] = 0
    /\ pc[w] \in {"save_payment", "identity", "refund", "refund_identity", "save_identity"}
         => charge[m] = "paid"
    /\ pc[w] \in {"identity", "refund_identity", "save_identity"} => record[m].paid
    /\ pc[w] = "refund_identity" => identity[m] = 0 \/ m \in lost
    /\ pc[w] \in {"mark_failed", "failed"} => charge[m] # "paid" \/ m \in logged
    /\ pc[w] \in {"save_identity", "hook"} => status[w] \in Statuses

\* Nothing was paid or ordered for a member without a record.
Untouched ==
  \A m \in Members :
    ~Exists(m) => charge[m] = "unpaid" /\ identity[m] = 0 /\ ~record[m].paid

\* The inductive invariant but for Conserved, which only two actions touch.
Inv0 ==
  /\ Types /\ Calls /\ Untouched
  /\ OneRequestPays /\ RunningCheckIsPaid /\ PaymentAccounted

LEMMA NoneNotMember == None \notin Members
BY MembersAssumption

LEMMA ProgressRange ==
  Len(Progress) = 3 /\ \A n \in 1..3 : Progress[n] \in Statuses
BY DEF Progress, Statuses

USE DEF Inv0, Exists, Paying

\* A returned record or a new call.
LEMMA RequestLookupInv ==
  ASSUME Inv0, NEW w \in Workers, NEW m \in Members, RequestLookup(w, m)
  PROVE  Inv0'
<1> USE NoneNotMember DEF RequestLookup, Begin, Goto, store
<1>1. Types'
  BY DEF Types, Calls, Stages
<1>2. Calls'
  BY DEF Types, Calls, Untouched, OneRequestPays
<1>3. Untouched'
  BY DEF Types, Calls, Untouched
<1>4. OneRequestPays'
  BY DEF Types, Calls, OneRequestPays
<1>5. RunningCheckIsPaid'
  BY DEF Types, Calls, Untouched, OneRequestPays, RunningCheckIsPaid
<1>6. PaymentAccounted'
  BY DEF Types, Calls, Untouched, OneRequestPays, PaymentAccounted
<1> QED
  BY <1>1, <1>2, <1>3, <1>4, <1>5, <1>6

\* The unique key lets a request on to the payment only for a member without a record,
\* for whom nothing was paid or ordered.
LEMMA RequestClaimInv ==
  ASSUME Inv0, NEW w \in Workers, RequestClaim(w)
  PROVE  Inv0'
<1> USE NoneNotMember DEF RequestClaim, Claimed, SetRecord, End, Goto
<1>1. Types'
  <2>1. [NoRecord EXCEPT !.status = "invited"] \in Record
    BY DEF Types, Calls, Record, Statuses, NoRecord
  <2>2. record' \in [Members -> Record]
    BY <2>1 DEF Types, Calls
  <2> QED
    BY <2>2 DEF Types, Calls, Stages
<1>2. Calls'
  BY DEF Types, Calls, Untouched, OneRequestPays, NoRecord
<1>3. Untouched'
  BY DEF Types, Calls, Untouched, NoRecord
<1>4. OneRequestPays'
  BY DEF Types, Calls, OneRequestPays
<1>5. RunningCheckIsPaid'
  BY DEF Types, Calls, Untouched, OneRequestPays, RunningCheckIsPaid, NoRecord
<1>6. PaymentAccounted'
  BY DEF Types, Calls, Untouched, OneRequestPays, PaymentAccounted, NoRecord
<1> QED
  BY <1>1, <1>2, <1>3, <1>4, <1>5, <1>6

\* The request alone can pay for its member.
LEMMA RequestChargeInv ==
  ASSUME Inv0, NEW w \in Workers, RequestCharge(w)
  PROVE  Inv0'
<1> USE NoneNotMember DEF RequestCharge, CanPay, End, Goto
<1>1. Types'
  BY DEF Types, Calls, Stages
<1>2. Calls'
  BY DEF Types, Calls, Untouched, OneRequestPays
<1>3. Untouched'
  BY DEF Types, Calls, Untouched
<1>4. OneRequestPays'
  BY DEF Types, Calls, OneRequestPays
<1>5. RunningCheckIsPaid'
  BY DEF Types, Calls, Untouched, OneRequestPays, RunningCheckIsPaid
<1>6. PaymentAccounted'
  BY DEF Types, Calls, Untouched, OneRequestPays, PaymentAccounted
<1> QED
  BY <1>1, <1>2, <1>3, <1>4, <1>5, <1>6

LEMMA RequestSavePaymentInv ==
  ASSUME Inv0, NEW w \in Workers, RequestSavePayment(w)
  PROVE  Inv0'
<1> USE NoneNotMember
<1>1. /\ pc[w] = "save_payment"
      /\ pc' = [pc EXCEPT ![w] = "identity"] \/ pc' = [pc EXCEPT ![w] = "refund"]
      /\ UNCHANGED <<charge, identity, logged, died, lost, member, status>>
      /\ \/ result' = result
         \/ \E r \in {"none", "returned", "error"} : result' = [result EXCEPT ![w] = r]
  BY DEF RequestSavePayment, AfterPaymentError, SetRecord, Goto
<1>2. member[w] \in Members /\ record[member[w]] \in Record
  BY <1>1 DEF Types, Calls
<1>3. [record[member[w]] EXCEPT !.paid = TRUE] \in Record
  BY <1>1, <1>2 DEF Calls, Record, Statuses
<1>4. /\ record' \in [Members -> Record]
      /\ \A m \in Members : /\ record'[m].status = "none" => record'[m] = record[m]
                            /\ record[m].paid => record'[m].paid
      /\ pc'[w] = "identity" => record'[member[w]].paid
  <2>1. CASE record' = record /\ pc' = [pc EXCEPT ![w] = "refund"]
    BY <1>2, <2>1, <1>1 DEF Types
  <2>2. CASE record' = [record EXCEPT ![member[w]] =
               [record[member[w]] EXCEPT !.paid = TRUE]]
    BY <1>2, <1>3, <2>2, <1>1 DEF Types, Record, Calls, Statuses
  <2> QED
    BY <1>2, <2>1, <2>2 DEF Types, RequestSavePayment, AfterPaymentError, SetRecord, Goto
<1>5. Types'
  BY <1>1, <1>2, <1>4 DEF Types, Stages
<1>6. Calls'
  BY <1>1, <1>2, <1>4, <1>5 DEF Types, Calls, Untouched, OneRequestPays
<1>7. Untouched'
  BY <1>1, <1>2, <1>4, <1>5 DEF Types, Calls, Untouched
<1>8. OneRequestPays'
  BY <1>1, <1>2, <1>4, <1>5 DEF Types, Calls, OneRequestPays
<1>9. RunningCheckIsPaid'
  BY <1>1, <1>2, <1>4, <1>5 DEF Types, Calls, Untouched, OneRequestPays, RunningCheckIsPaid
<1>10. PaymentAccounted'
  BY <1>1, <1>2, <1>4, <1>5 DEF Types, Calls, Untouched, OneRequestPays, PaymentAccounted
<1> QED
  BY <1>5, <1>6, <1>7, <1>8, <1>9, <1>10

\* The check is created for a member who has paid, or by a call that fails.
LEMMA RequestIdentityInv ==
  ASSUME Inv0, NEW w \in Workers, RequestIdentity(w)
  PROVE  Inv0'
<1> USE NoneNotMember DEF RequestIdentity, Created, Goto
<1>1. Types'
  BY ProgressRange DEF Types, Calls, Stages
<1>2. Calls'
  BY ProgressRange DEF Types, Calls, Untouched, OneRequestPays
<1>3. Untouched'
  BY ProgressRange DEF Types, Calls, Untouched
<1>4. OneRequestPays'
  BY ProgressRange DEF Types, Calls, OneRequestPays
<1>5. RunningCheckIsPaid'
  BY ProgressRange DEF Types, Calls, Untouched, OneRequestPays, RunningCheckIsPaid
<1>6. PaymentAccounted'
  BY ProgressRange DEF Types, Calls, Untouched, OneRequestPays, PaymentAccounted
<1> QED
  BY <1>1, <1>2, <1>3, <1>4, <1>5, <1>6

\* The money goes back, or the failure is logged.
LEMMA RequestRefundInv ==
  ASSUME Inv0, NEW w \in Workers, RequestRefund(w)
  PROVE  Inv0'
<1> USE NoneNotMember DEF RequestRefund, Goto
<1>1. Types'
  BY DEF Types, Calls, Stages
<1>2. Calls'
  BY DEF Types, Calls, Untouched, OneRequestPays
<1>3. Untouched'
  BY DEF Types, Calls, Untouched
<1>4. OneRequestPays'
  BY DEF Types, Calls, OneRequestPays
<1>5. RunningCheckIsPaid'
  BY DEF Types, Calls, Untouched, OneRequestPays, RunningCheckIsPaid
<1>6. PaymentAccounted'
  BY DEF Types, Calls, Untouched, OneRequestPays, PaymentAccounted
<1> QED
  BY <1>1, <1>2, <1>3, <1>4, <1>5, <1>6

LEMMA RequestMarkFailedInv ==
  ASSUME Inv0, NEW w \in Workers, RequestMarkFailed(w)
  PROVE  Inv0'
<1> USE NoneNotMember
<1>1. /\ pc[w] = "mark_failed"
      /\ pc' = [pc EXCEPT ![w] = "failed"]
      /\ UNCHANGED <<charge, identity, logged, died, lost, member, status>>
      /\ \/ result' = result
         \/ \E r \in {"none", "returned", "error"} : result' = [result EXCEPT ![w] = r]
  BY DEF RequestMarkFailed, Goto
<1>2. member[w] \in Members /\ record[member[w]] \in Record
  BY <1>1 DEF Types, Calls
<1>3. [record[member[w]] EXCEPT !.status = "failed"] \in Record
  BY <1>1, <1>2 DEF Calls, Record, Statuses
<1>4. /\ record' \in [Members -> Record]
      /\ \A m \in Members : /\ record'[m].status = "none" => record'[m] = record[m]
                            /\ record[m].paid => record'[m].paid
  <2>1. CASE record' = record
    BY <1>2, <2>1 DEF Types
  <2>2. CASE record' = [record EXCEPT ![member[w]] =
               [record[member[w]] EXCEPT !.status = "failed"]]
    BY <1>2, <1>3, <2>2, <1>1 DEF Types, Record, Calls, Statuses
  <2> QED
    BY <1>2, <2>1, <2>2 DEF Types, RequestMarkFailed, Goto
<1>5. Types'
  BY <1>1, <1>2, <1>4 DEF Types, Stages
<1>6. Calls'
  BY <1>1, <1>2, <1>4, <1>5 DEF Types, Calls, Untouched, OneRequestPays
<1>7. Untouched'
  BY <1>1, <1>2, <1>4, <1>5 DEF Types, Calls, Untouched
<1>8. OneRequestPays'
  BY <1>1, <1>2, <1>4, <1>5 DEF Types, Calls, OneRequestPays
<1>9. RunningCheckIsPaid'
  BY <1>1, <1>2, <1>4, <1>5 DEF Types, Calls, Untouched, OneRequestPays, RunningCheckIsPaid
<1>10. PaymentAccounted'
  BY <1>1, <1>2, <1>4, <1>5 DEF Types, Calls, Untouched, OneRequestPays, PaymentAccounted
<1> QED
  BY <1>5, <1>6, <1>7, <1>8, <1>9, <1>10

LEMMA RequestThrowInv ==
  ASSUME Inv0, NEW w \in Workers, RequestThrow(w)
  PROVE  Inv0'
<1> USE NoneNotMember DEF RequestThrow, End, Goto, store
<1>1. Types'
  BY DEF Types, Calls, Stages
<1>2. Calls'
  BY DEF Types, Calls, Untouched, OneRequestPays
<1>3. Untouched'
  BY DEF Types, Calls, Untouched
<1>4. OneRequestPays'
  BY DEF Types, Calls, OneRequestPays
<1>5. RunningCheckIsPaid'
  BY DEF Types, Calls, Untouched, OneRequestPays, RunningCheckIsPaid
<1>6. PaymentAccounted'
  BY DEF Types, Calls, Untouched, OneRequestPays, PaymentAccounted
<1> QED
  BY <1>1, <1>2, <1>3, <1>4, <1>5, <1>6

LEMMA RequestSaveIdentityInv ==
  ASSUME Inv0, NEW w \in Workers, RequestSaveIdentity(w)
  PROVE  Inv0'
<1> USE NoneNotMember
<1>1. /\ pc[w] = "save_identity"
      /\ pc' = [pc EXCEPT ![w] = "idle"]
      /\ UNCHANGED <<charge, identity, logged, died, lost, member, status>>
      /\ \/ result' = result
         \/ \E r \in {"none", "returned", "error"} : result' = [result EXCEPT ![w] = r]
  BY DEF RequestSaveIdentity, SetRecord, End, Goto
<1>2. member[w] \in Members /\ record[member[w]] \in Record
  BY <1>1 DEF Types, Calls
<1>3. [record[member[w]] EXCEPT !.status = status[w], !.linked = TRUE] \in Record
  BY <1>1, <1>2 DEF Calls, Record, Statuses
<1>4. /\ record' \in [Members -> Record]
      /\ \A m \in Members : /\ record'[m].status = "none" => record'[m] = record[m]
                            /\ record[m].paid => record'[m].paid
  <2>1. CASE record' = record
    BY <1>2, <2>1 DEF Types
  <2>2. CASE record' = [record EXCEPT ![member[w]] =
               [record[member[w]] EXCEPT !.status = status[w], !.linked = TRUE]]
    BY <1>2, <1>3, <2>2, <1>1 DEF Types, Record, Calls, Statuses
  <2> QED
    BY <1>2, <2>1, <2>2 DEF Types, RequestSaveIdentity, SetRecord, End, Goto
<1>5. Types'
  BY <1>1, <1>2, <1>4 DEF Types, Stages
<1>6. Calls'
  BY <1>1, <1>2, <1>4, <1>5 DEF Types, Calls, Untouched, OneRequestPays
<1>7. Untouched'
  BY <1>1, <1>2, <1>4, <1>5 DEF Types, Calls, Untouched
<1>8. OneRequestPays'
  BY <1>1, <1>2, <1>4, <1>5 DEF Types, Calls, OneRequestPays
<1>9. RunningCheckIsPaid'
  BY <1>1, <1>2, <1>4, <1>5 DEF Types, Calls, Untouched, OneRequestPays, RunningCheckIsPaid
<1>10. PaymentAccounted'
  BY <1>1, <1>2, <1>4, <1>5 DEF Types, Calls, Untouched, OneRequestPays, PaymentAccounted
<1> QED
  BY <1>5, <1>6, <1>7, <1>8, <1>9, <1>10

LEMMA WebhookReceiveInv ==
  ASSUME Inv0, NEW w \in Workers, NEW m \in Members, WebhookReceive(w, m)
  PROVE  Inv0'
<1> USE NoneNotMember DEF WebhookReceive, Goto, store
<1>1. Types'
  BY ProgressRange DEF Types, Calls, Stages
<1>2. Calls'
  BY ProgressRange DEF Types, Calls, Untouched, OneRequestPays
<1>3. Untouched'
  BY ProgressRange DEF Types, Calls, Untouched
<1>4. OneRequestPays'
  BY ProgressRange DEF Types, Calls, OneRequestPays
<1>5. RunningCheckIsPaid'
  BY ProgressRange DEF Types, Calls, Untouched, OneRequestPays, RunningCheckIsPaid
<1>6. PaymentAccounted'
  BY ProgressRange DEF Types, Calls, Untouched, OneRequestPays, PaymentAccounted
<1> QED
  BY <1>1, <1>2, <1>3, <1>4, <1>5, <1>6

LEMMA WebhookUpdateInv ==
  ASSUME Inv0, NEW w \in Workers, WebhookUpdate(w)
  PROVE  Inv0'
<1> USE NoneNotMember
<1>1. /\ pc[w] = "hook"
      /\ pc' = [pc EXCEPT ![w] = "idle"]
      /\ UNCHANGED <<charge, identity, logged, died, lost, member, status>>
      /\ \/ result' = result
         \/ \E r \in {"none", "returned", "error"} : result' = [result EXCEPT ![w] = r]
  BY DEF WebhookUpdate, SetRecord, End, Goto
<1>2. member[w] \in Members /\ record[member[w]] \in Record
  BY <1>1 DEF Types, Calls
<1>3. [record[member[w]] EXCEPT !.status = status[w], !.linked = TRUE] \in Record
  BY <1>1, <1>2 DEF Calls, Record, Statuses
<1>4. /\ record' \in [Members -> Record]
      /\ \A m \in Members : /\ record'[m].status = "none" => record'[m] = record[m]
                            /\ record[m].paid => record'[m].paid
  <2>1. CASE record' = record
    BY <1>2, <2>1 DEF Types
  <2>2. CASE record' = [record EXCEPT ![member[w]] =
               [record[member[w]] EXCEPT !.status = status[w], !.linked = TRUE]]
    BY <1>2, <1>3, <2>2, <1>1 DEF Types, Record, Calls, Statuses
  <2> QED
    BY <1>2, <2>1, <2>2 DEF Types, WebhookUpdate, SetRecord, End, Goto
<1>5. Types'
  BY <1>1, <1>2, <1>4 DEF Types, Stages
<1>6. Calls'
  BY <1>1, <1>2, <1>4, <1>5 DEF Types, Calls, Untouched, OneRequestPays
<1>7. Untouched'
  BY <1>1, <1>2, <1>4, <1>5 DEF Types, Calls, Untouched
<1>8. OneRequestPays'
  BY <1>1, <1>2, <1>4, <1>5 DEF Types, Calls, OneRequestPays
<1>9. RunningCheckIsPaid'
  BY <1>1, <1>2, <1>4, <1>5 DEF Types, Calls, Untouched, OneRequestPays, RunningCheckIsPaid
<1>10. PaymentAccounted'
  BY <1>1, <1>2, <1>4, <1>5 DEF Types, Calls, Untouched, OneRequestPays, PaymentAccounted
<1> QED
  BY <1>5, <1>6, <1>7, <1>8, <1>9, <1>10

LEMMA AttachUpsertInv ==
  ASSUME Inv0, NEW w \in Workers, NEW m \in Members, AttachUpsert(w, m)
  PROVE  Inv0'
<1> USE NoneNotMember DEF AttachUpsert, Begin, SetRecord, Goto
<1>1. Types'
  BY DEF Types, Calls, NoRecord, Record, Statuses, Stages
<1>2. Calls'
  BY DEF Types, Calls, Untouched, OneRequestPays, NoRecord
<1>3. Untouched'
  BY DEF Types, Calls, Untouched, NoRecord
<1>4. OneRequestPays'
  BY DEF Types, Calls, OneRequestPays
<1>5. RunningCheckIsPaid'
  BY DEF Types, Calls, Untouched, OneRequestPays, RunningCheckIsPaid, NoRecord
<1>6. PaymentAccounted'
  BY DEF Types, Calls, Untouched, OneRequestPays, PaymentAccounted, NoRecord
<1> QED
  BY <1>1, <1>2, <1>3, <1>4, <1>5, <1>6

LEMMA AttachCompleteInv ==
  ASSUME Inv0, NEW w \in Workers, AttachComplete(w)
  PROVE  Inv0'
<1> USE NoneNotMember
<1>1. /\ pc[w] = "attach"
      /\ pc' = [pc EXCEPT ![w] = "idle"]
      /\ UNCHANGED <<charge, identity, logged, died, lost, member, status>>
      /\ \/ result' = result
         \/ \E r \in {"none", "returned", "error"} : result' = [result EXCEPT ![w] = r]
  BY DEF AttachComplete, End, Goto
<1>2. member[w] \in Members /\ record[member[w]] \in Record
  BY <1>1 DEF Types, Calls
<1>3. [record[member[w]] EXCEPT !.status = "completed"] \in Record
  BY <1>1, <1>2 DEF Calls, Record, Statuses
<1>4. /\ record' \in [Members -> Record]
      /\ \A m \in Members : /\ record'[m].status = "none" => record'[m] = record[m]
                            /\ record[m].paid => record'[m].paid
  <2>1. CASE record' = record
    BY <1>2, <2>1 DEF Types
  <2>2. CASE record' = [record EXCEPT ![member[w]] =
               [record[member[w]] EXCEPT !.status = "completed"]]
    BY <1>2, <1>3, <2>2, <1>1 DEF Types, Record, Calls, Statuses
  <2> QED
    BY <1>2, <2>1, <2>2 DEF Types, AttachComplete, End, Goto
<1>5. Types'
  BY <1>1, <1>2, <1>4 DEF Types, Stages
<1>6. Calls'
  BY <1>1, <1>2, <1>4, <1>5 DEF Types, Calls, Untouched, OneRequestPays
<1>7. Untouched'
  BY <1>1, <1>2, <1>4, <1>5 DEF Types, Calls, Untouched
<1>8. OneRequestPays'
  BY <1>1, <1>2, <1>4, <1>5 DEF Types, Calls, OneRequestPays
<1>9. RunningCheckIsPaid'
  BY <1>1, <1>2, <1>4, <1>5 DEF Types, Calls, Untouched, OneRequestPays, RunningCheckIsPaid
<1>10. PaymentAccounted'
  BY <1>1, <1>2, <1>4, <1>5 DEF Types, Calls, Untouched, OneRequestPays, PaymentAccounted
<1> QED
  BY <1>5, <1>6, <1>7, <1>8, <1>9, <1>10

LEMMA CrashInv ==
  ASSUME Inv0, NEW w \in Workers, Crash(w)
  PROVE  Inv0'
<1> USE NoneNotMember DEF Crash, End, Goto
<1>1. Types'
  BY DEF Types, Calls, Stages
<1>2. Calls'
  BY DEF Types, Calls, Untouched, OneRequestPays
<1>3. Untouched'
  BY DEF Types, Calls, Untouched
<1>4. OneRequestPays'
  BY DEF Types, Calls, OneRequestPays
<1>5. RunningCheckIsPaid'
  BY DEF Types, Calls, Untouched, OneRequestPays, RunningCheckIsPaid
<1>6. PaymentAccounted'
  BY DEF Types, Calls, Untouched, OneRequestPays, PaymentAccounted
<1> QED
  BY <1>1, <1>2, <1>3, <1>4, <1>5, <1>6

LEMMA IdentityAdvancesInv ==
  ASSUME Inv0, NEW m \in Members, IdentityAdvances(m)
  PROVE  Inv0'
<1> USE NoneNotMember DEF IdentityAdvances
<1>1. Types'
  BY ProgressRange DEF Types, Calls, Stages
<1>2. Calls'
  BY ProgressRange DEF Types, Calls, Untouched, OneRequestPays
<1>3. Untouched'
  BY ProgressRange DEF Types, Calls, Untouched
<1>4. OneRequestPays'
  BY ProgressRange DEF Types, Calls, OneRequestPays
<1>5. RunningCheckIsPaid'
  BY ProgressRange DEF Types, Calls, Untouched, OneRequestPays, RunningCheckIsPaid
<1>6. PaymentAccounted'
  BY ProgressRange DEF Types, Calls, Untouched, OneRequestPays, PaymentAccounted
<1> QED
  BY <1>1, <1>2, <1>3, <1>4, <1>5, <1>6

-----------------------------------------------------------------------------
\* Every step keeps everything but Conserved.
LEMMA StepInv0 == Inv0 /\ [Next]_vars => Inv0'
<1> SUFFICES ASSUME Inv0, [Next]_vars PROVE Inv0'
  OBVIOUS
<1>1. CASE UNCHANGED vars
  BY <1>1 DEF vars, store, Types, Calls, Untouched, OneRequestPays,
              RunningCheckIsPaid, PaymentAccounted
<1>2. CASE Next
  <2>1. ASSUME NEW w \in Workers, NEW m \in Members,
               RequestLookup(w, m) \/ WebhookReceive(w, m) \/ AttachUpsert(w, m)
        PROVE  Inv0'
    BY <2>1, RequestLookupInv, WebhookReceiveInv, AttachUpsertInv
  <2>2. ASSUME NEW w \in Workers,
               \/ RequestClaim(w) \/ RequestCharge(w) \/ RequestSavePayment(w)
               \/ RequestIdentity(w) \/ RequestRefund(w) \/ RequestMarkFailed(w)
        PROVE  Inv0'
    BY <2>2, RequestClaimInv, RequestChargeInv, RequestSavePaymentInv,
       RequestIdentityInv, RequestRefundInv, RequestMarkFailedInv
  <2>3. ASSUME NEW w \in Workers,
               \/ RequestThrow(w) \/ RequestSaveIdentity(w)
               \/ WebhookUpdate(w) \/ AttachComplete(w) \/ Crash(w)
        PROVE  Inv0'
    BY <2>3, RequestThrowInv, RequestSaveIdentityInv, WebhookUpdateInv,
       AttachCompleteInv, CrashInv
  <2>4. ASSUME NEW m \in Members, IdentityAdvances(m) PROVE Inv0'
    BY <2>4, IdentityAdvancesInv
  <2> QED
    BY <1>2, <2>1, <2>2, <2>3, <2>4 DEF Next
<1> QED
  BY <1>1, <1>2

LEMMA PaidIsFinite == IsFiniteSet(Paid) /\ Cardinality(Paid) \in Nat
<1>1. Paid \subseteq Members
  BY DEF Paid
<1> QED
  BY <1>1, MembersAssumption, FS_Subset, FS_CardinalityType

\* A charge takes one unit for one member, a refund gives that unit back, and
\* nothing else moves units.
LEMMA StepConserved == Inv0 /\ Conserved /\ [Next]_vars => Conserved'
<1> SUFFICES ASSUME Inv0, Conserved, [Next]_vars PROVE Conserved'
  OBVIOUS
<1> USE ParamsAssumption, PaidIsFinite DEF Conserved
<1>1. CASE UNCHANGED <<available, charge>>
  BY <1>1 DEF Paid
<1>2. ASSUME NEW w \in Workers, RequestCharge(w) PROVE Conserved'
  <2>1. /\ charge[member[w]] = "unpaid" /\ member[w] \in Members
        /\ charge \in [Members -> {"unpaid", "paid", "refunded"}]
    BY <1>2 DEF RequestCharge, Calls, Types
  <2>2. CASE /\ charge' = [charge EXCEPT ![member[w]] = "paid"]
             /\ available' = available - 1 /\ available > 0
    <3>1. Paid' = Paid \cup {member[w]} /\ member[w] \notin Paid
      BY <2>1, <2>2 DEF Paid
    <3>2. Cardinality(Paid') = Cardinality(Paid) + 1
      BY <3>1, FS_AddElement
    <3> QED
      BY <2>2, <3>2
  <2> QED
    BY <1>1, <1>2, <2>1, <2>2 DEF RequestCharge, CanPay
<1>3. ASSUME NEW w \in Workers, RequestRefund(w) PROVE Conserved'
  <2>1. CASE /\ charge[member[w]] = "paid"
             /\ charge' = [charge EXCEPT ![member[w]] = "refunded"]
             /\ available' = available + 1
    <3>1. member[w] \in Members /\ charge \in [Members -> {"unpaid", "paid", "refunded"}]
      BY <1>3 DEF RequestRefund, Calls, Types
    <3>2. Paid' = Paid \ {member[w]} /\ member[w] \in Paid
      BY <2>1, <3>1 DEF Paid
    <3>3. Cardinality(Paid') = Cardinality(Paid) - 1
      BY <3>2, FS_RemoveElement
    <3> QED
      BY <2>1, <3>3
  <2> QED
    BY <1>1, <1>3, <2>1 DEF RequestRefund
<1>4. ASSUME NEW w \in Workers, NEW m \in Members,
             RequestLookup(w, m) \/ WebhookReceive(w, m) \/ AttachUpsert(w, m)
      PROVE  UNCHANGED <<available, charge>>
  BY <1>4 DEF RequestLookup, WebhookReceive, AttachUpsert, store
<1>5. ASSUME NEW w \in Workers,
             \/ RequestClaim(w) \/ RequestSavePayment(w) \/ RequestIdentity(w)
             \/ RequestMarkFailed(w) \/ RequestThrow(w) \/ RequestSaveIdentity(w)
             \/ WebhookUpdate(w) \/ AttachComplete(w) \/ Crash(w)
      PROVE  UNCHANGED <<available, charge>>
  BY <1>5 DEF RequestClaim, RequestSavePayment, RequestIdentity, RequestMarkFailed,
              RequestThrow, RequestSaveIdentity, WebhookUpdate, AttachComplete, Crash, store
<1>6. ASSUME NEW m \in Members, IdentityAdvances(m) PROVE UNCHANGED <<available, charge>>
  BY <1>6 DEF IdentityAdvances
<1> QED
  BY <1>1, <1>2, <1>3, <1>4, <1>5, <1>6 DEF Next, vars, store

LEMMA InitInv == Init => Inv0 /\ Conserved
<1> SUFFICES ASSUME Init PROVE Inv0 /\ Conserved
  OBVIOUS
<1>1. Types
  BY NoneNotMember DEF Init, Types, NoRecord, Record, Statuses, Stages
<1>2. Calls /\ Untouched /\ OneRequestPays /\ RunningCheckIsPaid /\ PaymentAccounted
  BY DEF Init, Calls, Untouched, OneRequestPays, RunningCheckIsPaid,
         PaymentAccounted, NoRecord
<1>3. Paid = {}
  BY DEF Init, Paid
<1>4. Conserved
  BY <1>3, FS_EmptySet, ParamsAssumption DEF Init, Conserved
<1> QED
  BY <1>1, <1>2, <1>4

LEMMA Invariant == Spec => [](Inv0 /\ Conserved)
BY InitInv, StepInv0, StepConserved, PTL DEF Spec

-----------------------------------------------------------------------------
\* Whatever fails or dies, units are neither lost nor made: what is available
\* and what members have paid with add up to the allowance.
THEOREM TypeCorrect == Spec => []TypeOK
<1>1. Inv0 /\ Conserved => TypeOK
  BY ProgressRange DEF Types, Conserved, TypeOK, Record
<1> QED
  BY <1>1, Invariant, PTL

\* Two requests for one member are never both past the creation of its record.
THEOREM AlwaysOneRequestPays == Spec => []OneRequestPays
BY Invariant, PTL DEF Inv0

\* Identity works for nobody who has not paid, lost replies apart.
THEOREM RunningChecksArePaid == Spec => []RunningCheckIsPaid
BY Invariant, PTL DEF Inv0

\* A payment is on the record, in the hands of a request, logged for support,
\* or was held by a process that died.
THEOREM PaymentsAccounted == Spec => []PaymentAccounted
BY Invariant, PTL DEF Inv0
=============================================================================
