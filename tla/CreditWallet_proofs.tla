------------------------ MODULE CreditWallet_proofs ------------------------
(***************************************************************************)
(* Proofs about CreditWallet, for any number of balances, sources, grant   *)
(* requests and concurrent calls.                                          *)
(***************************************************************************)
EXTENDS CreditWallet, FiniteSetTheorems, TLAPS

\* What a call in flight carries: the guards of its next step rely on it.
CallsWellFormed ==
  \A w \in Workers :
    /\ pc[w] \in {"grant_create", "grant_write"} => grantOf[w] \in Grants
    /\ pc[w] \in {"consume_list", "consume_try"} => sourceOf[w] \in Sources
    /\ pc[w] = "refund_write" => sourceOf[w] \in Sources /\ HasConsumed(sourceOf[w])

\* The inductive invariant.  The counters cannot be kept without the uniqueness
\* of charges (a refund frees one holder, of one balance) nor without the fact
\* that a refund in flight has a consumption to refund.
IInv ==
  /\ TypeOK
  /\ CountersMatchLedger
  /\ ChargedAtMostOnce
  /\ ConsumedIsCharged
  /\ CallsWellFormed
  /\ IsFiniteSet(refundEvents)

-----------------------------------------------------------------------------
LEMMA FiniteHolders ==
  ASSUME NEW b
  PROVE  IsFiniteSet(Holders(b)) /\ Cardinality(Holders(b)) \in Nat
<1>1. Holders(b) \subseteq Sources
  BY DEF Holders
<1> QED
  BY <1>1, SourcesAssumption, FS_Subset, FS_CardinalityType

LEMMA FiniteRefunds ==
  ASSUME IsFiniteSet(refundEvents), NEW b
  PROVE  IsFiniteSet(RefundedTo(b)) /\ Cardinality(RefundedTo(b)) \in Nat
<1>1. RefundedTo(b) \subseteq refundEvents
  BY DEF RefundedTo
<1> QED
  BY <1>1, FS_Subset, FS_CardinalityType

LEMMA InitInvariant == Init => IInv
<1> SUFFICES ASSUME Init PROVE IInv
  OBVIOUS
<1>1. TypeOK
  BY DEF Init, TypeOK, Stages, Outcomes
<1>2. \A b \in Balances : Holders(b) = {} /\ RefundedTo(b) = {}
  BY DEF Init, Holders, RefundedTo
<1>3. CountersMatchLedger
  BY <1>2, FS_EmptySet DEF Init, CountersMatchLedger
<1>4. ChargedAtMostOnce /\ ConsumedIsCharged /\ CallsWellFormed
  BY DEF Init, ChargedAtMostOnce, ConsumedIsCharged, CallsWellFormed
<1>5. IsFiniteSet(refundEvents)
  BY FS_EmptySet DEF Init
<1> QED
  BY <1>1, <1>3, <1>4, <1>5 DEF IInv

\* A step that leaves the database alone keeps everything but the shape of
\* the calls, which is up to the step.
LEMMA LocalStep ==
  ASSUME IInv, UNCHANGED store, TypeOK', ConsumedIsCharged', CallsWellFormed'
  PROVE  IInv'
<1>1. \A b : Holders(b)' = Holders(b) /\ RefundedTo(b)' = RefundedTo(b)
  BY DEF store, Holders, RefundedTo
<1>2. CountersMatchLedger'
  BY <1>1 DEF IInv, store, CountersMatchLedger
<1>3. ChargedAtMostOnce' /\ IsFiniteSet(refundEvents)'
  BY DEF IInv, store, ChargedAtMostOnce
<1> QED
  BY <1>2, <1>3 DEF IInv

LEMMA GrantStep ==
  ASSUME IInv, NEW w \in Workers, GrantCreate(w) \/ GrantWrite(w)
  PROVE  IInv'
<1> DEFINE g == grantOf[w]
<1>1. g \in Grants /\ g.balance \in Balances /\ g.quantity \in Nat \ {0}
  BY GrantsAssumption DEF IInv, CallsWellFormed, GrantCreate, GrantWrite
<1>2. /\ consumeEvents' = consumeEvents /\ refundEvents' = refundEvents
      /\ totalConsumed' = totalConsumed /\ totalRefunded' = totalRefunded
      /\ sourceOf' = sourceOf /\ grantOf' = grantOf /\ outcome' = outcome
  BY DEF GrantCreate, GrantWrite
<1>3. TypeOK'
  <2>1. CASE GrantCreate(w)
    BY <2>1, <1>1 DEF IInv, TypeOK, GrantCreate, Stages
  <2>2. CASE GrantWrite(w)
    <3>1. CASE g \in grantEvents
      BY <2>2, <3>1, <1>1 DEF IInv, TypeOK, GrantWrite, Stages
    <3>2. CASE g \notin grantEvents
      BY <2>2, <3>2, <1>1 DEF IInv, TypeOK, GrantWrite, Stages
    <3> QED BY <3>1, <3>2
  <2> QED BY <2>1, <2>2
<1>4. \A b : Holders(b)' = Holders(b) /\ RefundedTo(b)' = RefundedTo(b)
  BY <1>2 DEF Holders, RefundedTo
<1>5. \A b \in Balances :
        balance'[b] - balance[b] = totalGranted'[b] - totalGranted[b]
  <2>1. CASE GrantCreate(w)
    BY <2>1 DEF IInv, TypeOK, GrantCreate
  <2>2. CASE GrantWrite(w)
    BY <2>2, <1>1 DEF IInv, TypeOK, GrantWrite
  <2> QED BY <2>1, <2>2
<1>6. CountersMatchLedger'
  <2> SUFFICES ASSUME NEW b \in Balances
               PROVE  /\ totalConsumed'[b] = Cardinality(Holders(b)')
                      /\ totalRefunded'[b] = Cardinality(RefundedTo(b)')
                      /\ balance'[b] = totalGranted'[b] - totalConsumed'[b]
    BY DEF CountersMatchLedger
  <2>1. /\ totalConsumed[b] = Cardinality(Holders(b))
        /\ totalRefunded[b] = Cardinality(RefundedTo(b))
        /\ balance[b] = totalGranted[b] - totalConsumed[b]
    BY DEF IInv, CountersMatchLedger
  <2>2. /\ balance[b] \in Nat /\ balance'[b] \in Nat
        /\ totalGranted[b] \in Nat /\ totalGranted'[b] \in Nat
        /\ totalConsumed[b] \in Nat
    BY <1>3 DEF IInv, TypeOK
  <2>3. Holders(b)' = Holders(b) /\ RefundedTo(b)' = RefundedTo(b)
    BY <1>4
  <2>4. balance'[b] - balance[b] = totalGranted'[b] - totalGranted[b]
    BY <1>5
  <2>5. balance'[b] = totalGranted'[b] - totalConsumed[b]
    BY <2>1, <2>2, <2>4
  <2> QED
    BY <1>2, <2>1, <2>3, <2>5
<1>7. ChargedAtMostOnce' /\ ConsumedIsCharged' /\ IsFiniteSet(refundEvents)'
  BY <1>2 DEF IInv, ChargedAtMostOnce, ConsumedIsCharged, HasConsumed
<1>8. CallsWellFormed'
  BY <1>2 DEF IInv, TypeOK, CallsWellFormed, HasConsumed, GrantCreate, GrantWrite
<1> QED
  BY <1>3, <1>6, <1>7, <1>8 DEF IInv

LEMMA ConsumeStep ==
  ASSUME IInv, NEW w \in Workers, NEW b \in Balances, ConsumeWrite(w, b)
  PROVE  IInv'
<1> DEFINE s == sourceOf[w]
           e == [source |-> s, balance |-> b]
<1>1. /\ s \in Sources /\ e \in SourceEvent
      /\ balance[b] > 0 /\ pc[w] = "consume_try"
      /\ rows' = rows /\ totalGranted' = totalGranted
      /\ totalRefunded' = totalRefunded /\ refundEvents' = refundEvents
      /\ grantEvents' = grantEvents /\ grantOf' = grantOf /\ sourceOf' = sourceOf
      /\ pc' = [pc EXCEPT ![w] = "idle"]
      /\ outcome' = [outcome EXCEPT ![w] = "consumed"]
      /\ todo' = [todo EXCEPT ![w] = {}]
  BY DEF IInv, CallsWellFormed, ConsumeWrite, CanTake, Return, SourceEvent
<1>2. CASE HasConsumed(s)
  <2>1. UNCHANGED store
    BY <1>1, <1>2 DEF ConsumeWrite, store
  <2>2. TypeOK'
    BY <1>1, <2>1 DEF IInv, TypeOK, store, Stages, Outcomes
  <2>3. ConsumedIsCharged' /\ CallsWellFormed'
    BY <1>1, <1>2, <2>1
    DEF IInv, TypeOK, store, ConsumedIsCharged, CallsWellFormed, HasConsumed
  <2> QED
    BY <2>1, <2>2, <2>3, LocalStep
<1>3. CASE ~HasConsumed(s)
  <2>1. /\ consumeEvents' = consumeEvents \cup {e}
        /\ balance' = [balance EXCEPT ![b] = @ - 1]
        /\ totalConsumed' = [totalConsumed EXCEPT ![b] = @ + 1]
    BY <1>3 DEF ConsumeWrite
  <2>2. TypeOK'
    BY <1>1, <2>1 DEF IInv, TypeOK, Stages, Outcomes
  <2>3. e \notin consumeEvents /\ e \notin refundEvents
    BY <1>3 DEF IInv, ChargedAtMostOnce, HasConsumed
  <2>4. /\ Holders(b)' = Holders(b) \cup {s}
        /\ s \notin Holders(b)
        /\ \A c \in Balances \ {b} : Holders(c)' = Holders(c)
        /\ \A c : RefundedTo(c)' = RefundedTo(c)
    BY <1>1, <2>1, <2>3 DEF Holders, RefundedTo
  <2>5. Cardinality(Holders(b)') = Cardinality(Holders(b)) + 1
    BY <2>4, FiniteHolders, FS_AddElement
  <2>6. CountersMatchLedger'
    <3> SUFFICES ASSUME NEW c \in Balances
                 PROVE  /\ totalConsumed'[c] = Cardinality(Holders(c)')
                        /\ totalRefunded'[c] = Cardinality(RefundedTo(c)')
                        /\ balance'[c] = totalGranted'[c] - totalConsumed'[c]
      BY DEF CountersMatchLedger
    <3>1. /\ totalConsumed[c] = Cardinality(Holders(c))
          /\ totalRefunded[c] = Cardinality(RefundedTo(c))
          /\ balance[c] = totalGranted[c] - totalConsumed[c]
      BY DEF IInv, CountersMatchLedger
    <3>2. /\ balance[c] \in Nat /\ totalGranted[c] \in Nat
          /\ totalConsumed[c] \in Nat
      BY DEF IInv, TypeOK
    <3>3. CASE c = b
      <4>1. balance'[c] = balance[c] - 1 /\ totalConsumed'[c] = totalConsumed[c] + 1
        BY <2>1, <3>3 DEF IInv, TypeOK
      <4>2. totalConsumed'[c] = Cardinality(Holders(c)')
        BY <2>5, <3>1, <3>3, <4>1
      <4>3. totalRefunded'[c] = Cardinality(RefundedTo(c)')
        BY <1>1, <2>4, <3>1
      <4> QED
        BY <1>1, <3>1, <3>2, <4>1, <4>2, <4>3
    <3>4. CASE c # b
      BY <1>1, <2>1, <2>4, <3>1, <3>4 DEF IInv, TypeOK
    <3> QED
      BY <3>3, <3>4
  <2>7. ChargedAtMostOnce'
    BY <1>1, <1>3, <2>1 DEF IInv, ChargedAtMostOnce, HasConsumed
  <2>8. ConsumedIsCharged' /\ CallsWellFormed'
    BY <1>1, <2>1
    DEF IInv, TypeOK, ConsumedIsCharged, CallsWellFormed, HasConsumed
  <2> QED
    BY <1>1, <2>2, <2>6, <2>7, <2>8 DEF IInv
<1> QED
  BY <1>2, <1>3

LEMMA RefundStep ==
  ASSUME IInv, NEW w \in Workers, RefundWrite(w)
  PROVE  IInv'
<1> DEFINE s == sourceOf[w]
<1>1. /\ s \in Sources /\ HasConsumed(s) /\ pc[w] = "refund_write"
      /\ rows' = rows /\ totalGranted' = totalGranted
      /\ consumeEvents' = consumeEvents /\ grantEvents' = grantEvents
      /\ grantOf' = grantOf /\ sourceOf' = sourceOf
      /\ todo' = todo /\ outcome' = outcome
      /\ pc' = [pc EXCEPT ![w] = "idle"]
  BY DEF IInv, CallsWellFormed, RefundWrite
<1>2. ConsumedIsCharged' /\ CallsWellFormed'
  BY <1>1 DEF IInv, TypeOK, ConsumedIsCharged, CallsWellFormed, HasConsumed
<1>3. CASE HasRefunded(s)
  <2>1. UNCHANGED store
    BY <1>1, <1>3 DEF RefundWrite, store
  <2>2. TypeOK'
    BY <1>1, <2>1 DEF IInv, TypeOK, store, Stages
  <2> QED
    BY <1>2, <2>1, <2>2, LocalStep
<1>4. CASE ~HasRefunded(s)
  <2> PICK e \in consumeEvents :
        /\ e.source = s
        /\ refundEvents' = refundEvents \cup {e}
        /\ balance' = [balance EXCEPT ![e.balance] = @ + 1]
        /\ totalRefunded' = [totalRefunded EXCEPT ![e.balance] = @ + 1]
        /\ totalConsumed' = [totalConsumed EXCEPT ![e.balance] = @ - 1]
    BY <1>4 DEF RefundWrite
  <2> DEFINE b == e.balance
  <2>1. /\ b \in Balances /\ e = [source |-> s, balance |-> b]
        /\ e \in SourceEvent /\ e \notin refundEvents
    BY <1>4 DEF IInv, TypeOK, SourceEvent, HasRefunded
  <2>2. /\ Holders(b)' = Holders(b) \ {s}
        /\ s \in Holders(b)
        /\ \A c \in Balances \ {b} : Holders(c)' = Holders(c)
    BY <1>1, <2>1 DEF Holders
  <2>3. /\ RefundedTo(b)' = RefundedTo(b) \cup {e}
        /\ e \notin RefundedTo(b)
        /\ \A c \in Balances \ {b} : RefundedTo(c)' = RefundedTo(c)
    BY <2>1 DEF RefundedTo
  <2>4. Cardinality(Holders(b)') = Cardinality(Holders(b)) - 1
    BY <2>2, FiniteHolders, FS_RemoveElement
  <2>5. Cardinality(RefundedTo(b)') = Cardinality(RefundedTo(b)) + 1
    BY <2>3, FiniteRefunds, FS_AddElement DEF IInv
  <2>6. IsFiniteSet(refundEvents')
    BY FS_AddElement DEF IInv
  <2>7. /\ totalConsumed[b] = Cardinality(Holders(b))
        /\ totalConsumed[b] > 0
    <3>1. Cardinality(Holders(b)) \in Nat /\ Cardinality(Holders(b)) # 0
      BY <2>2, FiniteHolders, FS_EmptySet
    <3> QED
      BY <2>1, <3>1 DEF IInv, CountersMatchLedger
  <2>8. TypeOK'
    <3>1. totalConsumed[b] - 1 \in Nat
      BY <2>1, <2>7 DEF IInv, TypeOK
    <3> QED
      BY <1>1, <2>1, <3>1 DEF IInv, TypeOK, Stages
  <2>9. CountersMatchLedger'
    <3> SUFFICES ASSUME NEW c \in Balances
                 PROVE  /\ totalConsumed'[c] = Cardinality(Holders(c)')
                        /\ totalRefunded'[c] = Cardinality(RefundedTo(c)')
                        /\ balance'[c] = totalGranted'[c] - totalConsumed'[c]
      BY DEF CountersMatchLedger
    <3>1. /\ totalConsumed[c] = Cardinality(Holders(c))
          /\ totalRefunded[c] = Cardinality(RefundedTo(c))
          /\ balance[c] = totalGranted[c] - totalConsumed[c]
      BY DEF IInv, CountersMatchLedger
    <3>2. /\ balance[c] \in Nat /\ totalGranted[c] \in Nat
          /\ totalConsumed[c] \in Nat /\ totalRefunded[c] \in Nat
      BY DEF IInv, TypeOK
    <3>3. CASE c = b
      BY <1>1, <2>1, <2>4, <2>5, <3>1, <3>2, <3>3 DEF IInv, TypeOK
    <3>4. CASE c # b
      BY <1>1, <2>1, <2>2, <2>3, <3>1, <3>4 DEF IInv, TypeOK
    <3> QED
      BY <3>3, <3>4
  <2>10. ChargedAtMostOnce'
    BY <1>1 DEF IInv, ChargedAtMostOnce
  <2> QED
    BY <1>2, <2>6, <2>8, <2>9, <2>10 DEF IInv
<1> QED
  BY <1>3, <1>4

LEMMA StepInvariant == IInv /\ [Next]_vars => IInv'
<1> SUFFICES ASSUME IInv, [Next]_vars PROVE IInv'
  OBVIOUS
<1>1. ASSUME NEW w \in Workers, NEW g \in Grants, GrantFind(w, g) PROVE IInv'
  <2>1. TypeOK' /\ UNCHANGED store
    BY <1>1 DEF IInv, TypeOK, GrantFind, store, Stages, Outcomes
  <2>2. ConsumedIsCharged' /\ CallsWellFormed'
    BY <1>1, <2>1 DEF IInv, TypeOK, GrantFind, store, ConsumedIsCharged,
                      CallsWellFormed, HasConsumed
  <2> QED
    BY <2>1, <2>2, LocalStep
<1>2. ASSUME NEW w \in Workers, GrantCreate(w) \/ GrantWrite(w) PROVE IInv'
  BY <1>2, GrantStep
<1>3. ASSUME NEW w \in Workers, NEW s \in Sources, ConsumeCheck(w, s) PROVE IInv'
  <2>1. TypeOK' /\ UNCHANGED store
    BY <1>3 DEF IInv, TypeOK, ConsumeCheck, Return, store, Stages, Outcomes
  <2>2. ConsumedIsCharged' /\ CallsWellFormed'
    BY <1>3, <2>1 DEF IInv, TypeOK, ConsumeCheck, Return, store,
                      ConsumedIsCharged, CallsWellFormed, HasConsumed
  <2> QED
    BY <2>1, <2>2, LocalStep
<1>4. ASSUME NEW w \in Workers, NEW s \in Sources, RefundFind(w, s) PROVE IInv'
  <2>1. TypeOK' /\ UNCHANGED store
    BY <1>4 DEF IInv, TypeOK, RefundFind, store, Stages, Outcomes
  <2>2. ConsumedIsCharged' /\ CallsWellFormed'
    BY <1>4, <2>1 DEF IInv, TypeOK, RefundFind, store, ConsumedIsCharged,
                      CallsWellFormed, HasConsumed
  <2> QED
    BY <2>1, <2>2, LocalStep
<1>5. ASSUME NEW w \in Workers, ConsumeList(w) PROVE IInv'
  <2>1. TypeOK' /\ UNCHANGED store
    BY <1>5 DEF IInv, TypeOK, ConsumeList, Return, store, Stages, Outcomes
  <2>2. ConsumedIsCharged' /\ CallsWellFormed'
    BY <1>5, <2>1 DEF IInv, TypeOK, ConsumeList, Return, store,
                      ConsumedIsCharged, CallsWellFormed, HasConsumed
  <2> QED
    BY <2>1, <2>2, LocalStep
<1>6. ASSUME NEW w \in Workers, NEW b \in Balances, ConsumeDrained(w, b) PROVE IInv'
  <2>1. TypeOK' /\ UNCHANGED store
    BY <1>6 DEF IInv, TypeOK, ConsumeDrained, Return, store, Stages, Outcomes
  <2>2. ConsumedIsCharged' /\ CallsWellFormed'
    BY <1>6, <2>1 DEF IInv, TypeOK, ConsumeDrained, Return, store,
                      ConsumedIsCharged, CallsWellFormed, HasConsumed
  <2> QED
    BY <2>1, <2>2, LocalStep
<1>7. ASSUME NEW w \in Workers, NEW b \in Balances, ConsumeWrite(w, b) PROVE IInv'
  BY <1>7, ConsumeStep
<1>8. ASSUME NEW w \in Workers, RefundWrite(w) PROVE IInv'
  BY <1>8, RefundStep
<1>9. ASSUME NEW w \in Workers, Crash(w) PROVE IInv'
  <2>1. TypeOK' /\ UNCHANGED store
    BY <1>9 DEF IInv, TypeOK, Crash, store, Stages
  <2>2. ConsumedIsCharged' /\ CallsWellFormed'
    BY <1>9, <2>1 DEF IInv, TypeOK, Crash, store, ConsumedIsCharged,
                      CallsWellFormed, HasConsumed
  <2> QED
    BY <2>1, <2>2, LocalStep
<1>10. CASE UNCHANGED vars
  <2>1. TypeOK' /\ UNCHANGED store
    BY <1>10 DEF IInv, TypeOK, vars, store, local
  <2>2. ConsumedIsCharged' /\ CallsWellFormed'
    BY <1>10, <2>1 DEF IInv, vars, store, local, ConsumedIsCharged,
                       CallsWellFormed, HasConsumed
  <2> QED
    BY <2>1, <2>2, LocalStep
<1> QED
  BY <1>1, <1>2, <1>3, <1>4, <1>5, <1>6, <1>7, <1>8, <1>9, <1>10 DEF Next

THEOREM Invariance == Spec => []IInv
BY InitInvariant, StepInvariant, PTL DEF Spec

-----------------------------------------------------------------------------
\* Every balance, total and event stays of its type: in particular no balance
\* and no total of a credit row ever goes below zero, which the CHECK
\* constraints of billing_credit_balances would otherwise have to enforce.
THEOREM TypeCorrect == Spec => []TypeOK
BY Invariance, PTL DEF IInv

\* The counters of every balance row agree with the event ledger.
THEOREM CountersAlwaysMatch == Spec => []CountersMatchLedger
BY Invariance, PTL DEF IInv

\* No source is ever charged twice, nor refunded a credit it did not pay.
THEOREM AlwaysChargedAtMostOnce == Spec => []ChargedAtMostOnce
BY Invariance, PTL DEF IInv

\* A call that returned "consumed" has a charge behind it.
THEOREM ConsumedAlwaysCharged == Spec => []ConsumedIsCharged
BY Invariance, PTL DEF IInv

-----------------------------------------------------------------------------
(* Refinement of CreditLedger *)

\* What ChargeOf reads off a ledger in which every source is charged once.
LEMMA ChargeOfValue ==
  ASSUME TypeOK, ChargedAtMostOnce, NEW s \in Sources
  PROVE  /\ ~HasConsumed(s) => ChargeOf(s) = Ledger!Unpaid
         /\ \A e \in consumeEvents : e.source = s =>
              ChargeOf(s) = IF e \in refundEvents
                              THEN Ledger!Refunded(e.balance)
                              ELSE Ledger!Paid(e.balance)
<1> DEFINE on == {e.balance : e \in {f \in consumeEvents : f.source = s}}
<1>1. CASE ~HasConsumed(s)
  <2>1. on = {}
    BY <1>1 DEF HasConsumed
  <2> QED
    BY <1>1, <2>1 DEF ChargeOf, HasConsumed, Ledger!Unpaid
<1>2. ASSUME NEW e \in consumeEvents, e.source = s
      PROVE  ChargeOf(s) = IF e \in refundEvents
                              THEN Ledger!Refunded(e.balance)
                              ELSE Ledger!Paid(e.balance)
  <2>1. on = {e.balance}
    BY <1>2 DEF ChargedAtMostOnce
  <2>2. (CHOOSE x \in on : TRUE) = e.balance
    BY <2>1
  <2>3. HasRefunded(s) <=> e \in refundEvents
    BY <1>2 DEF ChargedAtMostOnce, HasRefunded
  <2> QED
    BY <2>1, <2>2, <2>3 DEF ChargeOf, Ledger!Refunded, Ledger!Paid
<1> QED
  BY <1>1, <1>2 DEF HasConsumed

\* The abstract Spendable(b) is the stored balance.
LEMMA SpendableIsBalance ==
  ASSUME IInv, NEW b \in Balances
  PROVE  Ledger!Spendable(b) = balance[b]
<1>1. ASSUME NEW s \in Sources
      PROVE  ChargeOf(s) = Ledger!Paid(b) <=> s \in Holders(b)
  <2>1. CASE ~HasConsumed(s)
    BY <2>1, ChargeOfValue
    DEF IInv, HasConsumed, Holders, Ledger!Unpaid, Ledger!Paid
  <2>2. ASSUME NEW e \in consumeEvents, e.source = s
        PROVE  ChargeOf(s) = Ledger!Paid(b) <=> s \in Holders(b)
    <3>1. e = [source |-> s, balance |-> e.balance] /\ e \in SourceEvent
      BY <2>2 DEF IInv, TypeOK, SourceEvent
    <3>2. \A c : [source |-> s, balance |-> c] \in consumeEvents => c = e.balance
      BY <2>2, <3>1 DEF IInv, ChargedAtMostOnce
    <3>3. s \in Holders(b) <=> e.balance = b /\ e \notin refundEvents
      BY <2>2, <3>1, <3>2 DEF Holders
    <3>4. ChargeOf(s) = IF e \in refundEvents THEN Ledger!Refunded(e.balance)
                                              ELSE Ledger!Paid(e.balance)
      BY <2>2, ChargeOfValue DEF IInv
    <3> QED
      BY <3>3, <3>4 DEF Ledger!Refunded, Ledger!Paid
  <2> QED
    BY <2>1, <2>2 DEF HasConsumed
<1>2. {s \in Sources : [t \in Sources |-> ChargeOf(t)][s] = Ledger!Paid(b)}
        = Holders(b)
  BY <1>1 DEF Holders
<1>3. balance[b] = totalGranted[b] - Cardinality(Holders(b))
  BY DEF IInv, CountersMatchLedger
<1>4. Ledger!Cardinality(Holders(b)) = Cardinality(Holders(b))
  BY DEF Ledger!Cardinality, Ledger!IsFiniteSet, Cardinality, IsFiniteSet
<1> QED
  BY <1>2, <1>3, <1>4 DEF Ledger!Spendable

LEMMA RefinementInit == Init => Ledger!LedgerInit
<1> SUFFICES ASSUME Init PROVE Ledger!LedgerInit
  OBVIOUS
<1>1. TypeOK /\ ChargedAtMostOnce
  BY InitInvariant DEF IInv
<1>2. \A s \in Sources : ChargeOf(s) = Ledger!Unpaid
  BY <1>1, ChargeOfValue DEF Init, HasConsumed
<1> QED
  BY <1>2 DEF Init, Ledger!LedgerInit

\* A step that changes no total and no event of a source is a stutter.
LEMMA RefinementStutter ==
  ASSUME UNCHANGED <<totalGranted, consumeEvents, refundEvents>>
  PROVE  UNCHANGED Ledger!lvars
<1>1. \A s \in Sources : ChargeOf(s)' = ChargeOf(s)
  BY DEF ChargeOf, HasRefunded
<1> QED
  BY <1>1 DEF Ledger!lvars

LEMMA RefinementStep == IInv /\ IInv' /\ [Next]_vars => [Ledger!LedgerNext]_(Ledger!lvars)
<1> SUFFICES ASSUME IInv, IInv', [Next]_vars
             PROVE  [Ledger!LedgerNext]_(Ledger!lvars)
  OBVIOUS
<1>1. ASSUME NEW w \in Workers, GrantWrite(w), grantOf[w] \notin grantEvents
      PROVE  Ledger!LedgerNext
  <2> DEFINE b == grantOf[w].balance
  <2>1. b \in Balances /\ grantOf[w].quantity \in Nat \ {0}
    BY <1>1, GrantsAssumption DEF IInv, CallsWellFormed, GrantWrite
  <2>2. totalGranted' = [totalGranted EXCEPT ![b] = @ + grantOf[w].quantity]
    BY <1>1 DEF GrantWrite
  <2>3. totalGranted'[b] > totalGranted[b]
    BY <2>1, <2>2 DEF IInv, TypeOK
  <2>4. totalGranted' = [totalGranted EXCEPT ![b] = totalGranted'[b]]
    BY <2>1, <2>2 DEF IInv, TypeOK
  <2>5. \A s \in Sources : ChargeOf(s)' = ChargeOf(s)
    BY <1>1 DEF GrantWrite, ChargeOf, HasRefunded
  <2>6. Ledger!Grant(b)
    BY <2>3, <2>4, <2>5 DEF Ledger!Grant
  <2> QED
    BY <2>1, <2>6 DEF Ledger!LedgerNext
<1>2. ASSUME NEW w \in Workers, NEW b \in Balances, ConsumeWrite(w, b),
             ~HasConsumed(sourceOf[w])
      PROVE  Ledger!LedgerNext
  <2> PICK s \in Sources : s = sourceOf[w]
    BY <1>2 DEF IInv, CallsWellFormed, ConsumeWrite, CanTake
  <2> DEFINE e == [source |-> s, balance |-> b]
  <2>1. /\ balance[b] > 0
        /\ consumeEvents' = consumeEvents \cup {e}
        /\ refundEvents' = refundEvents /\ totalGranted' = totalGranted
    BY <1>2 DEF IInv, CallsWellFormed, ConsumeWrite, CanTake
  <2>2. ChargeOf(s) = Ledger!Unpaid
    BY <1>2, <2>1, ChargeOfValue DEF IInv
  <2>3. ChargeOf(s)' = Ledger!Paid(b)
    <3>1. e \notin refundEvents'
      BY <1>2, <2>1 DEF IInv, ChargedAtMostOnce, HasConsumed
    <3>2. s \in Sources /\ TypeOK' /\ ChargedAtMostOnce' /\ e \in consumeEvents'
      BY <2>1 DEF IInv
    <3>3. \A f \in consumeEvents' : f.source = s => f = e
      BY <3>2 DEF ChargedAtMostOnce
    <3>4. {f.balance : f \in {h \in consumeEvents' : h.source = s}} = {b}
      BY <3>2, <3>3
    <3>5. ~HasRefunded(s)'
      BY <3>1, <3>2, <3>3 DEF ChargedAtMostOnce, HasRefunded
    <3> QED
      BY <3>4, <3>5 DEF ChargeOf, Ledger!Paid
  <2>4. \A t \in Sources \ {s} : ChargeOf(t)' = ChargeOf(t)
    <3> SUFFICES ASSUME NEW t \in Sources \ {s} PROVE ChargeOf(t)' = ChargeOf(t)
      OBVIOUS
    <3>1. {f \in consumeEvents' : f.source = t} = {f \in consumeEvents : f.source = t}
      BY <2>1
    <3> QED
      BY <2>1, <3>1 DEF ChargeOf, HasRefunded
  <2>5. Ledger!Spendable(b) > 0
    BY <2>1, SpendableIsBalance
  <2>6. Ledger!Charge(s, b)
    BY <2>1, <2>2, <2>3, <2>4, <2>5 DEF Ledger!Charge
  <2> QED
    BY <2>1, <2>6 DEF Ledger!LedgerNext
<1>3. ASSUME NEW w \in Workers, RefundWrite(w), ~HasRefunded(sourceOf[w])
      PROVE  Ledger!LedgerNext
  <2> PICK s \in Sources : s = sourceOf[w]
    BY <1>3 DEF IInv, CallsWellFormed, RefundWrite
  <2> PICK e \in consumeEvents : e.source = s /\ refundEvents' = refundEvents \cup {e}
    BY <1>3 DEF RefundWrite
  <2> DEFINE b == e.balance
  <2>1. /\ b \in Balances /\ e \notin refundEvents
        /\ consumeEvents' = consumeEvents /\ totalGranted' = totalGranted
    BY <1>3 DEF IInv, TypeOK, SourceEvent, RefundWrite, HasRefunded
  <2>2. ChargeOf(s) = Ledger!Paid(b)
    BY <2>1, ChargeOfValue DEF IInv
  <2>3. ChargeOf(s)' = Ledger!Refunded(b)
    <3>1. {f.balance : f \in {h \in consumeEvents' : h.source = s}} = {b}
      BY <2>1 DEF IInv, ChargedAtMostOnce
    <3>2. HasRefunded(s)'
      BY DEF HasRefunded
    <3> QED
      BY <3>1, <3>2 DEF ChargeOf, Ledger!Refunded
  <2>4. \A t \in Sources \ {s} : ChargeOf(t)' = ChargeOf(t)
    BY <2>1 DEF ChargeOf, HasRefunded
  <2>5. Ledger!Refund(s, b)
    BY <2>1, <2>2, <2>3, <2>4 DEF Ledger!Refund
  <2> QED
    BY <2>1, <2>5 DEF Ledger!LedgerNext
<1>4. CASE UNCHANGED <<totalGranted, consumeEvents, refundEvents>>
  BY <1>4, RefinementStutter
<1> QED
  BY <1>1, <1>2, <1>3, <1>4
  DEF Next, vars, store, GrantFind, GrantCreate, GrantWrite, ConsumeCheck,
      ConsumeList, ConsumeDrained, ConsumeWrite, RefundFind, RefundWrite, Crash

\* The service, with its counters, idempotency keys, stale reads, rolled back
\* transactions and crashes, only ever does what the abstract ledger allows.
THEOREM WalletImplementsLedger == Spec => ImplementsLedger
<1>1. Init => Ledger!LedgerInit
  BY RefinementInit
<1>2. IInv /\ IInv' /\ [Next]_vars => [Ledger!LedgerNext]_(Ledger!lvars)
  BY RefinementStep
<1> QED
  BY <1>1, <1>2, Invariance, PTL DEF Spec, ImplementsLedger, Ledger!LedgerSpec
=============================================================================
