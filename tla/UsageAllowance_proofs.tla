------------------------ MODULE UsageAllowance_proofs ------------------------
(***************************************************************************)
(* Proofs about UsageAllowance, for any plans, sources and bounds.         *)
(*                                                                         *)
(* What sources hold is bounded through the counter: a unit is held on     *)
(* account of an earlier period, of the current one, which counts it, or   *)
(* of the call that oversold it (Counted).  A refund takes away a holder   *)
(* and at most one from the counter, whichever period it was used in; what *)
(* is taken beyond the best plan of the period was read in an earlier one. *)
(***************************************************************************)
EXTENDS UsageAllowance, FiniteSetTheorems, TLAPS

\* Only sources that used the allowance are refunded from it.
RefundedHadUsage == \A s \in refunds : pc[s] = "allowance"

\* So did those that oversold.
OversoldHadUsage == \A s \in oversold : pc[s] = "allowance"

Counted ==
  /\ Cardinality(Held) <= given + used + Cardinality(oversold)
  /\ Cardinality(Held) <= given + best + Cardinality(oversold)

\* Until the plan changes, every SKU around is the subscription's.
OnePlan ==
  ~moved => \A s \in Sources :
    /\ pc[s] \in {"read", "write"} => seen[s].sku = sku
    /\ usage[s] # None => usage[s] = sku

IInv ==
  /\ TypeOK /\ PaidOnce /\ RefundedHadUsage /\ OversoldHadUsage
  /\ Counted /\ OnePlan /\ UsedIsHeld

-----------------------------------------------------------------------------
LEMMA HeldIsFinite == IsFiniteSet(Held) /\ Cardinality(Held) \in Nat
<1>1. Held \subseteq Sources
  BY DEF Held
<1> QED
  BY <1>1, SourcesAssumption, FS_Subset, FS_CardinalityType

LEMMA OversoldIsFinite ==
  ASSUME oversold \subseteq Sources
  PROVE  IsFiniteSet(oversold) /\ Cardinality(oversold) \in Nat
BY SourcesAssumption, FS_Subset, FS_CardinalityType

LEMMA InitInv == Init => IInv
<1> SUFFICES ASSUME Init PROVE IInv
  OBVIOUS
<1>1. TypeOK
  <2>1. period \in 1..MaxPeriod /\ used \in Nat /\ given \in Nat
    BY BoundsAssumption DEF Init
  <2>4. best \in Nat /\ oversold \subseteq Sources
    BY SkusAssumption DEF Init
  <2>2. access \in BOOLEAN /\ expired \in BOOLEAN /\ moved \in BOOLEAN
    BY DEF Init
  <2>3. granted \in [{Manual} -> Nat] /\ charge \in [Sources -> Wallet!Charges]
    BY DEF Init, Wallet!LedgerInit, Wallet!Charges, Wallet!Unpaid
  <2> QED
    BY <2>1, <2>2, <2>3, <2>4 DEF Init, TypeOK, Stages
<1>2. PaidOnce /\ RefundedHadUsage /\ OversoldHadUsage
  BY DEF Init, PaidOnce, RefundedHadUsage, OversoldHadUsage, Wallet!LedgerInit
<1>3. Held = {}
  BY DEF Init, Held
<1>4. Counted /\ UsedIsHeld
  BY <1>3, FS_EmptySet, SkusAssumption DEF Init, Counted, UsedIsHeld
<1>5. OnePlan
  BY DEF Init, OnePlan
<1> QED
  BY <1>1, <1>2, <1>4, <1>5 DEF IInv

\* The subscription's own steps take nothing from sources; a renewal moves the
\* usage of the period to the earlier ones.
LEMMA RenewInv == ASSUME IInv, Renew PROVE IInv'
<1> USE DEF Renew, IInv, wallet
<1>1. TypeOK'
  <2>1. period' \in 1..MaxPeriod /\ used' \in Nat
    BY BoundsAssumption DEF TypeOK
  <2>2. access' \in BOOLEAN /\ expired' \in BOOLEAN
    OBVIOUS
  <2>3. given' \in Nat /\ best' \in Nat
    BY SkusAssumption DEF TypeOK
  <2> QED
    BY <2>1, <2>2, <2>3 DEF TypeOK
<1>2. PaidOnce' /\ RefundedHadUsage' /\ OversoldHadUsage' /\ OnePlan'
  BY DEF PaidOnce, RefundedHadUsage, OversoldHadUsage, OnePlan
<1>3. Held' = Held
  BY DEF Held
<1>4. given' = given + best /\ used' = 0 /\ best' \in Nat /\ oversold' = oversold
      /\ given \in Nat /\ best \in Nat
  BY SkusAssumption DEF TypeOK
<1>5. Cardinality(oversold) \in Nat /\ Cardinality(Held) \in Nat
      /\ Cardinality(Held) <= given + best + Cardinality(oversold)
  BY HeldIsFinite, OversoldIsFinite DEF TypeOK, Counted
<1>6. Cardinality(Held') <= given' + used' + Cardinality(oversold')
      /\ Cardinality(Held') <= given' + best' + Cardinality(oversold')
      /\ used' <= Cardinality(Held')
  BY <1>3, <1>4, <1>5
<1>7. Counted' /\ UsedIsHeld'
  BY <1>6 DEF Counted, UsedIsHeld
<1> HIDE DEF Renew
<1> QED
  BY <1>1, <1>2, <1>7

LEMMA SubscriptionInv ==
  ASSUME IInv, Expire \/ Cancel \/ (\E k \in Skus : ChangePlan(k))
  PROVE  IInv'
<1> USE DEF Expire, Cancel, ChangePlan, IInv, wallet, allowances
<1>1. TypeOK'
  <2>1. best' \in Nat /\ best' >= best
    BY SkusAssumption DEF TypeOK
  <2> QED
    BY <2>1 DEF TypeOK
<1>2. PaidOnce' /\ RefundedHadUsage' /\ OversoldHadUsage' /\ OnePlan'
  BY DEF PaidOnce, RefundedHadUsage, OversoldHadUsage, OnePlan
<1>3. Held' = Held
  BY DEF Held
<1>4. best' >= best /\ best' \in Nat /\ UNCHANGED <<given, used, oversold>>
  BY SkusAssumption DEF TypeOK
<1>5. Counted' /\ UsedIsHeld'
  BY <1>3, <1>4, HeldIsFinite, OversoldIsFinite DEF Counted, UsedIsHeld, TypeOK
<1> HIDE DEF Expire, Cancel, ChangePlan
<1> QED
  BY <1>1, <1>2, <1>5

\* The steps of a call that neither pay nor refund, and those of the wallet.
LEMMA CallInv ==
  ASSUME IInv, NEW s \in Sources, ConsumeStart(s) \/ ConsumeRead(s)
  PROVE  IInv'
<1> USE DEF ConsumeStart, ConsumeRead, Goto, IInv, subscription, allowances, wallet
<1>1. /\ pc' \in [Sources -> Stages]
      /\ \A t \in Sources : pc'[t] # pc[t] => t = s /\ pc'[t] \in {"read", "write", "credit"}
      /\ pc[s] \in {"idle", "read"} /\ usage[s] = None
  BY DEF TypeOK, PaidOnce, Stages
<1>2. \A t \in Sources : pc'[t] \in {"read", "write"} =>
        \/ t = s /\ seen'[t] = [sku |-> sku, included |-> included]
        \/ t # s /\ seen'[t] = seen[t] /\ pc'[t] = pc[t]
  BY DEF TypeOK
<1>3. TypeOK'
  <2>1. [sku |-> sku, included |-> included] \in Plans
    BY DEF TypeOK, Plans
  <2>2. \A t \in Sources : pc'[t] \in {"read", "write"} => seen'[t] \in Plans
    BY <1>2, <2>1 DEF TypeOK
  <2> QED
    BY <1>1, <2>2 DEF TypeOK
<1>4. PaidOnce' /\ RefundedHadUsage' /\ OversoldHadUsage'
  BY <1>1 DEF PaidOnce, RefundedHadUsage, OversoldHadUsage, TypeOK
<1>5. OnePlan'
  BY <1>2 DEF OnePlan
<1>6. Held' = Held
  BY DEF Held
<1>7. Counted' /\ UsedIsHeld'
  BY <1>6 DEF Counted, UsedIsHeld
<1> QED
  BY <1>3, <1>4, <1>5, <1>7

LEMMA WalletInv ==
  ASSUME IInv, GrantCredit \/ \E s \in Sources : ConsumeCredit(s) \/ RefundCredit(s)
  PROVE  IInv'
<1> USE DEF GrantCredit, ConsumeCredit, RefundCredit, Goto, IInv, subscription, allowances, wallet,
            Wallet!Charge, Wallet!Refund, Wallet!Paid, Wallet!Refunded, Wallet!Unpaid
<1>1. TypeOK'
  BY DEF TypeOK, Stages, Wallet!Charges
<1>2. PaidOnce' /\ RefundedHadUsage' /\ OversoldHadUsage' /\ OnePlan'
  BY DEF PaidOnce, RefundedHadUsage, OversoldHadUsage, OnePlan, TypeOK
<1>3. Held' = Held
  BY DEF Held
<1>4. Counted' /\ UsedIsHeld'
  BY <1>3 DEF Counted, UsedIsHeld
<1> QED
  BY <1>1, <1>2, <1>4

\* A unit that is taken is counted; it is only given while the counter is below
\* the allowance of some plan.
LEMMA ConsumeWriteInv ==
  ASSUME IInv, NEW s \in Sources, ConsumeWrite(s)
  PROVE  IInv'
<1> USE DEF ConsumeWrite, AfterExhausted, MayTake, Goto, IInv, wallet, allowances
<1>1. /\ seen[s].sku \in Skus /\ seen[s].included \in Nat
      /\ usage[s] = None /\ s \notin refunds
  BY SkusAssumption DEF TypeOK, PaidOnce, RefundedHadUsage, Plans
<1>2. TypeOK'
  BY <1>1 DEF TypeOK, Stages
<1>3. PaidOnce' /\ RefundedHadUsage' /\ OversoldHadUsage' /\ OnePlan'
  BY <1>1, NoneAssumption, SkusAssumption
     DEF PaidOnce, RefundedHadUsage, OversoldHadUsage, OnePlan, TypeOK, wallet
<1>4. CASE MayTake(s)
  <2>1. Held' = Held \cup {s} /\ s \notin Held
    BY <1>1, <1>4, NoneAssumption DEF Held, TypeOK
  <2>2. Cardinality(Held') = Cardinality(Held) + 1
    BY <2>1, HeldIsFinite, FS_AddElement
  <2>3. UsedIsHeld'
    BY <1>4, <2>2, HeldIsFinite DEF UsedIsHeld, TypeOK
  <2>4. used' = used + 1 /\ given' = given /\ best' = best
        /\ {used, given, best} \subseteq Nat
    BY <1>4 DEF TypeOK
  <2>5. CASE Outsized(s) /\ used >= best
    <3>1. oversold' = oversold \cup {s} /\ s \notin oversold
      BY <1>4, <2>5 DEF OversoldHadUsage
    <3>2. Cardinality(oversold') = Cardinality(oversold) + 1
      BY <3>1, OversoldIsFinite, FS_AddElement DEF TypeOK
    <3>3. Cardinality(Held') <= given' + used' + Cardinality(oversold')
          /\ Cardinality(Held') <= given' + best' + Cardinality(oversold')
      BY <2>2, <2>4, <3>2, HeldIsFinite, OversoldIsFinite DEF Counted, TypeOK
    <3> QED
      BY <1>2, <1>3, <2>3, <3>3 DEF Counted
  <2>6. CASE ~(Outsized(s) /\ used >= best)
    <3>1. oversold' = oversold
      BY <1>4, <2>6
    <3>2. used + 1 <= best
      BY <1>1, <1>4, <2>4, <2>6 DEF Outsized
    <3>3. Cardinality(Held') <= given' + used' + Cardinality(oversold')
          /\ Cardinality(Held') <= given' + best' + Cardinality(oversold')
      BY <2>2, <2>4, <3>1, <3>2, HeldIsFinite, OversoldIsFinite DEF Counted, TypeOK
    <3> QED
      BY <1>2, <1>3, <2>3, <3>3 DEF Counted
  <2> QED
    BY <2>5, <2>6
<1>5. CASE ~MayTake(s)
  <2>1. Held' = Held
    BY <1>5 DEF Held
  <2>2. Counted' /\ UsedIsHeld'
    BY <1>5, <2>1 DEF Counted, UsedIsHeld
  <2> QED
    BY <1>2, <1>3, <2>2
<1> QED
  BY <1>4, <1>5

LEMMA RefundUsageInv ==
  ASSUME IInv, NEW s \in Sources, RefundUsage(s)
  PROVE  IInv'
<1> USE DEF RefundUsage, Refundable, IInv, wallet, allowances
<1>1. usage[s] # None /\ used' \in {used, used - 1} \cap Nat
  BY DEF Decremented, PaidOnce, TypeOK
<1>2. TypeOK'
  BY <1>1 DEF TypeOK
<1>3. PaidOnce' /\ RefundedHadUsage' /\ OversoldHadUsage' /\ OnePlan'
  BY DEF PaidOnce, RefundedHadUsage, OversoldHadUsage, OnePlan, wallet
<1>4. Held' = Held \ {s} /\ s \in Held
  BY <1>1 DEF Held
<1>5. Cardinality(Held') = Cardinality(Held) - 1 /\ Cardinality(Held') \in Nat
  BY <1>4, HeldIsFinite, FS_RemoveElement, FS_CardinalityType
<1>6. Counted'
  <2>1. {used, given, best} \subseteq Nat /\ used' \in {used, used - 1}
    BY <1>1 DEF TypeOK
  <2> QED
    BY <1>5, <2>1, HeldIsFinite, OversoldIsFinite DEF Counted, TypeOK
<1>7. UsedIsHeld'
  <2>1. SUFFICES ASSUME ~moved PROVE used' <= Cardinality(Held')
    BY DEF UsedIsHeld
  <2>2. used' = IF used > 0 THEN used - 1 ELSE used
    BY <1>1, <2>1 DEF Decremented, OnePlan
  <2> QED
    BY <1>5, <2>1, <2>2, HeldIsFinite DEF UsedIsHeld, TypeOK
<1> QED
  BY <1>2, <1>3, <1>6, <1>7

LEMMA StutterInv == ASSUME IInv, UNCHANGED vars PROVE IInv'
<1>1. UNCHANGED <<usage, refunds, granted, charge, pc, seen, sku, included, access,
                  expired, period, used, moved, best, given, oversold>>
  BY DEF vars, subscription, allowances, wallet
<1>2. Held' = Held
  BY <1>1 DEF Held
<1> QED
  BY <1>1, <1>2 DEF IInv, TypeOK, PaidOnce, RefundedHadUsage, OversoldHadUsage, Counted,
                     OnePlan, UsedIsHeld

LEMMA NextInv == IInv /\ [Next]_vars => IInv'
<1> SUFFICES ASSUME IInv, [Next]_vars PROVE IInv'
  OBVIOUS
<1> QED
  BY RenewInv, SubscriptionInv, CallInv, WalletInv, ConsumeWriteInv, RefundUsageInv,
     StutterInv DEF Next

LEMMA Invariant == Spec => []IInv
BY InitInv, NextInv, PTL DEF Spec

-----------------------------------------------------------------------------
\* usedQuantity is never negative and every call works with a plan's allowance,
\* whatever changed since it read it.
THEOREM TypeCorrect == Spec => []TypeOK
BY Invariant, PTL DEF IInv

\* The guarded increment, and refunds of any period, keep what an organisation
\* holds within what the best plan of each period gave; only calls that carried a
\* larger allowance over from an earlier period exceed it, by one unit each.
THEOREM AlwaysNeverOversold == Spec => []NeverOversold
<1>1. IInv => NeverOversold
  BY DEF IInv, Counted, NeverOversold
<1> QED
  BY <1>1, Invariant, PTL

\* While the plan stays, a refund frees the unit it is for.
THEOREM UsedIsAlwaysHeld == Spec => []UsedIsHeld
BY Invariant, PTL DEF IInv

\* The allowance and the wallet never both pay for a source, and no source is
\* let through on neither.
THEOREM AlwaysPaidOnce == Spec => []PaidOnce
BY Invariant, PTL DEF IInv
=============================================================================
