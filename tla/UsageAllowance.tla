--------------------------- MODULE UsageAllowance ---------------------------
(***************************************************************************)
(* Paying with a subscription's included usage                             *)
(* (BillingEntitlementsService.tryConsumeIncludedUsageForProduct and       *)
(* refundIncludedUsageForProduct): a source takes a unit of the current    *)
(* period's allowance or, when there is none, a manual credit.             *)
(*                                                                         *)
(* A consume reads the subscription twice and writes in a transaction that *)
(* is only guarded by what it read, while the subscription is renewed,     *)
(* cancelled, moved to another plan or simply runs out (SubscriptionSync   *)
(* models how; here each is one step), and while other sources consume and *)
(* refund.  Credits are those of CreditLedger, which CreditWallet          *)
(* implements.                                                             *)
(*                                                                         *)
(* Every source is one call: callers make a fresh id per call (pentests)   *)
(* or guard the call by a unique record (background checks), so the        *)
(* lookups of an earlier consumption by the same source find nothing.      *)
(* They refund only a source they were told is paid for, any number of     *)
(* times; a repeated refund breaks its unique key and changes nothing.     *)
(***************************************************************************)
EXTENDS Integers, FiniteSets

CONSTANTS Skus, Included,  \* as in SubscriptionSync
          Sources,
          Manual,          \* the one balance of manual credits
          MaxPeriod,       \* bound: billing periods
          MaxGranted,      \* bound: credits granted
          None

ASSUME SkusAssumption == Included \in [Skus -> Nat]
ASSUME SourcesAssumption == IsFiniteSet(Sources)
ASSUME BoundsAssumption ==
  MaxPeriod \in Nat \ {0} /\ MaxGranted \in Nat
ASSUME NoneAssumption == None \notin Skus

VARIABLES
  sku,       \* OrganizationBillingSubscription: skuKey,
  included,  \* includedQuantity,
  access,    \* stripeStatus is active or trialing,
  expired,   \* currentPeriodEnd has passed,
  period,    \* the number of its billing period,
  used,      \* usedQuantity
  moved,     \* history: the plan has been changed,
  best,      \* history: the largest allowance in force in this period,
  given,     \* history: the sum of best over the earlier periods,
  oversold,  \* history: sources that took a unit beyond best
  usage,     \* the SKU of each source's consume event
  refunds,   \* sources with a refund event
  granted,   \* CreditLedger: credits granted
  charge,    \* CreditLedger: what each source has paid
  pc,        \* where each source's consume call stands
  seen       \* the SKU and allowance it read

subscription == <<sku, included, access, expired, period, used, moved>>
allowances   == <<best, given>>
wallet       == <<granted, charge>>
vars == <<subscription, allowances, oversold, usage, refunds, wallet, pc, seen>>

Wallet == INSTANCE CreditLedger WITH Balances <- {Manual}

Init ==
  /\ sku \in Skus /\ included = Included[sku]
  /\ access = TRUE /\ expired = FALSE /\ period = 1 /\ used = 0
  /\ moved = FALSE /\ best = included /\ given = 0 /\ oversold = {}
  /\ usage = [s \in Sources |-> None]
  /\ refunds = {}
  /\ Wallet!LedgerInit
  /\ pc = [s \in Sources |-> "idle"]
  /\ seen = [s \in Sources |-> None]

Goto(s, stage) == pc' = [pc EXCEPT ![s] = stage]

-----------------------------------------------------------------------------
(* The subscription *)

\* A new period is synced, which also ends a lapse or a cancellation.
Renew ==
  /\ period < MaxPeriod
  /\ period' = period + 1 /\ used' = 0
  /\ access' = TRUE /\ expired' = FALSE
  /\ given' = given + best /\ best' = included
  /\ UNCHANGED <<sku, included, moved, oversold, usage, refunds, wallet, pc, seen>>

\* The period ends and its renewal has not been synced.
Expire ==
  /\ ~expired
  /\ expired' = TRUE
  /\ UNCHANGED <<sku, included, access, period, used, moved, allowances, oversold, usage, refunds,
                 wallet, pc, seen>>

Cancel ==
  /\ access
  /\ access' = FALSE
  /\ UNCHANGED <<sku, included, expired, period, used, moved, allowances, oversold, usage, refunds,
                 wallet, pc, seen>>

\* changeSubscriptionPlan keeps the usage.
ChangePlan(k) ==
  /\ access /\ sku # k
  /\ sku' = k /\ included' = Included[k] /\ moved' = TRUE
  /\ best' = IF Included[k] > best THEN Included[k] ELSE best
  /\ UNCHANGED <<access, expired, period, used, given, oversold, usage, refunds, wallet, pc, seen>>

GrantCredit ==
  /\ granted[Manual] < MaxGranted
  /\ granted' = [granted EXCEPT ![Manual] = @ + 1]
  /\ UNCHANGED <<charge, subscription, allowances, oversold, usage, refunds, pc, seen>>

-----------------------------------------------------------------------------
(* tryConsumeIncludedUsageForProduct *)

\* The first read: is there an unexpired subscription with usage left?
ConsumeStart(s) ==
  /\ pc[s] = "idle"
  /\ IF access /\ ~expired /\ used < included
     THEN Goto(s, "read") /\ seen' = [seen EXCEPT ![s] = [sku |-> sku, included |-> included]]
     ELSE Goto(s, "credit") /\ UNCHANGED seen
  /\ UNCHANGED <<subscription, allowances, oversold, usage, refunds, wallet>>

\* tryConsumeIncludedUsage reads the row again, by SKU: a plan change renames it.
ConsumeRead(s) ==
  /\ pc[s] = "read"
  /\ IF sku = seen[s].sku /\ access /\ ~expired /\ used < included
     THEN Goto(s, "write") /\ seen' = [seen EXCEPT ![s] = [sku |-> sku, included |-> included]]
     ELSE Goto(s, "credit") /\ UNCHANGED seen
  /\ UNCHANGED <<subscription, allowances, oversold, usage, refunds, wallet>>

\* The increment without its condition.
MayTake_Unguarded(s) == TRUE
\* The condition of the increment, with the allowance as it was read.
MayTake(s) == used < seen[s].included

\* The allowance it read is larger than any that was in force in this period.
Outsized(s) == seen[s].included > best

\* The event stays when the increment fails.
AfterExhausted_Kept(s) == [usage EXCEPT ![s] = seen[s].sku]
\* The exhausted transaction is rolled back.
AfterExhausted(s) == usage

\* The transaction.  Its update is by id: what happened to the plan, the
\* status or the period since the read does not matter to it.
ConsumeWrite(s) ==
  /\ pc[s] = "write"
  /\ \/ /\ MayTake(s)
        /\ usage' = [usage EXCEPT ![s] = seen[s].sku]
        /\ used' = used + 1
        /\ oversold' = IF Outsized(s) /\ used >= best THEN oversold \cup {s} ELSE oversold
        /\ Goto(s, "allowance")
     \/ /\ ~MayTake(s)
        /\ usage' = AfterExhausted(s)
        /\ Goto(s, "credit")
        /\ UNCHANGED <<used, oversold>>
  /\ UNCHANGED <<sku, included, access, expired, period, moved, allowances, refunds, wallet, seen>>

\* tryConsumeCreditFallback.
ConsumeCredit(s) ==
  /\ pc[s] = "credit"
  /\ \/ /\ Wallet!Charge(s, Manual)
        /\ Goto(s, "credited")
     \/ /\ Wallet!Spendable(Manual) = 0
        /\ Goto(s, "refused")
        /\ UNCHANGED wallet
  /\ UNCHANGED <<subscription, allowances, oversold, usage, refunds, seen>>

-----------------------------------------------------------------------------
(* refundIncludedUsageForProduct *)

\* A refund event with no unique key.
Refundable_Unkeyed(s) == TRUE
Refundable(s) == s \notin refunds

\* The decrement left out.
Decremented_Never(k) == used
\* The decrement without its guard.
Decremented_Unguarded(k) == IF sku = k THEN used - 1 ELSE used
\* The decrement of the row of the SKU that was charged, if there is one, and
\* if it has usage, whatever its period.
Decremented(k) == IF sku = k /\ used > 0 THEN used - 1 ELSE used

RefundUsage(s) ==
  /\ pc[s] = "allowance"
  /\ Refundable(s)
  /\ refunds' = refunds \cup {s}
  /\ used' = Decremented(usage[s])
  /\ UNCHANGED <<sku, included, access, expired, period, moved, allowances, oversold, usage,
                 wallet, pc, seen>>

\* Without a consume event the wallet is asked.
RefundCredit(s) ==
  /\ pc[s] = "credited"
  /\ Wallet!Refund(s, Manual)
  /\ UNCHANGED <<subscription, allowances, oversold, usage, refunds, pc, seen>>

-----------------------------------------------------------------------------
Next ==
  \/ Renew \/ Expire \/ Cancel \/ GrantCredit
  \/ \E k \in Skus : ChangePlan(k)
  \/ \E s \in Sources :
       \/ ConsumeStart(s) \/ ConsumeRead(s) \/ ConsumeWrite(s) \/ ConsumeCredit(s)
       \/ RefundUsage(s) \/ RefundCredit(s)

Spec == Init /\ [][Next]_vars

-----------------------------------------------------------------------------
(* Properties *)

Plans  == {[sku |-> k, included |-> Included[k]] : k \in Skus}
Stages == {"idle", "read", "write", "credit", "allowance", "credited", "refused"}

TypeOK ==
  /\ sku \in Skus /\ included = Included[sku]
  /\ access \in BOOLEAN /\ expired \in BOOLEAN
  /\ period \in 1..MaxPeriod
  /\ used \in Nat
  /\ moved \in BOOLEAN
  /\ best \in Nat /\ given \in Nat /\ oversold \subseteq Sources
  /\ usage \in [Sources -> Skus \cup {None}]
  /\ refunds \subseteq Sources
  /\ granted \in [{Manual} -> Nat]
  /\ charge \in [Sources -> Wallet!Charges]
  /\ pc \in [Sources -> Stages]
  /\ seen \in [Sources -> Plans \cup {None}]
  /\ \A s \in Sources : pc[s] \in {"read", "write"} => seen[s] \in Plans

\* The sources that hold a unit of included usage.
Held == {s \in Sources : usage[s] # None /\ s \notin refunds}

\* Whatever is read before it changes, whichever periods consumes and refunds
\* fall in, and however often the plan changes, the organisation holds no more
\* included usage than the best plan of each period gave it, but for one unit of
\* each call that read a larger allowance in an earlier period, found it in the
\* bound of its increment and took a unit which no plan of its period gave.
NeverOversold == Cardinality(Held) <= given + best + Cardinality(oversold)

\* While it keeps its plan, an organisation is never counted as having used
\* more than sources hold: what is refunded can be used again.
UsedIsHeld == ~moved => used <= Cardinality(Held)

\* A source that is let through has paid with exactly one of included usage
\* and a credit; one that is refused has paid with neither.
PaidOnce ==
  \A s \in Sources :
    /\ usage[s] # None <=> pc[s] = "allowance"
    /\ charge[s] # Wallet!Unpaid <=> pc[s] = "credited"
=============================================================================
