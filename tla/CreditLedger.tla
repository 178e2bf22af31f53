---------------------------- MODULE CreditLedger ----------------------------
(***************************************************************************)
(* What the manual-credit wallet of an organisation promises for one       *)
(* product, with no counters, events, retries or races: credits are        *)
(* granted to balances, a source (a pentest run, a background-checked      *)
(* member) pays at most one credit, from one balance that could afford it, *)
(* and gets that same credit back at most once.                            *)
(*                                                                         *)
(* CreditWallet, the model of billing-credits.service.ts, is shown to      *)
(* implement this specification.                                           *)
(***************************************************************************)
EXTENDS Integers, FiniteSets

CONSTANTS Balances,   \* the balance rows of the product
          Sources     \* the resources that may be charged

VARIABLES granted,    \* credits ever granted to each balance
          charge      \* what each source has paid

lvars == <<granted, charge>>

Unpaid      == [state |-> "unpaid"]
Paid(b)     == [state |-> "paid", balance |-> b]
Refunded(b) == [state |-> "refunded", balance |-> b]

Charges == {Unpaid} \cup {Paid(b) : b \in Balances}
                    \cup {Refunded(b) : b \in Balances}

\* Credits of b that no source holds.
Spendable(b) ==
  granted[b] - Cardinality({s \in Sources : charge[s] = Paid(b)})

LedgerInit ==
  /\ granted = [b \in Balances |-> 0]
  /\ charge = [s \in Sources |-> Unpaid]

Grant(b) ==
  /\ granted' = [granted EXCEPT ![b] = granted'[b]]
  /\ granted'[b] > granted[b]
  /\ UNCHANGED charge

Charge(s, b) ==
  /\ charge[s] = Unpaid
  /\ Spendable(b) > 0
  /\ charge' = [charge EXCEPT ![s] = Paid(b)]
  /\ UNCHANGED granted

Refund(s, b) ==
  /\ charge[s] = Paid(b)
  /\ charge' = [charge EXCEPT ![s] = Refunded(b)]
  /\ UNCHANGED granted

LedgerNext ==
  \E b \in Balances :
    \/ Grant(b)
    \/ \E s \in Sources : Charge(s, b) \/ Refund(s, b)

LedgerSpec == LedgerInit /\ [][LedgerNext]_lvars
=============================================================================
