---------------------------- MODULE CreditWallet ----------------------------
(***************************************************************************)
(* BillingCreditsService (apps/api/src/billing/billing-credits.service.ts) *)
(* for one organisation and one product: grant, tryConsumeForProduct and   *)
(* refundForProduct, called concurrently by Workers over one database.     *)
(*                                                                         *)
(* A step of the model is one database call or one transaction: what a     *)
(* call read before an await may be stale when it writes.  A transaction   *)
(* that breaks a unique key is rolled back whole and the service swallows  *)
(* the error.  The process may die between any two steps (Crash).          *)
(*                                                                         *)
(* Abstracted: the notes, admin ids and timestamps of events, the format   *)
(* of the returned summary, and the order (createdAt) in which a consume   *)
(* tries the balances it listed: any order is allowed.                     *)
(***************************************************************************)
EXTENDS Integers, FiniteSets

CONSTANTS Balances,  \* the possible balance rows: one per skuKey of the product
                     \* and one with a null skuKey (unique index)
          Grants,    \* grant requests: [balance, quantity, note] is also what
                     \* the default idempotency key of a grant is made of
          Sources,   \* sourceResourceIds that pay for themselves with a credit
          Workers,   \* concurrent calls of the service
          None

ASSUME BalancesAssumption == IsFiniteSet(Balances)
ASSUME SourcesAssumption == IsFiniteSet(Sources)
ASSUME GrantsAssumption ==
  \A g \in Grants : g.balance \in Balances /\ g.quantity \in Nat \ {0}
ASSUME NoneAssumption == None \notin Balances \cup Sources \cup Grants

VARIABLES
  rows,           \* balance rows that exist
  balance,        \* BillingCreditBalance.balance of each row
  totalGranted,   \* ... .totalGranted
  totalConsumed,  \* ... .totalConsumed
  totalRefunded,  \* ... .totalRefunded
  grantEvents,    \* BillingCreditEvent rows of type "grant"
  consumeEvents,  \* ... of type "consume": [source, balance]
  refundEvents,   \* ... of type "refund": [source, balance]
  pc,             \* where each worker stands
  grantOf,        \* the grant a worker performs
  sourceOf,       \* the source a worker charges or refunds
  todo,           \* balances a consume listed and has not tried yet
  outcome         \* what the worker's last tryConsumeForProduct returned

store == <<rows, balance, totalGranted, totalConsumed, totalRefunded,
           grantEvents, consumeEvents, refundEvents>>
local == <<pc, grantOf, sourceOf, todo, outcome>>
vars  == <<store, local>>

Stages   == {"idle", "grant_create", "grant_write", "consume_list",
             "consume_try", "refund_write"}
Outcomes == {"none", "consumed", "not_configured", "exhausted"}
SourceEvent == [source : Sources, balance : Balances]

Init ==
  /\ rows = {}
  /\ balance = [b \in Balances |-> 0]
  /\ totalGranted = [b \in Balances |-> 0]
  /\ totalConsumed = [b \in Balances |-> 0]
  /\ totalRefunded = [b \in Balances |-> 0]
  /\ grantEvents = {} /\ consumeEvents = {} /\ refundEvents = {}
  /\ pc = [w \in Workers |-> "idle"]
  /\ grantOf = [w \in Workers |-> None]
  /\ sourceOf = [w \in Workers |-> None]
  /\ todo = [w \in Workers |-> {}]
  /\ outcome = [w \in Workers |-> "none"]

\* The key left out: every call writes an event of its own.
HasConsumed_Unkeyed(s) == FALSE
\* A refund key that varies, with the reason for instance.
HasRefunded_VaryingKey(s) == FALSE
\* The conditional decrement without its condition.
CanTake_Unconditional(b) == TRUE

\* The consume key (organisation, product, source) and the refund key of the
\* same three: neither names the balance.
HasConsumed(s) == \E e \in consumeEvents : e.source = s
HasRefunded(s) == \E e \in refundEvents : e.source = s

\* The condition of the decrement.
CanTake(b) == balance[b] > 0

-----------------------------------------------------------------------------
(* grant *)

\* findOrCreateBalance: the lookup.
GrantFind(w, g) ==
  /\ pc[w] = "idle"
  /\ pc' = [pc EXCEPT ![w] = IF g.balance \in rows THEN "grant_write"
                                                  ELSE "grant_create"]
  /\ grantOf' = [grantOf EXCEPT ![w] = g]
  /\ outcome' = [outcome EXCEPT ![w] = "none"]
  /\ UNCHANGED <<store, sourceOf, todo>>

\* findOrCreateBalance: the insert; a lost race on the unique index re-reads
\* the row the other call inserted.
GrantCreate(w) ==
  /\ pc[w] = "grant_create"
  /\ rows' = rows \cup {grantOf[w].balance}
  /\ pc' = [pc EXCEPT ![w] = "grant_write"]
  /\ UNCHANGED <<balance, totalGranted, totalConsumed, totalRefunded,
                 grantEvents, consumeEvents, refundEvents,
                 grantOf, sourceOf, todo, outcome>>

\* The transaction: a repeated key rolls it back.
GrantWrite(w) ==
  LET g == grantOf[w]
      b == g.balance IN
  /\ pc[w] = "grant_write"
  /\ \/ /\ g \in grantEvents
        /\ UNCHANGED <<grantEvents, balance, totalGranted>>
     \/ /\ g \notin grantEvents
        /\ grantEvents' = grantEvents \cup {g}
        /\ balance' = [balance EXCEPT ![b] = @ + g.quantity]
        /\ totalGranted' = [totalGranted EXCEPT ![b] = @ + g.quantity]
  /\ pc' = [pc EXCEPT ![w] = "idle"]
  /\ UNCHANGED <<rows, totalConsumed, totalRefunded, consumeEvents,
                 refundEvents, grantOf, sourceOf, todo, outcome>>

-----------------------------------------------------------------------------
(* tryConsumeForProduct *)

\* A worker's call returns o.
Return(w, o) ==
  /\ pc' = [pc EXCEPT ![w] = "idle"]
  /\ outcome' = [outcome EXCEPT ![w] = o]

\* The lookup of an earlier consumption by this source.
ConsumeCheck(w, s) ==
  /\ pc[w] = "idle"
  /\ sourceOf' = [sourceOf EXCEPT ![w] = s]
  /\ \/ /\ HasConsumed(s)
        /\ Return(w, "consumed")
     \/ /\ ~HasConsumed(s)
        /\ pc' = [pc EXCEPT ![w] = "consume_list"]
        /\ outcome' = [outcome EXCEPT ![w] = "none"]
  /\ UNCHANGED <<store, grantOf, todo>>

\* findMany over the balances, then the filter on balance > 0.
ConsumeList(w) ==
  LET available == {b \in rows : CanTake(b)} IN
  /\ pc[w] = "consume_list"
  /\ \/ /\ rows = {}
        /\ Return(w, "not_configured")
        /\ UNCHANGED todo
     \/ /\ rows # {} /\ available = {}
        /\ Return(w, "exhausted")
        /\ UNCHANGED todo
     \/ /\ available # {}
        /\ todo' = [todo EXCEPT ![w] = available]
        /\ pc' = [pc EXCEPT ![w] = "consume_try"]
        /\ UNCHANGED outcome
  /\ UNCHANGED <<store, grantOf, sourceOf>>

\* The transaction on balance b found it drained meanwhile: the loop goes on.
ConsumeDrained(w, b) ==
  /\ pc[w] = "consume_try"
  /\ b \in todo[w]
  /\ ~CanTake(b)
  /\ todo' = [todo EXCEPT ![w] = @ \ {b}]
  /\ IF todo[w] = {b} THEN Return(w, "exhausted")
                      ELSE UNCHANGED <<pc, outcome>>
  /\ UNCHANGED <<store, grantOf, sourceOf>>

\* The transaction on balance b: take a credit and record it, or be rolled
\* back because the source was charged meanwhile.
ConsumeWrite(w, b) ==
  LET s == sourceOf[w] IN
  /\ pc[w] = "consume_try"
  /\ b \in todo[w]
  /\ CanTake(b)
  /\ \/ /\ HasConsumed(s)
        /\ UNCHANGED <<consumeEvents, balance, totalConsumed>>
     \/ /\ ~HasConsumed(s)
        /\ consumeEvents' = consumeEvents \cup {[source |-> s, balance |-> b]}
        /\ balance' = [balance EXCEPT ![b] = @ - 1]
        /\ totalConsumed' = [totalConsumed EXCEPT ![b] = @ + 1]
  /\ Return(w, "consumed")
  /\ todo' = [todo EXCEPT ![w] = {}]
  /\ UNCHANGED <<rows, totalGranted, totalRefunded, grantEvents,
                 refundEvents, grantOf, sourceOf>>

-----------------------------------------------------------------------------
(* refundForProduct *)

\* The lookup of the consumption to refund: without one the call returns.
RefundFind(w, s) ==
  /\ pc[w] = "idle"
  /\ HasConsumed(s)
  /\ sourceOf' = [sourceOf EXCEPT ![w] = s]
  /\ pc' = [pc EXCEPT ![w] = "refund_write"]
  /\ outcome' = [outcome EXCEPT ![w] = "none"]
  /\ UNCHANGED <<store, grantOf, todo>>

\* The transaction: a repeated refund key rolls it back.
RefundWrite(w) ==
  LET s == sourceOf[w] IN
  /\ pc[w] = "refund_write"
  /\ \/ /\ HasRefunded(s)
        /\ UNCHANGED <<refundEvents, balance, totalRefunded, totalConsumed>>
     \/ /\ ~HasRefunded(s)
        /\ \E e \in consumeEvents :
             /\ e.source = s
             /\ refundEvents' = refundEvents \cup {e}
             /\ balance' = [balance EXCEPT ![e.balance] = @ + 1]
             /\ totalRefunded' = [totalRefunded EXCEPT ![e.balance] = @ + 1]
             /\ totalConsumed' = [totalConsumed EXCEPT ![e.balance] = @ - 1]
  /\ pc' = [pc EXCEPT ![w] = "idle"]
  /\ UNCHANGED <<rows, totalGranted, grantEvents, consumeEvents,
                 grantOf, sourceOf, todo, outcome>>

-----------------------------------------------------------------------------
\* The API process dies in the middle of a call: only the database survives.
Crash(w) ==
  /\ pc[w] # "idle"
  /\ pc' = [pc EXCEPT ![w] = "idle"]
  /\ todo' = [todo EXCEPT ![w] = {}]
  /\ UNCHANGED <<store, grantOf, sourceOf, outcome>>

Next ==
  \E w \in Workers :
    \/ \E g \in Grants : GrantFind(w, g)
    \/ GrantCreate(w)
    \/ GrantWrite(w)
    \/ \E s \in Sources : ConsumeCheck(w, s) \/ RefundFind(w, s)
    \/ ConsumeList(w)
    \/ \E b \in Balances : ConsumeDrained(w, b) \/ ConsumeWrite(w, b)
    \/ RefundWrite(w)
    \/ Crash(w)

Spec == Init /\ [][Next]_vars

-----------------------------------------------------------------------------
(* Properties *)

TypeOK ==
  /\ rows \subseteq Balances
  /\ balance \in [Balances -> Nat]
  /\ totalGranted \in [Balances -> Nat]
  /\ totalConsumed \in [Balances -> Nat]
  /\ totalRefunded \in [Balances -> Nat]
  /\ grantEvents \subseteq Grants
  /\ consumeEvents \subseteq SourceEvent
  /\ refundEvents \subseteq SourceEvent
  /\ pc \in [Workers -> Stages]
  /\ grantOf \in [Workers -> Grants \cup {None}]
  /\ sourceOf \in [Workers -> Sources \cup {None}]
  /\ todo \in [Workers -> SUBSET Balances]
  /\ outcome \in [Workers -> Outcomes]

\* The sources that hold a credit of b: charged to it and not refunded.
Holders(b) == {s \in Sources : /\ [source |-> s, balance |-> b] \in consumeEvents
                               /\ [source |-> s, balance |-> b] \notin refundEvents}

\* The refunds made to b.
RefundedTo(b) == {e \in refundEvents : e.balance = b}

\* The counters of a balance row agree with the event ledger whatever calls
\* interleave, repeat or die: what is left is what was granted minus the
\* credits that charged and never refunded sources hold.
CountersMatchLedger ==
  \A b \in Balances :
    /\ totalConsumed[b] = Cardinality(Holders(b))
    /\ totalRefunded[b] = Cardinality(RefundedTo(b))
    /\ balance[b] = totalGranted[b] - totalConsumed[b]

\* A source pays at most one credit, from one balance, and only a credit it
\* paid is given back, to the balance it came from.
ChargedAtMostOnce ==
  /\ \A e, f \in consumeEvents : e.source = f.source => e = f
  /\ refundEvents \subseteq consumeEvents

\* A call that told its caller "consumed" left a charge on the books for its
\* source: no run is let through without having been paid for.
ConsumedIsCharged ==
  \A w \in Workers : outcome[w] = "consumed" =>
                        \E e \in consumeEvents : e.source = sourceOf[w]


ChargeOf(s) ==
  LET on == {e.balance : e \in {f \in consumeEvents : f.source = s}}
      b  == CHOOSE x \in on : TRUE
  IN IF on = {} THEN [state |-> "unpaid"]
     ELSE IF HasRefunded(s) THEN [state |-> "refunded", balance |-> b]
     ELSE [state |-> "paid", balance |-> b]

\* The wallet implements the abstract ledger: granted is totalGranted, and the
\* charge of a source is read off the consume and refund events.
Ledger == INSTANCE CreditLedger
            WITH granted <- totalGranted,
                 charge  <- [s \in Sources |-> ChargeOf(s)]

ImplementsLedger == Ledger!LedgerSpec
=============================================================================
