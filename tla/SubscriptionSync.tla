-------------------------- MODULE SubscriptionSync --------------------------
(***************************************************************************)
(* The local copy of an organisation's Stripe subscriptions to one product *)
(* (table organization_billing_subscriptions) and everything that writes   *)
(* it: syncSubscriptionItem, called by the webhook handler for whatever    *)
(* snapshot it holds, changeSubscriptionPlan, and the admin cancel and     *)
(* resume.  Stripe is external: it changes subscription items on its own,  *)
(* and each change is a snapshot that may be delivered late, twice, out of *)
(* order or concurrently with others.                                      *)
(*                                                                         *)
(* A step is one database call, one statement of the sync transaction      *)
(* (READ COMMITTED: the read and the guarded write may be interleaved) or  *)
(* one Stripe call.                                                        *)
(*                                                                         *)
(* Abstracted: a period is the tick at which it starts; "canceled" stands  *)
(* for every status that gives no access; a plan that includes more costs  *)
(* more; price ids, cancellation flags, audit events, subscription ids     *)
(* (one item per subscription) and rows without a period (which an item of *)
(* Stripe always has) are left out.                                        *)
(***************************************************************************)
EXTENDS Integers

CONSTANTS Skus,         \* the plans of the product
          Included,     \* Included[k]: sku.includedUsage.quantity
          Trials,       \* the plans with trialDays
          Items,        \* Stripe subscription items
          Workers,      \* concurrent requests of the API
          MaxRows,      \* bound: local rows
          MaxTick,      \* bound: changes made at Stripe
          PlanChanges,  \* whether customers switch plans
          Crashes,      \* whether the API process may die
          None

ASSUME IncludedAssumption == Included \in [Skus -> Nat]
ASSUME TrialsAssumption == Trials \subseteq Skus
ASSUME BoundsAssumption ==
  MaxRows \in Nat /\ MaxTick \in Nat /\ PlanChanges \in BOOLEAN /\ Crashes \in BOOLEAN

RowIds == 1..MaxRows   \* in the order of createdAt
Ticks  == 1..MaxTick

Access   == {"active", "trialing"}   \* isAccessStatus
Statuses == Access \cup {"canceled"}
Version  == [item : Items, sku : Skus, status : Statuses, period : Ticks]
Row      == [item : Items, sku : Skus, status : Statuses, period : Ticks,
             included : Nat, used : Nat]
Session  == [sku : Skus, trial : BOOLEAN]   \* a Checkout session

ASSUME NoneAssumption == None \notin Int \cup Version \cup Row

VARIABLES
  rows,      \* the local rows
  resets,    \* how often each row got a fresh allowance for each period: its
             \* "grant" rows of billing_usage_events
  spent,     \* history: what each item has used in each period,
  displaced, \* history: items whose row a sync gave to another item, or which a
             \* plan change that was overtaken took away or took back a period
  stripe,    \* Stripe's own state of each item
  emitted,   \* every state an item has been in: what events can carry
  now,       \* number of changes made at Stripe so far
  sessions,  \* the checkout sessions that are open
  pc,        \* where each request stands
  seen,      \* the Stripe snapshot a request works with
  found,     \* the row it read
  read,      \* the currentPeriodStart it read
  tries      \* attempts of a sync so far

tables == <<rows, resets, spent, displaced>>
remote == <<stripe, emitted, now, sessions>>
local  == <<pc, seen, found, read, tries>>
vars   == <<tables, remote, local>>

Exists(id) == rows[id] # None
RowOf(k)   == {id \in RowIds : Exists(id) /\ rows[id].sku = k}

\* The two unique keys of the table, for a write of item i or plan k to id.
ItemTaken(i, id) == \E other \in RowIds \ {id} : Exists(other) /\ rows[other].item = i
SkuTaken(k, id)  == \E other \in RowIds \ {id} : Exists(other) /\ rows[other].sku = k

ActiveRows == {id \in RowIds : Exists(id) /\ rows[id].status \in Access}

Init ==
  /\ rows = [id \in RowIds |-> None]
  /\ resets = [x \in RowIds \X Ticks |-> 0]
  /\ spent = [x \in Items \X Ticks |-> 0] /\ displaced = {}
  /\ stripe = [i \in Items |-> None]
  /\ emitted = {} /\ now = 0 /\ sessions = {}
  /\ pc = [w \in Workers |-> "idle"]
  /\ seen = [w \in Workers |-> None]
  /\ found = [w \in Workers |-> None]
  /\ read = [w \in Workers |-> 0]
  /\ tries = [w \in Workers |-> 0]

Forget(w) ==
  /\ pc' = [pc EXCEPT ![w] = "idle"]
  /\ seen' = [seen EXCEPT ![w] = None]
  /\ found' = [found EXCEPT ![w] = None]
  /\ read' = [read EXCEPT ![w] = 0]
  /\ tries' = [tries EXCEPT ![w] = 0]

-----------------------------------------------------------------------------
(* Stripe, external *)

\* The item changes to v.
Change(v) ==
  /\ now < MaxTick
  /\ now' = now + 1
  /\ stripe' = [stripe EXCEPT ![v.item] = v]
  /\ emitted' = emitted \cup {v}

\* A checkout session is paid: a subscription starts.
StripeCheckout(i, session) ==
  /\ stripe[i] = None
  /\ Change([item |-> i, sku |-> session.sku,
             status |-> IF session.trial THEN "trialing" ELSE "active",
             period |-> now + 1])
  /\ sessions' = sessions \ {session}
  /\ UNCHANGED <<tables, local>>

Alive(i) == stripe[i] # None /\ stripe[i].status \in Access

\* A new period, also at the end of a trial.
StripeRenew(i) ==
  /\ Alive(i)
  /\ Change([stripe[i] EXCEPT !.status = "active", !.period = now + 1])
  /\ UNCHANGED <<tables, sessions, local>>

\* Cancelled in the portal, or unpaid.
StripeCancel(i) ==
  /\ Alive(i)
  /\ Change([stripe[i] EXCEPT !.status = "canceled"])
  /\ UNCHANGED <<tables, sessions, local>>

-----------------------------------------------------------------------------
(* syncSubscriptionItem *)

\* A sync that forgets to compare the periods.
ResetUsage_Always(period, v) == TRUE
\* resetUsage: the row is new or the period differs.
ResetUsage(period, v) == period # v.period

\* No guard: the last delivery wins.
Outdated_Never(id, v) == FALSE
\* The guard against snapshots of an earlier period.
Outdated(id, v) == rows[id].period > v.period

\* An update by id alone.
Unmoved_Unchecked(w, id) == TRUE
\* The compare-and-set condition of the update.
Unmoved(w, id) == rows[id].period = read[w]

\* One attempt more.
MayRetry_OffByOne(w) == tries[w] <= 2
\* The loop runs at most twice.
MayRetry(w) == tries[w] < 2

\* The first statement of the transaction, on a snapshot v the webhook handler
\* got from an event or retrieved from Stripe.
SyncRead(w, v) ==
  /\ seen' = [seen EXCEPT ![w] = v]
  /\ tries' = [tries EXCEPT ![w] = @ + 1]
  /\ \/ /\ RowOf(v.sku) = {}
        /\ found' = [found EXCEPT ![w] = None]
        /\ read' = [read EXCEPT ![w] = 0]
        /\ pc' = [pc EXCEPT ![w] = "sync_write"]
     \/ \E id \in RowOf(v.sku) :
          /\ found' = [found EXCEPT ![w] = id]
          /\ read' = [read EXCEPT ![w] = rows[id].period]
          /\ pc' = [pc EXCEPT ![w] = IF Outdated(id, v) THEN "returned"
                                                       ELSE "sync_write"]
  /\ UNCHANGED <<tables, remote>>

SyncStart(w) ==
  /\ pc[w] = "idle"
  /\ \E v \in emitted : SyncRead(w, v)

SyncRetry(w) ==
  /\ pc[w] = "sync_retry"
  /\ SyncRead(w, seen[w])

Returned(w) ==
  /\ pc' = [pc EXCEPT ![w] = "returned"]
  /\ UNCHANGED <<seen, found, read, tries>>

\* No row of the SKU was found: create it, unless a unique key is taken by
\* now, in which case the error is swallowed and nothing is written.
SyncCreate(w) ==
  LET v == seen[w] IN
  /\ pc[w] = "sync_write" /\ found[w] = None
  /\ \/ /\ RowOf(v.sku) # {} \/ ItemTaken(v.item, 0)
        /\ UNCHANGED tables
     \/ /\ RowOf(v.sku) = {} /\ ~ItemTaken(v.item, 0)
        /\ \E id \in RowIds :
             /\ ~Exists(id) /\ \A older \in 1..(id - 1) : Exists(older)
             /\ rows' = [rows EXCEPT ![id] =
                  [item |-> v.item, sku |-> v.sku, status |-> v.status,
                   period |-> v.period, included |-> Included[v.sku], used |-> 0]]
             /\ resets' = [resets EXCEPT ![<<id, v.period>>] = @ + 1]
             /\ UNCHANGED <<spent, displaced>>
  /\ Returned(w)
  /\ UNCHANGED remote

\* The guarded update of the row found: skipped, and tried once more, when
\* the period moved since the read; rolled back and given up when the item
\* belongs to another row.  skuKey is not written.
SyncUpdate(w) ==
  LET v == seen[w]
      id == found[w]
      reset == ResetUsage(read[w], v) IN
  /\ pc[w] = "sync_write" /\ id # None
  /\ \/ /\ ~Unmoved(w, id)
        /\ pc' = [pc EXCEPT ![w] = IF MayRetry(w) THEN "sync_retry" ELSE "returned"]
        /\ UNCHANGED <<tables, seen, found, read, tries>>
     \/ /\ Unmoved(w, id) /\ ItemTaken(v.item, id)
        /\ Returned(w)
        /\ UNCHANGED tables
     \/ /\ Unmoved(w, id) /\ ~ItemTaken(v.item, id)
        /\ rows' = [rows EXCEPT ![id] =
             [item |-> v.item, sku |-> @.sku, status |-> v.status,
              period |-> v.period, included |-> Included[v.sku],
              used |-> IF reset THEN 0 ELSE @.used]]
        /\ resets' = IF reset THEN [resets EXCEPT ![<<id, v.period>>] = @ + 1] ELSE resets
        /\ displaced' = displaced \cup ({rows[id].item} \ {v.item})
        /\ UNCHANGED spent
        /\ Returned(w)
  /\ UNCHANGED remote

\* The handler marks the event processed and answers Stripe.
Acknowledge(w) ==
  /\ pc[w] = "returned"
  /\ Forget(w)
  /\ UNCHANGED <<tables, remote>>

-----------------------------------------------------------------------------
(* createSubscriptionCheckoutSession and changeSubscriptionPlan *)

\* Without an active plan the customer is sent to a checkout session, with a
\* trial when the organisation never had this product.
OpenCheckout(k) ==
  /\ ActiveRows = {}
  /\ sessions' = sessions \cup
       {[sku |-> k, trial |-> k \in Trials /\ \A id \in RowIds : ~Exists(id)]}
  /\ UNCHANGED <<tables, stripe, emitted, now, local>>

isPlanUpgrade(j, k) == Included[k] > Included[j]

\* With one, the newest active row is the one whose plan changes to k.
PlanChangeRead(w, k) ==
  /\ PlanChanges
  /\ pc[w] = "idle"
  /\ \E id \in ActiveRows :
       /\ \A other \in ActiveRows : other <= id
       /\ rows[id].sku # k
       /\ found' = [found EXCEPT ![w] = id]
       /\ seen' = [seen EXCEPT ![w] = [stripe[rows[id].item] EXCEPT !.sku = k]]
       /\ pc' = [pc EXCEPT ![w] =
            IF isPlanUpgrade(rows[id].sku, k) /\ rows[id].status = "trialing"
            THEN "plan_end_trial" ELSE "plan_stripe"]
  /\ UNCHANGED <<tables, remote, read, tries>>

\* subscriptions.update: it fails when the subscription is gone, the prorated
\* charge is refused or Stripe cannot be reached.  The upgrade of a trial also
\* ends it (trial_end now), which starts a billing period.
PlanChangeStripe(w) ==
  LET i == seen[w].item
      ends == pc[w] = "plan_end_trial" /\ stripe[i].status = "trialing"
      v == [stripe[i] EXCEPT !.sku = seen[w].sku,
                             !.status = IF ends THEN "active" ELSE @,
                             !.period = IF ends THEN now + 1 ELSE @] IN
  /\ pc[w] \in {"plan_stripe", "plan_end_trial"}
  /\ \/ /\ Forget(w)
        /\ UNCHANGED <<tables, remote>>
     \/ /\ Alive(i)
        /\ Change(v)
        /\ seen' = [seen EXCEPT ![w] = v]
        /\ pc' = [pc EXCEPT ![w] = "plan_db"]
        /\ UNCHANGED <<tables, sessions, found, read, tries>>

\* The update of the row by id, with the period Stripe answered; a unique key
\* makes it throw, after Stripe has changed the plan.
PlanChangeDb(w) ==
  LET v == seen[w]
      id == found[w] IN
  /\ pc[w] = "plan_db"
  /\ \/ /\ SkuTaken(v.sku, id) \/ ItemTaken(v.item, id)
        /\ UNCHANGED <<rows, displaced>>
     \/ /\ ~SkuTaken(v.sku, id) /\ ~ItemTaken(v.item, id)
        /\ rows' = [rows EXCEPT ![id] =
             [item |-> v.item, sku |-> v.sku, status |-> v.status,
              period |-> v.period, included |-> Included[v.sku], used |-> @.used]]
        /\ displaced' = IF rows[id].item # v.item \/ rows[id].period > v.period
                        THEN displaced \cup {rows[id].item} ELSE displaced
  /\ Forget(w)
  /\ UNCHANGED <<resets, spent, remote>>

-----------------------------------------------------------------------------
(* AdminBillingActionsService: cancelSubscription, resumeSubscription *)

\* getScopedSubscription.
AdminRead(w, id) ==
  /\ pc[w] = "idle" /\ Exists(id)
  /\ found' = [found EXCEPT ![w] = id]
  /\ seen' = [seen EXCEPT ![w] = stripe[rows[id].item]]
  /\ pc' = [pc EXCEPT ![w] = "admin_stripe"]
  /\ UNCHANGED <<tables, remote, read, tries>>

\* An immediate cancellation, or an update of cancel_at_period_end that leaves
\* the status alone; both may fail, and do on a subscription that is gone.
AdminStripe(w) ==
  LET i == seen[w].item
      v == [stripe[i] EXCEPT !.status = "canceled"] IN
  /\ pc[w] = "admin_stripe"
  /\ \/ /\ Forget(w)
        /\ UNCHANGED <<tables, remote>>
     \/ /\ Alive(i)
        /\ \/ /\ Change(v)
              /\ seen' = [seen EXCEPT ![w] = v]
           \/ /\ UNCHANGED <<stripe, emitted, now>>
              /\ seen' = [seen EXCEPT ![w] = stripe[i]]
        /\ pc' = [pc EXCEPT ![w] = "admin_db"]
        /\ UNCHANGED <<tables, sessions, found, read, tries>>

\* updateMany by id: the status Stripe answered.
AdminDb(w) ==
  /\ pc[w] = "admin_db"
  /\ rows' = [rows EXCEPT ![found[w]].status = seen[w].status]
  /\ Forget(w)
  /\ UNCHANGED <<resets, spent, displaced, remote>>

-----------------------------------------------------------------------------
\* A use of the allowance (tryConsumeIncludedUsage, as its one guarded update).
Consume(id) ==
  /\ id \in ActiveRows /\ rows[id].used < rows[id].included
  /\ rows' = [rows EXCEPT ![id].used = @ + 1]
  /\ spent' = [spent EXCEPT ![<<rows[id].item, rows[id].period>>] = @ + 1]
  /\ UNCHANGED <<resets, displaced, remote, local>>

\* The API process dies in the middle of a request.
Crash(w) ==
  /\ Crashes
  /\ pc[w] # "idle"
  /\ Forget(w)
  /\ UNCHANGED <<tables, remote>>

Next ==
  \/ \E i \in Items :
       \/ \E session \in sessions : StripeCheckout(i, session)
       \/ StripeRenew(i)
       \/ StripeCancel(i)
  \/ \E k \in Skus : OpenCheckout(k)
  \/ \E id \in RowIds : Consume(id)
  \/ \E w \in Workers :
       \/ SyncStart(w) \/ SyncRetry(w) \/ SyncCreate(w) \/ SyncUpdate(w)
       \/ Acknowledge(w)
       \/ \E k \in Skus : PlanChangeRead(w, k)
       \/ PlanChangeStripe(w) \/ PlanChangeDb(w)
       \/ \E id \in RowIds : AdminRead(w, id)
       \/ AdminStripe(w) \/ AdminDb(w)
       \/ Crash(w)

Spec == Init /\ [][Next]_vars

-----------------------------------------------------------------------------
(* Properties *)

TypeOK ==
  /\ rows \in [RowIds -> Row \cup {None}]
  /\ resets \in [RowIds \X Ticks -> Nat]
  /\ spent \in [Items \X Ticks -> Nat] /\ displaced \subseteq Items
  /\ stripe \in [Items -> Version \cup {None}]
  /\ emitted \subseteq Version
  /\ now \in 0..MaxTick
  /\ sessions \subseteq Session
  /\ pc \in [Workers -> {"idle", "sync_write", "sync_retry", "returned",
                         "plan_stripe", "plan_end_trial", "plan_db",
                         "admin_stripe", "admin_db"}]
  /\ seen \in [Workers -> Version \cup {None}]
  /\ found \in [Workers -> RowIds \cup {None}]
  /\ read \in [Workers -> 0..MaxTick]
  /\ tries \in [Workers -> 0..2]
  /\ \A id, id2 \in RowIds : id # id2 /\ Exists(id) /\ Exists(id2) =>
       rows[id].sku # rows[id2].sku /\ rows[id].item # rows[id2].item

\* However events are delayed, repeated or raced, a row never falls back to an
\* earlier billing period.
PeriodNeverRewinds ==
  [][\A id \in RowIds :
       Exists(id) => rows'[id] # None /\ rows'[id].period >= rows[id].period]_vars

\* A row gets a fresh allowance at most once per billing period, however many
\* events announce the period and however they race: usage is never wiped in
\* the middle of a period.
UsageResetOncePerPeriod ==
  \A x \in RowIds \X Ticks : resets[x] <= 1

\* Through any sequence of syncs, plan changes and admin actions, the row of an
\* item counts all that the item ever used in the row's period: no reset, no new
\* row and no change of plan gives it that period's allowance again.  Only an
\* item whose row went to another item, or was written by a plan change that did
\* not see that it had moved on, may use a period twice.
ItemUsageKept ==
  \A id \in RowIds :
    Exists(id) /\ rows[id].item \notin displaced
      => rows[id].used >= spent[<<rows[id].item, rows[id].period>>]

\* An event that is acknowledged has had its effect: the row of its item, or
\* a row of its SKU, has reached the period the event announces.
AcknowledgedEventApplied ==
  \A w \in Workers :
    pc[w] = "returned" =>
      \E id \in RowIds :
        /\ Exists(id)
        /\ rows[id].item = seen[w].item \/ rows[id].sku = seen[w].sku
        /\ rows[id].period >= seen[w].period
=============================================================================
