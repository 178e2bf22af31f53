---------------------- MODULE SubscriptionSync_proofs ----------------------
(***************************************************************************)
(* Proofs about SubscriptionSync, for any plans, items, rows, requests and *)
(* bounds.                                                                 *)
(*                                                                         *)
(* Part 1: types and the two unique keys, for all of the module's actions; *)
(* and that an item whose row was never taken from it does not get a       *)
(* period's allowance twice.  What makes that inductive is what a request  *)
(* about to write knows (WriteIsNewer: its snapshot is no older than the   *)
(* period it read), that an item has used nothing in the periods after its *)
(* row's, and nothing at all before it has a row (Covered).                *)
(* Part 2: for customers that keep their plans (PlanChanges = FALSE) a row *)
(* never returns to an earlier period and gets one allowance per period,   *)
(* because allowances were only given for periods the row has reached      *)
(* (ResetsReached).                                                        *)
(* Part 3: StripeWebhook, whose deliveries SubscriptionSync processes, for *)
(* any events and any number of overlapping deliveries.  That one delivery *)
(* at most holds an event is not inductive: a second one may claim it only *)
(* because its row says so, so that the invariant has to say what the row  *)
(* of an event in process looks like (HolderIsLocked).                     *)
(***************************************************************************)
EXTENDS SubscriptionSync, StripeWebhook, TLAPS

Planning == {"plan_stripe", "plan_end_trial", "plan_db"}
Acting   == Planning \cup {"admin_stripe", "admin_db"}
Stages   == Acting \cup {"idle", "sync_write", "sync_retry", "returned"}

\* What a request carries at each stage.
Calls ==
  \A w \in Workers :
    /\ pc[w] = "idle" => tries[w] = 0
    /\ pc[w] = "sync_retry" => tries[w] = 1
    /\ pc[w] = "sync_write" => tries[w] \in 1..2
    /\ pc[w] # "idle" => seen[w] # None
    /\ pc[w] \in Acting => found[w] # None
    /\ found[w] # None => Exists(found[w])

\* Stripe has every item that was ever announced, stored or read.
Known ==
  /\ \A i \in Items : stripe[i] # None => stripe[i].item = i
  /\ \A v \in emitted : stripe[v.item] # None
  /\ \A id \in RowIds : Exists(id) => stripe[rows[id].item] # None
  /\ \A w \in Workers : seen[w] # None => stripe[seen[w].item] # None

\* The two unique keys of the table.
Keys ==
  \A id, id2 \in RowIds : id # id2 /\ Exists(id) /\ Exists(id2) =>
    rows[id].sku # rows[id2].sku /\ rows[id].item # rows[id2].item

LocalTypes ==
  /\ pc \in [Workers -> Stages]
  /\ seen \in [Workers -> Version \cup {None}]
  /\ found \in [Workers -> RowIds \cup {None}]
  /\ read \in [Workers -> 0..MaxTick]
  /\ tries \in [Workers -> 0..2]

RemoteTypes ==
  /\ stripe \in [Items -> Version \cup {None}]
  /\ emitted \subseteq Version
  /\ now \in 0..MaxTick
  /\ sessions \subseteq Session

RowTypes ==
  /\ rows \in [RowIds -> Row \cup {None}]
  /\ resets \in [RowIds \X Ticks -> Nat]

HistoryTypes == spent \in [Items \X Ticks -> Nat] /\ displaced \subseteq Items

IInv == RowTypes /\ HistoryTypes /\ RemoteTypes /\ LocalTypes /\ Keys /\ Calls /\ Known

LEMMA NoneApart ==
  /\ None \notin Int /\ None \notin Version /\ None \notin Row
BY NoneAssumption

-----------------------------------------------------------------------------
(* Part 1.  What each kind of step does to the tables, to Stripe and to the *)
(* requests.                                                                *)

\* A change at Stripe keeps what was known, and makes v known.
LEMMA ChangeKeeps ==
  ASSUME IInv, NEW v \in Version, Change(v), sessions' \subseteq Session
  PROVE  /\ RemoteTypes'
         /\ v \in emitted'
         /\ \A u \in emitted' : u = v \/ u \in emitted
         /\ \A i \in Items : stripe[i] # None => stripe'[i] # None
         /\ stripe'[v.item] # None
         /\ \A i \in Items : stripe'[i] # None => stripe'[i].item = i
<1>1. now' \in 0..MaxTick
  BY BoundsAssumption DEF Change, IInv, RemoteTypes
<1>2. v.item \in Items /\ v # None
  BY NoneApart DEF Version
<1>3. stripe' = [stripe EXCEPT ![v.item] = v] /\ emitted' = emitted \cup {v}
  BY DEF Change
<1> QED
  BY <1>1, <1>2, <1>3 DEF IInv, RemoteTypes, Known

\* The period that starts with a change.
LEMMA NextTick ==
  ASSUME IInv, now < MaxTick
  PROVE  now + 1 \in Ticks
BY BoundsAssumption DEF Ticks, IInv, RemoteTypes

\* The snapshots of the program.
LEMMA SnapshotTypes ==
  ASSUME IInv
  PROVE  /\ \A v \in Version : v.item \in Items /\ v.sku \in Skus
                             /\ v.status \in Statuses /\ v.period \in Ticks
         /\ \A r \in Row : /\ r.item \in Items /\ r.sku \in Skus /\ r.status \in Statuses
                         /\ r.period \in Ticks /\ r.included \in Nat /\ r.used \in Nat
         /\ \A i \in Items : stripe[i] # None => stripe[i] \in Version
         /\ \A id \in RowIds : Exists(id) => rows[id] \in Row
         /\ \A w \in Workers : seen[w] # None => seen[w] \in Version
BY DEF Version, Row, Ticks, IInv, RemoteTypes, RowTypes, LocalTypes, Exists

\* The request of w goes back to idle.
LEMMA ForgetKeeps ==
  ASSUME IInv, NEW w \in Workers, Forget(w), \A id \in RowIds : Exists(id) => Exists(id)'
  PROVE  /\ LocalTypes' /\ Calls'
         /\ \A u \in Workers : seen'[u] # None => seen'[u] = seen[u]
BY BoundsAssumption DEF Forget, IInv, LocalTypes, Calls, Stages, Acting, Planning, Exists

LEMMA InitInv == Init => IInv
<1> SUFFICES ASSUME Init PROVE IInv
  OBVIOUS
<1>1. RowTypes
  BY DEF Init, RowTypes
<1>2. RemoteTypes /\ HistoryTypes
  BY BoundsAssumption DEF Init, RemoteTypes, HistoryTypes
<1>3. LocalTypes
  BY BoundsAssumption DEF Init, LocalTypes, Stages
<1>4. Keys /\ Calls /\ Known
  BY DEF Init, Keys, Calls, Known, Exists, Acting, Planning
<1> QED
  BY <1>1, <1>2, <1>3, <1>4 DEF IInv

\* Stripe's own steps are changes that leave the program alone.
LEMMA StripeStepInv ==
  ASSUME IInv, NEW v \in Version, Change(v),
         sessions' \subseteq Session, UNCHANGED <<tables, local>>
  PROVE  IInv'
<1>1. /\ UNCHANGED <<rows, resets, spent, displaced, pc, seen, found, read, tries>>
      /\ \A id \in RowIds : Exists(id)' <=> Exists(id)
  BY DEF tables, local, Exists
<1>2. RowTypes' /\ HistoryTypes' /\ LocalTypes' /\ Keys' /\ Calls'
  BY <1>1 DEF IInv, RowTypes, HistoryTypes, LocalTypes, Keys, Calls, Exists
<1>3. RemoteTypes'
  BY ChangeKeeps
<1>4. Known'
  <2>1. \A id \in RowIds : Exists(id) => rows[id].item \in Items
    BY SnapshotTypes
  <2>2. \A w \in Workers : seen[w] # None => seen[w].item \in Items
    BY SnapshotTypes
  <2>3. \A u \in emitted : u.item \in Items
    BY SnapshotTypes DEF IInv, RemoteTypes
  <2> QED
    BY <1>1, <2>1, <2>2, <2>3, ChangeKeeps DEF Known, IInv
<1> QED
  BY <1>2, <1>3, <1>4 DEF IInv

LEMMA StripeCheckoutInv ==
  ASSUME IInv, NEW i \in Items, NEW session \in sessions, StripeCheckout(i, session)
  PROVE  IInv'
<1> DEFINE v == [item |-> i, sku |-> session.sku,
                 status |-> IF session.trial THEN "trialing" ELSE "active",
                 period |-> now + 1]
<1>1. session.sku \in Skus /\ now + 1 \in Ticks
  BY NextTick DEF IInv, RemoteTypes, Session, StripeCheckout, Change
<1>2. v \in Version
  BY <1>1 DEF Version, Statuses, Access
<1>3. Change(v) /\ UNCHANGED <<tables, local>> /\ sessions' \subseteq Session
  BY DEF StripeCheckout, IInv, RemoteTypes
<1> QED
  BY <1>2, <1>3, StripeStepInv

LEMMA StripeRenewInv ==
  ASSUME IInv, NEW i \in Items, StripeRenew(i)
  PROVE  IInv'
<1> DEFINE v == [stripe[i] EXCEPT !.status = "active", !.period = now + 1]
<1>1. stripe[i] \in Version /\ now + 1 \in Ticks
  BY SnapshotTypes, NextTick DEF StripeRenew, Alive, Change
<1>2. v \in Version
  BY <1>1 DEF Version, Statuses, Access
<1>3. Change(v) /\ UNCHANGED <<tables, local>> /\ sessions' \subseteq Session
  BY DEF StripeRenew, IInv, RemoteTypes
<1> QED
  BY <1>2, <1>3, StripeStepInv

LEMMA StripeCancelInv ==
  ASSUME IInv, NEW i \in Items, StripeCancel(i)
  PROVE  IInv'
<1> DEFINE v == [stripe[i] EXCEPT !.status = "canceled"]
<1>1. stripe[i] \in Version
  BY SnapshotTypes DEF StripeCancel, Alive
<1>2. v \in Version
  BY <1>1 DEF Version, Statuses
<1>3. Change(v) /\ UNCHANGED <<tables, local>> /\ sessions' \subseteq Session
  BY DEF StripeCancel, IInv, RemoteTypes
<1> QED
  BY <1>2, <1>3, StripeStepInv

LEMMA OpenCheckoutInv ==
  ASSUME IInv, NEW k \in Skus, OpenCheckout(k)
  PROVE  IInv'
<1>1. sessions' \subseteq Session
  <2>1. PICK trial \in BOOLEAN :
          trial = (k \in Trials /\ \A id \in RowIds : ~Exists(id))
    OBVIOUS
  <2>2. sessions' = sessions \cup {[sku |-> k, trial |-> trial]}
    BY <2>1, Zenon DEF OpenCheckout
  <2>3. [sku |-> k, trial |-> trial] \in Session
    BY DEF Session
  <2> QED
    BY <2>2, <2>3 DEF IInv, RemoteTypes
<1>2. UNCHANGED <<rows, resets, spent, displaced, stripe, emitted, now, pc, seen, found,
                  read, tries>>
  BY DEF OpenCheckout, tables, local
<1> QED
  BY <1>1, <1>2 DEF IInv, RowTypes, HistoryTypes, RemoteTypes, LocalTypes, Keys, Calls, Known, Exists

-----------------------------------------------------------------------------
(* Steps of a request that write no row. *)

\* A request moves on, or reads what exists; the tables and Stripe stay.
LEMMA LocalStepInv ==
  ASSUME IInv, UNCHANGED <<tables, remote>>, LocalTypes', Calls',
         \A w \in Workers : seen'[w] # None => stripe[seen'[w].item] # None
  PROVE  IInv'
<1>1. UNCHANGED <<rows, resets, spent, displaced, stripe, emitted, now, sessions>>
  BY DEF tables, remote
<1> QED
  BY <1>1 DEF IInv, RowTypes, HistoryTypes, RemoteTypes, Keys, Known, Exists

LEMMA SyncReadInv ==
  ASSUME IInv, NEW w \in Workers, NEW v \in Version, stripe[v.item] # None,
         pc[w] \in {"idle", "sync_retry"}, SyncRead(w, v)
  PROVE  IInv'
<1>1. /\ seen' = [seen EXCEPT ![w] = v] /\ tries' = [tries EXCEPT ![w] = tries[w] + 1]
      /\ tries[w] \in 0..1
      /\ UNCHANGED <<tables, remote>>
  BY DEF SyncRead, IInv, Calls
<1>2. PICK id \in RowIds \cup {None}, t \in 0..MaxTick :
        /\ found' = [found EXCEPT ![w] = id]
        /\ id # None => Exists(id)
        /\ read' = [read EXCEPT ![w] = t]
  <2>1. CASE RowOf(v.sku) = {}
    BY <2>1, BoundsAssumption DEF SyncRead
  <2>2. CASE RowOf(v.sku) # {}
    <3>1. PICK id \in RowOf(v.sku) : /\ found' = [found EXCEPT ![w] = id]
                                    /\ read' = [read EXCEPT ![w] = rows[id].period]
      BY <2>2 DEF SyncRead
    <3>2. id \in RowIds /\ Exists(id)
      BY DEF RowOf
    <3>3. rows[id].period \in 0..MaxTick
      BY <3>2, SnapshotTypes, BoundsAssumption DEF Ticks
    <3> QED
      BY <3>1, <3>2, <3>3
  <2> QED
    BY <2>1, <2>2
<1>3. pc' = [pc EXCEPT ![w] = "sync_write"] \/ pc' = [pc EXCEPT ![w] = "returned"]
  BY DEF SyncRead
<1>4. LocalTypes'
  BY <1>1, <1>2, <1>3 DEF IInv, LocalTypes, Stages
<1>5. Calls'
  BY <1>1, <1>2, <1>3, NoneApart DEF tables, IInv, LocalTypes, Calls, Exists, Acting, Planning
<1>6. \A u \in Workers : seen'[u] # None => stripe[seen'[u].item] # None
  BY <1>1 DEF IInv, LocalTypes, Known
<1> QED
  BY <1>1, <1>4, <1>5, <1>6, LocalStepInv

LEMMA SyncStartInv ==
  ASSUME IInv, NEW w \in Workers, SyncStart(w) \/ SyncRetry(w)
  PROVE  IInv'
<1>1. CASE SyncStart(w)
  <2>1. PICK v \in emitted : SyncRead(w, v)
    BY <1>1 DEF SyncStart
  <2> QED
    BY <1>1, <2>1, SyncReadInv DEF SyncStart, IInv, RemoteTypes, Known
<1>2. CASE SyncRetry(w)
  <2>1. seen[w] \in Version /\ stripe[seen[w].item] # None
    BY <1>2, SnapshotTypes DEF SyncRetry, IInv, Calls, Known
  <2> QED
    BY <1>2, <2>1, SyncReadInv DEF SyncRetry
<1> QED
  BY <1>1, <1>2

\* Steps that end a request.
LEMMA ForgetInv ==
  ASSUME IInv, NEW w \in Workers, Acknowledge(w) \/ Crash(w)
  PROVE  IInv'
<1>1. Forget(w) /\ UNCHANGED <<tables, remote>>
  BY DEF Acknowledge, Crash
<1>2. LocalTypes' /\ Calls' /\ \A u \in Workers : seen'[u] # None => seen'[u] = seen[u]
  BY <1>1, ForgetKeeps DEF tables, Exists
<1> QED
  BY <1>1, <1>2, LocalStepInv DEF IInv, Known

-----------------------------------------------------------------------------
(* Writes of rows. *)

\* A written row keeps the keys unique when nobody else holds them.
LEMMA WriteKeeps ==
  ASSUME IInv, NEW id \in RowIds, NEW new \in Row,
         rows' = [rows EXCEPT ![id] = new],
         \A other \in RowIds \ {id} :
           Exists(other) => rows[other].sku # new.sku /\ rows[other].item # new.item
  PROVE  /\ rows' \in [RowIds -> Row \cup {None}]
         /\ Keys'
         /\ \A other \in RowIds : Exists(other) => Exists(other)'
         /\ \A other \in RowIds : Exists(other)' => other = id \/ Exists(other)
<1>1. new # None
  BY NoneApart
<1>2. rows'[id] = new /\ \A other \in RowIds \ {id} : rows'[other] = rows[other]
  BY DEF IInv, RowTypes
<1>3. rows' \in [RowIds -> Row \cup {None}]
  BY DEF IInv, RowTypes
<1> QED
  BY <1>1, <1>2, <1>3 DEF IInv, Keys, Exists

\* A request that is returning.
LEMMA ReturnedKeeps ==
  ASSUME IInv, NEW w \in Workers, pc[w] # "idle", Returned(w),
         \A id \in RowIds : Exists(id) => Exists(id)'
  PROVE  LocalTypes' /\ Calls' /\ UNCHANGED seen
BY DEF Returned, IInv, LocalTypes, Calls, Stages, Acting, Planning, Exists

LEMMA SyncCreateInv ==
  ASSUME IInv, NEW w \in Workers, SyncCreate(w)
  PROVE  IInv'
<1>1. /\ pc[w] # "idle" /\ Returned(w) /\ UNCHANGED <<stripe, emitted, now, sessions>>
      /\ seen[w] \in Version /\ stripe[seen[w].item] # None
  BY SnapshotTypes DEF SyncCreate, remote, IInv, Calls, Known
<1>2. CASE UNCHANGED tables
  BY <1>1, <1>2, ReturnedKeeps, LocalStepInv DEF tables, Exists, remote, IInv, Known
<1>3. ASSUME NEW id \in RowIds, ~Exists(id),
             RowOf(seen[w].sku) = {}, ~ItemTaken(seen[w].item, 0),
             rows' = [rows EXCEPT ![id] =
               [item |-> seen[w].item, sku |-> seen[w].sku, status |-> seen[w].status,
                period |-> seen[w].period, included |-> Included[seen[w].sku], used |-> 0]],
             resets' = [resets EXCEPT ![<<id, seen[w].period>>] = @ + 1],
             UNCHANGED <<spent, displaced>>
      PROVE  IInv'
  <2> DEFINE new == [item |-> seen[w].item, sku |-> seen[w].sku, status |-> seen[w].status,
                     period |-> seen[w].period, included |-> Included[seen[w].sku],
                     used |-> 0]
  <2>1. new \in Row
    BY <1>1, IncludedAssumption DEF Version, Row
  <2>2. \A other \in RowIds \ {id} :
          Exists(other) => rows[other].sku # new.sku /\ rows[other].item # new.item
    BY <1>3 DEF RowOf, ItemTaken, RowIds
  <2>3. /\ rows' \in [RowIds -> Row \cup {None}] /\ Keys'
        /\ \A other \in RowIds : Exists(other) => Exists(other)'
        /\ \A other \in RowIds : Exists(other)' => other = id \/ Exists(other)
    BY <1>3, <2>1, <2>2, WriteKeeps
  <2>4. resets' \in [RowIds \X Ticks -> Nat]
    <3>1. <<id, seen[w].period>> \in RowIds \X Ticks
      BY <1>1 DEF Version
    <3> QED
      BY <1>3, <3>1 DEF IInv, RowTypes
  <2>5. LocalTypes' /\ Calls' /\ UNCHANGED seen
    BY <1>1, <2>3, ReturnedKeeps
  <2>6. Known'
    BY <1>1, <1>3, <2>3, <2>5 DEF IInv, Known, RowTypes
  <2> QED
    BY <1>1, <1>3, <2>3, <2>4, <2>5, <2>6 DEF IInv, RowTypes, HistoryTypes, RemoteTypes
<1> QED
  BY <1>2, <1>3 DEF SyncCreate

\* A row that is there may be rewritten for an item that Stripe has.
LEMMA RewriteInv ==
  ASSUME IInv, NEW id \in RowIds, Exists(id), NEW new \in Row,
         rows' = [rows EXCEPT ![id] = new], stripe[new.item] # None,
         resets' \in [RowIds \X Ticks -> Nat], HistoryTypes', UNCHANGED remote,
         \A other \in RowIds \ {id} :
           Exists(other) => rows[other].sku # new.sku /\ rows[other].item # new.item,
         LocalTypes', (\A other \in RowIds : Exists(other) => Exists(other)') => Calls',
         \A w \in Workers : seen'[w] # None => seen'[w] = seen[w]
  PROVE  IInv'
<1>1. /\ rows' \in [RowIds -> Row \cup {None}] /\ Keys'
      /\ \A other \in RowIds : Exists(other) => Exists(other)'
      /\ \A other \in RowIds : Exists(other)' => Exists(other)
  BY WriteKeeps
<1>2. UNCHANGED <<stripe, emitted, now, sessions>>
  BY DEF remote
<1>3. Known'
  BY <1>1, <1>2 DEF IInv, Known, RowTypes
<1> QED
  BY <1>1, <1>2, <1>3 DEF IInv, RowTypes, RemoteTypes

LEMMA SyncUpdateInv ==
  ASSUME IInv, NEW w \in Workers, SyncUpdate(w)
  PROVE  IInv'
<1> DEFINE v  == seen[w]
           id == found[w]
<1>1. /\ pc[w] = "sync_write" /\ id \in RowIds /\ Exists(id) /\ tries[w] \in 1..2
      /\ v \in Version /\ stripe[v.item] # None /\ UNCHANGED remote
  BY SnapshotTypes DEF SyncUpdate, IInv, Calls, Known, LocalTypes
<1>2. CASE UNCHANGED tables /\ Returned(w)
  BY <1>1, <1>2, ReturnedKeeps, LocalStepInv DEF tables, Exists, IInv, Known
<1>3. CASE /\ pc' = [pc EXCEPT ![w] = IF MayRetry(w) THEN "sync_retry" ELSE "returned"]
           /\ UNCHANGED <<tables, seen, found, read, tries>>
  <2>1. LocalTypes' /\ Calls'
    BY <1>1, <1>3 DEF MayRetry, tables, IInv, LocalTypes, Calls, Stages, Acting, Planning, Exists
  <2> QED
    BY <1>1, <1>3, <2>1, LocalStepInv DEF IInv, Known
<1>4. ASSUME ~ItemTaken(v.item, id), Returned(w), NEW reset \in BOOLEAN,
             rows' = [rows EXCEPT ![id] =
               [item |-> v.item, sku |-> @.sku, status |-> v.status, period |-> v.period,
                included |-> Included[v.sku], used |-> IF reset THEN 0 ELSE @.used]],
             resets' = IF reset THEN [resets EXCEPT ![<<id, v.period>>] = @ + 1] ELSE resets,
             displaced' = displaced \cup ({rows[id].item} \ {v.item}), UNCHANGED spent
      PROVE  IInv'
  <2> DEFINE new == [item |-> v.item, sku |-> rows[id].sku, status |-> v.status,
                     period |-> v.period, included |-> Included[v.sku],
                     used |-> IF reset THEN 0 ELSE rows[id].used]
  <2>1. new \in Row
    <3>1. rows[id].sku \in Skus /\ rows[id].used \in Nat
      BY <1>1, SnapshotTypes
    <3> QED
      BY <1>1, <3>1, IncludedAssumption DEF Version, Row
  <2>2. rows' = [rows EXCEPT ![id] = new]
    BY <1>4
  <2>3. resets' \in [RowIds \X Ticks -> Nat]
    <3>1. <<id, v.period>> \in RowIds \X Ticks
      BY <1>1 DEF Version
    <3> QED
      BY <1>4, <3>1 DEF IInv, RowTypes
  <2>4. \A other \in RowIds \ {id} :
          Exists(other) => rows[other].sku # new.sku /\ rows[other].item # new.item
    BY <1>1, <1>4 DEF ItemTaken, IInv, Keys
  <2>5. LocalTypes' /\ UNCHANGED seen
        /\ ((\A other \in RowIds : Exists(other) => Exists(other)') => Calls')
    BY <1>1, <1>4, ReturnedKeeps
       DEF Returned, IInv, LocalTypes, Stages
  <2>6. HistoryTypes'
    BY <1>1, <1>4, SnapshotTypes DEF IInv, HistoryTypes
  <2> QED
    BY <1>1, <2>1, <2>2, <2>3, <2>4, <2>5, <2>6, RewriteInv
<1> QED
  <2>1. ResetUsage(read[w], v) \in BOOLEAN
    BY DEF ResetUsage
  <2> QED
    BY <1>2, <1>3, <1>4, <2>1 DEF SyncUpdate

\* The steps of a plan change.
LEMMA PlanChangeReadInv ==
  ASSUME IInv, NEW w \in Workers, NEW k \in Skus, PlanChangeRead(w, k)
  PROVE  IInv'
<1>1. PICK id \in RowIds :
        /\ Exists(id)
        /\ found' = [found EXCEPT ![w] = id]
        /\ seen' = [seen EXCEPT ![w] = [stripe[rows[id].item] EXCEPT !.sku = k]]
        /\ pc'[w] \in Planning /\ pc' = [pc EXCEPT ![w] = pc'[w]]
        /\ UNCHANGED <<tables, remote, read, tries>>
  BY DEF PlanChangeRead, ActiveRows, Planning, IInv, LocalTypes
<1> DEFINE v == [stripe[rows[id].item] EXCEPT !.sku = k]
<1>2. stripe[rows[id].item] \in Version
  BY <1>1, SnapshotTypes DEF IInv, Known
<1>3. v \in Version /\ v.item = stripe[rows[id].item].item
  BY <1>2 DEF Version
<1>4. LocalTypes'
  BY <1>1, <1>3 DEF IInv, LocalTypes, Stages, Acting
<1>5. Calls'
  BY <1>1, <1>3, NoneApart DEF tables, IInv, LocalTypes, Calls, Stages, Acting, Planning, Exists, RowIds
<1>6. \A u \in Workers : seen'[u] # None => stripe[seen'[u].item] # None
  BY <1>1, <1>2, <1>3, SnapshotTypes DEF IInv, LocalTypes, Known
<1> QED
  BY <1>1, <1>4, <1>5, <1>6, LocalStepInv

\* A request made a change at Stripe and holds what Stripe answered.
LEMMA CalledInv ==
  ASSUME IInv, NEW w \in Workers, NEW v \in Version, pc[w] \in Acting,
         NEW stage \in Acting, pc' = [pc EXCEPT ![w] = stage],
         seen' = [seen EXCEPT ![w] = v], UNCHANGED <<tables, found, read, tries>>,
         \/ Change(v) /\ UNCHANGED sessions
         \/ UNCHANGED remote /\ stripe[v.item] # None
  PROVE  IInv'
<1>1. RemoteTypes' /\ (\A i \in Items : stripe[i] # None => stripe'[i] # None)
      /\ stripe'[v.item] # None
      /\ (\A i \in Items : stripe'[i] # None => stripe'[i].item = i)
      /\ \A u \in emitted' : u = v \/ u \in emitted
  <2>1. CASE UNCHANGED remote /\ stripe[v.item] # None
    BY <2>1 DEF remote, IInv, RemoteTypes, Known
  <2>2. CASE Change(v) /\ UNCHANGED sessions
    BY <2>2, ChangeKeeps DEF IInv, RemoteTypes
  <2> QED
    BY <2>1, <2>2
<1>2. LocalTypes'
  BY DEF IInv, LocalTypes, Stages
<1>3. Calls'
  BY NoneApart DEF tables, IInv, LocalTypes, Calls, Acting, Planning, Exists
<1>4. Known'
  <2>1. \A id \in RowIds : Exists(id) => rows[id].item \in Items
    BY SnapshotTypes
  <2>2. \A u \in Workers : seen[u] # None => seen[u].item \in Items
    BY SnapshotTypes
  <2>3. \A u \in emitted : u.item \in Items
    BY SnapshotTypes DEF IInv, RemoteTypes
  <2>4. \A u \in Workers : seen'[u] # None => stripe'[seen'[u].item] # None
    BY <1>1, <2>2 DEF IInv, Known, LocalTypes
  <2> QED
    BY <1>1, <2>1, <2>3, <2>4 DEF tables, IInv, Known, Exists
<1> QED
  BY <1>1, <1>2, <1>3, <1>4 DEF tables, IInv, RowTypes, HistoryTypes, Keys, Exists

LEMMA PlanChangeStripeInv ==
  ASSUME IInv, NEW w \in Workers, PlanChangeStripe(w)
  PROVE  IInv'
<1> DEFINE i == seen[w].item
           ends == pc[w] = "plan_end_trial" /\ stripe[i].status = "trialing"
           v == [stripe[i] EXCEPT !.sku = seen[w].sku,
                                  !.status = IF ends THEN "active" ELSE @,
                                  !.period = IF ends THEN now + 1 ELSE @]
<1>1. pc[w] \in Acting /\ seen[w] \in Version
  BY SnapshotTypes DEF PlanChangeStripe, IInv, Calls, Acting, Planning
<1>2. CASE Forget(w) /\ UNCHANGED <<tables, remote>>
  <2>1. LocalTypes' /\ Calls' /\ \A u \in Workers : seen'[u] # None => seen'[u] = seen[u]
    BY <1>2, ForgetKeeps DEF tables, Exists
  <2> QED
    BY <1>2, <2>1, LocalStepInv DEF IInv, Known
<1>3. CASE /\ Alive(i) /\ Change(v) /\ seen' = [seen EXCEPT ![w] = v]
           /\ pc' = [pc EXCEPT ![w] = "plan_db"]
           /\ UNCHANGED <<tables, sessions, found, read, tries>>
  <2>1. stripe[i] \in Version /\ now + 1 \in Ticks
    BY <1>1, <1>3, SnapshotTypes, NextTick DEF Alive, Change
  <2>2. v \in Version
    BY <1>1, <2>1 DEF Version, Statuses, Access
  <2> QED
    BY <1>1, <1>3, <2>2, CalledInv DEF Acting, Planning
<1> QED
  BY <1>2, <1>3 DEF PlanChangeStripe

LEMMA PlanChangeDbInv ==
  ASSUME IInv, NEW w \in Workers, PlanChangeDb(w)
  PROVE  IInv'
<1> DEFINE v  == seen[w]
           id == found[w]
<1>1. /\ pc[w] = "plan_db" /\ id \in RowIds /\ Exists(id)
      /\ v \in Version /\ stripe[v.item] # None
      /\ Forget(w) /\ UNCHANGED <<resets, spent, remote>>
  BY SnapshotTypes DEF PlanChangeDb, IInv, Calls, Known, LocalTypes, Acting, Planning
<1>2. CASE UNCHANGED <<rows, displaced>>
  <2>1. LocalTypes' /\ Calls' /\ \A u \in Workers : seen'[u] # None => seen'[u] = seen[u]
    BY <1>1, <1>2, ForgetKeeps DEF Exists
  <2> QED
    BY <1>1, <1>2, <2>1, LocalStepInv DEF tables, IInv, Known
<1>3. CASE /\ ~SkuTaken(v.sku, id) /\ ~ItemTaken(v.item, id)
           /\ rows' = [rows EXCEPT ![id] =
                [item |-> v.item, sku |-> v.sku, status |-> v.status, period |-> v.period,
                 included |-> Included[v.sku], used |-> @.used]]
           /\ displaced' \subseteq displaced \cup {rows[id].item}
  <2> DEFINE new == [item |-> v.item, sku |-> v.sku, status |-> v.status,
                     period |-> v.period, included |-> Included[v.sku],
                     used |-> rows[id].used]
  <2>1. new \in Row
    <3>1. rows[id].used \in Nat
      BY <1>1, SnapshotTypes
    <3> QED
      BY <1>1, <3>1, IncludedAssumption DEF Version, Row
  <2>2. \A other \in RowIds \ {id} :
          Exists(other) => rows[other].sku # new.sku /\ rows[other].item # new.item
    BY <1>3 DEF ItemTaken, SkuTaken
  <2>3. \A other \in RowIds : Exists(other) => Exists(other)'
    BY <1>1, <1>3, <2>1, <2>2, WriteKeeps
  <2>4. LocalTypes' /\ Calls' /\ \A u \in Workers : seen'[u] # None => seen'[u] = seen[u]
    BY <1>1, <2>3, ForgetKeeps
  <2> QED
    <3>1. HistoryTypes'
      BY <1>1, <1>3, SnapshotTypes DEF IInv, HistoryTypes
    <3> QED
      BY <1>1, <1>3, <2>1, <2>2, <2>4, <3>1, RewriteInv DEF IInv, RowTypes
<1> QED
  BY <1>2, <1>3 DEF PlanChangeDb

\* The admin actions.
LEMMA AdminReadInv ==
  ASSUME IInv, NEW w \in Workers, NEW id \in RowIds, AdminRead(w, id)
  PROVE  IInv'
<1> DEFINE v == stripe[rows[id].item]
<1>1. v \in Version /\ stripe[v.item] # None
  BY SnapshotTypes DEF AdminRead, IInv, Known
<1>2. LocalTypes' /\ Calls'
  BY <1>1, NoneApart DEF AdminRead, tables, IInv, LocalTypes, Calls, Stages, Acting, Planning,
                         Exists, RowIds
<1>3. \A u \in Workers : seen'[u] # None => stripe[seen'[u].item] # None
  BY <1>1 DEF AdminRead, IInv, LocalTypes, Known
<1> QED
  BY <1>2, <1>3, LocalStepInv DEF AdminRead

LEMMA AdminStripeInv ==
  ASSUME IInv, NEW w \in Workers, AdminStripe(w)
  PROVE  IInv'
<1> DEFINE i == seen[w].item
           v == [stripe[i] EXCEPT !.status = "canceled"]
<1>1. pc[w] \in Acting /\ seen[w] \in Version /\ "admin_db" \in Acting
  BY SnapshotTypes DEF AdminStripe, IInv, Calls, Acting, Planning
<1>2. CASE Forget(w) /\ UNCHANGED <<tables, remote>>
  <2>1. LocalTypes' /\ Calls' /\ \A u \in Workers : seen'[u] # None => seen'[u] = seen[u]
    BY <1>2, ForgetKeeps DEF tables, Exists
  <2> QED
    BY <1>2, <2>1, LocalStepInv DEF IInv, Known
<1>3. CASE /\ Alive(i)
           /\ \/ Change(v) /\ seen' = [seen EXCEPT ![w] = v]
              \/ UNCHANGED <<stripe, emitted, now>> /\ seen' = [seen EXCEPT ![w] = stripe[i]]
           /\ pc' = [pc EXCEPT ![w] = "admin_db"]
           /\ UNCHANGED <<tables, sessions, found, read, tries>>
  <2>1. stripe[i] \in Version /\ stripe[stripe[i].item] # None
    BY <1>1, <1>3, SnapshotTypes DEF Alive, IInv, Known
  <2>2. v \in Version
    BY <2>1 DEF Version, Statuses
  <2>3. CASE Change(v) /\ seen' = [seen EXCEPT ![w] = v]
    BY <1>1, <1>3, <2>2, <2>3, CalledInv
  <2>4. CASE UNCHANGED <<stripe, emitted, now>> /\ seen' = [seen EXCEPT ![w] = stripe[i]]
    BY <1>1, <1>3, <2>1, <2>4, CalledInv DEF remote
  <2> QED
    BY <1>3, <2>3, <2>4
<1> QED
  BY <1>2, <1>3 DEF AdminStripe

LEMMA AdminDbInv ==
  ASSUME IInv, NEW w \in Workers, AdminDb(w)
  PROVE  IInv'
<1> DEFINE id  == found[w]
           new == [rows[id] EXCEPT !.status = seen[w].status]
<1>1. /\ id \in RowIds /\ Exists(id) /\ seen[w] \in Version
      /\ Forget(w) /\ UNCHANGED <<resets, spent, displaced, remote>>
  BY SnapshotTypes DEF AdminDb, IInv, Calls, LocalTypes, Acting
<1>2. /\ rows' = [rows EXCEPT ![id] = new] /\ new \in Row
      /\ new.item = rows[id].item /\ new.sku = rows[id].sku
  <2>1. rows[id] \in Row /\ seen[w].status \in Statuses
    BY <1>1, SnapshotTypes
  <2>2. new \in Row /\ new.item = rows[id].item /\ new.sku = rows[id].sku
    BY <2>1 DEF Row
  <2> QED
    BY <2>2 DEF AdminDb
<1>3. \A other \in RowIds \ {id} :
        Exists(other) => rows[other].sku # new.sku /\ rows[other].item # new.item
  BY <1>1, <1>2 DEF IInv, Keys
<1>4. \A other \in RowIds : Exists(other) => Exists(other)'
  BY <1>1, <1>2, <1>3, WriteKeeps
<1>5. LocalTypes' /\ Calls' /\ \A u \in Workers : seen'[u] # None => seen'[u] = seen[u]
  BY <1>1, <1>4, ForgetKeeps
<1>6. /\ stripe[new.item] # None /\ resets' \in [RowIds \X Ticks -> Nat]
      /\ HistoryTypes'
  BY <1>1, <1>2 DEF IInv, RowTypes, HistoryTypes, Known
<1> HIDE DEF new
<1> QED
  BY <1>1, <1>2, <1>3, <1>5, <1>6, RewriteInv

LEMMA ConsumeInv ==
  ASSUME IInv, NEW id \in RowIds, Consume(id)
  PROVE  IInv'
<1> DEFINE new == [rows[id] EXCEPT !.used = @ + 1]
<1>1. rows[id] \in Row /\ Exists(id)
  BY SnapshotTypes DEF Consume, ActiveRows
<1>2. /\ rows' = [rows EXCEPT ![id] = new] /\ new \in Row
      /\ new.item = rows[id].item /\ new.sku = rows[id].sku
  BY <1>1 DEF Consume, Row
<1>3. \A other \in RowIds \ {id} :
        Exists(other) => rows[other].sku # new.sku /\ rows[other].item # new.item
  BY <1>1, <1>2 DEF IInv, Keys
<1>4. LocalTypes' /\ seen' = seen
      /\ ((\A other \in RowIds : Exists(other) => Exists(other)') => Calls')
  BY DEF Consume, local, IInv, LocalTypes, Calls
<1>5. /\ stripe[new.item] # None /\ resets' \in [RowIds \X Ticks -> Nat]
      /\ HistoryTypes' /\ UNCHANGED remote
  <2>1. <<rows[id].item, rows[id].period>> \in Items \X Ticks
    BY <1>1, SnapshotTypes
  <2>2. HistoryTypes'
    BY <2>1 DEF Consume, IInv, HistoryTypes
  <2> QED
    BY <1>1, <1>2, <2>2 DEF Consume, IInv, RowTypes, Known
<1> HIDE DEF new
<1> QED
  BY <1>1, <1>2, <1>3, <1>4, <1>5, RewriteInv

-----------------------------------------------------------------------------
LEMMA NextInv == IInv /\ [Next]_vars => IInv'
<1> SUFFICES ASSUME IInv, [Next]_vars PROVE IInv'
  OBVIOUS
<1>1. CASE UNCHANGED vars
  BY <1>1, LocalStepInv DEF vars, tables, local, IInv, LocalTypes, Calls, Known, Exists
<1>2. CASE \E i \in Items : \/ \E session \in sessions : StripeCheckout(i, session)
                          \/ StripeRenew(i) \/ StripeCancel(i)
  BY <1>2, StripeCheckoutInv, StripeRenewInv, StripeCancelInv
<1>3. CASE (\E k \in Skus : OpenCheckout(k)) \/ \E id \in RowIds : Consume(id)
  BY <1>3, OpenCheckoutInv, ConsumeInv
<1>4. ASSUME NEW w \in Workers,
             \/ SyncStart(w) \/ SyncRetry(w) \/ SyncCreate(w) \/ SyncUpdate(w)
             \/ Acknowledge(w) \/ Crash(w)
      PROVE  IInv'
  BY <1>4, SyncStartInv, SyncCreateInv, SyncUpdateInv, ForgetInv
<1>5. ASSUME NEW w \in Workers,
             \/ \E k \in Skus : PlanChangeRead(w, k)
             \/ PlanChangeStripe(w) \/ PlanChangeDb(w)
             \/ \E id \in RowIds : AdminRead(w, id)
             \/ AdminStripe(w) \/ AdminDb(w)
      PROVE  IInv'
  BY <1>5, PlanChangeReadInv, PlanChangeStripeInv, PlanChangeDbInv,
     AdminReadInv, AdminStripeInv, AdminDbInv
<1> QED
  BY <1>1, <1>2, <1>3, <1>4, <1>5 DEF Next

LEMMA Invariant == Spec => []IInv
BY InitInv, NextInv, PTL DEF Spec

\* However syncs, plan changes and admin actions race, a row is a row, a
\* request that acts has a row and a snapshot to act on, no sync runs a third
\* time, and no two rows share a SKU or an item.
THEOREM TypeCorrect == Spec => []TypeOK
<1>1. IInv => TypeOK
  BY DEF IInv, RowTypes, HistoryTypes, RemoteTypes, LocalTypes, Keys, TypeOK, Stages, Acting, Planning
<1> QED
  BY <1>1, Invariant, PTL

-----------------------------------------------------------------------------
(* The allowance of an item in its period. *)

\* A request about to update a row holds a snapshot at least as recent as the
\* period it read.
WriteIsNewer ==
  \A w \in Workers :
    pc[w] = "sync_write" /\ found[w] # None => seen[w].period >= read[w]

\* Row r counts what its item used in its period; later ones are untouched.
Counts(r) ==
  /\ r.used >= spent[<<r.item, r.period>>]
  /\ \A p \in Ticks : p > r.period => spent[<<r.item, p>>] = 0

\* An item without a row has used nothing.
Covered ==
  /\ \A id \in RowIds : Exists(id) /\ rows[id].item \notin displaced => Counts(rows[id])
  /\ \A i \in Items \ displaced :
       (\A id \in RowIds : Exists(id) => rows[id].item # i)
         => \A p \in Ticks : spent[<<i, p>>] = 0

UInv == IInv /\ WriteIsNewer /\ Covered

\* Other requests go on as they were; w is not about to write.
NotAboutToWrite(w) ==
  /\ \A u \in Workers \ {w} : /\ pc'[u] = pc[u] /\ seen'[u] = seen[u]
                             /\ found'[u] = found[u] /\ read'[u] = read[u]
  /\ pc'[w] # "sync_write"

LEMMA OthersNewer ==
  ASSUME WriteIsNewer, NEW w \in Workers, NotAboutToWrite(w)
  PROVE  WriteIsNewer'
BY DEF WriteIsNewer, NotAboutToWrite

\* The read keeps what it found and drops a snapshot of an earlier period.
LEMMA SyncReadNewer ==
  ASSUME IInv, WriteIsNewer, NEW w \in Workers, NEW v \in Version, SyncRead(w, v)
  PROVE  WriteIsNewer'
<1>1. PICK id \in RowIds \cup {None} :
        /\ seen' = [seen EXCEPT ![w] = v] /\ found' = [found EXCEPT ![w] = id]
        /\ \/ /\ id = None
              /\ read' = [read EXCEPT ![w] = 0] /\ pc' = [pc EXCEPT ![w] = "sync_write"]
           \/ /\ id # None /\ Exists(id)
              /\ read' = [read EXCEPT ![w] = rows[id].period]
              /\ pc' = [pc EXCEPT ![w] = IF Outdated(id, v) THEN "returned"
                                                            ELSE "sync_write"]
  <2>1. CASE RowOf(v.sku) = {}
    BY <2>1 DEF SyncRead
  <2>2. CASE RowOf(v.sku) # {}
    <3>1. PICK id \in RowOf(v.sku) :
            /\ found' = [found EXCEPT ![w] = id]
            /\ read' = [read EXCEPT ![w] = rows[id].period]
            /\ pc' = [pc EXCEPT ![w] = IF Outdated(id, v) THEN "returned"
                                                          ELSE "sync_write"]
      BY <2>2 DEF SyncRead
    <3>2. id \in RowIds /\ Exists(id) /\ id # None
      BY NoneApart DEF RowOf, RowIds
    <3> QED
      BY <3>1, <3>2 DEF SyncRead
  <2> QED
    BY <2>1, <2>2
<1>2. LocalTypes
  BY DEF IInv
<1>3. pc'[w] = "sync_write" /\ id # None => v.period >= rows[id].period /\ Exists(id)
  <2>1. Exists(id) /\ id # None => rows[id].period \in Ticks /\ v.period \in Ticks
    BY <1>1, SnapshotTypes
  <2> QED
    BY <1>1, <1>2, <2>1 DEF Outdated, LocalTypes, Ticks
<1> QED
  BY <1>1, <1>2, <1>3 DEF WriteIsNewer, LocalTypes

LEMMA NextNewer ==
  ASSUME IInv, WriteIsNewer, [Next]_vars
  PROVE  WriteIsNewer'
<1>1. CASE UNCHANGED local
  BY <1>1 DEF local, WriteIsNewer
<1>2. ASSUME NEW w \in Workers, SyncStart(w) \/ SyncRetry(w)
      PROVE  WriteIsNewer'
  <2>1. PICK v \in Version : SyncRead(w, v)
    <3>1. CASE SyncStart(w)
      BY <3>1 DEF SyncStart, IInv, RemoteTypes
    <3>2. CASE SyncRetry(w)
      BY <3>2, SnapshotTypes DEF SyncRetry, IInv, Calls
    <3> QED
      BY <1>2, <3>1, <3>2
  <2> QED
    BY <2>1, SyncReadNewer
<1>3. ASSUME NEW w \in Workers,
             \/ SyncCreate(w) \/ SyncUpdate(w) \/ Acknowledge(w) \/ Crash(w)
             \/ \E k \in Skus : PlanChangeRead(w, k)
             \/ PlanChangeStripe(w) \/ PlanChangeDb(w)
             \/ \E id \in RowIds : AdminRead(w, id)
             \/ AdminStripe(w) \/ AdminDb(w)
      PROVE  WriteIsNewer'
  <2>1. LocalTypes
    BY DEF IInv
  <2>2. NotAboutToWrite(w)
    BY <1>3, <2>1
       DEF NotAboutToWrite, LocalTypes, Forget, Returned, SyncCreate, SyncUpdate,
           Acknowledge, Crash, PlanChangeRead, PlanChangeStripe, PlanChangeDb, AdminRead,
           AdminStripe, AdminDb
  <2> QED
    BY <2>2, OthersNewer
<1> QED
  BY <1>1, <1>2, <1>3
     DEF Next, vars, StripeCheckout, StripeRenew, StripeCancel, OpenCheckout, Consume

\* Nothing is written.
LEMMA TablesAlone ==
  ASSUME Covered, UNCHANGED <<rows, spent, displaced>>
  PROVE  Covered'
BY DEF Covered, Counts, Exists

\* One row is written, with an item no other row has.  The item it had before is
\* displaced, or stays, in its period with what it used or in a later one.
LEMMA RowRewritten ==
  ASSUME IInv, Covered, NEW id \in RowIds, NEW new \in Row,
         rows' = [rows EXCEPT ![id] = new], spent' = spent, displaced \subseteq displaced',
         \A other \in RowIds \ {id} : Exists(other) => rows[other].item # new.item,
         Exists(id) /\ rows[id].item # new.item => rows[id].item \in displaced',
         Exists(id) /\ rows[id].item = new.item /\ new.item \notin displaced' =>
           /\ new.period >= rows[id].period
           /\ new.period = rows[id].period => new.used >= rows[id].used
  PROVE  Covered'
<1>1. rows'[id] = new /\ \A other \in RowIds \ {id} : rows'[other] = rows[other]
  BY DEF IInv, RowTypes
<1>2. new # None /\ new.item \in Items /\ new.period \in Ticks /\ new.used \in Nat
  BY NoneApart DEF Row
<1>3. ASSUME new.item \notin displaced' PROVE Counts(new)'
  <2>1. CASE Exists(id) /\ rows[id].item = new.item
    <3>1. Counts(rows[id])
      BY <1>3, <2>1 DEF Covered
    <3>2. rows[id].period \in Ticks /\ rows[id].used \in Nat
      BY <2>1, SnapshotTypes
    <3>3. spent[<<new.item, new.period>>] \in Nat /\ spent[<<new.item, rows[id].period>>] \in Nat
      BY <1>2, <3>2 DEF IInv, HistoryTypes
    <3>4. CASE new.period = rows[id].period
      BY <1>2, <1>3, <2>1, <3>1, <3>2, <3>3, <3>4 DEF Counts
    <3>5. CASE new.period # rows[id].period
      <4>1. new.period > rows[id].period
        BY <1>2, <1>3, <2>1, <3>2, <3>5 DEF Ticks
      <4> QED
        BY <1>2, <2>1, <3>1, <3>2, <4>1 DEF Counts, Ticks
    <3> QED
      BY <3>4, <3>5
  <2>2. CASE ~(Exists(id) /\ rows[id].item = new.item)
    <3>1. \A other \in RowIds : Exists(other) => rows[other].item # new.item
      BY <2>2
    <3>2. \A p \in Ticks : spent[<<new.item, p>>] = 0
      BY <1>2, <1>3, <3>1 DEF Covered
    <3> QED
      BY <1>2, <3>2 DEF Counts
  <2> QED
    BY <2>1, <2>2
<1>4. ASSUME NEW other \in RowIds, Exists(other)', rows'[other].item \notin displaced'
      PROVE  Counts(rows[other])'
  <2>1. CASE other = id
    BY <1>1, <1>3, <1>4, <2>1 DEF Counts
  <2>2. CASE other # id
    <3>1. rows'[other] = rows[other] /\ Exists(other) /\ rows[other].item \notin displaced
      BY <1>1, <1>4, <2>2 DEF Exists
    <3>2. Counts(rows[other])
      BY <3>1 DEF Covered
    <3> QED
      BY <3>1, <3>2 DEF Counts
  <2> QED
    BY <2>1, <2>2
<1>5. ASSUME NEW i \in Items \ displaced', NEW p \in Ticks,
             \A other \in RowIds : Exists(other)' => rows'[other].item # i
      PROVE  spent'[<<i, p>>] = 0
  <2>1. i # new.item
    BY <1>1, <1>2, <1>5 DEF Exists
  <2>2. \A other \in RowIds : Exists(other) => rows[other].item # i
    BY <1>1, <1>5, <2>1 DEF Exists
  <2> QED
    BY <1>5, <2>2 DEF Covered
<1> QED
  BY <1>4, <1>5 DEF Covered

\* A row is only created for an item that has none.
LEMMA SyncCreateCovered ==
  ASSUME UInv, NEW w \in Workers, SyncCreate(w)
  PROVE  Covered'
<1>1. CASE UNCHANGED tables
  BY <1>1, TablesAlone DEF UInv, tables
<1>2. ASSUME NEW id \in RowIds, ~Exists(id), ~ItemTaken(seen[w].item, 0),
             rows' = [rows EXCEPT ![id] =
               [item |-> seen[w].item, sku |-> seen[w].sku, status |-> seen[w].status,
                period |-> seen[w].period, included |-> Included[seen[w].sku], used |-> 0]],
             UNCHANGED <<spent, displaced>>
      PROVE  Covered'
  <2> DEFINE new == [item |-> seen[w].item, sku |-> seen[w].sku, status |-> seen[w].status,
                     period |-> seen[w].period, included |-> Included[seen[w].sku],
                     used |-> 0]
  <2>1. seen[w] \in Version
    BY SnapshotTypes DEF SyncCreate, UInv, IInv, Calls
  <2>2. new \in Row
    BY <2>1, IncludedAssumption DEF Version, Row
  <2>3. \A other \in RowIds \ {id} : Exists(other) => rows[other].item # new.item
    BY <1>2 DEF ItemTaken, RowIds
  <2>4. rows' = [rows EXCEPT ![id] = new] /\ spent' = spent /\ displaced' = displaced
    BY <1>2
  <2> HIDE DEF new
  <2> QED
    BY <1>2, <2>2, <2>3, <2>4, RowRewritten DEF UInv
<1> QED
  BY <1>1, <1>2 DEF SyncCreate

\* The compare-and-set makes the period written no earlier than the row's, and a
\* reset only happens when it is later.
LEMMA SyncUpdateCovered ==
  ASSUME UInv, NEW w \in Workers, SyncUpdate(w)
  PROVE  Covered'
<1> DEFINE v     == seen[w]
           id    == found[w]
           reset == ResetUsage(read[w], v)
           new   == [item |-> v.item, sku |-> rows[id].sku, status |-> v.status,
                     period |-> v.period, included |-> Included[v.sku],
                     used |-> IF reset THEN 0 ELSE rows[id].used]
<1>1. CASE UNCHANGED tables
  BY <1>1, TablesAlone DEF UInv, tables
<1>2. CASE /\ Unmoved(w, id) /\ ~ItemTaken(v.item, id)
           /\ rows' = [rows EXCEPT ![id] = new]
           /\ displaced' = displaced \cup ({rows[id].item} \ {v.item}) /\ UNCHANGED spent
  <2>1. id \in RowIds /\ Exists(id) /\ v \in Version
    BY SnapshotTypes DEF SyncUpdate, UInv, IInv, Calls, LocalTypes
  <2>2. rows[id].sku \in Skus /\ rows[id].used \in Nat
    BY <2>1, SnapshotTypes DEF UInv
  <2>3. new \in Row
    BY <2>1, <2>2, IncludedAssumption DEF Version, Row
  <2>4. \A other \in RowIds \ {id} : Exists(other) => rows[other].item # new.item
    BY <1>2 DEF ItemTaken
  <2>5. new.period >= rows[id].period
    <3>1. id # None /\ pc[w] = "sync_write"
      BY DEF SyncUpdate
    <3> QED
      BY <1>2, <3>1 DEF Unmoved, UInv, WriteIsNewer
  <2>6. new.period = rows[id].period => new.used >= rows[id].used
    BY <1>2, <2>2 DEF Unmoved, ResetUsage
  <2>7. rows[id].item # new.item => rows[id].item \in displaced'
    BY <1>2
  <2> HIDE DEF new
  <2> QED
    BY <1>2, <2>1, <2>3, <2>4, <2>5, <2>6, <2>7, RowRewritten DEF UInv
<1> QED
  BY <1>1, <1>2 DEF SyncUpdate

\* A plan change moves no counter; it displaces the item if it finds another one
\* or a later period.
LEMMA PlanChangeDbCovered ==
  ASSUME UInv, NEW w \in Workers, PlanChangeDb(w)
  PROVE  Covered'
<1> DEFINE v   == seen[w]
           id  == found[w]
           new == [item |-> v.item, sku |-> v.sku, status |-> v.status,
                   period |-> v.period, included |-> Included[v.sku],
                   used |-> rows[id].used]
<1>1. CASE UNCHANGED <<rows, displaced>>
  BY <1>1, TablesAlone DEF UInv, PlanChangeDb
<1>2. CASE /\ ~ItemTaken(v.item, id) /\ rows' = [rows EXCEPT ![id] = new]
           /\ displaced' = IF rows[id].item # v.item \/ rows[id].period > v.period
                           THEN displaced \cup {rows[id].item} ELSE displaced
  <2>1. id \in RowIds /\ Exists(id) /\ v \in Version
    BY SnapshotTypes DEF PlanChangeDb, UInv, IInv, Calls, LocalTypes, Acting, Planning
  <2>2. rows[id].used \in Nat /\ rows[id].period \in Ticks /\ v.period \in Ticks
    BY <2>1, SnapshotTypes DEF UInv
  <2>3. new \in Row
    BY <2>1, <2>2, IncludedAssumption DEF Version, Row
  <2>4. \A other \in RowIds \ {id} : Exists(other) => rows[other].item # new.item
    BY <1>2 DEF ItemTaken
  <2>5. new.used >= rows[id].used
    BY <2>2
  <2>6. /\ displaced \subseteq displaced' /\ spent' = spent
        /\ rows[id].item # new.item => rows[id].item \in displaced'
        /\ rows[id].item \notin displaced' => new.period >= rows[id].period
    BY <1>2, <2>2 DEF PlanChangeDb, Ticks
  <2> HIDE DEF new
  <2> QED
    BY <1>2, <2>1, <2>3, <2>4, <2>5, <2>6, RowRewritten DEF UInv
<1> QED
  BY <1>1, <1>2 DEF PlanChangeDb

LEMMA AdminDbCovered ==
  ASSUME UInv, NEW w \in Workers, AdminDb(w)
  PROVE  Covered'
<1> DEFINE id  == found[w]
           new == [rows[id] EXCEPT !.status = seen[w].status]
<1>1. id \in RowIds /\ Exists(id) /\ seen[w] \in Version
  BY SnapshotTypes DEF AdminDb, UInv, IInv, Calls, LocalTypes, Acting
<1>2. rows[id] \in Row /\ seen[w].status \in Statuses
  BY <1>1, SnapshotTypes DEF UInv
<1>3. /\ new \in Row /\ new.item = rows[id].item
      /\ new.period >= rows[id].period /\ new.used >= rows[id].used
  BY <1>2 DEF Row, Ticks
<1>4. rows' = [rows EXCEPT ![id] = new] /\ UNCHANGED <<spent, displaced>>
  BY DEF AdminDb
<1>5. \A other \in RowIds \ {id} : Exists(other) => rows[other].item # new.item
  BY <1>1, <1>3 DEF UInv, IInv, Keys
<1> HIDE DEF new
<1> QED
  BY <1>1, <1>3, <1>4, <1>5, RowRewritten DEF UInv

\* A use is counted on the row of its item; no other row has the item.
LEMMA ConsumeCovered ==
  ASSUME UInv, NEW id \in RowIds, Consume(id)
  PROVE  Covered'
<1> DEFINE i == rows[id].item
           p == rows[id].period
<1>1. rows[id] \in Row /\ Exists(id) /\ i \in Items /\ p \in Ticks /\ rows[id].used \in Nat
  BY SnapshotTypes DEF Consume, ActiveRows, UInv
<1>2. /\ rows'[id] = [rows[id] EXCEPT !.used = rows[id].used + 1]
      /\ \A other \in RowIds \ {id} : rows'[other] = rows[other]
      /\ displaced' = displaced
  BY DEF Consume, UInv, IInv, RowTypes
<1>3. /\ spent'[<<i, p>>] = spent[<<i, p>>] + 1 /\ spent[<<i, p>>] \in Nat
      /\ \A j \in Items, q \in Ticks : j # i \/ q # p => spent'[<<j, q>>] = spent[<<j, q>>]
  BY <1>1 DEF Consume, UInv, IInv, HistoryTypes
<1>4. rows'[id].item = i /\ rows'[id].period = p /\ rows'[id].used = rows[id].used + 1
  BY <1>1, <1>2 DEF Row
<1>5. \A other \in RowIds \ {id} : Exists(other) => rows[other].item # i
  BY <1>1 DEF UInv, IInv, Keys
<1>6. ASSUME NEW other \in RowIds, Exists(other)', rows'[other].item \notin displaced'
      PROVE  Counts(rows[other])'
  <2>1. CASE other = id
    <3>1. Counts(rows[id])
      BY <1>1, <1>2, <1>4, <1>6, <2>1 DEF UInv, Covered
    <3>2. \A q \in Ticks : q > p => spent'[<<i, q>>] = 0
      BY <1>1, <1>3, <3>1 DEF Counts, Ticks
    <3>3. rows'[id].used >= spent'[<<i, p>>]
      BY <1>1, <1>3, <1>4, <3>1 DEF Counts
    <3> QED
      BY <1>4, <2>1, <3>2, <3>3 DEF Counts
  <2>2. CASE other # id
    <3>1. rows'[other] = rows[other] /\ Exists(other) /\ rows[other].item \notin displaced
      BY <1>2, <1>6, <2>2 DEF Exists
    <3>2. Counts(rows[other]) /\ rows[other].item # i
      BY <1>5, <2>2, <3>1 DEF UInv, Covered
    <3>3. rows[other].item \in Items /\ rows[other].period \in Ticks
      BY <3>1, SnapshotTypes DEF UInv
    <3> QED
      BY <1>3, <3>1, <3>2, <3>3 DEF Counts
  <2> QED
    BY <2>1, <2>2
<1>7. ASSUME NEW j \in Items \ displaced', NEW q \in Ticks,
             \A other \in RowIds : Exists(other)' => rows'[other].item # j
      PROVE  spent'[<<j, q>>] = 0
  <2>1. \A other \in RowIds : Exists(other) => Exists(other)' /\ rows'[other].item = rows[other].item
    <3>1. rows'[id] \in Row
      BY <1>1, <1>2 DEF Row
    <3> QED
      BY <1>2, <1>4, <3>1, NoneApart DEF Exists
  <2>2. j # i /\ \A other \in RowIds : Exists(other) => rows[other].item # j
    BY <1>1, <1>7, <2>1
  <2>3. spent[<<j, q>>] = 0
    BY <1>2, <1>7, <2>2 DEF UInv, Covered
  <2> QED
    BY <1>3, <2>2, <2>3
<1> QED
  BY <1>6, <1>7 DEF Covered

LEMMA NextCovered ==
  ASSUME UInv, [Next]_vars
  PROVE  UInv'
<1>1. IInv' /\ WriteIsNewer'
  BY NextInv, NextNewer DEF UInv
<1>2. CASE UNCHANGED tables
  BY <1>1, <1>2, TablesAlone DEF UInv, tables
<1>3. ASSUME NEW w \in Workers,
             SyncCreate(w) \/ SyncUpdate(w) \/ PlanChangeDb(w) \/ AdminDb(w)
      PROVE  UInv'
  BY <1>1, <1>3, SyncCreateCovered, SyncUpdateCovered, PlanChangeDbCovered, AdminDbCovered
     DEF UInv
<1>4. ASSUME NEW id \in RowIds, Consume(id)
      PROVE  UInv'
  BY <1>1, <1>4, ConsumeCovered DEF UInv
<1> QED
  BY <1>2, <1>3, <1>4
     DEF Next, vars, StripeCheckout, StripeRenew, StripeCancel, OpenCheckout, SyncStart,
         SyncRetry, SyncRead, Acknowledge, PlanChangeRead, PlanChangeStripe, AdminRead,
         AdminStripe, Crash

LEMMA InitCovered == Init => UInv
<1> SUFFICES ASSUME Init PROVE UInv
  OBVIOUS
<1>1. WriteIsNewer /\ Covered
  BY DEF Init, WriteIsNewer, Covered, Exists
<1> QED
  BY <1>1, InitInv DEF UInv

\* However syncs, plan changes and admin actions race with each other, with
\* changes at Stripe and with crashes, the row of an item that never lost it
\* counts all that the item used in the row's period.
THEOREM UsageOfItemsKept == Spec => []ItemUsageKept
<1>1. UInv /\ [Next]_vars => UInv'
  BY NextCovered
<1>2. UInv => ItemUsageKept
  BY DEF UInv, Covered, Counts, ItemUsageKept
<1> QED
  BY <1>1, <1>2, InitCovered, PTL DEF Spec

-----------------------------------------------------------------------------
(* Part 2.  Periods, without plan changes. *)

\* Without plan changes no request is in one.
NoPlanChange == \A w \in Workers : pc[w] \notin Planning

\* Allowances were given for periods the row has reached.
ResetsReached ==
  \A id \in RowIds, p \in Ticks :
    /\ resets[<<id, p>>] <= 1
    /\ resets[<<id, p>>] = 1 => Exists(id) /\ rows[id].period >= p

PInv == UInv /\ NoPlanChange /\ ResetsReached

\* What a step does to the rows.
Forward ==
  \A id \in RowIds :
    Exists(id) => rows'[id] # None /\ rows'[id].period >= rows[id].period

\* Requests other than w stay where they stand; w enters no plan change.
QuietAt(w) ==
  /\ \A u \in Workers \ {w} : pc'[u] = pc[u]
  /\ pc'[w] \notin Planning

\* A step that leaves the periods and the allowances alone.
LEMMA QuietStep ==
  ASSUME PInv, UInv', UNCHANGED resets, NoPlanChange',
         \A id \in RowIds :
           Exists(id) => rows'[id] # None /\ rows'[id].period = rows[id].period
  PROVE  PInv' /\ Forward
<1>1. Forward
  BY SnapshotTypes DEF PInv, UInv, Forward, Ticks
<1>2. ResetsReached'
  BY DEF PInv, ResetsReached, Exists
<1> QED
  BY <1>1, <1>2 DEF PInv

LEMMA QuietRequest ==
  ASSUME PInv, NEW w \in Workers, QuietAt(w)
  PROVE  NoPlanChange'
BY DEF PInv, NoPlanChange, QuietAt

LEMMA ForgetIsQuiet ==
  ASSUME IInv, NEW w \in Workers, Forget(w)
  PROVE  QuietAt(w)
BY DEF Forget, QuietAt, IInv, LocalTypes, Planning, Acting

LEMMA SyncReadForward ==
  ASSUME PInv, UInv', NEW w \in Workers, NEW v \in Version, SyncRead(w, v)
  PROVE  PInv' /\ Forward
<1>1. QuietAt(w)
  BY DEF SyncRead, QuietAt, PInv, UInv, IInv, LocalTypes, Planning
<1>2. UNCHANGED <<rows, resets>>
  BY DEF SyncRead, tables
<1> QED
  BY <1>1, <1>2, QuietRequest, QuietStep DEF Exists

\* A row was given an allowance for period p.
LEMMA Granted ==
  ASSUME PInv, UInv', NEW id \in RowIds, NEW p \in Ticks,
         resets[<<id, p>>] = 0, resets' = [resets EXCEPT ![<<id, p>>] = @ + 1],
         rows'[id] # None, rows'[id].period = p,
         Exists(id) => p >= rows[id].period,
         \A other \in RowIds \ {id} : rows'[other] = rows[other],
         NoPlanChange'
  PROVE  PInv' /\ Forward
<1>1. Forward
  BY SnapshotTypes DEF PInv, UInv, Forward, Ticks, Exists
<1>2. ResetsReached'
  <2> SUFFICES ASSUME NEW other \in RowIds, NEW q \in Ticks
               PROVE  /\ resets'[<<other, q>>] <= 1
                      /\ resets'[<<other, q>>] = 1 => Exists(other)' /\ rows'[other].period >= q
    BY DEF ResetsReached
  <2>1. CASE other = id /\ q = p
    <3>1. resets'[<<id, p>>] = 1
      BY DEF PInv, UInv, IInv, RowTypes
    <3> QED
      BY <2>1, <3>1 DEF Exists, Ticks
  <2>2. CASE other = id /\ q # p
    <3>1. resets'[<<id, q>>] = resets[<<id, q>>]
      BY <2>2 DEF PInv, UInv, IInv, RowTypes
    <3> QED
      BY <2>2, <3>1, SnapshotTypes DEF PInv, UInv, ResetsReached, Exists, Ticks
  <2>3. CASE other # id
    <3>1. resets'[<<other, q>>] = resets[<<other, q>>] /\ rows'[other] = rows[other]
      BY <2>3 DEF PInv, UInv, IInv, RowTypes
    <3> QED
      BY <3>1 DEF PInv, UInv, ResetsReached, Exists
  <2> QED
    BY <2>1, <2>2, <2>3
<1> QED
  BY <1>1, <1>2 DEF PInv

\* Nothing was allowed yet for a period that row id has not reached.
LEMMA NotYetGranted ==
  ASSUME PInv, NEW id \in RowIds, NEW p \in Ticks,
         Exists(id) => rows[id].period < p
  PROVE  resets[<<id, p>>] = 0
<1>1. resets[<<id, p>>] \in Nat /\ resets[<<id, p>>] <= 1
  BY DEF PInv, UInv, IInv, RowTypes, ResetsReached
<1>2. Exists(id) => rows[id].period \in Ticks
  BY SnapshotTypes DEF PInv, UInv
<1>3. resets[<<id, p>>] # 1
  BY <1>2 DEF PInv, UInv, ResetsReached, Ticks
<1> QED
  BY <1>1, <1>3

\* A row written from snapshot v.
LEMMA RowWritten ==
  ASSUME PInv, NEW v \in Version, NEW id \in RowIds, NEW k \in Skus, NEW u \in Nat,
         rows' = [rows EXCEPT ![id] =
           [item |-> v.item, sku |-> k, status |-> v.status, period |-> v.period,
            included |-> Included[v.sku], used |-> u]]
  PROVE  /\ rows'[id] # None /\ rows'[id].period = v.period
         /\ \A other \in RowIds \ {id} : rows'[other] = rows[other]
<1> DEFINE new == [item |-> v.item, sku |-> k, status |-> v.status, period |-> v.period,
                   included |-> Included[v.sku], used |-> u]
<1>1. new \in Row
  BY IncludedAssumption DEF Version, Row
<1>2. new # None
  BY <1>1, NoneApart
<1> QED
  BY <1>2 DEF PInv, UInv, IInv, RowTypes

LEMMA ReturnedIsQuiet ==
  ASSUME IInv, NEW w \in Workers, Returned(w)
  PROVE  QuietAt(w)
BY DEF Returned, QuietAt, IInv, LocalTypes, Planning

LEMMA SyncCreateForward ==
  ASSUME PInv, UInv', NEW w \in Workers, SyncCreate(w)
  PROVE  PInv' /\ Forward
<1>1. seen[w] \in Version /\ seen[w].period \in Ticks
  BY SnapshotTypes DEF SyncCreate, PInv, UInv, IInv, Calls
<1>2. NoPlanChange'
  BY ReturnedIsQuiet, QuietRequest DEF SyncCreate, PInv, UInv
<1>3. CASE UNCHANGED <<rows, resets>>
  BY <1>2, <1>3, QuietStep DEF Exists
<1>4. ASSUME NEW id \in RowIds, ~Exists(id),
             rows' = [rows EXCEPT ![id] =
               [item |-> seen[w].item, sku |-> seen[w].sku, status |-> seen[w].status,
                period |-> seen[w].period, included |-> Included[seen[w].sku], used |-> 0]],
             resets' = [resets EXCEPT ![<<id, seen[w].period>>] = @ + 1]
      PROVE  PInv' /\ Forward
  <2>1. resets[<<id, seen[w].period>>] = 0
    BY <1>1, <1>4, NotYetGranted
  <2>2. /\ rows'[id] # None /\ rows'[id].period = seen[w].period
        /\ \A other \in RowIds \ {id} : rows'[other] = rows[other]
    BY <1>1, <1>4, RowWritten, SnapshotTypes DEF PInv, UInv
  <2> QED
    BY <1>1, <1>2, <1>4, <2>1, <2>2, Granted
<1> QED
  BY <1>3, <1>4 DEF SyncCreate, tables

LEMMA SyncUpdateForward ==
  ASSUME PInv, UInv', NEW w \in Workers, SyncUpdate(w)
  PROVE  PInv' /\ Forward
<1> DEFINE v  == seen[w]
           id == found[w]
<1>1. /\ pc[w] = "sync_write" /\ id \in RowIds /\ Exists(id)
      /\ v \in Version /\ v.period \in Ticks /\ rows[id].period \in Ticks
  BY SnapshotTypes DEF SyncUpdate, PInv, UInv, IInv, Calls, LocalTypes
<1>2. CASE UNCHANGED <<rows, resets>> /\ Returned(w)
  BY <1>2, ReturnedIsQuiet, QuietRequest, QuietStep DEF Exists, PInv, UInv
<1>3. CASE /\ pc' = [pc EXCEPT ![w] = IF MayRetry(w) THEN "sync_retry" ELSE "returned"]
           /\ UNCHANGED <<rows, resets, seen, found, read, tries>>
  <2>1. QuietAt(w)
    BY <1>3 DEF QuietAt, PInv, UInv, IInv, LocalTypes, Planning
  <2> QED
    BY <1>3, <2>1, QuietRequest, QuietStep DEF Exists
<1>4. ASSUME NEW reset \in BOOLEAN, reset = (read[w] # v.period),
             Unmoved(w, id), Returned(w),
             rows' = [rows EXCEPT ![id] =
               [item |-> v.item, sku |-> @.sku, status |-> v.status, period |-> v.period,
                included |-> Included[v.sku], used |-> IF reset THEN 0 ELSE @.used]],
             resets' = IF reset THEN [resets EXCEPT ![<<id, v.period>>] = @ + 1] ELSE resets
      PROVE  PInv' /\ Forward
  <2>1. NoPlanChange'
    BY <1>4, ReturnedIsQuiet, QuietRequest DEF PInv, UInv
  <2>2. rows[id].period = read[w] /\ v.period >= read[w]
    BY <1>1, <1>4, NoneApart DEF Unmoved, PInv, UInv, WriteIsNewer, RowIds
  <2>3. /\ rows'[id] # None /\ rows'[id].period = v.period
        /\ \A other \in RowIds \ {id} : rows'[other] = rows[other]
    <3>1. rows[id].sku \in Skus /\ (IF reset THEN 0 ELSE rows[id].used) \in Nat
      BY <1>1, SnapshotTypes DEF PInv, UInv
    <3> QED
      BY <1>1, <1>4, <3>1, RowWritten
  <2>4. CASE reset
    <3>1. read[w] # v.period
      BY <1>4, <2>4
    <3>2. rows[id].period < v.period
      BY <1>1, <2>2, <3>1 DEF Ticks
    <3>3. resets[<<id, v.period>>] = 0
      BY <1>1, <3>2, NotYetGranted
    <3> QED
      BY <1>1, <1>4, <2>1, <2>2, <2>3, <2>4, <3>3, Granted
  <2>5. CASE ~reset
    BY <1>1, <1>4, <2>1, <2>2, <2>3, <2>5, QuietStep DEF Exists
  <2> QED
    BY <2>4, <2>5
<1> QED
  <2>1. ResetUsage(read[w], v) \in BOOLEAN /\ ResetUsage(read[w], v) = (read[w] # v.period)
    BY DEF ResetUsage
  <2> QED
    BY <1>2, <1>3, <1>4, <2>1 DEF SyncUpdate, tables

\* The admin actions write the status only, and uses the counter only.
LEMMA AdminDbForward ==
  ASSUME PInv, UInv', NEW w \in Workers, AdminDb(w)
  PROVE  PInv' /\ Forward
<1> DEFINE id  == found[w]
           new == [rows[id] EXCEPT !.status = seen[w].status]
<1>1. id \in RowIds /\ rows[id] \in Row /\ seen[w].status \in Statuses
  BY SnapshotTypes DEF AdminDb, PInv, UInv, IInv, Calls, LocalTypes, Acting
<1>2. new \in Row /\ new.period = rows[id].period
  BY <1>1 DEF Row
<1>3. rows' = [rows EXCEPT ![id] = new] /\ UNCHANGED resets /\ Forget(w)
  BY DEF AdminDb
<1>4. new # None
  BY <1>2, NoneApart
<1> HIDE DEF new
<1>5. \A r \in RowIds : Exists(r) => rows'[r] # None /\ rows'[r].period = rows[r].period
  BY <1>1, <1>2, <1>3, <1>4 DEF PInv, UInv, IInv, RowTypes, Exists
<1>6. NoPlanChange'
  BY <1>3, ForgetIsQuiet, QuietRequest DEF PInv, UInv
<1> QED
  BY <1>3, <1>5, <1>6, QuietStep

LEMMA ConsumeForward ==
  ASSUME PInv, UInv', NEW id \in RowIds, Consume(id)
  PROVE  PInv' /\ Forward
<1> DEFINE new == [rows[id] EXCEPT !.used = @ + 1]
<1>1. rows[id] \in Row
  BY SnapshotTypes DEF Consume, ActiveRows, PInv, UInv
<1>2. new \in Row /\ new.period = rows[id].period
  BY <1>1 DEF Row
<1>3. rows' = [rows EXCEPT ![id] = new] /\ UNCHANGED <<resets, local>>
  BY DEF Consume
<1>4. new # None
  BY <1>2, NoneApart
<1> HIDE DEF new
<1>5. \A r \in RowIds : Exists(r) => rows'[r] # None /\ rows'[r].period = rows[r].period
  BY <1>1, <1>2, <1>3, <1>4 DEF PInv, UInv, IInv, RowTypes, Exists
<1>6. NoPlanChange'
  BY <1>3 DEF local, PInv, NoPlanChange
<1> QED
  BY <1>3, <1>5, <1>6, QuietStep

\* Every other step leaves the rows alone.
LEMMA ElsewhereForward ==
  ASSUME PInv, UInv', UNCHANGED <<rows, resets>>,
         UNCHANGED local \/ \E w \in Workers : QuietAt(w)
  PROVE  PInv' /\ Forward
<1>1. NoPlanChange'
  <2>1. CASE UNCHANGED local
    BY <2>1 DEF local, PInv, NoPlanChange
  <2> QED
    BY <2>1, QuietRequest
<1> QED
  BY <1>1, QuietStep DEF Exists

LEMMA NextForward ==
  ASSUME ~PlanChanges, PInv, [Next]_vars
  PROVE  PInv' /\ Forward
<1>1. UInv'
  BY NextCovered DEF PInv
<1>2. CASE UNCHANGED vars
  BY <1>1, <1>2, ElsewhereForward DEF vars, tables
<1>3. CASE \E i \in Items : \/ \E session \in sessions : StripeCheckout(i, session)
                          \/ StripeRenew(i) \/ StripeCancel(i)
  BY <1>1, <1>3, ElsewhereForward DEF StripeCheckout, StripeRenew, StripeCancel, tables
<1>4. CASE \E k \in Skus : OpenCheckout(k)
  BY <1>1, <1>4, ElsewhereForward DEF OpenCheckout, tables
<1>5. CASE \E id \in RowIds : Consume(id)
  BY <1>1, <1>5, ConsumeForward
<1>6. ASSUME NEW w \in Workers, SyncStart(w) \/ SyncRetry(w)
      PROVE  PInv' /\ Forward
  <2>1. PICK v \in Version : SyncRead(w, v)
    <3>1. CASE SyncStart(w)
      BY <3>1 DEF SyncStart, PInv, UInv, IInv, RemoteTypes
    <3>2. CASE SyncRetry(w)
      BY <3>2, SnapshotTypes DEF SyncRetry, PInv, UInv, IInv, Calls
    <3> QED
      BY <1>6, <3>1, <3>2
  <2> QED
    BY <1>1, <2>1, SyncReadForward
<1>7. ASSUME NEW w \in Workers, SyncCreate(w) \/ SyncUpdate(w) \/ AdminDb(w)
      PROVE  PInv' /\ Forward
  BY <1>1, <1>7, SyncCreateForward, SyncUpdateForward, AdminDbForward
<1>8. ASSUME NEW w \in Workers, Acknowledge(w) \/ Crash(w)
      PROVE  PInv' /\ Forward
  BY <1>1, <1>8, ForgetIsQuiet, ElsewhereForward DEF Acknowledge, Crash, PInv, UInv, tables
<1>9. ASSUME NEW w \in Workers, NEW id \in RowIds, AdminRead(w, id)
      PROVE  PInv' /\ Forward
  <2>1. QuietAt(w)
    BY <1>9 DEF AdminRead, QuietAt, PInv, UInv, IInv, LocalTypes, Planning
  <2> QED
    BY <1>1, <1>9, <2>1, ElsewhereForward DEF AdminRead, tables
<1>10. ASSUME NEW w \in Workers, AdminStripe(w)
       PROVE  PInv' /\ Forward
  <2>1. UNCHANGED <<rows, resets>>
    BY <1>10 DEF AdminStripe, tables
  <2>2. CASE Forget(w)
    BY <1>1, <2>1, <2>2, ForgetIsQuiet, ElsewhereForward DEF PInv, UInv
  <2>3. CASE /\ pc' = [pc EXCEPT ![w] = "admin_db"]
             /\ \E v : seen' = [seen EXCEPT ![w] = v]
             /\ UNCHANGED <<found, read>>
    <3>1. QuietAt(w)
      BY <2>3 DEF QuietAt, PInv, UInv, IInv, LocalTypes, Planning
    <3> QED
      BY <1>1, <2>1, <3>1, ElsewhereForward
  <2> QED
    BY <1>10, <2>2, <2>3 DEF AdminStripe
<1>11. \A w \in Workers : /\ \A k \in Skus : ~PlanChangeRead(w, k)
                          /\ ~PlanChangeStripe(w) /\ ~PlanChangeDb(w)
  BY DEF PlanChangeRead, PlanChangeStripe, PlanChangeDb, PInv, NoPlanChange, Planning
<1> QED
  BY <1>2, <1>3, <1>4, <1>5, <1>6, <1>7, <1>8, <1>9, <1>10, <1>11 DEF Next

LEMMA InitPeriods == Init => PInv
<1> SUFFICES ASSUME Init PROVE PInv
  OBVIOUS
<1>1. NoPlanChange
  BY DEF Init, NoPlanChange, Planning
<1>2. ResetsReached
  BY DEF Init, ResetsReached
<1> QED
  BY <1>1, <1>2, InitCovered DEF PInv

\* While customers keep their plans, no order, repetition or race of webhook
\* deliveries, crashes and admin actions takes a row back to an earlier period.
THEOREM PeriodsGoForward == ~PlanChanges => (Spec => PeriodNeverRewinds)
<1> SUFFICES ASSUME ~PlanChanges PROVE Spec => PeriodNeverRewinds
  OBVIOUS
<1>1. PInv /\ [Next]_vars => PInv' /\ Forward
  BY NextForward
<1>2. PeriodNeverRewinds <=> [][Forward]_vars
  BY PTL DEF PeriodNeverRewinds, Forward
<1> QED
  BY InitPeriods, <1>1, <1>2, PTL DEF Spec

\* While customers keep their plans, a row gets at most one fresh allowance per
\* billing period.
THEOREM OneAllowancePerPeriod == ~PlanChanges => (Spec => []UsageResetOncePerPeriod)
<1> SUFFICES ASSUME ~PlanChanges PROVE Spec => []UsageResetOncePerPeriod
  OBVIOUS
<1>1. PInv /\ [Next]_vars => PInv'
  BY NextForward
<1>2. PInv => UsageResetOncePerPeriod
  BY DEF PInv, ResetsReached, UsageResetOncePerPeriod
<1> QED
  BY InitPeriods, <1>1, <1>2, PTL DEF Spec

-----------------------------------------------------------------------------
(* Part 3: the deliveries of StripeWebhook *)

\* The row of an event in process is a claim that has not expired, or was marked
\* processed by a call that seemed to fail.
HolderIsLocked ==
  \A w \in Deliveries :
    at[w] \in Holding /\ event[w] \notin overrun
      => \/ status[event[w]] = "processing" /\ event[w] \notin stale
         \/ /\ at[w] = "mark_failed" /\ event[w] \in unsure
            /\ status[event[w]] = "processed"

WebhookIInv == WebhookTypeOK /\ HolderIsLocked /\ OneHolder

LEMMA WebhookInitInv == WebhookInit => WebhookIInv
BY NoEventAssumption
DEF WebhookInit, WebhookIInv, WebhookTypeOK, HolderIsLocked, OneHolder, Holding

\* Every step keeps the invariant.
LEMMA WebhookNextInv == WebhookIInv /\ [WebhookNext]_webhookVars => WebhookIInv'
<1> SUFFICES ASSUME WebhookIInv, [WebhookNext]_webhookVars PROVE WebhookIInv'
  OBVIOUS
<1> USE DEF WebhookIInv, WebhookTypeOK, HolderIsLocked, OneHolder, Holding, End, Answer,
            history
<1>1. ASSUME NEW w \in Deliveries, NEW e \in Events, Receive(w, e) PROVE WebhookIInv'
  BY <1>1, NoEventAssumption DEF Receive, IsNew
<1>2. ASSUME NEW w \in Deliveries, Reclaim(w) PROVE WebhookIInv'
  BY <1>2, NoEventAssumption DEF Reclaim, MayReclaim
<1>3. ASSUME NEW w \in Deliveries, ProcessOk(w) PROVE WebhookIInv'
  BY <1>3, NoEventAssumption DEF ProcessOk
<1>4. ASSUME NEW w \in Deliveries, ProcessError(w) PROVE WebhookIInv'
  BY <1>4, NoEventAssumption DEF ProcessError
<1>5. ASSUME NEW w \in Deliveries, MarkProcessed(w) PROVE WebhookIInv'
  BY <1>5, NoEventAssumption DEF MarkProcessed, WriteProcessed
<1>6. ASSUME NEW w \in Deliveries, MarkProcessedError(w) PROVE WebhookIInv'
  BY <1>6, NoEventAssumption DEF MarkProcessedError, WriteProcessed
<1>7. ASSUME NEW w \in Deliveries, MarkFailed(w) PROVE WebhookIInv'
  BY <1>7, NoEventAssumption DEF MarkFailed
<1>8. ASSUME NEW w \in Deliveries, Die(w) PROVE WebhookIInv'
  BY <1>8, NoEventAssumption DEF Die
<1>9. ASSUME NEW e \in Events, Elapse(e) PROVE WebhookIInv'
  BY <1>9, NoEventAssumption DEF Elapse, Holders
<1>10. CASE UNCHANGED webhookVars
  BY <1>10 DEF webhookVars
<1> QED
  BY <1>1, <1>2, <1>3, <1>4, <1>5, <1>6, <1>7, <1>8, <1>9, <1>10
     DEF WebhookNext, Deliver, Resend

LEMMA WebhookInvariant == WebhookSpec => []WebhookIInv
BY WebhookInitInv, WebhookNextInv, PTL DEF WebhookSpec

\* Rows, claims and handlers keep their types, a claim is only stale while the
\* event is being processed, and a handler always has an event with a row.
THEOREM WebhookTypeCorrect == WebhookSpec => []WebhookTypeOK
BY WebhookInvariant, PTL DEF WebhookIInv

\* claimStripeWebhookEvent lets one delivery of an event through at a time, for
\* any number of deliveries that overlap, fail or die.
THEOREM AlwaysOneHolder == WebhookSpec => []OneHolder
BY WebhookInvariant, PTL DEF WebhookIInv

\* A step leaves a processed event processed.
LEMMA StepFinal ==
  WebhookIInv /\ [WebhookNext]_webhookVars =>
    [\A e \in Events \ (overrun \cup unsure) :
       status[e] = "processed" => status'[e] = "processed"]_webhookVars
<1> SUFFICES ASSUME WebhookIInv, WebhookNext,
                    NEW e \in Events \ (overrun \cup unsure), status[e] = "processed"
             PROVE  status'[e] = "processed"
  OBVIOUS
<1> USE DEF WebhookIInv, WebhookTypeOK, HolderIsLocked, Holding
<1>1. ASSUME NEW w \in Deliveries, NEW e2 \in Events, Receive(w, e2)
      PROVE  status'[e] = "processed"
  BY <1>1 DEF Receive, IsNew
<1>2. ASSUME NEW w \in Deliveries, Reclaim(w) PROVE status'[e] = "processed"
  BY <1>2 DEF Reclaim, MayReclaim
<1>3. ASSUME NEW w \in Deliveries, MarkProcessed(w) PROVE status'[e] = "processed"
  BY <1>3 DEF MarkProcessed, WriteProcessed
<1>4. ASSUME NEW w \in Deliveries, MarkFailed(w) PROVE status'[e] = "processed"
  BY <1>4 DEF MarkFailed
<1>5. ASSUME NEW w \in Deliveries,
             ProcessOk(w) \/ ProcessError(w) \/ MarkProcessedError(w) \/ Die(w)
      PROVE  status'[e] = "processed"
  BY <1>5 DEF ProcessOk, ProcessError, MarkProcessedError, WriteProcessed, Die
<1>6. ASSUME NEW e2 \in Events, Elapse(e2) PROVE status'[e] = "processed"
  BY <1>6 DEF Elapse
<1> QED
  BY <1>1, <1>2, <1>3, <1>4, <1>5, <1>6 DEF WebhookNext, Deliver, Resend

\* Once markStripeWebhookProcessed has written its row and returned, no delivery,
\* failure or crash makes the event claimable again.
THEOREM ProcessedStaysFinal == WebhookSpec => ProcessedIsFinal
<1>1. WebhookIInv /\ [WebhookNext]_webhookVars =>
        [\A e \in Events \ (overrun \cup unsure) :
           status[e] = "processed" => status'[e] = "processed"]_webhookVars
  BY StepFinal
<1> QED
  BY <1>1, WebhookInvariant, PTL DEF WebhookSpec, ProcessedIsFinal
=============================================================================
