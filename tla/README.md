# Comp AI: specifications of its stateful core

TLA+ specifications of the parts of the Comp AI platform (apps/api) in which
concurrent requests, retries, webhooks and crashes meet on shared rows: what is
paid for (credits, allowances, subscriptions, penetration tests, background
checks), what is approved and signed (policies), the timelines of audits, and
the versions of frameworks.  Every definition is translated from the TypeScript
sources; TLC checks each module on small instances and TLAPS proves the main
results for every value of the constants.

Paths below are relative to `apps/api/src/` unless they start with `packages/`
or `apps/`.  `PROJECT.json` maps every definition to the lines it models.

## 1. The system

Comp AI is a compliance platform: a NestJS API over one PostgreSQL database
(Prisma), web applications, Trigger.dev jobs, a desktop device agent and
integrations with many vendors.  No request holds state between its steps
except in the database: what goes wrong, goes wrong between two database calls
of a request, between a database call and a call of an external service, or
between two deliveries of a webhook.  Transactions run at PostgreSQL's default
READ COMMITTED, so that even inside a transaction a read may be stale when the
write happens; the code relies on unique keys and on conditional `updateMany`s.

### Components that are modelled

| Component (files) | State | Operations | What is hard | What makes it correct |
|---|---|---|---|---|
| Manual credit wallet (`billing/billing-credits.service.ts`) | `billing_credit_balances` (four counters), `billing_credit_events` (keyed ledger) | grant, consume, refund | concurrent calls for one source, balances drained between listing and taking, repeated keys | counters equal the ledger; a source pays once; what is refunded was paid |
| Included usage (`billing/billing-entitlements.service.ts:15-167,332-392`, `billing-included-usage-refunds.ts`) | `usedQuantity`, `includedQuantity` of a subscription row, `billing_usage_events` | consume with fallback to a credit, refund | the subscription is read twice before the guarded increment; renewals, lapses and plan changes in between; refunds after the period's reset | never more held than allowed; one payment per source; refunded usage is free again |
| Subscription sync (`billing/billing-entitlements.service.ts:157-291`, `billing-subscription-plans.ts`, `billing.service.ts`, `admin-organizations/admin-billing-actions.service.ts`) | `organization_billing_subscriptions`; Stripe's items | webhook sync with a compare-and-set and one retry, checkout, plan change, admin cancel and resume | late, repeated, reordered and concurrent snapshots; Stripe changed and the database not | a period never goes back; one allowance per period; usage is not wiped |
| Stripe webhook records (`billing/stripe-webhook-records.ts`, `billing-webhook.service.ts`) | `stripe_webhook_events` | claim, take over, mark processed or failed | overlapping deliveries, dead handlers, marks that fail or whose reply is lost, Stripe stopping at the first 2xx | one handler per event; processed once; processed in the end |
| Penetration tests (`security-penetration-tests/security-penetration-tests.service.ts`) | `security_penetration_test_runs`, runs at Maced | create (pay, start, record with retries, refund), failure and completion webhooks | provider, database or process failing at every step; webhooks early and repeated | no run for free, failed runs refunded, one audit entry |
| Policies (`policies/policies.service.ts`, `trigger/policies/update-policy-helpers.ts`, the review schedule and the portal's signing) | `policies`, `policy_versions`, `signedBy` | PATCH, publish all, create, edit, delete, publish and activate versions, submit, accept, deny, regenerate, review, sign | decisions on rows read outside the transaction that writes; a list of signatures read and written back | approver and pending version together; no publication past the approver; signatures are for the content in force |
| Timelines (`timelines/`, `frameworks/frameworks-timeline.helper.ts`) | `timeline_instances`, `timeline_phases` | activate, pause, resume, complete, unlock, reset, reopen, edit phases | a person and a metric complete one phase; metrics fall while people lock; dates recalculated from different places | phases go in order; the lock holds; each phase starts when the one before it ends |
| Framework versioning (`frameworks/framework-versioning/`) | rows made from templates, requirement maps, links and edges; `framework_sync_operations`; an advisory lock | sync, rollback | frameworks share rows; instances lack rows of their version; a rollback checks before it locks; users edit meanwhile | a sync can be undone exactly; frameworks keep their rows; done work is not deleted |
| Background checks (`background-checks/`) | `background_check_requests`, checks at Identity | request (record, pay, order, store), webhook, upload | racing requests, failing calls, replies lost, webhooks between the steps | one request pays; no unpaid check; no payment disappears |

### How they interact

    Stripe --webhooks--> StripeWebhook --processEvent--> SubscriptionSync
                                                            | writes period, allowance
    createReport (PentestRuns)      --+                     v
    requestForMember (Background-     +--pay / refund--> UsageAllowance --fallback--> CreditWallet
      Checks)                       --+                                               (= CreditLedger)
    Maced, Identity --webhooks--> PentestRuns, BackgroundChecks

    FrameworkVersioning --creates, updates, archives--> policies, tasks, controls
    PolicyApproval (publications), tasks, people --checkAutoCompletePhases--> Timeline

Each module abstracts its neighbours to what they promise.  `PentestRuns` and
`BackgroundChecks` pay in one step from a pool (`available`); `UsageAllowance`
opens that step up, sees the subscription renewed, lapsed and moved in single
steps, and pays credits through `CreditLedger`; `SubscriptionSync` opens up the
renewals and plan changes, with one guarded increment for a consume;
`CreditWallet` opens up the credits and is shown to implement `CreditLedger`.
What the metrics of a timeline say is any choice in `Timeline`: the hook that
policies and tasks call after their writes is fired and forgotten, so it may come
at any time, late, twice or never.  `FrameworkVersioning` sees a policy as a row
that is finished (published) or not; `PolicyApproval` opens one policy up.

### Components that are not modelled

Planned (see section 5):

- **Trust portal access** (`trust-portal/trust-access.service.ts`): request,
  approval, NDA, grant, revocation; one grant per request by a unique key.
- **OAuth credentials** (`integration-platform/services/credential-vault.service.ts`):
  refresh with rotated tokens, racing itself.
- **Cloud remediation** (`cloud-security/remediation.service.ts`): execution and
  rollback around crashes.

Out of scope, with reasons in `PROJECT.json`: plain CRUD with one row and one
write per request (tasks, findings, comments, risks, vendors, training, members,
checklists), request guards around the auth library, document and model-call
pipelines (questionnaires, SOA, vector store, browser automation), integration
manifests, Trigger.dev jobs, the desktop agent, the web applications, e-mail
templates, generated code and seeds.

## 2. The modules

Each specification has one action per database call, transaction or external
call; local variables `pc`, ... say where each concurrent request stands, so
that all interleavings are explored.  Requests are anonymous workers: any
worker may start any operation.  An external service is a few actions that
change its own state whenever it likes.  Crashes forget what a request knew and
leave the tables as they are.

**`CreditLedger`** is the abstract specification of the wallet: credits are
granted, a source pays at most one credit and gets back at most that one.

**`CreditWallet`** is `BillingCreditsService`.  `GrantFind`, `GrantCreate`,
`GrantWrite` are `findOrCreateBalance` and the grant transaction; `ConsumeCheck`,
`ConsumeList`, `ConsumeDrained`, `ConsumeWrite` the lookup of an earlier
consumption, the listing of balances and the loop over them; `RefundFind`,
`RefundWrite` the refund.  A transaction that meets a unique key has no effect.

**`UsageAllowance`** follows each source through `ConsumeStart` (the lookup over
the product), `ConsumeRead` (the lookup of the SKU), `ConsumeWrite` (the
transaction: event and guarded increment) and `ConsumeCredit` (the fallback);
`RefundUsage` and `RefundCredit` are the refund paths; `Renew`, `Expire`,
`Cancel`, `ChangePlan`, `GrantCredit` change what they read.  The history
variables `best` and `given` keep what the plans gave: the largest allowance in
force in this period, and the sum of those of the periods before.

**`SubscriptionSync`** has Stripe's items (`StripeCheckout`, `StripeRenew`,
`StripeCancel`), every state an item has had (`emitted`, which webhooks may carry
in any order and any number of times), and the requests: `SyncRead`,
`SyncCreate`, `SyncUpdate` are `syncSubscriptionItem` statement by statement
with its retry, `OpenCheckout`, `PlanChangeRead`, `PlanChangeStripe`,
`PlanChangeDb` are the checkout and plan change, `AdminRead`, `AdminStripe`,
`AdminDb` the admin actions.  A billing period is the tick at which it starts.
The history variable `spent` counts what each item used in each period, whichever
row it had.  Rows without a `currentPeriodStart` are left out, and with them the
null cases of `billing-entitlements.service.ts:188-199`: an item of Stripe always
has a period.

**`StripeWebhook`** has one `Deliver` (or `Resend`) / `Reclaim` / `ProcessOk` or
`ProcessError` / `MarkProcessed`, `MarkProcessedError` or `MarkFailed` sequence per
delivery.  Stripe delivers (`Deliver`) only what was not `answered` with 2xx;
after that somebody must `Resend` it.  A mark that fails may have been committed
all the same (`MarkProcessedError`).  Time is reduced to `Elapse`: the 15 minutes
after which a claim may be taken over.

**`PentestRuns`** has `Pay`, `Blocked`, `CreateAtMaced`, `Persist`,
`PersistError`, `RefundQuietly` for `createReport`, and `WebhookRefund`,
`WebhookRefundError`, `WebhookNoRefund`, `AuditClaim`, `AuditWrite` for
`handleWebhook`.

**`BackgroundChecks`** has `RequestLookup` ... `RequestSaveIdentity` for the five
steps of `requestForMember` and its failure paths, `WebhookReceive` and
`WebhookUpdate`, `AttachUpsert` and `AttachComplete`.

**`PolicyApproval`** is one policy.  An operation is a `...Read` step, which
reads, checks and notes in `job` what it will write, and a `...Write` step, which
writes that whatever the rows say by then; `Abandon` is a failure or crash in
between.  `PatchRead/Write` is `updateById`, `PublishAll...`, `Review...` (the
schedule), `Create...`, `Edit...` (`updateVersionContent`), `Delete...`,
`Publish...` (`publishVersion`), `Activate...` (`setActiveVersion`), `Submit...`,
`Accept...`, `Deny...`, `Heal...` (the approver found without a version),
`Regenerate...` (the job), `View` with `AcceptPolicy` or `CompleteRead`,
`CompleteWrite` (an employee opens the policy and signs in one of two ways).

**`Timeline`** is one timeline with its phases, in the same style: `Activate...`,
`Pause...`, `Resume...`, `Unlock...`, `Reset...`, `Complete...` (`completePhase`,
called by people and by `checkAutoCompletePhases`), `Reopen...`
(`reconcileAutoPhasesForOrganization`), `Update...`, `AddPhase`, `Remove...`.
`Recalculated` is `recalculatePhaseDates`, over the phases in their order.  The
recalculation after an update is in no transaction: with the phase written the
job stands at `refresh`, `RefreshRead` reads the phases and leaves it at `redate`,
each `RefreshWrite` writes the dates of the next phase, whatever has changed since,
and `RefreshEnd` is the end of the loop; requests interleave and crashes happen
between any two writes.  `shifted` remembers that dates moved apart from the
schedule they come from: after a resumption, a phase added before dated ones or
removed from before them, an update without a recalculation, one before completed
phases that it leaves where they are, and a recalculation that never came or died
among its writes.  A timeline starts as `createInstanceFromTemplate` makes it, in
draft.  Those of the backfill (`timelines-backfill.helper.ts`: active with all
phases completed or with a shortened first phase, :165-194 and :217-226, completed
without `lockedAt`, :340-347) are not modelled.

**`FrameworkVersioning`** is an organisation with several framework instances.
`SyncRead` takes the advisory lock and reads; `SyncWrite` commits what `Plan` says
and records it; `RollbackCheck` is the validation of `rollback`, `RollbackWrite`
takes the lock and undoes what was recorded (`Replayable`, `Undone`); `Abort` is
every failure.  `Edit`, `SetStatus`, `Delete`, `DeleteDraft` are users.  A row is
named by its template and the number of the sync that created it, 0 for those of
the organisation's first day, since a framework comes to a row only through its
template.  At first up to `MaxEdits` rows, mappings, links and edges are missing from what
the manifests list (`Init`): old instances were set to
version 1.0.0 without comparing (`packages/db/src/scripts/backfill-framework-versions.ts:68-89`;
the comment at `framework-sync-apply.ts:222-228` speaks of them).  Instances that have more than
their manifest, or other texts at first, are left out.  The
rollback window of 14 days is left out, since a refusal changes nothing.

*History variables*, which no guard reads, name the behaviours a property leaves
out: `overrun`, `unsure`, `premature` (StripeWebhook: a handler outlived its claim,
a written mark whose reply was lost, a duplicate answered while the claim was
fresh), `moved`, `oversold` (UsageAllowance: the plan has changed; sources that
took a unit which no plan of their period gave), `displaced` (SubscriptionSync:
items whose row went to another item or was set back by an overtaken plan change),
`early` (PentestRuns: the failure was
answered before the row existed), `lost` (BackgroundChecks: a create call failed
after it took effect) next to `died`.  In the modules with Read and Write steps
`overtaken` holds the requests whose read is out of date: a request enters it when
another's write changes something it decided upon.  `tainted`, `dangling`,
`patched` (PolicyApproval), `late`, `edited`, `shifted` (Timeline) and `crossed`,
`lost`, `drifted` (FrameworkVersioning) remember that such a request wrote, that an
operation did what the module names, or what was missing at first.  The properties hold in all other
interleavings of the same requests, most of which overlap too; section 3 says
what happens in these.

## 3. What the runs check

The `MC*` modules give the constants values; every run ends within three minutes.

| Run | Instance | Shows |
|---|---|---|
| `credit_wallet` | 2 balances, 2 sources, 2 workers, 1 grant request per balance | counters match the ledger (`CountersMatchLedger`), one charge per source (`ChargedAtMostOnce`), refinement of `CreditLedger` (`ImplementsLedger`) |
| `usage_allowance` | 4 sources, 2 plans (1 and 2 units), 3 periods, 1 credit | `NeverOversold`, `UsedIsHeld`, `PaidOnce` |
| `sync_webhooks` | 1 plan, 2 items, 2 workers, 4 changes at Stripe, no plan changes | `PeriodNeverRewinds`, `UsageResetOncePerPeriod` |
| `sync_plans` | 2 plans, 2 items, 2 workers, 2 rows, 3 changes, plan changes, trials, admin actions | `ItemUsageKept` |
| `sync_stuck_plan` | as above, 1 worker, 5 changes | finding: `AcknowledgedEventApplied` |
| `webhooks` | 1 event, 3 deliveries at a time, deaths, failing marks | `OneHolder`, `ProcessedIsFinal`, `EventuallyProcessed` |
| `pentest_runs` | 2 runs over 1 unit, early webhooks, crashes | `FailureSettled`, `AuditedAtMostOnce`, `OnlyEarlyIsLost`, `FailedRunRefunded` |
| `checks` | 2 members, 2 workers, 1 unit | `OneRequestPays`, `RunningCheckIsPaid`, `PaymentAccounted` |
| `checks_stuck` | 1 member, 1 worker, no allowance | finding: `SuccessMeansPaid` |
| `policies` | 3 versions, 2 contents, 1 approver, 1 employee, 2 workers, 5 requests | `ApprovalFieldsTogether`, `SignaturesCurrent`, `PendingFrozen`, `NotBypassed`, `SignaturesNotLost` |
| `timelines` | 3 phases, 2 workers, 4 requests, one tick of the clock, 3 kinds of update (2.7 million states, the largest run) | `Frontier`, `LockHolds`, `DatesChained` |
| `framework_versions` | 2 frameworks with 3 and 2 versions sharing a control, a task and a policy, 2 workers, 2 syncs, 2 missing parts or steps of users | `SyncIsUndoable`, `VersionFollowsSyncs`, `ManifestCovered`, `WorkKept` |

Every passing run but `sync_plans`, which asks its question of the module of
`sync_webhooks`, also checks its module's `TypeOK`
(`WebhookTypeOK` in `StripeWebhook`, whose names are its own because its theorems
stand beside those of `SubscriptionSync`), and every action of the
modules fires in them.  Some invariants that TLAPS proves for every value of the
constants are not run as well: `ConsumedIsCharged` (CreditWallet),
`NeverOverbooked`, `MarkedIsRefunded` (PentestRuns), `VersionsKept`
(PolicyApproval), `CompletedIsLocked` (Timeline).

*Why the bounds are enough.*  A race needs two requests that hold stale reads,
and a third step that invalidates them: two workers, plus Stripe, plus the other
worker's write.  `webhooks` has three, for a claim, the delivery that takes it
over and a duplicate.  Two balances are needed for "the first is drained, try
the next"; three periods, of which the plan changes in one, for a refund after a
reset and for a call that reads in one period and takes in another; four sources
for a unit taken beyond what a downgraded plan gives while earlier ones are held; two rows and two items for a conflict of the unique
keys; three changes at Stripe for a subscription, a plan change and a renewal,
four for two subscriptions that are both renewed; one unit and two runs or two
members, for a refusal.  `policies` has a version in force, one pending and one
created or regenerated meanwhile; five requests are enough for submit, approve,
view, overtaken signature and one more.  `timelines` has a phase before, in and
after the one in progress; four requests for activation, two overlapping
completions and a reopening or update.  `framework_versions` has two syncs for a
later sync on the same or on another framework, three versions of which the
third drops what the second changed, and two parts that are missing at first or
steps of users, for a row gone with its edge, or an edit and a completion or
deletion between sync and rollback.  Symmetry is used on
interchangeable sources, members, items, versions, phases and workers, never in a
run with a liveness property.  Where the theorems of section 4 hold, the bounds do not matter.

*Deadlock* is checked except where the system may really stop: all sources are
settled (`usage_allowance`), all runs are over (`pentest_runs`), the bounds on
requests, syncs and steps are reached (`policies`, `timelines`,
`framework_versions`).

*Fairness.*  `WebhookFairSpec`: Stripe delivers what no delivery has answered
with 2xx (strong fairness of `Deliver`, which that answer disables for good; nobody
has to `Resend`), a live handler goes on, time passes (`Elapse`), and an attempt
made over and over does not fail every time (strong fairness of `Reclaim`,
`ProcessOk`, `MarkProcessed`).  Nothing is assumed of any single attempt, and
`EventuallyProcessed` names the one way in which an event is lost all the same.  `PentestRuns!FairSpec`: Maced redelivers a failure until it is
answered with 2xx (the comment at
`security-penetration-tests.service.ts:609-616` relies on it), and the refund
transaction does not fail at every redelivery.

*Mutants.*  For every property of every passing run `PROJECT.json` names a
plausible bug (`..._Unkeyed`, `..._AnyAge`, ... in the modules) under which the
run's own configuration violates the property.

### Findings

1. **A plan that cannot be returned to** (`sync_stuck_plan`).
   `changeSubscriptionPlan` changes Stripe first; the local update of `skuKey`
   then breaks the unique key (organisation, sku) if the organisation had that
   plan before.  From then on every webhook of the subscription looks up the old
   row of that SKU, meets the unique key of the item and is swallowed as a
   duplicate: renewals are acknowledged and never applied.
2. **A check that can never be ordered** (`checks_stuck`).  The record is created
   before the payment and survives its refusal; later requests return it as if
   they had succeeded.

### Behaviours worth knowing

They are visible in the models and are what the properties' exceptions are about.
Where a comment of the code says otherwise it is named.

Billing and paid checks:

- A webhook can be lost: a second delivery within 15 minutes of a claim is
  answered 200 as a duplicate (`stripe-webhook-records.ts:48`), so Stripe sends the
  event no more; if the claim's handler then dies, or fails, with or without
  marking the row, the event is never processed.  The comment at
  `billing-webhook.service.ts:61` ("Preserve the processing error so Stripe retries
  for the real failure") counts on a retry that does not come.
  `EventuallyProcessed` says that this is the only way.
- When the mark `processed` is committed and its reply lost, the event is marked
  failed and processed again (`billing-webhook.service.ts:55-60`); `unsure` names it.
- The bound of the guarded increment is the allowance as it was read
  (`billing-entitlements.service.ts:144-150`): a call that reads a larger plan,
  before a downgrade and a renewal, takes a unit that no plan of its period gave.
  `NeverOversold` says that only such calls (`oversold`) exceed what the plans gave.
- An item can use its allowance twice in a period when its row has gone to
  another item of the same plan and a plan change overtaken by that writes it
  back with the other's usage, or when such a change takes back a period that was
  synced meanwhile (`billing-subscription-plans.ts:128-134`).  `ItemUsageKept` says
  that nothing else does (`displaced`).
- A `pentest.failed` that overtakes the ownership row finds nothing to refund, is
  answered 200 and is not sent again (`security-penetration-tests.service.ts:721`;
  the comment at 614-615 fears just that).  `OnlyEarlyIsLost` says it is the only
  way to lose a refund.
- Of two events of one period the last one to arrive wins
  (`billing-entitlements.service.ts:188` compares periods only), so a late event
  can re-activate a subscription that ended.
- A plan change writes the period Stripe answered over one that was synced
  meanwhile (`billing-subscription-plans.ts:128-134`); this is why the period
  theorems assume no plan changes.  An upgrade that ends a trial carries the
  trial's usage into the new period.
- Two checkout sessions can be open at once and both be paid
  (`billing.service.ts:275`).
- A unit used before a plan change is not given back by a refund after it: the
  refund looks for the row by the old SKU (`billing-included-usage-refunds.ts:54`).
- A late background-check webhook can take a completed check back to an earlier
  status (`background-checks.service.ts:250`).
- A process that dies between paying and recording leaves the unit taken; no code
  recovers it (pentests, from :302, and background checks alike).
- A handler that runs for longer than its 15-minute claim can turn another
  handler's `processed` into `failed`, after which the event is processed again.

Policies (`policies.service.ts`):

- The row is written whatever it says by then: the check of `updateById` (comment
  at :360) does not exclude a publication between its read and its write, nor does
  `acceptChanges` notice that another version was submitted, or that the approver
  denied, after its read.  `overtaken` marks these requests.
- `setActiveVersion` of the pending version publishes it without the approver,
  deliberately.  `denyChanges` of a policy that was activated and never published
  takes it to draft, the comment at :1187 speaks of the previous state.
- `publishVersion` publishes `draftContent`, which a PATCH of `content` does not
  change; `updateVersionContent` of a draft's current version leaves
  `policy.content` behind; publishing with `setAsActive` false leaves the current
  version behind.
- A published policy taken back to draft, edited and submitted is, after a denial,
  published again with the edited content and the old signatures.
- `mark-policy-completed` writes the whole list of signatures back: a signature
  given meanwhile is lost, one that was cleared comes back.

Timelines:

- A phase added before the one in progress, or the removal of that, leaves the
  timeline stuck until it is reset; a phase added to a completed timeline stays
  pending.
- The shift of a pause is forgotten by the next recalculation, which starts from
  the start date again.  `updatePhase` with a duration only keeps a stale start on
  an unpinned phase, and its recalculation is not in its transaction.
- The recalculation of `updatePhase` passes over completed phases that are not
  pinned (`timelines-phases.service.ts:100`): after a reopening and an update of a
  phase before them they keep dates that no longer follow, and the phases after
  them are dated from what they should have been.  Unpinning a phase recalculates
  nothing.  `Diverges` names these updates.
- A second completion of a phase moves its pinned end without a recalculation.
- The recalculation after an update writes the phases one by one, in no transaction
  (`timelines-phases.service.ts:93-104`): an error or crash leaves the rest with their
  old dates, and what others write between its read and its writes is overwritten.
- An overtaken `removePhase` can give two phases one `orderIndex`, after which an
  activation starts both, and a reset does not repair it.
- An unlocking that races the last completion leaves the timeline completed and
  open (`timelines-lifecycle.service.ts:254`); two reopenings at once leave two
  phases in progress.

Framework versioning:

- `rollback` validates before it takes the lock (`framework-rollback.service.ts:
  20-49`): a sync or rollback that commits in between lets it undo a sync in the
  middle of the chain, which its comment at :32 excludes.  `crossed` names it.
- Undoing a framework's sync under a later sync of another can delete rows the
  other has come to use, bring back a second active row of a template, or leave
  its own manifest without one; only syncs of the same framework are checked.
- Once a user deletes a draft that a sync added, or a row it changed, the rollback
  fails each time (the comment at :204 promises a reliable undo).
- An instance set to version 1.0.0 by the backfill may lack rows, mappings, links
  or edges of its manifest.  Its next sync creates what is missing
  (`framework-sync-apply.ts:222-228`, `framework-sync-apply.spec.ts:306-395`), but
  for policies, which are created only when the new version adds them
  (`framework-sync-apply.ts:153`): a policy it lacked stays missing, with its edges.
  `ManifestCovered` speaks of frameworks that lacked nothing or were synced, and
  not of such policies.
- A rollback writes the old texts over those users edited since the sync;
  `assertNoDataLoss` looks at created tasks and policies only.

## 4. What is proved

TLAPS proves the following for any number of plans, items, rows, sources,
balances, runs, members, versions, phases, frameworks with any manifests, workers
and deliveries, and any bounds, from the assumptions named at the constants of each module (finite sets where cardinalities are
taken, naturals, `None` apart from the values).

| Module | Theorems |
|---|---|
| `CreditWallet_proofs` | `TypeCorrect`, `CountersAlwaysMatch`, `AlwaysChargedAtMostOnce`, `ConsumedAlwaysCharged`, `WalletImplementsLedger` |
| `UsageAllowance_proofs` | `TypeCorrect`, `AlwaysNeverOversold`, `UsedIsAlwaysHeld`, `AlwaysPaidOnce` |
| `SubscriptionSync_proofs` | `TypeCorrect` (with the two unique keys), `UsageOfItemsKept`; without plan changes `PeriodsGoForward`, `OneAllowancePerPeriod`; of `StripeWebhook` `WebhookTypeCorrect`, `AlwaysOneHolder`, `ProcessedStaysFinal` |
| `BackgroundChecks_proofs` | `TypeCorrect`, `AlwaysOneRequestPays`, `RunningChecksArePaid`, `PaymentsAccounted` |
| `PentestRuns_proofs` | `TypeCorrect`, `AlwaysNeverOverbooked`, `FailuresSettled`, `MarkedAlwaysRefunded`, `AlwaysAuditedAtMostOnce`, `LossesAreEarly` |
| `PolicyApproval_proofs` | `TypeCorrect`, `ApprovalFieldsAlwaysTogether`, `VersionsAlwaysKept`, `SignaturesAlwaysCurrent`, `PendingAlwaysFrozen`, `NeverBypassed`, `SignaturesNeverLost` |
| `Timeline_proofs` | `TypeCorrect`, `FrontierHolds`, `CompletedStaysLocked`, `LockAlwaysHolds`, `DatesStayChained` |
| `FrameworkVersioning_proofs` | `TypeCorrect`, `VersionsFollow`, `SyncsUndoable`, `WorkIsKept`, `ManifestsCovered` |

Each file states an inductive invariant, proves that the initial states satisfy
it and that every action keeps it (one lemma or step per action), and derives
the theorems.

- *Wallet.*  `CountersMatchLedger` alone is not inductive: a refund lowers the
  number of holders by one only if a source is charged at most once, and a refund
  in flight must have a consumption to give back.  `IInv` adds
  `ChargedAtMostOnce` and what each call in flight carries (`CallsWellFormed`).
  The refinement maps a balance to its `totalGranted` and a source to what its
  events say; every wallet step is a step of the ledger or a stutter.
- *Allowance.*  What sources hold is bounded through the counter: a unit held is
  held on account of an earlier period (`given`), of this one, which counts it, or
  of the call that oversold it (`Counted`).  The second bound of `Counted`, with
  `best` for the counter, is `NeverOversold`; it is kept because an increment
  whose bound is no larger than `best` leaves the counter at `best` or less.  A
  refund removes one holder and at most one from the counter, whichever period it
  was used in.
- *Sync.*  Part 1 shows that every request in flight has the row and the snapshot
  its next step needs (`Calls`, `Known`) and the unique keys (`Keys`).
  What an item used comes next: `Covered` says that its row counts all that it
  `spent` in the row's period, that it has spent nothing in later ones, and that
  an item without a row has spent nothing at all, so that a new row may start at
  zero.  A request about to write holds a snapshot no older than the period it read
  (`WriteIsNewer`); the compare-and-set turns that into "no older than the row's
  period", so usage is reset only on entering a period in which nothing was
  spent.  Rows that pass to another item are in `displaced`.  Part 2 adds that
  allowances were only given for periods the row has reached (`ResetsReached`),
  which makes a reset the first for its period.
- *Webhooks* (Part 3 of `SubscriptionSync_proofs`).  A second delivery gets in only
  if the row lets it, so the invariant says what the row looks like while a handler
  holds it (`HolderIsLocked`): a claim that has not expired or, when its mark was
  written and it did not hear so, `processed`.
- *Background checks.*  For each stage of a call, `Calls` says what must already
  be true of charge, record and Identity.  `Conserved` (the pool less the paid
  members) is kept apart: only two actions touch it.

- *Pentests.*  `Inv0` ties a run's stage to its charge, its row and its attempts
  (`Calls`), what Maced was told to what the tables said then (`Ends`), and a claim
  of the audit to the row's mark (`Audits`); the pool is again apart
  (`Conserved`), touched by payments and refunds only.
- *Policies.*  `UpToDate` is the heart: a request in flight that was not overtaken
  still carries what the row supports (`Decided`), by operation.  Every write then
  splits into a request that was overtaken, which the properties' history
  variables record, and one that was not, for which `Decided` gives what the
  operation checked.  `Signatures` says more than `SignaturesCurrent`, for a
  policy in review and for a draft a denial could publish.
- *Timelines.*  The same `UpToDate`.  `Frontier` is kept together with `Distinct`
  (no two phases of one order index), without which a completion could start two
  phases; `CompletedIsLocked` and `LockHolds` rest on what `Decided` says of
  completions, unlockings and reopenings.  `DatesChained` (Part 2) speaks of
  neighbours that are both dated, and not of the time between the two writes of an
  update; it is far from inductive.  `Chained` says that some
  assignment of dates, each following the one before from the timeline's start on,
  agrees with all phases that are dated and not pinned; `Linked` says that it holds
  for all phases or, while a refresh is under way, for those it will leave
  (`Kept`: before it has read, those it will not change, `Fixed`; then those it has
  not yet to write), unless that has been overtaken; `Based` what each request read.
  Of a refresh among its writes that is `Follows`: what it is still to write agrees
  with the chain that the present dates give, so each write adds one phase to
  those that are chained, and after the last one all are.  That
  two chains over the same dates agree (`ChainsAgree`) takes the place of an
  induction along the phases, by the first phase at which they differ, and gives
  that a recalculation which rewrites some of the dates leaves all of them chained
  (`RewriteChains`).
- *Frameworks.*  `IInv` says of the tables that a sync's rows are older than the
  sync counter and that each framework is at the version its last standing sync
  left (`VersionFollowsSyncs`), and of a request in flight what it still knows
  unless overtaken.  `Planned` collects what a plan can contain; `UndoneSynced`
  is the identity of undoing after applying, table by table, and gives
  `SyncIsUndoable`; the facts of a plan that rows are archived, never deleted,
  give `WorkKept`.  `ManifestCovered` is not inductive: a rollback brings back the
  tables from before a sync, so those must have been covered too, and those from
  before every earlier sync.  `AlwaysCovered` says so without the old tables, from
  the present ones and the records of the syncs that still stand (`ActiveBefore`,
  `MappedBefore`, `LinkedBefore`, `JoinedBefore`).  What it says of each moment
  (`CoveredBefore`) is that the frameworks reconciled by then (`Trusted`) had
  everything of their version, that every framework had a row of each policy
  which was not missing at first, and that no template had two active rows; from
  the last two a sync makes any framework one of the first.  `Consistent` says that a
  record lists what the sync changed, and `StillThere` that rows a sync read are not
  deleted while it holds the lock.  `CInv` is their conjunction.

*Only model-checked:* liveness (`EventuallyProcessed`, `FailedRunRefunded`), which
is out of the prover's reach.  The findings are counterexamples of TLC.

## 5. Plan

1. Compositions: `StripeWebhook` with `SubscriptionSync` as its `processEvent` (a
   redelivered event is synced again, a lost one becomes a missing period),
   `PentestRuns` over `CreditLedger`, publications of `PolicyApproval` as the
   metric of a `Timeline`.
2. `TokenRefresh` (a rotated token lost with the answer, refreshes racing),
   `TrustAccess`, `Remediation` as far as they go.
3. What the modelled components leave out: creation, backfill and the next cycle
   of timelines; framework instances added and removed beside syncs.

The older pentest wallet (`pentest-credits.service.ts`) is only reached by its
admin routes; its audit entry is part of `PentestRuns`, and its ledger would
repeat `CreditWallet`.

## 6. Running

    tlc -workers 2 -config MCSyncWebhooks.cfg MCSubscriptionSync.tla
    tlapm SubscriptionSync_proofs.tla

The community modules are needed by none of the specifications; the proofs use
`FiniteSetTheorems` and `TLAPS`.
