--------------------------- MODULE StripeWebhook ---------------------------
(***************************************************************************)
(* The idempotent handling of Stripe's webhook deliveries                  *)
(* (BillingWebhookService.handleWebhook and stripe-webhook-records.ts):    *)
(* an event is claimed by a row of stripe_webhook_events, processed, and   *)
(* the row marked processed or failed.                                     *)
(*                                                                         *)
(* Stripe delivers an event until a delivery is answered with 2xx, and no  *)
(* more after that, unless somebody has it sent again.  It gives up        *)
(* waiting before a slow handler does, so deliveries of one event overlap. *)
(* A step is one database call, or the processing of the event (which      *)
(* SubscriptionSync models); the process may die between steps, database   *)
(* calls may fail, and a call that failed may have been committed.         *)
(*                                                                         *)
(* The names are kept apart from those of SubscriptionSync, so that both   *)
(* can be extended together.                                               *)
(*                                                                         *)
(* Abstracted: signatures, payloads, event types, error texts, and the     *)
(* clock, of which only whether a claim is older than 15 minutes counts.   *)
(***************************************************************************)
EXTENDS Integers

CONSTANTS Events,
          Deliveries,    \* deliveries being handled
          DbFails,       \* the calls that mark an event may fail
          HandlersDie,   \* the API process may die
          NoEvent

ASSUME WebhookFlagsAssumption ==
  DbFails \in BOOLEAN /\ HandlersDie \in BOOLEAN
ASSUME NoEventAssumption == NoEvent \notin Events

VARIABLES
  status,    \* StripeWebhookEvent.status, "none" without a row
  stale,     \* events whose claim (processedAt) is older than 15 minutes
  done,      \* events that processEvent has gone through completely
  answered,  \* events of which Stripe saw a 2xx answer
  overrun,   \* history: events with a handler that outlived its claim,
  unsure,    \* history: events marked processed by a call that seemed to fail,
  premature, \* history: events answered as a duplicate while another delivery's
             \* claim was not yet 15 minutes old
  at,        \* where the handling of each delivery stands
  event      \* the event delivered

history     == <<overrun, unsure, premature>>
webhookVars == <<status, stale, done, answered, history, at, event>>

Holding    == {"process", "mark_processed", "mark_failed"}
Holders(e) == {w \in Deliveries : at[w] \in Holding /\ event[w] = e}

WebhookInit ==
  /\ status = [e \in Events |-> "none"]
  /\ stale = {} /\ done = {} /\ answered = {}
  /\ overrun = {} /\ unsure = {} /\ premature = {}
  /\ at = [w \in Deliveries |-> "idle"]
  /\ event = [w \in Deliveries |-> NoEvent]

End(w) ==
  /\ at' = [at EXCEPT ![w] = "idle"]
  /\ event' = [event EXCEPT ![w] = NoEvent]

\* The handler returns: Stripe sees 200.
Answer(w) == End(w) /\ answered' = answered \cup {event[w]}

-----------------------------------------------------------------------------
(* claimStripeWebhookEvent *)

\* A claim that updates without inserting first.
IsNew_Never(e) == FALSE
\* The insert succeeds.
IsNew(e) == status[e] = "none"

\* The row of an event stays locked to the delivery that first claimed it.
MayReclaim_FailedOnly(e) == status[e] = "failed"
\* A processing row is taken over without looking at its age.
MayReclaim_AnyAge(e) == status[e] \in {"failed", "processing"}
\* A row that is not new is taken over.
MayReclaim_Always(e) == TRUE
\* The condition of the update that takes over an existing row.
MayReclaim(e) ==
  status[e] = "failed" \/ (status[e] = "processing" /\ e \in stale)

\* The insert of the row; a unique-key error leads to the update.
Receive(w, e) ==
  /\ at[w] = "idle"
  /\ event' = [event EXCEPT ![w] = e]
  /\ \/ /\ IsNew(e)
        /\ status' = [status EXCEPT ![e] = "processing"]
        /\ at' = [at EXCEPT ![w] = "process"]
     \/ /\ ~IsNew(e)
        /\ at' = [at EXCEPT ![w] = "reclaim"]
        /\ UNCHANGED status
  /\ UNCHANGED <<stale, done, answered, history>>

\* Stripe delivers what was not answered yet.
Deliver(w, e) == e \notin answered /\ Receive(w, e)

\* An event is sent again from the dashboard or the command line.
Resend(w, e) == e \in answered /\ Receive(w, e)

\* The conditional update, which also renews processedAt; a delivery that gets
\* nothing is answered as a duplicate.
Reclaim(w) ==
  LET e == event[w] IN
  /\ at[w] = "reclaim"
  /\ \/ /\ MayReclaim(e)
        /\ status' = [status EXCEPT ![e] = "processing"]
        /\ stale' = stale \ {e}
        /\ at' = [at EXCEPT ![w] = "process"]
        /\ UNCHANGED <<event, answered, premature>>
     \/ /\ ~MayReclaim(e)
        /\ Answer(w)
        /\ premature' = IF status[e] = "processing" /\ e \notin stale
                        THEN premature \cup {e} ELSE premature
        /\ UNCHANGED <<status, stale>>
  /\ UNCHANGED <<done, overrun, unsure>>

-----------------------------------------------------------------------------
(* handleWebhook, once the event is claimed *)

ProcessOk(w) ==
  /\ at[w] = "process"
  /\ done' = done \cup {event[w]}
  /\ at' = [at EXCEPT ![w] = "mark_processed"]
  /\ UNCHANGED <<status, stale, answered, history, event>>

ProcessError(w) ==
  /\ at[w] = "process"
  /\ at' = [at EXCEPT ![w] = "mark_failed"]
  /\ UNCHANGED <<status, stale, done, answered, history, event>>

\* markStripeWebhookProcessed.
WriteProcessed(e) ==
  /\ status' = [status EXCEPT ![e] = "processed"]
  /\ stale' = stale \ {e}

MarkProcessed(w) ==
  /\ at[w] = "mark_processed"
  /\ WriteProcessed(event[w])
  /\ Answer(w)
  /\ UNCHANGED <<done, history>>

\* The update throws inside the try, without effect or with its reply lost: the
\* event is marked failed instead.
MarkProcessedError(w) ==
  /\ DbFails
  /\ at[w] = "mark_processed"
  /\ \/ UNCHANGED <<status, stale, unsure>>
     \/ WriteProcessed(event[w]) /\ unsure' = unsure \cup {event[w]}
  /\ at' = [at EXCEPT ![w] = "mark_failed"]
  /\ UNCHANGED <<done, answered, overrun, premature, event>>

\* The delivery is answered with an error, whether or not the row is marked.
MarkFailed(w) ==
  /\ at[w] = "mark_failed"
  /\ \/ /\ status' = [status EXCEPT ![event[w]] = "failed"]
        /\ stale' = stale \ {event[w]}
     \/ /\ DbFails
        /\ UNCHANGED <<status, stale>>
  /\ End(w)
  /\ UNCHANGED <<done, answered, history>>

-----------------------------------------------------------------------------
\* Fifteen minutes pass since the event was claimed, with or without its handler.
Elapse(e) ==
  /\ status[e] = "processing" /\ e \notin stale
  /\ stale' = stale \cup {e}
  /\ overrun' = IF Holders(e) = {} THEN overrun ELSE overrun \cup {e}
  /\ UNCHANGED <<status, done, answered, unsure, premature, at, event>>

Die(w) ==
  /\ HandlersDie
  /\ at[w] # "idle"
  /\ End(w)
  /\ UNCHANGED <<status, stale, done, answered, history>>

WebhookNext ==
  \/ \E w \in Deliveries :
       \/ \E e \in Events : Deliver(w, e) \/ Resend(w, e)
       \/ Reclaim(w) \/ ProcessOk(w) \/ ProcessError(w)
       \/ MarkProcessed(w) \/ MarkProcessedError(w) \/ MarkFailed(w)
       \/ Die(w)
  \/ \E e \in Events : Elapse(e)

WebhookSpec == WebhookInit /\ [][WebhookNext]_webhookVars

\* Stripe delivers what was not answered, time passes, handlers go on, and an
\* attempt that is made again and again does not fail every time.  Nobody has to
\* send an event again.
WebhookFairSpec ==
  /\ WebhookSpec
  /\ \A w \in Deliveries :
       /\ \A e \in Events : SF_webhookVars(Deliver(w, e))
       /\ SF_webhookVars(Reclaim(w)) /\ SF_webhookVars(ProcessOk(w))
       /\ SF_webhookVars(MarkProcessed(w))
       /\ WF_webhookVars(MarkFailed(w))
  /\ \A e \in Events : WF_webhookVars(Elapse(e))

-----------------------------------------------------------------------------
(* Properties *)

WebhookTypeOK ==
  /\ status \in [Events -> {"none", "processing", "processed", "failed"}]
  /\ stale \subseteq {e \in Events : status[e] = "processing"}
  /\ done \subseteq Events
  /\ answered \subseteq Events
  /\ overrun \subseteq Events /\ unsure \subseteq Events /\ premature \subseteq answered
  /\ at \in [Deliveries -> Holding \cup {"idle", "reclaim"}]
  /\ event \in [Deliveries -> Events \cup {NoEvent}]
  /\ \A w \in Deliveries :
       at[w] # "idle" => event[w] # NoEvent /\ status[event[w]] # "none"

\* However deliveries overlap, at most one of them processes an event at a time,
\* unless a handler ran for longer than the 15 minutes its claim lasts.
OneHolder ==
  \A w, w2 \in Deliveries :
    /\ at[w] \in Holding /\ at[w2] \in Holding
    /\ event[w] = event[w2] /\ event[w] \notin overrun
    => w = w2

\* An event that was processed and marked so is never claimed again, unless a
\* handler that outlived its claim, or did not hear that its mark was written,
\* marks it failed: its effects are not repeated by any later delivery.
ProcessedIsFinal ==
  [][\A e \in Events \ (overrun \cup unsure) :
       status[e] = "processed" => status'[e] = "processed"]_webhookVars

\* Although Stripe stops at the first 2xx answer, no event is lost to a claim
\* whose holder died, failed or could not mark it: it is processed, unless a
\* second delivery came within the 15 minutes of the claim and was answered as a
\* duplicate, and no handler holds the event any more.
EventuallyProcessed ==
  \A e \in Events :
    <>(status[e] = "processed") \/ <>[](e \in premature /\ Holders(e) = {})
=============================================================================
