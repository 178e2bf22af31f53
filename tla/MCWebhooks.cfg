SPECIFICATION WebhookFairSpec
CONSTANTS
  Events = {e1}
  Deliveries = {w1, w2, w3}
  DbFails = TRUE
  HandlersDie = TRUE
  NoEvent = NoEvent
INVARIANTS WebhookTypeOK OneHolder
PROPERTIES ProcessedIsFinal EventuallyProcessed
