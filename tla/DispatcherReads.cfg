SPECIFICATION FairSpec
CONSTANTS
  c1 = c1
  c2 = c2
  c3 = c3
  Clients <- TwoClients
  MaxSend = 1
  Typed = {"EXIT", "DATA"}
  MaxSockets = 2
INVARIANT Talk
PROPERTIES EveryReadReturns HangupObeyed
