SPECIFICATION FairSpec
CONSTANTS
  c1 = c1
  c2 = c2
  c3 = c3
  Clients <- TwoClients
  MaxSend = 1
  Typed = {"SHORT"}
  MaxSockets = 4
PROPERTY GoneIsDropped
