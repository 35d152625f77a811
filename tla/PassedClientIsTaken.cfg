SPECIFICATION Spec
CONSTANTS
  c1 = c1
  c2 = c2
  c3 = c3
  Clients <- OneClient
  MaxSend = 1
  Typed = {"EXIT", "DATA", "SHORT"}
  MaxSockets = 2
PROPERTY PassedClientIsTaken
