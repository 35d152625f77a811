SPECIFICATION Spec
CONSTANTS
  c1 = c1
  c2 = c2
  c3 = c3
  Clients <- TwoClients
  MaxSend = 2
  Typed = {"DATA"}
  MaxSockets = 3
SYMMETRY Symmetry
INVARIANTS GreetingPending Conversation DescriptorsHeld NeverWithoutContext HeadRecognised NeverBlocks IInv
PROPERTIES DroppedForCause EndsForCause
