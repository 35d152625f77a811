SPECIFICATION Spec
CONSTANTS
  c1 = c1
  c2 = c2
  c3 = c3
  Clients <- ThreeClients
  MaxSend = 0
  Typed = {"EXIT", "DATA", "SHORT"}
  MaxSockets = 3
SYMMETRY Symmetry
INVARIANT TypeOK
PROPERTIES IsService HoldsAsPromised TakenOrRefused
