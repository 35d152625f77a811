SPECIFICATION FairSpec
CONSTANTS
  d1 = d1
  d2 = d2
  d3 = d3
  Dispatchers <- ThreeDispatchers
  MaxClients = 1
  MaxLives = 2
INVARIANTS LinkContract OneChild OneServer PassedOnce IInv
PROPERTIES ShutdownCompletes ChildIsReplaced LinkedEnds  LinksKept
