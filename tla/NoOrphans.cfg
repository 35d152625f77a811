SPECIFICATION FairSpec
CONSTANTS
  d1 = d1
  d2 = d2
  d3 = d3
  Dispatchers <- TwoDispatchers
  MaxClients = 0
  MaxLives = 1
PROPERTY NoOrphans
