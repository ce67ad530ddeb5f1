\* Two UARTs that share the main thread, rings of two slots.
CONSTANTS
  NU = 2
  N = 2
  Zero = Zero
  Bytes = {Zero}
SPECIFICATION FairSpec
INVARIANT FlushDrains
PROPERTIES
  MainReturns
  PortFair
