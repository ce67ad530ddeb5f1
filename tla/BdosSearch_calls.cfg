\* Every sequence of directory calls, on directories with files of sizes around
\* those where an entry, a module or a field ends; the constants of the code.
CONSTANTS
  RECSIZ = 128
  RECCNT = 128
  EXTCNT = 32
  MODCNT = 16
  Byte = 256
  OFFREC = 33554432
  Every = 63
  Extents = {0, 63}
  x = x
  y = y
  z = z
  None = none
  Names <- Listed
  Masks <- AllMasks
  Directories <- Cards
SPECIFICATION Spec
INVARIANTS EntryIsPosition ListingComplete EndIsFound
PROPERTY DeleteWhole
