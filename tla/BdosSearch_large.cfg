\* Files of 32K and more among others: what the record count of an entry counts.
CONSTANTS
  RECSIZ = 128
  RECCNT = 128
  EXTCNT = 32
  MODCNT = 16
  Byte = 256
  OFFREC = 33554432
  Every = 63
  Extents = {0, 63}
  x = x
  y = y
  z = z
  None = none
  Names <- Listed
  Masks <- AllMasks
  Directories <- Cards
SPECIFICATION Spec
INVARIANT CountIsRecords
