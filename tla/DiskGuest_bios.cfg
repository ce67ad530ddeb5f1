\* Two drives, two images, two tracks of two sectors, swapped at will.
CONSTANTS
  NUMDRIVES = 2
  NUMTRACKS = 2
  NUMSECTORS = 2
  SECTORSIZE = 2
  NOSECTOR = 15
  NOBYTE = 5
  Images = {f, g}
  NoImage = NoImage
  NoDrive = NoDrive
  Bytes = {zero, a}
  Zero = zero
  Junk = junk
  MaxLen = 19
  CardFails = {FALSE}
  Trailing = TRUE
SPECIFICATION GSpec
SYMMETRY ImageSymmetry
INVARIANTS
  Settled
  ReadsBack
  InBounds
