\* Any sequence of port accesses and mounts; two drives and one image file.
CONSTANTS
  NUMDRIVES = 2
  NUMTRACKS = 2
  NUMSECTORS = 1
  SECTORSIZE = 2
  NOSECTOR = 1
  NOBYTE = 5
  Images = {f}
  NoImage = NoImage
  NoDrive = NoDrive
  Bytes = {zero}
  Zero = zero
  Junk = junk
  MaxLen = 3
  CardFails = {FALSE, TRUE}
SPECIFICATION Spec
INVARIANTS
  DirtyIsSelected
  OthersIdle
  TrackZero
PROPERTY OnlySelectedWritten
