\* Any three opens, two FCBs, two files of which one is read-only.
CONSTANTS
  Fcbs = {p, q}
  Names = {x, y}
  NoName = NoName
  ReadOnly = {y}
  Recs = {a}
  Junk = junk
  SeqMod = 8
  MAXREC = 2
  MaxLen = 2
  MaxOpens = 3
SPECIFICATION Spec
INVARIANTS
  IInv
  Coherent
  OpenFileMatches
PROPERTIES
  CloseSaves
  ReadOnlyKept
