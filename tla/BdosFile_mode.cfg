\* A read-only file and another one.
CONSTANTS
  Fcbs = {p, q}
  Names = {x, y}
  NoName = NoName
  ReadOnly = {y}
  Recs = {a}
  Junk = junk
  SeqMod = 8
  MAXREC = 2
  MaxLen = 2
  MaxOpens = 4
SPECIFICATION Spec
INVARIANT ModeIsFiles
