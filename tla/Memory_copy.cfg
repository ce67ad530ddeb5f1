\* Two banks of four pages of three bytes; every range, every file around the
\* size of one and two pieces.
CONSTANTS
  PageSize = 3
  Pages = 4
  Banks = 2
  Line = 2
  Lengths = {0, 1, 5, 6, 7, 12}
SPECIFICATION Spec
INVARIANTS CommandExact DmaExact
