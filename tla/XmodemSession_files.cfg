\* Three blocks from board to board, over a poor line, with a small card and failing
\* file calls; and a batch of four files with and without their sizes, the first under
\* a local name.
CONSTANTS
  Settings <- AnySession
  Mod = 8
  SyncRetries = 2
  MAXRETRANS = 3
  TSyncRetries = 3
  TRetrans = 3
  EotRetries = 2
  YRetries = 3
  Args <- Local
  Names = {"NONAME", "GARBAGE", "foo", "bar", "baz", "qux", "local"}
  Word = 4
  File <- ThreeBlocks
  Batch <- Mixed
SPECIFICATION FairSpec
INVARIANTS FileIsPrefix SuccessIsComplete InStep FilesApart ClosedIsWhole BatchComplete
PROPERTY BothReturn
