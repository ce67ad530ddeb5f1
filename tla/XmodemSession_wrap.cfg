\* A file of as many blocks as there are packet numbers.
CONSTANTS
  Settings <- Perfect
  Mod = 4
  SyncRetries = 2
  MAXRETRANS = 3
  TSyncRetries = 3
  TRetrans = 3
  EotRetries = 2
  YRetries = 3
  Args <- Local
  Names = {"NONAME", "GARBAGE", "foo", "bar", "baz", "qux", "local"}
  Word = 4
  File <- FourBlocks
  Batch <- Mixed
SPECIFICATION Spec
INVARIANT MetadataIsMetadata
