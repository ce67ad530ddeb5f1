\* A cycle that begins while z80_run leaves.
CONSTANTS
  Mailboxes = {bdos}
  Dev = dev
  Bytes = {b}
  Halts <- NoneOrAll
  None = none
  Junk = junk
SPECIFICATION FairSpec
INVARIANT NothingLost
