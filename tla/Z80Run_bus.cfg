\* Every setting of the halt conditions that matters: none, and all of them.
CONSTANTS
  Mailboxes = {fatfs, bdos}
  Dev = dev
  Bytes = {b}
  Halts <- NoneOrAll
  None = none
  Junk = junk
SPECIFICATION FairSpec
INVARIANTS IInv NoContention Understood
PROPERTIES LostOnlyAtStop DmaFair DispatchReturns
