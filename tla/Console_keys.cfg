\* A line buffer of four bytes, one key typed ahead on each UART, and one port.
CONSTANTS
  LINE_BUFF = 4
  Room = 1
  Chars = {c, sp}
  Space = sp
  Prompt = prompt
  None = none
  Uarts = {u0, u1}
  Ports = {u0}
  Main = u0
  Tape <- TwoBytes
  Longest = 2
SPECIFICATION Spec
INVARIANTS EchoIsLine PolledIsReal NothingUnsaved
