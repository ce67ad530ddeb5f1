\* One UART with a ring of two slots and two different bytes: every
\* interleaving of uart_putc, uart_getc and uart_peek with the interrupts,
\* with the ring empty, partly filled, full and wrapped.
CONSTANTS
  NU = 1
  N = 2
  Zero = Zero
  Bytes = {Zero, a}
SPECIFICATION Spec
INVARIANTS
  Armed
  IInv
PROPERTY PortSpec
