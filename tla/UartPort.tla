------------------------------ MODULE UartPort ------------------------------
(***************************************************************************)
(* What the UART driver of z80ctrl promises to the rest of the firmware:   *)
(* for every UART a bounded queue of bytes waiting to be transmitted, a    *)
(* bounded queue of bytes received and not read yet, and the halt key that *)
(* z80_run watches for.  Uart.tla, the detailed specification of uart.c,   *)
(* is shown to implement this one.                                         *)
(***************************************************************************)
EXTENDS Naturals, Sequences

CONSTANTS NU,     \* number of UARTs
          N,      \* capacity of a queue
          Bytes,  \* the bytes that travel
          Zero    \* the byte 0

Uarts == 0 .. NU - 1

VARIABLES txq,        \* txq[u]: bytes accepted by uart_putc, not transmitted yet
          rxq,        \* rxq[u]: bytes received, not read yet
          udr,        \* udr[u]: the last byte handed to the transmitter
          ret,        \* the last value returned by uart_getc or uart_peek
          watch_key,  \* the byte that halts the Z80, Zero when there is none
          watch_flag  \* the halt key was received

queues == <<txq, rxq>>
watch == <<watch_key, watch_flag>>
vars == <<txq, rxq, udr, ret, watch_key, watch_flag>>

Init == /\ txq = [u \in Uarts |-> <<>>]
        /\ rxq = [u \in Uarts |-> <<>>]
        /\ udr = [u \in Uarts |-> Zero]
        /\ ret = Zero
        /\ watch_key = Zero
        /\ watch_flag = FALSE

Put(u, d) == /\ Len(txq[u]) < N
             /\ txq' = [txq EXCEPT ![u] = Append(@, d)]
             /\ UNCHANGED <<rxq, udr, ret, watch>>

Transmit(u) == /\ txq[u] # <<>>
               /\ udr' = [udr EXCEPT ![u] = Head(txq[u])]
               /\ txq' = [txq EXCEPT ![u] = Tail(@)]
               /\ UNCHANGED <<rxq, ret, watch>>

\* A byte that finds the queue full is dropped, and still halts the Z80.
Receive(u, d) ==
    /\ \/ /\ Len(rxq[u]) < N
          /\ rxq' = [rxq EXCEPT ![u] = Append(@, d)]
       \/ /\ Len(rxq[u]) = N
          /\ UNCHANGED rxq
    /\ watch_flag' = (watch_flag \/ (watch_key # Zero /\ d = watch_key))
    /\ UNCHANGED <<txq, udr, ret, watch_key>>

Get(u) == /\ rxq[u] # <<>>
          /\ ret' = Head(rxq[u])
          /\ rxq' = [rxq EXCEPT ![u] = Tail(@)]
          /\ UNCHANGED <<txq, udr, watch>>

Peek(u) == /\ rxq[u] # <<>>
           /\ ret' = Head(rxq[u])
           /\ UNCHANGED <<queues, udr, watch>>

GetEmpty(u) == /\ rxq[u] = <<>>
               /\ ret' = Zero
               /\ UNCHANGED <<queues, udr, watch>>

\* A UART is given a new baud rate only when nothing waits to be transmitted.
Reinit(u) == /\ txq[u] = <<>>
             /\ rxq' = [rxq EXCEPT ![u] = <<>>]
             /\ UNCHANGED <<txq, udr, ret, watch>>

Watch == /\ \/ watch_key' \in Bytes /\ UNCHANGED watch_flag
            \/ watch_flag' = FALSE /\ UNCHANGED watch_key
         /\ UNCHANGED <<queues, udr, ret>>

Next == \/ \E u \in Uarts : \/ Transmit(u)
                            \/ Get(u)
                            \/ Peek(u)
                            \/ GetEmpty(u)
                            \/ Reinit(u)
                            \/ \E d \in Bytes : Put(u, d) \/ Receive(u, d)
        \/ Watch

Spec == Init /\ [][Next]_vars

\* A queued byte does not wait for ever.
FairSpec == Spec /\ \A u \in Uarts : WF_vars(Transmit(u))
=============================================================================
