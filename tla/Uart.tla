-------------------------------- MODULE Uart --------------------------------
(***************************************************************************)
(* The interrupt-driven UART driver of z80ctrl (src/z80ctrl/uart.c) with   *)
(* its caller that gives a UART a new baud rate (cli_baud in cli.c).       *)
(*                                                                         *)
(* The main thread runs uart_putc, uart_getc, uart_peek, uart_flush and    *)
(* uart_init one statement at a time; the receive and the data-register-   *)
(* empty interrupts may come between any two statements while interrupts   *)
(* are enabled, and run to completion (the AVR does not nest them).  The   *)
(* region between cli() and sei() is one step.                             *)
(***************************************************************************)
EXTENDS Naturals, Sequences

CONSTANTS NU,     \* number of UARTs: 2 in the code
          N,      \* sizeof buff, UART_BUFF: 64 in the code
          Bytes,  \* the bytes that travel
          Zero    \* the byte 0: what static memory holds, and "no halt key"

ASSUME SizeAssumption == NU \in Nat \ {0} /\ N \in Nat \ {0}
ASSUME BytesAssumption == Zero \in Bytes

Uarts == 0 .. NU - 1
Index == 0 .. N - 1

VARIABLES
    tx_wi, tx_ri, tx_ct, tx_buff,  \* TxFifo[uart].wi and so on
    rx_wi, rx_ri, rx_ct, rx_buff,  \* RxFifo[uart]
    ucsrb,       \* the interrupt enables in UCSRB: RXCIE, UDRIE
    ie,          \* the I flag of SREG, written by cli() and sei()
    udre, udr,   \* data register empty, and the last byte written to UDR
    watch_key, watch_flag,
    pc,          \* the statement the main thread is about to run
    cur, i, d,   \* the locals of the running function: uart, i and d
    ret          \* the last value uart_getc or uart_peek returned

tx == <<tx_wi, tx_ri, tx_ct, tx_buff>>
rx == <<rx_wi, rx_ri, rx_ct, rx_buff>>
hw == <<ucsrb, ie, udre, udr>>
watch == <<watch_key, watch_flag>>
local == <<cur, i, d>>
vars == <<tx, rx, ucsrb, ie, udre, udr, watch_key, watch_flag,
          pc, cur, i, d, ret>>

Flags == {"RXCIE", "UDRIE"}

Inc(k) == (k + 1) % N

Init ==
    LET zeros == [u \in Uarts |-> 0]
        blank == [u \in Uarts |-> [k \in Index |-> Zero]]
    IN  /\ tx_wi = zeros /\ tx_ri = zeros /\ tx_ct = zeros /\ tx_buff = blank
        /\ rx_wi = zeros /\ rx_ri = zeros /\ rx_ct = zeros /\ rx_buff = blank
        /\ ucsrb = [u \in Uarts |-> {}]
        /\ ie = FALSE
        /\ udre = [u \in Uarts |-> TRUE]
        /\ udr = [u \in Uarts |-> Zero]
        /\ watch_key = Zero /\ watch_flag = FALSE
        /\ pc = "boot"
        /\ cur = 0 /\ i = 0 /\ d = Zero /\ ret = Zero
-----------------------------------------------------------------------------
(* uart_init.  Its first statement disables both interrupts of the UART,   *)
(* so nothing can come between the statements that follow.                 *)
uart_init(u) ==
    /\ tx_ct' = [tx_ct EXCEPT ![u] = 0] /\ rx_ct' = [rx_ct EXCEPT ![u] = 0]
    /\ tx_ri' = [tx_ri EXCEPT ![u] = 0] /\ rx_ri' = [rx_ri EXCEPT ![u] = 0]
    /\ tx_wi' = [tx_wi EXCEPT ![u] = 0] /\ rx_wi' = [rx_wi EXCEPT ![u] = 0]
    /\ ucsrb' = [ucsrb EXCEPT ![u] = {"RXCIE"}]

\* main() initialises one UART after the other.
Boot == /\ pc = "boot"
        /\ uart_init(cur)
        /\ \/ cur + 1 \in Uarts /\ cur' = cur + 1 /\ UNCHANGED pc
           \/ cur + 1 \notin Uarts /\ pc' = "idle" /\ UNCHANGED cur
        /\ UNCHANGED <<tx_buff, rx_buff, ie, udre, udr, watch, i, d, ret>>

\* start_timer(), called when the SD card is mounted, enables interrupts.
StartTimer == /\ pc = "idle" /\ ~ie
              /\ ie' = TRUE
              /\ UNCHANGED <<tx, rx, ucsrb, udre, udr, watch, pc, local, ret>>
-----------------------------------------------------------------------------
(* uart_putc *)
PutCall(u, b) == /\ pc = "idle"
                 /\ pc' = "put_wait" /\ cur' = u /\ d' = b
                 /\ UNCHANGED <<tx, rx, hw, watch, i, ret>>

\* Mutant of PutWait: `>' for `>='.
PutWaitOffByOne == /\ pc = "put_wait"
                   /\ tx_ct[cur] <= N
                   /\ i' = tx_wi[cur]
                   /\ pc' = "put_store"
                   /\ UNCHANGED <<tx, rx, hw, watch, cur, d, ret>>

\* while (TxFifo[uart].ct >= sizeof TxFifo[uart].buff) ;  i = wi
PutWait == /\ pc = "put_wait"
           /\ tx_ct[cur] < N
           /\ i' = tx_wi[cur]
           /\ pc' = "put_store"
           /\ UNCHANGED <<tx, rx, hw, watch, cur, d, ret>>

PutStore == /\ pc = "put_store"
            /\ tx_buff' = [tx_buff EXCEPT ![cur] = [@ EXCEPT ![i] = d]]
            /\ pc' = "put_crit"
            /\ UNCHANGED <<tx_wi, tx_ri, tx_ct, rx, hw, watch, local, ret>>

\* Mutant of PutCrit: the interrupt is not enabled.
PutCritNotArmed == /\ pc = "put_crit"
                   /\ tx_ct' = [tx_ct EXCEPT ![cur] = @ + 1]
                   /\ ie' = TRUE
                   /\ pc' = "put_adv"
                   /\ UNCHANGED <<tx_wi, tx_ri, tx_buff, rx, ucsrb, udre, udr,
                                  watch, local, ret>>

\* cli(); ct++; UCSRB |= UDRIE; sei()
PutCrit == /\ pc = "put_crit"
           /\ tx_ct' = [tx_ct EXCEPT ![cur] = @ + 1]
           /\ ucsrb' = [ucsrb EXCEPT ![cur] = {"RXCIE", "UDRIE"}]
           /\ ie' = TRUE
           /\ pc' = "put_adv"
           /\ UNCHANGED <<tx_wi, tx_ri, tx_buff, rx, udre, udr, watch,
                          local, ret>>

PutAdv == /\ pc = "put_adv"
          /\ tx_wi' = [tx_wi EXCEPT ![cur] = Inc(i)]
          /\ pc' = "idle"
          /\ UNCHANGED <<tx_ri, tx_ct, tx_buff, rx, hw, watch, local, ret>>
-----------------------------------------------------------------------------
(* uart_getc and uart_peek *)
GetCall(u, op) == /\ pc = "idle"
                  /\ op \in {"get", "peek"}
                  /\ \/ /\ rx_ct[u] = 0
                        /\ ret' = Zero
                        /\ UNCHANGED <<pc, local>>
                     \/ /\ rx_ct[u] # 0
                        /\ cur' = u /\ i' = rx_ri[u]
                        /\ pc' = IF op = "get" THEN "get_read" ELSE "peek_read"
                        /\ UNCHANGED <<d, ret>>
                  /\ UNCHANGED <<tx, rx, hw, watch>>

GetRead == /\ pc = "get_read"
           /\ d' = rx_buff[cur][i]
           /\ pc' = "get_crit"
           /\ UNCHANGED <<tx, rx, hw, watch, cur, i, ret>>

\* cli(); ct--; sei()
GetCrit == /\ pc = "get_crit"
           /\ rx_ct' = [rx_ct EXCEPT ![cur] = @ - 1]
           /\ ie' = TRUE
           /\ pc' = "get_adv"
           /\ UNCHANGED <<tx, rx_wi, rx_ri, rx_buff, ucsrb, udre, udr, watch,
                          local, ret>>

GetAdv == /\ pc = "get_adv"
          /\ rx_ri' = [rx_ri EXCEPT ![cur] = Inc(i)]
          /\ ret' = d
          /\ pc' = "idle"
          /\ UNCHANGED <<tx, rx_wi, rx_ct, rx_buff, hw, watch, local>>

PeekRead == /\ pc = "peek_read"
            /\ ret' = rx_buff[cur][i]
            /\ pc' = "idle"
            /\ UNCHANGED <<tx, rx, hw, watch, local>>
-----------------------------------------------------------------------------
(* uart_flush, and cli_baud: uart_flush(); uart_init(uart, ubrr) *)
FlushCall == /\ pc = "idle"
             /\ pc' = "flush_ct" /\ cur' = 0
             /\ UNCHANGED <<tx, rx, hw, watch, i, d, ret>>

\* Mutant of FlushCt: `&&' for `||'.
FlushCtAnd == /\ pc = "flush_ct"
              /\ \/ /\ tx_ct[cur] # 0 /\ cur + 1 \in Uarts
                    /\ cur' = cur + 1 /\ UNCHANGED pc
                 \/ /\ tx_ct[cur] # 0 /\ cur + 1 \notin Uarts
                    /\ cur' = 0 /\ UNCHANGED pc
                 \/ /\ tx_ct[cur] = 0
                    /\ cur' = 0 /\ pc' = "flush_udre"
              /\ UNCHANGED <<tx, rx, hw, watch, i, d, ret>>

\* while (uart_testtx(0) || uart_testtx(1)) ;
FlushCt == /\ pc = "flush_ct"
           /\ \/ /\ tx_ct[cur] # 0
                 /\ cur' = 0 /\ UNCHANGED pc
              \/ /\ tx_ct[cur] = 0
                 /\ IF cur + 1 \in Uarts
                    THEN cur' = cur + 1 /\ UNCHANGED pc
                    ELSE cur' = 0 /\ pc' = "flush_udre"
           /\ UNCHANGED <<tx, rx, hw, watch, i, d, ret>>

\* loop_until_bit_is_set(UCSR0A, UDRE0); loop_until_bit_is_set(UCSR1A, UDRE1)
FlushUdre == /\ pc = "flush_udre"
             /\ udre[cur]
             /\ IF cur + 1 \in Uarts
                THEN cur' = cur + 1 /\ UNCHANGED pc
                ELSE pc' = "flushed" /\ UNCHANGED cur
             /\ UNCHANGED <<tx, rx, hw, watch, i, d, ret>>

FlushReturn == /\ pc = "flushed"
               /\ pc' = "idle"
               /\ UNCHANGED <<tx, rx, hw, watch, local, ret>>

Baud(u) == /\ pc = "flushed"
           /\ uart_init(u)
           /\ pc' = "idle"
           /\ UNCHANGED <<tx_buff, rx_buff, ie, udre, udr, watch, local, ret>>
-----------------------------------------------------------------------------
(* The halt key: cli_haltkey sets it, z80_run and z80_debug clear the flag. *)
SetWatchKey(k) == /\ pc = "idle"
                  /\ watch_key' = k
                  /\ UNCHANGED <<tx, rx, hw, watch_flag, pc, local, ret>>

ClearWatchFlag == /\ pc = "idle"
                  /\ watch_flag' = FALSE
                  /\ UNCHANGED <<tx, rx, hw, watch_key, pc, local, ret>>
-----------------------------------------------------------------------------
(* The interrupts, and the transmitter that empties the data register. *)
\* Mutant of uart_rx_vect: the byte is stored before the test for room.
uart_rx_vectOverwrites(u, b) ==
    /\ ie /\ "RXCIE" \in ucsrb[u]
    /\ watch_flag' = (watch_flag \/ (watch_key # Zero /\ b = watch_key))
    /\ rx_buff' = [rx_buff EXCEPT ![u] = [@ EXCEPT ![rx_wi[u]] = b]]
    /\ \/ /\ rx_ct[u] < N
          /\ rx_ct' = [rx_ct EXCEPT ![u] = @ + 1]
          /\ rx_wi' = [rx_wi EXCEPT ![u] = Inc(rx_wi[u])]
       \/ /\ rx_ct[u] = N
          /\ UNCHANGED <<rx_ct, rx_wi>>
    /\ UNCHANGED <<tx, rx_ri, hw, watch_key, pc, local, ret>>

uart_rx_vect(u, b) ==
    /\ ie /\ "RXCIE" \in ucsrb[u]
    /\ watch_flag' = (watch_flag \/ (watch_key # Zero /\ b = watch_key))
    /\ \/ /\ rx_ct[u] < N
          /\ rx_ct' = [rx_ct EXCEPT ![u] = @ + 1]
          /\ rx_buff' = [rx_buff EXCEPT ![u] = [@ EXCEPT ![rx_wi[u]] = b]]
          /\ rx_wi' = [rx_wi EXCEPT ![u] = Inc(rx_wi[u])]
       \/ /\ rx_ct[u] = N
          /\ UNCHANGED <<rx_ct, rx_buff, rx_wi>>
    /\ UNCHANGED <<tx, rx_ri, hw, watch_key, pc, local, ret>>

\* Mutant of uart_udre_vect: it disarms itself at every byte.
uart_udre_vectDisarms(u) ==
    /\ ie /\ "UDRIE" \in ucsrb[u] /\ udre[u]
    /\ ucsrb' = [ucsrb EXCEPT ![u] = {"RXCIE"}]
    /\ \/ /\ tx_ct[u] # 0
          /\ tx_ct' = [tx_ct EXCEPT ![u] = @ - 1]
          /\ tx_ri' = [tx_ri EXCEPT ![u] = Inc(tx_ri[u])]
          /\ udr' = [udr EXCEPT ![u] = tx_buff[u][tx_ri[u]]]
          /\ udre' = [udre EXCEPT ![u] = FALSE]
       \/ /\ tx_ct[u] = 0
          /\ UNCHANGED <<tx_ct, tx_ri, udr, udre>>
    /\ UNCHANGED <<tx_wi, tx_buff, rx, ie, watch, pc, local, ret>>

uart_udre_vect(u) ==
    /\ ie /\ "UDRIE" \in ucsrb[u] /\ udre[u]
    /\ \/ /\ tx_ct[u] # 0
          /\ tx_ct' = [tx_ct EXCEPT ![u] = @ - 1]
          /\ tx_ri' = [tx_ri EXCEPT ![u] = Inc(tx_ri[u])]
          /\ udr' = [udr EXCEPT ![u] = tx_buff[u][tx_ri[u]]]
          /\ udre' = [udre EXCEPT ![u] = FALSE]
          /\ ucsrb' = [ucsrb EXCEPT ![u] =
                         IF tx_ct[u] = 1 THEN {"RXCIE"} ELSE @]
       \/ /\ tx_ct[u] = 0
          /\ ucsrb' = [ucsrb EXCEPT ![u] = {"RXCIE"}]
          /\ UNCHANGED <<tx_ct, tx_ri, udr, udre>>
    /\ UNCHANGED <<tx_wi, tx_buff, rx, ie, watch, pc, local, ret>>

Shift(u) == /\ ~udre[u]
            /\ udre' = [udre EXCEPT ![u] = TRUE]
            /\ UNCHANGED <<tx, rx, ucsrb, ie, udr, watch, pc, local, ret>>
-----------------------------------------------------------------------------
Calls == \/ \E u \in Uarts, b \in Bytes : PutCall(u, b)
         \/ \E u \in Uarts, op \in {"get", "peek"} : GetCall(u, op)
         \/ FlushCall
         \/ \E k \in Bytes : SetWatchKey(k)
         \/ ClearWatchFlag
         \/ StartTimer

\* The statements of a function already called.
Running == \/ Boot
           \/ PutWait \/ PutStore \/ PutCrit \/ PutAdv
           \/ GetRead \/ GetCrit \/ GetAdv \/ PeekRead
           \/ FlushCt \/ FlushUdre \/ FlushReturn
           \/ \E u \in Uarts : Baud(u)

Interrupts == \E u \in Uarts : \/ uart_udre_vect(u)
                               \/ Shift(u)
                               \/ \E b \in Bytes : uart_rx_vect(u, b)

Next == Calls \/ Running \/ Interrupts

Spec == Init /\ [][Next]_vars

\* The processor runs the main thread between interrupts, a pending interrupt
\* is served, the transmitter shifts.  Nobody has to call, send or receive.
Fairness == /\ WF_vars(Running)
            /\ \A u \in Uarts : /\ WF_vars(uart_udre_vect(u))
                                /\ WF_vars(Shift(u))

FairSpec == Spec /\ Fairness
-----------------------------------------------------------------------------
RingType == /\ tx_wi \in [Uarts -> Index] /\ rx_wi \in [Uarts -> Index]
            /\ tx_ri \in [Uarts -> Index] /\ rx_ri \in [Uarts -> Index]
            /\ tx_ct \in [Uarts -> 0 .. N] /\ rx_ct \in [Uarts -> 0 .. N]
            /\ tx_buff \in [Uarts -> [Index -> Bytes]]
            /\ rx_buff \in [Uarts -> [Index -> Bytes]]

PortType == /\ ucsrb \in [Uarts -> SUBSET Flags]
            /\ ie \in BOOLEAN
            /\ udre \in [Uarts -> BOOLEAN]
            /\ udr \in [Uarts -> Bytes]
            /\ watch_key \in Bytes /\ watch_flag \in BOOLEAN

MainType == /\ pc \in {"boot", "idle", "put_wait", "put_store", "put_crit",
                       "put_adv", "get_read", "get_crit", "get_adv",
                       "peek_read", "flush_ct", "flush_udre", "flushed"}
            /\ cur \in Uarts /\ i \in Index /\ d \in Bytes /\ ret \in Bytes

\* Every variable has its type; in particular ct never leaves 0 .. N.
TypeOK == RingType /\ PortType /\ MainType

\* The slot k places after slot s of a ring.
Wrap(s, k) == IF s + k >= N THEN s + k - N ELSE s + k

\* An index that its function is about to advance counts as advanced: the
\* interrupts see ct changed by the critical section before wi or ri moves.
TxWi(u) == IF pc = "put_adv" /\ cur = u THEN Inc(tx_wi[u]) ELSE tx_wi[u]
RxRi(u) == IF pc = "get_adv" /\ cur = u THEN Inc(rx_ri[u]) ELSE rx_ri[u]

\* The three fields of each ring agree at every interrupt point: wi is ct
\* places after ri, although uart.c updates ct and the indices in different
\* statements, of the main thread for one and of an interrupt for the other.
RingOK == \A u \in Uarts : /\ TxWi(u) = Wrap(tx_ri[u], tx_ct[u])
                           /\ rx_wi[u] = Wrap(RxRi(u), rx_ct[u])

\* A byte in a transmit ring always has an interrupt coming for it:
\* uart_udre_vect disarms UDRIE only when it leaves the ring empty, whatever
\* uart_putc is doing at that moment.
Armed == \A u \in Uarts : tx_ct[u] > 0 => ie /\ "UDRIE" \in ucsrb[u]

\* When uart_flush returns, nothing is left in any ring or data register,
\* although it looks at the UARTs one after the other.
FlushDrains == pc = "flushed" => \A u \in Uarts : tx_ct[u] = 0 /\ udre[u]

\* What the running function still relies on when an interrupt comes.
CallOK ==
    /\ pc \in {"put_store", "put_crit", "put_adv"} => i = tx_wi[cur]
    /\ pc \in {"put_store", "put_crit"} => tx_ct[cur] < N
    /\ pc = "put_crit" => tx_buff[cur][i] = d
    /\ pc \in {"get_read", "get_crit", "get_adv", "peek_read"} => i = rx_ri[cur]
    /\ pc \in {"get_read", "get_crit", "peek_read"} => rx_ct[cur] > 0
    /\ pc = "get_crit" => rx_buff[cur][i] = d

\* What uart_flush has seen so far stays true until it returns.
FlushOK ==
    /\ pc \in {"boot", "flush_udre", "flushed"} => \A u \in Uarts : tx_ct[u] = 0
    /\ pc = "flush_ct" => \A u \in Uarts : u < cur => tx_ct[u] = 0
    /\ pc = "flush_udre" => \A u \in Uarts : u < cur => udre[u]
    /\ pc = "flushed" => \A u \in Uarts : udre[u]

\* The inductive invariant: the state of the interrupted function and of the
\* rings, taken together, survive every step of the main thread and of the
\* interrupts.
IInv == TypeOK /\ RingOK /\ Armed /\ CallOK /\ FlushOK

\* The queues the rings stand for, oldest byte first.
TxQueue(u) == [k \in 1 .. tx_ct[u] |-> tx_buff[u][Wrap(tx_ri[u], k - 1)]]
RxQueue(u) == [k \in 1 .. rx_ct[u] |-> rx_buff[u][Wrap(RxRi(u), k - 1)]]

\* The driver implements bounded FIFO queues: no byte accepted by uart_putc is
\* lost, repeated or reordered, received bytes are read in order, and only
\* bytes that find the ring full are dropped (refinement of UartPort).
Port == INSTANCE UartPort WITH
          txq <- [u \in Uarts |-> TxQueue(u)],
          rxq <- [u \in Uarts |-> RxQueue(u)],
          ret <- IF pc = "get_adv" THEN d ELSE ret

PortSpec == Port!Spec

\* A byte accepted by uart_putc is transmitted in the end.
PortFair == Port!FairSpec

\* Every call returns: a uart_putc that waits for room, a uart_flush that
\* waits for the rings to drain.
MainReturns == pc # "idle" ~> pc = "idle"
=============================================================================
