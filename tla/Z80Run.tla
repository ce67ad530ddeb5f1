------------------------------- MODULE Z80Run -------------------------------
(***************************************************************************)
(* The Z80, the bus and the firmware that serves it: z80_run (z80.c),      *)
(* iorq_dispatch (iorq.c), bus_request and bus_release (bus.c), and the    *)
(* two DMA ports (filedma.c, bdosemu.c).                                   *)
(*                                                                         *)
(* Two actors take turns on one bus.  An I/O cycle of the Z80 puts it in a *)
(* wait state until BUSRQ goes low; it then ends the cycle and, as BUSRQ   *)
(* is low, leaves the bus (BUSACK).  The firmware polls WAIT, serves the   *)
(* cycle and hands the bus back.  The user may press RESET or the halt key *)
(* at any moment.                                                          *)
(***************************************************************************)
EXTENDS Naturals, Sequences

CONSTANTS Mailboxes,  \* the DMA ports: FATFS DMA and BDOS
          Dev,        \* any other port
          Bytes,      \* the bytes written to ports
          Halts,      \* the settings the user chooses from: <<halt key?, halt_mask>>
          None, Junk

Ports == Mailboxes \cup {Dev}

\* A write of a byte to a port or, with None for the byte, a read of it.
Requests == [port : Ports, byte : Bytes \cup {None}]

ASSUME PortAssumption ==
    /\ Dev \notin Mailboxes /\ None \notin Bytes \cup Requests
    /\ Halts \subseteq BOOLEAN \X SUBSET {"RESET", "HALT"}
    /\ \A m \in Mailboxes, b \in Bytes, box \in [1 .. 2 -> Bytes] :
           <<m, b>> # None /\ <<m, box, b>> # None

VARIABLES
    pc,          \* where the firmware is
    busrq,       \* BUSRQ is low
    drive,       \* the firmware drives address and control lines
    dout,        \* the firmware drives the data lines (DATA_OUTPUT)
    z80,         \* "run", "io" (in an I/O cycle), "off" (the bus), "reset"
    req,         \* the I/O cycle the Z80 is in, or None
    served,      \* it has been dispatched
    pressed,     \* the RESET button is held
    watch_key,   \* a halt key is set
    watch_flag,  \* it was received
    halt_mask,   \* the signals that halt: "RESET", "HALT"
    ioxint,      \* IOXINT is low: one of them was seen
    mail,        \* dma_mailbox and dma_status of each port
    dma,         \* dma_function with its command, or None
    done,        \* history: the last command carried out
    sent,        \* history: what mail is in the eyes of the Z80 program
    lost,        \* history: an I/O cycle ended without being dispatched
    hit          \* history: RESET since the firmware began to use the bus

bus == <<busrq, drive, dout>>
cpu == <<z80, req, served, sent, lost>>
keys == <<pressed, watch_key, watch_flag, halt_mask, ioxint>>
ports == <<mail, dma, done>>
vars == <<pc, busrq, drive, dout, z80, req, served, pressed, watch_key,
          watch_flag, halt_mask, ioxint, mail, dma, done, sent, lost, hit>>

\* bus_init() leaves the firmware in control of the bus.
Init == /\ pc = "cli"
        /\ busrq = TRUE /\ drive = TRUE /\ dout = FALSE
        /\ z80 = "off" /\ req = None /\ served = FALSE
        /\ pressed = FALSE /\ watch_key = FALSE /\ watch_flag = FALSE
        /\ halt_mask = {"RESET", "HALT"} /\ ioxint = FALSE
        /\ mail = [m \in Mailboxes |-> <<>>] /\ dma = None /\ done = None
        /\ sent = mail /\ lost = FALSE /\ hit = FALSE

Goto(a, b) == pc = a /\ pc' = b
-----------------------------------------------------------------------------
(* The Z80.  Its clock stands still while the firmware is in the command   *)
(* line and when z80_run has stopped it.                                   *)
Clocked == pc \notin {"cli", "stop"}

Wait == z80 = "io" /\ ~busrq
BusAck == z80 = "off"

\* What a served request does to a mailbox.
Mailed(box, byte) == IF byte = None THEN <<>>
                     ELSE IF Len(box) < 2 THEN Append(box, byte) ELSE box

IoStart(r) == /\ Clocked /\ z80 = "run" /\ ~busrq
              /\ z80' = "io" /\ req' = r /\ served' = FALSE
              /\ UNCHANGED <<pc, bus, keys, ports, sent, lost, hit>>

\* BUSRQ ends the wait state, and is sampled at the end of the cycle.
IoDone == /\ Clocked /\ z80 = "io" /\ busrq
          /\ z80' = "off" /\ req' = None /\ served' = FALSE
          /\ lost' = (lost \/ ~served)
          /\ sent' = IF req.port = Dev THEN sent
                     ELSE [sent EXCEPT ![req.port] = Mailed(@, req.byte)]
          /\ UNCHANGED <<pc, bus, keys, ports, hit>>

Grant == /\ Clocked /\ z80 = "run" /\ busrq
         /\ z80' = "off"
         /\ UNCHANGED <<pc, bus, keys, ports, req, served, sent, lost, hit>>

TakeBack == /\ Clocked /\ z80 = "off" /\ ~busrq
            /\ z80' = "run"
            /\ UNCHANGED <<pc, bus, keys, ports, req, served, sent, lost, hit>>

Halt == /\ Clocked /\ z80 = "run" /\ "HALT" \in halt_mask
        /\ ioxint' = TRUE
        /\ UNCHANGED <<pc, bus, cpu, pressed, watch_key, watch_flag, halt_mask,
                       ports, hit>>

\* The button, which IOXINT reports at once.
Press == /\ ~pressed
         /\ pressed' = TRUE
         /\ ioxint' = (ioxint \/ "RESET" \in halt_mask)
         /\ UNCHANGED <<pc, bus, cpu, watch_key, watch_flag, halt_mask, ports, hit>>

\* A clocked Z80 obeys it: it abandons its cycle, leaves the bus and raises
\* BUSACK.  The program that starts afterwards finds the ports as they are.
ResetSeen == /\ Clocked /\ pressed /\ z80 # "reset"
             /\ z80' = "reset" /\ req' = None /\ served' = FALSE
             /\ sent' = mail /\ hit' = TRUE
             /\ UNCHANGED <<pc, bus, keys, ports, lost>>

Release == /\ pressed
           /\ pressed' = FALSE
           /\ z80' = IF z80 = "reset" THEN "run" ELSE z80
           /\ UNCHANGED <<pc, bus, req, served, sent, lost, watch_key, watch_flag,
                          halt_mask, ioxint, ports, hit>>

\* uart_rx_vect receives the halt key.
HaltKey == /\ watch_key
           /\ watch_flag' = TRUE
           /\ UNCHANGED <<pc, bus, cpu, pressed, watch_key, halt_mask, ioxint,
                          ports, hit>>
-----------------------------------------------------------------------------
(* The command line: haltkey, halt, reset. *)
cli_halt(key, mask) ==
    /\ pc = "cli"
    /\ watch_key' = key /\ halt_mask' = mask
    /\ UNCHANGED <<pc, bus, cpu, pressed, watch_flag, ioxint, ports, hit>>

\* z80_reset releases the bus, pulses RESET and requests the bus, which the
\* Z80 does not grant while the button is held.
z80_reset == /\ pc = "cli"
             /\ z80' = IF pressed THEN "reset" ELSE "off"
             /\ busrq' = ~pressed /\ drive' = ~pressed /\ dout' = FALSE
             /\ sent' = mail /\ hit' = FALSE
             /\ UNCHANGED <<pc, keys, ports, req, served, lost>>
-----------------------------------------------------------------------------
(* bus_request and bus_release, called at a and returning at b.  The 256   *)
(* clocks of the time limit pass only while RESET is held.                 *)
\* Mutant of Request: BUSRQ stays high.
RequestNothing(a, b) == /\ Goto(a, b)
                        /\ UNCHANGED <<bus, cpu, keys, ports>>

Request(a, b) == /\ Goto(a, b)
                 /\ busrq' = TRUE
                 /\ UNCHANGED <<drive, dout, cpu, keys, ports>>

Granted(a, b) == /\ BusAck
                 /\ Goto(a, b)
                 /\ drive' = TRUE /\ dout' = FALSE
                 /\ UNCHANGED <<busrq, cpu, keys, ports, hit>>

TimedOut(a, b) == /\ z80 = "reset"
                  /\ Goto(a, b)
                  /\ busrq' = FALSE
                  /\ UNCHANGED <<drive, dout, cpu, keys, hit>>

\* Mutant of Released: BUSRQ goes high while the lines are still driven.
ReleasedDriving(a, b) == /\ Goto(a, b)
                         /\ busrq' = FALSE
                         /\ UNCHANGED <<drive, dout, cpu>>

Released(a, b) == /\ Goto(a, b)
                  /\ drive' = FALSE /\ dout' = FALSE /\ busrq' = FALSE
                  /\ UNCHANGED cpu
-----------------------------------------------------------------------------
(* z80_run *)
Run == /\ Released("cli", "start")
       /\ watch_flag' = FALSE /\ hit' = FALSE
       /\ UNCHANGED <<pressed, watch_key, halt_mask, ioxint, ports>>

\* The bus is back; reading the I/O expander clears its interrupt, which
\* comes again at once while a signal is still low.
Started == /\ ~BusAck
           /\ Goto("start", "loop")
           /\ ioxint' = (pressed /\ "RESET" \in halt_mask)
           /\ UNCHANGED <<bus, cpu, pressed, watch_key, watch_flag, halt_mask,
                          ports, hit>>

\* There is something that could halt the Z80.
Checks == watch_key \/ halt_mask # {}

\* Mutant of Poll: the cycle is ended without being served.
PollSkips == /\ Wait
             /\ Goto("loop", "ack")
             /\ hit' = FALSE
             /\ UNCHANGED <<bus, cpu, keys, ports>>

Poll == /\ Wait
        /\ Goto("loop", "dispatch")
        /\ hit' = FALSE
        /\ UNCHANGED <<bus, cpu, keys, ports>>

PollIdle == /\ ~Wait /\ Checks
            /\ Goto("loop", "check")
            /\ UNCHANGED <<bus, cpu, keys, ports, hit>>

\* When it breaks out of the loop it stops the clock.
Check == /\ Goto("check", IF watch_flag \/ ioxint THEN "stop" ELSE "loop")
         /\ UNCHANGED <<bus, cpu, keys, ports, hit>>

Stop == /\ ~pressed
        /\ Request("stop", "stopping")
        /\ hit' = FALSE

Stopped == \/ Granted("stopping", "cli")
           \/ TimedOut("stopping", "cli") /\ UNCHANGED ports
-----------------------------------------------------------------------------
(* iorq_dispatch *)
\* Mutant of Queue: the command is queued when the first byte of the address
\* is there.
QueueEarly(m) == /\ req.byte # None /\ Len(mail[m]) >= 1
                 /\ dma' = <<m, req.byte>>
                 /\ mail' = mail

\* file_dma_command and bdos_dma_command with the address set
Queue(m) == /\ req.byte # None /\ Len(mail[m]) = 2
            /\ dma' = <<m, req.byte>>
            /\ mail' = mail

\* file_dma_reset, bdos_dma_reset and the other calls of *_dma_command
Post(m) == /\ req.byte = None \/ Len(mail[m]) < 2
           /\ mail' = [mail EXCEPT ![m] = Mailed(@, req.byte)]
           /\ dma' = IF req.byte = None THEN None ELSE dma

\* RD and WR are read once more: RESET may have ended the cycle.
Dispatch ==
    /\ \/ /\ z80 = "io"
          /\ served' = TRUE
          /\ dout' = (req.byte = None)
          /\ \/ req.port = Dev /\ UNCHANGED <<mail, dma>>
             \/ req.port \in Mailboxes /\ (Queue(req.port) \/ Post(req.port))
       \/ z80 # "io" /\ UNCHANGED <<served, dout, mail, dma>>
    /\ Goto("dispatch", IF dma' # None THEN "queued" ELSE "ack")
    /\ UNCHANGED <<busrq, drive, z80, req, sent, lost, keys, done, hit>>

Ack == Request("ack", "acking") /\ UNCHANGED hit

\* Mutant of Acked: it does not wait for BUSACK.
AckedAtOnce == /\ Goto("acking", "loop")
               /\ dout' = FALSE /\ busrq' = FALSE
               /\ UNCHANGED <<drive, cpu, keys, ports, hit>>

\* while (GET_BUSACK) CLK_TOGGLE; DATA_INPUT; BUSRQ_HI
Acked == /\ BusAck
         /\ Goto("acking", "loop")
         /\ dout' = FALSE /\ busrq' = FALSE
         /\ UNCHANGED <<drive, cpu, keys, ports, hit>>

DmaRequest == Request("queued", "requesting") /\ UNCHANGED hit

DmaGranted == Granted("requesting", "dma")

\* Mutant of Execute: dma_function is not reset.
ExecuteKeeps ==
    /\ Goto("dma", "release")
    /\ done' = IF BusAck THEN <<dma[1], mail[dma[1]], dma[2]>> ELSE Junk
    /\ UNCHANGED <<bus, cpu, keys, mail, dma, hit>>

\* dma_function().  Without BUSACK mem_read leaves its buffers uninitialised.
Execute ==
    /\ Goto("dma", "release")
    /\ done' = IF BusAck THEN <<dma[1], mail[dma[1]], dma[2]>> ELSE Junk
    /\ dma' = None
    /\ UNCHANGED <<bus, cpu, keys, mail, hit>>

DmaDropped == /\ TimedOut("requesting", "release")
              /\ dma' = None
              /\ UNCHANGED <<mail, done>>

DmaRelease == Released("release", "releasing") /\ UNCHANGED <<keys, ports, hit>>

DmaReleased == /\ ~BusAck
               /\ Goto("releasing", "loop")
               /\ UNCHANGED <<bus, cpu, keys, ports, hit>>
-----------------------------------------------------------------------------
Firmware == \/ Started \/ Poll \/ PollIdle \/ Check \/ Stop \/ Stopped
            \/ Dispatch \/ Ack \/ Acked
            \/ DmaRequest \/ DmaGranted \/ Execute \/ DmaDropped
            \/ DmaRelease \/ DmaReleased

Cpu == IoDone \/ Grant \/ TakeBack

User == \/ Press \/ Release \/ HaltKey \/ Run \/ z80_reset
        \/ \E h \in Halts : cli_halt(h[1], h[2])

Next == \/ Firmware \/ Cpu \/ User \/ Halt \/ ResetSeen
        \/ \E r \in Requests : IoStart(r)

Spec == Init /\ [][Next]_vars

\* The firmware runs, a clocked Z80 ends its cycles and answers BUSRQ, and the user
\* lets go of RESET.  Strong fairness: the two get on between two presses of a
\* button.  Nobody has to type or to issue requests.
Fairness == /\ SF_vars(Firmware) /\ SF_vars(Cpu)
            /\ WF_vars(ResetSeen) /\ WF_vars(Release)

FairSpec == Spec /\ Fairness
-----------------------------------------------------------------------------
\* The bytes of an address.
Boxes == {s \in Seq(Bytes) : Len(s) <= 2}

\* A bus state, the user's settings, and the mailboxes as each side knows them.
BusType == /\ pc \in {"cli", "start", "loop", "check", "stop", "stopping", "dispatch",
                      "ack", "acking", "queued", "requesting", "dma", "release",
                      "releasing"}
           /\ busrq \in BOOLEAN /\ drive \in BOOLEAN /\ dout \in BOOLEAN
           /\ z80 \in {"run", "io", "off", "reset"} /\ served \in BOOLEAN
           /\ req \in Requests \cup {None}

KeyType == /\ pressed \in BOOLEAN /\ watch_key \in BOOLEAN /\ watch_flag \in BOOLEAN
           /\ halt_mask \subseteq {"RESET", "HALT"} /\ ioxint \in BOOLEAN
           /\ lost \in BOOLEAN /\ hit \in BOOLEAN

MailType == /\ mail \in [Mailboxes -> Boxes] /\ sent \in [Mailboxes -> Boxes]
            /\ dma \in (Mailboxes \X Bytes) \cup {None}

TypeOK == BusType /\ KeyType /\ MailType

\* Who has the bus at each point of the firmware.
BusOK == /\ pc \in {"acking", "stopping", "requesting", "dma"} => busrq
         /\ pc \in {"start", "loop", "check", "stop", "dispatch", "ack", "queued",
                    "releasing"} => ~busrq
         /\ drive => busrq /\ pc \in {"cli", "dma", "release"}
         /\ dout => pc \in {"ack", "acking"}
         /\ dma # None <=> pc \in {"queued", "requesting", "dma"}
         /\ dma # None => Len(mail[dma[1]]) = 2

\* The firmware never drives the bus against the Z80: address and control lines
\* only while the Z80 is off the bus, data lines only then or while the Z80 reads
\* them.  RESET at the wrong moment is the exception: it takes BUSACK back.
NoContention ==
    hit \/ /\ drive => z80 = "off"
           /\ dout => z80 = "off" \/ (z80 = "io" /\ req.byte = None)

\* Where the Z80 is while its request is being served, unless RESET was pressed.
InStep ==
    /\ z80 = "io" <=> req # None
    /\ z80 = "io" => pc # "cli"
    /\ z80 = "io" /\ served => pc \in {"ack", "acking", "queued", "requesting"}
    /\ z80 = "io" /\ busrq => pc \in {"acking", "requesting", "stopping"}
    /\ ~hit => /\ pc = "dispatch" => z80 = "io"
               /\ pc \in {"ack", "queued"} => z80 = "io" /\ served
               /\ pc \in {"acking", "requesting"} =>
                      z80 = "off" \/ (z80 = "io" /\ served)
               /\ pc = "dma" => z80 = "off"

\* What a request that is served but not ended has done to the mailboxes.
Owed == IF z80 = "io" /\ served /\ req.port \in Mailboxes
        THEN [sent EXCEPT ![req.port] = Mailed(@, req.byte)]
        ELSE sent

\* Every byte the Z80 program writes to a DMA port reaches its mailbox exactly
\* once: between its I/O cycles the mailboxes hold what it believes they hold,
\* unless z80_run lost a cycle.
Understood == ~lost /\ z80 \in {"run", "off"} => sent = mail

\* The inductive invariant: firmware, Z80 and mailboxes at every point.
IInv == TypeOK /\ BusOK /\ NoContention /\ InStep /\ (~lost => mail = Owed)

\* An I/O cycle is lost only when z80_run is leaving, for the Z80 may begin one
\* after the firmware has looked at WAIT for the last time, or when RESET made
\* the Z80 begin another one while the firmware was still serving the last.
LostOnlyAtStop == [][lost' # lost => pc = "stopping" \/ hit]_vars

\* No I/O cycle is lost.  "Handle Z80 IO request" (iorq.c:395) is all that
\* answers the Z80, and z80_run does not call it for a cycle that begins when
\* it has decided to stop.
NothingLost == ~lost

\* The DMA ports keep their promise: no command is lost, repeated or carried out
\* with another address, except by RESET (refinement of DmaPort), and none stays
\* pending.
Dma == INSTANCE DmaPort WITH
         todo <- IF dma = None THEN None ELSE <<dma[1], mail[dma[1]], dma[2]>>

DmaSpec == Dma!Spec
DmaFair == Dma!FairSpec

\* A request is answered: iorq_dispatch returns, whatever the user does.
DispatchReturns == pc = "dispatch" ~> pc = "loop"
=============================================================================
