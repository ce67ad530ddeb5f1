------------------------------ MODULE Console ------------------------------
(***************************************************************************)
(* The console of z80ctrl: the line editor of the command line             *)
(* (uart_getchar, uart.c), the emulation of the 88-2SIO serial board       *)
(* through which a Z80 program reads and writes UARTs or files (sioemu.c), *)
(* and the attach command that says which (cli.c).  Both take the keys     *)
(* from the same receive queue, one when the Z80 is halted and the other   *)
(* when it runs.  The terminal shows what they echo: its last row begins   *)
(* at the prompt and is as wide as it has to be.                           *)
(***************************************************************************)
EXTENDS Naturals, Sequences

CONSTANTS LINE_BUFF,  \* bytes of the line buffer: 80
          Room,       \* bytes of a receive queue
          Chars,      \* the printable characters
          Space, Prompt, None,
          Uarts,
          Main,       \* UART 0, the console
          Ports,      \* the virtual serial ports, named after the UARTs they start with
          Tape,       \* the contents of the file that can be read
          Longest     \* bound: bytes written to a file

ASSUME LineAssumption == LINE_BUFF \in Nat \ {0} /\ Room \in Nat \ {0} /\ Space \in Chars

ASSUME PortAssumption == /\ Main \in Uarts /\ Ports \subseteq Uarts /\ None \notin Ports
                         /\ "file" \notin Uarts /\ "unattached" \notin Uarts

\* The editing keys; every other control character is ignored.
Controls == {"enter", "intr", "erase", "reprint", "kill", "word", "other"}

VARIABLES pc,      \* "edit" a line, dispatch a "command", "run" the Z80
          rxq,     \* rxq[u]: received by UART u, not read yet
          line,    \* b[0 .. cp - 1]
          row,     \* the row of the terminal
          col,     \* the columns left of its cursor
          rmode,   \* sio_readmode: a UART, "file" or "unattached"
          wmode,   \* sio_writemode
          rpos,    \* the position in sio_readfile
          wfil,    \* what was written to sio_writefile since it was opened
          card,    \* the output file of each port, in its directory
          owed,    \* history: what was written to it last, all in all
          polled,  \* history: the port the program found ready and may read
          fake     \* history: it read a byte that was never received

edit == <<line, row, col>>
sio == <<rmode, wmode, rpos, wfil, card, owed>>
vars == <<pc, rxq, edit, sio, polled, fake>>

Init == /\ pc = "edit"
        /\ rxq = [u \in Uarts |-> <<>>]
        /\ line = <<>> /\ row = <<Prompt>> /\ col = 1
        /\ rmode = [p \in Ports |-> p] /\ wmode = [p \in Ports |-> p]
        /\ rpos = [p \in Ports |-> 0] /\ wfil = [p \in Ports |-> <<>>]
        /\ card = [p \in Ports |-> <<>>] /\ owed = card
        /\ polled = None /\ fake = FALSE

\* uart_rx_vect; a full queue drops the byte.
Type(u, k) == /\ Len(rxq[u]) < Room
              /\ rxq' = [rxq EXCEPT ![u] = Append(@, k)]
              /\ UNCHANGED <<pc, edit, sio, polled, fake>>
-----------------------------------------------------------------------------
(* uart_getchar.  Each key is an action, with its echo. *)
Key(keys) == /\ pc = "edit" /\ rxq[Main] # <<>> /\ Head(rxq[Main]) \in keys
             /\ rxq' = [rxq EXCEPT ![Main] = Tail(@)]
             /\ UNCHANGED <<sio, polled, fake>>

\* A cell of the row, at the cursor.
Put(r, c, x) == [i \in 1 .. IF c < Len(r) THEN Len(r) ELSE c + 1 |->
                    IF i = c + 1 THEN x ELSE r[i]]

\* The last n cells left of the cursor are rubbed out: "\b \b" n times.
Rubbed(n) == [i \in DOMAIN row |-> IF i \in col - n + 1 .. col THEN Space ELSE row[i]]

Erase(n) == /\ line' = SubSeq(line, 1, Len(line) - n)
            /\ row' = Rubbed(n) /\ col' = col - n
            /\ UNCHANGED pc

\* Mutant: the character that finds the buffer full is echoed.
InsertEchoed ==
    /\ Key(Chars)
    /\ line' = IF Len(line) = LINE_BUFF - 1 THEN line ELSE Append(line, Head(rxq[Main]))
    /\ row' = Put(row, col, Head(rxq[Main])) /\ col' = col + 1
    /\ UNCHANGED pc

\* A full buffer answers with BEL.
Insert ==
    /\ Key(Chars)
    /\ IF Len(line) = LINE_BUFF - 1 THEN UNCHANGED edit
       ELSE /\ line' = Append(line, Head(rxq[Main]))
            /\ row' = Put(row, col, Head(rxq[Main])) /\ col' = col + 1
    /\ UNCHANGED pc

EraseOne == Key({"erase"}) /\ Erase(IF line = <<>> THEN 0 ELSE 1)

Kill == Key({"kill"}) /\ Erase(Len(line))

\* The last word, if no space follows it.
Word == /\ Key({"word"})
        /\ \E n \in 0 .. Len(line) :
              /\ \A i \in Len(line) - n + 1 .. Len(line) : line[i] # Space
              /\ n < Len(line) => line[Len(line) - n] = Space
              /\ Erase(n)

Reprint == /\ Key({"reprint"})
           /\ row' = [i \in 1 .. IF Len(row) > Len(line) THEN Len(row) ELSE Len(line) |->
                         IF i <= Len(line) THEN line[i] ELSE row[i]]
           /\ col' = Len(line)
           /\ UNCHANGED <<pc, line>>

Ignore == Key({"other"}) /\ UNCHANGED <<pc, edit>>

\* The line is handed over, up to the newline, and executed; ^C makes fgets fail.
Enter == /\ Key({"enter", "intr"})
         /\ pc' = IF Head(rxq[Main]) = "enter" THEN "command" ELSE "edit"
         /\ line' = <<>> /\ row' = <<Prompt>> /\ col' = 1

Edit == Insert \/ EraseOne \/ Kill \/ Word \/ Reprint \/ Ignore \/ Enter
-----------------------------------------------------------------------------
(* cli_attach *)
\* What the directory says of the output file of p once it is closed.
Closed(p) == wfil[p] \o SubSeq(card[p], Len(wfil[p]) + 1, Len(card[p]))

\* Mutant: the file that is attached is not closed.
DetachOpen(p) == UNCHANGED card

\* sio_unattach, before another file or UART is attached for output
Detach(p) == card' = IF wmode[p] = "file" THEN [card EXCEPT ![p] = Closed(p)] ELSE card

\* sio_attach; f_open may fail.
AttachWrite(p, mode) ==
    /\ Detach(p)
    /\ wmode' \in {[wmode EXCEPT ![p] = m] :
                      m \in IF mode = "file" THEN {mode, "unattached"} ELSE {mode}}
    /\ wfil' = [wfil EXCEPT ![p] = <<>>]
    /\ UNCHANGED <<rmode, rpos, owed>>

AttachRead(p, mode) ==
    /\ rmode' \in {[rmode EXCEPT ![p] = m] :
                      m \in IF mode = "file" THEN {mode, "unattached"} ELSE {mode}}
    /\ rpos' = [rpos EXCEPT ![p] = 0]
    /\ UNCHANGED <<wmode, wfil, card, owed>>

\* The commands: attach, one that runs the Z80, and all others.
Command == /\ pc = "command"
           /\ \/ /\ \E p \in Ports, mode \in Uarts \cup {"file"} :
                        AttachWrite(p, mode) \/ AttachRead(p, mode)
                 /\ pc' = "edit"
              \/ UNCHANGED sio /\ pc' \in {"edit", "run"}
           /\ UNCHANGED <<rxq, edit, polled, fake>>

\* The Z80 is halted; what it found ready may be typed into the command line.
Halt == /\ pc = "run"
        /\ pc' = "edit" /\ polled' = None
        /\ UNCHANGED <<rxq, edit, sio, fake>>
-----------------------------------------------------------------------------
(* The ports, as a program on the Z80 uses them. *)
\* Mutant of Ready: the UART that is written to.
ReadyToWrite(p) == wmode[p] = "file" \/ (wmode[p] \in Uarts /\ rxq[wmode[p]] # <<>>)

\* Bit 0 of sio_status
Ready(p) == rmode[p] = "file" \/ (rmode[p] \in Uarts /\ rxq[rmode[p]] # <<>>)

sio_status(p) == /\ pc = "run"
                 /\ polled' = IF Ready(p) THEN p ELSE None
                 /\ UNCHANGED <<pc, rxq, edit, sio, fake>>

\* A UART with nothing received, or an unattached port, reads as 0; a file that
\* has ended reads as SIO_EOF.
sio_read(p) ==
    /\ pc = "run"
    /\ LET received == rmode[p] \in Uarts /\ rxq[rmode[p]] # <<>>
       IN  /\ rxq' = IF received THEN [rxq EXCEPT ![rmode[p]] = Tail(@)] ELSE rxq
           /\ fake' = (fake \/ (polled = p /\ ~received /\ rmode[p] # "file"))
    /\ rpos' = IF rmode[p] = "file" /\ rpos[p] < Len(Tape)
               THEN [rpos EXCEPT ![p] = @ + 1] ELSE rpos
    /\ polled' = None
    /\ UNCHANGED <<pc, edit, rmode, wmode, wfil, card, owed>>

\* What is written to a UART is transmitted, an unattached port drops it, and an
\* f_write that fails loses it: none of them changes anything here.
sio_write(p, x) ==
    /\ pc = "run" /\ Len(wfil[p]) < Longest
    /\ wmode[p] = "file"
    /\ wfil' = [wfil EXCEPT ![p] = Append(@, x)]
    /\ owed' = [owed EXCEPT ![p] = wfil'[p] \o SubSeq(@, Len(wfil'[p]) + 1, Len(@))]
    /\ UNCHANGED <<pc, rxq, edit, rmode, wmode, rpos, card, polled, fake>>

Program == \E p \in Ports : \/ sio_status(p) \/ sio_read(p)
                            \/ sio_write(p, Space)

Next == \/ Edit \/ Command \/ Halt \/ Program
        \/ \E k \in Chars \cup Controls : Type(Main, k)
        \/ \E u \in Uarts \ {Main} : Type(u, Space)

Spec == Init /\ [][Next]_vars
-----------------------------------------------------------------------------
\* What the user sees left of the cursor is what the line buffer holds, through
\* every edit and at the limit, where a byte remains for the newline.
EchoIsLine == /\ Len(line) < LINE_BUFF /\ Len(line) <= col
              /\ \A i \in DOMAIN line : row[col - Len(line) + i] = line[i]

\* A program that finds a port ready and then reads it gets a byte that was
\* received, whatever the ports are attached to, unless the user has halted it.
PolledIsReal == ~fake

\* What a program has written to a file is in the file when another one, or a
\* UART, has been attached in its place.
NothingUnsaved == \A p \in Ports : wmode[p] # "file" => card[p] = owed[p]
=============================================================================
