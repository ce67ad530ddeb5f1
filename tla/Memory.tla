------------------------------- MODULE Memory -------------------------------
(***************************************************************************)
(* The Z80's memory as the firmware reaches it: page by page, bank by bank *)
(* (bus.c), and the loops that copy ranges of it in pieces of a buffer:    *)
(* the commands fill, loadbin, savebin and savehex (cli.c, ihex.c) and the *)
(* DMA commands F_READ and F_WRITE of a Z80 program (filedma.c).           *)
(*                                                                         *)
(* What is copied is a set of pairs <<address, number of the byte>>; the   *)
(* bytes themselves do not matter.  An address of the code has 8 bits for  *)
(* the byte and 8 for the page, and its bits 16 to 18 are the bank.        *)
(***************************************************************************)
EXTENDS Integers

CONSTANTS PageSize,  \* 256
          Pages,     \* 256
          Banks,     \* 8
          Line,      \* BYTESPERLINE: 16
          Lengths    \* the lengths of files, and those asked for

ASSUME Geometry == /\ PageSize \in Nat \ {0} /\ Pages \in Nat \ {0, 1}
                   /\ Banks \in Nat \ {0} /\ Line \in 1 .. PageSize /\ Lengths \subseteq Nat

Space == PageSize * Pages

\* A byte read past the end of its buffer, or left there by an earlier piece.
Junk == -1

\* The loop of mem_read_page and mem_write_page runs at least once.
PageCopy(page, startlo, endlo, buf) ==
    {<<page * PageSize + startlo + i, buf + i>> :
        i \in 0 .. (IF startlo <= endlo THEN endlo - startlo ELSE 0)}

\* Where in the buffer the n-th page after the first begins.
Buf(startlo, n) == PageSize - startlo + n * PageSize

mem_iterate(start, end) ==
    LET starthi == start \div PageSize
        startlo == start % PageSize
        endhi == end \div PageSize
        endlo == end % PageSize
        second == (starthi + 1) % Pages
        last == IF second < endhi THEN endhi ELSE second
    IN  IF starthi = endhi THEN PageCopy(starthi, startlo, endlo, 0)
        ELSE PageCopy(starthi, startlo, PageSize - 1, 0)
             \cup (UNION {PageCopy(p, 0, PageSize - 1, Buf(startlo, p - second)) :
                             p \in second .. last - 1})
             \cup PageCopy(last, 0, endlo, Buf(startlo, last - second))

\* mem_bank_addr keeps three bits.
Bank(addr) == (addr \div Space) % Banks

\* The place of an address in memory.
Physical(addr) == Bank(addr) * Space + (addr % Space)

In(b, pairs, buf) == {<<b * Space + p[1], buf + p[2]>> : p \in pairs}

\* It compares one bit of the bank.
mem_iterate_banked(start, end) ==
    IF (start \div Space) % 2 = (end \div Space) % 2
    THEN In(Bank(start), mem_iterate(start % Space, end % Space), 0)
    ELSE In(Bank(start), mem_iterate(start % Space, Space - 1), 0)
         \cup In(Bank(end), mem_iterate(0, end % Space), Space - (start % Space))

\* Mutant of LastBank: the bank after the range.
LastBankNext(start, end) == Bank(end + 1)

\* The bank it leaves selected.
LastBank(start, end) == IF (start \div Space) % 2 = (end \div Space) % 2
                        THEN Bank(start) ELSE Bank(end)
-----------------------------------------------------------------------------
VARIABLES
    op,          \* the loop that runs; "cli" and "run" between loops, and
                 \* "lost" when one has written over the firmware's stack
    from, to,    \* its range: the last address belongs to it
    at,          \* its variable start or base
    left,        \* its variable len, btr or btw
    avail,       \* the bytes of the file from where it reads
    mem_banks,   \* the bank selected
    base_addr,   \* a multiple of Space
    copied,      \* history: what the loop has copied
    ended,       \* the loop came to its end
    home,        \* history: the bank the Z80 program was started in
    strayed      \* history: a command went outside it since then

range == <<from, to, at, left, avail>>
banks == <<mem_banks, base_addr, home, strayed>>
vars == <<op, from, to, at, left, avail, mem_banks, base_addr, copied, ended,
          home, strayed>>

Init == /\ op = "cli" /\ from = 0 /\ to = 0 /\ at = 0 /\ left = 0 /\ avail = 0
        /\ mem_banks = 0 /\ base_addr = 0 /\ home = 0 /\ strayed = FALSE
        /\ copied = {} /\ ended = FALSE

Min(a, b) == IF a < b THEN a ELSE b

\* A loop begins: its range, its len, the size of its file.
Begin(where, what, first, last, len, size) ==
    /\ op = where
    /\ op' = what /\ from' = first /\ to' = last /\ at' = first
    /\ left' = len /\ avail' = size
    /\ UNCHANGED <<copied, ended, banks>>

\* One piece of n bytes, the first with the given number, of which valid are in
\* the buffer: mem_read_banked or mem_write_banked.
Piece(n, valid, number) ==
    LET start == at + base_addr
        end == at + n - 1 + base_addr
        pairs == mem_iterate_banked(start, end)
    IN  /\ copied' = copied \cup
               {<<p[1], IF p[2] < valid THEN number + p[2] ELSE Junk>> : p \in pairs}
        /\ mem_banks' = LastBank(start, end)
        /\ strayed' = (strayed \/ \E a \in {start, end} : Bank(a) # home)
        /\ UNCHANGED <<from, to, base_addr, home>>

\* mem_read and mem_write, in the bank that is selected.
DmaPiece(n, valid, number) ==
    /\ copied' = copied \cup
           {<<p[1], IF p[2] < valid THEN number + p[2] ELSE Junk>> :
                p \in In(mem_banks, mem_iterate(at, (at + n - 1) % Space), 0)}
    /\ UNCHANGED <<from, to, banks>>

\* It returns, at its end or because a file call fails.
Return == /\ op # "lost" /\ (ended \/ op \notin {"cli", "run", "fill"})
          /\ op' = IF op \in {"read", "write"} THEN "run" ELSE "cli"
          /\ from' = 0 /\ to' = 0 /\ at' = 0 /\ left' = 0 /\ avail' = 0
          /\ copied' = {} /\ ended' = FALSE
          /\ UNCHANGED banks
-----------------------------------------------------------------------------
(* The command line.  Addresses are those of the user, before base_addr.   *)
User == 0 .. Space * Banks - 1

cli_fill(first, last) == Begin("cli", "fill", first, last, 0, 0)

\* Mutant of FillLength: the last byte is left out.
FillLengthShort == IF to - at > PageSize THEN PageSize ELSE to - at

FillLength == IF to - at > PageSize THEN PageSize ELSE to - at + 1

FillPiece ==
    /\ op = "fill" /\ ~ended
    /\ Piece(FillLength, Min(FillLength, PageSize), 0)
    /\ at' = at + PageSize
    /\ ended' = (to - at <= PageSize)
    /\ UNCHANGED <<op, left, avail>>

cli_savebin(first, last) == Begin("cli", "savebin", first, last, PageSize, 0)

SavePiece ==
    /\ op = "savebin" /\ ~ended
    /\ LET n == Min(to - at + 1, left)
       IN  /\ Piece(n, n, at - from)
           /\ left' = n /\ at' = at + n
           /\ ended' = (at + n > to)
    /\ UNCHANGED <<op, avail>>

\* Without a length, 0x100000 bytes are asked for.
loadbin(first, len, size) ==
    LET most == IF len = 0 THEN 2 * Space * Banks ELSE len
    IN  Begin("cli", "loadbin", first, first + Min(most, size) - 1, most, size)

LoadPiece ==
    /\ op = "loadbin" /\ ~ended
    /\ LET br == Min(Min(2 * PageSize, avail), left)
       IN  /\ IF br > 0 THEN Piece(br, br, at - from)
              ELSE UNCHANGED <<from, to, banks, copied>>
           /\ at' = at + br /\ left' = left - br /\ avail' = avail - br
           /\ ended' = (br < 2 * PageSize)
    /\ UNCHANGED op

save_ihex(first, last) == Begin("cli", "savehex", first, last, 0, 0)

\* Its last address is a uint16_t, end - start + 1 a uint32_t, and the record
\* carries 16 bits of the address.
HexPiece ==
    /\ op = "savehex" /\ ~ended
    /\ LET end == to % Space
           count == IF at <= end + 1 /\ end + 1 - at <= Line THEN end + 1 - at ELSE Line
       IN  /\ Piece(count, count, at % Space)
           /\ at' = at + count
           /\ ended' = (at + count > end)
    /\ UNCHANGED <<op, left, avail>>

cli_base(addr) == /\ op = "cli" /\ base_addr' = addr
                  /\ UNCHANGED <<op, range, copied, ended, mem_banks, home, strayed>>

\* z80_reset selects the bank of base_addr after it has written the reset vector.
z80_reset == /\ op = "cli"
             /\ mem_banks' = Bank(base_addr) /\ home' = Bank(base_addr)
             /\ strayed' = FALSE
             /\ UNCHANGED <<op, range, copied, ended, base_addr>>

z80_run == /\ op = "cli" /\ op' = "run"
           /\ UNCHANGED <<range, banks, copied, ended>>

Halted == /\ op = "run" /\ op' = "cli"
          /\ UNCHANGED <<range, banks, copied, ended>>
-----------------------------------------------------------------------------
(* The DMA commands of the Z80 program. *)
F_READ(outaddr, maxlen, size) ==
    Begin("run", "read", outaddr, outaddr + Min(maxlen, size) - 1, maxlen, size)

\* file_to_mem
ReadPiece ==
    /\ op = "read" /\ ~ended
    /\ LET btr1 == Min(left, 2 * PageSize)
           br1 == Min(btr1, avail)
       IN  /\ DmaPiece(br1, br1, at - from)
           /\ left' = left - br1 /\ avail' = avail - br1
           /\ at' = (at + br1) % Space
           /\ ended' = (left = br1 \/ br1 < btr1)
    /\ UNCHANGED op

F_WRITE(inaddr, maxlen) ==
    Begin("run", "write", inaddr, inaddr + maxlen - 1, maxlen, 0)

\* A piece of n bytes is read into buf and no further.
Fits(n) == \A p \in mem_iterate(at, (at + n - 1) % Space) : p[2] < 2 * PageSize

\* mem_to_file.  It returns when a full card takes less than it is given.
WritePiece ==
    /\ op = "write" /\ ~ended
    /\ LET btw1 == Min(left, 2 * PageSize)
       IN  /\ DmaPiece(btw1, btw1, at - from)
           /\ left' = left - btw1 /\ at' = (at + btw1) % Space
           /\ ended' = (left = btw1)
           /\ op' = IF Fits(btw1) THEN op ELSE "lost"
    /\ UNCHANGED avail

\* What a firmware without its stack does is not known.
Lost == op = "lost" /\ UNCHANGED vars
-----------------------------------------------------------------------------
Commands ==
    \/ \E first, last \in User :
          /\ first <= last
          /\ cli_fill(first, last) \/ cli_savebin(first, last) \/ save_ihex(first, last)
    \/ \E first \in User, len, size \in Lengths : loadbin(first, len, size)
    \/ \E b \in 0 .. Banks - 1 : cli_base(b * Space)
    \/ z80_reset \/ z80_run \/ Halted

\* A program's buffer does not wrap around the end of its memory.
Program ==
    \E addr \in 0 .. Space - 1, len, size \in Lengths :
        /\ addr + len <= Space
        /\ F_READ(addr, len, size) \/ F_WRITE(addr, len)

Loops == \/ Return \/ FillPiece \/ SavePiece \/ LoadPiece \/ HexPiece
         \/ ReadPiece \/ WritePiece \/ Lost

Next == Commands \/ Program \/ Loops

Spec == Init /\ [][Next]_vars
-----------------------------------------------------------------------------
\* The place of an address that the user gives.
Place(addr) == Physical(addr + base_addr)

\* fill's buffer over and over, up to an address.
Filled(last) == {<<Place(a), (a - from) % PageSize>> : a \in from .. last}

\* A range of a number of buffers and one byte more.
OneMore == to > from /\ (to - from) % PageSize = 0

\* fill, loadbin and savebin copy every byte of their range from or to the place
\* with its number, and nothing else; savehex does for ranges that end in the first
\* 64K.  The last byte that fill stores in a range of OneMore is a wrong one
\* (FillsRange): of such a range this says that all the others are right.
CommandExact ==
    /\ ended /\ op \in {"savebin", "loadbin"} => copied = {<<Place(a), a - from>> : a \in from .. to}
    /\ ended /\ op = "fill" => IF OneMore THEN copied \ {<<Place(to), Junk>>} = Filled(to - 1)
                               ELSE copied = Filled(to)
    /\ ended /\ op = "savehex" /\ to < Space => copied = {<<Place(a), a>> : a \in from .. to}

\* The transfer ended with a piece of no bytes: it was asked for none, or the file
\* for more than it had and it had a number of whole buffers.
EmptyPiece == (to - from + 1) % (2 * PageSize) = 0 /\ (left > 0 \/ to < from)

\* Where mem_read and mem_write of no bytes go, for their loops run at least once:
\* to the byte at the address, or to two pages from the beginning of one, or to the
\* whole memory from the beginning of the first or the last.
Touched(addr) ==
    IF addr % PageSize # 0 THEN {addr}
    ELSE IF addr \in {0, Space - PageSize} THEN 0 .. Space - 1
    ELSE addr .. addr + 2 * PageSize - 1

\* F_READ and F_WRITE copy each byte of the file from or to its place in the
\* bank the program was started in, unless a command has gone outside that bank
\* in between, and touch nothing else, but for an empty piece at the end: it
\* reads, or for F_READ it overwrites with what it has not read, exactly the places
\* that Touched names, those of bytes that were copied before it among them.
DmaExact ==
    LET bank == IF strayed THEN mem_banks ELSE home
        spilled == IF EmptyPiece THEN Touched(to + 1) ELSE {}
    IN  ended /\ op \in {"read", "write"} =>
            copied = {<<bank * Space + a, a - from>> : a \in from .. to}
                     \cup {<<bank * Space + a, Junk>> : a \in spilled}

(* What one would expect, and the code does not do.                        *)

\* fill stores nothing but its buffer.
FillsRange == ended /\ op = "fill" => copied = Filled(to)

\* F_READ stores no more bytes than it has read.
ReadStays == ended /\ op = "read" => \A p \in copied : p[2] # Junk

\* F_WRITE reads no more than its buffer holds.
StackHolds == op # "lost"
=============================================================================
