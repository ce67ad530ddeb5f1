# z80ctrl in TLA+

The repository collects one person's Arduino programs.  The largest, and the
one with concurrency, protocols and shared state, is `src/z80ctrl/`: the
firmware of an ATmega1284P that controls the bus of a Z80, plays its
peripherals (serial ports, floppy controller, CP/M file system) and offers a
command line.  This directory specifies that firmware in TLA+, checks it with
TLC and proves part of it with TLAPS.

The configuration specified is the default build: `BOARD_REV=6`,
`DS1302_RTC=1`, `SD_CARD_ADAFRUIT`; the video chip, sound chip, MSX keyboard and
flash programmer are off.  The compiler is avr-gcc (`int` of 16 bits).

## Contents

1. [The system](#the-system)
2. [How the modules correspond to the code](#how-the-modules-correspond-to-the-code)
3. [The runs](#the-runs)
4. [What is not true](#what-is-not-true)
5. [Fairness](#fairness)
6. [Proofs](#proofs)
7. [What is not modelled](#what-is-not-modelled)
8. [Plan](#plan)

## The system

There is one thread, which runs the command line.  It is interrupted by the
serial ports; it starts and stops the Z80; and, while the Z80 runs, it serves
the Z80's I/O cycles one after the other (`iorq_dispatch`), each while the Z80
is held in a wait state.  So four kinds of interleaving exist: main thread
against interrupts (UART), firmware against Z80 and the user's buttons (bus), board
against board over a serial line (XMODEM), and the order in which a Z80 program
and the user issue requests (disk, BDOS, console).

| component | files | state | operations | used by / uses |
|---|---|---|---|---|
| UART driver | `uart.c` | two rings per UART (`wi`, `ri`, `ct`, `buff`), `UCSRB`, `watch_key`, `watch_flag` | `uart_init`, `uart_putc`, `uart_getc`, `uart_peek`, `uart_flush`, the RX and UDRE interrupts, the line editor `uart_getchar` | everything that prints; `z80_run` polls `watch_flag` |
| XMODEM/YMODEM | `xmodem.c` | locals of `xm_receive` and `xm_transmit`, a static `FIL` | receive, transmit | UART, FatFs; another computer at the far end |
| run control | `z80.c` | halt conditions, reset | `z80_run`, `z80_reset` | dispatch, `watch_flag` |
| I/O dispatch | `iorq.c` | port table, `dma_function` | `iorq_dispatch` | bus, all emulated peripherals |
| DMA mailboxes | `filedma.c`, `bdosemu.c` | half-set addresses, command | port writes, deferred execution | dispatch, bus |
| bus | `bus.c` | BUSRQ/BUSACK, direction of the lines | `bus_request`, `bus_release` | dispatch, command line |
| memory | `bus.c`, `cli.c`, `ihex.c`, `filedma.c` | bank latch, `mem_bank`, `base_addr` | `mem_iterate`, fill, loadbin, savebin, savehex, F_READ, F_WRITE | bus, FatFs |
| 88-DSK disk | `diskemu.c` | `drives[]`, one `sectorbuf`, `selected`, `dirtysector` | select, control, sector, read, write, mount, unmount, bootload | dispatch, FatFs |
| BDOS files | `bdosemu.c` | one `FIL`, `curseq`, `nextseq`, `fno`, FCBs in Z80 memory | open, make, close, read, write, delete, rename, end of program | mailboxes, FatFs |
| directory search | `bdosemu.c` | static `dir`, `fno`, `bytesleft`, `blockno`, `searchfcb`, `dirfcb` | SFIRST, SNEXT; also run by open, delete, size | file calls |
| 88-2SIO | `sioemu.c` | per port UART or file, status | status, data in and out, attach | UART, FatFs |
| others | `iox.c`, `ffwrap.c`, `spi.c`, `tms.c`, `termemu.c`, `msxkey.c`, `ds1302.c`, `flash.c`, `disasm.c`, `util.c` | small or none | | |
| third party | `ff.c`, `diskio.c`, `mmc_avr_spi.c` | the FAT volume | `f_open`, `f_read`, ... | modelled only through its callers |

Outside `src/z80ctrl/`: a Z80 monitor for the Arduino Mega (in two copies), a
GPS clock, word displays, an SD card test and other sketches, each one
sequential loop; and `libraries/`, which is third party.

What is hard to test, and what each component must therefore guarantee:

* **UART.** An interrupt may come between any two statements.  `ct` is
  protected by `cli`/`sei`, the indices are not; the transmit interrupt disarms
  itself when the ring is empty while `uart_putc` may be filling it.  Required:
  FIFO queues, nothing stuck, every wait ends, `uart_flush` means drained.
* **XMODEM.** Any packet or answer can be lost or garbled, each side has nested
  retry loops, an ACK carries no number, the packet number wraps.  Required: the
  file is a prefix of what was sent, the sender never runs further ahead than the ACKs
  given again explain, both sides end.
  In a **YMODEM** batch, moreover, no block lands in the wrong file.
* **Bus and dispatch.** A request is served in a wait state, a DMA command waits
  for the bus, RESET and the halt key come at any moment.  Required: nobody drives
  against the other, a command is carried out once with its own address, the
  firmware returns to its loop.
* **Memory.** Loops over bytes, pages, banks and buffers, each with an end of its
  own.  Required: each byte of the range copied once, to its place.
* **Disk.** One late-written buffer shared by the drives; a byte index and a
  sector number with the special value 0xff; images exchanged at any time; failing
  writes.  Required: every sector reads as it was last written.
* **BDOS.** One `FIL` shared by any number of FCBs, recognised by a 16-bit
  sequence number; one search shared by five calls; a mode taken from the last
  directory entry.  Required: every file holds what the program stored in it,
  a listing names every file and extent once.
* **Console.** Editing at the limits of the line buffer; a status and the read
  that relies on it with the user's commands between them.

`PROJECT.json` lists the hazards one by one with their lines.

## How the modules correspond to the code

In all of them an action bears the name of the C function (or of a part of it),
variables bear the names of the C variables, and a definition whose comment says
*Mutant of X* is a deliberately wrong `X`, used only to show that a property would
notice.

### `UartPort`, `Uart`, `UartProof` (uart.c)

`UartPort` is the promise: a transmit and a receive queue of at most `N` bytes
per UART, the last value returned, and the halt key.  `Uart` is the code.  `pc`
says which statement the main thread is about to run: `PutCall`, `PutWait`,
`PutStore`, `PutCrit`, `PutAdv` are the statements of `uart_putc` in order, and
likewise `Get...`, `PeekRead` and `Flush...`.  The region between `cli()` and
`sei()` is one step.  `uart_rx_vect(u, b)` and `uart_udre_vect(u)` are the
interrupt bodies; they run to completion because the AVR does not nest them,
and they need `ie` and their enable in `ucsrb`.  `Shift(u)` is the hardware:
the data register empties.  `Baud` is `cli_baud`, which flushes and
reinitialises; `SetWatchKey` and `ClearWatchFlag` are the two places outside
uart.c that touch the halt key.  Interrupts are off until `StartTimer` (the SD
card mount), as in the code; `uart_putc` enables them in any case, because its
critical section ends in `sei()`.

`ct` is 16 bits wide in the code and an interrupt could tear a read of it; its
high byte is always 0 (`ct <= 64`), so a torn read returns a value the variable
had, and one step stands for it.

`Port == INSTANCE UartPort WITH ...` is the refinement mapping: the queue is the
`ct` places from `ri`, and inside `uart_getc`, after its critical section, `ri`
counts as advanced and the byte in `d` as returned.

### `XmodemLine`, `XmReceive`, `XmTransmit`, `YmodemSend`, `XmodemSession`, `MCXmodem`, `XmodemProof` (xmodem.c)

`XmodemLine` is the serial line: two FIFO channels that lose or garble at
most `setting.faults` items.  `XmReceive` is `xm_receive`, `XmTransmit` is
`xm_transmit`; `XmodemSession` composes them with the line and the timers of
`inbyte`.  A packet is an item with its number, check flavour and contents;
a block is known by its position in the file, so the receiver's file is a
sequence of numbers.  `packetno` counts modulo `Mod`.  The variable `fil` tells
an open `FIL` from a closed one and from one that was never initialised
(`"wild"`).  `size` is an `int` of the compiler: `AsInt` is what `sscanf`'s `%d` leaves
of the number that came with a name, modulo `Word` (65536) and with a sign.

*Timers.*  Between two boards every `inbyte` may time out at any moment.  Less would
leave out the ordinary case: `flushinput` listens until it has heard nothing for 1000
ms, and only then `xm_receive` sends its NAK (xmodem.c:137, 297), while `xm_transmit`
waits 1000 ms for an answer, counted from when it queued the last byte (372).  So after
each garbled packet the sender sends again into the flush, or while the NAK is on its
way.  Then a packet may arrive twice and be acknowledged twice, and the second ACK, which
carries no number, be taken for the answer to the next packet.  The history `surplus` counts
these ACKs, less those that the line lost or garbled; what holds of the transfer
is stated with it (`SuccessIsComplete`, `InStep`).  A YMODEM sender is a program of
another computer, of which the repository has nothing; it is taken to wait until the
receiver has answered or waits itself (`SQuiet`, `RQuiet`), which the usual ten seconds
are enough for.

`xm_receive` also takes YMODEM batches, which nothing in the repository sends.
`YmodemSend` is a sender written from what `xm_receive` answers and expects
(external in the map); `setting.batch` chooses which of the two senders is at
the other end.  `File` is the file sent, a sequence that says for each block
whether it begins with a 0 byte (which is what the end of a batch looks like).
`TheFile` is the name it is stored under, `Room` says that the card can hold it.

`setting` is chosen in the initial state from the constant `Settings`, so that
one run covers the three conditions of `MCXmodem`: `batch` or one file, the number of
`faults` of the line, the blocks the card has room for (`disk`), and whether file calls
fail (`fails`).

### `Z80Run`, `DmaPort`, `MCZ80`, `Z80Proof` (z80.c, iorq.c, bus.c, filedma.c, bdosemu.c)

Two actors and a user.  The Z80 is `z80`: running (`"run"`), in an I/O cycle
(`"io"`, with `req` the port and the byte), off the bus (`"off"`) or in reset.
`IoStart` begins a cycle, `IoDone` ends it once it was served and BUSRQ is low,
`Grant` and `TakeBack` answer BUSRQ.  The firmware is `pc`: `start`, `loop`,
`check`, `stop`, `stopping` are the statements of `z80_run` and the calls of
`bus_request` and `bus_release` in it; `dispatch`, `ack`, `acking`, `queued`,
`requesting`, `dma`, `release`, `releasing` are those of `iorq_dispatch`, in
order.  Every wait for BUSACK is a step of its own, so that the other actor and
the user can come in between.  `drive` says that the firmware drives address and
control lines, `dout` that it drives the data lines.  `Press`, `Release`,
`HaltKey` and `cli_halt` are the user's.

`mail` holds the address bytes a mailbox was given (UNSET, HALFSET, SET are its
lengths), `dma` the deferred function with its command.  `sent` is what the Z80
program believes it has written, a history variable.

The 256 toggles after which `bus_request` gives up are long compared with any
cycle of a clocked Z80, so the timeout passes only while RESET holds it; and
a RESET during a DMA makes `mem_read` and `mem_write` return at once, which leaves
the parameters uninitialised (`Junk`).

`DmaPort` is the promise to the Z80 program; `Dma == INSTANCE DmaPort WITH ...`
is the mapping.

### `Memory`, `MemoryProof` (bus.c, cli.c, ihex.c, filedma.c)

`mem_iterate` and `mem_iterate_banked` are operators: the set of places visited
with the number of the byte each gets, built from the same ranges of pages and bytes
as the loops of the code.  The commands are actions that begin a copy (`cli_fill`,
`loadbin`, `cli_savebin`, `save_ihex`, `F_READ`, `F_WRITE`) and one action per
piece that goes through a buffer.  `copied` is the set of pairs of a place and
a byte number.  `Junk` stands for bytes beyond a buffer or left there by an earlier piece.
The loops of `mem_iterate` run at least once, so a piece of no bytes, which `file_to_mem`
meets when a file ends with a whole buffer, and `mem_to_file` when it is asked for nothing,
goes to one byte, two pages or the whole memory (`Touched`); when `mem_read` does that,
it writes past the 512 bytes of `buf` on the stack (`Fits`, and `op = "lost"` after it).
`base_addr`, the bank
latch and the bank the Z80 was started in are state, for a command leaves the
latch where its last access put it.

### `DiskEmu`, `DiskGuest`, `MCDisk`, `DiskProof` (diskemu.c)

`DiskEmu` has one action per port handler, plus mount and unmount.  `status`,
`track`, `sector`, `byte` and `file` are the fields of `drives[]`;
`sectorbuf` has `SECTORSIZE + 1` places because the
code writes a byte of index `SECTORSIZE`.  `image` holds the sectors of each image
file; seeking past its end extends it with junk, as FatFs does.  `NOSECTOR` and
`NOBYTE` are 0xff; TLC needs values close to the buffer, the assumptions are
what 0xff satisfies.

`Next` of `DiskEmu` is any sequence of port accesses with any values: the most
general Z80 program.  `DiskGuest` adds a driver, as a CP/M BIOS has one: select,
load the head, step, wait for a sector, read it in part or whole, or write it;
the user swaps images between its operations.  `want` remembers what it wrote
where.  `Trailing` says whether it sends the byte after the sector that makes
the controller write at once.

Calls of the card fail as `CardFails` says: an `f_open`, an `f_close` (the drive is then
no longer mounted, but its file is still open), a seek, a read, a write.

An image mounted on two drives at once is left out (the code does not refuse it;
FatFs would keep a file size for each).

### `BdosFile`, `BdosFileProof` (bdosemu.c)

One action per BDOS call.  A call is atomic: the Z80 is off the bus.  `fil` is the
one `FIL`, with the file it stands for, its mode, the contents it would leave, and
whether that file's directory entry is still its own (`orphan`).  `OpenFil` is
`fcb_openfil`, which closes one file and opens another.  `dir` is the FAT directory;
`truth` is what the program has stored in each file according to its successful
calls, a history variable that no action reads.  A random call takes any record, so
`BDOS_RANDREC`, which only sets the random fields, needs no action; `BDOS_WRITEZF`
is a random write in the code.

### `BdosSearch`, `MCBdosSearch`, `BdosSearchProof` (bdosemu.c)

The one static search and the five calls that use it.  `search` holds the mask,
the position in the directory, the bytes left of the file being listed, its
extent, module, record count and block number.  `bdos_search` is an operator on
that record, `SFIRST`, `SNEXT`, `OPEN`, `bdos_size` and `bdos_delete` are the
actions.  `own` says that the program has made no other searching call since its
SFIRST, `seen` counts the entries it was given.  It is run with the constants of
the code.

### `Console`, `MCConsole`, `ConsoleProof` (uart.c, sioemu.c, cli.c)

The line editor with every key it knows, the terminal's row that the user sees,
the 88-2SIO ports with their status and data registers, and `attach`.  The editor
and the ports take bytes from the same receive queues, one when the Z80 is halted
and the other when it runs.  `owed` is what a program has written to a file over
what the file held; `card` is what the directory entry says.

## The runs

Ten runs pass, two find a disagreement (next section).

| run | shows | bounds, and why they suffice |
|---|---|---|
| `Uart_one` | Every interleaving of the statements of `uart.c` with both interrupts keeps the rings armed (`Armed`) and consistent (`IInv`); the driver implements `UartPort` (`PortSpec`). | One UART, two slots, two bytes: empty, partly full, full and wrapped rings occur, and each for every statement.  `IInv` and `PortSpec` are proved for all sizes. |
| `Uart_two` | `uart_flush` returns only when both UARTs are drained, though it looks at one after the other; every call returns; every byte goes out. | Two UARTs share the main thread; one byte value, for no property here looks at contents. |
| `XmodemSession_files` | The file is a prefix of what was sent, success is complete and the sides keep in step but for ACKs given again, blocks stay in their files, closed files are whole, both ends return. | Three conditions: three blocks with two faults; with one fault, a card of two blocks and failing calls; a batch of four files with three faults, of which the first has no size, the second has one, the third has one too large for an `int`, and the fourth has none again.  Any `inbyte` between two boards may time out at any moment, however few the faults: retransmissions into a flush, NAKs and packets that cross, repeated ACKs and giving up in every loop happen without one, and two faults are enough to lose the packet that a surplus ACK was taken for.  `XmodemProof` bounds neither files nor batches nor faults. |
| `Z80Run_bus` | Bus without contention, mailboxes as the Z80 believes them, cycles lost only while `z80_run` leaves, `DmaPort` implemented, `iorq_dispatch` returns. | Both mailboxes and another port, one byte value, no halt condition or all.  The contents of addresses are told apart by their place only.  Safety is proved for all. |
| `Memory_copy` | `fill`, `loadbin`, `savebin`, `savehex`, F_READ and F_WRITE copy each byte of their range to its place, and touch nothing else but what an empty piece does. | Two banks of four pages of three bytes: ranges within a page, over pages, over a bank, of whole buffers and one byte; files of none, around one and two buffers, and of a whole bank: empty pieces at a byte, at a page and at the beginning of memory. |
| `DiskEmu_any` | For any program and user: the unwritten bytes are the selected drive's, idle drives are clean, the track 0 bit is right, only the selected drive's image changes. | Two drives, one image, two tracks; sector 0xff is one beyond the last.  `DiskProof` has no bounds. |
| `DiskGuest_bios` | What the driver wrote is on the image, what it reads is what was written, no byte is stored outside the buffer. | Two drives, two images, two tracks, two sectors, two bytes: every pair to confuse exists twice.  Images are interchangeable (symmetry). |
| `BdosFile_calls` | Files hold what was stored, a close saves, read-only files stay. | Two FCBs, two files, three opens, fewer than there are sequence numbers; files of up to two records.  `BdosFileProof` has no bounds but that on sequence numbers. |
| `BdosSearch_calls` | Entries are where their records are, listings are complete, random records are numbered right, deletions are whole. | The constants of the code; three names, file sizes on both sides of every boundary (one record, extent, 256 records, module, 32768 records). |
| `Console_keys` | The row shows the line, a port that is ready has a byte, attached files are saved. | A line buffer of four bytes, one key typed ahead, files of two bytes: every limit is reached. |

Deadlock is checked in every run; sessions that end stutter explicitly.

### What the less obvious properties say

* `InStep` and `SuccessIsComplete` (XMODEM): an ACK carries no number, so what each ACK
  was given for cannot be seen by the sender; the properties say what follows
  all the same.  When the sender is about to send block *k*, the receiver has stored at most
  *k* blocks, and lacks at most as many blocks before it as it has given surplus ACKs;
  when the sender reports success the same is true of the whole file, and without a surplus
  all of it is there and closed.  They hold for every order of timeouts, flushes,
  retransmissions and faults; a sender that takes any answer for an ACK, or a receiver
  that acknowledges what it has not stored, breaks them.  They need a card with room, for
  `xm_receive` does not look at `bw`.
* `FileIsPrefix` needs nothing of the kind: the receiver only stores the packet
  numbered next, so with fewer than `Mod` blocks nothing is skipped or doubled.
* `ClosedIsWhole` (YMODEM) is stated for the files whose size `xm_receive` has right when
  they end (`SizeHeld`): a size below 32768 that came with the name, or none, as long as
  no file before it had one.  The others are in the batch of the run, and must do these
  no harm.
* `CommandExact`: `copied` is exactly the range, each place with its byte, for `loadbin`,
  `savebin`, `fill`, and `savehex` to the end of the first 64K; only of the last byte of a
  `fill` of 256*k* + 1 bytes it does not say which value it gets (`FillsRange` below).
* `Understood`: between its I/O cycles the Z80 has written exactly the bytes the
  mailbox has received.  Served twice or not at all, a byte would shift every
  later address.
* `LostOnlyAtStop`: a cycle that begins after `z80_run` has looked at WAIT for the
  last time is ended by the firmware's BUSRQ without being served.
* `DmaExact`: `copied` is exactly the range, in the bank the Z80 program was started in.
  Two things that the code does are part of it.  A command that accesses another bank
  moves the bank in which a program that is resumed goes on.  And a transfer that ends with
  an empty piece touches just the places of `Touched` besides: the byte at the address; or
  512 bytes when the address is at the beginning of a page; or all 64K when that page is
  the first or the last one.  For F_READ they are overwritten.
* `Settled`: whenever no byte is unwritten and the driver is not writing, each
  image equals what the driver wrote on it.  One formula covers writes to the
  wrong drive, track, sector or image, and lost writes.
* `EntryIsPosition`: the extent and module numbers in an entry are those from
  which `fcb_seqoffset` would compute the position of the entry's records, for
  files that the extent and the 8 bits of the module can count (128 MB).
* `ListingComplete` is claimed only while the program makes no other call that
  searches: CP/M itself keeps one search for all of them.
* `PolledIsReal` ends when the user halts the Z80 between the status and the read:
  the line editor takes the byte.

## What is not true

Two runs show a statement of the source to be violated by what the code does
(`findings` in `PROJECT.json`).

* `XmodemSession_wrap` (`MetadataIsMetadata`): the 256th block of an XMODEM file
  has packet number 0 and is taken for a YMODEM header (xmodem.c:247).
* `BdosSearch_large` (`CountIsRecords`): the record count of an entry is cut to
  8 bits before it is limited to an extent (bdosemu.c:416): 300 records left
  make 44.

More statements are written in the modules and refuted by TLC with a
configuration kept here or a change of one.  They are not among the runs; each
documents a limit of a property that does hold.

| statement | configuration | what happens |
|---|---|---|
| `ModeIsFiles` (`BdosFile`) | `BdosFile_mode` | `bdos_open` looks at the read-only attribute before its search has found the file (bdosemu.c:476), so a file may be open in another file's mode. |
| `CurrentIsOpen` (`BdosFile`) | `BdosFile_mode` with this invariant | After `f_close` and a failing `f_open`, `curseq` names an FCB whose file is not open (bdosemu.c:462). |
| `OpenFileMatches` (`BdosFile`) | `BdosFile_calls` with `SeqMod = 3` | Sequence numbers come round, and two FCBs share one (after 65535 opens in the code; bdosemu.c:495). |
| `RandomIsRecord` (`BdosSearch`) | `BdosSearch_random` | `r1 << 8` is an `int`: from record 32768 on it is negative (bdosemu.c:225). |
| `NothingLost` (`Z80Run`) | `Z80Run_lost` | The Z80 begins a cycle after the firmware's last look at WAIT; nobody serves it. |
| `SuccessIsComplete` without `+ surplus` (`XmodemSession`) | `XmodemSession_files` | The sender's timer runs out while the receiver flushes or its NAK is on its way; the packet arrives twice and is acknowledged twice; the second ACK is taken for the next packet or the EOT, and when that one is lost too the transfer goes on without it: it reports success with the last block missing, or fails on a packet number (xmodem.c:137, 297, 372-376). |
| `ClosedIsWhole` without `SizeHeld` (`XmodemSession`) | `XmodemSession_files` | `size` is an `int` of 16 bits (xmodem.c:164, 258, 185-187): a file of 70000 bytes is cut to 4464, one of 32768 to 65535 bytes keeps its padding.  And a name without a size leaves the size of the file before it in place, to which the next file is cut (xmodem.c:258). |
| `FillsRange` (`Memory`) | `Memory_copy` with this invariant | "Fill memory with a specified byte for a specified range" (cli.c:671): with 256*k* + 1 bytes in the range, the last piece asks for 257 bytes of `buf[256]` (cli.c:696, 710), and the last byte of the range is what lies beyond it. |
| `ReadStays` (`Memory`) | `Memory_copy` with this invariant | An F_READ that ends with an empty piece stores bytes it has not read: one, or 512 at the beginning of a page, or all 64K at 0 and 0xff00 (filedma.c:105, bus.c:325-350). |
| `StackHolds` (`Memory`) | `Memory_copy` with this invariant | An F_WRITE of no bytes at address 0 or 0xff00 reads all 64K into `buf[512]` (filedma.c:122); at any other it reads one byte or 512, which fit. |
| `Settled` (`DiskGuest`) | `DiskGuest_bios` with `Trailing = FALSE` | A driver that steps before the controller has written the sector gets it on the next track: the head moves first (diskemu.c:223). |

Other limits met while modelling, which the models respect by the inputs they
take and which are not claimed either way:

* `savehex` keeps the end of its range in 16 bits; `mem_iterate` is wrong for
  ranges that wrap past the last page.  `CommandExact` excludes the first, the
  guards of the actions the second.
* F_OPEN and its like read a name of no bytes (`buflen` 0) with the same loops, and would
  overrun their buffer in the same way (filedma.c:156).
* A parenthesis is missing in `fr = f_unlink(...) != FR_OK` and its like in
  `loadbin` and `bdos_search`: the code returned is 1 whatever went wrong.
  `cli_base` tests `base_addr & (0xFFFF != 0)`.
* `bdos_size` returns no value on success; a deletion that finds nothing reports
  success.
* An EOT before any data makes `xm_receive` look at `fil.err` of a `FIL` never
  opened (xmodem.c:183).
* An output file is opened at its beginning and keeps the tail of what it held; its
  directory entry is written only when something else is attached.

## Fairness

* `Uart!FairSpec`: weak fairness of the main thread's next statement, of each
  transmit interrupt and of the hardware that empties the data register.  The
  processor runs the main thread between interrupts (one instruction at least
  after each), serves a pending interrupt as long as `I` and its enable are set,
  and a USART shifts by itself.  Nothing is assumed of receive interrupts, of
  other boards or of the user.
* `XmodemSession!FairSpec`: weak fairness of the programs and of their timers.  A
  program that can go on goes on, and `inbyte` gives up after its count.  Nothing
  is assumed of the line beyond a finite number of faults, which the retry limits
  of the code make irrelevant to termination: with no answer at all each loop
  still ends.
* `Z80Run!FairSpec`: strong fairness of the firmware and of the Z80, weak fairness
  of RESET being seen and released.  Strong, because the user's presses can
  disable a step that would otherwise happen: both sides get on between two
  presses.  The clock runs while `z80_run` does; with the clock stopped nothing is
  claimed.  It is not claimed that the halt key stops a Z80 that does nothing but
  I/O: each cycle is served before the key is looked at.
* `UartPort` and `DmaPort` state the fairness they promise; `PortFair` and
  `DmaFair` check it.

`DiskEmu`, `DiskGuest`, `BdosFile`, `BdosSearch`, `Memory` and `Console` promise
nothing about progress; their specifications have no fairness.

## Proofs

TLC checks the instances above, TLAPS proves the following for all constants that
satisfy the assumptions named in the modules.  Each argument is an inductive
invariant with a lemma per action or handler.

| module | assumptions | theorems |
|---|---|---|
| `UartProof` | at least one UART, one slot | `Invariance` (`IInv`), `AlwaysArmed` (`Armed`), `FlushCorrect` (`FlushDrains`), `DriverImplements` (`PortSpec`: the refinement of `UartPort`) |
| `XmodemProof` | a file of fewer than `Mod` packets | `PrefixInvariant`, `FilePrefix` (`FileIsPrefix`), `NoFalseMetadata` (`MetadataIsMetadata`; no file is given the name `GARBAGE`), `AckInvariant`, `SuccessWhole` (`SuccessIsComplete`), `KeepInStep` (`InStep`) |
| `XmodemProof` | `Orderly` (below) | `BatchInvariant`, `KeepFilesApart` (`FilesApart`), `ClosedWhole` (`ClosedIsWhole`), `BatchDone` (`BatchComplete`) |
| `Z80Proof` | `None` no command, ports apart | `Inductive` (`IInv`), `BusSafe` (`NoContention`), `Agreement` (`Understood`), `LossBounded` (`LostOnlyAtStop`), `PortsImplement` (`DmaSpec`: the refinement of `DmaPort`) |
| `MemoryProof` | `Geometry` | `IterateExact`, `BankedExact` (the two loops, as operators), `CommandsCopy` (`CommandExact`), `TransfersCopy` (`DmaExact`) |
| `DiskProof` | two tracks, one sector, one byte at least; special values outside the ranges | `DiskInvariance`, `BufferIsSelected` (`DirtyIsSelected`), `HomingIsRight` (`TrackZero`), `IdleDrives` (`OthersIdle`), `ImagesApart` (`OnlySelectedWritten`) |
| `DiskProof` | also a driver that sends the trailing byte, and a working card | `GuestInvariance`, `DiskSettles` (`Settled`), `DiskReadsBack` (`ReadsBack`), `DiskInBounds` (`InBounds`) |
| `BdosFileProof` | `Enough`: fewer opens than sequence numbers | `Inductive` (`IInv`), `FilesHold` (`Coherent`), `SequenceIdentifies` (`OpenFileMatches`), `ClosesSave` (`CloseSaves`), `ReadOnlySafe` (`ReadOnlyKept`) |
| `BdosSearchProof` | `FcbAssumption`; a directory that names each file once | `SearchTypes`, `ListsAll` (`ListingComplete`), `EntriesPlaced` (`EntryIsPosition`), `FindsEnd` (`EndIsFound`), `DeletesWhole` (`DeleteWhole`) |
| `ConsoleProof` | a line buffer of at least one byte | `EditorEchoes` (`EchoIsLine`), `StatusHonest` (`PolledIsReal`), `AttachSaves` (`NothingUnsaved`) |

The assumptions that hold of every run are stated in the modules and evaluated by
TLC (`SettingsAssumption`, `NamesAssumption`, `FileAssumption`,
`DirectoryAssumption` and the like: what the constants are).  Those of single
theorems are what the code needs to be right:

* *Fewer than `Mod` packets*: see `XmodemSession_wrap`; from the 256th block on a
  data packet is a header to `xm_receive`.
* `Orderly`: no file of a batch is empty (it would never be opened) or has `Mod`
  packets, no two are stored under one name, no size is larger than what was sent, and none is
  shorter than the size that `xm_receive` has for it when it ends, its own or an earlier one (`SizeOf`:
  an earlier one would extend it; xmodem.c:186, 258).  The batch of `MCXmodem` is orderly.
* *Trailing byte, working card*: see `Settled` in the table above, and `CardFails`;
  a write that fails is lost.

* **UART.**  That the rings are consistent and armed is not inductive alone: the
  statement after a test relies on the test.  `IInv` adds what the interrupted call
  knows (`CallOK`: the local index is still the ring's, there is still room, the
  byte is stored) and what the flush has seen (`FlushOK`: the UARTs passed are
  still empty, because only the main thread fills transmit rings).  The refinement
  follows from it step by step: the places of a ring are distinct (`WrapPlace`), so
  a store behind the last byte is not seen (`RingStore`), the count then appends
  the byte (`RingAppend`), and taking one drops the head (`RingTail`), whichever
  side does it.
* **XMODEM, one file.**  `FileIsPrefix` needs nothing of the line but its order.
  `Prefix` ties the number of a packet on the line to the block in it, the sender's
  number to its position (`SendOK`), and the receiver's number to what it has
  taken (`RecvOK`): below `Mod` the number tells the block, so what is accepted is
  the next one.  `Worse` says what a fault makes of a channel, and every argument
  about noise is about it (`FaultKeeps`, `WorseItem`, `WorseBytes`).  The other two
  properties need `Account`, an inequality that every step of either side and of the line
  keeps: the ACKs that the sender has taken (`Heard`: its position tells how many) and
  those on their way (`Acks`, counted by `AckCounts`) are no more than the packets
  stored (`Taken`), the one for the EOT (`Told`) and the surplus.  It makes no assumption about who speaks when, which
  is why it holds whatever the timers do; a NAK, a flush or a repeated packet are not in it.
  What else is on the line is bounded only by where the sender is (`ItemsTo`).
* **XMODEM, a batch.**  The sender of a batch waits for its answers, so at most one packet
  or one answer is on its way, an ACK with the 'C' behind it at most (`YTurns`).  `packetno` and `ymodem` say which of four things the receiver is
  in the middle of: `Header`, `Named`, `Storing`, `Ended`; `YPace` says which of
  them goes with which state of the sender.  The delicate steps are the two
  EOTs (`FileEnds`) and a lost ACK after the second one, which leaves the
  receiver at `Header` while the sender still repeats its EOT.  `Place` and `Card`
  tie that to the card: the files before the current one are `Finished`, the ones
  after it are empty, and the current one has what was taken, unless the card is full.
* **Disk.**  `TrackZero` needs `OthersIdle`: `drive_select` sets the track 0 bit
  of the new drive but never clears it, so the drive must come without it.
  `Stepping` is where two tracks are needed.
  What the driver sees needs `GInv`: `Driver` says, for each step of the driver's
  operation, what the controller is doing (the track and the sector it believes
  to be at are those of the controller, the byte index is the number of bytes it has sent), and
  `Kept` that every sector of every image is what was written, but for the one in
  the buffer while it is unwritten.  Offsets of distinct sectors do not meet, so
  writing one keeps the others.
* **BDOS.**  Each number given out is larger than all in use, so FCBs with the
  same one are the same (`SeqOK`); the FIL then belongs to the FCB that `curseq`
  says (`OpenFileMatches`), and a write through it goes where the program thinks.
  `FilOK` ties the FIL to the directory: what is open for writing is there and may
  be written, so closing it harms nothing (`CloseKeeps`).  `OpenSettled` states
  once what `fcb_openfil` leaves, whichever call it is part of.  `Enough` is
  needed: see `OpenFileMatches` with `SeqMod = 3` above.
* **Bus.**  `InStep` says where the Z80 is at each statement of the firmware; the
  history `hit` marks what RESET may break.  `Owed` is what a cycle that was served
  but not ended has written.
* **Memory.**  A range is a disjoint union of its first page, whole pages and its
  last page; a banked range of one piece per bank.  `Progress` says that the pieces
  done are exactly those before `at`.  For F_READ and F_WRITE, `Transfer` says in
  which bank the next piece begins and that the pairs copied are those before it;
  the exceptions `DmaExact` allows for are the code's own (see `DmaExact` above).
* **Directory search.**  A search returns the first matching file from its position on
  (`Least`: a set of numbers has a least one), so between two calls the files before
  the position were told of or do not match.  `Listing` is that, with the bytes
  left of the file being told of; `Entry` relates the extent, module and record
  count of an entry to those bytes, which is arithmetic of quotients (`Quotient`,
  `Divided`).  The end of the file (`EndIsFound`) is the same arithmetic for the
  three random bytes; it holds below the sign of `r1 << 8`.
* **Console.**  `Accounted` relates what a program has written to the file, to the
  card and to the tail of what the file held.

### Only model-checked

Liveness (`MainReturns`, `PortFair`, `BothReturn`, `DmaFair`, `DispatchReturns`),
which is out of the prover's reach.  The properties of the two runs that find a
disagreement are refuted on their instance (`MetadataIsMetadata` is a theorem below
`Mod` blocks).  Every other property of a run is a theorem, under the assumptions
of the table.

## What is not modelled

* Below the line: bit timing, framing, checksum arithmetic (a garbled packet
  fails its check), the wait for the last bit of a transmission, compiler
  reordering of non-volatile variables (`watch_flag`).
* FatFs and the SD card beyond what callers see: success, failure, short write,
  contents, end of file, extension by seeking.
* In the disk emulation, `drive_bootload`; in the BDOS, short writes on a full
  card, an `f_lseek`, `f_read` or `f_write` that fails (bdosemu.c:553-561) and a
  directory that cannot be opened; in the console, a right margin of
  the terminal, failing file reads, and two ports on one UART or on one file
  (an `f_write` that fails in `sio_write` loses its byte and changes nothing else).
* In the bus, `io_in` and `io_out` from the command line, `z80_debug`, the clock
  divider and the I/O expander (its interrupt line is a variable).
* Parsing and printing (`cli.c`, Intel HEX records, the disassembler), bit banging
  and BCD (`ds1302.c`, `spi.c`), and code that the default build leaves out
  (`tms.c`, `termemu.c`, `msxkey.c`, `flash.c`).
* The independent sketches, each one sequential loop around a library.

Most of the repository by lines is none of z80ctrl: vendored libraries, their
examples, fonts and tables, and two copies of FatFs.  They are third party and
their behaviour is not this project's to specify, so the modules cover a small
share of all lines and most of the control of z80ctrl.

## Plan

What would come next, in order of importance.

1. **A card of bounded size** in `BdosFile`: `f_write` that takes less than a
   record, and what `bdos_readwrite` tells the program.
2. **Abstract specifications** of the transfers and of the disk, as `UartPort` and
   `DmaPort` are for their drivers: a file that only grows by the next block and
   succeeds once, a store of sectors; with the refinements proved from `Account` and
   `GInv`.
3. **`drive_bootload`** with the interleave of its sectors, and `load_ihex`.
4. **The ANSI terminal** (`termemu.c`): the escape automaton and the cursor.
