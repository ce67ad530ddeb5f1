----------------------------- MODULE XmReceive -----------------------------
(***************************************************************************)
(* xm_receive (src/z80ctrl/xmodem.c): XMODEM and YMODEM batch reception    *)
(* into files of the SD card.  A packet is read and judged in one step, a  *)
(* flushinput takes a step per item it swallows, and an inbyte that times  *)
(* out is a step of its own, so that the other side can do anything while  *)
(* the receiver waits.                                                     *)
(***************************************************************************)
EXTENDS XmodemLine

CONSTANTS SyncRetries,  \* rounds of the receive loop: 16
          MAXRETRANS,   \* duplicates in a row before giving up: 25
          Args,         \* argv: the file names given on the command line
          Names,        \* all file names that can occur
          Word          \* an int holds 0 .. Word - 1 modulo Word, the upper half
                        \* as negative numbers: 65536 bytes in the code

ASSUME WordAssumption == Word \in Nat /\ Word > 0
ASSUME NamesAssumption == {"NONAME", "GARBAGE"} \subseteq Names /\ Args \in Seq(Names)

VARIABLES rpc, after,       \* where xm_receive is; what follows a flushinput
          rres,             \* its result
          trychar, crc, packetno, retry, retrans,
          curfile, filename, size, ymodem,
          fil,              \* the FIL: never opened, open, closed, or passed
                            \* to FatFs without having been opened ("wild")
          opened,           \* the file it stands for
          disk, closed,     \* blocks of each file; the files closed since
          free              \* blocks the card has left

rfile == <<fil, opened, disk, closed, free>>
rinfo == <<curfile, filename, size>>
rvars == <<rpc, after, rres, trychar, crc, packetno, retry, retrans,
           rinfo, ymodem, rfile>>

RInit == /\ rpc = "flush" /\ after = "start" /\ rres = "none"
         /\ trychar = "C" /\ crc = FALSE /\ packetno = 1
         /\ retry = 0 /\ retrans = MAXRETRANS
         /\ curfile = 0 /\ filename = "NONAME" /\ size = 0 /\ ymodem = 0
         /\ fil = "uninit" /\ opened = "NONAME"
         /\ disk = [n \in Names |-> <<>>] /\ closed = {} /\ free = setting.disk

Say(b) == r2s' = Append(r2s, b)
-----------------------------------------------------------------------------
\* The head of the loop: outbyte(trychar) when there is one.
SendTry == /\ rpc = "send"
           /\ IF trychar = "none" THEN UNCHANGED r2s ELSE Say(trychar)
           /\ rpc' = "await"
           /\ UNCHANGED <<s2r, after, rres, trychar, crc, packetno, retry,
                          retrans, rinfo, ymodem, rfile>>

FlushThen(what, res) == rpc' = "flush" /\ after' = what /\ rres' = res

\* ++retry, and what follows the loop: NAK after 'C', then a sync error.
NextTry ==
    \/ /\ retry + 1 < SyncRetries
       /\ retry' = retry + 1 /\ rpc' = "send"
       /\ UNCHANGED <<after, rres, trychar>>
    \/ /\ retry + 1 >= SyncRetries /\ trychar = "C"
       /\ trychar' = "NAK" /\ retry' = 0 /\ rpc' = "send"
       /\ UNCHANGED <<after, rres>>
    \/ /\ retry + 1 >= SyncRetries /\ trychar # "C"
       /\ FlushThen("cancel", "sync")
       /\ UNCHANGED <<trychar, retry>>

\* inbyte(10000), or inbyte(1000) after a CAN, returns -2
RTimeout == /\ rpc \in {"await", "can"} /\ s2r = <<>>
            /\ NextTry
            /\ UNCHANGED <<line, crc, packetno, retrans, rinfo, ymodem, rfile>>

\* flushinput(): one item swallowed
FlushSome == /\ rpc = "flush" /\ s2r # <<>>
             /\ s2r' = Tail(s2r)
             /\ UNCHANGED <<r2s, rvars>>

\* flushinput() heard nothing for a second
FlushEnd ==
    /\ rpc = "flush" /\ s2r = <<>>
    /\ \/ /\ after = "start"
          /\ rpc' = "send"
          /\ UNCHANGED <<r2s, rres, trychar, retry>>
       \/ /\ after = "junk"
          /\ rpc' = "junk"
          /\ UNCHANGED <<r2s, rres, trychar, retry>>
       \/ /\ after = "reject"
          /\ Say("NAK")
          /\ rpc' = "send" /\ retry' = 0
          /\ UNCHANGED <<rres, trychar>>
       \/ /\ after = "ack"
          /\ Say("ACK")
          /\ rpc' = "done"
          /\ UNCHANGED <<rres, trychar, retry>>
       \/ /\ after = "cancel"
          /\ r2s' = r2s \o <<"CAN", "CAN", "CAN">>
          /\ rpc' = "done"
          /\ UNCHANGED <<rres, trychar, retry>>
    /\ UNCHANGED <<s2r, after, crc, packetno, retrans, rinfo, ymodem, rfile>>

\* default: flushinput(); break;
RJunk == \/ /\ rpc = "await" /\ s2r # <<>> /\ Head(s2r).t \notin {"PKT", "EOT", "CAN"}
            /\ s2r' = Tail(s2r)
            /\ FlushThen("junk", rres)
            /\ UNCHANGED <<r2s, trychar, crc, packetno, retry, retrans, rinfo,
                           ymodem, rfile>>
         \/ /\ rpc = "junk"
            /\ NextTry
            /\ UNCHANGED <<s2r, r2s, crc, packetno, retrans, rinfo, ymodem, rfile>>

\* A first CAN; then a second one, or any other byte.  The rest of a packet
\* whose header byte is read here is noise.
RCan == \/ /\ rpc = "await" /\ s2r # <<>> /\ Head(s2r).t = "CAN"
           /\ s2r' = Tail(s2r)
           /\ rpc' = "can"
           /\ UNCHANGED <<r2s, after, rres, trychar, retry>>
        \/ /\ rpc = "can" /\ s2r # <<>> /\ Head(s2r).t = "CAN"
           /\ s2r' = Tail(s2r)
           /\ FlushThen("ack", "canceled")
           /\ UNCHANGED <<r2s, trychar, retry>>
        \/ /\ rpc = "can" /\ s2r # <<>> /\ Head(s2r).t # "CAN"
           /\ s2r' = IF Head(s2r).t = "PKT" THEN <<Byte("JUNK")>> \o Tail(s2r)
                     ELSE Tail(s2r)
           /\ NextTry
           /\ UNCHANGED r2s

\* f_lseek(&fil, size); f_truncate(&fil): cuts the file, or extends it, as far
\* as the card goes, with whatever the card holds.
SizedTo(b, n) == [k \in 1 .. (IF n - Len(b) > free THEN Len(b) + free ELSE n) |->
                    IF k <= Len(b) THEN b[k] ELSE 0]

\* Mutant of CloseFile: the file is not cut to the size that was sent.
CloseFileUncut ==
    \/ /\ fil = "open"
       /\ fil' = "closed" /\ closed' = closed \cup {opened}
       /\ UNCHANGED <<disk, free>>
    \/ /\ fil # "open"
       /\ UNCHANGED <<fil, disk, closed, free>>

\* Mutant of CloseFile: no f_close.
CloseFileNever ==
    /\ disk' = IF fil = "open" /\ size > 0
               THEN [disk EXCEPT ![opened] = SizedTo(@, size)] ELSE disk
    /\ free' = (free + Len(disk[opened])) - Len(disk'[opened])
    /\ UNCHANGED <<fil, closed>>

\* if (f_error(&fil) == FR_OK) { ...; f_close(&fil); }
CloseFile ==
    \/ /\ fil = "uninit"                 \* err is whatever the stack held
       /\ fil' \in {"uninit", "wild"}
       /\ UNCHANGED <<disk, closed, free>>
    \/ /\ fil = "open"
       /\ disk' = IF size > 0 THEN [disk EXCEPT ![opened] = SizedTo(@, size)]
                  ELSE disk
       /\ free' = (free + Len(disk[opened])) - Len(disk'[opened])
       /\ fil' = "closed" /\ closed' = closed \cup {opened}
    \/ /\ fil \in {"closed", "wild"}     \* FR_INVALID_OBJECT, ignored
       /\ UNCHANGED <<fil, disk, closed, free>>

REot == /\ rpc = "await" /\ s2r # <<>> /\ Head(s2r).t = "EOT"
        /\ s2r' = Tail(s2r)
        /\ CloseFile
        /\ \/ /\ ymodem = 0
              /\ FlushThen("ack", "ok")
              /\ UNCHANGED <<r2s, retry, trychar, ymodem, packetno>>
           \/ /\ ymodem = 1
              /\ Say("NAK")
              /\ ymodem' = 2 /\ retry' = 1 /\ rpc' = "send"
              /\ UNCHANGED <<after, rres, trychar, packetno>>
           \/ /\ ymodem = 2
              /\ Say("ACK")
              /\ trychar' = "C" /\ ymodem' = 0 /\ packetno' = 1
              /\ retry' = 1 /\ rpc' = "send"
              /\ UNCHANGED <<after, rres>>
        /\ UNCHANGED <<crc, retrans, rinfo, opened>>
-----------------------------------------------------------------------------
(* start_recv: a packet whose header byte was read *)

\* The mode is fixed by the packet that answers a 'C'.
CrcMode == crc \/ trychar = "C"

\* The complement, the packet number and the check all match.  The code
\* subtracts in int: when packetno is 0 nothing equals packetno - 1.
Acceptable(p) == /\ p.ok /\ p.crc = CrcMode
                 /\ p.num = packetno \/ p.num + 1 = packetno

Answer(b) == Say(b) /\ rpc' = "send" /\ retry' = 0 /\ UNCHANGED <<after, rres>>

Reject(p) == /\ ~Acceptable(p)
             /\ FlushThen("reject", rres)
             /\ trychar' = "none"
             /\ UNCHANGED <<r2s, retry, packetno, retrans, rinfo, ymodem, rfile>>

\* What sscanf's "%d" leaves of a number in a 16-bit int.
AsInt(n) == IF 2 * (n % Word) < Word THEN n % Word ELSE (n % Word) - Word

\* xbuff[1] == 0: "ymodem metadata packet", whatever the packet really is.
\* sscanf returns EOF, and leaves size alone, when nothing follows the name.
Metadata(p) ==
    /\ Acceptable(p) /\ p.num = 0
    /\ \/ /\ p.data.empty
          /\ FlushThen("ack", "ok")
          /\ trychar' = "none"
          /\ UNCHANGED <<r2s, retry, filename, size, ymodem>>
       \/ /\ ~p.data.empty
          /\ filename' = p.data.name
          /\ size' = IF p.data.sized THEN AsInt(p.data.size) ELSE size
          /\ Answer("ACK")
          /\ trychar' = "C" /\ ymodem' = 1
    /\ UNCHANGED <<packetno, retrans, curfile, rfile>>

\* The file that the first data packet opens.
Target == IF curfile < Len(Args) THEN Args[curfile + 1] ELSE filename

\* What f_write does to an open file of content b with n free blocks: it
\* returns FR_OK when the card is full too, and bw is not looked at.
Written(b, n, blk) == IF n > 0 THEN Append(b, blk) ELSE b

\* Mutant of Store: only the first file of a batch is opened.
StoreOnce(p) ==
    IF curfile = 0
    THEN /\ filename' = Target /\ curfile' = curfile + 1
         /\ fil' = "open" /\ opened' = Target
         /\ disk' = [disk EXCEPT ![Target] = Written(<<>>, free, p.data.blk)]
         /\ UNCHANGED <<closed, free>>
    ELSE /\ disk' = [disk EXCEPT ![opened] = Written(disk[opened], free, p.data.blk)]
         /\ UNCHANGED <<filename, curfile, fil, opened, closed, free>>

Store(p) ==
    IF packetno = 1
    THEN LET room == free + Len(disk[Target])    \* FA_CREATE_ALWAYS
         IN  /\ filename' = Target /\ curfile' = curfile + 1
             /\ fil' = "open" /\ opened' = Target
             /\ closed' = closed \ {Target}
             /\ disk' = [disk EXCEPT ![Target] = Written(<<>>, room, p.data.blk)]
             /\ free' = IF room > 0 THEN room - 1 ELSE 0
    ELSE /\ disk' = [disk EXCEPT ![opened] = Written(disk[opened], free, p.data.blk)]
         /\ free' = IF free > 0 THEN free - 1 ELSE 0
         /\ UNCHANGED <<filename, curfile, fil, opened, closed>>

\* Mutant of Data: a packet that was already stored is stored again.
DataTwice(p) == /\ Acceptable(p) /\ p.num # 0
                /\ packetno = 1 \/ fil = "open"
                /\ Store(p)
                /\ Answer("ACK")
                /\ packetno' = (p.num + 1) % Mod
                /\ retrans' = MAXRETRANS /\ trychar' = "none"
                /\ UNCHANGED <<size, ymodem>>

Data(p) == /\ Acceptable(p) /\ p.num # 0 /\ p.num = packetno
           /\ packetno = 1 \/ fil = "open"
           /\ Store(p)
           /\ Answer("ACK")
           /\ packetno' = (packetno + 1) % Mod
           /\ retrans' = MAXRETRANS /\ trychar' = "none"
           /\ UNCHANGED <<size, ymodem>>

\* f_open or f_write fails; f_write always does once the file is closed.
DataFails(p) == /\ Acceptable(p) /\ p.num # 0 /\ p.num = packetno
                /\ setting.fails \/ (packetno # 1 /\ fil # "open")
                /\ FlushThen("cancel", "file")
                /\ trychar' = "none"
                /\ UNCHANGED <<r2s, retry, packetno, retrans, rinfo, ymodem, rfile>>

Duplicate(p) ==
    /\ Acceptable(p) /\ p.num # 0 /\ p.num # packetno
    /\ trychar' = "none" /\ retrans' = retrans - 1
    /\ \/ retrans > 1 /\ Answer("ACK")
       \/ retrans <= 1 /\ FlushThen("cancel", "retrans") /\ UNCHANGED <<r2s, retry>>
    /\ UNCHANGED <<packetno, rinfo, ymodem, rfile>>

RPacket == /\ rpc = "await" /\ s2r # <<>> /\ Head(s2r).t = "PKT"
           /\ s2r' = Tail(s2r)
           /\ crc' = CrcMode
           /\ LET p == Head(s2r)
              IN  \/ Reject(p)
                  \/ Metadata(p)
                  \/ Data(p)
                  \/ DataFails(p)
                  \/ Duplicate(p)

RStep == \/ SendTry \/ FlushSome \/ FlushEnd
         \/ RJunk \/ REot \/ RPacket
         \/ RCan /\ UNCHANGED <<crc, packetno, retrans, rinfo, ymodem, rfile>>
=============================================================================
