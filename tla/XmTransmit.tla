----------------------------- MODULE XmTransmit -----------------------------
(***************************************************************************)
(* xm_transmit (src/z80ctrl/xmodem.c): sends a file of the SD card in 1K   *)
(* XMODEM packets, at the level of packets and control bytes.              *)
(***************************************************************************)
EXTENDS XmodemLine

CONSTANTS TSyncRetries, \* inbyte(10000) calls before giving up: 16
          TRetrans,     \* transmissions of a packet, MAXRETRANS: 25
          EotRetries,   \* transmissions of EOT: 10
          File          \* the file: for each block, is its first byte zero?

ASSUME FileAssumption == File \in Seq(BOOLEAN)

VARIABLES tpc,          \* where xm_transmit is
          tres,         \* its result
          tcrc, tpacketno, tretry,
          fptr          \* blocks read: the block in xbuff

tvars == <<tpc, tres, tcrc, tpacketno, tretry, fptr>>

TInit == /\ tpc = (IF setting.batch THEN "done" ELSE "sync") /\ tres = "none" /\ tcrc = FALSE
         /\ tpacketno = 1 /\ tretry = 0 /\ fptr = 0

Out(b) == s2r' = Append(s2r, b)
Cancelled == s2r' = s2r \o <<Byte("CAN"), Byte("CAN"), Byte("CAN")>>
Leave(res) == tpc' = "flush" /\ tres' = res

\* ++retry in the three loops, and what follows when they are exhausted.
SyncAgain ==
    \/ /\ tretry + 1 < TSyncRetries
       /\ tretry' = tretry + 1 /\ tpc' = "sync" /\ UNCHANGED <<s2r, tres>>
    \/ /\ tretry + 1 >= TSyncRetries
       /\ Cancelled /\ Leave("nosync") /\ UNCHANGED tretry

\* Mutant of SendAgain: the transmissions are not counted.
SendAgainForever == tpc' = "xmit" /\ UNCHANGED <<s2r, tres, tretry>>

SendAgain ==
    \/ /\ tretry + 1 < TRetrans
       /\ tretry' = tretry + 1 /\ tpc' = "xmit" /\ UNCHANGED <<s2r, tres>>
    \/ /\ tretry + 1 >= TRetrans
       /\ Cancelled /\ Leave("xmit") /\ UNCHANGED tretry

EotAgain ==
    \/ /\ tretry + 1 < EotRetries
       /\ tretry' = tretry + 1 /\ tpc' = "eot" /\ UNCHANGED <<s2r, tres>>
    \/ /\ tretry + 1 >= EotRetries
       /\ Leave("eot") /\ UNCHANGED <<s2r, tretry>>
-----------------------------------------------------------------------------
Hear == r2s # <<>> /\ r2s' = Tail(r2s)

Sync == /\ tpc = "sync" /\ Hear
        /\ \/ /\ Head(r2s) \in {"C", "NAK"}
              /\ tcrc' = (Head(r2s) = "C") /\ tpc' = "load"
              /\ UNCHANGED <<s2r, tres, tretry>>
           \/ /\ Head(r2s) = "CAN"
              /\ tpc' = "sync_can"
              /\ UNCHANGED <<s2r, tres, tcrc, tretry>>
           \/ /\ Head(r2s) \notin {"C", "NAK", "CAN"}
              /\ SyncAgain
              /\ UNCHANGED tcrc
        /\ UNCHANGED <<tpacketno, fptr>>

\* start_trans: the next block, or EOT at the end of the file.  The result of
\* f_read is not looked at: a failed read is the end of the file.
Load == /\ tpc = "load"
        /\ tretry' = 0
        /\ \/ /\ fptr < Len(File)
              /\ fptr' = fptr + 1 /\ tpc' = "xmit"
           \/ /\ fptr = Len(File) \/ setting.fails
              /\ tpc' = "eot" /\ UNCHANGED fptr
        /\ UNCHANGED <<s2r, r2s, tres, tcrc, tpacketno>>

BlockData == [blk |-> fptr, empty |-> File[fptr], name |-> "GARBAGE",
              sized |-> FALSE, size |-> 0]

Xmit == /\ tpc = "xmit"
        /\ Out(Packet(tpacketno, tcrc, BlockData))
        /\ tpc' = "wait"
        /\ UNCHANGED <<r2s, tres, tcrc, tpacketno, tretry, fptr>>

\* Mutant of Wait: a NAK is taken for an ACK.
WaitAnyAnswer == /\ tpc = "wait" /\ Hear
                 /\ \/ /\ Head(r2s) # "CAN"
                       /\ tpacketno' = (tpacketno + 1) % Mod /\ tpc' = "load"
                    \/ /\ Head(r2s) = "CAN"
                       /\ tpc' = "wait_can" /\ UNCHANGED tpacketno
                 /\ UNCHANGED <<s2r, tres, tretry, tcrc, fptr>>

\* An ACK is taken for the last packet, whatever it answers.
Wait == /\ tpc = "wait" /\ Hear
        /\ \/ /\ Head(r2s) = "ACK"
              /\ tpacketno' = (tpacketno + 1) % Mod /\ tpc' = "load"
              /\ UNCHANGED <<s2r, tres, tretry>>
           \/ /\ Head(r2s) = "CAN"
              /\ tpc' = "wait_can"
              /\ UNCHANGED <<s2r, tres, tretry, tpacketno>>
           \/ /\ Head(r2s) \notin {"ACK", "CAN"}
              /\ SendAgain
              /\ UNCHANGED tpacketno
        /\ UNCHANGED <<tcrc, fptr>>

\* The byte after a CAN: a second CAN ends the transfer.
Can == /\ tpc \in {"sync_can", "wait_can"} /\ Hear
       /\ \/ /\ Head(r2s) = "CAN"
             /\ Out(Byte("ACK")) /\ Leave("canceled")
             /\ UNCHANGED tretry
          \/ /\ Head(r2s) # "CAN"
             /\ IF tpc = "sync_can" THEN SyncAgain ELSE SendAgain
       /\ UNCHANGED <<tcrc, tpacketno, fptr>>

SendEot == /\ tpc = "eot"
           /\ Out(Byte("EOT"))
           /\ tpc' = "eot_wait"
           /\ UNCHANGED <<r2s, tres, tcrc, tpacketno, tretry, fptr>>

EotWait == /\ tpc = "eot_wait" /\ Hear
           /\ \/ Head(r2s) = "ACK" /\ Leave("ok") /\ UNCHANGED <<s2r, tretry>>
              \/ Head(r2s) # "ACK" /\ EotAgain
           /\ UNCHANGED <<tcrc, tpacketno, fptr>>

\* inbyte returns -2
TTimeout == /\ r2s = <<>>
            /\ \/ tpc \in {"sync", "sync_can"} /\ SyncAgain
               \/ tpc \in {"wait", "wait_can"} /\ SendAgain
               \/ tpc = "eot_wait" /\ EotAgain
            /\ UNCHANGED <<r2s, tcrc, tpacketno, fptr>>

\* flushinput(), and the return
TFlush == /\ tpc = "flush"
          /\ \/ /\ Hear /\ UNCHANGED tpc
             \/ /\ r2s = <<>> /\ tpc' = "done" /\ UNCHANGED r2s
          /\ UNCHANGED <<s2r, tres, tcrc, tpacketno, tretry, fptr>>

TStep == \/ Sync \/ Load \/ Xmit \/ Wait \/ Can \/ SendEot \/ EotWait
         \/ TFlush
=============================================================================
