--------------------------- MODULE XmodemSession ---------------------------
(***************************************************************************)
(* Files received by xm_receive over a line that loses and garbles: one    *)
(* that xm_transmit of another board sends, or a YMODEM batch.  Between    *)
(* two boards any inbyte may time out at any moment: flushinput waits for  *)
(* a second of silence before a NAK goes out, xm_transmit waits no longer  *)
(* than a second for it (xmodem.c:137, 297, 372), and so sends again into  *)
(* the flush, or while the NAK is on its way.  The program that sends a    *)
(* batch is taken to wait until the receiver has answered, or waits too.   *)
(***************************************************************************)
EXTENDS XmReceive, XmTransmit, YmodemSend, FiniteSets

\* What no program keeps: how many more ACKs the receiver gave again, for a packet
\* that it had, than the line lost or garbled.
VARIABLE surplus

vars == <<line, rvars, tvars, yvars, surplus>>

\* A side waits and has nothing to read, or has returned.
SQuiet == ypc = "done" \/ (r2s = <<>> /\ ypc \in {"start", "packet_wait", "eot_wait"})
RQuiet == rpc = "done" \/ (s2r = <<>> /\ rpc \in {"await", "can"})

Acks(q) == Cardinality({k \in DOMAIN q : q[k] = "ACK"})

\* A packet that was stored before is acknowledged again.
AckedAgain == /\ rpc = "await" /\ s2r # <<>> /\ Head(s2r).t = "PKT"
              /\ Duplicate(Head(s2r)) /\ rpc' = "send"

Init == LineInit /\ RInit /\ TInit /\ YInit /\ surplus = 0

Receiver == /\ RStep
            /\ surplus' = IF ~setting.batch /\ AckedAgain THEN surplus + 1 ELSE surplus
            /\ UNCHANGED <<faults, setting, tvars, yvars>>
Sender == /\ \/ TStep /\ UNCHANGED yvars
             \/ YStep /\ UNCHANGED tvars
          /\ UNCHANGED <<faults, setting, rvars, surplus>>
ReceiverTimeout == /\ setting.batch => SQuiet
                   /\ RTimeout
                   /\ UNCHANGED <<setting, tvars, yvars, surplus>>
SenderTimeout == /\ \/ TTimeout /\ UNCHANGED yvars
                    \/ RQuiet /\ YTimeout /\ UNCHANGED tvars
                 /\ UNCHANGED <<faults, setting, rvars, surplus>>
Noise == /\ Fault
         /\ surplus' = IF setting.batch THEN surplus
                       ELSE surplus - (Acks(r2s) - Acks(r2s'))
         /\ UNCHANGED <<rvars, tvars, yvars>>

Done == rpc = "done" /\ tpc = "done" /\ ypc = "done"
Terminated == Done /\ UNCHANGED vars

Next == \/ Receiver \/ Sender \/ ReceiverTimeout \/ SenderTimeout
        \/ Noise
        \/ Terminated

Spec == Init /\ [][Next]_vars

\* Both sides run, and the timers of inbyte expire.
FairSpec == /\ Spec
            /\ WF_vars(Receiver) /\ WF_vars(ReceiverTimeout)
            /\ WF_vars(Sender) /\ WF_vars(SenderTimeout)
-----------------------------------------------------------------------------
(* One file, from board to board. *)
Blocks == [k \in 1 .. Len(File) |-> k]
TheFile == IF Args = <<>> THEN "NONAME" ELSE Args[1]
Received == disk[TheFile]
Room == setting.disk >= Len(File)

\* Whatever is lost, garbled, repeated or late, what is in the file is the
\* beginning of what was sent: no block is missing before another one, none is
\* there twice (the packet numbers do this; an ACK says nothing of which packet
\* it answers).
FileIsPrefix == ~setting.batch => /\ Len(Received) <= Len(File)
                                  /\ Received = SubSeq(Blocks, 1, Len(Received))

\* When the sender reports success and no file call failed, the receiver lacks at
\* most as many blocks at the end of the file as it gave surplus ACKs, and without a
\* surplus it has the whole file, closed: a packet that was garbled, and sent again
\* into the flush, is there all the same.  (An empty file is never opened.  Each
\* surplus ACK is taken for the answer to a later packet, or to the EOT, and hides
\* the loss of it.)
SuccessIsComplete ==
    ~setting.fails /\ Room /\ tres = "ok" =>
        /\ Len(Received) + surplus >= Len(File)
        /\ surplus <= 0 => /\ Received = Blocks
                           /\ Blocks # <<>> => fil = "closed" /\ TheFile \in closed

\* The receiver is never ahead of the packet that is sent, and behind it by one
\* block, and one more for each surplus ACK: whatever the timers do, what it has not
\* stored it has not acknowledged, and the sender goes on only for an ACK.
InStep == Room /\ tpc = "xmit" /\ rpc # "done" =>
              Len(Received) <= fptr /\ fptr - 1 <= Len(Received) + surplus

\* "ymodem metadata packet" (xmodem.c:248): what is taken for the name of a
\* file is not a block of it.
MetadataIsMetadata == ~setting.batch => ymodem = 0 /\ filename # "GARBAGE"
-----------------------------------------------------------------------------
(* A batch. *)

\* "override filename if given locally" (xmodem.c:272)
Stored(f) == IF f <= Len(Args) THEN Args[f] ELSE Batch[f].name

Sent(f, n) == [k \in 1 .. n |-> Unit(f, k)]

\* A file's padding goes when its size was sent with its name.
Intended(f) == Sent(f, IF Batch[f].sized /\ Batch[f].len > 0
                       THEN Batch[f].len ELSE Batch[f].sent)

\* Each file of the card holds only the blocks of the one file of the batch
\* that is stored there, from its first on: no block strays into the file
\* before or after, whatever the line loses around the two EOTs.
FilesApart ==
    setting.batch => \A f \in DOMAIN Batch :
                        LET d == disk[Stored(f)]
                        IN  Len(d) <= Batch[f].sent /\ d = Sent(f, Len(d))

\* The int holds the size of file f when it ends: one that was sent with its name and
\* is below half a Word (32768 bytes), or none at all.  A size above that comes out
\* negative, and the padding stays, or modulo Word, and the file is cut; and a name
\* without a size leaves the size of the file before it in place.
SizeHeld(f) == IF Batch[f].sized THEN 2 * Batch[f].len < Word
               ELSE \A g \in 1 .. f - 1 : ~Batch[g].sized

\* A file that was closed is whole, its padding gone if its size was sent, as long
\* as its size is held and the card is not full; whatever happens to the sizes of
\* the files before and after it.
ClosedIsWhole ==
    setting.batch /\ free > 0 => \A f \in DOMAIN Batch :
                        SizeHeld(f) /\ Stored(f) \in closed => disk[Stored(f)] = Intended(f)

\* When the sender ends the batch well, every file is there and closed.
BatchComplete ==
    yres = "ok" => \A f \in DOMAIN Batch : Stored(f) \in closed

\* Neither side waits for the other for ever, whatever the line does.
BothReturn == <>Done
=============================================================================
