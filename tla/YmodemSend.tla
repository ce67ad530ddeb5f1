----------------------------- MODULE YmodemSend -----------------------------
(***************************************************************************)
(* The program at the other end of a YMODEM batch, which is no part of the *)
(* repository: it sends Batch the way the session of src/z80ctrl/xmodem.c, *)
(* lines 31-66, goes, and sends again what is refused or not answered.     *)
(* The unit of data is what one packet carries.                            *)
(***************************************************************************)
EXTENDS XmodemLine

CONSTANTS Batch,    \* the files: [name, len, sent, sized], where sent is the
                    \* length with padding and sized says that len is sent
          YRetries  \* transmissions of anything

VARIABLES ypc, yres,
          yfile,    \* the file being sent; Len(Batch) + 1 for the empty name
          yblock,   \* the packet number of the packet being sent
          yretry

yvars == <<ypc, yres, yfile, yblock, yretry>>

YInit == /\ ypc = (IF setting.batch THEN "start" ELSE "done") /\ yres = "none"
         /\ yfile = 1 /\ yblock = 0 /\ yretry = 0

\* Block k of file f.
Unit(f, k) == 100 * f + k

YPacket ==
    Packet(yblock % Mod, TRUE,
           IF yfile > Len(Batch)
           THEN [blk |-> 0, empty |-> TRUE, name |-> "GARBAGE",
                 sized |-> FALSE, size |-> 0]
           ELSE [blk |-> Unit(yfile, yblock), empty |-> FALSE,
                 name |-> IF yblock = 0 THEN Batch[yfile].name ELSE "GARBAGE",
                 sized |-> yblock = 0 /\ Batch[yfile].sized,
                 size |-> Batch[yfile].len])

YSend == /\ ypc \in {"packet", "eot"}
         /\ s2r' = Append(s2r, IF ypc = "eot" THEN Byte("EOT") ELSE YPacket)
         /\ ypc' = IF ypc = "eot" THEN "eot_wait" ELSE "packet_wait"
         /\ UNCHANGED <<r2s, yres, yfile, yblock, yretry>>

\* The receiver asks for a name, or for the data.
YStart == /\ ypc = "start" /\ r2s # <<>>
          /\ r2s' = Tail(r2s)
          /\ ypc' = IF Head(r2s) \in {"C", "NAK"} THEN "packet" ELSE ypc
          /\ UNCHANGED <<s2r, yres, yfile, yblock, yretry>>

YAcked ==
    /\ ypc \in {"packet_wait", "eot_wait"} /\ r2s # <<>> /\ Head(r2s) = "ACK"
    /\ r2s' = Tail(r2s)
    /\ yretry' = 0
    /\ \/ /\ ypc = "packet_wait" /\ yfile > Len(Batch)
          /\ ypc' = "done" /\ yres' = "ok"
          /\ UNCHANGED <<yfile, yblock>>
       \/ /\ ypc = "packet_wait" /\ yfile <= Len(Batch)
          /\ IF yblock < Batch[yfile].sent
             THEN /\ yblock' = yblock + 1
                  /\ ypc' = IF yblock = 0 THEN "start" ELSE "packet"
             ELSE yblock' = yblock /\ ypc' = "eot"
          /\ UNCHANGED <<yres, yfile>>
       \/ /\ ypc = "eot_wait"
          /\ yfile' = yfile + 1 /\ yblock' = 0 /\ ypc' = "start"
          /\ UNCHANGED yres
    /\ UNCHANGED s2r

YAgain ==
    \/ /\ yretry + 1 < YRetries
       /\ yretry' = yretry + 1
       /\ ypc' = CASE ypc = "packet_wait" -> "packet"
                   [] ypc = "eot_wait" -> "eot"
                   [] ypc = "start" -> "start"
       /\ UNCHANGED yres
    \/ /\ yretry + 1 >= YRetries
       /\ ypc' = "done" /\ yres' = "failed" /\ UNCHANGED yretry

\* NAK: again.  Anything else but an ACK is ignored.
YRefused == /\ ypc \in {"packet_wait", "eot_wait"} /\ r2s # <<>>
            /\ r2s' = Tail(r2s)
            /\ \/ Head(r2s) = "NAK" /\ YAgain
               \/ Head(r2s) \notin {"ACK", "NAK"} /\ UNCHANGED <<ypc, yres, yretry>>
            /\ UNCHANGED <<s2r, yfile, yblock>>

YTimeout == /\ ypc \in {"start", "packet_wait", "eot_wait"} /\ r2s = <<>>
            /\ YAgain
            /\ UNCHANGED <<s2r, r2s, yfile, yblock>>

YStep == YSend \/ YStart \/ YAcked \/ YRefused
=============================================================================
