---------------------------- MODULE XmodemProof ----------------------------
(***************************************************************************)
(* What xm_receive and xm_transmit guarantee for files of any length below *)
(* Mod blocks, cards of any size, any retry limits and any number of       *)
(* faults; and YMODEM batches of any number of files.                      *)
(***************************************************************************)
EXTENDS XmodemSession, SequenceTheorems, FiniteSetTheorems, TLAPS

(* What the line carries. *)
Control == {"C", "NAK", "ACK", "CAN", "JUNK"}
Bytes == [t : {"JUNK", "EOT", "CAN", "ACK"}]
Contents == [blk : Nat, empty : BOOLEAN, name : Names, sized : BOOLEAN, size : Nat]
Packets == [t : {"PKT"}, num : Nat, crc : BOOLEAN, data : Contents, ok : BOOLEAN]

\* What a fault makes of a channel: an item less, or an item that is now noise
\* or a packet that fails its check.
Worse(s, n) ==
    \/ /\ Len(n) + 1 = Len(s)
       /\ \A j \in 1 .. Len(n) : n[j] = s[j] \/ n[j] = s[j + 1]
    \/ /\ Len(n) = Len(s)
       /\ \E k \in 1 .. Len(s) :
            /\ \A j \in 1 .. Len(s) : j # k => n[j] = s[j]
            /\ \/ n[k] = Byte("JUNK")
               \/ s[k].t = "PKT" /\ n[k] = [s[k] EXCEPT !.ok = FALSE]

WorseControl(s, n) ==
    \/ /\ Len(n) + 1 = Len(s)
       /\ \A j \in 1 .. Len(n) : n[j] = s[j] \/ n[j] = s[j + 1]
    \/ /\ Len(n) = Len(s)
       /\ \E k \in 1 .. Len(s) :
            /\ \A j \in 1 .. Len(s) : j # k => n[j] = s[j]
            /\ n[k] = "JUNK"

\* A sequence without its item k: the items after it move down.
LEMMA Drop ==
  ASSUME NEW S, NEW s \in Seq(S), NEW k \in DOMAIN s
  PROVE  LET n == SubSeq(s, 1, k - 1) \o SubSeq(s, k + 1, Len(s))
         IN  /\ n \in Seq(S)
             /\ Len(n) + 1 = Len(s)
             /\ \A j \in 1 .. Len(n) : n[j] = IF j < k THEN s[j] ELSE s[j + 1]
<1> DEFINE a == SubSeq(s, 1, k - 1)
           b == SubSeq(s, k + 1, Len(s))
           n == a \o b
<1>1. k \in 1 .. Len(s) /\ Len(s) \in Nat
  BY LenProperties
<1>2. \A i \in 1 .. Len(s) : s[i] \in S
  BY ElementOfSeq
<1>3. /\ a \in Seq(S) /\ Len(a) = k - 1
      /\ \A i \in 1 .. k - 1 : a[i] = s[i]
  <2>1. /\ a \in Seq(S) /\ Len(a) = IF 1 <= k - 1 THEN (k - 1) - 1 + 1 ELSE 0
        /\ \A i \in 1 .. (k - 1) - 1 + 1 : a[i] = s[1 + i - 1]
    <3>1. 1 \in Int /\ k - 1 \in Int /\ \A i \in 1 .. k - 1 : s[i] \in S
      BY <1>1, <1>2
    <3> HIDE DEF a
    <3> QED BY <3>1, SubSeqProperties DEF a
  <2> HIDE DEF a
  <2> QED BY <1>1, <2>1
<1>4. /\ b \in Seq(S) /\ Len(b) = Len(s) - k
      /\ \A i \in 1 .. Len(s) - k : b[i] = s[k + i]
  <2>1. /\ b \in Seq(S) /\ Len(b) = IF k + 1 <= Len(s) THEN Len(s) - (k + 1) + 1 ELSE 0
        /\ \A i \in 1 .. Len(s) - (k + 1) + 1 : b[i] = s[k + 1 + i - 1]
    <3>1. k + 1 \in Int /\ Len(s) \in Int /\ \A i \in k + 1 .. Len(s) : s[i] \in S
      BY <1>1, <1>2
    <3> HIDE DEF b
    <3> QED BY <3>1, SubSeqProperties DEF b
  <2> HIDE DEF b
  <2>2. Len(b) = Len(s) - k
    BY <1>1, <2>1
  <2>3. ASSUME NEW i \in 1 .. Len(s) - k PROVE b[i] = s[k + i]
    <3>1. i \in 1 .. Len(s) - (k + 1) + 1 /\ k + 1 + i - 1 = k + i
      BY <1>1
    <3> QED BY <3>1, <2>1
  <2> QED BY <2>1, <2>2, <2>3
<1> HIDE DEF a, b
<1>5. /\ n \in Seq(S) /\ Len(n) = Len(a) + Len(b)
      /\ \A i \in 1 .. Len(a) + Len(b) :
            n[i] = IF i <= Len(a) THEN a[i] ELSE b[i - Len(a)]
  <2>1. a \in Seq(S) /\ b \in Seq(S)
    BY <1>3, <1>4
  <2> QED BY <2>1, ConcatProperties, Zenon
<1> HIDE DEF n
<1>6. Len(n) + 1 = Len(s)
  <2>1. k \in Int /\ Len(s) \in Int
    BY <1>1
  <2>2. Len(n) = (k - 1) + (Len(s) - k)
    BY <1>3, <1>4, <1>5
  <2> QED BY <2>1, <2>2
<1>7. ASSUME NEW j \in 1 .. Len(n)
      PROVE  n[j] = IF j < k THEN s[j] ELSE s[j + 1]
  <2>1. CASE j < k
    <3>1. j \in 1 .. k - 1 /\ j \in 1 .. Len(a) + Len(b) /\ j <= Len(a)
      <4>1. Len(a) = k - 1 /\ Len(b) = Len(s) - k /\ k \in Int /\ Len(s) \in Int /\ k <= Len(s)
        BY <1>1, <1>3, <1>4
      <4>2. j \in Int /\ 1 <= j
        BY <1>6, <1>1
      <4> QED BY <4>1, <4>2, <2>1
    <3>2. n[j] = a[j] /\ a[j] = s[j]
      BY <3>1, <1>3, <1>5
    <3> QED BY <3>2, <2>1
  <2>2. CASE j >= k
    <3>1. j - Len(a) \in 1 .. Len(s) - k /\ k + (j - Len(a)) = j + 1 /\ ~(j <= Len(a))
      <4>1. Len(a) = k - 1 /\ k \in Int /\ Len(s) \in Int /\ j \in Int /\ j <= Len(s) - 1
        BY <1>1, <1>3, <1>6
      <4> QED BY <4>1, <2>2
    <3>2. n[j] = b[j - Len(a)]
      BY <3>1, <1>1, <1>3, <1>4, <1>5
    <3>3. b[j - Len(a)] = s[k + (j - Len(a))]
      BY <3>1, <1>4
    <3> QED BY <3>1, <3>2, <3>3, <2>2, <1>1
  <2> QED BY <2>1, <2>2, <1>1, <1>3, <1>4, <1>5
<1> QED BY <1>5, <1>6, <1>7 DEF a, b, n

\* A fault keeps what is true of each item, if garbling does.
LEMMA FaultKeeps ==
  ASSUME NEW S, Byte("JUNK") \in S,
         \A p \in S : p.t = "PKT" => [p EXCEPT !.ok = FALSE] \in S,
         s2r \in Seq(S), r2s \in Seq(Control), Fault
  PROVE  /\ s2r' \in Seq(S) /\ r2s' \in Seq(Control)
         /\ \/ Worse(s2r, s2r') /\ UNCHANGED r2s
            \/ WorseControl(r2s, r2s') /\ UNCHANGED s2r
<1>1. /\ DOMAIN s2r = 1 .. Len(s2r) /\ Len(s2r) \in Nat
      /\ DOMAIN r2s = 1 .. Len(r2s) /\ Len(r2s) \in Nat
  BY LenProperties
<1>2. ASSUME NEW k \in DOMAIN s2r,
             s2r' = SubSeq(s2r, 1, k - 1) \o SubSeq(s2r, k + 1, Len(s2r))
      PROVE  s2r' \in Seq(S) /\ Worse(s2r, s2r')
  <2>1. /\ s2r' \in Seq(S) /\ Len(s2r') + 1 = Len(s2r)
        /\ \A j \in 1 .. Len(s2r') : s2r'[j] = IF j < k THEN s2r[j] ELSE s2r[j + 1]
    BY <1>2, Drop
  <2> QED BY <2>1 DEF Worse
<1>3. ASSUME NEW k \in DOMAIN r2s,
             r2s' = SubSeq(r2s, 1, k - 1) \o SubSeq(r2s, k + 1, Len(r2s))
      PROVE  r2s' \in Seq(Control) /\ WorseControl(r2s, r2s')
  <2>1. /\ r2s' \in Seq(Control) /\ Len(r2s') + 1 = Len(r2s)
        /\ \A j \in 1 .. Len(r2s') : r2s'[j] = IF j < k THEN r2s[j] ELSE r2s[j + 1]
    BY <1>3, Drop
  <2> QED BY <2>1 DEF WorseControl
<1>4. ASSUME NEW k \in DOMAIN s2r, NEW e \in S, s2r' = [s2r EXCEPT ![k] = e],
             \/ e = Byte("JUNK")
             \/ s2r[k].t = "PKT" /\ e = [s2r[k] EXCEPT !.ok = FALSE]
      PROVE  s2r' \in Seq(S) /\ Worse(s2r, s2r')
  <2>1. /\ s2r' \in Seq(S) /\ Len(s2r') = Len(s2r)
        /\ \A j \in 1 .. Len(s2r) : s2r'[j] = IF j = k THEN e ELSE s2r[j]
    BY <1>1, <1>4, ExceptSeq
  <2>2. k \in 1 .. Len(s2r) /\ s2r'[k] = e /\ \A j \in 1 .. Len(s2r) : j # k => s2r'[j] = s2r[j]
    BY <1>1, <2>1
  <2> QED BY <2>1, <2>2, <1>4 DEF Worse
<1>5. ASSUME NEW k \in DOMAIN r2s, r2s' = [r2s EXCEPT ![k] = "JUNK"]
      PROVE  r2s' \in Seq(Control) /\ WorseControl(r2s, r2s')
  <2>1. /\ r2s' \in Seq(Control) /\ Len(r2s') = Len(r2s)
        /\ \A j \in 1 .. Len(r2s) : r2s'[j] = IF j = k THEN "JUNK" ELSE r2s[j]
    <3>1. "JUNK" \in Control /\ k \in 1 .. Len(r2s)
      BY <1>1 DEF Control
    <3> QED BY <3>1, <1>5, ExceptSeq
  <2>2. k \in 1 .. Len(r2s) /\ r2s'[k] = "JUNK" /\ \A j \in 1 .. Len(r2s) : j # k => r2s'[j] = r2s[j]
    BY <1>1, <2>1
  <2> QED BY <2>1, <2>2 DEF WorseControl
<1>6. CASE Lose
  BY <1>6, <1>2, <1>3 DEF Lose
<1>7. CASE Garble
  <2>1. ASSUME NEW k \in DOMAIN s2r, s2r[k].t = "PKT", s2r' = [s2r EXCEPT ![k].ok = FALSE]
        PROVE  s2r' \in Seq(S) /\ Worse(s2r, s2r')
    <3>1. s2r[k] \in S
      BY <1>1, ElementOfSeq
    <3>2. [s2r[k] EXCEPT !.ok = FALSE] \in S
      BY <2>1, <3>1
    <3>3. s2r' = [s2r EXCEPT ![k] = [s2r[k] EXCEPT !.ok = FALSE]]
      BY <2>1
    <3> QED BY <2>1, <3>2, <3>3, <1>4
  <2> QED BY <1>7, <2>1, <1>4, <1>5 DEF Garble
<1> QED BY <1>6, <1>7 DEF Fault
-----------------------------------------------------------------------------
(* One file, whatever the line and the timers do. *)

\* Packets of the file carry the number of their block.
Items == Bytes \cup {p \in Packets : p.num \in 1 .. Len(File) /\ p.data.blk = p.num}

LineOK == s2r \in Seq(Items) /\ r2s \in Seq(Control)

\* The packet that the sender sends is the block that it read.
SendOK ==
    /\ ypc = "done" /\ fptr \in 0 .. Len(File) /\ tcrc \in BOOLEAN
    /\ tpc \in {"sync", "sync_can"} => fptr = 0 /\ tpacketno = 1
    /\ tpc = "load" => tpacketno = (fptr + 1) % Mod
    /\ tpc \in {"xmit", "wait", "wait_can"} => fptr >= 1 /\ tpacketno = fptr

\* The packets that the receiver has taken.
Taken == IF packetno = 0 THEN Mod - 1 ELSE packetno - 1

RecvType == /\ trychar \in {"C", "NAK", "none"}
            /\ packetno \in 0 .. Mod - 1
            /\ free \in Nat
            /\ disk \in [Names -> Seq(Nat)]
            /\ opened \in Names

\* It has stored as many of them as the card had room for.
RecvOK ==
    /\ RecvType
    /\ ymodem = 0 /\ size = 0
    /\ Taken <= Len(File)
    /\ \A k \in 1 .. Len(Received) : Received[k] = k
    /\ Len(Received) <= Taken
    /\ Len(Received) < Taken => free = 0
    /\ free + Len(Received) = setting.disk
    /\ IF packetno = 1
       THEN filename = "NONAME" /\ curfile = 0 /\ fil \in {"uninit", "wild"}
       ELSE filename = TheFile /\ opened = TheFile /\ fil \in {"open", "closed"}

Prefix == setting \in Settings /\ (~setting.batch => LineOK /\ SendOK /\ RecvOK)

\* What xm_transmit and the noise may put on the line.
LEMMA ItemFacts ==
  /\ \A b \in {"JUNK", "EOT", "CAN", "ACK"} : Byte(b) \in Items
  /\ \A p \in Items : p.t = "PKT" =>
        /\ p \in Packets /\ p.num \in 1 .. Len(File) /\ p.data.blk = p.num
        /\ [p EXCEPT !.ok = FALSE] \in Items
<1>1. \A b \in {"JUNK", "EOT", "CAN", "ACK"} : Byte(b) \in Items
  BY DEF Items, Bytes, Byte
<1>2. ASSUME NEW p \in Items, p.t = "PKT"
      PROVE  /\ p \in Packets /\ p.num \in 1 .. Len(File) /\ p.data.blk = p.num
             /\ [p EXCEPT !.ok = FALSE] \in Items
  <2>1. p \notin Bytes
    BY <1>2 DEF Bytes
  <2>2. p \in Packets /\ p.num \in 1 .. Len(File) /\ p.data.blk = p.num
    BY <2>1 DEF Items
  <2>3. /\ [p EXCEPT !.ok = FALSE] \in Packets
        /\ [p EXCEPT !.ok = FALSE].num = p.num
        /\ [p EXCEPT !.ok = FALSE].data = p.data
    BY <2>2 DEF Packets
  <2> QED BY <2>2, <2>3 DEF Items
<1> QED BY <1>1, <1>2

\* What a side does to the channel it writes.
LEMMA Writes ==
  ASSUME NEW S, NEW s \in Seq(S)
  PROVE  /\ \A e \in S : Append(s, e) \in Seq(S)
         /\ \A e \in S : s \o <<e, e, e>> \in Seq(S)
         /\ s # <<>> => Tail(s) \in Seq(S) /\ Head(s) \in S
<1>1. ASSUME NEW e \in S PROVE s \o <<e, e, e>> \in Seq(S)
  <2>1. <<e, e, e>> \in Seq(S)
    OBVIOUS
  <2> QED BY <2>1, ConcatProperties
<1> QED BY <1>1, AppendProperties, HeadTailProperties

\* The number after n, when there are more numbers than n.
LEMMA NextNumber ==
  ASSUME NEW n \in 0 .. Mod - 1
  PROVE  (n + 1) % Mod = IF n = Mod - 1 THEN 0 ELSE n + 1
<1>1. CASE n = Mod - 1
  <2>1. n + 1 = Mod /\ Mod % Mod = 0
    BY <1>1, ModAssumption
  <2> QED BY <1>1, <2>1
<1>2. CASE n # Mod - 1
  <2>1. n + 1 \in 0 .. Mod - 1
    BY <1>2, ModAssumption
  <2>2. (n + 1) % Mod = n + 1
    BY <2>1, ModAssumption
  <2> QED BY <1>2, <2>2
<1> QED BY <1>1, <1>2

\* A packet of xm_transmit is an item of the line, and its number says its block.
LEMMA PacketIsItem ==
  ASSUME fptr \in 1 .. Len(File), tpacketno = fptr, tcrc \in BOOLEAN
  PROVE  Packet(tpacketno, tcrc, BlockData) \in Items
<1>1. Len(File) \in Nat /\ File[fptr] \in BOOLEAN
  BY FileAssumption
<1>2. BlockData \in Contents /\ BlockData.blk = fptr
  BY <1>1, NamesAssumption DEF BlockData, Contents
<1>3. /\ Packet(tpacketno, tcrc, BlockData) \in Packets
      /\ Packet(tpacketno, tcrc, BlockData).num = fptr
      /\ Packet(tpacketno, tcrc, BlockData).data = BlockData
  BY <1>1, <1>2 DEF Packet, Packets
<1> QED BY <1>2, <1>3 DEF Items

\* xm_transmit keeps its number and its position in step.
LEMMA SenderStep ==
  ASSUME Len(File) < Mod, LineOK, SendOK, TStep \/ TTimeout
  PROVE  LineOK' /\ (UNCHANGED yvars => SendOK')
<1> USE DEF SendOK
<1>1. /\ s2r \in Seq(Items) /\ Byte("CAN") \in Items /\ Byte("ACK") \in Items
      /\ Byte("EOT") \in Items
  BY ItemFacts DEF LineOK
<1>2. /\ s2r \o <<Byte("CAN"), Byte("CAN"), Byte("CAN")>> \in Seq(Items)
      /\ Append(s2r, Byte("EOT")) \in Seq(Items)
      /\ Append(s2r, Byte("ACK")) \in Seq(Items)
  BY <1>1, Writes
<1>3. r2s # <<>> => Tail(r2s) \in Seq(Control)
  BY Writes DEF LineOK
<1>4. Len(File) \in Nat
  BY FileAssumption
<1>5. /\ r2s' = r2s \/ (r2s' = Tail(r2s) /\ r2s # <<>>)
      /\ tpc # "xmit" => s2r' \in {s2r, s2r \o <<Byte("CAN"), Byte("CAN"), Byte("CAN")>>,
                                  Append(s2r, Byte("EOT")), Append(s2r, Byte("ACK"))}
  <2>1. r2s' = r2s \/ (r2s' = Tail(r2s) /\ r2s # <<>>)
    <3>1. Sync \/ Wait \/ Can \/ EotWait => Hear
      BY DEF Sync, Wait, Can, EotWait
    <3>2. Load \/ Xmit \/ SendEot \/ TTimeout => UNCHANGED r2s
      BY DEF Load, Xmit, SendEot, TTimeout
    <3>3. TFlush => Hear \/ UNCHANGED r2s
      BY DEF TFlush
    <3>4. Hear \/ UNCHANGED r2s
      BY <3>1, <3>2, <3>3 DEF TStep
    <3> QED BY <3>4 DEF Hear
  <2>2. SyncAgain \/ SendAgain \/ EotAgain => s2r' = s2r \/ Cancelled
    BY DEF SyncAgain, SendAgain, EotAgain
  <2>3. tpc # "xmit" => s2r' = s2r \/ Cancelled \/ Out(Byte("EOT")) \/ Out(Byte("ACK"))
    BY <2>2 DEF TStep, TTimeout, Sync, Load, Wait, Can, Xmit, SendEot, EotWait, TFlush
  <2> QED BY <2>1, <2>3 DEF Cancelled, Out
<1>6. tpc = "xmit" => s2r' = Append(s2r, Packet(tpacketno, tcrc, BlockData))
  BY DEF TStep, TTimeout, Sync, Load, Wait, Can, Xmit, SendEot, EotWait, TFlush, Out
<1>7. LineOK'
  <2>1. CASE tpc = "xmit"
    <3>1. Packet(tpacketno, tcrc, BlockData) \in Items
      BY <2>1, PacketIsItem
    <3>2. s2r' \in Seq(Items)
      BY <3>1, <2>1, <1>1, <1>6, Writes
    <3> QED BY <3>2, <1>3, <1>5 DEF LineOK
  <2>2. CASE tpc # "xmit"
    BY <2>2, <1>1, <1>2, <1>3, <1>5 DEF LineOK
  <2> QED BY <2>1, <2>2
<1>8. ASSUME UNCHANGED yvars PROVE SendOK'
  <2>1. ypc' = "done"
    BY <1>8 DEF yvars
  <2>2. CASE Sync
    <3>1. (0 + 1) % Mod = 1
      BY NextNumber, ModAssumption
    <3> QED BY <2>1, <2>2, <3>1 DEF Sync, SyncAgain, Leave
  <2>3. CASE Load
    <3>1. ASSUME fptr' = fptr + 1, fptr < Len(File)
          PROVE  (fptr + 1) % Mod = fptr'
      <4>1. fptr \in 0 .. Mod - 1 /\ fptr # Mod - 1
        BY <3>1, <1>4, ModAssumption
      <4> QED BY <3>1, <4>1, NextNumber
    <3> QED BY <2>1, <2>3, <3>1, <1>4 DEF Load
  <2>4. CASE Wait
    BY <2>1, <2>4 DEF Wait, SendAgain, Leave
  <2>5. CASE Can \/ Xmit \/ SendEot \/ EotWait \/ TFlush \/ TTimeout
    BY <2>1, <2>5 DEF Can, Xmit, SendEot, EotWait, TFlush, TTimeout,
       SyncAgain, SendAgain, EotAgain, Leave
  <2> QED BY <2>2, <2>3, <2>4, <2>5 DEF TStep
<1> QED BY <1>7, <1>8

\* What the receiver does to the line.
Reads == s2r # <<>> /\ (s2r' = Tail(s2r) \/ s2r' = <<Byte("JUNK")>> \o Tail(s2r))
Speaks == \/ \E b \in {"C", "NAK", "ACK"} : Say(b)
          \/ r2s' = r2s \o <<"CAN", "CAN", "CAN">>

\* A step of xm_receive takes at most one item and says control bytes only.
LEMMA ReceiverSays ==
  ASSUME trychar \in {"C", "NAK", "none"}, RStep \/ RTimeout
  PROVE  /\ Reads \/ UNCHANGED s2r
         /\ Speaks \/ UNCHANGED r2s
<1>1. CASE SendTry
  BY <1>1 DEF SendTry, Speaks
<1>2. CASE FlushSome
  BY <1>2 DEF FlushSome, Reads
<1>3. CASE FlushEnd
  BY <1>3 DEF FlushEnd, Speaks
<1>4. CASE RJunk
  BY <1>4 DEF RJunk, Reads
<1>5. CASE REot
  BY <1>5 DEF REot, Reads, Speaks
<1>6. CASE RPacket
  BY <1>6 DEF RPacket, Reads, Speaks, Reject, Metadata, Data, DataFails, Duplicate,
     Answer
<1>7. CASE RCan
  BY <1>7 DEF RCan, Reads
<1>8. CASE RTimeout
  BY <1>8 DEF RTimeout, line
<1> QED BY <1>1, <1>2, <1>3, <1>4, <1>5, <1>6, <1>7, <1>8 DEF RStep

\* So what it leaves on the line is of the same kind.
LEMMA ReceiverLine ==
  ASSUME NEW S, Byte("JUNK") \in S, s2r \in Seq(S), r2s \in Seq(Control),
         trychar \in {"C", "NAK", "none"}, RStep \/ RTimeout
  PROVE  s2r' \in Seq(S) /\ r2s' \in Seq(Control)
<1>1. ASSUME Reads PROVE s2r' \in Seq(S)
  <2>1. Tail(s2r) \in Seq(S) /\ <<Byte("JUNK")>> \in Seq(S)
    BY <1>1, Writes DEF Reads
  <2>2. <<Byte("JUNK")>> \o Tail(s2r) \in Seq(S)
    BY <2>1, ConcatProperties
  <2> QED BY <1>1, <2>1, <2>2 DEF Reads
<1>2. ASSUME Speaks PROVE r2s' \in Seq(Control)
  <2>1. \A b \in Control : Append(r2s, b) \in Seq(Control)
    BY Writes
  <2>2. r2s \o <<"CAN", "CAN", "CAN">> \in Seq(Control)
    <3>1. "CAN" \in Control
      BY DEF Control
    <3> QED BY <3>1, Writes
  <2> QED BY <1>2, <2>1, <2>2 DEF Speaks, Say, Control
<1> QED BY <1>1, <1>2, ReceiverSays

\* Closing a file whose size was not sent leaves what is in it.
LEMMA CloseUnsized ==
  ASSUME RecvType, size = 0, CloseFile
  PROVE  /\ disk' = disk /\ free' = free
         /\ fil' = IF fil = "open" THEN "closed" ELSE fil'
         /\ fil \in {"uninit", "wild"} => fil' \in {"uninit", "wild"} /\ closed' = closed
         /\ fil = "closed" => fil' = "closed" /\ closed' = closed
         /\ fil = "open" => closed' = closed \cup {opened}
<1>1. CASE fil = "open"
  <2>1. disk' = disk /\ free' = (free + Len(disk[opened])) - Len(disk[opened])
    BY <1>1 DEF CloseFile
  <2>2. Len(disk[opened]) \in Nat /\ free \in Nat
    BY LenProperties DEF RecvType
  <2> QED BY <1>1, <2>1, <2>2 DEF CloseFile
<1>2. CASE fil # "open"
  BY <1>2 DEF CloseFile
<1> QED BY <1>1, <1>2

\* The next block goes behind the ones that are there, if there is room.
LEMMA StoreNext ==
  ASSUME Len(File) < Mod, RecvOK, setting.disk \in Nat, UNCHANGED setting,
         NEW p, p.num = packetno, p.num \in 1 .. Len(File), p.data.blk = p.num,
         Data(p)
  PROVE  RecvOK'
<1>1. TheFile \in Names /\ (packetno = 1 => Target = TheFile) /\ Len(File) \in Nat
  BY NamesAssumption, FileAssumption DEF TheFile, RecvOK, Target
<1>2. packetno \in 0 .. Mod - 1 /\ packetno # 0 /\ Mod \in Nat
  BY ModAssumption DEF RecvOK, RecvType
<1>3. packetno' = (IF packetno = Mod - 1 THEN 0 ELSE packetno + 1)
  BY <1>2, NextNumber DEF Data
<1>4. /\ packetno' \in 0 .. Mod - 1 /\ packetno' # 1 /\ Taken' = packetno
      /\ Taken = packetno - 1
  BY <1>2, <1>3, ModAssumption DEF Taken
<1>5. Received \in Seq(Nat) /\ Len(Received) \in Nat /\ free \in Nat
  BY <1>1, LenProperties DEF Received, RecvOK, RecvType
<1>6. packetno = 1 => Received = <<>> /\ Len(Received) = 0
  BY <1>1, <1>4, <1>5, EmptySeq DEF RecvOK
<1> DEFINE new == IF free > 0 THEN Append(Received, p.num) ELSE Received
<1>7. /\ disk' = [disk EXCEPT ![TheFile] = new]
      /\ free' = IF free > 0 THEN free - 1 ELSE 0
      /\ opened' = TheFile /\ fil' = "open" /\ filename' = TheFile
  <2>1. CASE packetno = 1
    <3>1. free + Len(disk[Target]) = free
      BY <2>1, <1>1, <1>5, <1>6 DEF Received
    <3>2. /\ disk' = [disk EXCEPT ![Target] = Written(<<>>, free, p.num)]
          /\ free' = IF free > 0 THEN free - 1 ELSE 0
          /\ opened' = Target /\ fil' = "open" /\ filename' = Target
      BY <2>1, <3>1 DEF Data, Store
    <3> QED BY <2>1, <3>2, <1>1, <1>6 DEF Written
  <2>2. CASE packetno # 1
    BY <2>2 DEF Data, Store, Written, Received, RecvOK
  <2> QED BY <2>1, <2>2
<1>8. /\ new \in Seq(Nat)
      /\ Len(new) = (IF free > 0 THEN Len(Received) + 1 ELSE Len(Received))
      /\ \A k \in 1 .. Len(Received) : new[k] = Received[k]
      /\ free > 0 => new[Len(Received) + 1] = p.num
  BY <1>5, <1>1, AppendProperties
<1> HIDE DEF new
<1>9. disk' \in [Names -> Seq(Nat)] /\ Received' = new
  BY <1>1, <1>7, <1>8 DEF Received, RecvOK, RecvType
<1>10. free > 0 => Len(Received) = Taken
  BY <1>2, <1>4, <1>5 DEF RecvOK
<1>11. ASSUME NEW k \in 1 .. Len(new) PROVE new[k] = k
  <2>1. CASE k \in 1 .. Len(Received)
    BY <2>1, <1>8 DEF RecvOK
  <2>2. CASE k \notin 1 .. Len(Received)
    <3>1. free > 0 /\ k = Len(Received) + 1
      BY <2>2, <1>5, <1>8
    <3>2. k = p.num
      BY <3>1, <1>2, <1>4, <1>10
    <3> QED BY <3>1, <3>2, <1>8
  <2> QED BY <2>1, <2>2
<1>12. RecvType'
  BY <1>1, <1>4, <1>5, <1>7, <1>9 DEF RecvType, Data
<1>13. UNCHANGED <<ymodem, size>>
  BY DEF Data
<1>14. /\ Taken' <= Len(File) /\ Len(new) <= Taken'
       /\ Len(new) < Taken' => free' = 0
       /\ free' + Len(new) = setting.disk
  <2>1. /\ packetno <= Len(File) /\ Taken' = Taken + 1
        /\ Len(Received) <= Taken /\ Taken \in Nat
        /\ Len(Received) < Taken => free = 0
        /\ free + Len(Received) = setting.disk
    BY <1>1, <1>2, <1>4, <1>5 DEF RecvOK
  <2>2. CASE free > 0
    BY <2>1, <2>2, <1>2, <1>4, <1>5, <1>7, <1>8, <1>10
  <2>3. CASE ~(free > 0)
    BY <2>1, <2>3, <1>2, <1>4, <1>5, <1>7, <1>8
  <2> QED BY <2>2, <2>3
<1> QED BY <1>4, <1>7, <1>9, <1>11, <1>12, <1>13, <1>14 DEF RecvOK

\* A step that stores nothing changes neither the file nor what was taken.
LEMMA NothingStored ==
  ASSUME RecvOK, trychar' \in {"C", "NAK", "none"},
         UNCHANGED <<packetno, rinfo, ymodem, opened, disk, free, setting>>,
         \/ fil' = fil
         \/ fil = "open" /\ fil' = "closed"
         \/ {fil, fil'} \subseteq {"uninit", "wild"}
  PROVE  RecvOK'
<1>1. RecvType' /\ Received' = Received /\ Taken' = Taken
  BY DEF RecvOK, RecvType, Received, Taken
<1> QED BY <1>1 DEF RecvOK, rinfo

\* xm_receive stores the next block or none.
LEMMA ReceiverStep ==
  ASSUME Len(File) < Mod, LineOK, RecvOK, setting.disk \in Nat, UNCHANGED setting,
         RStep \/ RTimeout
  PROVE  RecvOK'
<1>1. RecvType /\ ymodem = 0 /\ size = 0
  BY DEF RecvOK
<1>2. ASSUME NextTry PROVE trychar' \in {"C", "NAK", "none"}
  BY <1>1, <1>2 DEF NextTry, RecvType
<1>3. CASE SendTry \/ FlushSome \/ FlushEnd \/ RJunk \/ RCan \/ RTimeout
  <2>1. /\ UNCHANGED <<packetno, rinfo, ymodem, rfile>>
        /\ trychar' = trychar \/ NextTry
    <3>1. CASE SendTry \/ FlushSome \/ FlushEnd
      BY <3>1 DEF SendTry, FlushSome, FlushEnd, rvars
    <3>2. CASE RJunk \/ RTimeout
      BY <3>2 DEF RJunk, RTimeout
    <3>3. CASE RCan
      BY <3>3, <1>3 DEF RCan, RStep, SendTry, FlushSome, FlushEnd, RJunk, REot, RPacket,
         RTimeout, rvars
    <3> QED BY <1>3, <3>1, <3>2, <3>3
  <2> QED BY <2>1, <1>1, <1>2, NothingStored DEF RecvType, rfile
<1>4. CASE REot
  <2>1. CloseFile
    BY <1>4 DEF REot
  <2>2. /\ disk' = disk /\ free' = free
        /\ fil' = IF fil = "open" THEN "closed" ELSE fil'
        /\ fil \in {"uninit", "wild"} => fil' \in {"uninit", "wild"}
        /\ fil = "closed" => fil' = "closed"
    BY <2>1, <1>1, CloseUnsized
  <2>3. UNCHANGED <<packetno, rinfo, ymodem, opened, trychar>>
    BY <1>4, <1>1 DEF REot
  <2>4. fil \in {"uninit", "wild", "open", "closed"}
    BY DEF RecvOK
  <2> QED BY <2>2, <2>3, <2>4, <1>1, NothingStored DEF RecvType
<1>5. CASE RPacket
  <2> DEFINE p == Head(s2r)
  <2>1. s2r # <<>> /\ p.t = "PKT" /\ p \in Items
    BY <1>5, Writes DEF RPacket, LineOK
  <2>2. p.num \in 1 .. Len(File) /\ p.data.blk = p.num /\ p.num # 0
    <3>1. p.num \in 1 .. Len(File) /\ p.data.blk = p.num
      BY <2>1, ItemFacts
    <3> QED BY <3>1, FileAssumption
  <2>3. Reject(p) \/ Data(p) \/ DataFails(p) \/ Duplicate(p)
    BY <2>2, <1>5 DEF RPacket, Metadata
  <2> HIDE DEF p
  <2>4. CASE Data(p)
    <3>1. p.num = packetno
      BY <2>4 DEF Data
    <3> QED BY <2>2, <2>4, <3>1, StoreNext
  <2>5. CASE Reject(p) \/ DataFails(p) \/ Duplicate(p)
    <3>1. UNCHANGED <<packetno, rinfo, ymodem, rfile>> /\ trychar' = "none"
      BY <2>5 DEF Reject, DataFails, Duplicate
    <3> QED BY <3>1, NothingStored DEF rfile
  <2> QED BY <2>3, <2>4, <2>5
<1> QED BY <1>3, <1>4, <1>5 DEF RStep

\* Nothing is on the line and nothing in the file at first.
LEMMA InitPrefix == Init => Prefix
<1> SUFFICES ASSUME Init, ~setting.batch PROVE LineOK /\ SendOK /\ RecvOK
  BY DEF Prefix, Init, LineInit
<1> USE DEF Init, LineInit, RInit, TInit, YInit
<1>1. setting.disk \in Nat
  BY SettingsAssumption
<1>2. Len(File) \in Nat
  BY FileAssumption
<1>3. LineOK
  BY EmptySeq DEF LineOK
<1>4. SendOK
  <2>1. tcrc \in BOOLEAN /\ ypc = "done" /\ tpc = "sync"
    OBVIOUS
  <2>2. fptr = 0 /\ tpacketno = 1
    OBVIOUS
  <2> QED BY <2>1, <2>2, <1>2 DEF SendOK
<1>5. RecvType /\ Taken = 0
  BY <1>1, ModAssumption, NamesAssumption, EmptySeq DEF RecvType, Taken
<1>6. Received = <<>> /\ Len(Received) = 0
  BY NamesAssumption, EmptySeq DEF Received, TheFile
<1> QED BY <1>1, <1>2, <1>3, <1>4, <1>5, <1>6 DEF RecvOK

\* Every step of either side, of a timer and of the noise keeps it.
LEMMA NextPrefix == Len(File) < Mod /\ Prefix /\ [Next]_vars => Prefix'
<1> SUFFICES ASSUME Len(File) < Mod, Prefix, [Next]_vars, ~setting.batch
             PROVE  LineOK' /\ SendOK' /\ RecvOK'
  <2>1. [Next]_vars => UNCHANGED setting
    BY DEF Next, Receiver, Sender, ReceiverTimeout, SenderTimeout, Noise, Fault, Terminated,
       vars, line
  <2> QED BY <2>1 DEF Prefix
<1>1. LineOK /\ SendOK /\ RecvOK
  BY DEF Prefix
<1>2. setting.disk \in Nat /\ setting \in Settings
  BY SettingsAssumption DEF Prefix
<1>3. ASSUME UNCHANGED <<tvars, yvars>> PROVE SendOK'
  BY <1>1, <1>3 DEF SendOK, tvars, yvars
<1>4. ASSUME UNCHANGED <<rvars, setting>> PROVE RecvOK'
  BY <1>1, <1>4 DEF RecvOK, RecvType, Received, Taken, rvars, rinfo, rfile
<1>5. CASE Receiver \/ ReceiverTimeout
  <2>1. (RStep \/ RTimeout) /\ UNCHANGED <<setting, tvars, yvars>>
    BY <1>5 DEF Receiver, ReceiverTimeout
  <2>2. s2r' \in Seq(Items) /\ r2s' \in Seq(Control)
    BY <2>1, <1>1, ItemFacts, ReceiverLine DEF LineOK, RecvOK, RecvType
  <2> QED BY <2>1, <2>2, <1>1, <1>2, <1>3, ReceiverStep DEF LineOK
<1>6. CASE Sender \/ SenderTimeout
  <2>1. ~YStep /\ ~YTimeout
    BY <1>1 DEF SendOK, YStep, YTimeout, YSend, YStart, YAcked, YRefused
  <2>2. (TStep \/ TTimeout) /\ UNCHANGED <<yvars, rvars, setting>>
    BY <2>1, <1>6 DEF Sender, SenderTimeout
  <2> QED BY <2>2, <1>1, <1>4, SenderStep
<1>7. CASE Noise
  <2>1. Fault /\ UNCHANGED <<setting, rvars, tvars, yvars>>
    BY <1>7 DEF Noise, Fault
  <2>2. s2r' \in Seq(Items) /\ r2s' \in Seq(Control)
    BY <2>1, <1>1, ItemFacts, FaultKeeps DEF LineOK
  <2> QED BY <2>1, <2>2, <1>3, <1>4 DEF LineOK
<1>8. CASE UNCHANGED vars
  BY <1>8, <1>1, <1>3, <1>4 DEF vars, line, LineOK
<1> QED BY <1>5, <1>6, <1>7, <1>8 DEF Next, Terminated

\* For any number of faults, whatever the timers do, and for a card of any size.
THEOREM PrefixInvariant == ASSUME Len(File) < Mod PROVE Spec => []Prefix
<1> QED BY InitPrefix, NextPrefix, PTL DEF Spec

\* What is in the file is the beginning of what was sent.
THEOREM FilePrefix == ASSUME Len(File) < Mod PROVE Spec => []FileIsPrefix
<1>1. Prefix => FileIsPrefix
  <2> SUFFICES ASSUME ~setting.batch, RecvOK
               PROVE  /\ Len(Received) <= Len(File)
                      /\ Received = SubSeq(Blocks, 1, Len(Received))
    BY DEF Prefix, FileIsPrefix
  <2> DEFINE n == Len(Received)
  <2>1. Received \in Seq(Nat) /\ n \in Nat /\ Len(File) \in Nat
    BY NamesAssumption, FileAssumption, LenProperties DEF RecvOK, RecvType, Received, TheFile
  <2>2. n <= Len(File)
    BY <2>1, ModAssumption DEF RecvOK, RecvType, Taken
  <2>3. /\ SubSeq(Blocks, 1, n) \in Seq(Nat)
        /\ Len(SubSeq(Blocks, 1, n)) = n
        /\ \A k \in 1 .. n : SubSeq(Blocks, 1, n)[k] = k
    <3>1. \A k \in 1 .. n : Blocks[k] = k
      BY <2>1, <2>2 DEF Blocks
    <3> HIDE DEF n
    <3>2. /\ SubSeq(Blocks, 1, n) \in Seq(Nat)
          /\ Len(SubSeq(Blocks, 1, n)) = IF 1 <= n THEN n - 1 + 1 ELSE 0
          /\ \A k \in 1 .. n - 1 + 1 : SubSeq(Blocks, 1, n)[k] = Blocks[1 + k - 1]
      <4>1. 1 \in Int /\ n \in Int /\ \A k \in 1 .. n : Blocks[k] \in Nat
        BY <2>1, <3>1
      <4> QED BY <4>1, SubSeqProperties
    <3> QED BY <2>1, <3>1, <3>2
  <2>4. \A k \in 1 .. n : Received[k] = k
    BY DEF RecvOK
  <2>5. Received = SubSeq(Blocks, 1, n)
    BY <2>1, <2>3, <2>4, SeqEqual
  <2> QED BY <2>2, <2>5
<1> QED BY <1>1, PrefixInvariant, PTL

\* No block of a file is taken for the name of one, in files of fewer blocks than
\* there are packet numbers.
THEOREM NoFalseMetadata ==
  ASSUME Len(File) < Mod, TheFile # "GARBAGE" PROVE Spec => []MetadataIsMetadata
<1>1. Prefix => MetadataIsMetadata
  BY DEF Prefix, RecvOK, MetadataIsMetadata
<1> QED BY <1>1, PrefixInvariant, PTL
-----------------------------------------------------------------------------
(* One file: every ACK is accounted for. *)

TLive == tpc \notin {"flush", "done"}

\* The sender may still report success, or has.
Counts == TLive \/ tres = "ok"

\* The ACKs that such a sender has taken, and the one that ends the session.
Heard == IF tpc \in {"xmit", "wait", "wait_can"} THEN fptr - 1
         ELSE IF TLive THEN fptr ELSE fptr + 1
Told == IF rpc = "done" /\ after = "ack" THEN 1 ELSE 0

\* Packets up to a number, and without the CANs of a sender that gave up.
ItemsTo(n) == Bytes \cup {p \in Packets : p.num \in 1 .. n /\ p.data.blk = p.num}
Plain == {i \in Items : i.t # "CAN"}

\* An ACK that was taken, or is on the line, was given for a packet that is stored, or
\* for the EOT, or again.
Account ==
    /\ surplus \in Int
    /\ s2r \in Seq(ItemsTo(fptr)) /\ Taken <= fptr
    /\ TLive => tres = "none"
    /\ tpc \in {"eot", "eot_wait"} \/ tres = "ok" => setting.fails \/ fptr = Len(File)
    /\ fil = "closed" => TheFile \in closed
    /\ Counts => /\ s2r \in Seq(Plain) /\ rpc # "can"
                 /\ Heard + Acks(r2s) <= Taken + surplus + Told
                 /\ rpc \in {"flush", "done"} /\ after = "ack" => packetno = 1 \/ fil = "closed"

Accounted == IF setting.batch THEN tpc = "done" /\ tres = "none" ELSE Account

\* A channel with one item at most.
LEMMA OneItem ==
  ASSUME NEW S
  PROVE  /\ <<>> \in Seq(S) /\ Len(<<>>) = 0
         /\ \A s \in Seq(S) : s # <<>> => /\ Len(s) >= 1 /\ Head(s) = s[1]
                                          /\ Len(s) <= 1 => Tail(s) = <<>>
         /\ \A e \in S : LET n == Append(<<>>, e)
                          IN  n # <<>> /\ Len(n) = 1 /\ Head(n) = e
<1>1. <<>> \in Seq(S) /\ Len(<<>>) = 0
  BY EmptySeq
<1>2. ASSUME NEW s \in Seq(S), s # <<>>
      PROVE  /\ Len(s) >= 1 /\ Head(s) = s[1]
             /\ Len(s) <= 1 => Tail(s) = <<>>
  <2>1. Len(s) \in Nat \ {0}
    BY <1>2, EmptySeq
  <2>2. Tail(s) \in Seq(S) /\ Len(Tail(s)) = Len(s) - 1
    BY <1>2, HeadTailProperties
  <2>3. Len(s) <= 1 => Tail(s) = <<>>
    BY <2>1, <2>2, EmptySeq
  <2> QED BY <2>1, <2>3, <1>2
<1>3. ASSUME NEW e \in S
      PROVE  LET n == Append(<<>>, e) IN n # <<>> /\ Len(n) = 1 /\ Head(n) = e
  BY <1>1, <1>3, AppendProperties, HeadTailAppend
<1> QED BY <1>1, <1>2, <1>3

\* How many ACKs there are when one is put behind the others, or the first one taken.
LEMMA AckCounts ==
  ASSUME NEW q \in Seq(Control)
  PROVE  /\ Acks(q) \in Nat
         /\ \A b \in Control : Acks(Append(q, b)) = Acks(q) + (IF b = "ACK" THEN 1 ELSE 0)
         /\ q # <<>> => Acks(q) = Acks(Tail(q)) + (IF Head(q) = "ACK" THEN 1 ELSE 0)
<1> DEFINE At(s) == {k \in DOMAIN s : s[k] = "ACK"}
<1>1. ASSUME NEW s \in Seq(Control)
      PROVE  /\ At(s) \subseteq 1 .. Len(s) /\ IsFiniteSet(At(s)) /\ Cardinality(At(s)) \in Nat
             /\ Len(s) \in Nat /\ \A k : k \in At(s) <=> k \in 1 .. Len(s) /\ s[k] = "ACK"
  <2>1. Len(s) \in Nat /\ DOMAIN s = 1 .. Len(s)
    BY LenProperties
  <2>2. IsFiniteSet(1 .. Len(s)) /\ At(s) \in SUBSET (1 .. Len(s))
    BY <2>1, FS_Interval
  <2>3. IsFiniteSet(At(s))
    BY <2>2, FS_Subset
  <2> QED BY <2>1, <2>2, <2>3, FS_CardinalityType
<1>2. ASSUME NEW b \in Control
      PROVE  Acks(Append(q, b)) = Acks(q) + (IF b = "ACK" THEN 1 ELSE 0)
  <2>1. PICK n \in Seq(Control) : n = Append(q, b)
    BY Writes
  <2>2. /\ Len(n) = Len(q) + 1 /\ \A k \in 1 .. Len(q) : n[k] = q[k]
        /\ n[Len(q) + 1] = b
    BY <2>1, AppendProperties
  <2>3. At(n) = IF b = "ACK" THEN At(q) \cup {Len(q) + 1} ELSE At(q)
    <3> HIDE DEF At
    <3>1. \A k : k \in At(n) <=> (k \in 1 .. Len(n) /\ n[k] = "ACK")
      BY <1>1
    <3>2. \A k : k \in At(q) <=> (k \in 1 .. Len(q) /\ q[k] = "ACK")
      BY <1>1
    <3>3. Len(q) \in Nat
      BY <1>1
    <3>4. \A k : k \in 1 .. Len(n) <=> k \in 1 .. Len(q) \/ k = Len(q) + 1
      BY <2>2, <3>3
    <3>5. Len(q) + 1 \in 1 .. Len(n) /\ Len(q) + 1 \notin 1 .. Len(q)
      BY <2>2, <3>3
    <3>6. CASE b = "ACK"
      <4>1. \A k : k \in At(n) <=> k \in At(q) \/ k = Len(q) + 1
        BY <2>2, <3>1, <3>2, <3>4, <3>5, <3>6, Zenon
      <4> QED BY <4>1, <3>6
    <3>7. CASE b # "ACK"
      <4>1. \A k : k \in At(n) <=> k \in At(q)
        BY <2>2, <3>1, <3>2, <3>4, <3>5, <3>7, Zenon
      <4> QED BY <4>1, <3>7
    <3> QED BY <3>6, <3>7
  <2>4. Len(q) + 1 \notin At(q) /\ IsFiniteSet(At(q))
    BY <1>1
  <2>5. Cardinality(At(n)) = Cardinality(At(q)) + (IF b = "ACK" THEN 1 ELSE 0)
    <3> HIDE DEF At
    <3>1. CASE b = "ACK"
      BY <3>1, <2>3, <2>4, FS_AddElement
    <3>2. CASE b # "ACK"
      BY <3>2, <2>3, <1>1
    <3> QED BY <3>1, <3>2
  <2> QED BY <2>1, <2>5 DEF Acks
<1>3. ASSUME q # <<>>
      PROVE  Acks(q) = Acks(Tail(q)) + (IF Head(q) = "ACK" THEN 1 ELSE 0)
  <2>1. PICK n \in Seq(Control) : n = Tail(q)
    BY <1>3, Writes
  <2>2. /\ Len(n) = Len(q) - 1 /\ \A k \in 1 .. Len(n) : n[k] = q[k + 1]
        /\ Head(q) = q[1] /\ Len(q) >= 1
    <3>1. Len(Tail(q)) = Len(q) - 1 /\ \A k \in 1 .. Len(Tail(q)) : Tail(q)[k] = q[k + 1]
      BY <1>3, HeadTailProperties
    <3>2. Head(q) = q[1] /\ Len(q) >= 1
      BY <1>3, OneItem
    <3> QED BY <3>1, <3>2, <2>1
  <2> DEFINE Rest == At(q) \ {1}
  <2>3. IsFiniteSet(Rest) /\ Cardinality(At(q)) = Cardinality(Rest) + (IF Head(q) = "ACK" THEN 1 ELSE 0)
    <3>1. 1 \in At(q) <=> Head(q) = "ACK"
      BY <1>1, <2>2
    <3>2. IsFiniteSet(At(q)) /\ Cardinality(At(q)) \in Nat
      BY <1>1
    <3> HIDE DEF At
    <3>3. /\ IsFiniteSet(Rest)
          /\ Cardinality(Rest) = IF 1 \in At(q) THEN Cardinality(At(q)) - 1 ELSE Cardinality(At(q))
      BY <3>2, FS_RemoveElement
    <3> QED BY <3>1, <3>2, <3>3
  <2>4. Cardinality(Rest) = Cardinality(At(n))
    <3>1. \A k : k \in At(q) <=> (k \in 1 .. Len(q) /\ q[k] = "ACK")
      BY <1>1
    <3>2. \A k : k \in At(n) <=> (k \in 1 .. Len(n) /\ n[k] = "ACK")
      BY <1>1
    <3>3. IsFiniteSet(At(n)) /\ Len(q) \in Nat
      BY <1>1
    <3> HIDE DEF At
    <3> DEFINE f == [k \in At(n) |-> k + 1]
    <3>4. ASSUME NEW k \in At(n) PROVE k \in Int /\ k + 1 \in Rest
      <4>1. k \in 1 .. Len(n) /\ n[k] = "ACK"
        BY <3>2
      <4>2. k \in Int /\ k + 1 \in 1 .. Len(q) /\ k + 1 # 1
        BY <2>2, <3>3, <4>1
      <4>3. q[k + 1] = "ACK"
        BY <2>2, <4>1, Zenon
      <4> QED BY <3>1, <4>2, <4>3
    <3>5. ASSUME NEW j \in Rest PROVE j \in Int /\ j - 1 \in At(n) /\ (j - 1) + 1 = j
      <4>1. j \in 1 .. Len(q) /\ q[j] = "ACK" /\ j # 1
        BY <3>1
      <4>2. j \in Int /\ j - 1 \in 1 .. Len(n) /\ (j - 1) + 1 = j
        BY <2>2, <3>3, <4>1
      <4>3. n[j - 1] = "ACK"
        BY <2>2, <4>1, <4>2, Zenon
      <4> QED BY <3>2, <4>2, <4>3
    <3>6. f \in [At(n) -> Rest] /\ \A k \in At(n) : f[k] = k + 1
      BY <3>4
    <3> HIDE DEF f
    <3>7. \A j, k \in At(n) : f[j] = f[k] => j = k
      BY <3>4, <3>6
    <3>8. \A j \in Rest : \E k \in At(n) : f[k] = j
      BY <3>5, <3>6
    <3>9. f \in Bijection(At(n), Rest)
      <4> HIDE DEF Rest
      <4>1. f \in Injection(At(n), Rest)
        BY <3>6, <3>7, Zenon DEF Injection, IsInjective
      <4>2. f \in Surjection(At(n), Rest)
        BY <3>6, <3>8, Zenon DEF Surjection
      <4> QED BY <4>1, <4>2, Zenon DEF Bijection
    <3> QED BY <3>3, <3>9, FS_Bijection DEF ExistsBijection
  <2> QED BY <2>1, <2>3, <2>4 DEF Acks
<1> QED BY <1>1, <1>2, <1>3 DEF Acks

\* The kinds of items, as the line keeps them.
LEMMA KindFacts ==
  /\ \A n \in Nat : /\ \A b \in {"JUNK", "EOT", "CAN", "ACK"} : Byte(b) \in ItemsTo(n)
                    /\ \A p \in ItemsTo(n) : p.t = "PKT" =>
                          /\ p.num \in 1 .. n /\ p.data.blk = p.num
                          /\ [p EXCEPT !.ok = FALSE] \in ItemsTo(n)
                    /\ \A m \in Nat : m <= n => ItemsTo(m) \subseteq ItemsTo(n)
                    /\ n <= Len(File) => ItemsTo(n) \subseteq Items
  /\ Byte("JUNK") \in Plain /\ Byte("EOT") \in Plain
  /\ \A p \in Plain : p.t = "PKT" => [p EXCEPT !.ok = FALSE] \in Plain
  /\ \A p \in Items : p.t = "PKT" => p \in Plain
<1>1. ASSUME NEW n \in Nat
      PROVE  /\ \A b \in {"JUNK", "EOT", "CAN", "ACK"} : Byte(b) \in ItemsTo(n)
             /\ \A p \in ItemsTo(n) : p.t = "PKT" =>
                   /\ p.num \in 1 .. n /\ p.data.blk = p.num
                   /\ [p EXCEPT !.ok = FALSE] \in ItemsTo(n)
             /\ \A m \in Nat : m <= n => ItemsTo(m) \subseteq ItemsTo(n)
             /\ n <= Len(File) => ItemsTo(n) \subseteq Items
  <2>1. \A b \in {"JUNK", "EOT", "CAN", "ACK"} : Byte(b) \in ItemsTo(n)
    BY DEF ItemsTo, Bytes, Byte
  <2>2. ASSUME NEW p \in ItemsTo(n), p.t = "PKT"
        PROVE  /\ p.num \in 1 .. n /\ p.data.blk = p.num
               /\ [p EXCEPT !.ok = FALSE] \in ItemsTo(n)
    <3>1. p \notin Bytes
      BY <2>2 DEF Bytes
    <3>2. p \in Packets /\ p.num \in 1 .. n /\ p.data.blk = p.num
      BY <3>1 DEF ItemsTo
    <3>3. /\ [p EXCEPT !.ok = FALSE] \in Packets
          /\ [p EXCEPT !.ok = FALSE].num = p.num
          /\ [p EXCEPT !.ok = FALSE].data = p.data
      BY <3>2 DEF Packets
    <3> QED BY <3>2, <3>3 DEF ItemsTo
  <2>3. ASSUME NEW m \in Nat, m <= n PROVE ItemsTo(m) \subseteq ItemsTo(n)
    <3>1. 1 .. m \subseteq 1 .. n
      BY <2>3
    <3> QED BY <3>1 DEF ItemsTo
  <2>4. ASSUME n <= Len(File) PROVE ItemsTo(n) \subseteq Items
    <3>1. 1 .. n \subseteq 1 .. Len(File)
      BY <2>4, FileAssumption
    <3> QED BY <3>1 DEF ItemsTo, Items
  <2> QED BY <2>1, <2>2, <2>3, <2>4
<1>2. Byte("JUNK") \in Plain /\ Byte("EOT") \in Plain
  BY ItemFacts DEF Plain, Byte
<1>3. ASSUME NEW p \in Plain, p.t = "PKT" PROVE [p EXCEPT !.ok = FALSE] \in Plain
  <2>1. p \in Packets /\ [p EXCEPT !.ok = FALSE] \in Items
    BY <1>3, ItemFacts DEF Plain
  <2>2. [p EXCEPT !.ok = FALSE].t = "PKT"
    BY <2>1, <1>3 DEF Packets
  <2> QED BY <2>1, <2>2 DEF Plain
<1> QED BY <1>1, <1>2, <1>3 DEF Plain

\* What a step of xm_receive says, against what it stores and what it counts.
Says == \/ /\ \/ r2s' = r2s \/ Say("C") \/ Say("NAK")
              \/ r2s' = r2s \o <<"CAN", "CAN", "CAN">>
           /\ Taken' = Taken /\ surplus' = surplus
        \/ Say("ACK") /\ Taken' = Taken + 1 /\ surplus' = surplus
        \/ Say("ACK") /\ Taken' = Taken /\ surplus' = surplus + 1
        \/ /\ Say("ACK") /\ Taken' = Taken /\ surplus' = surplus
           /\ rpc' = "done" /\ after' = "ack"

LEMMA ReceiverAnswers ==
  ASSUME Len(File) < Mod, LineOK, RecvOK, Account, fptr \in Nat, RStep \/ RTimeout,
         surplus' = IF AckedAgain THEN surplus + 1 ELSE surplus
  PROVE  /\ rpc # "done" /\ Says /\ Taken' <= fptr
         /\ fil' = "closed" => TheFile \in closed'
         /\ Counts => /\ rpc' # "can"
                      /\ rpc' \in {"flush", "done"} /\ after' = "ack" =>
                            packetno' = 1 \/ fil' = "closed"
<1>1. /\ trychar \in {"C", "NAK", "none"} /\ ymodem = 0 /\ size = 0 /\ RecvType
      /\ packetno = 1 => fil \in {"uninit", "wild"}
      /\ packetno # 1 => opened = TheFile /\ fil \in {"open", "closed"}
      /\ Taken \in Nat /\ Taken <= fptr
      /\ fil = "closed" => TheFile \in closed
  BY ModAssumption DEF RecvOK, RecvType, Account, Taken
<1>2. packetno' = packetno => Taken' = Taken
  BY DEF Taken
<1>3. Counts => rpc # "can" /\ \A i \in 1 .. Len(s2r) : s2r[i].t # "CAN"
  BY ElementOfSeq DEF Account, Plain
<1>4. Counts /\ s2r # <<>> => Head(s2r).t # "CAN"
  <2>1. Counts /\ s2r # <<>> => Head(s2r) \in Plain
    BY Writes DEF Account
  <2> QED BY <2>1 DEF Plain
<1>5. AckedAgain => rpc = "await" /\ s2r # <<>> /\ Head(s2r).t = "PKT"
  BY DEF AckedAgain
<1>6. NextTry => \/ rpc' = "send"
                 \/ rpc' = "flush" /\ after' = "cancel"
  BY DEF NextTry, FlushThen
<1>7. Counts /\ rpc = "flush" /\ after = "ack" => packetno = 1 \/ fil = "closed"
  BY DEF Account
<1>8. CASE SendTry
  <2>1. /\ rpc = "send" /\ rpc' = "await" /\ UNCHANGED <<packetno, fil, closed>>
        /\ r2s' = r2s \/ Say("C") \/ Say("NAK")
    BY <1>1, <1>8 DEF SendTry, rfile
  <2> QED BY <2>1, <1>1, <1>2, <1>5 DEF Says
<1>9. CASE FlushSome
  <2>1. rpc = "flush" /\ UNCHANGED <<r2s, rpc, after, packetno, fil, closed>>
    BY <1>9 DEF FlushSome, rvars, rfile
  <2> QED BY <2>1, <1>1, <1>2, <1>5, <1>7 DEF Says
<1>10. CASE FlushEnd
  <2>1. /\ rpc = "flush" /\ UNCHANGED <<after, packetno, fil, closed>> /\ rpc' # "can"
        /\ \/ r2s' = r2s \/ Say("NAK")
           \/ Say("ACK") /\ rpc' = "done" /\ after = "ack"
           \/ r2s' = r2s \o <<"CAN", "CAN", "CAN">>
    BY <1>10 DEF FlushEnd, rfile
  <2> QED BY <2>1, <1>1, <1>2, <1>5, <1>7 DEF Says
<1>11. CASE RJunk \/ RTimeout
  <2>1. /\ rpc \in {"await", "junk", "can"} /\ UNCHANGED <<r2s, packetno, fil, closed>>
        /\ \/ rpc' = "send"
           \/ rpc' = "flush" /\ after' \in {"junk", "cancel"}
    BY <1>6, <1>11 DEF RJunk, RTimeout, FlushThen, rfile, line
  <2>2. ~AckedAgain
    BY <1>11 DEF RJunk, RTimeout, AckedAgain
  <2> QED BY <2>1, <2>2, <1>1, <1>2 DEF Says
<1>12. CASE RCan /\ UNCHANGED <<packetno, rfile>>
  <2>1. /\ rpc \in {"await", "can"} /\ UNCHANGED <<r2s, packetno, fil, closed>>
        /\ s2r # <<>> /\ (rpc = "await" => Head(s2r).t = "CAN")
    BY <1>12 DEF RCan, rfile
  <2>2. ~AckedAgain /\ ~Counts
    BY <2>1, <1>3, <1>4 DEF AckedAgain
  <2> QED BY <2>1, <2>2, <1>1, <1>2 DEF Says
<1>13. CASE REot
  <2>1. /\ rpc = "await" /\ Head(s2r).t = "EOT" /\ CloseFile /\ UNCHANGED <<r2s, packetno>>
        /\ rpc' = "flush"
    BY <1>1, <1>13 DEF REot, FlushThen
  <2>2. /\ fil \in {"uninit", "wild"} => fil' \in {"uninit", "wild"}
        /\ fil = "closed" => fil' = "closed" /\ closed' = closed
        /\ fil = "open" => fil' = "closed" /\ closed' = closed \cup {opened}
    BY <2>1, <1>1, CloseUnsized
  <2>3. ~AckedAgain
    BY <2>1 DEF AckedAgain
  <2> QED BY <2>1, <2>2, <2>3, <1>1, <1>2 DEF Says
<1>14. CASE RPacket
  <2> DEFINE p == Head(s2r)
  <2>1. rpc = "await" /\ s2r # <<>> /\ p.t = "PKT" /\ p \in Items /\ p \in ItemsTo(fptr)
    BY <1>14, Writes DEF RPacket, LineOK, Account
  <2>2. p.num # 0 /\ p.num <= fptr
    <3>1. p.num \in 1 .. fptr
      BY <2>1, KindFacts
    <3> QED BY <3>1
  <2>3. Reject(p) \/ Data(p) \/ DataFails(p) \/ Duplicate(p)
    BY <2>2, <1>14 DEF RPacket, Metadata
  <2>4. AckedAgain <=> Duplicate(p) /\ rpc' = "send"
    BY <2>1 DEF AckedAgain
  <2> HIDE DEF p
  <2>5. CASE Reject(p) \/ DataFails(p)
    <3>1. /\ UNCHANGED <<r2s, packetno, fil, closed>>
          /\ rpc' = "flush" /\ after' \in {"reject", "cancel"}
      BY <2>5 DEF Reject, DataFails, FlushThen, rfile
    <3> QED BY <3>1, <2>1, <2>4, <1>1, <1>2 DEF Says
  <2>6. CASE Duplicate(p)
    <3>1. /\ UNCHANGED <<packetno, fil, closed>>
          /\ \/ Say("ACK") /\ rpc' = "send"
             \/ UNCHANGED r2s /\ rpc' = "flush" /\ after' = "cancel"
      BY <2>6 DEF Duplicate, Answer, FlushThen, rfile
    <3> QED BY <3>1, <2>1, <2>4, <2>6, <1>1, <1>2 DEF Says
  <2>7. CASE Data(p)
    <3>1. p.num = packetno /\ Say("ACK") /\ rpc' = "send" /\ packetno' = (packetno + 1) % Mod
      BY <2>7 DEF Data, Answer
    <3>2. packetno \in 0 .. Mod - 1 /\ packetno # 0
      BY <3>1, <2>2, <1>1 DEF RecvType
    <3>3. Taken = packetno - 1 /\ Taken' = packetno
      <4>1. packetno' = IF packetno = Mod - 1 THEN 0 ELSE packetno + 1
        BY <3>1, <3>2, NextNumber
      <4> QED BY <4>1, <3>2, ModAssumption DEF Taken
    <3>4. ~AckedAgain
      BY <3>1, <2>4 DEF Duplicate
    <3>5. fil' = "open" \/ (fil' = fil /\ packetno # 1 /\ closed' = closed)
      BY <2>7 DEF Data, Store
    <3>6. Taken' = Taken + 1
      BY <3>2, <3>3
    <3> QED BY <3>1, <3>3, <3>4, <3>5, <3>6, <2>1, <2>2, <1>1 DEF Says
  <2> QED BY <2>3, <2>5, <2>6, <2>7
<1> QED BY <1>8, <1>9, <1>10, <1>11, <1>12, <1>13, <1>14 DEF RStep

\* Three CANs are no ACKs.
LEMMA ThreeCans ==
  ASSUME NEW q \in Seq(Control)
  PROVE  Acks(q \o <<"CAN", "CAN", "CAN">>) = Acks(q)
<1> DEFINE t == <<"CAN", "CAN", "CAN">>
           n == q \o t
<1>1. t \in Seq(Control) /\ Len(t) = 3 /\ \A k \in 1 .. 3 : t[k] = "CAN"
  <2>1. /\ t \in Seq(Control) /\ Len(t) = 3
        /\ t[1] = "CAN" /\ t[2] = "CAN" /\ t[3] = "CAN"
    BY DEF Control
  <2> HIDE DEF t
  <2>2. ASSUME NEW k \in 1 .. 3 PROVE t[k] = "CAN"
    <3>1. k = 1 \/ k = 2 \/ k = 3
      OBVIOUS
    <3> QED BY <3>1, <2>1
  <2> QED BY <2>1, <2>2
<1> HIDE DEF t
<1>2. /\ n \in Seq(Control) /\ Len(n) = Len(q) + Len(t)
      /\ \A k \in 1 .. Len(q) + Len(t) : n[k] = IF k <= Len(q) THEN q[k] ELSE t[k - Len(q)]
  BY <1>1, ConcatProperties
<1> HIDE DEF n
<1>3. DOMAIN n = 1 .. Len(n) /\ DOMAIN q = 1 .. Len(q) /\ Len(q) \in Nat
  BY <1>2, LenProperties
<1>4. ASSUME NEW k
      PROVE  k \in DOMAIN n /\ n[k] = "ACK" <=> k \in DOMAIN q /\ q[k] = "ACK"
  <2>1. CASE k \in 1 .. Len(q)
    BY <2>1, <1>1, <1>2, <1>3
  <2>2. CASE k \notin 1 .. Len(q)
    <3>1. ASSUME k \in 1 .. Len(n) PROVE n[k] = "CAN"
      <4>1. k - Len(q) \in 1 .. 3 /\ ~(k <= Len(q))
        BY <3>1, <2>2, <1>1, <1>2, <1>3
      <4> QED BY <4>1, <3>1, <1>1, <1>2
    <3> QED BY <3>1, <2>2, <1>3
  <2> QED BY <2>1, <2>2
<1>5. {k \in DOMAIN n : n[k] = "ACK"} = {k \in DOMAIN q : q[k] = "ACK"}
  BY <1>4
<1> QED BY <1>5 DEF Acks, n, t

\* A sequence over a larger set.
LEMMA SeqOfMore ==
  ASSUME NEW A, NEW B, A \subseteq B, NEW s \in Seq(A) PROVE s \in Seq(B)
<1>1. s \in [1 .. Len(s) -> A] /\ Len(s) \in Nat
  BY LenProperties, SeqDef
<1>2. s \in [1 .. Len(s) -> B]
  BY <1>1
<1> QED BY <1>1, <1>2, SeqDef

\* A step of xm_receive.
LEMMA ReceiverAccounts ==
  ASSUME Len(File) < Mod, LineOK, SendOK, RecvOK, Account, RStep \/ RTimeout,
         surplus' = IF AckedAgain THEN surplus + 1 ELSE surplus, UNCHANGED <<setting, tvars>>
  PROVE  Account'
<1>1. /\ tpc' = tpc /\ tres' = tres /\ fptr' = fptr /\ TLive' = TLive /\ Counts' = Counts
      /\ Heard' = Heard
  BY DEF tvars, TLive, Counts, Heard
<1>2. fptr \in Nat /\ surplus \in Int /\ Taken \in Nat /\ r2s \in Seq(Control) /\ Heard \in Int
      /\ trychar \in {"C", "NAK", "none"} /\ s2r \in Seq(ItemsTo(fptr))
  BY FileAssumption, ModAssumption DEF SendOK, Account, RecvOK, RecvType, Taken, LineOK, Heard
<1>3. /\ rpc # "done" /\ Says /\ Taken' <= fptr
      /\ fil' = "closed" => TheFile \in closed'
      /\ Counts => /\ rpc' # "can"
                   /\ rpc' \in {"flush", "done"} /\ after' = "ack" =>
                         packetno' = 1 \/ fil' = "closed"
  BY <1>2, ReceiverAnswers
<1>4. s2r' \in Seq(ItemsTo(fptr))
  <2>1. Byte("JUNK") \in ItemsTo(fptr)
    BY <1>2, KindFacts
  <2> QED BY <2>1, <1>2, ReceiverLine
<1>5. Counts => s2r' \in Seq(Plain)
  <2>1. Byte("JUNK") \in Plain /\ (Counts => s2r \in Seq(Plain))
    BY KindFacts DEF Account
  <2> QED BY <2>1, <1>2, ReceiverLine
<1>6. Told = 0 /\ Told' \in {0, 1} /\ (rpc' = "done" /\ after' = "ack" => Told' = 1)
  BY <1>3 DEF Told
<1>7. /\ Acks(r2s) \in Nat
      /\ r2s' = r2s => Acks(r2s') = Acks(r2s)
      /\ Say("ACK") => Acks(r2s') = Acks(r2s) + 1
      /\ Say("C") => Acks(r2s') = Acks(r2s)
      /\ Say("NAK") => Acks(r2s') = Acks(r2s)
      /\ r2s' = r2s \o <<"CAN", "CAN", "CAN">> => Acks(r2s') = Acks(r2s)
  <2>1. /\ Acks(r2s) \in Nat
        /\ \A b \in Control : Acks(Append(r2s, b)) = Acks(r2s) + (IF b = "ACK" THEN 1 ELSE 0)
    BY <1>2, AckCounts
  <2>2. /\ Acks(Append(r2s, "ACK")) = Acks(r2s) + 1
        /\ Acks(Append(r2s, "C")) = Acks(r2s) + 0 /\ Acks(Append(r2s, "NAK")) = Acks(r2s) + 0
    <3>1. "ACK" \in Control /\ "C" \in Control /\ "NAK" \in Control
      BY DEF Control
    <3>2. "C" # "ACK" /\ "NAK" # "ACK"
      OBVIOUS
    <3> QED BY <2>1, <3>1, <3>2
  <2>3. Acks(r2s) + 0 = Acks(r2s)
    BY <2>1
  <2>4. Acks(r2s \o <<"CAN", "CAN", "CAN">>) = Acks(r2s)
    BY <1>2, ThreeCans
  <2> QED BY <2>1, <2>2, <2>3, <2>4, Zenon DEF Say
<1>8. surplus' \in Int /\ (Counts => Heard + Acks(r2s') <= Taken' + surplus' + Told')
  <2>1. Counts => Heard + Acks(r2s) <= Taken + surplus
    <3>1. Counts => Heard + Acks(r2s) <= Taken + surplus + Told
      BY DEF Account
    <3>2. Told = 0 /\ Taken \in Nat /\ surplus \in Int
      BY <1>2, <1>6
    <3> QED BY <3>1, <3>2
  <2>2. Acks(r2s) \in Nat /\ Heard \in Int /\ Taken \in Nat /\ surplus \in Int /\ Told' \in {0, 1}
    BY <1>2, <1>6, <1>7
  <2>3. CASE /\ r2s' = r2s \/ Say("C") \/ Say("NAK") \/ r2s' = r2s \o <<"CAN", "CAN", "CAN">>
             /\ Taken' = Taken /\ surplus' = surplus
    <3>1. Acks(r2s') = Acks(r2s)
      BY <2>3, <1>7, Zenon
    <3>2. Taken' = Taken /\ surplus' = surplus
      BY <2>3
    <3> QED BY <3>1, <3>2, <2>1, <2>2
  <2>4. CASE /\ Say("ACK")
             /\ \/ Taken' = Taken + 1 /\ surplus' = surplus
                \/ Taken' = Taken /\ surplus' = surplus + 1
                \/ Taken' = Taken /\ surplus' = surplus /\ Told' = 1
    <3>1. Acks(r2s') = Acks(r2s) + 1
      BY <2>4, <1>7, Zenon
    <3>2. \/ Taken' = Taken + 1 /\ surplus' = surplus
          \/ Taken' = Taken /\ surplus' = surplus + 1
          \/ Taken' = Taken /\ surplus' = surplus /\ Told' = 1
      BY <2>4
    <3> QED BY <3>1, <3>2, <2>1, <2>2
  <2>5. \/ /\ r2s' = r2s \/ Say("C") \/ Say("NAK") \/ r2s' = r2s \o <<"CAN", "CAN", "CAN">>
           /\ Taken' = Taken /\ surplus' = surplus
        \/ /\ Say("ACK")
           /\ \/ Taken' = Taken + 1 /\ surplus' = surplus
              \/ Taken' = Taken /\ surplus' = surplus + 1
              \/ Taken' = Taken /\ surplus' = surplus /\ Told' = 1
    BY <1>3, <1>6 DEF Says
  <2> QED BY <2>3, <2>4, <2>5
<1> QED BY <1>1, <1>3, <1>4, <1>5, <1>8 DEF Account

\* A step of xm_transmit.
LEMMA SenderAccounts ==
  ASSUME Len(File) < Mod, LineOK, SendOK, RecvOK, Account, TStep \/ TTimeout,
         UNCHANGED <<setting, rvars, surplus>>
  PROVE  Account'
<1>1. /\ UNCHANGED <<surplus, rpc, after, packetno, fil, closed>>
      /\ Taken' = Taken /\ Told' = Told
  BY DEF rvars, rfile, Taken, Told
<1>2. /\ fptr \in Nat /\ Len(File) \in Nat /\ fptr <= Len(File) /\ r2s \in Seq(Control)
      /\ s2r \in Seq(ItemsTo(fptr)) /\ surplus \in Int /\ Taken \in Nat /\ Taken <= fptr
      /\ Told \in Int
  BY FileAssumption, ModAssumption DEF SendOK, LineOK, Account, RecvOK, RecvType, Taken, Told
<1>3. /\ Acks(r2s) \in Nat
      /\ r2s # <<>> => /\ Acks(Tail(r2s)) \in Nat
                       /\ Acks(r2s) = Acks(Tail(r2s)) + (IF Head(r2s) = "ACK" THEN 1 ELSE 0)
  <2>1. r2s # <<>> => Tail(r2s) \in Seq(Control)
    BY <1>2, Writes
  <2> QED BY <2>1, <1>2, AckCounts
<1>4. /\ SyncAgain \/ SendAgain \/ EotAgain =>
            /\ tpc' \in {"sync", "xmit", "eot"} => s2r' = s2r /\ tres' = tres
            /\ tpc' = "flush" => tres' # "ok" /\ (s2r' = s2r \/ Cancelled)
      /\ SyncAgain => tpc' \in {"sync", "flush"}
      /\ SendAgain => tpc' \in {"xmit", "flush"}
      /\ EotAgain => tpc' \in {"eot", "flush"}
  BY DEF SyncAgain, SendAgain, EotAgain, Leave
<1> DEFINE Kept == s2r' = s2r /\ fptr' = fptr
           Lost == /\ tpc' = "flush" /\ tres' # "ok" /\ fptr' = fptr
                   /\ s2r' = s2r \/ Cancelled \/ s2r' = Append(s2r, Byte("ACK"))
\* What each action does.
<1>5. \/ /\ tpc \in {"sync", "sync_can"} /\ tpc' \in {"sync", "sync_can", "load"}
         /\ Kept /\ tres' = tres /\ (r2s' = r2s \/ Hear)
      \/ /\ tpc = "load" /\ s2r' = s2r /\ r2s' = r2s /\ tres' = tres
         /\ \/ fptr' = fptr + 1 /\ fptr < Len(File) /\ tpc' = "xmit"
            \/ fptr' = fptr /\ (fptr = Len(File) \/ setting.fails) /\ tpc' = "eot"
      \/ /\ tpc = "xmit" /\ tpc' = "wait" /\ r2s' = r2s /\ tres' = tres /\ fptr' = fptr
         /\ s2r' = Append(s2r, Packet(tpacketno, tcrc, BlockData))
      \/ /\ tpc \in {"wait", "wait_can"} /\ tpc' \in {"wait_can", "xmit"}
         /\ Kept /\ tres' = tres /\ (r2s' = r2s \/ Hear)
      \/ /\ tpc = "wait" /\ tpc' = "load" /\ Kept /\ tres' = tres /\ Hear /\ Head(r2s) = "ACK"
      \/ /\ tpc = "eot" /\ tpc' = "eot_wait" /\ r2s' = r2s /\ tres' = tres /\ fptr' = fptr
         /\ s2r' = Append(s2r, Byte("EOT"))
      \/ /\ tpc = "eot_wait" /\ tpc' = "eot" /\ Kept /\ tres' = tres /\ (r2s' = r2s \/ Hear)
      \/ /\ tpc = "eot_wait" /\ tpc' = "flush" /\ Kept /\ tres' = "ok" /\ Hear /\ Head(r2s) = "ACK"
      \/ /\ tpc = "flush" /\ tpc' \in {"flush", "done"} /\ Kept /\ tres' = tres /\ (r2s' = r2s \/ Hear)
      \/ /\ TLive /\ Lost /\ (r2s' = r2s \/ Hear)
  <2>1. CASE Sync
    BY <2>1, <1>4 DEF Sync, TLive, SyncAgain, Leave
  <2>2. CASE Load
    BY <2>2 DEF Load
  <2>3. CASE Xmit
    BY <2>3 DEF Xmit, Out
  <2>4. CASE Wait
    BY <2>4, <1>4 DEF Wait, TLive, SendAgain, Leave
  <2>5. CASE Can
    <3>1. ASSUME Head(r2s) = "CAN" PROVE TLive /\ Lost /\ Hear
      BY <2>5, <3>1 DEF Can, TLive, Out, Leave
    <3>2. ASSUME Head(r2s) # "CAN", tpc = "sync_can"
          PROVE  \/ TLive /\ Lost /\ Hear
                 \/ tpc' = "sync" /\ Kept /\ tres' = tres /\ Hear
      BY <2>5, <3>2, <1>4 DEF Can, TLive, SyncAgain, Leave
    <3>3. ASSUME Head(r2s) # "CAN", tpc = "wait_can"
          PROVE  \/ TLive /\ Lost /\ Hear
                 \/ tpc' = "xmit" /\ Kept /\ tres' = tres /\ Hear
      BY <2>5, <3>3, <1>4 DEF Can, TLive, SendAgain, Leave
    <3>4. tpc = "sync_can" \/ tpc = "wait_can"
      BY <2>5 DEF Can
    <3> QED BY <3>1, <3>2, <3>3, <3>4
  <2>6. CASE SendEot
    BY <2>6 DEF SendEot, Out
  <2>7. CASE EotWait
    BY <2>7, <1>4 DEF EotWait, TLive, EotAgain, Leave
  <2>8. CASE TFlush
    BY <2>8 DEF TFlush
  <2>9. CASE TTimeout
    BY <2>9, <1>4 DEF TTimeout, TLive, SyncAgain, SendAgain, EotAgain, Leave
  <2> QED BY <2>1, <2>2, <2>3, <2>4, <2>5, <2>6, <2>7, <2>8, <2>9 DEF TStep
<1>6. fptr' \in Nat /\ fptr <= fptr' /\ fptr' <= Len(File)
  BY <1>2, <1>5
<1>7. s2r' \in Seq(ItemsTo(fptr'))
  <2>1. ItemsTo(fptr) \subseteq ItemsTo(fptr') /\ \A n \in Nat, b \in {"EOT", "CAN", "ACK"} : Byte(b) \in ItemsTo(n)
    BY <1>2, <1>6, KindFacts
  <2>2. s2r \in Seq(ItemsTo(fptr'))
    BY <2>1, <1>2, SeqOfMore
  <2>3. CASE s2r' = s2r \/ Cancelled \/ s2r' = Append(s2r, Byte("ACK")) \/ s2r' = Append(s2r, Byte("EOT"))
    BY <2>1, <2>2, <2>3, <1>6, Writes DEF Cancelled
  <2>4. CASE tpc = "xmit" /\ s2r' = Append(s2r, Packet(tpacketno, tcrc, BlockData)) /\ fptr' = fptr
    <3>1. fptr \in 1 .. Len(File) /\ tpacketno = fptr /\ tcrc \in BOOLEAN
      BY <2>4, <1>2 DEF SendOK
    <3> DEFINE p == Packet(tpacketno, tcrc, BlockData)
    <3>2. p \in Items /\ p.t = "PKT" /\ p.num = fptr
      BY <3>1, PacketIsItem DEF Packet
    <3> HIDE DEF p
    <3>3. p \in Packets /\ p.data.blk = p.num
      BY <3>2, ItemFacts
    <3>4. p \in ItemsTo(fptr')
      BY <3>1, <3>2, <3>3, <2>4 DEF ItemsTo
    <3> QED BY <3>4, <2>2, <2>4, Writes DEF p
  <2> QED BY <2>3, <2>4, <1>5
<1>8. Counts' => /\ Counts
                 /\ \/ s2r' = s2r \/ s2r' = Append(s2r, Byte("EOT"))
                    \/ tpc = "xmit" /\ s2r' = Append(s2r, Packet(tpacketno, tcrc, BlockData))
  BY <1>5 DEF Counts, TLive
<1>9. Counts' => s2r' \in Seq(Plain)
  <2> SUFFICES ASSUME Counts' PROVE s2r' \in Seq(Plain)
    OBVIOUS
  <2>1. s2r \in Seq(Plain)
    BY <1>8 DEF Account
  <2>2. ASSUME tpc = "xmit" PROVE Packet(tpacketno, tcrc, BlockData) \in Plain
    <3>1. Packet(tpacketno, tcrc, BlockData) \in Items
      BY <2>2, <1>2, PacketIsItem DEF SendOK
    <3> QED BY <3>1, KindFacts DEF Packet
  <2>3. Byte("EOT") \in Plain
    BY KindFacts
  <2> QED BY <2>1, <2>2, <2>3, <1>8, Writes
<1>10. /\ r2s' = r2s \/ Hear => Acks(r2s') \in Nat /\ Acks(r2s') <= Acks(r2s)
       /\ Hear /\ Head(r2s) = "ACK" => Acks(r2s') + 1 = Acks(r2s)
  <2>1. ASSUME Hear PROVE /\ Acks(r2s') \in Nat /\ Acks(r2s') <= Acks(r2s)
                          /\ Head(r2s) = "ACK" => Acks(r2s') + 1 = Acks(r2s)
    <3>1. r2s # <<>> /\ Acks(r2s') = Acks(Tail(r2s))
      BY <2>1 DEF Hear
    <3> QED BY <3>1, <1>3
  <2>2. r2s' = r2s => Acks(r2s') = Acks(r2s)
    OBVIOUS
  <2> QED BY <2>1, <2>2, <1>3
<1>11. TLive => tres = "none"
  BY DEF Account
<1>12. Counts' => Heard' + Acks(r2s') <= Heard + Acks(r2s)
  <2>1. ASSUME Counts'
        PROVE  \/ Heard' = Heard /\ (r2s' = r2s \/ Hear)
               \/ Heard' = Heard + 1 /\ Hear /\ Head(r2s) = "ACK"
    <3>1. /\ fptr \in Int /\ (tpc' \in {"flush", "done"} => tres' = "ok")
          /\ tpc \notin {"flush", "done"} => tres = "none"
      BY <2>1, <1>2, <1>11 DEF Counts, TLive
    <3>2. ~Lost
      BY <3>1
    <3>3. CASE tpc \in {"sync", "sync_can", "load", "xmit", "eot"}
      BY <3>1, <3>2, <3>3, <1>5 DEF Heard, TLive
    <3>4. CASE tpc \in {"wait", "wait_can"}
      BY <3>1, <3>2, <3>4, <1>5 DEF Heard, TLive
    <3>5. CASE tpc \in {"eot_wait", "flush"}
      BY <3>1, <3>2, <3>5, <1>5 DEF Heard, TLive
    <3>6. tpc \in {"sync", "sync_can", "load", "xmit", "eot", "wait", "wait_can", "eot_wait", "flush"}
      BY <3>2, <1>5
    <3> QED BY <3>3, <3>4, <3>5, <3>6
  <2>2. Heard \in Int /\ Acks(r2s) \in Nat
    BY <1>2, <1>3 DEF Heard
  <2> QED BY <2>1, <2>2, <1>10
<1>13. Counts' => Heard' + Acks(r2s') <= Taken' + surplus' + Told'
  <2>1. Counts => Heard + Acks(r2s) <= Taken + surplus + Told
    BY DEF Account
  <2>2. Heard \in Int /\ Heard' \in Int /\ (Counts' => Acks(r2s') \in Int)
    BY <1>2, <1>5, <1>6, <1>10 DEF Heard
  <2> QED BY <2>1, <2>2, <1>1, <1>2, <1>3, <1>8, <1>12
<1>14. /\ tpc' \in {"eot", "eot_wait"} \/ tres' = "ok" => setting.fails \/ fptr' = Len(File)
       /\ TLive' => tres' = "none"
  <2>1. tpc \in {"eot", "eot_wait"} \/ tres = "ok" => setting.fails \/ fptr = Len(File)
    BY DEF Account
  <2> QED BY <2>1, <1>5, <1>11 DEF TLive
<1>15. /\ fil' = "closed" => TheFile \in closed'
       /\ Counts' => /\ rpc' # "can"
                     /\ rpc' \in {"flush", "done"} /\ after' = "ack" => packetno' = 1 \/ fil' = "closed"
  BY <1>1, <1>8 DEF Account
<1>16. surplus' \in Int /\ Taken' <= fptr'
  BY <1>1, <1>2, <1>6
<1> QED BY <1>7, <1>9, <1>13, <1>14, <1>15, <1>16 DEF Account

\* Noise: it adds nothing, and an ACK less is counted.
LEMMA NoiseAccounts ==
  ASSUME LineOK, SendOK, RecvOK, Account, Fault, surplus' = surplus - (Acks(r2s) - Acks(r2s')),
         UNCHANGED <<rvars, tvars>>
  PROVE  Account'
<1>1. /\ UNCHANGED <<rpc, after, packetno, fil, closed, tpc, tres, fptr, setting>>
      /\ Taken' = Taken /\ Told' = Told /\ TLive' = TLive /\ Counts' = Counts /\ Heard' = Heard
  BY DEF rvars, rfile, tvars, Fault, Taken, Told, TLive, Counts, Heard
<1>2. /\ fptr \in Nat /\ r2s \in Seq(Control) /\ s2r \in Seq(ItemsTo(fptr)) /\ surplus \in Int
      /\ Taken \in Nat /\ Heard \in Int /\ Told \in Int
  BY FileAssumption, ModAssumption DEF SendOK, LineOK, Account, RecvOK, RecvType, Taken, Heard, Told
<1>3. s2r' \in Seq(ItemsTo(fptr)) /\ r2s' \in Seq(Control)
  <2>1. /\ Byte("JUNK") \in ItemsTo(fptr)
        /\ \A p \in ItemsTo(fptr) : p.t = "PKT" => [p EXCEPT !.ok = FALSE] \in ItemsTo(fptr)
    BY <1>2, KindFacts
  <2> QED BY <2>1, <1>2, FaultKeeps
<1>4. Counts => s2r' \in Seq(Plain)
  <2>1. /\ Byte("JUNK") \in Plain /\ (Counts => s2r \in Seq(Plain))
        /\ \A p \in Plain : p.t = "PKT" => [p EXCEPT !.ok = FALSE] \in Plain
    BY KindFacts DEF Account
  <2> QED BY <2>1, <1>2, FaultKeeps
<1>5. Acks(r2s) \in Nat /\ Acks(r2s') \in Nat
  BY <1>2, <1>3, AckCounts
<1>6. surplus' \in Int /\ (Counts => Heard + Acks(r2s') <= Taken + surplus' + Told)
  <2>1. Counts => Heard + Acks(r2s) <= Taken + surplus + Told
    BY DEF Account
  <2>2. \A h, a, b, t, u, o \in Int : h + a <= t + u + o => h + b <= t + (u - (a - b)) + o
    OBVIOUS
  <2>3. surplus' = surplus - (Acks(r2s) - Acks(r2s')) /\ surplus' \in Int
    BY <1>2, <1>5
  <2>4. Acks(r2s) \in Int /\ Acks(r2s') \in Int /\ Taken \in Int
    BY <1>2, <1>5
  <2> QED BY <2>1, <2>2, <2>3, <2>4, <1>2, Zenon
<1> QED BY <1>1, <1>3, <1>4, <1>6 DEF Account

\* Nothing has been said at first.
LEMMA InitAccounted == Init => Accounted
<1> SUFFICES ASSUME Init PROVE Accounted
  OBVIOUS
<1> USE DEF Init, LineInit, RInit, TInit, YInit
<1>1. CASE setting.batch
  BY <1>1 DEF Accounted
<1>2. CASE ~setting.batch
  <2>1. /\ <<>> \in Seq(ItemsTo(0)) /\ <<>> \in Seq(Plain) /\ <<>> \in Seq(Control)
        /\ Len(<<>>) = 0
    BY EmptySeq
  <2>2. Acks(r2s) = 0
    <3>1. DOMAIN r2s = {} \/ {k \in DOMAIN r2s : r2s[k] = "ACK"} = {}
      BY <2>1
    <3>2. {k \in DOMAIN r2s : r2s[k] = "ACK"} = {}
      BY <3>1
    <3> QED BY <3>2, FS_EmptySet DEF Acks
  <2>3. Taken = 0 /\ Told = 0 /\ Heard = 0 /\ TLive
    BY <1>2, ModAssumption DEF Taken, Told, Heard, TLive
  <2> QED BY <1>2, <2>1, <2>2, <2>3 DEF Accounted, Account
<1> QED BY <1>1, <1>2

\* Every step of a file keeps the account.
LEMMA NextAccounted == Len(File) < Mod /\ Prefix /\ Accounted /\ [Next]_vars => Accounted'
<1> SUFFICES ASSUME Len(File) < Mod, Prefix, Accounted, [Next]_vars PROVE Accounted'
  OBVIOUS
<1>0. setting' = setting
  BY DEF Next, Receiver, Sender, ReceiverTimeout, SenderTimeout, Noise, Fault, Terminated,
     vars, line
<1>1. CASE setting.batch
  <2>1. tpc = "done" /\ tres = "none"
    BY <1>1 DEF Accounted
  <2>2. ~TStep /\ ~TTimeout
    BY <2>1 DEF TStep, TTimeout, Sync, Load, Xmit, Wait, Can, SendEot, EotWait, TFlush
  <2>3. tpc' = tpc /\ tres' = tres
    BY <2>2 DEF Next, Receiver, Sender, ReceiverTimeout, SenderTimeout, Noise, Terminated,
       vars, tvars
  <2> QED BY <2>1, <2>3, <1>0, <1>1 DEF Accounted
<1>2. CASE ~setting.batch
  <2>1. LineOK /\ SendOK /\ RecvOK /\ Account
    BY <1>2 DEF Prefix, Accounted
  <2>2. CASE Receiver \/ ReceiverTimeout
    <3>1. /\ RStep \/ RTimeout
          /\ UNCHANGED <<setting, tvars>>
          /\ surplus' = IF AckedAgain THEN surplus + 1 ELSE surplus
      <4>1. RTimeout => ~AckedAgain
        BY DEF RTimeout, AckedAgain
      <4> QED BY <4>1, <2>2, <1>2 DEF Receiver, ReceiverTimeout
    <3> QED BY <3>1, <2>1, <1>0, <1>2, ReceiverAccounts DEF Accounted
  <2>3. CASE Sender \/ SenderTimeout
    <3>1. ~YStep /\ ~YTimeout
      BY <2>1 DEF SendOK, YStep, YTimeout, YSend, YStart, YAcked, YRefused
    <3>2. (TStep \/ TTimeout) /\ UNCHANGED <<setting, rvars, surplus>>
      BY <3>1, <2>3 DEF Sender, SenderTimeout
    <3> QED BY <3>2, <2>1, <1>0, <1>2, SenderAccounts DEF Accounted
  <2>4. CASE Noise
    BY <2>1, <2>4, <1>0, <1>2, NoiseAccounts DEF Noise, Accounted
  <2>5. CASE UNCHANGED vars
    <3>1. /\ UNCHANGED <<surplus, s2r, r2s, rpc, after, packetno, fil, closed, tpc, tres, fptr>>
      BY <2>5 DEF vars, line, rvars, rfile, tvars
    <3> QED BY <3>1, <2>1, <1>0, <1>2 DEF Accounted, Account, TLive, Counts, Heard, Told, Taken, Acks
  <2> QED BY <2>2, <2>3, <2>4, <2>5 DEF Next, Terminated
<1> QED BY <1>1, <1>2

\* Whatever the timers, the line and the file calls do, the sender has taken no more
\* ACKs than there are blocks stored, and surplus ACKs.
THEOREM AckInvariant == ASSUME Len(File) < Mod PROVE Spec => [](Prefix /\ Accounted)
<1>1. Init => Prefix /\ Accounted
  BY InitPrefix, InitAccounted
<1>2. Prefix /\ Accounted /\ [Next]_vars => (Prefix /\ Accounted)'
  BY NextPrefix, NextAccounted
<1> QED BY <1>1, <1>2, PTL DEF Spec

\* With room on the card, what was taken is in the file.
LEMMA RoomForAll ==
  ASSUME RecvOK, Room PROVE Len(Received) = Taken /\ Taken \in Nat /\ Received \in Seq(Nat)
<1>1. Received \in Seq(Nat) /\ Len(Received) \in Nat /\ Len(File) \in Nat
  BY NamesAssumption, FileAssumption, LenProperties DEF RecvOK, RecvType, Received, TheFile
<1>2. Taken \in Nat
  BY ModAssumption DEF RecvOK, RecvType, Taken
<1>3. /\ Len(Received) <= Taken /\ Taken <= Len(File) /\ free \in Nat
      /\ Len(Received) < Taken => free = 0
      /\ free + Len(Received) = setting.disk /\ setting.disk >= Len(File)
  BY DEF RecvOK, RecvType, Room
<1> QED BY <1>1, <1>2, <1>3

\* A sender that reports success has sent the whole file; the receiver lacks no more
\* than the surplus ACKs hide, and with none of those it has all of it, closed.
THEOREM SuccessWhole == ASSUME Len(File) < Mod PROVE Spec => []SuccessIsComplete
<1>1. Prefix /\ Accounted => SuccessIsComplete
  <2> SUFFICES ASSUME Prefix, Accounted, ~setting.fails, Room, tres = "ok"
               PROVE  /\ Len(Received) + surplus >= Len(File)
                      /\ surplus <= 0 => /\ Received = Blocks
                                         /\ Blocks # <<>> => fil = "closed" /\ TheFile \in closed
    BY DEF SuccessIsComplete
  <2>1. RecvOK /\ Account /\ LineOK
    BY DEF Prefix, Accounted
  <2>2. /\ Len(File) \in Nat /\ Len(Received) = Taken /\ Received \in Seq(Nat) /\ Taken \in Nat
        /\ Taken <= Len(File) /\ Acks(r2s) \in Nat /\ surplus \in Int
    BY <2>1, RoomForAll, FileAssumption, AckCounts DEF RecvOK, Account, LineOK
  <2>3. fptr = Len(File) /\ Heard = Len(File) + 1 /\ Told \in {0, 1}
    BY <2>1 DEF Account, TLive, Heard, Told
  <2>4. Len(File) + 1 + Acks(r2s) <= Taken + surplus + Told
    BY <2>1, <2>3 DEF Account, Counts
  <2>5. ASSUME surplus <= 0 PROVE Taken = Len(File) /\ Told = 1
    BY <2>2, <2>3, <2>4, <2>5
  <2>6. Blocks \in [1 .. Len(File) -> Nat] /\ \A k \in 1 .. Len(File) : Blocks[k] = k
    BY <2>2 DEF Blocks
  <2>7. Blocks \in Seq(Nat) /\ Len(Blocks) = Len(File)
    BY <2>2, <2>6, SeqDef, LenProperties
  <2>8. \A k \in 1 .. Len(Received) : Received[k] = k
    BY <2>1 DEF RecvOK
  <2>9. surplus <= 0 => Received = Blocks
    BY <2>2, <2>5, <2>6, <2>7, <2>8, SeqEqual
  <2>10. surplus <= 0 /\ Blocks # <<>> => fil = "closed" /\ TheFile \in closed
    <3> SUFFICES ASSUME surplus <= 0, Blocks # <<>> PROVE fil = "closed" /\ TheFile \in closed
      OBVIOUS
    <3>1. Taken > 0 /\ Told = 1
      BY <2>2, <2>5, <2>7, EmptySeq
    <3>2. packetno # 1
      BY <3>1 DEF Taken
    <3> QED BY <3>1, <3>2, <2>1 DEF Account, Counts, Told
  <2> QED BY <2>2, <2>3, <2>4, <2>9, <2>10
<1> QED BY <1>1, AckInvariant, PTL

\* The receiver is never ahead of the sender, and behind it by one packet and the surplus
\* ACKs at most.
THEOREM KeepInStep == ASSUME Len(File) < Mod PROVE Spec => []InStep
<1>1. Prefix /\ Accounted => InStep
  <2> SUFFICES ASSUME Prefix, Accounted, Room, tpc = "xmit", rpc # "done"
               PROVE  Len(Received) <= fptr /\ fptr - 1 <= Len(Received) + surplus
    BY DEF InStep
  <2>1. ~setting.batch
    BY DEF Accounted
  <2>2. RecvOK /\ Account /\ LineOK /\ SendOK
    BY <2>1 DEF Prefix, Accounted
  <2>3. /\ Len(Received) = Taken /\ Taken \in Nat /\ Acks(r2s) \in Nat /\ surplus \in Int
        /\ fptr \in Nat
    BY <2>2, RoomForAll, AckCounts, FileAssumption DEF Account, LineOK, SendOK
  <2>4. Taken <= fptr /\ fptr - 1 + Acks(r2s) <= Taken + surplus + 0
    BY <2>2 DEF Account, Counts, TLive, Heard, Told
  <2> QED BY <2>3, <2>4
<1> QED BY <1>1, AckInvariant, PTL

-----------------------------------------------------------------------------
(* A batch, whose sender waits long enough for its answers. *)

RLive == rpc # "done"

\* The receiver says something without having heard anything.
RSpeaks == rpc \in {"flush", "junk"} \/ (rpc = "send" /\ trychar # "none")

\* Three CANs behind what is on the line.
LEMMA Cancels ==
  ASSUME NEW S, NEW s \in Seq(S), NEW e \in S
  PROVE  LET n == s \o <<e, e, e>>
         IN  /\ n \in Seq(S) /\ Len(n) = Len(s) + 3
             /\ \A k \in 1 .. Len(n) : n[k] = e \/ (k \in 1 .. Len(s) /\ n[k] = s[k])
<1> DEFINE t == <<e, e, e>>
           n == s \o t
<1>1. t \in Seq(S) /\ Len(t) = 3 /\ \A k \in 1 .. 3 : t[k] = e
  <2>1. t \in Seq(S) /\ Len(t) = 3 /\ t[1] = e /\ t[2] = e /\ t[3] = e
    OBVIOUS
  <2> HIDE DEF t
  <2>2. ASSUME NEW k \in 1 .. 3 PROVE t[k] = e
    <3>1. k = 1 \/ k = 2 \/ k = 3
      OBVIOUS
    <3> QED BY <3>1, <2>1
  <2> QED BY <2>1, <2>2
<1>2. Len(s) \in Nat
  BY LenProperties
<1> HIDE DEF t
<1>3. /\ n \in Seq(S) /\ Len(n) = Len(s) + 3
      /\ \A k \in 1 .. Len(s) + 3 : n[k] = IF k <= Len(s) THEN s[k] ELSE t[k - Len(s)]
  <2>1. /\ n \in Seq(S) /\ Len(n) = Len(s) + Len(t)
        /\ \A k \in 1 .. Len(s) + Len(t) :
              n[k] = IF k <= Len(s) THEN s[k] ELSE t[k - Len(s)]
    BY <1>1, ConcatProperties
  <2> QED BY <2>1, <1>1, Zenon
<1> HIDE DEF n
<1>4. ASSUME NEW k \in 1 .. Len(n)
      PROVE  n[k] = e \/ (k \in 1 .. Len(s) /\ n[k] = s[k])
  <2>1. CASE k <= Len(s)
    BY <2>1, <1>2, <1>3
  <2>2. CASE ~(k <= Len(s))
    <3>1. k - Len(s) \in 1 .. 3
      BY <2>2, <1>2, <1>3
    <3> QED BY <3>1, <2>2, <1>1, <1>2, <1>3
  <2> QED BY <2>1, <2>2
<1> QED BY <1>3, <1>4 DEF n, t

\* One item, after a fault.
LEMMA WorseItem ==
  ASSUME NEW S, NEW s \in Seq(S), NEW n \in Seq(S), Worse(s, n), Len(s) <= 1
  PROVE  /\ Len(n) <= 1
         /\ n # <<>> => /\ s # <<>>
                        /\ \/ Head(n) = Byte("JUNK")
                           \/ Head(s).t = "PKT" /\ Head(n) = [Head(s) EXCEPT !.ok = FALSE]
<1>1. Len(s) \in Nat /\ Len(n) \in Nat
  BY LenProperties
<1>2. ASSUME n # <<>>
      PROVE  /\ s # <<>>
             /\ \/ Head(n) = Byte("JUNK")
                \/ Head(s).t = "PKT" /\ Head(n) = [Head(s) EXCEPT !.ok = FALSE]
  <2>1. Len(n) >= 1 /\ Head(n) = n[1]
    BY <1>2, OneItem
  <2>2. Len(n) = 1 /\ Len(s) = 1
    <3>1. Len(n) + 1 = Len(s) \/ Len(n) = Len(s)
      BY DEF Worse
    <3> QED BY <3>1, <1>1, <2>1
  <2>3. s # <<>> /\ Head(s) = s[1]
    <3>1. Len(<<>>) = 0
      BY EmptySeq
    <3>2. s # <<>>
      BY <2>2, <3>1
    <3> QED BY <3>2, OneItem
  <2>4. PICK k \in 1 .. Len(s) :
           n[k] = Byte("JUNK") \/ (s[k].t = "PKT" /\ n[k] = [s[k] EXCEPT !.ok = FALSE])
    BY <2>2 DEF Worse
  <2>5. k = 1
    BY <2>2
  <2> QED BY <2>1, <2>3, <2>4, <2>5
<1> QED BY <1>1, <1>2 DEF Worse

\* Noise makes no control byte of another one.
LEMMA WorseBytes ==
  ASSUME NEW s \in Seq(Control), NEW n \in Seq(Control), WorseControl(s, n)
  PROVE  /\ \A i \in 1 .. Len(n) : n[i] = "JUNK" \/ \E k \in 1 .. Len(s) : n[i] = s[k]
         /\ Len(n) <= Len(s)
         /\ Len(s) <= 1 /\ n # <<>> => s # <<>> /\ Head(n) = "JUNK"
<1>1. Len(s) \in Nat /\ Len(n) \in Nat /\ Len(<<>>) = 0
  BY LenProperties, EmptySeq
<1>2. CASE Len(n) + 1 = Len(s) /\ \A j \in 1 .. Len(n) : n[j] = s[j] \/ n[j] = s[j + 1]
  <2>1. \A i \in 1 .. Len(n) : i \in 1 .. Len(s) /\ i + 1 \in 1 .. Len(s)
    BY <1>1, <1>2
  <2>2. Len(s) <= 1 => n = <<>>
    BY <1>1, <1>2, EmptySeq
  <2> QED BY <2>1, <2>2, <1>1, <1>2
<1>3. CASE Len(n) = Len(s) /\ ~(Len(n) + 1 = Len(s))
  <2>1. PICK k \in 1 .. Len(s) : /\ \A j \in 1 .. Len(s) : j # k => n[j] = s[j]
                                 /\ n[k] = "JUNK"
    BY <1>3 DEF WorseControl
  <2>2. Len(s) <= 1 /\ n # <<>> => s # <<>> /\ Head(n) = "JUNK"
    <3> SUFFICES ASSUME Len(s) <= 1, n # <<>> PROVE s # <<>> /\ Head(n) = "JUNK"
      OBVIOUS
    <3>1. Len(n) >= 1 /\ Head(n) = n[1] /\ k = 1
      BY <1>1, <1>3, <2>1, OneItem
    <3> QED BY <3>1, <2>1, <1>1, <1>3
  <2> QED BY <2>1, <2>2, <1>1, <1>3
<1> QED BY <1>1, <1>2, <1>3 DEF WorseControl

\* The size that xm_receive has for a file: the last one that came with a name, its own
\* or an earlier one, as an int.
Ruling(f) == {g \in 1 .. f : Batch[g].sized /\ \A h \in g + 1 .. f : ~Batch[h].sized}
SizeOf(f) == IF Ruling(f) = {} THEN 0 ELSE AsInt(Batch[CHOOSE g \in Ruling(f) : TRUE].len)
Goal(f) == IF SizeOf(f) > 0 THEN SizeOf(f) ELSE Batch[f].sent

\* No file is empty or as long as there are packet numbers, no two are stored under
\* one name, and no file is shorter than the size that xm_receive has for it.
Orderly ==
    /\ Batch \in Seq([name : Names, len : Nat, sent : Nat, sized : BOOLEAN])
    /\ \A f \in 1 .. Len(Batch) : /\ Batch[f].sent \in 1 .. Mod - 1
                                  /\ Batch[f].len <= Batch[f].sent
                                  /\ SizeOf(f) <= Batch[f].sent
    /\ \A f, g \in 1 .. Len(Batch) : f # g => Stored(f) # Stored(g)

\* What is on the line, and the packet that the sender is at.
YLine ==
    /\ s2r \in Seq(Bytes \cup Packets) /\ r2s \in Seq(Control)
    /\ yfile \in 1 .. Len(Batch) + 1
    /\ IF yfile <= Len(Batch) THEN yblock \in 0 .. Batch[yfile].sent ELSE yblock = 0
    /\ ypc \in {"eot", "eot_wait"} => yfile <= Len(Batch)

\* What the receiver is in the middle of: it waits for a name, it has one, it
\* stores the file, it has seen the first EOT.
Header == packetno = 1 /\ ymodem = 0
Named == packetno = 1 /\ ymodem = 1
Storing == packetno # 1 /\ ymodem = 1
Ended == packetno # 1 /\ ymodem = 2

Current == IF Named THEN curfile + 1 ELSE curfile

\* The file that is open, and the ones that were closed.
Place ==
    /\ RecvType
    /\ curfile \in 0 .. Len(Batch)
    /\ Header \/ Named \/ Storing \/ Ended
    /\ size = SizeOf(Current)
    /\ Named => curfile < Len(Batch) /\ filename = Batch[curfile + 1].name
    /\ packetno = 1 => fil = (IF curfile = 0 THEN "uninit" ELSE "closed")
    /\ packetno # 1 => /\ curfile >= 1 /\ opened = Stored(curfile)
                       /\ Taken \in 1 .. Batch[curfile].sent
                       /\ fil = (IF Storing THEN "open" ELSE "closed")
                       /\ Storing \/ Taken = Batch[curfile].sent
    /\ Storing \/ Ended => trychar = "none"
    /\ \A f \in 1 .. Len(Batch) :
           Stored(f) \in closed <=> f < curfile \/ (f = curfile /\ ~Storing)

\* What is in the files: as much of each as the card had room for.
Holds(f, n) == n \in 0 .. Batch[f].sent /\ disk[Stored(f)] = Sent(f, n)
Finished(f) == Holds(f, Goal(f))
                  \/ (free = 0 /\ \E n \in 0 .. Batch[f].sent : Holds(f, n))

Card ==
    /\ \A f \in 1 .. Len(Batch) :
          /\ f > curfile => Holds(f, 0)
          /\ f < curfile \/ (f = curfile /\ ~Storing) => Finished(f)
    /\ Storing => \/ Holds(curfile, Taken)
                  \/ free = 0 /\ \E n \in 0 .. Taken : Holds(curfile, n)
    /\ Storing /\ (\E f \in 1 .. curfile - 1 : ~Holds(f, Goal(f))) => Holds(curfile, 0)

Files == Place /\ Card

YLive == ypc # "done"
YSpeaks == ypc \in {"packet", "eot"}

\* Whose turn it is; the receiver says 'C' right after the ACK of a name or of an EOT.
YTurns ==
    /\ Len(s2r) <= 1 /\ (s2r = <<>> \/ r2s = <<>>)
    /\ Len(r2s) <= 2
    /\ Len(r2s) = 2 => /\ r2s[1] \in {"ACK", "JUNK"} /\ r2s[2] \in {"C", "JUNK"}
                       /\ trychar = "C"
    /\ YSpeaks => ~RSpeaks /\ s2r = <<>> /\ r2s = <<>>
    /\ RSpeaks => s2r = <<>> /\ Len(r2s) <= 1
    /\ RSpeaks /\ r2s # <<>> =>
          rpc = "send" /\ trychar = "C" /\ Head(r2s) \in {"ACK", "JUNK"}
    /\ rpc # "can"

\* What is on the line fits what the sender waits for.
YMessages ==
    /\ s2r # <<>> =>
          /\ ypc \in {"packet_wait", "eot_wait"}
          /\ Head(s2r).t \in {"PKT", "EOT", "JUNK"}
          /\ Head(s2r).t = "PKT" => /\ ypc = "packet_wait"
                                   /\ Head(s2r).num = yblock
                                   /\ Head(s2r).data = YPacket.data
          /\ Head(s2r).t = "EOT" => ypc = "eot_wait"
    /\ r2s # <<>> /\ Head(r2s) = "ACK" =>
          \/ ypc = "packet_wait" /\ yfile <= Len(Batch) /\ yblock = 0 /\ Named
          \/ ypc = "packet_wait" /\ yblock > 0 /\ Storing /\ Taken = yblock
          \/ ypc = "eot_wait" /\ Header

\* How far apart the two sides are.
YPace ==
    /\ ypc = "start" => /\ curfile = yfile - 1
                        /\ (yblock = 0 /\ Header) \/ (yblock = 1 /\ Named)
    /\ ypc \in {"packet", "packet_wait"} =>
          \/ yblock \in {0, 1} /\ curfile = yfile - 1 /\ Named
          \/ yblock = 0 /\ curfile = yfile - 1 /\ Header
          \/ yblock > 0 /\ curfile = yfile /\ Storing /\ Taken = yblock
          \/ yblock > 1 /\ curfile = yfile /\ Storing /\ Taken = yblock - 1
    /\ ypc \in {"eot", "eot_wait"} =>
          /\ curfile = yfile /\ yblock = Batch[yfile].sent
          /\ (Storing /\ Taken = yblock) \/ Ended \/ Header

YUndecided ==
    /\ rpc = "flush" => after \in {"start", "junk", "reject", "ack", "cancel"}
    /\ rpc = "flush" /\ after = "reject" => trychar = "none"
    /\ rpc = "flush" /\ after = "ack" =>
          \/ ypc = "eot_wait"
          \/ ypc = "packet_wait" /\ yfile = Len(Batch) + 1

\* The last name is only sent, and answered, after the last file.
LastName == ypc \in {"packet", "packet_wait"} /\ yfile = Len(Batch) + 1

YVerdict ==
    /\ RLive /\ ~YLive => s2r = <<>> /\ rpc # "can"
    /\ YLive /\ ~RLive => \A k \in 1 .. Len(r2s) :
                             /\ r2s[k] \notin {"C", "NAK"}
                             /\ r2s[k] = "ACK" => /\ Len(r2s) = 1
                                                  /\ LastName \/ ypc \in {"eot", "eot_wait"}
    /\ YLive /\ LastName => curfile = Len(Batch) /\ ~Storing
    /\ yres = "ok" => ~YLive /\ ~RLive /\ curfile = Len(Batch) /\ ~Storing

YInTime == /\ Files
           /\ RLive /\ YLive => YTurns /\ YMessages /\ YPace /\ YUndecided
           /\ YVerdict

InBatch == IF setting.batch THEN tpc = "done" /\ YLine /\ YInTime
           ELSE ypc = "done" /\ yres = "none"

\* A size that is small enough is kept.
LEMMA IntFacts ==
  ASSUME NEW n \in Nat
  PROVE  AsInt(n) \in Int /\ (2 * n < Word => AsInt(n) = n)
<1>1. n % Word \in Nat /\ (n < Word => n % Word = n)
  BY WordAssumption
<1> QED BY <1>1, WordAssumption DEF AsInt

\* What an orderly batch says of one of its files.
LEMMA BatchFacts ==
  ASSUME Orderly, NEW f \in 1 .. Len(Batch)
  PROVE  /\ Len(Batch) \in Nat /\ f \in Nat /\ f >= 1
         /\ Stored(f) \in Names /\ Batch[f].name \in Names
         /\ Batch[f].sent \in Nat /\ Batch[f].sent >= 1 /\ Batch[f].sent < Mod
         /\ Batch[f].len \in Nat /\ Batch[f].len <= Batch[f].sent
         /\ Batch[f].sized \in BOOLEAN
         /\ SizeOf(f) \in Int /\ SizeOf(f) <= Batch[f].sent
         /\ Goal(f) \in Nat /\ Goal(f) <= Batch[f].sent
<1>1. Len(Batch) \in Nat /\ Mod \in Nat /\ Len(Args) \in Nat
  BY ModAssumption, NamesAssumption, LenProperties DEF Orderly
<1>2. /\ Batch[f] \in [name : Names, len : Nat, sent : Nat, sized : BOOLEAN]
      /\ Batch[f].sent \in 1 .. Mod - 1 /\ Batch[f].len <= Batch[f].sent
      /\ SizeOf(f) <= Batch[f].sent
  BY ElementOfSeq DEF Orderly
<1>3. f \in Nat /\ f >= 1 /\ f # 0
  BY <1>1
<1>4. Stored(f) \in Names
  <2>1. CASE f <= Len(Args)
    <3>1. f \in 1 .. Len(Args)
      BY <2>1, <1>1, <1>3
    <3> QED BY <3>1, <2>1, NamesAssumption, ElementOfSeq DEF Stored
  <2> QED BY <2>1, <1>2 DEF Stored
<1>5. SizeOf(f) \in Int
  <2>1. CASE Ruling(f) = {}
    BY <2>1 DEF SizeOf
  <2>2. CASE Ruling(f) # {}
    <3>1. PICK g \in Ruling(f) : g = CHOOSE h \in Ruling(f) : TRUE
      BY <2>2
    <3>2. g \in 1 .. Len(Batch)
      BY <3>1, <1>1 DEF Ruling
    <3>3. Batch[g].len \in Nat
      <4>1. Batch[g] \in [name : Names, len : Nat, sent : Nat, sized : BOOLEAN]
        BY <3>2, ElementOfSeq DEF Orderly
      <4> QED BY <4>1
    <3>4. SizeOf(f) = AsInt(Batch[g].len)
      BY <3>1, <2>2 DEF SizeOf
    <3> QED BY <3>3, <3>4, IntFacts
  <2> QED BY <2>1, <2>2
<1> QED BY <1>1, <1>2, <1>3, <1>4, <1>5 DEF Goal

\* A name with a size rules, a name without one leaves the ruling one.
LEMMA NextRuling ==
  ASSUME Orderly, NEW c \in 1 .. Len(Batch)
  PROVE  /\ Batch[c].sized => SizeOf(c) = AsInt(Batch[c].len)
         /\ ~Batch[c].sized => SizeOf(c) = SizeOf(c - 1)
         /\ SizeOf(0) = 0
<1>1. c \in Nat /\ c >= 1
  BY BatchFacts
<1>2. ASSUME Batch[c].sized PROVE Ruling(c) = {c}
  <2>1. \A h : h \notin c + 1 .. c
    BY <1>1
  <2>2. \A g \in 1 .. c : g # c => c \in g + 1 .. c
    BY <1>1
  <2> QED BY <2>1, <2>2, <1>1, <1>2 DEF Ruling
<1>3. ASSUME ~Batch[c].sized PROVE Ruling(c) = Ruling(c - 1)
  <2>1. \A g \in 1 .. c : Batch[g].sized => g \in 1 .. c - 1
    BY <1>1, <1>3
  <2>2. 1 .. c - 1 \subseteq 1 .. c
    BY <1>1
  <2>3. \A g \in 1 .. c - 1 : (\A h \in g + 1 .. c : ~Batch[h].sized)
                             <=> (\A h \in g + 1 .. c - 1 : ~Batch[h].sized)
    <3> SUFFICES ASSUME NEW g \in 1 .. c - 1
                 PROVE  (\A h \in g + 1 .. c : ~Batch[h].sized)
                             <=> (\A h \in g + 1 .. c - 1 : ~Batch[h].sized)
      OBVIOUS
    <3>1. \A h : h \in g + 1 .. c <=> h \in g + 1 .. c - 1 \/ h = c
      BY <1>1
    <3> QED BY <3>1, <1>3
  <2> QED BY <2>1, <2>2, <2>3 DEF Ruling
<1>4. Ruling(0) = {}
  <2>1. 1 .. 0 = {}
    OBVIOUS
  <2> QED BY <2>1 DEF Ruling
<1>5. Batch[c].sized => SizeOf(c) = AsInt(Batch[c].len)
  <2>1. (CHOOSE g \in {c} : TRUE) = c /\ {c} # {}
    OBVIOUS
  <2> QED BY <2>1, <1>2 DEF SizeOf
<1>6. ~Batch[c].sized => SizeOf(c) = SizeOf(c - 1)
  <2>1. \A f, g : Ruling(f) = Ruling(g) => SizeOf(f) = SizeOf(g)
    BY DEF SizeOf
  <2> QED BY <2>1, <1>3
<1>7. SizeOf(0) = 0
  BY <1>4 DEF SizeOf
<1> QED BY <1>5, <1>6, <1>7

\* The beginnings of a file of the batch.
LEMMA SentFacts ==
  ASSUME NEW f \in Nat, NEW n \in Nat
  PROVE  /\ Sent(f, n) \in Seq(Nat) /\ Len(Sent(f, n)) = n
         /\ Sent(f, 0) = <<>>
         /\ Append(Sent(f, n), Unit(f, n + 1)) = Sent(f, n + 1)
<1>1. ASSUME NEW m \in Nat
      PROVE  /\ Sent(f, m) \in Seq(Nat) /\ Len(Sent(f, m)) = m
             /\ \A k \in 1 .. m : Sent(f, m)[k] = Unit(f, k)
  <2>1. \A k \in 1 .. m : Unit(f, k) \in Nat
    BY DEF Unit
  <2>2. Sent(f, m) \in [1 .. m -> Nat]
    BY <2>1 DEF Sent
  <2>3. Sent(f, m) \in Seq(Nat) /\ Len(Sent(f, m)) = m
    BY <2>2, SeqDef, LenProperties
  <2> QED BY <2>3 DEF Sent
<1>2. Sent(f, 0) = <<>>
  <2>1. Sent(f, 0) \in Seq(Nat) /\ Len(Sent(f, 0)) = 0
    BY <1>1
  <2> QED BY <2>1, EmptySeq
<1>3. Append(Sent(f, n), Unit(f, n + 1)) = Sent(f, n + 1)
  <2> DEFINE a == Append(Sent(f, n), Unit(f, n + 1))
  <2>1. Unit(f, n + 1) \in Nat /\ Sent(f, n) \in Seq(Nat) /\ Len(Sent(f, n)) = n
    BY <1>1 DEF Unit
  <2>2. /\ a \in Seq(Nat) /\ Len(a) = n + 1
        /\ \A k \in 1 .. n : a[k] = Sent(f, n)[k]
        /\ a[n + 1] = Unit(f, n + 1)
    <3> DEFINE b == Sent(f, n)
               u == Unit(f, n + 1)
    <3> HIDE DEF b, u
    <3>1. b \in Seq(Nat) /\ u \in Nat /\ Len(b) = n
      BY <2>1 DEF b, u
    <3>2. /\ Append(b, u) \in Seq(Nat) /\ Len(Append(b, u)) = n + 1
          /\ \A k \in 1 .. n : Append(b, u)[k] = b[k]
          /\ Append(b, u)[n + 1] = u
      BY <3>1, AppendProperties
    <3> QED BY <3>2 DEF b, u
  <2>3. n + 1 \in Nat /\ Sent(f, n + 1) \in Seq(Nat) /\ Len(Sent(f, n + 1)) = n + 1
    BY <1>1
  <2> HIDE DEF a
  <2>4. ASSUME NEW k \in 1 .. n + 1 PROVE a[k] = Sent(f, n + 1)[k]
    <3>1. CASE k \in 1 .. n
      BY <3>1, <2>2, <2>3, <1>1
    <3>2. CASE k \notin 1 .. n
      <4>1. k = n + 1
        BY <3>2
      <4> QED BY <4>1, <2>2, <2>3, <1>1
    <3> QED BY <3>1, <3>2
  <2>5. a = Sent(f, n + 1)
    BY <2>2, <2>3, <2>4, SeqEqual
  <2> QED BY <2>5 DEF a
<1> QED BY <1>1, <1>2, <1>3

\* Cutting the beginning of a file to size; on a full card it does not grow.
LEMMA CutToSize ==
  ASSUME NEW f \in Nat, NEW n \in Nat, NEW m \in Nat, free \in Nat, m <= n \/ free = 0
  PROVE  SizedTo(Sent(f, n), m) = Sent(f, IF m <= n THEN m ELSE n)
<1>1. Len(Sent(f, n)) = n
  BY SentFacts
<1>2. (IF m - n > free THEN n + free ELSE m) = (IF m <= n THEN m ELSE n)
  OBVIOUS
<1> DEFINE l == IF m <= n THEN m ELSE n
<1>3. l \in Nat /\ l <= n
  OBVIOUS
<1>4. SizedTo(Sent(f, n), m) = [k \in 1 .. l |-> IF k <= n THEN Sent(f, n)[k] ELSE 0]
  BY <1>1, <1>2 DEF SizedTo
<1> HIDE DEF l
<1>5. \A k \in 1 .. l : (IF k <= n THEN Sent(f, n)[k] ELSE 0) = Unit(f, k)
  <2> SUFFICES ASSUME NEW k \in 1 .. l
               PROVE  (IF k <= n THEN Sent(f, n)[k] ELSE 0) = Unit(f, k)
    OBVIOUS
  <2>1. k \in 1 .. n /\ k <= n
    BY <1>3
  <2> QED BY <2>1 DEF Sent
<1>6. SizedTo(Sent(f, n), m) = Sent(f, l)
  BY <1>4, <1>5 DEF Sent
<1> QED BY <1>6 DEF l

\* A packet with the awaited number was taken.
LEMMA TakesNext ==
  ASSUME packetno \in 0 .. Mod - 1, packetno # 0, packetno' = (packetno + 1) % Mod
  PROVE  /\ Taken = packetno - 1 /\ Taken' = packetno
         /\ packetno' \in 0 .. Mod - 1 /\ packetno' # 1
<1>1. packetno' = IF packetno = Mod - 1 THEN 0 ELSE packetno + 1
  BY NextNumber
<1> QED BY <1>1, ModAssumption DEF Taken

\* Only what the receiver says next changes.
LEMMA FilesKept ==
  ASSUME Files, UNCHANGED <<packetno, ymodem, rinfo, rfile>>,
         trychar' \in {"C", "NAK", "none"}, Storing \/ Ended => trychar' = "none"
  PROVE  /\ Files' /\ Taken' = Taken /\ curfile' = curfile
         /\ Header' = Header /\ Named' = Named /\ Storing' = Storing /\ Ended' = Ended
<1>1. /\ UNCHANGED <<packetno, ymodem, curfile, filename, size, fil, opened, disk, closed, free>>
  BY DEF rinfo, rfile
<1>2. Header' = Header /\ Named' = Named /\ Storing' = Storing /\ Ended' = Ended /\ Taken' = Taken
  BY <1>1 DEF Header, Named, Storing, Ended, Taken
<1>3. \A f, n : Holds(f, n)' = Holds(f, n)
  BY <1>1 DEF Holds
<1>4. \A f : Finished(f)' = Finished(f)
  BY <1>1, <1>3 DEF Finished
<1>5. Card'
  BY <1>1, <1>2, <1>3, <1>4 DEF Files, Card
<1>6. Place'
  BY <1>1, <1>2 DEF Files, Place, RecvType, Current
<1> QED BY <1>1, <1>2, <1>5, <1>6 DEF Files

\* The first EOT after the last block closes the file: cut, or as much of it as the
\* full card took.
LEMMA FileEnds ==
  ASSUME Orderly, Files, Storing, Taken = Batch[curfile].sent, CloseFile,
         ymodem' = 2, UNCHANGED <<packetno, rinfo, opened, trychar>>
  PROVE  Files' /\ Ended' /\ curfile' = curfile
<1>0. PICK c \in 1 .. Len(Batch) : c = curfile
  BY BatchFacts DEF Files, Place, Storing
<1>1. /\ c \in 1 .. Len(Batch) /\ c \in 0 .. Len(Batch) /\ opened = Stored(c) /\ fil = "open" /\ trychar = "none"
      /\ free \in Nat /\ disk \in [Names -> Seq(Nat)] /\ size = SizeOf(c) /\ ~Named
  BY <1>0 DEF Files, Place, RecvType, Current, Storing, Named
<1>2. /\ UNCHANGED <<packetno, curfile, filename, size, opened, trychar>>
      /\ Taken' = Taken /\ Ended' /\ ~Storing' /\ ~Named' /\ ~Header' /\ packetno # 1
      /\ ~Header
  BY DEF rinfo, Taken, Ended, Storing, Named, Header
<1>3. /\ c \in Nat /\ Stored(c) \in Names /\ SizeOf(c) \in Int /\ SizeOf(c) <= Batch[c].sent
      /\ Batch[c].sent \in Nat /\ Goal(c) \in 0 .. Batch[c].sent
      /\ Goal(c) = IF SizeOf(c) > 0 THEN SizeOf(c) ELSE Batch[c].sent
  <2>1. SizeOf(c) <= Batch[c].sent
    BY <1>1, BatchFacts
  <2> QED BY <2>1, <1>1, BatchFacts DEF Goal
<1>4. PICK n \in 0 .. Batch[c].sent :
          Holds(c, n) /\ (n = Batch[c].sent \/ free = 0)
  <2>1. Holds(c, Taken) \/ (free = 0 /\ \E n \in 0 .. Taken : Holds(c, n))
    BY <1>0 DEF Files, Card
  <2> QED BY <2>1, <1>0, <1>3
<1>5. disk[Stored(c)] = Sent(c, n) /\ Len(Sent(c, n)) = n /\ n \in Nat /\ n <= Batch[c].sent
  <2>1. n \in Nat /\ n <= Batch[c].sent
    BY <1>3
  <2>2. Len(Sent(c, n)) = n
    BY <2>1, <1>3, SentFacts
  <2> QED BY <2>1, <2>2, <1>4 DEF Holds
<1>6. PICK m \in 0 .. n : m = IF SizeOf(c) > 0 /\ SizeOf(c) <= n THEN SizeOf(c) ELSE n
  <2>1. (IF SizeOf(c) > 0 /\ SizeOf(c) <= n THEN SizeOf(c) ELSE n) \in 0 .. n
    BY <1>3, <1>5
  <2> QED BY <2>1
<1>7. /\ fil' = "closed" /\ closed' = closed \cup {Stored(c)}
      /\ disk' = [disk EXCEPT ![Stored(c)] = Sent(c, m)]
      /\ free' = (free + n) - m
  <2>1. /\ fil' = "closed" /\ closed' = closed \cup {Stored(c)}
        /\ disk' = IF SizeOf(c) > 0 THEN [disk EXCEPT ![Stored(c)] = SizedTo(Sent(c, n), SizeOf(c))]
                   ELSE disk
        /\ free' = (free + Len(disk[Stored(c)])) - Len(disk'[Stored(c)])
    BY <1>1, <1>5 DEF CloseFile
  <2>2. SizeOf(c) > 0 => SizedTo(Sent(c, n), SizeOf(c)) = Sent(c, m)
    <3>1. SizeOf(c) <= n \/ free = 0
      BY <1>3, <1>4
    <3>2. SizeOf(c) > 0 =>
              SizedTo(Sent(c, n), SizeOf(c)) = Sent(c, IF SizeOf(c) <= n THEN SizeOf(c) ELSE n)
      BY <3>1, <1>1, <1>3, <1>5, CutToSize
    <3>3. SizeOf(c) > 0 => m = IF SizeOf(c) <= n THEN SizeOf(c) ELSE n
      BY <1>6
    <3> QED BY <3>2, <3>3
  <2>3. ~(SizeOf(c) > 0) => m = n
    BY <1>6
  <2>4. disk' = [disk EXCEPT ![Stored(c)] = Sent(c, m)]
    <3>1. CASE SizeOf(c) > 0
      BY <3>1, <2>1, <2>2
    <3>2. CASE ~(SizeOf(c) > 0)
      BY <3>2, <2>1, <2>3, <1>1, <1>3, <1>5
    <3> QED BY <3>1, <3>2
  <2>5. disk'[Stored(c)] = Sent(c, m) /\ Len(Sent(c, m)) = m
    <3>1. m \in Nat
      BY <1>5, <1>6
    <3>2. Len(Sent(c, m)) = m
      BY <3>1, <1>3, SentFacts
    <3>3. Stored(c) \in DOMAIN disk
      BY <1>1, <1>3
    <3> QED BY <2>4, <3>2, <3>3, Zenon
  <2> QED BY <2>1, <2>4, <2>5, <1>5
<1>8. m = Goal(c) \/ (free = 0 /\ free' = 0)
  <2>1. free' = (free + n) - m
    BY <1>7
  <2> QED BY <2>1, <1>1, <1>3, <1>4, <1>5, <1>6
<1>9. n = 0 => free' = free
  BY <1>1, <1>6, <1>7
<1>10. /\ free' \in Nat /\ Sent(c, m) \in Seq(Nat) /\ m \in Nat /\ m <= Batch[c].sent
       /\ disk' \in [Names -> Seq(Nat)] /\ disk'[Stored(c)] = Sent(c, m)
  <2>1. m \in Nat /\ (free + n) - m \in Nat /\ m <= Batch[c].sent
    BY <1>1, <1>3, <1>5, <1>6
  <2>2. Sent(c, m) \in Seq(Nat)
    BY <2>1, <1>3, SentFacts
  <2> QED BY <2>1, <2>2, <1>1, <1>3, <1>7, Zenon
<1>11. RecvType'
  BY <1>1, <1>2, <1>10 DEF Files, Place, RecvType
<1>12. ASSUME NEW f \in 1 .. Len(Batch)
       PROVE  Stored(f) \in closed' <=> f < curfile' \/ (f = curfile' /\ ~Storing')
  <2>1. Stored(f) \in closed <=> f < c \/ (f = c /\ ~Storing)
    BY <1>0 DEF Files, Place
  <2>2. f # c => Stored(f) # Stored(c)
    BY <1>1 DEF Orderly
  <2> QED BY <2>1, <2>2, <1>0, <1>2, <1>7
<1>13. Place'
  <2>1. size' = SizeOf(Current)'
    BY <1>0, <1>1, <1>2 DEF Current
  <2>2. Taken' \in 1 .. Batch[c].sent /\ Taken' = Batch[c].sent /\ c >= 1
    BY <1>0, <1>1, <1>2 DEF Files, Place
  <2> QED BY <2>1, <2>2, <1>0, <1>1, <1>2, <1>7, <1>11, <1>12 DEF Place
<1>14. Holds(c, m)'
  BY <1>3, <1>10 DEF Holds
<1>15. ASSUME NEW f \in 1 .. Len(Batch), f # c, NEW k \in Nat PROVE Holds(f, k)' = Holds(f, k)
  <2>1. Stored(f) # Stored(c) /\ Stored(f) \in Names
    BY <1>1, <1>15, BatchFacts DEF Orderly
  <2>2. disk'[Stored(f)] = disk[Stored(f)]
    BY <2>1, <1>1, <1>3, <1>7
  <2> QED BY <2>2 DEF Holds
<1>16. Card'
  <2>1. ASSUME NEW f \in 1 .. Len(Batch), f > c PROVE Holds(f, 0)'
    BY <2>1, <1>1, <1>3, <1>0, <1>15 DEF Files, Card
  <2>2. ASSUME NEW f \in 1 .. Len(Batch), f < c PROVE Finished(f)'
    <3>1. Finished(f) /\ f # c
      BY <2>2, <1>0, <1>3 DEF Files, Card
    <3>2. Goal(f) \in Nat /\ Batch[f].sent \in Nat
      BY BatchFacts
    <3>3. CASE Holds(f, Goal(f))
      BY <3>1, <3>2, <3>3, <1>15 DEF Finished
    <3>4. CASE ~Holds(f, Goal(f))
      <4>1. Holds(c, 0)
        <5>1. f \in 1 .. c - 1
          BY <2>2, <1>1, <1>3
        <5> QED BY <5>1, <3>4, <1>0 DEF Files, Card
      <4>2. Len(Sent(c, 0)) = 0
        BY <1>3, SentFacts
      <4>3. n = 0
        BY <4>1, <4>2, <1>5 DEF Holds
      <4>4. free = 0 /\ \E k \in 0 .. Batch[f].sent : Holds(f, k)
        BY <3>1, <3>4 DEF Finished
      <4>5. \E k \in 0 .. Batch[f].sent : Holds(f, k)'
        BY <4>4, <3>1, <3>2, <1>15
      <4> QED BY <4>3, <4>4, <4>5, <1>9 DEF Finished
    <3> QED BY <3>3, <3>4
  <2>3. Finished(c)'
    <3>1. m \in 0 .. Batch[c].sent
      BY <1>3, <1>10
    <3> QED BY <3>1, <1>8, <1>14 DEF Finished
  <2> QED BY <2>1, <2>2, <2>3, <1>0, <1>2 DEF Card
<1> QED BY <1>2, <1>13, <1>16 DEF Files

\* The first block after a name opens the file that the name, or the command line, gives.
LEMMA FileOpens ==
  ASSUME Orderly, Files, Named, NEW p, p.data.blk = Unit(curfile + 1, 1), Data(p)
  PROVE  Files' /\ Storing' /\ Taken' = 1 /\ curfile' = curfile + 1
<1>1. PICK c \in 1 .. Len(Batch) : c = curfile + 1
  BY BatchFacts DEF Files, Place, Orderly
<1>2. /\ filename = Batch[c].name /\ curfile \in Nat /\ c \in Nat /\ free \in Nat
      /\ disk \in [Names -> Seq(Nat)] /\ size = SizeOf(c)
      /\ packetno = 1 /\ ymodem = 1 /\ Named /\ ~Storing /\ ~Header /\ ~Ended
  BY <1>1 DEF Files, Place, RecvType, Current, Named, Storing, Header, Ended
<1>3. /\ Len(Args) \in Nat /\ Stored(c) \in Names /\ Batch[c].sent \in Nat /\ Batch[c].sent >= 1
  BY <1>1, BatchFacts, NamesAssumption, LenProperties
<1>4. Target = Stored(c)
  <2>1. curfile < Len(Args) <=> c <= Len(Args)
    BY <1>1, <1>2, <1>3
  <2> QED BY <2>1, <1>1, <1>2 DEF Target, Stored
<1>5. Holds(c, 0) /\ disk[Stored(c)] = <<>> /\ Len(disk[Stored(c)]) = 0
  <2>1. Holds(c, 0)
    BY <1>1, <1>2 DEF Files, Card
  <2> QED BY <2>1, <1>2, SentFacts, EmptySeq DEF Holds
<1>6. PICK n \in 0 .. 1 : n = IF free > 0 THEN 1 ELSE 0
  OBVIOUS
<1>7. Written(<<>>, free, p.data.blk) = Sent(c, n)
  <2>1. Sent(c, 0) = <<>> /\ Append(Sent(c, 0), Unit(c, 0 + 1)) = Sent(c, 0 + 1)
    <3>1. 0 \in Nat
      OBVIOUS
    <3> QED BY <3>1, <1>2, SentFacts, Zenon
  <2> QED BY <2>1, <1>1, <1>6 DEF Written
<1>8. /\ fil' = "open" /\ opened' = Stored(c) /\ closed' = closed \ {Stored(c)}
      /\ disk' = [disk EXCEPT ![Stored(c)] = Sent(c, n)]
      /\ free' = free - n /\ curfile' = c /\ size' = size /\ ymodem' = 1 /\ trychar' = "none"
      /\ packetno' = (packetno + 1) % Mod
  <2>1. free + Len(disk[Target]) = free
    BY <1>2, <1>4, <1>5
  <2>2. (IF free > 0 THEN free - 1 ELSE 0) = free - n
    BY <1>2, <1>6
  <2>3. /\ fil' = "open" /\ opened' = Target /\ closed' = closed \ {Target}
        /\ disk' = [disk EXCEPT ![Target] = Written(<<>>, free, p.data.blk)]
        /\ free' = (IF free > 0 THEN free - 1 ELSE 0) /\ curfile' = curfile + 1
    BY <2>1, <1>2 DEF Data, Store
  <2> QED BY <2>2, <2>3, <1>1, <1>2, <1>4, <1>7 DEF Data
<1>9. Taken' = 1 /\ packetno' \in 0 .. Mod - 1 /\ packetno' # 1
  <2>1. packetno \in 0 .. Mod - 1 /\ packetno # 0
    BY <1>2, ModAssumption
  <2> QED BY <2>1, <1>2, <1>8, TakesNext
<1>10. Storing' /\ ~Named' /\ ~Header'
  BY <1>8, <1>9 DEF Storing, Named, Header
<1>11. /\ free' \in Nat /\ Sent(c, n) \in Seq(Nat) /\ n \in Nat
       /\ disk' \in [Names -> Seq(Nat)] /\ disk'[Stored(c)] = Sent(c, n)
  <2>1. n \in Nat /\ free - n \in Nat
    BY <1>2, <1>6
  <2>2. Sent(c, n) \in Seq(Nat)
    BY <2>1, <1>2, SentFacts
  <2> QED BY <2>1, <2>2, <1>2, <1>3, <1>8
<1>12. RecvType'
  BY <1>3, <1>8, <1>9, <1>11 DEF RecvType
<1>13. ASSUME NEW f \in 1 .. Len(Batch)
       PROVE  Stored(f) \in closed' <=> f < c
  <2>1. Stored(f) \in closed <=> f < curfile \/ (f = curfile /\ ~Storing)
    BY DEF Files, Place
  <2>2. f # c => Stored(f) # Stored(c)
    BY <1>1 DEF Orderly
  <2>3. f < c <=> f < curfile \/ f = curfile
    BY <1>1, <1>2
  <2> QED BY <2>1, <2>2, <2>3, <1>1, <1>2, <1>8
<1>14. Place'
  <2>1. size' = SizeOf(Current)'
    BY <1>2, <1>8, <1>10 DEF Current, SizeOf, Ruling
  <2>2. c \in 0 .. Len(Batch) /\ c >= 1 /\ Taken' \in 1 .. Batch[c].sent
    BY <1>1, <1>3, <1>9
  <2> QED BY <2>1, <2>2, <1>8, <1>9, <1>10, <1>12, <1>13 DEF Place
<1>15. Holds(c, n)'
  BY <1>3, <1>6, <1>11 DEF Holds
<1>16. ASSUME NEW f \in 1 .. Len(Batch), f # c, NEW k \in Nat PROVE Holds(f, k)' = Holds(f, k)
  <2>1. Stored(f) # Stored(c) /\ Stored(f) \in Names
    BY <1>1, <1>16, BatchFacts DEF Orderly
  <2>2. disk'[Stored(f)] = disk[Stored(f)]
    BY <2>1, <1>2, <1>3, <1>8
  <2> QED BY <2>2 DEF Holds
<1>17. Card'
  <2>1. ASSUME NEW f \in 1 .. Len(Batch), f > c PROVE Holds(f, 0)'
    <3>1. f > curfile /\ f # c
      BY <2>1, <1>1, <1>2
    <3> QED BY <3>1, <1>16 DEF Files, Card
  <2>2. ASSUME NEW f \in 1 .. Len(Batch), f < c PROVE Finished(f)'
    <3>1. Finished(f) /\ f # c
      <4>1. f < curfile \/ f = curfile
        BY <2>2, <1>1, <1>2
      <4> QED BY <4>1, <2>2, <1>1, <1>2 DEF Files, Card
    <3>2. Goal(f) \in Nat /\ Batch[f].sent \in Nat
      BY BatchFacts
    <3>3. free = 0 => free' = 0
      BY <1>6, <1>8
    <3>4. Holds(f, Goal(f))' = Holds(f, Goal(f))
      BY <3>1, <3>2, <1>16
    <3>5. \A k \in 0 .. Batch[f].sent : Holds(f, k)' = Holds(f, k)
      BY <3>1, <3>2, <1>16
    <3> QED BY <3>1, <3>3, <3>4, <3>5 DEF Finished
  <2>3. Holds(c, 1)' \/ (free' = 0 /\ \E k \in 0 .. 1 : Holds(c, k)')
    BY <1>2, <1>6, <1>8, <1>15
  <2>4. ASSUME NEW f \in 1 .. c - 1, ~Holds(f, Goal(f))' PROVE Holds(c, 0)'
    <3>1. f \in 1 .. Len(Batch) /\ f # c /\ (f < curfile \/ f = curfile)
      BY <2>4, <1>1, <1>2
    <3>2. Goal(f) \in Nat
      BY <3>1, BatchFacts
    <3>3. ~Holds(f, Goal(f))
      BY <2>4, <3>1, <3>2, <1>16
    <3>4. free = 0
      BY <3>1, <3>3, <1>2 DEF Files, Card, Finished
    <3>5. n = 0
      BY <3>4, <1>6
    <3> QED BY <3>5, <1>15
  <2> QED BY <2>1, <2>2, <2>3, <2>4, <1>8, <1>9, <1>10 DEF Card
<1> QED BY <1>1, <1>8, <1>9, <1>10, <1>14, <1>17 DEF Files

\* The next block goes behind the others, if there is room.
LEMMA FileGrows ==
  ASSUME Orderly, Files, Storing, Taken < Batch[curfile].sent,
         NEW p, p.data.blk = Unit(curfile, Taken + 1), Data(p)
  PROVE  Files' /\ Storing' /\ Taken' = Taken + 1 /\ curfile' = curfile
<1>1. PICK c \in 1 .. Len(Batch) : c = curfile
  BY BatchFacts DEF Files, Place, Storing
<1>2. /\ c \in Nat /\ free \in Nat /\ opened = Stored(c) /\ fil = "open"
      /\ disk \in [Names -> Seq(Nat)] /\ size = SizeOf(c)
      /\ packetno # 1 /\ ymodem = 1 /\ ~Named /\ Taken \in Nat /\ Taken >= 1
      /\ packetno \in 0 .. Mod - 1
  BY <1>1 DEF Files, Place, RecvType, Current, Named, Storing
<1>3. /\ Stored(c) \in Names /\ Batch[c].sent \in Nat
  BY <1>1, BatchFacts
<1>4. PICK n \in 0 .. Taken : Holds(c, n) /\ (n = Taken \/ free = 0)
  <2>1. Holds(c, Taken) \/ (free = 0 /\ \E n \in 0 .. Taken : Holds(c, n))
    BY <1>1 DEF Files, Card
  <2> QED BY <2>1, <1>2
<1>5. PICK d \in 0 .. 1 : d = IF free > 0 THEN 1 ELSE 0
  OBVIOUS
<1>6. n \in Nat /\ n + d \in Nat /\ (d = 1 => n = Taken) /\ n + d <= Taken + 1
      /\ (n + d = Taken + 1 \/ (free = 0 /\ n + d <= Taken))
  BY <1>2, <1>4, <1>5
<1>7. Written(disk[opened], free, p.data.blk) = Sent(c, n + d)
  <2>1. disk[opened] = Sent(c, n)
    BY <1>2, <1>4 DEF Holds
  <2>2. Append(Sent(c, n), Unit(c, n + 1)) = Sent(c, n + 1)
    BY <1>2, <1>6, SentFacts, Zenon
  <2>3. CASE free > 0
    BY <2>1, <2>2, <2>3, <1>1, <1>2, <1>5, <1>6 DEF Written
  <2>4. CASE ~(free > 0)
    BY <2>1, <2>4, <1>5, <1>6 DEF Written
  <2> QED BY <2>3, <2>4
<1>8. /\ fil' = "open" /\ opened' = opened /\ closed' = closed
      /\ disk' = [disk EXCEPT ![Stored(c)] = Sent(c, n + d)]
      /\ free' = free - d /\ curfile' = c /\ size' = size /\ ymodem' = 1 /\ trychar' = "none"
      /\ packetno' = (packetno + 1) % Mod /\ p.num # 0 /\ p.num = packetno
  <2>1. (IF free > 0 THEN free - 1 ELSE 0) = free - d
    BY <1>2, <1>5
  <2>2. /\ disk' = [disk EXCEPT ![opened] = Written(disk[opened], free, p.data.blk)]
        /\ free' = (IF free > 0 THEN free - 1 ELSE 0)
        /\ UNCHANGED <<filename, curfile, fil, opened, closed>>
    BY <1>2 DEF Data, Store
  <2> QED BY <2>1, <2>2, <1>1, <1>2, <1>7 DEF Data
<1>9. Taken' = Taken + 1 /\ packetno' \in 0 .. Mod - 1 /\ packetno' # 1
  <2>1. packetno # 0
    BY <1>8
  <2>2. Taken = packetno - 1 /\ Taken' = packetno /\ packetno' \in 0 .. Mod - 1 /\ packetno' # 1
    BY <2>1, <1>2, <1>8, TakesNext
  <2> QED BY <2>2, <1>2, ModAssumption
<1>10. Storing' /\ ~Named' /\ ~Header'
  BY <1>8, <1>9 DEF Storing, Named, Header
<1>11. /\ free' \in Nat /\ Sent(c, n + d) \in Seq(Nat)
       /\ disk' \in [Names -> Seq(Nat)] /\ disk'[Stored(c)] = Sent(c, n + d)
  <2>1. free - d \in Nat
    BY <1>2, <1>5
  <2>2. Sent(c, n + d) \in Seq(Nat)
    BY <1>2, <1>6, SentFacts
  <2> QED BY <2>1, <2>2, <1>2, <1>3, <1>8
<1>12. RecvType'
  BY <1>2, <1>3, <1>8, <1>9, <1>11 DEF RecvType
<1>13. Place'
  <2>1. size' = SizeOf(Current)'
    BY <1>2, <1>8, <1>10 DEF Current, SizeOf, Ruling
  <2>2. c \in 0 .. Len(Batch) /\ c >= 1 /\ Taken' \in 1 .. Batch[c].sent
    BY <1>1, <1>2, <1>3, <1>9
  <2>3. ASSUME NEW f \in 1 .. Len(Batch) PROVE Stored(f) \in closed' <=> f < c
    BY <1>1, <1>8 DEF Files, Place
  <2> QED BY <2>1, <2>2, <2>3, <1>2, <1>8, <1>9, <1>10, <1>12 DEF Place
<1>14. Holds(c, n + d)'
  <2>1. n + d \in 0 .. Batch[c].sent
    BY <1>1, <1>2, <1>3, <1>6
  <2> QED BY <2>1, <1>11 DEF Holds
<1>15. ASSUME NEW f \in 1 .. Len(Batch), f # c, NEW k \in Nat PROVE Holds(f, k)' = Holds(f, k)
  <2>1. Stored(f) # Stored(c) /\ Stored(f) \in Names
    BY <1>1, <1>15, BatchFacts DEF Orderly
  <2>2. disk'[Stored(f)] = disk[Stored(f)]
    BY <2>1, <1>2, <1>3, <1>8
  <2> QED BY <2>2 DEF Holds
<1>16. free = 0 => free' = 0 /\ d = 0
  BY <1>5, <1>8
<1>17. Card'
  <2>1. ASSUME NEW f \in 1 .. Len(Batch), f > c PROVE Holds(f, 0)'
    BY <2>1, <1>1, <1>2, <1>15 DEF Files, Card
  <2>2. ASSUME NEW f \in 1 .. Len(Batch), f < c PROVE Finished(f)'
    <3>1. Finished(f) /\ f # c
      BY <2>2, <1>1, <1>2 DEF Files, Card
    <3>2. Goal(f) \in Nat /\ Batch[f].sent \in Nat
      BY BatchFacts
    <3>3. Holds(f, Goal(f))' = Holds(f, Goal(f))
      BY <3>1, <3>2, <1>15
    <3>4. \A k \in 0 .. Batch[f].sent : Holds(f, k)' = Holds(f, k)
      BY <3>1, <3>2, <1>15
    <3> QED BY <3>1, <3>3, <3>4, <1>16 DEF Finished
  <2>3. Holds(c, Taken)' \/ (free' = 0 /\ \E k \in 0 .. Taken' : Holds(c, k)')
    <3>1. CASE n + d = Taken + 1
      BY <3>1, <1>14, <1>9 DEF Holds
    <3>2. CASE free = 0 /\ n + d <= Taken
      <4>1. n + d \in 0 .. Taken'
        BY <3>2, <1>2, <1>6, <1>9
      <4> QED BY <4>1, <3>2, <1>14, <1>16
    <3> QED BY <3>1, <3>2, <1>6
  <2>4. ASSUME NEW f \in 1 .. c - 1, ~Holds(f, Goal(f))' PROVE Holds(c, 0)'
    <3>1. f \in 1 .. Len(Batch) /\ f # c /\ f < c /\ f \in 1 .. curfile - 1
      BY <2>4, <1>1, <1>2
    <3>2. Goal(f) \in Nat
      BY <3>1, BatchFacts
    <3>3. ~Holds(f, Goal(f))
      BY <2>4, <3>1, <3>2, <1>15
    <3>4. free = 0 /\ Holds(c, 0)
      BY <3>1, <3>3, <1>1 DEF Files, Card, Finished
    <3>5. n = 0
      <4>1. Sent(c, n) = Sent(c, 0) /\ Len(Sent(c, n)) = n /\ Len(Sent(c, 0)) = 0
        BY <3>4, <1>2, <1>4, <1>6, SentFacts DEF Holds
      <4> QED BY <4>1
    <3>6. n + d = 0
      BY <3>4, <3>5, <1>16
    <3> QED BY <3>6, <1>14, Zenon
  <2> QED BY <2>1, <2>2, <2>3, <2>4, <1>8, <1>9, <1>10 DEF Card
<1> QED BY <1>1, <1>8, <1>9, <1>10, <1>13, <1>17 DEF Files

\* A name, with its size or the one that came with the name before.
LEMMA NameTaken ==
  ASSUME Orderly, Files, Header \/ Named, curfile < Len(Batch),
         NEW p, Metadata(p), ~p.data.empty, p.data.name = Batch[curfile + 1].name,
         p.data.sized = Batch[curfile + 1].sized, p.data.size = Batch[curfile + 1].len
  PROVE  Files' /\ Named' /\ curfile' = curfile
<1>1. PICK c \in 1 .. Len(Batch) : c = curfile + 1
  BY BatchFacts DEF Files, Place, Orderly
<1>2. /\ curfile \in Nat /\ c \in Nat /\ packetno = 1 /\ ~Storing /\ ~Ended
      /\ curfile \in 0 .. Len(Batch) /\ size = SizeOf(Current)
  BY <1>1 DEF Files, Place, Named, Storing, Header, Ended
<1>3. /\ filename' = Batch[c].name /\ ymodem' = 1 /\ trychar' = "C"
      /\ size' = (IF Batch[c].sized THEN AsInt(Batch[c].len) ELSE size)
      /\ UNCHANGED <<packetno, curfile, fil, opened, disk, closed, free>>
  BY <1>1 DEF Metadata, rfile
<1>4. Named' /\ ~Storing' /\ ~Header' /\ ~Ended'
  BY <1>2, <1>3 DEF Named, Storing, Header, Ended
<1>5. size' = SizeOf(c)
  <2>1. /\ Batch[c].sized => SizeOf(c) = AsInt(Batch[c].len)
        /\ ~Batch[c].sized => SizeOf(c) = SizeOf(c - 1)
    BY NextRuling
  <2>2. size = (IF Named THEN SizeOf(c) ELSE SizeOf(c - 1))
    BY <1>1, <1>2 DEF Current
  <2> QED BY <2>1, <2>2, <1>3
<1>6. \A f, n : Holds(f, n)' = Holds(f, n)
  BY <1>3 DEF Holds
<1>7. \A f : Finished(f)' = Finished(f)
  BY <1>3, <1>6 DEF Finished
<1>8. Card'
  BY <1>2, <1>3, <1>4, <1>6, <1>7 DEF Files, Card
<1>9. Place'
  <2>1. size' = SizeOf(Current)'
    BY <1>1, <1>3, <1>4, <1>5 DEF Current, SizeOf, Ruling
  <2>2. RecvType'
    BY <1>3 DEF Files, Place, RecvType
  <2>3. packetno = 1 => fil = (IF curfile = 0 THEN "uninit" ELSE "closed")
    BY DEF Files, Place
  <2>4. \A f \in 1 .. Len(Batch) : Stored(f) \in closed <=> f < curfile \/ f = curfile
    BY <1>2 DEF Files, Place
  <2> QED BY <2>1, <2>2, <2>3, <2>4, <1>1, <1>2, <1>3, <1>4 DEF Place
<1> QED BY <1>3, <1>4, <1>8, <1>9 DEF Files

\* What the sender of a batch says.
LEMMA YPacketFacts ==
  ASSUME Orderly, yfile \in 1 .. Len(Batch) + 1,
         IF yfile <= Len(Batch) THEN yblock \in 0 .. Batch[yfile].sent ELSE yblock = 0
  PROVE  /\ YPacket \in Packets /\ YPacket.t = "PKT" /\ YPacket.num = yblock
         /\ IF yfile <= Len(Batch)
            THEN /\ ~YPacket.data.empty /\ YPacket.data.blk = Unit(yfile, yblock)
                 /\ YPacket.data.size = Batch[yfile].len
                 /\ yblock = 0 => /\ YPacket.data.name = Batch[yfile].name
                                  /\ YPacket.data.sized = Batch[yfile].sized
            ELSE YPacket.data.empty
<1>1. Len(Batch) \in Nat /\ yfile \in Nat /\ Mod \in Nat /\ 0 \in 0 .. Mod - 1
  BY ModAssumption, LenProperties DEF Orderly
<1>2. yblock \in 0 .. Mod - 1 /\ yblock \in Nat
  <2>1. CASE yfile <= Len(Batch)
    <3>1. yfile \in 1 .. Len(Batch)
      BY <2>1, <1>1
    <3>2. Batch[yfile].sent \in Nat /\ Batch[yfile].sent < Mod
      BY <3>1, BatchFacts
    <3> QED BY <3>2, <2>1, <1>1
  <2>2. CASE ~(yfile <= Len(Batch))
    BY <2>2, <1>1
  <2> QED BY <2>1, <2>2
<1>3. yblock % Mod = yblock
  BY <1>1, <1>2
<1> DEFINE d == YPacket.data
<1>4. /\ YPacket = Packet(yblock % Mod, TRUE, d)
      /\ IF yfile <= Len(Batch)
         THEN d = [blk |-> Unit(yfile, yblock), empty |-> FALSE,
                   name |-> IF yblock = 0 THEN Batch[yfile].name ELSE "GARBAGE",
                   sized |-> yblock = 0 /\ Batch[yfile].sized,
                   size |-> Batch[yfile].len]
         ELSE d = [blk |-> 0, empty |-> TRUE, name |-> "GARBAGE",
                   sized |-> FALSE, size |-> 0]
  BY <1>1 DEF YPacket, Packet
<1> HIDE DEF d
<1>5. d \in Contents
  <2>0. /\ "GARBAGE" \in Names
        /\ \A b, n, z : \A e, q \in BOOLEAN :
              b \in Nat /\ n \in Names /\ z \in Nat =>
                 [blk |-> b, empty |-> e, name |-> n, sized |-> q, size |-> z] \in Contents
    BY NamesAssumption DEF Contents
  <2>1. CASE yfile <= Len(Batch)
    <3>1. yfile \in 1 .. Len(Batch)
      BY <2>1, <1>1
    <3>2. Batch[yfile].name \in Names /\ Batch[yfile].sized \in BOOLEAN /\ Batch[yfile].len \in Nat
      BY <3>1, BatchFacts
    <3>3. Unit(yfile, yblock) \in Nat
      BY <1>1, <1>2 DEF Unit
    <3>4. /\ (IF yblock = 0 THEN Batch[yfile].name ELSE "GARBAGE") \in Names
          /\ (yblock = 0 /\ Batch[yfile].sized) \in BOOLEAN
      BY <3>2, <2>0, Zenon
    <3>5. [blk |-> Unit(yfile, yblock), empty |-> FALSE,
           name |-> IF yblock = 0 THEN Batch[yfile].name ELSE "GARBAGE",
           sized |-> yblock = 0 /\ Batch[yfile].sized,
           size |-> Batch[yfile].len] \in Contents
      BY <3>2, <3>3, <3>4, <2>0, Zenon
    <3> QED BY <3>5, <2>1, <1>4, Zenon
  <2>2. CASE ~(yfile <= Len(Batch))
    <3>1. 0 \in Nat
      OBVIOUS
    <3>2. [blk |-> 0, empty |-> TRUE, name |-> "GARBAGE", sized |-> FALSE, size |-> 0] \in Contents
      BY <3>1, <2>0, Zenon
    <3> QED BY <3>2, <2>2, <1>4, Zenon
  <2> QED BY <2>1, <2>2
<1>6. YPacket \in Packets /\ YPacket.t = "PKT" /\ YPacket.num = yblock
  BY <1>2, <1>3, <1>4, <1>5 DEF Packets, Packet
<1>7. IF yfile <= Len(Batch)
      THEN /\ ~d.empty /\ d.blk = Unit(yfile, yblock)
           /\ d.size = Batch[yfile].len
           /\ yblock = 0 => /\ d.name = Batch[yfile].name
                            /\ d.sized = Batch[yfile].sized
      ELSE d.empty
  <2>1. CASE yfile <= Len(Batch)
    <3>1. ~d.empty /\ d.blk = Unit(yfile, yblock) /\ d.size = Batch[yfile].len
      BY <2>1, <1>4
    <3>2. ASSUME yblock = 0 PROVE d.name = Batch[yfile].name /\ d.sized = Batch[yfile].sized
      <4>1. Batch[yfile].sized \in BOOLEAN
        <5>1. yfile \in 1 .. Len(Batch)
          BY <2>1, <1>1
        <5> QED BY <5>1, BatchFacts
      <4>2. d.sized = (TRUE /\ Batch[yfile].sized) /\ d.name = Batch[yfile].name
        BY <3>2, <2>1, <1>4
      <4> QED BY <4>1, <4>2
    <3> QED BY <3>1, <3>2, <2>1
  <2>2. CASE ~(yfile <= Len(Batch))
    BY <2>2, <1>4
  <2> QED BY <2>1, <2>2
<1> QED BY <1>6, <1>7 DEF d

YItems == Bytes \cup Packets

\* What the sender of a batch and the noise may put on the line.
LEMMA YItemFacts ==
  /\ \A b \in {"JUNK", "EOT", "CAN", "ACK"} : Byte(b) \in YItems
  /\ \A p \in YItems : p.t = "PKT" => p \in Packets /\ [p EXCEPT !.ok = FALSE] \in YItems
<1>1. \A b \in {"JUNK", "EOT", "CAN", "ACK"} : Byte(b) \in YItems
  BY DEF YItems, Bytes, Byte
<1>2. ASSUME NEW p \in YItems, p.t = "PKT"
      PROVE  p \in Packets /\ [p EXCEPT !.ok = FALSE] \in YItems
  <2>1. p \in Packets
    BY <1>2 DEF YItems, Bytes
  <2>2. [p EXCEPT !.ok = FALSE] \in Packets
    BY <2>1 DEF Packets
  <2> QED BY <2>1, <2>2 DEF YItems
<1> QED BY <1>1, <1>2

\* The sender of a batch keeps to its files and blocks.
LEMMA SenderOfBatch ==
  ASSUME Orderly, YLine, YStep \/ YTimeout
  PROVE  YLine'
<1>1. /\ s2r \in Seq(YItems) /\ r2s \in Seq(Control) /\ Byte("EOT") \in YItems
      /\ Len(Batch) \in Nat /\ yfile \in Nat
      /\ r2s # <<>> => Tail(r2s) \in Seq(Control)
  <2>1. Byte("EOT") \in YItems
    BY YItemFacts
  <2>2. r2s \in Seq(Control)
    BY DEF YLine
  <2> QED BY <2>1, <2>2, Writes, LenProperties DEF YLine, YItems, Orderly
<1>2. r2s' \in Seq(Control)
  BY <1>1 DEF YStep, YTimeout, YSend, YStart, YAcked, YRefused
<1>3. CASE YSend
  <2>1. YPacket \in YItems
    BY YPacketFacts DEF YLine, YItems
  <2>2. \A e \in YItems : Append(s2r, e) \in Seq(YItems)
    BY <1>1, Writes
  <2>3. s2r' \in Seq(YItems)
    BY <2>1, <2>2, <1>1, <1>3 DEF YSend
  <2>4. UNCHANGED <<yfile, yblock>> /\ (ypc' \in {"eot", "eot_wait"} => ypc \in {"eot", "eot_wait"})
    BY <1>3 DEF YSend
  <2> QED BY <2>3, <2>4, <1>2 DEF YLine, YItems
<1>4. CASE YStart \/ YRefused \/ YTimeout
  <2>1. UNCHANGED <<s2r, yfile, yblock>>
    BY <1>4 DEF YStart, YRefused, YTimeout
  <2>2. ypc' \in {"eot", "eot_wait"} => ypc \in {"eot", "eot_wait"}
    BY <1>4 DEF YStart, YRefused, YTimeout, YAgain
  <2> QED BY <2>1, <2>2, <1>2 DEF YLine
<1>5. CASE YAcked
  <2>1. s2r' = s2r
    BY <1>5 DEF YAcked
  <2>2. CASE ypc = "packet_wait" /\ yfile > Len(Batch)
    <3>1. UNCHANGED <<yfile, yblock>> /\ ypc' = "done"
      BY <2>2, <1>1, <1>5 DEF YAcked
    <3> QED BY <3>1, <2>1, <1>2 DEF YLine
  <2>3. CASE ypc = "packet_wait" /\ ~(yfile > Len(Batch))
    <3>1. /\ yfile' = yfile /\ yfile <= Len(Batch) /\ Batch[yfile].sent \in Nat
          /\ yblock \in 0 .. Batch[yfile].sent
          /\ yblock' = IF yblock < Batch[yfile].sent THEN yblock + 1 ELSE yblock
      <4>1. yfile \in 1 .. Len(Batch)
        BY <2>3, <1>1 DEF YLine
      <4> QED BY <4>1, <2>3, <1>1, <1>5, BatchFacts DEF YAcked, YLine
    <3>2. yblock' \in 0 .. Batch[yfile].sent
      BY <3>1
    <3> QED BY <3>1, <3>2, <2>1, <1>2 DEF YLine
  <2>4. CASE ypc = "eot_wait"
    <3>1. yfile' = yfile + 1 /\ yblock' = 0 /\ ypc' = "start" /\ yfile <= Len(Batch)
      BY <2>4, <1>5 DEF YAcked, YLine
    <3>2. yfile' \in 1 .. Len(Batch) + 1
      BY <3>1, <1>1 DEF YLine
    <3>3. ASSUME yfile' <= Len(Batch) PROVE yblock' \in 0 .. Batch[yfile'].sent
      <4>1. yfile' \in 1 .. Len(Batch)
        BY <3>2, <3>3, <1>1
      <4>2. Batch[yfile'].sent \in Nat
        BY <4>1, BatchFacts
      <4> QED BY <4>2, <3>1
    <3> QED BY <3>1, <3>2, <3>3, <2>1, <1>2 DEF YLine
  <2> QED BY <2>2, <2>3, <2>4, <1>5 DEF YAcked
<1> QED BY <1>3, <1>4, <1>5 DEF YStep

\* The second EOT: on to the next name.
LEMMA FileOver ==
  ASSUME Files, Ended, packetno' = 1, ymodem' = 0, trychar' = "C", UNCHANGED <<rinfo, rfile>>
  PROVE  Files' /\ Header' /\ curfile' = curfile
<1>1. UNCHANGED <<curfile, filename, size, fil, opened, disk, closed, free>>
  BY DEF rinfo, rfile
<1>2. /\ Header' /\ ~Named' /\ ~Storing' /\ ~Ended' /\ ~Named /\ ~Storing /\ packetno # 1
      /\ curfile # 0 /\ curfile \in 0 .. Len(Batch)
  BY DEF Header, Named, Storing, Ended, Files, Place
<1>3. \A f, n : Holds(f, n)' = Holds(f, n)
  BY <1>1 DEF Holds
<1>4. \A f : Finished(f)' = Finished(f)
  BY <1>1, <1>3 DEF Finished
<1>5. Card'
  BY <1>1, <1>2, <1>3, <1>4 DEF Files, Card
<1>6. Place'
  <2>1. RecvType' /\ size' = SizeOf(Current)'
    BY <1>1, <1>2, ModAssumption DEF Files, Place, RecvType, Current
  <2>2. fil = "closed"
    BY <1>2 DEF Files, Place
  <2>3. \A f \in 1 .. Len(Batch) : Stored(f) \in closed <=> f < curfile \/ f = curfile
    BY <1>2 DEF Files, Place
  <2> QED BY <2>1, <2>2, <2>3, <1>1, <1>2 DEF Place
<1> QED BY <1>1, <1>2, <1>5, <1>6 DEF Files

\* A channel with two items.
LEMMA SecondItem ==
  ASSUME NEW S, NEW s \in Seq(S), s # <<>>, Len(s) <= 1, NEW e \in S
  PROVE  LET n == Append(s, e)
         IN  Len(n) = 2 /\ n[1] = Head(s) /\ n[2] = e /\ Head(n) = Head(s)
<1> DEFINE n == Append(s, e)
<1>1. Len(s) >= 1 /\ Head(s) = s[1] /\ Len(s) \in Nat
  BY OneItem, LenProperties
<1>2. /\ n \in Seq(S) /\ Len(n) = Len(s) + 1
      /\ \A k \in 1 .. Len(s) : n[k] = s[k]
      /\ n[Len(s) + 1] = e
  BY AppendProperties
<1> HIDE DEF n
<1>3. Len(s) = 1
  <2>1. \A m \in Nat : m >= 1 /\ m <= 1 => m = 1
    OBVIOUS
  <2> QED BY <2>1, <1>1, Zenon
<1>4. Len(n) = 2 /\ n[1] = s[1] /\ n[2] = e
  <2>1. 1 \in 1 .. Len(s) /\ Len(s) + 1 = 2
    BY <1>3
  <2> QED BY <2>1, <1>2
<1>5. Head(n) = n[1]
  <2>1. n # <<>>
    <3>1. Len(<<>>) = 0 /\ 0 # 2
      BY EmptySeq
    <3> QED BY <3>1, <1>4, Zenon
  <2> QED BY <2>1, <1>2, OneItem
<1> QED BY <1>1, <1>4, <1>5 DEF n

\* A step of xm_receive while both sides run.
LEMMA ReceiverOfBatch ==
  ASSUME Orderly, YLine, RLive, YLive, YInTime,
         RStep \/ (RTimeout /\ SQuiet), UNCHANGED <<setting, tvars, yvars>>
  PROVE  YInTime'
<1>1. /\ YTurns /\ YMessages /\ YPace /\ YUndecided /\ YVerdict /\ Files
      /\ trychar \in {"C", "NAK", "none"} /\ (Storing \/ Ended => trychar = "none")
  BY DEF YInTime, Files, Place, RecvType
<1>2. /\ UNCHANGED <<ypc, yres, yfile, yblock>> /\ YLive' /\ YLive
      /\ YPacket' = YPacket /\ YSpeaks' = YSpeaks /\ LastName' = LastName
  BY DEF yvars, YLive, YPacket, YSpeaks, LastName
<1>3. /\ s2r \in Seq(YItems) /\ r2s \in Seq(Control) /\ Len(Batch) \in Nat /\ yfile \in Nat
      /\ yfile >= 1 /\ yfile <= Len(Batch) + 1 /\ Len(<<>>) = 0 /\ curfile \in 0 .. Len(Batch)
  BY LenProperties, EmptySeq DEF YLine, YItems, Orderly, Files, Place, YInTime
\* What has been received of the batch is what it was.
<1>4. ASSUME UNCHANGED <<packetno, ymodem, rinfo, rfile>>,
             trychar' \in {"C", "NAK", "none"}, Storing \/ Ended => trychar' = "none"
      PROVE  /\ Files' /\ YPace' /\ Taken' = Taken /\ curfile' = curfile
             /\ Header' = Header /\ Named' = Named /\ Storing' = Storing /\ Ended' = Ended
  <2>1. /\ Files' /\ Taken' = Taken /\ curfile' = curfile
        /\ Header' = Header /\ Named' = Named /\ Storing' = Storing /\ Ended' = Ended
    BY <1>1, <1>4, FilesKept
  <2> QED BY <2>1, <1>1, <1>2 DEF YPace
\* As long as both go on, there is no verdict.
<1>5. ASSUME RLive', YPace', Files' PROVE YVerdict'
  <2>1. ASSUME LastName PROVE curfile' = Len(Batch) /\ ~Storing'
    <3>1. yfile = Len(Batch) + 1 /\ yblock = 0
      BY <2>1, <1>3 DEF LastName, YLine
    <3>2. curfile' = Len(Batch) /\ (Named' \/ Header')
      BY <2>1, <3>1, <1>2, <1>3, <1>5 DEF YPace, LastName
    <3> QED BY <3>2 DEF Named, Header, Storing
  <2>2. yres # "ok"
    BY <1>1, <1>2 DEF YVerdict
  <2> QED BY <2>1, <2>2, <1>2, <1>5 DEF YVerdict
\* The receiver's turn, with nothing on the line.
<1>6. ASSUME s2r' = <<>>, r2s' = <<>>, ~YSpeaks, rpc' # "can"
      PROVE  YTurns' /\ YMessages'
  <2>1. Len(s2r') = 0 /\ Len(r2s') = 0 /\ ~YSpeaks'
    BY <1>2, <1>3, <1>6
  <2> QED BY <2>1, <1>6 DEF YTurns, YMessages
\* It says b; then, after an ACK, perhaps 'C'.
<1>7. ASSUME s2r' = <<>>, r2s = <<>>, NEW b \in {"C", "NAK", "ACK"}, Say(b), ~YSpeaks,
             rpc' # "can", RSpeaks' => rpc' = "send" /\ trychar' = "C" /\ b = "ACK",
             b = "ACK" =>
                \/ ypc = "packet_wait" /\ yfile <= Len(Batch) /\ yblock = 0 /\ Named'
                \/ ypc = "packet_wait" /\ yblock > 0 /\ Storing' /\ Taken' = yblock
                \/ ypc = "eot_wait" /\ Header'
      PROVE  YTurns' /\ YMessages'
  <2>1. r2s' = Append(<<>>, b) /\ b \in Control
    BY <1>7 DEF Say, Control
  <2>2. Len(r2s') = 1 /\ Head(r2s') = b /\ Len(s2r') = 0
    BY <2>1, <1>3, <1>7, OneItem
  <2>3. YTurns'
    BY <2>2, <1>2, <1>7 DEF YTurns
  <2>4. YMessages'
    BY <2>2, <1>2, <1>7 DEF YMessages
  <2> QED BY <2>3, <2>4
\* Another round of the loop, or the end of them.
<1>8. ASSUME NextTry, s2r' = <<>>, r2s' = <<>>, ~YSpeaks,
             UNCHANGED <<packetno, ymodem, rinfo, rfile>>
      PROVE  YInTime'
  <2>1. /\ rpc' \in {"send", "flush"} /\ RLive'
        /\ rpc' = "flush" => after' = "cancel"
        /\ trychar' = trychar \/ (trychar = "C" /\ trychar' = "NAK")
    BY <1>8 DEF NextTry, FlushThen, RLive
  <2>2. Files' /\ YPace'
    BY <2>1, <1>1, <1>4, <1>8
  <2>3. YUndecided'
    BY <2>1 DEF YUndecided
  <2> QED BY <2>1, <2>2, <2>3, <1>5, <1>6, <1>8 DEF YInTime
<1>9. CASE SendTry
  <2>1. /\ rpc = "send" /\ rpc' = "await" /\ s2r' = s2r
        /\ UNCHANGED <<after, trychar, packetno, ymodem, rinfo, rfile>>
    BY <1>9 DEF SendTry
  <2>2. ~RSpeaks' /\ RLive' /\ Files' /\ YPace' /\ YUndecided'
    BY <2>1, <1>1, <1>4 DEF RSpeaks, RLive, YUndecided
  <2>3. /\ Taken' = Taken /\ Header' = Header /\ Named' = Named /\ Storing' = Storing
    BY <2>1, <1>1, <1>4
  <2>4. CASE trychar = "none"
    <3>1. r2s' = r2s
      BY <1>9, <2>4 DEF SendTry
    <3>2. YTurns'
      BY <1>1, <1>2, <2>1, <2>2, <3>1 DEF YTurns
    <3>3. YMessages'
      BY <1>1, <1>2, <2>1, <2>3, <3>1 DEF YMessages
    <3> QED BY <1>5, <2>2, <3>2, <3>3 DEF YInTime
  <2>5. CASE trychar # "none" /\ r2s = <<>>
    <3>1. s2r' = <<>> /\ ~YSpeaks /\ Say(trychar) /\ trychar \in {"C", "NAK"}
      BY <1>1, <1>9, <2>1, <2>5 DEF YTurns, RSpeaks, SendTry
    <3>2. YTurns' /\ YMessages'
      BY <3>1, <2>1, <2>2, <2>5, <1>7
    <3> QED BY <1>5, <2>2, <3>2 DEF YInTime
  <2>6. CASE trychar # "none" /\ r2s # <<>>
    <3>1. /\ s2r' = <<>> /\ ~YSpeaks /\ trychar = "C" /\ Len(r2s) <= 1
          /\ Head(r2s) \in {"ACK", "JUNK"} /\ r2s' = Append(r2s, "C")
      <4>1. RSpeaks /\ Say(trychar)
        BY <1>9, <2>1, <2>6 DEF RSpeaks, SendTry
      <4>2. /\ s2r = <<>> /\ ~YSpeaks /\ trychar = "C" /\ Len(r2s) <= 1
            /\ Head(r2s) \in {"ACK", "JUNK"}
        BY <4>1, <2>6, <1>1 DEF YTurns
      <4>3. r2s' = Append(r2s, "C")
        BY <4>1, <4>2 DEF Say
      <4> QED BY <4>2, <4>3, <2>1
    <3>2. /\ Len(r2s') = 2 /\ r2s'[1] = Head(r2s) /\ r2s'[2] = "C" /\ Head(r2s') = Head(r2s)
      <4>1. "C" \in Control
        BY DEF Control
      <4> QED BY <4>1, <3>1, <2>6, <1>3, SecondItem
    <3>3. YTurns'
      BY <1>2, <1>3, <2>1, <2>2, <3>1, <3>2 DEF YTurns
    <3>4. YMessages'
      BY <1>1, <1>2, <2>3, <2>6, <3>1, <3>2 DEF YMessages
    <3> QED BY <1>5, <2>2, <3>3, <3>4 DEF YInTime
  <2> QED BY <2>4, <2>5, <2>6
<1>10. CASE RTimeout /\ SQuiet
  <2>1. r2s = <<>> /\ s2r = <<>> /\ ~YSpeaks
    BY <1>2, <1>10 DEF SQuiet, YLive, YSpeaks, RTimeout
  <2>2. s2r' = <<>> /\ r2s' = <<>> /\ NextTry /\ UNCHANGED <<packetno, ymodem, rinfo, rfile>>
    BY <2>1, <1>10 DEF RTimeout, line
  <2> QED BY <2>1, <2>2, <1>8
<1>11. CASE FlushSome
  BY <1>1, <1>11 DEF FlushSome, YTurns, RSpeaks
<1>12. CASE FlushEnd
  <2>1. /\ rpc = "flush" /\ s2r = <<>> /\ r2s = <<>> /\ ~YSpeaks /\ s2r' = <<>>
        /\ UNCHANGED <<after, trychar, packetno, ymodem, rinfo, rfile>>
    BY <1>1, <1>12 DEF FlushEnd, YTurns, RSpeaks
  <2>2. /\ Files' /\ YPace' /\ Taken' = Taken /\ curfile' = curfile /\ Storing' = Storing
    BY <2>1, <1>1, <1>4
  <2>3. CASE after \in {"start", "junk"}
    <3>1. r2s' = <<>> /\ rpc' \in {"send", "junk"} /\ RLive'
      BY <2>1, <2>3, <1>12 DEF FlushEnd, RLive
    <3>2. YUndecided'
      BY <3>1 DEF YUndecided
    <3> QED BY <2>1, <2>2, <3>1, <3>2, <1>5, <1>6 DEF YInTime
  <2>4. CASE after = "reject"
    <3>1. Say("NAK") /\ rpc' = "send" /\ trychar' = "none" /\ RLive' /\ ~RSpeaks'
      BY <2>1, <2>4, <1>1, <1>12 DEF FlushEnd, YUndecided, RLive, RSpeaks
    <3>2. YUndecided'
      BY <3>1 DEF YUndecided
    <3>3. YTurns' /\ YMessages'
      BY <2>1, <3>1, <1>7
    <3> QED BY <2>2, <3>1, <3>2, <3>3, <1>5 DEF YInTime
  <2>5. ASSUME rpc' = "done",
               \A k \in 1 .. Len(r2s') :
                  /\ r2s'[k] \notin {"C", "NAK"}
                  /\ r2s'[k] = "ACK" => Len(r2s') = 1 /\ (LastName \/ ypc \in {"eot", "eot_wait"})
        PROVE  YInTime'
    <3>1. ~RLive'
      BY <2>5 DEF RLive
    <3>2. yres # "ok" /\ (LastName => curfile = Len(Batch) /\ ~Storing)
      BY <1>1, <1>2 DEF YVerdict
    <3> QED BY <3>1, <3>2, <2>2, <2>5, <1>2 DEF YInTime, YVerdict
  <2>6. CASE after = "ack"
    <3>1. rpc' = "done" /\ r2s' = Append(<<>>, "ACK")
      BY <2>1, <2>6, <1>12 DEF FlushEnd, Say
    <3>2. "ACK" \in Control
      BY DEF Control
    <3>3. r2s' # <<>> /\ Len(r2s') = 1 /\ Head(r2s') = "ACK" /\ r2s' \in Seq(Control)
      BY <3>1, <3>2, OneItem, AppendProperties
    <3>4. r2s'[1] = "ACK"
      BY <3>3, OneItem
    <3>5. LastName \/ ypc \in {"eot", "eot_wait"}
      BY <2>1, <2>6, <1>1 DEF YUndecided, LastName
    <3>6. \A k \in 1 .. Len(r2s') : r2s'[k] = "ACK"
      <4>1. \A k \in 1 .. 1 : k = 1
        OBVIOUS
      <4> QED BY <4>1, <3>3, <3>4
    <3> QED BY <3>1, <3>3, <3>5, <3>6, <2>5
  <2>7. CASE after = "cancel"
    <3>1. rpc' = "done" /\ r2s' = <<>> \o <<"CAN", "CAN", "CAN">> /\ "CAN" \in Control
      BY <2>1, <2>7, <1>12 DEF FlushEnd, Control
    <3>2. \A k \in 1 .. Len(r2s') : r2s'[k] = "CAN"
      <4>1. \A k \in 1 .. Len(r2s') : r2s'[k] = "CAN" \/ (k \in 1 .. Len(<<>>))
        BY <3>1, EmptySeq, Cancels
      <4> QED BY <4>1, <1>3
    <3> QED BY <3>1, <3>2, <2>5
  <2> QED BY <2>1, <2>3, <2>4, <2>6, <2>7, <1>1 DEF YUndecided
<1>13. CASE RJunk
  <2>1. CASE rpc = "junk"
    <3>1. s2r' = <<>> /\ r2s' = <<>> /\ ~YSpeaks /\ NextTry
      BY <2>1, <1>1, <1>13 DEF RJunk, YTurns, RSpeaks
    <3>2. UNCHANGED <<packetno, ymodem, rinfo, rfile>>
      BY <2>1, <1>13 DEF RJunk
    <3> QED BY <3>1, <3>2, <1>8
  <2>2. CASE rpc # "junk"
    <3>1. /\ rpc = "await" /\ s2r # <<>> /\ s2r' = Tail(s2r) /\ r2s' = r2s
          /\ rpc' = "flush" /\ after' = "junk"
          /\ UNCHANGED <<packetno, ymodem, rinfo, rfile, trychar>>
      BY <2>2, <1>13 DEF RJunk, FlushThen
    <3>2. s2r' = <<>> /\ r2s' = <<>> /\ ~YSpeaks
      BY <3>1, <1>1, <1>3, OneItem DEF YTurns
    <3>3. YUndecided' /\ RLive' /\ Files' /\ YPace'
      BY <3>1, <1>1, <1>4 DEF YUndecided, RLive
    <3> QED BY <3>1, <3>2, <3>3, <1>5, <1>6 DEF YInTime
  <2> QED BY <2>1, <2>2
<1>14. CASE RCan
  <2>1. rpc = "await" /\ s2r # <<>> /\ Head(s2r).t = "CAN"
    BY <1>1, <1>14 DEF RCan, YTurns
  <2> QED BY <2>1, <1>1 DEF YMessages
<1>15. CASE REot
  <2>1. /\ rpc = "await" /\ s2r # <<>> /\ Head(s2r).t = "EOT" /\ s2r' = Tail(s2r)
        /\ CloseFile /\ UNCHANGED <<rinfo, opened>>
    BY <1>15 DEF REot
  <2>2. s2r' = <<>> /\ r2s = <<>> /\ ypc = "eot_wait" /\ ~YSpeaks
    BY <2>1, <1>1, <1>3, OneItem DEF YTurns, YMessages, YSpeaks
  <2>3. /\ curfile = yfile /\ yblock = Batch[yfile].sent
        /\ (Storing /\ Taken = yblock) \/ Ended \/ Header
        /\ curfile # 0 /\ curfile' = curfile
    BY <2>1, <2>2, <1>1, <1>3 DEF YPace, rinfo
  <2>4. CASE ymodem = 0
    <3>1. Header /\ fil = "closed"
      BY <2>3, <2>4, <1>1 DEF Header, Storing, Ended, Files, Place
    <3>2. /\ UNCHANGED <<packetno, ymodem, rinfo, rfile, trychar, r2s>>
          /\ rpc' = "flush" /\ after' = "ack"
      BY <2>1, <2>4, <3>1, <1>15 DEF REot, CloseFile, FlushThen, rfile
    <3>3. YUndecided' /\ RLive' /\ Files' /\ YPace'
      BY <2>2, <3>2, <1>1, <1>2, <1>4 DEF YUndecided, RLive
    <3> QED BY <2>2, <3>2, <3>3, <1>5, <1>6 DEF YInTime
  <2>5. CASE ymodem = 1
    <3>1. Storing /\ Taken = Batch[curfile].sent /\ trychar = "none"
      BY <2>3, <2>5, <1>1 DEF Header, Storing, Ended
    <3>2. /\ Say("NAK") /\ ymodem' = 2 /\ rpc' = "send" /\ UNCHANGED <<trychar, packetno>>
      BY <2>5, <1>15 DEF REot
    <3>3. Files' /\ Ended'
      BY <2>1, <3>1, <3>2, <1>1, FileEnds
    <3>4. YPace'
      BY <2>2, <2>3, <3>3, <1>2 DEF YPace
    <3>5. YUndecided' /\ RLive' /\ ~RSpeaks'
      BY <3>1, <3>2 DEF YUndecided, RLive, RSpeaks
    <3>6. YTurns' /\ YMessages'
      BY <2>2, <3>2, <3>5, <1>7
    <3> QED BY <3>3, <3>4, <3>5, <3>6, <1>5 DEF YInTime
  <2>6. CASE ymodem = 2
    <3>1. Ended /\ fil = "closed"
      BY <2>3, <2>6, <1>1 DEF Header, Storing, Ended, Files, Place
    <3>2. /\ Say("ACK") /\ trychar' = "C" /\ ymodem' = 0 /\ packetno' = 1 /\ rpc' = "send"
          /\ UNCHANGED <<rinfo, rfile>>
      BY <2>1, <2>6, <3>1, <1>15 DEF REot, CloseFile, rfile
    <3>3. Files' /\ Header'
      BY <3>1, <3>2, <1>1, FileOver
    <3>4. YPace'
      BY <2>2, <2>3, <3>3, <1>2 DEF YPace
    <3>5. YUndecided' /\ RLive'
      BY <3>2 DEF YUndecided, RLive
    <3>6. YTurns' /\ YMessages'
      BY <2>2, <3>2, <3>3, <1>7
    <3> QED BY <3>3, <3>4, <3>5, <3>6, <1>5 DEF YInTime
  <2> QED BY <2>3, <2>4, <2>5, <2>6 DEF Storing, Ended, Header
<1>16. CASE RPacket
  <2> DEFINE p == Head(s2r)
  <2>1. /\ rpc = "await" /\ s2r # <<>> /\ p.t = "PKT" /\ s2r' = Tail(s2r)
    BY <1>16 DEF RPacket
  <2>2. /\ s2r' = <<>> /\ r2s = <<>> /\ ypc = "packet_wait" /\ ~YSpeaks
        /\ p.num = yblock /\ p.data = YPacket.data
    BY <2>1, <1>1, <1>3, OneItem DEF YTurns, YMessages, YSpeaks
  <2>3. /\ packetno \in 0 .. Mod - 1 /\ Mod \in Nat /\ Mod > 1
        /\ yblock \in Nat /\ (yblock # 0 => yfile \in 1 .. Len(Batch) /\ yfile <= Len(Batch)
                                            /\ yblock <= Batch[yfile].sent
                                            /\ Batch[yfile].sent \in Nat)
    <3>1. yfile <= Len(Batch) => yfile \in 1 .. Len(Batch)
      BY <1>3
    <3>2. yfile <= Len(Batch) => Batch[yfile].sent \in Nat
      BY <3>1, BatchFacts
    <3> QED BY <3>1, <3>2, <1>1, <1>3, ModAssumption DEF YLine, Files, Place, RecvType
  <2>4. Reject(p) \/ Metadata(p) \/ Data(p) \/ DataFails(p) \/ Duplicate(p)
    BY <1>16 DEF RPacket
  <2>5. /\ IF yfile <= Len(Batch)
           THEN /\ ~p.data.empty /\ p.data.blk = Unit(yfile, yblock)
                /\ p.data.size = Batch[yfile].len
                /\ yblock = 0 => /\ p.data.name = Batch[yfile].name
                                 /\ p.data.sized = Batch[yfile].sized
           ELSE p.data.empty
    <3>1. IF yfile <= Len(Batch)
          THEN /\ ~YPacket.data.empty /\ YPacket.data.blk = Unit(yfile, yblock)
               /\ YPacket.data.size = Batch[yfile].len
               /\ yblock = 0 => /\ YPacket.data.name = Batch[yfile].name
                                /\ YPacket.data.sized = Batch[yfile].sized
          ELSE YPacket.data.empty
      BY YPacketFacts DEF YLine
    <3> QED BY <3>1, <2>2
  <2> HIDE DEF p
  \* The packet is refused, or ends the reception.
  <2>6. ASSUME rpc' = "flush", r2s' = r2s, trychar' = "none",
               after' \in {"reject", "cancel"} \/ (after' = "ack" /\ LastName),
               UNCHANGED <<packetno, ymodem, rinfo, rfile>>
        PROVE  YInTime'
    <3>1. Files' /\ YPace' /\ RLive'
      BY <2>6, <1>4 DEF RLive
    <3>2. YUndecided'
      BY <2>2, <2>6, <1>2 DEF YUndecided, LastName
    <3> QED BY <3>1, <3>2, <2>2, <2>6, <1>5, <1>6 DEF YInTime
  \* It is taken, or has been taken before.
  <2>7. ASSUME Answer("ACK"), Files', YPace', trychar' = "none" \/ (trychar' = "C" /\ Named'),
               \/ yfile <= Len(Batch) /\ yblock = 0 /\ Named'
               \/ yblock > 0 /\ Storing' /\ Taken' = yblock
        PROVE  YInTime'
    <3>1. Say("ACK") /\ rpc' = "send"
      BY <2>7 DEF Answer
    <3>2. RLive' /\ YUndecided'
      BY <3>1 DEF RLive, YUndecided
    <3>3. RSpeaks' => rpc' = "send" /\ trychar' = "C"
      BY <3>1, <2>7 DEF RSpeaks
    <3>4. YTurns' /\ YMessages'
      BY <3>1, <3>3, <2>2, <2>7, <1>7
    <3> QED BY <3>2, <3>4, <2>7, <1>5 DEF YInTime
  <2>8. CASE Reject(p) \/ DataFails(p)
    BY <2>6, <2>8 DEF Reject, DataFails, FlushThen
  <2>9. CASE Metadata(p)
    <3>1. yblock = 0
      BY <2>2, <2>9 DEF Metadata
    <3>2. CASE yfile <= Len(Batch)
      <4>1. curfile = yfile - 1 /\ (Header \/ Named) /\ curfile < Len(Batch)
            /\ curfile + 1 = yfile
        BY <3>1, <3>2, <2>2, <1>1, <1>3 DEF YPace
      <4>2. Files' /\ Named' /\ curfile' = curfile
        BY <4>1, <3>1, <3>2, <2>5, <2>9, <1>1, NameTaken
      <4>3. YPace'
        BY <4>1, <4>2, <3>1, <2>2, <1>2 DEF YPace
      <4>4. Answer("ACK") /\ trychar' = "C"
        BY <3>2, <2>5, <2>9 DEF Metadata
      <4> QED BY <4>2, <4>3, <4>4, <3>1, <3>2, <2>7
    <3>3. CASE ~(yfile <= Len(Batch))
      <4>1. LastName
        BY <3>3, <2>2, <1>3 DEF LastName
      <4>2. /\ rpc' = "flush" /\ after' = "ack" /\ r2s' = r2s /\ trychar' = "none"
            /\ UNCHANGED <<packetno, ymodem, rinfo, rfile>>
        BY <3>3, <2>5, <2>9 DEF Metadata, FlushThen, rinfo
      <4> QED BY <4>1, <4>2, <2>6
    <3> QED BY <3>2, <3>3
  <2>10. CASE Data(p)
    <3>1. yblock # 0 /\ yblock > 0 /\ packetno = yblock /\ trychar' = "none" /\ Answer("ACK")
      BY <2>2, <2>3, <2>10 DEF Data
    <3>2. Taken = yblock - 1
      BY <3>1, <2>3 DEF Taken
    <3>3. p.data.blk = Unit(yfile, yblock)
      BY <3>1, <2>3, <2>5
    <3>4. CASE Named
      <4>1. yblock = 1 /\ curfile + 1 = yfile
        BY <3>1, <3>4, <2>2, <1>1, <1>3 DEF YPace, Named, Storing
      <4>2. Files' /\ Storing' /\ Taken' = yblock /\ curfile' = yfile
        BY <4>1, <3>3, <3>4, <2>10, <1>1, FileOpens
      <4>3. YPace'
        BY <4>2, <3>1, <2>2, <1>2 DEF YPace
      <4> QED BY <4>2, <4>3, <3>1, <2>7
    <3>5. CASE ~Named
      <4>1. Storing /\ curfile = yfile
        BY <3>1, <3>5, <2>2, <1>1, <1>3 DEF YPace
      <4>2. Taken < Batch[curfile].sent /\ p.data.blk = Unit(curfile, Taken + 1)
        <5>1. Taken + 1 = yblock /\ Taken < Batch[yfile].sent
          BY <3>1, <3>2, <2>3
        <5> QED BY <5>1, <4>1, <3>3, Zenon
      <4>3. Files' /\ Storing' /\ Taken' = Taken + 1 /\ curfile' = curfile
        BY <4>1, <4>2, <2>10, <1>1, FileGrows
      <4>4. Taken' = yblock
        BY <4>3, <3>2, <2>3
      <4>5. YPace'
        BY <4>1, <4>3, <4>4, <3>1, <2>2, <1>2 DEF YPace
      <4> QED BY <4>3, <4>4, <4>5, <3>1, <2>7
    <3> QED BY <3>4, <3>5
  <2>11. CASE Duplicate(p)
    <3>1. trychar' = "none" /\ UNCHANGED <<packetno, ymodem, rinfo, rfile>>
      BY <2>11 DEF Duplicate
    <3>2. CASE Answer("ACK")
      <4>1. yblock + 1 = packetno /\ yblock # 0
        BY <2>2, <2>11 DEF Duplicate, Acceptable
      <4>2. packetno # 1 /\ Taken = yblock /\ yblock > 0
        BY <4>1, <2>3 DEF Taken
      <4>3. Storing
        BY <4>1, <4>2, <2>2, <1>1 DEF YPace, Header, Named
      <4>4. Files' /\ YPace' /\ Storing' /\ Taken' = yblock
        BY <4>2, <4>3, <3>1, <1>4
      <4> QED BY <4>2, <4>4, <3>1, <3>2, <2>7
    <3>3. CASE FlushThen("cancel", "retrans") /\ UNCHANGED <<r2s, retry>>
      BY <3>1, <3>3, <2>6 DEF FlushThen
    <3> QED BY <3>2, <3>3, <2>11 DEF Duplicate
  <2> QED BY <2>4, <2>8, <2>9, <2>10, <2>11
<1> QED BY <1>9, <1>10, <1>11, <1>12, <1>13, <1>14, <1>15, <1>16 DEF RStep

\* A step of the sender while both sides run.
LEMMA SenderInBatch ==
  ASSUME Orderly, YLine, RLive, YLive, YInTime,
         YStep \/ (YTimeout /\ RQuiet), UNCHANGED <<setting, rvars>>
  PROVE  YInTime'
<1>1. /\ YTurns /\ YMessages /\ YPace /\ YUndecided /\ YVerdict /\ Files
      /\ trychar \in {"C", "NAK", "none"} /\ (Storing \/ Ended => trychar = "none")
  BY DEF YInTime, Files, Place, RecvType
<1>2. /\ UNCHANGED <<rpc, after, trychar>> /\ RLive' /\ RSpeaks' = RSpeaks
      /\ UNCHANGED <<packetno, ymodem, rinfo, rfile>>
  BY DEF RLive, RSpeaks, rvars
<1>3. /\ Files' /\ Taken' = Taken /\ curfile' = curfile
      /\ Header' = Header /\ Named' = Named /\ Storing' = Storing /\ Ended' = Ended
  BY <1>1, <1>2, FilesKept
<1>4. /\ s2r \in Seq(YItems) /\ r2s \in Seq(Control) /\ Len(Batch) \in Nat /\ yfile \in Nat
      /\ yfile >= 1 /\ yfile <= Len(Batch) + 1 /\ Len(<<>>) = 0 /\ curfile \in 0 .. Len(Batch)
      /\ yblock \in Nat
      /\ yfile <= Len(Batch) => Batch[yfile].sent \in Nat /\ Batch[yfile].sent >= 1
                                /\ yblock <= Batch[yfile].sent
  <2>1. Len(Batch) \in Nat /\ yfile \in 1 .. Len(Batch) + 1
    BY LenProperties DEF YLine, Orderly
  <2>2. yfile <= Len(Batch) => yfile \in 1 .. Len(Batch)
    BY <2>1
  <2>3. yfile <= Len(Batch) => Batch[yfile].sent \in Nat /\ Batch[yfile].sent >= 1
    BY <2>2, BatchFacts
  <2> QED BY <2>1, <2>3, EmptySeq DEF YLine, YItems, YInTime, Files, Place
<1>5. YLine'
  BY SenderOfBatch
\* What it hears is the last thing on the line, or is followed by a 'C'.
<1>6. ASSUME r2s # <<>>, r2s' = Tail(r2s)
      PROVE  /\ s2r = <<>> /\ rpc # "flush" /\ rpc # "can" /\ ~YSpeaks
             /\ Len(r2s') <= 1
             /\ r2s' # <<>> => Head(r2s') \in {"C", "JUNK"}
             /\ r2s' # <<>> \/ RSpeaks => Head(r2s) \in {"ACK", "JUNK"} /\ trychar = "C"
             /\ RSpeaks => r2s' = <<>>
  <2>1. /\ s2r = <<>> /\ rpc # "can" /\ ~YSpeaks
        /\ RSpeaks => Len(r2s) <= 1 /\ rpc = "send" /\ trychar = "C" /\ Head(r2s) \in {"ACK", "JUNK"}
        /\ Len(r2s) = 2 => r2s[1] \in {"ACK", "JUNK"} /\ r2s[2] \in {"C", "JUNK"} /\ trychar = "C"
        /\ Len(r2s) <= 2
    BY <1>1, <1>6 DEF YTurns
  <2>2. rpc # "flush"
    BY <2>1 DEF RSpeaks
  <2>3. /\ Len(r2s) \in Nat /\ Len(r2s) >= 1 /\ Head(r2s) = r2s[1]
        /\ r2s' \in Seq(Control) /\ Len(r2s') = Len(r2s) - 1
        /\ \A k \in 1 .. Len(r2s') : r2s'[k] = r2s[k + 1]
    BY <1>4, <1>6, OneItem, LenProperties, HeadTailProperties
  <2>4. r2s' = <<>> <=> Len(r2s) = 1
    BY <2>3, EmptySeq
  <2>5. ASSUME r2s' # <<>>
        PROVE  Len(r2s) = 2 /\ Head(r2s') = r2s[2] /\ ~RSpeaks /\ Len(r2s') = 1
    <3>1. Len(r2s) = 2
      BY <2>1, <2>3, <2>4, <2>5
    <3>2. Len(r2s') = 1 /\ 1 \in 1 .. Len(r2s') /\ 1 + 1 = 2
      BY <3>1, <2>3
    <3>3. r2s'[1] = r2s[2]
      BY <3>2, <2>3
    <3>4. Head(r2s') = r2s'[1]
      BY <2>3, <2>5, OneItem
    <3> QED BY <3>1, <3>2, <3>3, <3>4, <2>1
  <2>6. Len(r2s') <= 1
    BY <2>1, <2>3
  <2> QED BY <2>1, <2>2, <2>3, <2>5, <2>6
\* It goes on waiting.
<1>7. ASSUME r2s # <<>>, r2s' = Tail(r2s), s2r' = s2r, ypc' \notin {"packet", "eot"}
      PROVE  YTurns' /\ YMessages' /\ YUndecided'
  <2>1. ~YSpeaks' /\ s2r' = <<>> /\ Len(s2r') = 0
    BY <1>4, <1>6, <1>7 DEF YSpeaks
  <2>2. /\ Len(r2s') <= 1 /\ (RSpeaks => r2s' = <<>>) /\ rpc # "can" /\ rpc # "flush"
        /\ r2s' # <<>> => Head(r2s') \in {"C", "JUNK"}
    BY <1>6, <1>7
  <2>3. YTurns'
    BY <2>1, <2>2, <1>2, <1>4 DEF YTurns
  <2>4. YMessages'
    BY <2>1, <2>2 DEF YMessages
  <2>5. YUndecided'
    BY <2>2, <1>2 DEF YUndecided
  <2> QED BY <2>3, <2>4, <2>5
\* It is its turn, with nothing on the line.
<1>8. ASSUME s2r' = <<>>, r2s' = <<>>, ~RSpeaks, rpc # "can", rpc # "flush"
      PROVE  YTurns' /\ YMessages' /\ YUndecided'
  <2>1. Len(s2r') = 0 /\ Len(r2s') = 0
    BY <1>4, <1>8
  <2> QED BY <2>1, <1>2, <1>8 DEF YTurns, YMessages, YUndecided
\* As long as both go on, there is no verdict.
<1>9. ASSUME YLive', YPace', yres' = yres PROVE YVerdict'
  <2>1. ASSUME LastName' PROVE curfile' = Len(Batch) /\ ~Storing'
    <3>1. yfile' = Len(Batch) + 1 /\ yblock' = 0
      BY <2>1, <1>4, <1>5 DEF LastName, YLine
    <3>2. curfile' = Len(Batch) /\ (Named' \/ Header')
      BY <2>1, <3>1, <1>3, <1>4, <1>9 DEF YPace, LastName
    <3> QED BY <3>2 DEF Named, Header, Storing
  <2>2. yres # "ok"
    BY <1>1 DEF YVerdict
  <2> QED BY <2>1, <2>2, <1>2, <1>9 DEF YVerdict
<1>10. ASSUME YLive', YPace', yres' = yres, YTurns' /\ YMessages' /\ YUndecided'
       PROVE  YInTime'
  BY <1>3, <1>9, <1>10 DEF YInTime
\* Once more, or not.
<1>11. ASSUME YAgain, ypc \in {"start", "packet_wait", "eot_wait"}, UNCHANGED <<yfile, yblock>>,
              s2r' = <<>>, r2s' = <<>>, ~RSpeaks, rpc # "can", rpc # "flush"
       PROVE  YInTime'
  <2>1. CASE ypc' = "done" /\ yres' = "failed"
    <3>1. YVerdict'
      BY <2>1, <1>2, <1>11 DEF YVerdict, YLive
    <3> QED BY <2>1, <3>1, <1>3 DEF YInTime, YLive
  <2>2. CASE /\ UNCHANGED yres
             /\ ypc' = CASE ypc = "packet_wait" -> "packet"
                         [] ypc = "eot_wait" -> "eot"
                         [] ypc = "start" -> "start"
    <3>1. \/ ypc = "packet_wait" /\ ypc' = "packet"
          \/ ypc = "eot_wait" /\ ypc' = "eot"
          \/ ypc = "start" /\ ypc' = "start"
      BY <2>2, <1>11
    <3>2. YLive' /\ YPace'
      BY <3>1, <1>1, <1>3, <1>11 DEF YLive, YPace
    <3> QED BY <2>2, <3>2, <1>8, <1>10, <1>11
  <2> QED BY <2>1, <2>2, <1>11 DEF YAgain
<1>12. CASE YSend
  <2>1. /\ YSpeaks /\ s2r = <<>> /\ r2s = <<>> /\ r2s' = <<>> /\ ~RSpeaks /\ rpc # "can"
        /\ rpc # "flush" /\ UNCHANGED <<yfile, yblock, yres>> /\ YPacket' = YPacket
    BY <1>1, <1>12 DEF YSend, YSpeaks, YTurns, RSpeaks, YPacket
  <2>2. PICK e \in YItems : /\ s2r' = Append(<<>>, e)
                            /\ \/ ypc = "packet" /\ ypc' = "packet_wait" /\ e = YPacket
                               \/ ypc = "eot" /\ ypc' = "eot_wait" /\ e = Byte("EOT")
    <3>1. YPacket \in YItems /\ Byte("EOT") \in YItems
      BY YItemFacts, YPacketFacts DEF YLine, YItems
    <3>2. CASE ypc = "packet"
      <4>1. s2r' = Append(<<>>, YPacket) /\ ypc' = "packet_wait"
        BY <2>1, <3>2, <1>12 DEF YSend
      <4> QED BY <3>1, <3>2, <4>1
    <3>3. CASE ypc = "eot"
      <4>1. s2r' = Append(<<>>, Byte("EOT")) /\ ypc' = "eot_wait"
        BY <2>1, <3>3, <1>12 DEF YSend
      <4> QED BY <3>1, <3>3, <4>1
    <3> QED BY <3>2, <3>3, <1>12 DEF YSend
  <2>3. Len(s2r') = 1 /\ Head(s2r') = e /\ Len(r2s') = 0 /\ YLive' /\ ~YSpeaks'
    BY <2>1, <2>2, <1>4, OneItem DEF YLive, YSpeaks
  <2>4. YTurns' /\ YUndecided'
    BY <2>1, <2>3, <1>2 DEF YTurns, YUndecided
  <2>5. YPacket.t = "PKT" /\ YPacket.num = yblock /\ Byte("EOT").t = "EOT"
    BY YPacketFacts DEF YLine, Byte
  <2>6. YMessages'
    BY <2>1, <2>2, <2>3, <2>5 DEF YMessages
  <2>7. YPace'
    BY <2>1, <2>2, <1>1, <1>3 DEF YPace
  <2> QED BY <2>1, <2>3, <2>4, <2>6, <2>7, <1>10
<1>13. CASE YStart
  <2>1. /\ ypc = "start" /\ r2s # <<>> /\ r2s' = Tail(r2s) /\ s2r' = s2r
        /\ UNCHANGED <<yres, yfile, yblock>>
        /\ ypc' = IF Head(r2s) \in {"C", "NAK"} THEN "packet" ELSE ypc
    BY <1>13 DEF YStart
  <2>2. YPace' /\ YLive'
    BY <2>1, <1>1, <1>3 DEF YPace, YLive
  <2>3. CASE Head(r2s) \in {"C", "NAK"}
    BY <2>1, <2>2, <2>3, <1>6, <1>8, <1>10
  <2>4. CASE Head(r2s) \notin {"C", "NAK"}
    BY <2>1, <2>2, <2>4, <1>7, <1>10
  <2> QED BY <2>3, <2>4
<1>14. CASE YAcked
  <2>1. /\ ypc \in {"packet_wait", "eot_wait"} /\ r2s # <<>> /\ Head(r2s) = "ACK"
        /\ r2s' = Tail(r2s) /\ s2r' = s2r /\ s2r = <<>> /\ rpc # "can" /\ rpc # "flush"
    BY <1>6, <1>14 DEF YAcked
  <2>2. CASE ypc = "packet_wait" /\ yfile <= Len(Batch) /\ yblock = 0 /\ Named
    <3>1. UNCHANGED <<yres, yfile>> /\ yblock' = 1 /\ ypc' = "start"
      BY <2>2, <1>4, <1>14 DEF YAcked
    <3>2. YPace' /\ YLive'
      BY <2>2, <3>1, <1>1, <1>3 DEF YPace, YLive, Named, Storing
    <3> QED BY <2>1, <3>1, <3>2, <1>7, <1>10
  <2>3. CASE ypc = "packet_wait" /\ yblock > 0 /\ Storing /\ Taken = yblock
    <3>1. r2s' = <<>> /\ ~RSpeaks
      BY <2>1, <2>3, <1>1, <1>6
    <3>2. yfile <= Len(Batch) /\ curfile = yfile
      BY <2>3, <1>1, <1>4 DEF YPace, YLine, Storing, Named, Header
    <3>3. UNCHANGED <<yres, yfile>>
      BY <2>3, <3>2, <1>4, <1>14 DEF YAcked
    <3>4. \/ ypc' = "packet" /\ yblock' = yblock + 1
          \/ ypc' = "eot" /\ yblock' = yblock /\ yblock = Batch[yfile].sent
      BY <2>3, <3>2, <1>4, <1>14 DEF YAcked
    <3>5. YPace' /\ YLive'
      BY <2>3, <3>2, <3>3, <3>4, <1>3, <1>4 DEF YPace, YLive
    <3> QED BY <2>1, <3>1, <3>3, <3>5, <1>8, <1>10
  <2>4. CASE ypc = "eot_wait" /\ Header
    <3>1. UNCHANGED yres /\ yfile' = yfile + 1 /\ yblock' = 0 /\ ypc' = "start"
      BY <2>4, <1>14 DEF YAcked
    <3>2. YPace' /\ YLive'
      BY <2>4, <3>1, <1>1, <1>3, <1>4 DEF YPace, YLive
    <3> QED BY <2>1, <3>1, <3>2, <1>7, <1>10
  <2> QED BY <2>1, <2>2, <2>3, <2>4, <1>1 DEF YMessages
<1>15. CASE YRefused
  <2>1. /\ ypc \in {"packet_wait", "eot_wait"} /\ r2s # <<>> /\ r2s' = Tail(r2s)
        /\ s2r' = s2r /\ UNCHANGED <<yfile, yblock>>
    BY <1>15 DEF YRefused
  <2>2. CASE Head(r2s) = "NAK" /\ YAgain
    <3>1. s2r = <<>> /\ r2s' = <<>> /\ ~RSpeaks /\ rpc # "can" /\ rpc # "flush"
      BY <2>1, <2>2, <1>6
    <3> QED BY <2>1, <2>2, <3>1, <1>11
  <2>3. CASE UNCHANGED <<ypc, yres>>
    <3>1. YPace' /\ YLive'
      BY <2>1, <2>3, <1>1, <1>3 DEF YPace, YLive
    <3> QED BY <2>1, <2>3, <3>1, <1>7, <1>10
  <2> QED BY <2>2, <2>3, <1>15 DEF YRefused
<1>16. CASE YTimeout /\ RQuiet
  <2>1. /\ s2r = <<>> /\ r2s = <<>> /\ ~RSpeaks /\ rpc # "flush" /\ rpc # "can"
    BY <1>1, <1>16 DEF RQuiet, RLive, RSpeaks, YTurns, YTimeout
  <2> QED BY <2>1, <1>11, <1>16 DEF YTimeout
<1> QED BY <1>12, <1>13, <1>14, <1>15, <1>16 DEF YStep

\* One side goes on after the other has returned.
LEMMA ReceiverAfterBatch ==
  ASSUME YLine, RLive, ~YLive, YInTime, RStep \/ RTimeout, UNCHANGED <<setting, tvars, yvars>>
  PROVE  YInTime'
<1>1. /\ Files /\ trychar \in {"C", "NAK", "none"} /\ (Storing \/ Ended => trychar = "none")
      /\ s2r = <<>> /\ rpc # "can" /\ yres # "ok"
  BY DEF YInTime, YVerdict, Files, Place, RecvType
<1>2. ~YLive' /\ yres' = yres
  BY DEF yvars, YLive
<1>3. NextTry => /\ trychar' = trychar \/ (trychar = "C" /\ trychar' = "NAK")
                 /\ rpc' \in {"send", "flush"}
  BY DEF NextTry, FlushThen
<1>4. /\ s2r' = <<>> /\ rpc' # "can" /\ UNCHANGED <<packetno, ymodem, rinfo, rfile>>
      /\ trychar' = trychar \/ (trychar = "C" /\ trychar' = "NAK")
  <2>1. CASE SendTry
    BY <2>1, <1>1 DEF SendTry
  <2>2. CASE FlushEnd
    BY <2>2, <1>1 DEF FlushEnd
  <2>3. CASE RJunk
    BY <2>3, <1>1, <1>3 DEF RJunk
  <2>4. CASE RTimeout
    BY <2>4, <1>1, <1>3 DEF RTimeout, line
  <2>5. ~FlushSome /\ ~RCan /\ ~REot /\ ~RPacket
    BY <1>1 DEF FlushSome, RCan, REot, RPacket
  <2> QED BY <2>1, <2>2, <2>3, <2>4, <2>5 DEF RStep
<1>5. Files'
  BY <1>1, <1>4, FilesKept
<1> QED BY <1>1, <1>2, <1>4, <1>5 DEF YInTime, YVerdict

\* A step of the sender after xm_receive has returned.
LEMMA SenderAfterBatch ==
  ASSUME Orderly, YLine, ~RLive, YLive, YInTime, YStep \/ YTimeout, UNCHANGED <<setting, rvars>>
  PROVE  YInTime'
<1>1. /\ Files /\ yres # "ok" /\ (LastName => curfile = Len(Batch) /\ ~Storing)
      /\ \A k \in 1 .. Len(r2s) :
            /\ r2s[k] \notin {"C", "NAK"}
            /\ r2s[k] = "ACK" => Len(r2s) = 1 /\ (LastName \/ ypc \in {"eot", "eot_wait"})
  BY DEF YInTime, YVerdict
<1>2. ~RLive' /\ UNCHANGED <<trychar, packetno, ymodem, rinfo, rfile>>
  BY DEF RLive, rvars
<1>3. Files' /\ curfile' = curfile /\ Storing' = Storing
  <2>1. trychar \in {"C", "NAK", "none"} /\ (Storing \/ Ended => trychar = "none")
    BY <1>1 DEF Files, Place, RecvType
  <2> QED BY <2>1, <1>1, <1>2, FilesKept
<1>4. r2s \in Seq(Control) /\ Len(r2s) \in Nat
  BY LenProperties DEF YLine
<1>5. ASSUME r2s # <<>>, r2s' = Tail(r2s)
      PROVE  /\ Head(r2s) \notin {"C", "NAK"}
             /\ Head(r2s) = "ACK" => LastName \/ ypc \in {"eot", "eot_wait"}
             /\ \A k \in 1 .. Len(r2s') : r2s'[k] \notin {"C", "NAK", "ACK"}
  <2>1. /\ Len(r2s) >= 1 /\ Head(r2s) = r2s[1] /\ Len(r2s') = Len(r2s) - 1
        /\ \A k \in 1 .. Len(r2s') : r2s'[k] = r2s[k + 1]
    BY <1>4, <1>5, OneItem, HeadTailProperties
  <2>2. 1 \in 1 .. Len(r2s)
    BY <2>1, <1>4
  <2>3. ASSUME NEW k \in 1 .. Len(r2s') PROVE r2s'[k] \notin {"C", "NAK", "ACK"}
    <3>1. k + 1 \in 1 .. Len(r2s) /\ Len(r2s) # 1
      BY <2>1, <1>4
    <3> QED BY <3>1, <2>1, <1>1
  <2> QED BY <2>1, <2>2, <2>3, <1>1
\* It is done, or is where an ACK means what it meant.
<1>6. ASSUME \A k \in 1 .. Len(r2s') :
                /\ r2s'[k] \notin {"C", "NAK"}
                /\ r2s'[k] = "ACK" => Len(r2s') = 1 /\ (LastName \/ ypc \in {"eot", "eot_wait"}),
             \/ ypc' = "done"
             \/ /\ LastName' => LastName
                /\ \A k \in 1 .. Len(r2s') : r2s'[k] = "ACK" => LastName' \/ ypc' \in {"eot", "eot_wait"},
             yres' # "ok"
      PROVE  YInTime'
  BY <1>1, <1>2, <1>3, <1>6 DEF YInTime, YVerdict, YLive
<1>7. CASE YSend
  <2>1. /\ UNCHANGED <<r2s, yres, yfile>> /\ ypc' \in {"eot_wait", "packet_wait"}
        /\ ypc = "eot" <=> ypc' = "eot_wait"
        /\ ypc = "packet" <=> ypc' = "packet_wait"
    BY <1>7 DEF YSend
  <2>2. LastName' <=> LastName
    BY <2>1 DEF LastName
  <2> QED BY <2>1, <2>2, <1>1, <1>6 DEF LastName
<1>8. CASE YStart
  <2>1. /\ ypc = "start" /\ r2s # <<>> /\ r2s' = Tail(r2s) /\ UNCHANGED <<yres, yfile>>
        /\ Head(r2s) \notin {"C", "NAK"} => ypc' = "start"
    BY <1>8 DEF YStart
  <2>2. ypc' = "start" /\ \A k \in 1 .. Len(r2s') : r2s'[k] \notin {"C", "NAK", "ACK"}
    BY <2>1, <1>5
  <2> QED BY <2>1, <2>2, <1>1, <1>6 DEF LastName
<1>9. CASE YAcked
  <2>1. ypc \in {"packet_wait", "eot_wait"} /\ r2s # <<>> /\ r2s' = Tail(r2s) /\ Head(r2s) = "ACK"
    BY <1>9 DEF YAcked
  <2>2. /\ LastName \/ ypc = "eot_wait"
        /\ \A k \in 1 .. Len(r2s') : r2s'[k] \notin {"C", "NAK", "ACK"}
    BY <2>1, <1>5
  <2>3. CASE ypc = "eot_wait"
    <3>1. ypc' = "start" /\ yres' = yres
      BY <2>3, <1>9 DEF YAcked
    <3> QED BY <3>1, <2>2, <1>1, <1>6 DEF LastName
  <2>4. CASE LastName /\ ypc = "packet_wait"
    <3>1. ypc' = "done" /\ yres' = "ok"
      <4>1. Len(Batch) \in Nat
        BY LenProperties DEF Orderly
      <4>2. yfile > Len(Batch) /\ ~(yfile <= Len(Batch))
        BY <4>1, <2>4 DEF LastName
      <4> QED BY <4>2, <2>4, <1>9 DEF YAcked
    <3> QED BY <3>1, <2>4, <1>1, <1>2, <1>3 DEF YInTime, YVerdict, YLive
  <2> QED BY <2>1, <2>2, <2>3, <2>4
<1>10. YAgain => yres' # "ok"
  BY <1>1 DEF YAgain
<1>11. CASE YRefused
  <2>1. /\ r2s # <<>> /\ r2s' = Tail(r2s) /\ yfile' = yfile
        /\ Head(r2s) # "NAK" => UNCHANGED <<ypc, yres>>
    BY <1>11 DEF YRefused
  <2>2. /\ Head(r2s) # "NAK"
        /\ \A k \in 1 .. Len(r2s') : r2s'[k] \notin {"C", "NAK", "ACK"}
    BY <2>1, <1>5
  <2>3. LastName' = LastName
    BY <2>1, <2>2 DEF LastName
  <2> QED BY <2>1, <2>2, <2>3, <1>1, <1>6
<1>12. CASE YTimeout
  <2>1. /\ ypc \in {"start", "packet_wait", "eot_wait"} /\ r2s' = <<>> /\ YAgain /\ yfile' = yfile
    BY <1>12 DEF YTimeout
  <2>2. \A k \in 1 .. Len(r2s') : FALSE
    <3>1. Len(<<>>) = 0
      BY EmptySeq
    <3> QED BY <3>1, <2>1
  <2>3. ypc' = "done" \/ (LastName' => LastName)
    BY <2>1 DEF YAgain, LastName
  <2> QED BY <2>1, <2>2, <2>3, <1>6, <1>10
<1> QED BY <1>7, <1>8, <1>9, <1>11, <1>12 DEF YStep

\* Noise on the line, whoever has returned.
LEMMA NoiseInBatch ==
  ASSUME YLine, YInTime, Fault, UNCHANGED <<setting, rvars, yvars>>
  PROVE  YLine' /\ YInTime'
<1>1. /\ UNCHANGED <<rpc, after, trychar, packetno, ymodem, rinfo, rfile, ypc, yres, yfile, yblock>>
      /\ RLive' = RLive /\ YLive' = YLive /\ RSpeaks' = RSpeaks /\ YSpeaks' = YSpeaks
      /\ LastName' = LastName /\ YPacket' = YPacket
  BY DEF rvars, yvars, RLive, YLive, RSpeaks, YSpeaks, LastName, YPacket
<1>2. /\ Files' /\ Taken' = Taken /\ curfile' = curfile
      /\ Header' = Header /\ Named' = Named /\ Storing' = Storing /\ Ended' = Ended
  <2>1. Files /\ trychar \in {"C", "NAK", "none"} /\ (Storing \/ Ended => trychar = "none")
    BY DEF YInTime, Files, Place, RecvType
  <2> QED BY <2>1, <1>1, FilesKept
<1>3. /\ s2r \in Seq(YItems) /\ r2s \in Seq(Control)
      /\ s2r' \in Seq(YItems) /\ r2s' \in Seq(Control)
      /\ \/ Worse(s2r, s2r') /\ UNCHANGED r2s
         \/ WorseControl(r2s, r2s') /\ UNCHANGED s2r
  <2>1. /\ s2r \in Seq(YItems) /\ r2s \in Seq(Control) /\ Byte("JUNK") \in YItems
        /\ \A p \in YItems : p.t = "PKT" => [p EXCEPT !.ok = FALSE] \in YItems
    BY YItemFacts DEF YLine, YItems
  <2> QED BY <2>1, FaultKeeps
<1>4. YLine'
  BY <1>1, <1>3 DEF YLine, YItems
<1>5. Len(r2s) \in Nat /\ Len(r2s') \in Nat /\ Len(<<>>) = 0
  BY <1>3, LenProperties, EmptySeq
\* What the sender hears is what was said, or noise.
<1>6. ASSUME WorseControl(r2s, r2s')
      PROVE  /\ Len(r2s') <= Len(r2s)
             /\ \A i \in 1 .. Len(r2s') : r2s'[i] = "JUNK" \/ \E k \in 1 .. Len(r2s) : r2s'[i] = r2s[k]
  BY <1>3, <1>6, WorseBytes
<1>7. ASSUME WorseControl(r2s, r2s'), Len(r2s) <= 2,
             Len(r2s) = 2 => r2s[1] \in {"ACK", "JUNK"} /\ r2s[2] \in {"C", "JUNK"}
      PROVE  /\ Len(r2s') = 2 => /\ Len(r2s) = 2
                                 /\ r2s'[1] \in {"ACK", "JUNK"} /\ r2s'[2] \in {"C", "JUNK"}
             /\ r2s' # <<>> => r2s # <<>> /\ (Head(r2s') = "ACK" => Head(r2s) = "ACK")
             /\ Len(r2s) <= 1 /\ r2s' # <<>> => Head(r2s') = "JUNK"
  <2>1. /\ r2s' # <<>> => Len(r2s') >= 1 /\ Head(r2s') = r2s'[1]
        /\ r2s # <<>> => Head(r2s) = r2s[1]
    BY <1>3, OneItem
  <2>2. CASE /\ Len(r2s') + 1 = Len(r2s)
             /\ \A j \in 1 .. Len(r2s') : r2s'[j] = r2s[j] \/ r2s'[j] = r2s[j + 1]
    <3>1. Len(r2s') <= 1 /\ (r2s' # <<>> => Len(r2s) = 2 /\ Len(r2s') = 1)
      <4>1. Len(r2s') <= 1 /\ (Len(r2s') >= 1 => Len(r2s) = 2 /\ Len(r2s') = 1)
        <5>1. \A m, l \in Nat : l + 1 = m /\ m <= 2 => l <= 1 /\ (l >= 1 => m = 2 /\ l = 1)
          OBVIOUS
        <5> QED BY <5>1, <2>2, <1>5, <1>7, Zenon
      <4> QED BY <4>1, <2>1
    <3>2. r2s' # <<>> => r2s'[1] = r2s[1] \/ r2s'[1] = r2s[2]
      <4>1. r2s' # <<>> => 1 \in 1 .. Len(r2s') /\ 1 + 1 = 2
        BY <3>1
      <4> QED BY <4>1, <2>2
    <3>3. r2s' # <<>> => r2s # <<>>
      BY <3>1, <1>5
    <3> QED BY <2>1, <3>1, <3>2, <3>3, <1>7
  <2>3. CASE Len(r2s') = Len(r2s) /\ ~(Len(r2s') + 1 = Len(r2s))
    <3>1. PICK k \in 1 .. Len(r2s) :
             (\A j \in 1 .. Len(r2s) : j # k => r2s'[j] = r2s[j]) /\ r2s'[k] = "JUNK"
      BY <2>3, <1>7 DEF WorseControl
    <3>2. \A j \in 1 .. Len(r2s) : r2s'[j] = "JUNK" \/ r2s'[j] = r2s[j]
      BY <3>1
    <3>3. r2s # <<>>
      BY <3>1, <1>5
    <3>4. 1 \in 1 .. Len(r2s) /\ (Len(r2s) = 2 => 2 \in 1 .. Len(r2s))
      <4>1. \A m \in Nat : \A i \in 1 .. m : 1 \in 1 .. m /\ (m = 2 => 2 \in 1 .. m)
        OBVIOUS
      <4> QED BY <4>1, <3>1, <1>5, Zenon
    <3>5. Len(r2s) <= 1 => k = 1
      BY <3>1
    <3> QED BY <2>1, <2>3, <3>1, <3>2, <3>3, <3>4, <3>5, <1>7
  <2> QED BY <2>2, <2>3, <1>5, <1>7 DEF WorseControl
<1>8. ASSUME RLive, YLive PROVE YTurns' /\ YMessages' /\ YPace' /\ YUndecided'
  <2>1. YTurns /\ YMessages /\ YPace /\ YUndecided
    BY <1>8 DEF YInTime
  <2>2. YPace' /\ YUndecided'
    BY <2>1, <1>1, <1>2 DEF YPace, YUndecided
  <2>3. CASE Worse(s2r, s2r') /\ UNCHANGED r2s
    <3>1. /\ Len(s2r') <= 1
          /\ s2r' # <<>> =>
               /\ s2r # <<>>
               /\ \/ Head(s2r') = Byte("JUNK")
                  \/ Head(s2r).t = "PKT" /\ Head(s2r') = [Head(s2r) EXCEPT !.ok = FALSE]
      BY <2>1, <2>3, <1>3, WorseItem DEF YTurns
    <3>2. YTurns'
      BY <3>1, <2>1, <2>3, <1>1 DEF YTurns
    <3>3. ASSUME s2r' # <<>>
          PROVE  \/ Head(s2r').t = "JUNK"
                 \/ /\ Head(s2r').t = "PKT" /\ Head(s2r).t = "PKT"
                    /\ Head(s2r').num = Head(s2r).num /\ Head(s2r').data = Head(s2r).data
      <4>1. CASE Head(s2r') = Byte("JUNK")
        BY <4>1 DEF Byte
      <4>2. CASE Head(s2r).t = "PKT" /\ Head(s2r') = [Head(s2r) EXCEPT !.ok = FALSE]
        <5>1. Head(s2r) \in Packets
          BY <3>1, <3>3, <4>2, <1>3, Writes, YItemFacts
        <5> QED BY <5>1, <4>2 DEF Packets
      <4> QED BY <3>1, <3>3, <4>1, <4>2
    <3>4. YMessages'
      BY <3>1, <3>3, <2>1, <2>3, <1>1, <1>2 DEF YMessages
    <3> QED BY <2>2, <3>2, <3>4
  <2>4. CASE WorseControl(r2s, r2s') /\ UNCHANGED s2r
    <3>1. /\ Len(r2s) <= 2
          /\ Len(r2s) = 2 => r2s[1] \in {"ACK", "JUNK"} /\ r2s[2] \in {"C", "JUNK"}
      BY <2>1 DEF YTurns
    <3>2. /\ Len(r2s') <= Len(r2s)
          /\ Len(r2s') = 2 => /\ Len(r2s) = 2
                              /\ r2s'[1] \in {"ACK", "JUNK"} /\ r2s'[2] \in {"C", "JUNK"}
          /\ r2s' # <<>> => r2s # <<>> /\ (Head(r2s') = "ACK" => Head(r2s) = "ACK")
          /\ Len(r2s) <= 1 /\ r2s' # <<>> => Head(r2s') = "JUNK"
      BY <2>4, <3>1, <1>6, <1>7
    <3>3. Len(r2s') <= 2 /\ (Len(r2s) <= 1 => Len(r2s') <= 1)
      BY <3>1, <3>2, <1>5
    <3>4. YTurns'
      BY <3>1, <3>2, <3>3, <2>1, <2>4, <1>1 DEF YTurns
    <3>5. YMessages'
      BY <3>2, <2>1, <2>4, <1>1, <1>2 DEF YMessages
    <3> QED BY <2>2, <3>4, <3>5
  <2> QED BY <2>3, <2>4, <1>3
<1>9. YVerdict'
  <2>1. YVerdict
    BY DEF YInTime
  <2>2. ASSUME RLive, ~YLive PROVE s2r' = <<>>
    <3>1. s2r = <<>>
      BY <2>1, <2>2 DEF YVerdict
    <3>2. Len(s2r) <= 1
      BY <3>1, <1>5
    <3>3. Worse(s2r, s2r') => (s2r' # <<>> => s2r # <<>>)
      BY <3>2, <1>3, WorseItem
    <3> QED BY <3>1, <3>3, <1>3
  <2>3. ASSUME YLive, ~RLive, NEW i \in 1 .. Len(r2s')
        PROVE  /\ r2s'[i] \notin {"C", "NAK"}
               /\ r2s'[i] = "ACK" => Len(r2s') = 1 /\ (LastName \/ ypc \in {"eot", "eot_wait"})
    <3>1. \A k \in 1 .. Len(r2s) :
             /\ r2s[k] \notin {"C", "NAK"}
             /\ r2s[k] = "ACK" => Len(r2s) = 1 /\ (LastName \/ ypc \in {"eot", "eot_wait"})
      BY <2>1, <2>3 DEF YVerdict
    <3>2. CASE UNCHANGED r2s
      BY <3>1, <3>2, <2>3
    <3>3. CASE WorseControl(r2s, r2s')
      <4>1. Len(r2s') <= Len(r2s) /\ (r2s'[i] = "JUNK" \/ \E k \in 1 .. Len(r2s) : r2s'[i] = r2s[k])
        BY <3>3, <1>6, <2>3
      <4>2. Len(r2s) = 1 => Len(r2s') = 1
        BY <4>1, <1>5, <2>3
      <4> QED BY <4>1, <4>2, <3>1
    <3> QED BY <3>2, <3>3, <1>3
  <2> QED BY <2>1, <2>2, <2>3, <1>1, <1>2 DEF YVerdict
<1> QED BY <1>1, <1>2, <1>4, <1>8, <1>9 DEF YInTime

\* The batch begins with no name, no file and an empty card.
LEMMA InitInBatch == Orderly /\ Init => InBatch
<1> SUFFICES ASSUME Orderly, Init PROVE InBatch
  OBVIOUS
<1>1. /\ s2r = <<>> /\ r2s = <<>> /\ setting \in Settings
      /\ rpc = "flush" /\ after = "start" /\ trychar = "C" /\ crc = FALSE /\ packetno = 1
      /\ curfile = 0 /\ filename = "NONAME" /\ size = 0 /\ ymodem = 0
      /\ fil = "uninit" /\ opened = "NONAME"
      /\ disk = [n \in Names |-> <<>>] /\ closed = {} /\ free = setting.disk
      /\ tpc = (IF setting.batch THEN "done" ELSE "sync")
      /\ ypc = (IF setting.batch THEN "start" ELSE "done")
      /\ yres = "none" /\ yfile = 1 /\ yblock = 0
  BY DEF Init, LineInit, RInit, TInit, YInit
<1>2. setting.batch \in BOOLEAN /\ setting.disk \in Nat /\ Len(Batch) \in Nat
  BY <1>1, SettingsAssumption, LenProperties DEF Orderly
<1>3. CASE ~setting.batch
  BY <1>1, <1>3 DEF InBatch
<1>4. CASE setting.batch
  <2>1. tpc = "done" /\ ypc = "start"
    BY <1>1, <1>4
  <2>2. YLine
    <3>1. <<>> \in Seq(Bytes \cup Packets) /\ <<>> \in Seq(Control)
      BY EmptySeq
    <3>2. yfile \in 1 .. Len(Batch) + 1
      BY <1>1, <1>2
    <3>3. IF yfile <= Len(Batch) THEN yblock \in 0 .. Batch[yfile].sent ELSE yblock = 0
      <4>1. ASSUME 1 <= Len(Batch) PROVE 0 \in 0 .. Batch[1].sent
        <5>1. 1 \in 1 .. Len(Batch)
          BY <4>1, <1>2
        <5>2. Batch[1].sent \in Nat
          BY <5>1, BatchFacts
        <5> QED BY <5>2
      <4> QED BY <4>1, <1>1
    <3> QED BY <3>1, <3>2, <3>3, <2>1, <1>1 DEF YLine
  <2>3. Header /\ ~Named /\ ~Storing /\ ~Ended
    BY <1>1 DEF Header, Named, Storing, Ended
  <2>4. Place
    <3>1. RecvType
      <4>1. <<>> \in Seq(Nat)
        BY EmptySeq
      <4>2. disk \in [Names -> Seq(Nat)]
        BY <4>1, <1>1
      <4>3. "NONAME" \in Names
        BY NamesAssumption
      <4> QED BY <4>2, <4>3, <1>1, <1>2, ModAssumption DEF RecvType
    <3>2. size = SizeOf(Current)
      BY <2>3, <1>1 DEF Current, SizeOf, Ruling
    <3>3. \A f \in 1 .. Len(Batch) : ~(f < curfile \/ (f = curfile /\ ~Storing))
      BY <1>1
    <3> QED BY <3>1, <3>2, <3>3, <2>3, <1>1, <1>2 DEF Place
  <2>5. Card
    <3>1. ASSUME NEW f \in 1 .. Len(Batch) PROVE Holds(f, 0)
      <4>1. f \in Nat /\ Stored(f) \in Names /\ Batch[f].sent \in Nat
        BY BatchFacts
      <4>2. Sent(f, 0) = <<>>
        BY <4>1, SentFacts
      <4> QED BY <4>1, <4>2, <1>1 DEF Holds
    <3>2. \A f \in 1 .. Len(Batch) : ~(f < curfile \/ (f = curfile /\ ~Storing))
      BY <1>1
    <3> QED BY <3>1, <3>2, <2>3 DEF Card
  <2>6. YTurns /\ YMessages
    <3>1. Len(<<>>) = 0
      BY EmptySeq
    <3> QED BY <3>1, <2>1, <1>1 DEF YTurns, YMessages, YSpeaks, RSpeaks
  <2>7. YPace /\ YUndecided
    BY <2>1, <2>3, <1>1 DEF YPace, YUndecided
  <2>8. YVerdict
    BY <2>1, <1>1 DEF YVerdict, RLive, YLive, LastName
  <2> QED BY <2>1, <2>2, <2>4, <2>5, <2>6, <2>7, <2>8, <1>4 DEF InBatch, YInTime, Files
<1> QED BY <1>2, <1>3, <1>4

\* Every step keeps the two sides at the same file.
LEMMA NextInBatch == Orderly /\ InBatch /\ [Next]_vars => InBatch'
<1> SUFFICES ASSUME Orderly, InBatch, [Next]_vars PROVE InBatch'
  OBVIOUS
<1>1. UNCHANGED setting
  BY DEF Next, Receiver, Sender, ReceiverTimeout, SenderTimeout, Noise, Fault, Terminated,
     vars, line
<1>2. ASSUME ~setting.batch PROVE ypc' = "done" /\ yres' = "none"
  <2>1. ypc = "done" /\ yres = "none"
    BY <1>2 DEF InBatch
  <2>2. ~YStep /\ ~YTimeout
    BY <2>1 DEF YStep, YTimeout, YSend, YStart, YAcked, YRefused
  <2> QED BY <2>1, <2>2 DEF Next, Receiver, Sender, ReceiverTimeout, SenderTimeout, Noise,
             Terminated, vars, yvars
<1>3. ASSUME setting.batch PROVE tpc' = "done" /\ YLine' /\ YInTime'
  <2>1. tpc = "done" /\ YLine /\ YInTime
    BY <1>3 DEF InBatch
  <2>2. ~TStep /\ ~TTimeout
    BY <2>1 DEF TStep, TTimeout, Sync, Load, Xmit, Wait, Can, SendEot, EotWait, TFlush
  <2>3. tpc' = "done"
    BY <2>1, <2>2 DEF Next, Receiver, Sender, ReceiverTimeout, SenderTimeout, Noise,
       Terminated, vars, tvars
  <2>4. CASE Receiver \/ ReceiverTimeout
    <3>1. (RStep \/ (RTimeout /\ SQuiet)) /\ UNCHANGED <<setting, tvars, yvars>>
      BY <1>3, <2>4 DEF Receiver, ReceiverTimeout
    <3>2. YLine'
      <4>1. /\ Byte("JUNK") \in YItems /\ s2r \in Seq(YItems) /\ r2s \in Seq(Control)
            /\ trychar \in {"C", "NAK", "none"}
        BY <2>1, YItemFacts DEF YLine, YItems, YInTime, Files, Place, RecvType
      <4>2. s2r' \in Seq(YItems) /\ r2s' \in Seq(Control)
        BY <4>1, <3>1, ReceiverLine
      <4> QED BY <4>2, <3>1, <2>1 DEF YLine, YItems, yvars
    <3>3. CASE RLive /\ YLive
      BY <3>1, <3>2, <3>3, <2>1, <2>3, ReceiverOfBatch
    <3>4. CASE RLive /\ ~YLive
      BY <3>1, <3>2, <3>4, <2>1, <2>3, ReceiverAfterBatch
    <3>5. CASE ~RLive
      BY <3>1, <3>5 DEF RLive, RStep, RTimeout, SendTry, FlushSome, FlushEnd, RJunk, REot,
         RPacket, RCan
    <3> QED BY <3>3, <3>4, <3>5
  <2>5. CASE Sender \/ SenderTimeout
    <3>1. (YStep \/ (YTimeout /\ RQuiet)) /\ UNCHANGED <<setting, rvars>>
      BY <1>3, <2>2, <2>5 DEF Sender, SenderTimeout
    <3>2. YLine'
      BY <3>1, <2>1, SenderOfBatch
    <3>3. CASE RLive /\ YLive
      BY <3>1, <3>2, <3>3, <2>1, <2>3, SenderInBatch
    <3>4. CASE ~RLive /\ YLive
      BY <3>1, <3>2, <3>4, <2>1, <2>3, SenderAfterBatch
    <3>5. CASE ~YLive
      BY <3>1, <3>5 DEF YLive, YStep, YTimeout, YSend, YStart, YAcked, YRefused
    <3> QED BY <3>3, <3>4, <3>5
  <2>6. CASE Noise
    BY <2>1, <2>3, <2>6, <1>1, NoiseInBatch DEF Noise
  <2>7. CASE UNCHANGED vars
    <3>1. /\ UNCHANGED <<packetno, ymodem, rinfo, rfile>>
          /\ trychar' \in {"C", "NAK", "none"} /\ (Storing \/ Ended => trychar' = "none")
          /\ Files
      BY <2>1, <2>7 DEF vars, rvars, YInTime, Files, Place, RecvType
    <3>2. /\ Files' /\ Taken' = Taken /\ curfile' = curfile
          /\ Header' = Header /\ Named' = Named /\ Storing' = Storing /\ Ended' = Ended
      BY <3>1, FilesKept
    <3>3. /\ UNCHANGED <<s2r, r2s, rpc, after, trychar, ypc, yres, yfile, yblock>>
          /\ RLive' = RLive /\ YLive' = YLive /\ RSpeaks' = RSpeaks /\ YSpeaks' = YSpeaks
          /\ LastName' = LastName /\ YPacket' = YPacket
      BY <2>7 DEF vars, line, rvars, yvars, RLive, YLive, RSpeaks, YSpeaks, LastName, YPacket
    <3>4. YLine'
      BY <2>1, <3>3 DEF YLine
    <3>5. /\ YTurns => YTurns'
          /\ YMessages => YMessages'
          /\ YPace => YPace'
          /\ YUndecided => YUndecided'
          /\ YVerdict => YVerdict'
      BY <3>2, <3>3 DEF YTurns, YMessages, YPace, YUndecided, YVerdict
    <3> QED BY <2>1, <2>3, <3>2, <3>3, <3>4, <3>5 DEF YInTime
  <2> QED BY <2>4, <2>5, <2>6, <2>7 DEF Next, Terminated
<1> QED BY <1>1, <1>2, <1>3 DEF InBatch

\* The receiver is at most one packet, one name or one EOT away from the sender of
\* the batch, the files before the one it stores are
\* finished and the ones after it are empty.
THEOREM BatchInvariant == ASSUME Orderly PROVE Spec => []InBatch
<1>1. Init => InBatch
  BY InitInBatch
<1>2. InBatch /\ [Next]_vars => InBatch'
  BY NextInBatch
<1> QED BY <1>1, <1>2, PTL DEF Spec

\* A file of the card holds the beginning of the one file of the batch that is
\* stored there.
LEMMA EachHolds ==
  ASSUME Orderly, Files, NEW f \in 1 .. Len(Batch)
  PROVE  \E n \in 0 .. Batch[f].sent : Holds(f, n)
<1>1. /\ f \in Nat /\ Batch[f].sent \in Nat /\ Goal(f) \in 0 .. Batch[f].sent /\ curfile \in Nat
  <2>1. /\ f \in Nat /\ Batch[f].sent \in Nat /\ Goal(f) \in Nat /\ Goal(f) <= Batch[f].sent
        /\ Len(Batch) \in Nat
    BY BatchFacts
  <2> QED BY <2>1 DEF Files, Place
<1>2. CASE f > curfile
  BY <1>1, <1>2 DEF Files, Card
<1>3. CASE f < curfile \/ (f = curfile /\ ~Storing)
  BY <1>1, <1>3 DEF Files, Card, Finished
<1>4. CASE f = curfile /\ Storing
  <2>1. Taken \in 1 .. Batch[f].sent
    BY <1>4 DEF Files, Place, Storing
  <2>2. Taken \in 0 .. Batch[f].sent /\ \A n \in 0 .. Taken : n \in 0 .. Batch[f].sent
    BY <2>1, <1>1
  <2> QED BY <2>2, <1>4 DEF Files, Card
<1> QED BY <1>1, <1>2, <1>3, <1>4

\* No block of a batch strays into another file than its own: the answers to the
\* two EOTs and to a name keep the two sides at the same file, however often they
\* are lost (xmodem.c:236-296).
THEOREM KeepFilesApart == ASSUME Orderly PROVE Spec => []FilesApart
<1>1. InBatch => FilesApart
  <2> SUFFICES ASSUME InBatch, setting.batch, NEW f \in DOMAIN Batch
               PROVE  /\ Len(disk[Stored(f)]) <= Batch[f].sent
                      /\ disk[Stored(f)] = Sent(f, Len(disk[Stored(f)]))
    BY DEF FilesApart
  <2>1. f \in 1 .. Len(Batch) /\ Files
    BY LenProperties DEF InBatch, YInTime, Orderly
  <2>2. PICK n \in 0 .. Batch[f].sent : Holds(f, n)
    BY <2>1, EachHolds
  <2>3. f \in Nat /\ n \in Nat /\ n <= Batch[f].sent
    BY <2>1, <2>2, BatchFacts
  <2>4. Len(Sent(f, n)) = n
    BY <2>3, SentFacts
  <2> QED BY <2>2, <2>3, <2>4 DEF Holds
<1> QED BY <1>1, BatchInvariant, PTL

\* A file that xm_receive closed is as long as the size that came with its name, or
\* as what was sent of it (CloseFile truncates the open file to size only when there is one),
\* as long as the card is not full.
THEOREM ClosedWhole == ASSUME Orderly PROVE Spec => []ClosedIsWhole
<1>1. InBatch => ClosedIsWhole
  <2> SUFFICES ASSUME InBatch, setting.batch, free > 0,
                      NEW f \in DOMAIN Batch, SizeHeld(f), Stored(f) \in closed
               PROVE  disk[Stored(f)] = Intended(f)
    BY DEF ClosedIsWhole
  <2>1. f \in 1 .. Len(Batch) /\ Files
    BY LenProperties DEF InBatch, YInTime, Orderly
  <2>2. f < curfile \/ (f = curfile /\ ~Storing)
    BY <2>1 DEF Files, Place
  <2>3. Holds(f, Goal(f))
    <3>1. Finished(f)
      BY <2>1, <2>2 DEF Files, Card
    <3>2. free # 0
      OBVIOUS
    <3> QED BY <3>1, <3>2 DEF Finished
  <2>4. /\ SizeOf(f) = (IF Batch[f].sized THEN Batch[f].len ELSE 0)
        /\ Batch[f].sized \in BOOLEAN /\ Batch[f].len \in Nat
    <3>1. Batch[f].sized \in BOOLEAN /\ Batch[f].len \in Nat /\ f \in Nat
      BY <2>1, BatchFacts
    <3>2. CASE Batch[f].sized
      BY <3>1, <3>2, <2>1, NextRuling, IntFacts DEF SizeHeld
    <3>3. CASE ~Batch[f].sized
      <4>1. \A g \in 1 .. f : ~Batch[g].sized
        <5>1. \A g \in 1 .. f : g = f \/ g \in 1 .. f - 1
          BY <3>1
        <5> QED BY <5>1, <3>3 DEF SizeHeld
      <4>2. Ruling(f) = {}
        BY <4>1 DEF Ruling
      <4> QED BY <4>2, <3>1, <3>3 DEF SizeOf
    <3> QED BY <3>1, <3>2, <3>3
  <2>5. Goal(f) = IF Batch[f].sized /\ Batch[f].len > 0 THEN Batch[f].len ELSE Batch[f].sent
    BY <2>4 DEF Goal
  <2> QED BY <2>3, <2>5 DEF Holds, Intended
<1> QED BY <1>1, BatchInvariant, PTL

\* The empty name that ends a batch is acknowledged only when every file was
\* closed.
THEOREM BatchDone == ASSUME Orderly PROVE Spec => []BatchComplete
<1>1. InBatch => BatchComplete
  <2> SUFFICES ASSUME InBatch, yres = "ok", NEW f \in DOMAIN Batch
               PROVE  Stored(f) \in closed
    BY DEF BatchComplete
  <2>1. YInTime
    BY DEF InBatch
  <2>2. f \in 1 .. Len(Batch) /\ Len(Batch) \in Nat
    BY LenProperties DEF Orderly
  <2>3. curfile = Len(Batch) /\ ~Storing
    BY <2>1 DEF YInTime, YVerdict
  <2>4. f < curfile \/ (f = curfile /\ ~Storing)
    BY <2>2, <2>3
  <2> QED BY <2>1, <2>2, <2>4 DEF YInTime, Files, Place
<1> QED BY <1>1, BatchInvariant, PTL
=============================================================================
