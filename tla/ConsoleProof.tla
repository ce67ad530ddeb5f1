---------------------------- MODULE ConsoleProof ----------------------------
EXTENDS Console, SequenceTheorems, TLAPS

Cells == Chars \cup {Space, Prompt}
Modes == Uarts \cup {"file", "unattached"}

EditType == /\ line \in Seq(Chars) /\ row \in Seq(Cells)
            /\ col \in 0 .. Len(row)

SioType == /\ rmode \in [Ports -> Modes] /\ wmode \in [Ports -> Modes]
           /\ wfil \in [Ports -> Seq(Chars)] /\ card \in [Ports -> Seq(Chars)]
           /\ owed \in [Ports -> Seq(Chars)]

QueueType == rxq \in [Uarts -> Seq(Chars \cup Controls)]

\* A port that was found ready is ready until it is read or the Z80 is halted.
StillReady == ~fake /\ (polled \in Ports => pc = "run" /\ Ready(polled))

\* The output file of each port, with what is not in its directory yet.
Accounted == \A p \in Ports : owed[p] = IF wmode[p] = "file" THEN Closed(p) ELSE card[p]

EditInv == EditType /\ EchoIsLine
IInv == EditInv /\ SioType /\ QueueType /\ StillReady /\ Accounted
-----------------------------------------------------------------------------
\* What follows n records of a file that begins with those n.
LEMMA Tails ==
  ASSUME NEW S, NEW w \in Seq(S), NEW c \in Seq(S), NEW n \in Nat, Len(w) < n
  PROVE  LET o == w \o SubSeq(c, Len(w) + 1, Len(c))
         IN  SubSeq(o, n, Len(o)) = SubSeq(c, n, Len(c))
<1> DEFINE t == SubSeq(c, Len(w) + 1, Len(c))
           o == w \o t
<1>1. /\ Len(w) \in Nat /\ Len(c) \in Nat
      /\ \A i \in 1 .. Len(w) : w[i] \in S
      /\ \A i \in 1 .. Len(c) : c[i] \in S
  BY LenProperties, ElementOfSeq
<1>2. /\ t \in Seq(S) /\ Len(t) = IF Len(w) + 1 <= Len(c) THEN Len(c) - Len(w) ELSE 0
      /\ \A i \in 1 .. Len(c) - Len(w) : t[i] = c[Len(w) + i]
  <2>1. \A i \in Len(w) + 1 .. Len(c) : c[i] \in S
    BY <1>1
  <2>2. /\ t \in Seq(S)
        /\ Len(t) = IF Len(w) + 1 <= Len(c) THEN Len(c) - (Len(w) + 1) + 1 ELSE 0
        /\ \A i \in 1 .. Len(c) - (Len(w) + 1) + 1 : t[i] = c[Len(w) + 1 + i - 1]
    BY <1>1, <2>1, SubSeqProperties
  <2> QED BY <1>1, <2>2
<1> HIDE DEF t
<1>3. /\ o \in Seq(S) /\ Len(o) = Len(w) + Len(t)
      /\ \A i \in 1 .. Len(w) + Len(t) : o[i] = IF i <= Len(w) THEN w[i] ELSE t[i - Len(w)]
  BY <1>2, ConcatProperties
<1> HIDE DEF o
<1>4. \A i \in n .. Len(o) : o[i] = c[i]
  BY <1>1, <1>2, <1>3
<1>5. CASE Len(w) < Len(c)
  <2>1. Len(o) = Len(c)
    BY <1>1, <1>2, <1>3, <1>5
  <2>2. /\ SubSeq(o, n, Len(c)) \in Seq(S) /\ SubSeq(c, n, Len(c)) \in Seq(S)
        /\ Len(SubSeq(o, n, Len(c))) = Len(SubSeq(c, n, Len(c)))
        /\ Len(SubSeq(c, n, Len(c))) = IF n <= Len(c) THEN Len(c) - n + 1 ELSE 0
        /\ \A i \in 1 .. Len(c) - n + 1 : SubSeq(o, n, Len(c))[i] = o[n + i - 1]
        /\ \A i \in 1 .. Len(c) - n + 1 : SubSeq(c, n, Len(c))[i] = c[n + i - 1]
    <3>1. \A i \in n .. Len(c) : o[i] \in S /\ c[i] \in S
      BY <1>1, <1>4, <2>1
    <3> QED BY <1>1, <3>1, SubSeqProperties
  <2>3. \A i \in 1 .. Len(SubSeq(c, n, Len(c))) :
            SubSeq(o, n, Len(c))[i] = SubSeq(c, n, Len(c))[i]
    BY <1>1, <1>4, <2>1, <2>2
  <2>4. SubSeq(o, n, Len(c)) = SubSeq(c, n, Len(c))
    BY <2>2, <2>3, SeqEqual
  <2> QED BY <2>1, <2>4 DEF o, t
<1>6. CASE ~(Len(w) < Len(c))
  <2>1. Len(o) < n /\ Len(c) < n /\ Len(o) \in Nat
    BY <1>1, <1>2, <1>3, <1>6
  <2>2. SubSeq(o, n, Len(o)) = <<>> /\ SubSeq(c, n, Len(c)) = <<>>
    BY <1>1, <2>1, SubSeqEmpty
  <2> QED BY <2>2 DEF o, t
<1> QED BY <1>5, <1>6
-----------------------------------------------------------------------------
(* The line editor. *)
LEMMA EditTypes ==
  ASSUME EditType
  PROVE  /\ Len(line) \in Nat /\ Len(row) \in Nat /\ DOMAIN row = 1 .. Len(row)
         /\ \A i \in 1 .. Len(line) : line[i] \in Chars
         /\ \A i \in 1 .. Len(row) : row[i] \in Cells
         /\ col \in Nat /\ col <= Len(row) /\ DOMAIN line = 1 .. Len(line)
BY LenProperties, ElementOfSeq DEF EditType

\* A function on 1 .. n is a sequence of length n.
LEMMA FunIsSeq ==
  ASSUME NEW S, NEW n \in Nat, NEW f \in [1 .. n -> S]
  PROVE  f \in Seq(S) /\ Len(f) = n
<1>1. f \in Seq(S)
  BY SeqDef
<1>2. Len(f) \in Nat /\ DOMAIN f = 1 .. Len(f)
  BY <1>1, LenProperties
<1> QED BY <1>1, <1>2

LEMMA EraseKeeps ==
  ASSUME EditInv, NEW n \in 0 .. Len(line), Erase(n)
  PROVE  EditInv'
<1> USE DEF EditInv
<1>1. /\ Len(line) \in Nat /\ Len(row) \in Nat /\ DOMAIN row = 1 .. Len(row)
      /\ \A i \in 1 .. Len(line) : line[i] \in Chars
      /\ \A i \in 1 .. Len(row) : row[i] \in Cells
      /\ col \in Nat /\ col <= Len(row) /\ DOMAIN line = 1 .. Len(line)
  BY EditTypes
<1>2. /\ line' \in Seq(Chars) /\ Len(line') = Len(line) - n
      /\ \A i \in 1 .. Len(line) - n : line'[i] = line[i]
      /\ DOMAIN line' = 1 .. Len(line')
  <2> DEFINE m == Len(line) - n
             s == SubSeq(line, 1, m)
  <2>1. \A i \in 1 .. m : line[i] \in Chars
    BY <1>1
  <2>2. /\ s \in Seq(Chars)
        /\ Len(s) = IF 1 <= m THEN m - 1 + 1 ELSE 0
        /\ \A i \in 1 .. m - 1 + 1 : s[i] = line[1 + i - 1]
    <3>1. m \in Int
      BY <1>1
    <3> HIDE DEF m
    <3> QED BY <2>1, <3>1, SubSeqProperties
  <2>3. line' = s
    BY DEF Erase
  <2> HIDE DEF s
  <2>4. m \in Nat /\ Len(s) = m
    <3>1. m \in Nat
      BY <1>1
    <3> HIDE DEF m
    <3> QED BY <2>2, <3>1
  <2>5. \A i \in 1 .. m : s[i] = line[i]
    <3>1. \A i \in 1 .. m : i \in 1 .. m - 1 + 1 /\ 1 + i - 1 = i
      BY <2>4
    <3> HIDE DEF m
    <3> QED BY <2>2, <3>1
  <2>6. DOMAIN s = 1 .. Len(s)
    BY <2>2, LenProperties
  <2> QED BY <2>2, <2>3, <2>4, <2>5, <2>6, Zenon
<1>3. Rubbed(n) \in [1 .. Len(row) -> Cells]
  BY <1>1 DEF Rubbed, Cells
<1>4. row' \in Seq(Cells) /\ Len(row') = Len(row)
  BY <1>1, <1>3, FunIsSeq DEF Erase
<1>5. col' = col - n /\ Len(line) <= col /\ Len(line) < LINE_BUFF
  BY DEF Erase, EchoIsLine
<1>6. \A i \in 1 .. Len(line) - n : row'[col' - (Len(line) - n) + i] = line'[i]
  <2> SUFFICES ASSUME NEW i \in 1 .. Len(line) - n
               PROVE  row'[col' - (Len(line) - n) + i] = line'[i]
    OBVIOUS
  <2>1. col' - (Len(line) - n) + i = col - Len(line) + i
    BY <1>1, <1>5
  <2>2. col - Len(line) + i \in 1 .. Len(row) /\ ~(col - Len(line) + i \in col - n + 1 .. col)
    BY <1>1, <1>5
  <2>3. row'[col - Len(line) + i] = row[col - Len(line) + i]
    BY <1>1, <2>2 DEF Erase, Rubbed
  <2>4. row[col - Len(line) + i] = line[i]
    BY <1>1 DEF EchoIsLine
  <2> QED BY <1>2, <2>1, <2>3, <2>4
<1>7. EditType'
  BY <1>1, <1>2, <1>4, <1>5 DEF EditType
<1>8. EchoIsLine'
  <2>1. Len(line') < LINE_BUFF /\ Len(line') <= col'
    BY <1>1, <1>2, <1>5, LineAssumption
  <2>2. \A i \in DOMAIN line' : row'[col' - Len(line') + i] = line'[i]
    BY <1>2, <1>6
  <2> QED BY <2>1, <2>2 DEF EchoIsLine
<1> QED BY <1>7, <1>8

LEMMA InsertKeeps ==
  ASSUME EditInv, QueueType, Insert
  PROVE  EditInv'
<1> USE DEF EditInv
<1>1. /\ Len(line) \in Nat /\ Len(row) \in Nat /\ DOMAIN row = 1 .. Len(row)
      /\ \A i \in 1 .. Len(line) : line[i] \in Chars
      /\ \A i \in 1 .. Len(row) : row[i] \in Cells
      /\ col \in Nat /\ col <= Len(row) /\ DOMAIN line = 1 .. Len(line)
  BY EditTypes
<1> DEFINE x == Head(rxq[Main])
<1>2. x \in Chars
  BY DEF Insert, Key
<1>3. CASE Len(line) = LINE_BUFF - 1
  BY <1>3 DEF Insert, edit, EditType, EchoIsLine
<1>4. CASE Len(line) # LINE_BUFF - 1
  <2> HIDE DEF x
  <2>1. line' = Append(line, x) /\ row' = Put(row, col, x) /\ col' = col + 1
    BY <1>4 DEF Insert, x
  <2>2. /\ line' \in Seq(Chars) /\ Len(line') = Len(line) + 1
        /\ \A i \in 1 .. Len(line) : line'[i] = line[i]
        /\ line'[Len(line) + 1] = x /\ DOMAIN line' = 1 .. Len(line')
    <3>1. line \in Seq(Chars)
      BY DEF EditType
    <3> QED BY <1>1, <1>2, <2>1, <3>1, AppendProperties, LenProperties
  <2> DEFINE n == IF col < Len(row) THEN Len(row) ELSE col + 1
  <2>3. n \in Nat /\ n >= col + 1 /\ row' \in [1 .. n -> Cells]
    BY <1>1, <1>2, <2>1 DEF Put, Cells
  <2>4. row' \in Seq(Cells) /\ Len(row') = n
    BY <2>3, FunIsSeq
  <2>5. EditType'
    BY <1>1, <2>1, <2>2, <2>3, <2>4 DEF EditType
  <2>6. Len(line) < LINE_BUFF - 1 /\ Len(line) <= col
    BY <1>1, <1>4, LineAssumption DEF EchoIsLine
  <2>7. \A i \in 1 .. Len(line) + 1 : row'[col' - (Len(line) + 1) + i] = line'[i]
    <3> SUFFICES ASSUME NEW i \in 1 .. Len(line) + 1
                 PROVE  row'[col' - (Len(line) + 1) + i] = line'[i]
      OBVIOUS
    <3>1. col' - (Len(line) + 1) + i = col - Len(line) + i
      BY <1>1, <2>1
    <3>2. col - Len(line) + i \in 1 .. n
      BY <1>1, <2>3, <2>6
    <3>3. row'[col - Len(line) + i] = IF col - Len(line) + i = col + 1 THEN x
                                      ELSE row[col - Len(line) + i]
      BY <2>1, <3>2 DEF Put
    <3>4. CASE i = Len(line) + 1
      BY <1>1, <2>2, <3>1, <3>3, <3>4
    <3>5. CASE i # Len(line) + 1
      <4>1. i \in 1 .. Len(line) /\ col - Len(line) + i # col + 1
        BY <1>1, <3>5
      <4>2. row[col - Len(line) + i] = line[i]
        BY <1>1, <4>1 DEF EchoIsLine
      <4> QED BY <2>2, <3>1, <3>3, <4>1, <4>2
    <3> QED BY <3>4, <3>5
  <2>8. EchoIsLine'
    <3>1. Len(line') < LINE_BUFF /\ Len(line') <= col'
      BY <1>1, <2>1, <2>2, <2>6, LineAssumption
    <3> QED BY <2>2, <2>7, <3>1 DEF EchoIsLine
  <2> QED BY <2>5, <2>8
<1> QED BY <1>3, <1>4

LEMMA ReprintKeeps ==
  ASSUME EditInv, Reprint
  PROVE  EditInv'
<1> USE DEF EditInv
<1>1. /\ Len(line) \in Nat /\ Len(row) \in Nat /\ DOMAIN row = 1 .. Len(row)
      /\ \A i \in 1 .. Len(line) : line[i] \in Chars
      /\ \A i \in 1 .. Len(row) : row[i] \in Cells
      /\ col \in Nat /\ col <= Len(row) /\ DOMAIN line = 1 .. Len(line)
  BY EditTypes
<1> DEFINE n == IF Len(row) > Len(line) THEN Len(row) ELSE Len(line)
<1>2. line' = line /\ col' = Len(line)
      /\ row' = [i \in 1 .. n |-> IF i <= Len(line) THEN line[i] ELSE row[i]]
  BY DEF Reprint
<1>3. n \in Nat /\ Len(line) <= n /\ row' \in [1 .. n -> Cells]
  BY <1>1, <1>2 DEF Cells
<1>4. row' \in Seq(Cells) /\ Len(row') = n
  BY <1>3, FunIsSeq
<1>5. EditType'
  BY <1>1, <1>2, <1>3, <1>4 DEF EditType
<1>6. EchoIsLine'
  <2>1. \A i \in 1 .. Len(line) : Len(line) - Len(line) + i = i /\ row'[i] = line[i]
    BY <1>1, <1>2, <1>3
  <2> QED BY <1>1, <1>2, <2>1 DEF EchoIsLine
<1> QED BY <1>5, <1>6

LEMMA EnterKeeps ==
  ASSUME line' = <<>>, row' = <<Prompt>>, col' = 1
  PROVE  EditInv'
<1>1. row' \in [1 .. 1 -> Cells]
  BY DEF Cells
<1>2. row' \in Seq(Cells) /\ Len(row') = 1
  BY <1>1, FunIsSeq
<1>3. line' \in Seq(Chars) /\ Len(line') = 0 /\ DOMAIN line' = {}
  BY EmptySeq
<1>4. 0 < LINE_BUFF
  BY LineAssumption
<1> QED BY <1>2, <1>3, <1>4 DEF EditInv, EditType, EchoIsLine

LEMMA EditKeeps ==
  ASSUME EditInv, QueueType, Edit
  PROVE  EditInv'
<1>1. Len(line) \in Nat
  BY EditTypes DEF EditInv
<1>2. CASE Insert
  BY <1>2, InsertKeeps
<1>3. CASE EraseOne
  <2>1. CASE line = <<>>
    BY <1>1, <1>3, <2>1, EraseKeeps DEF EraseOne
  <2>2. CASE line # <<>>
    <3>1. Len(line) # 0
      BY <2>2, EmptySeq DEF EditInv, EditType
    <3> QED BY <1>1, <1>3, <2>2, <3>1, EraseKeeps DEF EraseOne
  <2> QED BY <2>1, <2>2
<1>4. CASE Kill
  BY <1>1, <1>4, EraseKeeps DEF Kill
<1>5. CASE Word
  <2>1. PICK n \in 0 .. Len(line) : Erase(n)
    BY <1>5 DEF Word
  <2> QED BY <2>1, EraseKeeps
<1>6. CASE Reprint
  BY <1>6, ReprintKeeps
<1>7. CASE Ignore
  BY <1>7 DEF Ignore, edit, EditInv, EditType, EchoIsLine
<1>8. CASE Enter
  BY <1>8, EnterKeeps DEF Enter
<1> QED BY <1>2, <1>3, <1>4, <1>5, <1>6, <1>7, <1>8 DEF Edit
-----------------------------------------------------------------------------
(* The ports. *)
LEMMA ClosedIsSeq ==
  ASSUME NEW w, w \in Seq(Chars), NEW c, c \in Seq(Chars), NEW n \in Nat
  PROVE  w \o SubSeq(c, n + 1, Len(c)) \in Seq(Chars)
<1>1. Len(c) \in Nat /\ \A i \in n + 1 .. Len(c) : c[i] \in Chars
  BY LenProperties, ElementOfSeq
<1>2. SubSeq(c, n + 1, Len(c)) \in Seq(Chars)
  <2>1. n + 1 \in Int /\ Len(c) \in Int
    BY <1>1
  <2> QED BY <1>1, <2>1, SubSeqProperties
<1> QED BY <1>2, ConcatProperties

\* A file that was just opened adds nothing to what is in the directory.
LEMMA ClosedEmpty ==
  ASSUME NEW c, c \in Seq(Chars)
  PROVE  <<>> \o SubSeq(c, Len(<<>>) + 1, Len(c)) = c
<1>1. Len(<<>>) + 1 = 1
  BY EmptySeq
<1>2. SubSeq(c, 1, Len(c)) = c
  BY SubSeqFull
<1>3. <<>> \o c = c
  BY ConcatEmptySeq
<1> QED BY <1>1, <1>2, <1>3

LEMMA AttachWriteKeeps ==
  ASSUME SioType, Accounted, NEW p \in Ports, NEW mode \in Uarts \cup {"file"},
         AttachWrite(p, mode)
  PROVE  SioType' /\ Accounted'
<1>1. wmode' \in [Ports -> Modes] /\ \A q \in Ports \ {p} : wmode'[q] = wmode[q]
  BY DEF AttachWrite, SioType, Modes
<1>2. wfil' = [wfil EXCEPT ![p] = <<>>] /\ wfil' \in [Ports -> Seq(Chars)]
  BY EmptySeq DEF AttachWrite, SioType
<1>3. card' \in [Ports -> Seq(Chars)] /\ card'[p] = owed[p]
      /\ \A q \in Ports \ {p} : card'[q] = card[q]
  <2>1. wfil[p] \in Seq(Chars) /\ card[p] \in Seq(Chars) /\ Len(wfil[p]) \in Nat
    BY LenProperties DEF SioType
  <2>2. Closed(p) \in Seq(Chars)
    BY <2>1, ClosedIsSeq DEF Closed
  <2>3. owed[p] = IF wmode[p] = "file" THEN Closed(p) ELSE card[p]
    BY DEF Accounted
  <2>4. card' = IF wmode[p] = "file" THEN [card EXCEPT ![p] = Closed(p)] ELSE card
    BY DEF AttachWrite, Detach
  <2> HIDE DEF Closed
  <2> QED BY <2>2, <2>3, <2>4 DEF SioType
<1>4. owed' = owed /\ rmode' = rmode
  BY DEF AttachWrite
<1>5. SioType'
  BY <1>1, <1>2, <1>3, <1>4 DEF SioType
<1>6. ASSUME NEW q \in Ports
      PROVE  owed'[q] = IF wmode'[q] = "file" THEN Closed(q)' ELSE card'[q]
  <2>1. CASE q = p
    <3>1. wfil'[q] = <<>> /\ card'[q] \in Seq(Chars)
      BY <1>2, <1>3, <2>1 DEF SioType
    <3>2. Closed(q)' = card'[q]
      BY <3>1, ClosedEmpty DEF Closed
    <3> QED BY <1>3, <1>4, <2>1, <3>2
  <2>2. CASE q # p
    <3>1. wfil'[q] = wfil[q] /\ card'[q] = card[q] /\ wmode'[q] = wmode[q]
      BY <1>1, <1>2, <1>3, <2>2 DEF SioType
    <3>2. Closed(q)' = Closed(q)
      BY <3>1 DEF Closed
    <3> QED BY <1>4, <3>1, <3>2 DEF Accounted
  <2> QED BY <2>1, <2>2
<1> QED BY <1>5, <1>6 DEF Accounted

LEMMA AttachReadKeeps ==
  ASSUME SioType, Accounted, NEW p \in Ports, NEW mode \in Uarts \cup {"file"},
         AttachRead(p, mode)
  PROVE  SioType' /\ Accounted'
<1>1. rmode' \in [Ports -> Modes]
  BY DEF AttachRead, SioType, Modes
<1> QED BY <1>1 DEF AttachRead, SioType, Accounted, Closed

LEMMA WriteKeeps ==
  ASSUME SioType, Accounted, NEW p \in Ports, sio_write(p, Space)
  PROVE  SioType' /\ Accounted'
<1> DEFINE w == Append(wfil[p], Space)
           o == w \o SubSeq(owed[p], Len(w) + 1, Len(owed[p]))
<1>1. /\ wfil[p] \in Seq(Chars) /\ card[p] \in Seq(Chars) /\ owed[p] \in Seq(Chars)
      /\ Len(wfil[p]) \in Nat
  BY LenProperties DEF SioType
<1>2. w \in Seq(Chars) /\ Len(w) = Len(wfil[p]) + 1 /\ Len(w) \in Nat
  BY <1>1, AppendProperties, LineAssumption
<1>3. wmode[p] = "file"
  BY DEF sio_write
<1>4. owed[p] = Closed(p)
  BY <1>3 DEF Accounted
<1>5. SubSeq(owed[p], Len(w) + 1, Len(owed[p])) = SubSeq(card[p], Len(w) + 1, Len(card[p]))
  <2>1. Len(wfil[p]) < Len(w) + 1 /\ Len(w) + 1 \in Nat
    BY <1>1, <1>2
  <2> HIDE DEF w
  <2>2. ASSUME NEW v \in Seq(Chars), NEW c \in Seq(Chars), NEW n \in Nat, Len(v) < n
        PROVE  SubSeq(v \o SubSeq(c, Len(v) + 1, Len(c)), n,
                      Len(v \o SubSeq(c, Len(v) + 1, Len(c)))) = SubSeq(c, n, Len(c))
    BY <2>2, Tails
  <2>3. owed[p] = wfil[p] \o SubSeq(card[p], Len(wfil[p]) + 1, Len(card[p]))
    BY <1>4 DEF Closed
  <2>4. SubSeq(wfil[p] \o SubSeq(card[p], Len(wfil[p]) + 1, Len(card[p])), Len(w) + 1,
               Len(wfil[p] \o SubSeq(card[p], Len(wfil[p]) + 1, Len(card[p])))) =
        SubSeq(card[p], Len(w) + 1, Len(card[p]))
    BY <1>1, <2>1, <2>2, Zenon
  <2> QED BY <2>3, <2>4, Zenon
<1>6. o \in Seq(Chars)
  BY <1>1, <1>2, ClosedIsSeq
<1>7. wfil' = [wfil EXCEPT ![p] = w] /\ wfil'[p] = w
  BY DEF sio_write, SioType
<1>8. owed' = [owed EXCEPT ![p] = o]
  BY <1>7 DEF sio_write
<1> HIDE DEF w, o
<1>9. UNCHANGED <<rmode, wmode, card>>
  BY DEF sio_write
<1>10. SioType'
  BY <1>2, <1>6, <1>7, <1>8, <1>9 DEF SioType
<1>11. ASSUME NEW q \in Ports
       PROVE  owed'[q] = IF wmode'[q] = "file" THEN Closed(q)' ELSE card'[q]
  <2>1. CASE q = p
    <3>1. owed'[q] = o
      BY <1>8, <2>1 DEF SioType
    <3>2. Closed(q)' = w \o SubSeq(card[p], Len(w) + 1, Len(card[p]))
      BY <1>7, <1>9, <2>1 DEF Closed
    <3>3. o = w \o SubSeq(card[p], Len(w) + 1, Len(card[p]))
      BY <1>5 DEF o
    <3> QED BY <1>3, <1>9, <2>1, <3>1, <3>2, <3>3
  <2>2. CASE q # p
    <3>1. wfil'[q] = wfil[q] /\ owed'[q] = owed[q]
      BY <1>7, <1>8, <2>2 DEF SioType
    <3>2. Closed(q)' = Closed(q)
      BY <1>9, <3>1 DEF Closed
    <3> QED BY <1>9, <3>1, <3>2 DEF Accounted
  <2> QED BY <2>1, <2>2
<1> QED BY <1>10, <1>11 DEF Accounted
-----------------------------------------------------------------------------
\* The ports keep a byte for the program that polls them.
LEMMA TypeKeeps ==
  ASSUME IInv, NEW u \in Uarts, NEW k \in Chars \cup Controls, Type(u, k)
  PROVE  QueueType' /\ StillReady'
<1>1. rxq[u] \in Seq(Chars \cup Controls)
  BY DEF IInv, QueueType
<1>2. Append(rxq[u], k) \in Seq(Chars \cup Controls) /\ Append(rxq[u], k) # <<>>
  BY <1>1, AppendProperties
<1>3. rxq' = [rxq EXCEPT ![u] = Append(rxq[u], k)]
  BY DEF Type
<1>4. QueueType'
  BY <1>2, <1>3 DEF QueueType, IInv
<1>5. \A v \in Uarts : rxq[v] # <<>> => rxq'[v] # <<>>
  BY <1>2, <1>3 DEF QueueType, IInv
<1>6. pc' = pc /\ polled' = polled /\ fake' = fake /\ rmode' = rmode
  BY DEF Type, sio
<1> QED BY <1>4, <1>5, <1>6 DEF StillReady, Ready, IInv

LEMMA TailKeeps ==
  ASSUME QueueType, NEW u \in Uarts, rxq[u] # <<>>, rxq' = [rxq EXCEPT ![u] = Tail(rxq[u])]
  PROVE  QueueType'
<1>1. Tail(rxq[u]) \in Seq(Chars \cup Controls)
  BY HeadTailProperties DEF QueueType
<1> QED BY <1>1 DEF QueueType

LEMMA ReadKeeps ==
  ASSUME IInv, NEW p \in Ports, sio_read(p)
  PROVE  QueueType' /\ StillReady'
<1> DEFINE received == rmode[p] \in Uarts /\ rxq[rmode[p]] # <<>>
<1>1. QueueType'
  <2>1. CASE received
    <3>1. rxq' = [rxq EXCEPT ![rmode[p]] = Tail(rxq[rmode[p]])]
      BY <2>1 DEF sio_read
    <3> QED BY <2>1, <3>1, TailKeeps DEF IInv
  <2>2. CASE ~received
    BY <2>2 DEF sio_read, IInv, QueueType
  <2> QED BY <2>1, <2>2
<1>2. polled = p => received \/ rmode[p] = "file"
  BY DEF IInv, StillReady, Ready
<1>3. ~fake
  BY DEF IInv, StillReady
<1>4. fake' = (fake \/ (polled = p /\ ~received /\ rmode[p] # "file")) /\ polled' = None
  BY DEF sio_read
<1>5. ~fake'
  BY <1>2, <1>3, <1>4, Zenon
<1> QED BY <1>1, <1>4, <1>5, PortAssumption DEF StillReady

\* The line editor runs while the program does not.
LEMMA EditQueue ==
  ASSUME IInv, Edit
  PROVE  QueueType' /\ StillReady' /\ SioType' /\ Accounted'
<1>1. pc = "edit" /\ rxq[Main] # <<>> /\ rxq' = [rxq EXCEPT ![Main] = Tail(rxq[Main])]
      /\ UNCHANGED <<sio, polled, fake>>
  BY DEF Edit, Insert, EraseOne, Kill, Word, Reprint, Ignore, Enter, Key
<1>2. QueueType'
  BY <1>1, TailKeeps, PortAssumption DEF IInv
<1>3. StillReady'
  BY <1>1 DEF IInv, StillReady
<1>4. SioType' /\ Accounted'
  BY <1>1 DEF sio, IInv, SioType, Accounted, Closed
<1> QED BY <1>2, <1>3, <1>4

LEMMA Initially ==
  ASSUME Init
  PROVE  IInv
<1>1. EditInv
  <2>1. row \in [1 .. 1 -> Cells]
    BY DEF Init, Cells
  <2>2. row \in Seq(Cells) /\ Len(row) = 1
    BY <2>1, FunIsSeq
  <2>3. line \in Seq(Chars) /\ Len(line) = 0 /\ DOMAIN line = {} /\ col = 1
    BY EmptySeq DEF Init
  <2>4. 0 < LINE_BUFF
    BY LineAssumption
  <2> QED BY <2>2, <2>3, <2>4 DEF EditInv, EditType, EchoIsLine
<1>2. SioType /\ QueueType
  BY EmptySeq, PortAssumption DEF Init, SioType, QueueType, Modes
<1>3. StillReady
  BY PortAssumption DEF Init, StillReady
<1>4. Accounted
  BY PortAssumption DEF Init, Accounted
<1> QED BY <1>1, <1>2, <1>3, <1>4 DEF IInv

LEMMA Steps ==
  ASSUME IInv, [Next]_vars
  PROVE  IInv'
<1>1. CASE Edit
  BY <1>1, EditKeeps, EditQueue DEF IInv
<1>2. CASE Command
  <2>1. EditInv' /\ QueueType' /\ StillReady'
    BY <1>2 DEF Command, IInv, EditInv, EditType, EchoIsLine, edit, QueueType, StillReady
  <2>2. SioType' /\ Accounted'
    <3>1. CASE UNCHANGED sio
      BY <3>1 DEF sio, IInv, SioType, Accounted, Closed
    <3>2. ASSUME NEW p \in Ports, NEW mode \in Uarts \cup {"file"}, AttachWrite(p, mode)
          PROVE  SioType' /\ Accounted'
      BY <3>2, AttachWriteKeeps DEF IInv
    <3>3. ASSUME NEW p \in Ports, NEW mode \in Uarts \cup {"file"}, AttachRead(p, mode)
          PROVE  SioType' /\ Accounted'
      BY <3>3, AttachReadKeeps DEF IInv
    <3> QED BY <1>2, <3>1, <3>2, <3>3 DEF Command
  <2> QED BY <2>1, <2>2 DEF IInv
<1>3. CASE Halt
  <2>1. EditInv' /\ QueueType' /\ SioType' /\ Accounted'
    BY <1>3 DEF Halt, IInv, EditInv, EditType, EchoIsLine, edit, QueueType, sio, SioType,
                Accounted, Closed
  <2>2. StillReady'
    BY <1>3, PortAssumption DEF Halt, IInv, StillReady
  <2> QED BY <2>1, <2>2 DEF IInv
<1>4. ASSUME NEW p \in Ports, sio_status(p)
      PROVE  IInv'
  <2>1. EditInv' /\ QueueType' /\ SioType' /\ Accounted'
    BY <1>4 DEF sio_status, IInv, EditInv, EditType, EchoIsLine, edit, QueueType, sio,
                SioType, Accounted, Closed
  <2>2. StillReady'
    BY <1>4, PortAssumption DEF sio_status, IInv, StillReady, Ready, sio
  <2> QED BY <2>1, <2>2 DEF IInv
<1>5. ASSUME NEW p \in Ports, sio_read(p)
      PROVE  IInv'
  <2>1. EditInv' /\ SioType' /\ Accounted'
    BY <1>5 DEF sio_read, IInv, EditInv, EditType, EchoIsLine, edit, SioType, Accounted, Closed
  <2> QED BY <1>5, <2>1, ReadKeeps DEF IInv
<1>6. ASSUME NEW p \in Ports, sio_write(p, Space)
      PROVE  IInv'
  <2>1. EditInv' /\ QueueType' /\ StillReady'
    BY <1>6 DEF sio_write, IInv, EditInv, EditType, EchoIsLine, edit, QueueType, StillReady,
                Ready
  <2> QED BY <1>6, <2>1, WriteKeeps DEF IInv
<1>7. ASSUME NEW u \in Uarts, NEW k \in Chars \cup Controls, Type(u, k)
      PROVE  IInv'
  <2>1. EditInv' /\ SioType' /\ Accounted'
    BY <1>7 DEF Type, IInv, EditInv, EditType, EchoIsLine, edit, sio, SioType, Accounted, Closed
  <2> QED BY <1>7, <2>1, TypeKeeps DEF IInv
<1>8. CASE UNCHANGED vars
  BY <1>8 DEF vars, edit, sio, IInv, EditInv, EditType, EchoIsLine, QueueType, SioType,
              StillReady, Ready, Accounted, Closed
<1> QED BY <1>1, <1>2, <1>3, <1>4, <1>5, <1>6, <1>7, <1>8, LineAssumption, PortAssumption
        DEF Next, Program

\* The editor, the ports and the files agree after any keys, commands and port accesses.
THEOREM Inductive == Spec => []IInv
<1>1. Init => IInv
  BY Initially
<1>2. IInv /\ [Next]_vars => IInv'
  BY Steps
<1> QED BY <1>1, <1>2, PTL DEF Spec

\* The screen shows the line, for every size of the line buffer: uart_getchar.
THEOREM EditorEchoes == Spec => []EchoIsLine
<1>1. IInv => EchoIsLine
  BY DEF IInv, EditInv
<1> QED BY <1>1, Inductive, PTL

\* sio_status never promises a byte that sio_read does not have.
THEOREM StatusHonest == Spec => []PolledIsReal
<1>1. IInv => PolledIsReal
  BY DEF IInv, StillReady, PolledIsReal
<1> QED BY <1>1, Inductive, PTL

\* sio_attach loses nothing of the file it replaces.
THEOREM AttachSaves == Spec => []NothingUnsaved
<1>1. IInv => NothingUnsaved
  BY DEF IInv, Accounted, NothingUnsaved
<1> QED BY <1>1, Inductive, PTL
=============================================================================
