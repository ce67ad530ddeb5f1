--------------------------- MODULE BdosFileProof ---------------------------
(***************************************************************************)
(* What holds of the file calls for any number of FCBs and files, as long  *)
(* as nextseq has not come round: files hold what the program stored in    *)
(* them, the FIL is never taken for the wrong FCB, a close saves           *)
(* everything and read-only files are kept.                                *)
(***************************************************************************)
EXTENDS BdosFile, TLAPS

\* No number is given out a second time.
Enough == MaxOpens \in Nat /\ MaxOpens < SeqMod

LEMMA Remainder ==
  ASSUME NEW m \in Nat \ {0}, NEW k \in Nat
  PROVE  /\ k % m \in 0 .. m - 1
         /\ k \in 1 .. m - 1 => k % m # 0
BY Z3

\* The sequence number that TakeSeq takes, and the next one.
LEMMA Numbers ==
  ASSUME Enough, IInv, TakeSeq
  PROVE  /\ nextseq = opens + 1 /\ opens' = opens + 1 /\ opens' \in 0 .. MaxOpens
         /\ opens' < MaxOpens => nextseq' = opens' + 1
<1>1. nextseq = opens + 1 /\ opens' = opens + 1 /\ opens' \in 0 .. MaxOpens
  BY DEF Enough, IInv, TypeOK, SeqOK, TakeSeq
<1>2. ASSUME opens' < MaxOpens PROVE nextseq' = opens' + 1
  <2>1. nextseq + 1 \in 1 .. SeqMod - 1 /\ SeqMod \in Nat \ {0}
    BY <1>1, <1>2, BdosAssumption DEF Enough, IInv, TypeOK
  <2>2. (nextseq + 1) % SeqMod # 0
    BY <2>1, Remainder
  <2> QED BY <1>1, <2>2 DEF TakeSeq
<1> QED BY <1>1, <1>2

-----------------------------------------------------------------------------
(* Closing and opening the FIL. *)

\* f_close brings the directory up to date and changes nothing else.
LEMMA CloseKeeps ==
  ASSUME IInv
  PROVE  /\ AfterClose = [n \in Names |-> [there |-> AfterClose[n].there, ro |-> AfterClose[n].ro,
                                           recs |-> AfterClose[n].recs]]
         /\ \A n \in Names : /\ AfterClose[n].there = dir[n].there
                             /\ AfterClose[n].ro = dir[n].ro
                             /\ AfterClose[n].recs = truth[n]
                             /\ dir[n].ro \/ ~dir[n].there => AfterClose[n] = dir[n]
<1>1. CASE fil.open /\ fil.write /\ ~fil.orphan
  <2>1. AfterClose = [dir EXCEPT ![fil.name].recs = fil.recs]
    BY <1>1 DEF AfterClose
  <2>2. fil.name \in Names /\ dir[fil.name].there /\ ~dir[fil.name].ro
    BY <1>1 DEF IInv, FilOK
  <2>3. AfterClose[fil.name] = [there |-> dir[fil.name].there, ro |-> dir[fil.name].ro,
                                recs |-> fil.recs]
    <3>1. dir[fil.name] = [there |-> dir[fil.name].there, ro |-> dir[fil.name].ro,
                           recs |-> dir[fil.name].recs]
      BY <2>2 DEF IInv, TypeOK
    <3>2. fil.name \in DOMAIN dir
      BY <2>2 DEF IInv, TypeOK
    <3>3. AfterClose[fil.name] = [dir[fil.name] EXCEPT !.recs = fil.recs]
      BY <2>1, <3>2
    <3> QED BY <3>1, <3>3
  <2>4. \A n \in Names : n # fil.name => AfterClose[n] = dir[n] /\ dir[n].recs = truth[n]
    BY <2>1 DEF IInv, TypeOK, Coherent, Holds
  <2>5. AfterClose = [n \in Names |-> AfterClose[n]]
    BY <2>1 DEF IInv, TypeOK
  <2>6. \A n \in Names : dir[n] = [there |-> dir[n].there, ro |-> dir[n].ro, recs |-> dir[n].recs]
    BY DEF IInv, TypeOK
  <2>7. fil.recs = truth[fil.name]
    BY <1>1, <2>2 DEF IInv, Coherent, Holds
  <2>8. ASSUME NEW n \in Names
        PROVE  /\ AfterClose[n].there = dir[n].there
               /\ AfterClose[n].ro = dir[n].ro
               /\ AfterClose[n].recs = truth[n]
               /\ dir[n].ro \/ ~dir[n].there => AfterClose[n] = dir[n]
    <3>1. CASE n = fil.name
      <4>1. /\ AfterClose[fil.name].there = dir[fil.name].there
            /\ AfterClose[fil.name].ro = dir[fil.name].ro
        <5> DEFINE there == dir[fil.name].there  ro == dir[fil.name].ro
        <5>1. AfterClose[fil.name] = [there |-> there, ro |-> ro, recs |-> fil.recs]
          BY <2>3
        <5> HIDE DEF there, ro
        <5>2. AfterClose[fil.name].there = there /\ AfterClose[fil.name].ro = ro
          BY <5>1
        <5> QED BY <5>2 DEF there, ro
      <4>2. AfterClose[fil.name].recs = fil.recs
        BY <2>3
      <4> QED BY <2>2, <2>7, <3>1, <4>1, <4>2, Zenon
    <3>2. CASE n # fil.name
      BY <2>4, <3>2
    <3> QED BY <3>1, <3>2
  <2>9. \A n \in Names : AfterClose[n] = [there |-> AfterClose[n].there, ro |-> AfterClose[n].ro,
                                          recs |-> AfterClose[n].recs]
    BY <2>3, <2>4, <2>6
  <2>10. AfterClose = [n \in Names |-> [there |-> AfterClose[n].there, ro |-> AfterClose[n].ro,
                                        recs |-> AfterClose[n].recs]]
    BY <2>5, <2>9
  <2> QED BY <2>8, <2>10
<1>2. CASE ~(fil.open /\ fil.write /\ ~fil.orphan)
  <2>1. AfterClose = dir
    BY <1>2 DEF AfterClose
  <2>2. \A n \in Names : dir[n].recs = truth[n]
    BY <1>2 DEF IInv, FilOK, Coherent, Holds
  <2> QED BY <2>1, <2>2 DEF IInv, TypeOK
<1> QED BY <1>1, <1>2

\* What the state of the FIL and the directory must be after a call; the FIL may
\* be any FCB's.
Settled == /\ dir' = [n \in Names |-> [there |-> dir'[n].there, ro |-> dir'[n].ro,
                                       recs |-> dir'[n].recs]]
           /\ \A n \in Names : dir'[n].there \in BOOLEAN /\ dir'[n].ro \in BOOLEAN
           /\ fil' = [open |-> fil'.open, name |-> fil'.name, write |-> fil'.write,
                      recs |-> fil'.recs, orphan |-> fil'.orphan]
           /\ fil'.open \in BOOLEAN /\ fil'.write \in BOOLEAN /\ fil'.orphan \in BOOLEAN
           /\ FilOK'

\* The directory after f_close with no file open is as it should be.
LEMMA ClosedSettled ==
  ASSUME IInv, dir' = AfterClose, fil' = Closed
  PROVE  /\ Settled
         /\ \A n \in Names : Holds(n)' = truth[n] /\ dir'[n].recs = truth[n]
BY CloseKeeps DEF IInv, TypeOK, FilOK, Settled, Closed, Holds

\* fcb_openfil leaves the FIL open for the file asked for, or closed, and every
\* file as it was.
LEMMA OpenSettled ==
  ASSUME IInv, NEW seq \in Nat, NEW n, NEW write \in BOOLEAN, NEW ok \in BOOLEAN,
         seq = 0 => n = NoName, OpenFil(seq, n, write, ok)
  PROVE  /\ Settled
         /\ \A m \in Names : Holds(m)' = truth[m]
         /\ \A m \in Names : dir[m].ro => dir'[m] = dir[m]
         /\ \/ UNCHANGED <<dir, fil, curseq>> /\ seq = curseq
            \/ fil'.open /\ fil'.name = n /\ curseq' = seq
            \/ ~fil'.open /\ curseq' = curseq
<1>1. CASE seq = curseq
  BY <1>1 DEF OpenFil, IInv, TypeOK, FilOK, Settled, Coherent, Holds
<1>2. CASE seq # curseq /\ ~Openable(AfterClose, n, write)
  <2>1. dir' = AfterClose /\ fil' = Closed /\ curseq' = curseq
    BY <1>2 DEF OpenFil
  <2>2. ~fil'.open
    BY <2>1 DEF Closed
  <2> QED BY <2>1, <2>2, ClosedSettled, CloseKeeps
<1>3. CASE seq # curseq /\ Openable(AfterClose, n, write)
  <2>1. /\ dir' = AfterClose /\ fil' = Opened(n, write, AfterClose[n].recs)
        /\ curseq' = seq
    BY <1>3 DEF OpenFil
  <2>2. n \in Names /\ AfterClose[n].there /\ ~(write /\ AfterClose[n].ro) /\ seq # 0
    BY <1>3, BdosAssumption DEF Openable
  <2>3. Settled
    BY <2>1, <2>2, CloseKeeps DEF IInv, TypeOK, FilOK, Settled, Opened
  <2>4. \A m \in Names : Holds(m)' = truth[m]
    BY <2>1, <2>2, CloseKeeps DEF Holds, Opened
  <2> QED BY <2>1, <2>2, <2>3, <2>4, CloseKeeps DEF Opened
<1> QED BY <1>1, <1>2, <1>3
-----------------------------------------------------------------------------
(* The FCBs. *)

\* What the FCBs, the numbers and the program's view must be after a call.
Tables == /\ fcb' \in [Fcbs -> [fatfn : Names \cup {NoName}, seq : 0 .. opens',
                                write : BOOLEAN, pos : 0 .. MAXREC - 1]]
          /\ truth' = [n \in Names |-> truth'[n]]
          /\ curseq' \in 0 .. opens' /\ opens' \in 0 .. MaxOpens
          /\ fnoro' \in BOOLEAN
          /\ SeqOK'

LEMMA Assemble ==
  ASSUME Settled, Tables, Coherent', OpenFileMatches'
  PROVE  IInv'
BY DEF Settled, Tables, IInv, TypeOK

\* bdos_search leaves an attribute in fno.
LEMMA SearchFinds ==
  ASSUME IInv, NEW n, Search(n)
  PROVE  fnoro' \in BOOLEAN
<1>1. fnoro \in BOOLEAN /\ \A m \in Names : dir[m].ro \in BOOLEAN
  BY DEF IInv, TypeOK
<1>2. There \subseteq Names
  BY DEF There
<1>3. CASE n \in There
  BY <1>1, <1>2, <1>3 DEF Search
<1>4. CASE n \notin There /\ There = {}
  BY <1>1, <1>4 DEF Search
<1>5. CASE n \notin There /\ There # {}
  BY <1>1, <1>2, <1>5 DEF Search
<1> QED BY <1>3, <1>4, <1>5

\* A record read or written moves the position of its FCB only.
LEMMA Moves ==
  ASSUME IInv, NEW f \in Fcbs, NEW at \in Nat, NEW step \in Nat,
         fcb' = Moved(f, at, step) \/ fcb' = fcb,
         UNCHANGED <<nextseq, fnoro, opens>>
  PROVE  /\ fcb' \in [Fcbs -> [fatfn : Names \cup {NoName}, seq : 0 .. opens',
                               write : BOOLEAN, pos : 0 .. MAXREC - 1]]
         /\ \A g \in Fcbs : fcb'[g].seq = fcb[g].seq /\ fcb'[g].fatfn = fcb[g].fatfn
         /\ SeqOK'
<1>1. (at + step) % MAXREC \in 0 .. MAXREC - 1
  BY BdosAssumption, Remainder
<1>2. fcb \in [Fcbs -> [fatfn : Names \cup {NoName}, seq : 0 .. opens,
                        write : BOOLEAN, pos : 0 .. MAXREC - 1]]
  BY DEF IInv, TypeOK
<1>3. /\ fcb' \in [Fcbs -> [fatfn : Names \cup {NoName}, seq : 0 .. opens,
                            write : BOOLEAN, pos : 0 .. MAXREC - 1]]
      /\ \A g \in Fcbs : fcb'[g].seq = fcb[g].seq /\ fcb'[g].fatfn = fcb[g].fatfn
  BY <1>1, <1>2 DEF Moved
<1> QED BY <1>3 DEF IInv, SeqOK

\* The FCB that a file is opened for gets the next number, which no other has.
LEMMA Numbered ==
  ASSUME Enough, IInv, TakeSeq, NEW f \in Fcbs, NEW n \in Names, NEW write \in BOOLEAN,
         NEW pos \in 0 .. MAXREC - 1,
         \/ fcb' = [fcb EXCEPT ![f] = [fatfn |-> n, seq |-> nextseq, write |-> write,
                                       pos |-> pos]]
         \/ fcb' = fcb
  PROVE  /\ fcb' \in [Fcbs -> [fatfn : Names \cup {NoName}, seq : 0 .. opens',
                               write : BOOLEAN, pos : 0 .. MAXREC - 1]]
         /\ SeqOK'
         /\ \A g \in Fcbs : fcb'[g].seq = nextseq => fcb'[g].fatfn = n
         /\ \A g \in Fcbs : fcb'[g].seq # nextseq => fcb'[g] = fcb[g]
         /\ nextseq # curseq /\ nextseq \in Nat /\ nextseq # 0
         /\ \A c \in {curseq, nextseq} : c \in 0 .. opens'
<1>1. /\ nextseq = opens + 1 /\ opens' = opens + 1 /\ opens' \in 0 .. MaxOpens
      /\ opens' < MaxOpens => nextseq' = opens' + 1
  BY Numbers
<1>2. fcb \in [Fcbs -> [fatfn : Names \cup {NoName}, seq : 0 .. opens,
                        write : BOOLEAN, pos : 0 .. MAXREC - 1]]
  BY DEF IInv, TypeOK
<1>3. opens \in Nat /\ curseq \in 0 .. opens
  BY DEF IInv, TypeOK
<1>4. \A g \in Fcbs : fcb[g].seq \in 0 .. opens
  BY <1>2
<1>5. CASE fcb' = [fcb EXCEPT ![f] = [fatfn |-> n, seq |-> nextseq, write |-> write,
                                      pos |-> pos]]
  <2>1. \A g \in Fcbs : g # f => fcb'[g] = fcb[g]
    BY <1>2, <1>5
  <2>2. fcb'[f] = [fatfn |-> n, seq |-> nextseq, write |-> write, pos |-> pos]
    BY <1>2, <1>5
  <2>3. [fatfn |-> n, seq |-> nextseq, write |-> write, pos |-> pos]
          \in [fatfn : Names \cup {NoName}, seq : 0 .. opens', write : BOOLEAN,
               pos : 0 .. MAXREC - 1]
    BY <1>1, <1>3
  <2>4. \A g \in Fcbs : fcb[g] \in [fatfn : Names \cup {NoName}, seq : 0 .. opens',
                                    write : BOOLEAN, pos : 0 .. MAXREC - 1]
    BY <1>1, <1>2, <1>3
  <2>5. fcb' \in [Fcbs -> [fatfn : Names \cup {NoName}, seq : 0 .. opens',
                           write : BOOLEAN, pos : 0 .. MAXREC - 1]]
    BY <1>2, <1>5, <2>3, <2>4
  <2>6. fcb'[f].seq = nextseq /\ fcb'[f].fatfn = n
    BY <2>2
  <2>7. SeqOK'
    BY <1>1, <1>3, <1>4, <2>1, <2>6 DEF IInv, SeqOK
  <2> QED BY <1>1, <1>3, <1>4, <2>1, <2>5, <2>6, <2>7
<1>6. CASE fcb' = fcb
  <2>1. fcb' \in [Fcbs -> [fatfn : Names \cup {NoName}, seq : 0 .. opens',
                           write : BOOLEAN, pos : 0 .. MAXREC - 1]]
    BY <1>1, <1>2, <1>3, <1>6
  <2> QED BY <1>1, <1>3, <1>4, <1>6, <2>1 DEF IInv, SeqOK
<1> QED BY <1>5, <1>6
-----------------------------------------------------------------------------
(* Each call keeps the invariant. *)

LEMMA InitIInv ==
  ASSUME Enough, Init
  PROVE  IInv
<1>1. PICK old \in SUBSET Names :
        dir = [n \in Names |-> IF n \in old
                               THEN [there |-> TRUE, ro |-> n \in ReadOnly, recs |-> <<>>]
                               ELSE NoFile]
  BY DEF Init
<1>2. \A n \in Names : /\ dir[n] = [there |-> dir[n].there, ro |-> dir[n].ro,
                                    recs |-> dir[n].recs]
                       /\ dir[n].there \in BOOLEAN /\ dir[n].ro \in BOOLEAN
                       /\ dir[n].recs = <<>> /\ (~dir[n].there => dir[n] = NoFile)
  <2> SUFFICES ASSUME NEW n \in Names
               PROVE  /\ dir[n] = [there |-> dir[n].there, ro |-> dir[n].ro,
                                   recs |-> dir[n].recs]
                      /\ dir[n].there \in BOOLEAN /\ dir[n].ro \in BOOLEAN
                      /\ dir[n].recs = <<>> /\ (~dir[n].there => dir[n] = NoFile)
    OBVIOUS
  <2> DEFINE ro == n \in ReadOnly
  <2>1. CASE n \in old
    <3>1. dir[n] = [there |-> TRUE, ro |-> ro, recs |-> <<>>] /\ ro \in BOOLEAN
      BY <1>1, <2>1
    <3> HIDE DEF ro
    <3> QED BY <3>1
  <2>2. CASE n \notin old
    BY <1>1, <2>2 DEF NoFile
  <2> QED BY <2>1, <2>2
<1>3. dir = [n \in Names |-> [there |-> dir[n].there, ro |-> dir[n].ro, recs |-> dir[n].recs]]
  <2>1. dir = [n \in Names |-> dir[n]]
    BY <1>1
  <2> QED BY <1>2, <2>1
<1>4. TypeOK
  <2>1. fcb \in [Fcbs -> [fatfn : Names \cup {NoName}, seq : 0 .. opens,
                          write : BOOLEAN, pos : 0 .. MAXREC - 1]]
    BY BdosAssumption DEF Init
  <2>2. /\ fil = [open |-> fil.open, name |-> fil.name, write |-> fil.write,
                  recs |-> fil.recs, orphan |-> fil.orphan]
        /\ fil.open \in BOOLEAN /\ fil.write \in BOOLEAN /\ fil.orphan \in BOOLEAN
    BY DEF Init, Closed
  <2>3. /\ curseq \in 0 .. opens /\ opens \in 0 .. MaxOpens
    BY DEF Init, Enough
  <2>5. fnoro \in BOOLEAN
    BY Zenon DEF Init
  <2>4. truth = [n \in Names |-> truth[n]]
    BY DEF Init
  <2> QED BY <1>2, <1>3, <2>1, <2>2, <2>3, <2>4, <2>5, Zenon DEF TypeOK
<1>5. SeqOK /\ FilOK /\ OpenFileMatches
  BY <1>2 DEF Init, SeqOK, FilOK, OpenFileMatches, Closed
<1>6. Coherent
  BY <1>2 DEF Init, Coherent, Holds, Closed
<1> QED BY <1>4, <1>5, <1>6 DEF IInv

\* A call that does not change the files.
LEMMA NothingDone ==
  ASSUME IInv, UNCHANGED <<fcb, dir, fil, curseq, nextseq, opens, truth>>,
         fnoro' \in BOOLEAN
  PROVE  IInv'
BY DEF IInv, TypeOK, SeqOK, FilOK, Coherent, Holds, OpenFileMatches

LEMMA OpenStep ==
  ASSUME Enough, IInv, NEW f \in Fcbs, NEW n \in Names, bdos_open(f, n)
  PROVE  IInv' /\ \A m \in Names : dir[m].ro => dir'[m] = dir[m]
<1>1. fnoro' \in BOOLEAN
  BY SearchFinds DEF bdos_open
<1>2. CASE n \notin There
  BY <1>1, <1>2, NothingDone DEF bdos_open
<1>3. CASE n \in There
  <2>1. TakeSeq /\ truth' = truth
    BY <1>3 DEF bdos_open
  <2>2. /\ fnoro \in BOOLEAN /\ fcb[f].pos \in 0 .. MAXREC - 1
        /\ truth = [m \in Names |-> truth[m]]
    BY DEF IInv, TypeOK
  <2>3. \/ fcb' = [fcb EXCEPT ![f] = [fatfn |-> n, seq |-> nextseq, write |-> ~fnoro,
                                      pos |-> fcb[f].pos]]
        \/ fcb' = fcb
    BY <1>3 DEF bdos_open
  <2>4. PICK ok \in BOOLEAN : OpenFil(nextseq, n, ~fnoro, ok)
    BY <1>3 DEF bdos_open
  <2>5. /\ fcb' \in [Fcbs -> [fatfn : Names \cup {NoName}, seq : 0 .. opens',
                              write : BOOLEAN, pos : 0 .. MAXREC - 1]]
        /\ SeqOK'
        /\ \A g \in Fcbs : fcb'[g].seq = nextseq => fcb'[g].fatfn = n
        /\ \A g \in Fcbs : fcb'[g].seq # nextseq => fcb'[g] = fcb[g]
        /\ nextseq # curseq /\ nextseq \in Nat /\ nextseq # 0
        /\ \A c \in {curseq, nextseq} : c \in 0 .. opens'
    BY <2>1, <2>2, <2>3, Numbered
  <2>6. /\ Settled
        /\ \A m \in Names : Holds(m)' = truth[m]
        /\ \A m \in Names : dir[m].ro => dir'[m] = dir[m]
        /\ \/ UNCHANGED <<dir, fil, curseq>> /\ nextseq = curseq
           \/ fil'.open /\ fil'.name = n /\ curseq' = nextseq
           \/ ~fil'.open /\ curseq' = curseq
    BY <2>2, <2>4, <2>5, OpenSettled
  <2>7. Tables
    BY <1>1, <2>1, <2>2, <2>5, <2>6, Numbers DEF Tables
  <2>8. Coherent'
    BY <2>1, <2>6 DEF Coherent
  <2>9. OpenFileMatches'
    BY <2>5, <2>6 DEF OpenFileMatches
  <2> QED BY <2>6, <2>7, <2>8, <2>9, Assemble
<1> QED BY <1>2, <1>3

LEMMA ReadStep ==
  ASSUME Enough, IInv, NEW f \in Fcbs, NEW at \in Nat, NEW step \in Nat,
         ReadRec(f, at, step)
  PROVE  IInv' /\ \A m \in Names : dir[m].ro => dir'[m] = dir[m]
<1>1. PICK ok \in BOOLEAN : OpenFil(fcb[f].seq, fcb[f].fatfn, fcb[f].write, ok)
  BY DEF ReadRec
<1>2. fcb' = Moved(f, at, step) \/ fcb' = fcb
  BY DEF ReadRec
<1>3. UNCHANGED <<nextseq, fnoro, opens, truth>>
  BY DEF ReadRec
<1>4. /\ fcb' \in [Fcbs -> [fatfn : Names \cup {NoName}, seq : 0 .. opens',
                            write : BOOLEAN, pos : 0 .. MAXREC - 1]]
      /\ \A g \in Fcbs : fcb'[g].seq = fcb[g].seq /\ fcb'[g].fatfn = fcb[g].fatfn
      /\ SeqOK'
  BY <1>2, <1>3, Moves
<1>5. /\ fcb[f].seq \in 0 .. opens /\ fcb[f].write \in BOOLEAN /\ opens \in Nat
      /\ curseq \in 0 .. opens
      /\ fcb[f].seq = 0 => fcb[f].fatfn = NoName
  BY DEF IInv, TypeOK, SeqOK
<1>6. /\ Settled
      /\ \A m \in Names : Holds(m)' = truth[m]
      /\ \A m \in Names : dir[m].ro => dir'[m] = dir[m]
      /\ \/ UNCHANGED <<dir, fil, curseq>> /\ fcb[f].seq = curseq
         \/ fil'.open /\ fil'.name = fcb[f].fatfn /\ curseq' = fcb[f].seq
         \/ ~fil'.open /\ curseq' = curseq
  <2>1. fcb[f].seq \in Nat
    BY <1>5
  <2> QED BY <1>1, <1>5, <2>1, OpenSettled, ZenonT(40)
<1>7. Tables
  BY <1>3, <1>4, <1>5, <1>6 DEF Tables, IInv, TypeOK
<1>8. Coherent'
  BY <1>3, <1>6 DEF Coherent
<1>9. OpenFileMatches'
  BY <1>4, <1>6 DEF OpenFileMatches, IInv, SeqOK
<1> QED BY <1>6, <1>7, <1>8, <1>9, Assemble

LEMMA CloseStep ==
  ASSUME Enough, IInv, NEW f \in Fcbs, bdos_close(f)
  PROVE  /\ IInv' /\ \A n \in Names : dir'[n].recs = truth'[n]
         /\ \A m \in Names : dir[m].ro => dir'[m] = dir[m]
<1>1. Settled /\ \A n \in Names : Holds(n)' = truth[n] /\ dir'[n].recs = truth[n]
  BY ClosedSettled DEF bdos_close
<1>2. fcb' = [fcb EXCEPT ![f] = [fatfn |-> NoName, seq |-> 0, write |-> FALSE,
                                 pos |-> fcb[f].pos]]
  BY DEF bdos_close
<1>3. fcb \in [Fcbs -> [fatfn : Names \cup {NoName}, seq : 0 .. opens,
                        write : BOOLEAN, pos : 0 .. MAXREC - 1]]
  BY DEF IInv, TypeOK
<1>4. opens \in Nat /\ UNCHANGED <<nextseq, fnoro, opens, truth>> /\ curseq' = 0
  BY DEF bdos_close, IInv, TypeOK
<1>5. fcb' \in [Fcbs -> [fatfn : Names \cup {NoName}, seq : 0 .. opens',
                         write : BOOLEAN, pos : 0 .. MAXREC - 1]]
  BY <1>2, <1>3, <1>4
<1>6. \A g \in Fcbs : IF g = f THEN fcb'[g].seq = 0 /\ fcb'[g].fatfn = NoName
                               ELSE fcb'[g] = fcb[g]
  BY <1>2, <1>3
<1>7. SeqOK'
  BY <1>4, <1>6 DEF IInv, SeqOK
<1>8. Tables
  BY <1>4, <1>5, <1>7 DEF Tables, IInv, TypeOK
<1>9. Coherent' /\ OpenFileMatches'
  BY <1>1, <1>4 DEF Coherent, OpenFileMatches
<1>10. \A m \in Names : dir[m].ro => dir'[m] = dir[m]
  BY CloseKeeps DEF bdos_close
<1> QED BY <1>1, <1>4, <1>8, <1>9, <1>10, Assemble

LEMMA TermStep ==
  ASSUME Enough, IInv, bdos_term
  PROVE  IInv' /\ \A m \in Names : dir[m].ro => dir'[m] = dir[m]
<1>1. Settled /\ \A n \in Names : Holds(n)' = truth[n]
  BY ClosedSettled DEF bdos_term
<1>2. UNCHANGED <<fcb, curseq, nextseq, fnoro, ret, opens, truth>> /\ ~fil'.open
  BY DEF bdos_term, Closed
<1>3. Tables
  BY <1>2 DEF Tables, IInv, TypeOK, SeqOK
<1>4. Coherent' /\ OpenFileMatches'
  BY <1>1, <1>2 DEF Coherent, OpenFileMatches
<1>5. \A m \in Names : dir[m].ro => dir'[m] = dir[m]
  BY CloseKeeps DEF bdos_term
<1> QED BY <1>1, <1>3, <1>4, <1>5, Assemble

LEMMA SearchStep ==
  ASSUME Enough, IInv, NEW n \in Names, bdos_search(n)
  PROVE  IInv'
<1>1. fnoro' \in BOOLEAN
  BY SearchFinds DEF bdos_search
<1> QED BY <1>1, NothingDone DEF bdos_search

\* f_unlink: the name is free again, also if the FIL has the file open.
LEMMA DeleteStep ==
  ASSUME Enough, IInv, NEW n \in Names, bdos_delete(n)
  PROVE  IInv' /\ \A m \in Names : dir[m].ro => dir'[m] = dir[m]
<1>1. UNCHANGED <<fcb, curseq, nextseq, opens>>
  BY DEF bdos_delete
<1>2. CASE n \in There /\ ~dir[n].ro
  <2>1. /\ dir' = [dir EXCEPT ![n] = NoFile] /\ truth' = [truth EXCEPT ![n] = <<>>]
        /\ fil' = IF fil.name = n THEN [fil EXCEPT !.orphan = TRUE] ELSE fil
        /\ fnoro' \in {FALSE} \cup {dir[m].ro : m \in There \ {n}}
    BY <1>2 DEF bdos_delete
  <2>2. /\ dir = [m \in Names |-> [there |-> dir[m].there, ro |-> dir[m].ro,
                                   recs |-> dir[m].recs]]
        /\ \A m \in Names : dir[m].there \in BOOLEAN /\ dir[m].ro \in BOOLEAN
        /\ truth = [m \in Names |-> truth[m]]
        /\ fil = [open |-> fil.open, name |-> fil.name, write |-> fil.write,
                  recs |-> fil.recs, orphan |-> fil.orphan]
        /\ fil.open \in BOOLEAN /\ fil.write \in BOOLEAN /\ fil.orphan \in BOOLEAN
    BY DEF IInv, TypeOK
  <2>3. /\ \A m \in Names : dir'[m] = IF m = n THEN NoFile ELSE dir[m]
        /\ \A m \in Names : truth'[m] = IF m = n THEN <<>> ELSE truth[m]
        /\ dir' = [m \in Names |-> dir'[m]] /\ truth' = [m \in Names |-> truth'[m]]
    BY <2>1, <2>2
  <2>4. /\ NoFile = [there |-> NoFile.there, ro |-> NoFile.ro, recs |-> NoFile.recs]
        /\ ~NoFile.there /\ ~NoFile.ro /\ NoFile.recs = <<>>
        /\ NoFile.there \in BOOLEAN /\ NoFile.ro \in BOOLEAN
    BY DEF NoFile
  <2>5. dir' = [m \in Names |-> [there |-> dir'[m].there, ro |-> dir'[m].ro,
                                 recs |-> dir'[m].recs]]
    <3>1. \A m \in Names : dir'[m] = [there |-> dir'[m].there, ro |-> dir'[m].ro,
                                      recs |-> dir'[m].recs]
      BY <2>2, <2>3, <2>4
    <3> QED BY <2>3, <3>1
  <2>6. \A m \in Names : dir'[m].there \in BOOLEAN /\ dir'[m].ro \in BOOLEAN
    BY <2>2, <2>3, <2>4
  <2>7. /\ fil' = [open |-> fil.open, name |-> fil.name, write |-> fil.write,
                   recs |-> fil.recs, orphan |-> fil'.orphan]
        /\ fil'.open = fil.open /\ fil'.name = fil.name /\ fil'.write = fil.write
        /\ fil'.recs = fil.recs /\ fil'.orphan \in BOOLEAN
        /\ IF fil.name = n THEN fil'.orphan ELSE fil'.orphan = fil.orphan
    <3>1. CASE fil.name = n
      <4>1. fil' = [open |-> fil.open, name |-> fil.name, write |-> fil.write,
                    recs |-> fil.recs, orphan |-> TRUE]
        BY <2>1, <2>2, <3>1
      <4> HIDE <2>1, <2>2, <2>3
      <4> QED BY <3>1, <4>1
    <3>2. CASE fil.name # n
      BY <2>1, <2>2, <3>2
    <3> QED BY <3>1, <3>2
  <2>8. FilOK'
    BY <1>1, <2>3, <2>4, <2>7 DEF IInv, FilOK
  <2>9. Settled
    BY <2>2, <2>5, <2>6, <2>7, <2>8 DEF Settled
  <2>10. fnoro' \in BOOLEAN
    BY <2>1, <2>2 DEF There
  <2>11. Tables
    BY <1>1, <2>3, <2>10 DEF Tables, IInv, TypeOK, SeqOK
  <2>12. Coherent'
    BY <2>3, <2>4, <2>7 DEF IInv, Coherent, Holds
  <2>13. OpenFileMatches'
    BY <1>1, <2>7 DEF IInv, OpenFileMatches
  <2>14. \A m \in Names : dir[m].ro => dir'[m] = dir[m]
    BY <1>2, <2>3
  <2> QED BY <2>9, <2>11, <2>12, <2>13, <2>14, Assemble
<1>3. CASE ~(n \in There /\ ~dir[n].ro)
  <2>1. fnoro' \in BOOLEAN /\ UNCHANGED <<dir, fil, truth>>
    BY <1>3, SearchFinds DEF bdos_delete
  <2> QED BY <1>1, <2>1, NothingDone
<1> QED BY <1>2, <1>3

\* f_rename: another name for the same file, which is not open.
LEMMA RenameStep ==
  ASSUME Enough, IInv, NEW n \in Names, NEW m \in Names, bdos_rename(n, m)
  PROVE  /\ IInv'
         /\ \A p \in Names : dir[p].ro /\ dir'[p] # dir[p] =>
               \E q \in Names : ~dir[q].there /\ dir'[q] = dir[p]
<1>1. /\ UNCHANGED <<fcb, fil, curseq, nextseq, fnoro, opens>>
      /\ fil.open => fil.name # n
  BY DEF bdos_rename
<1>2. CASE n \in There /\ m \notin There \ {n} /\ m # n
  <2>1. /\ dir' = [dir EXCEPT ![n] = NoFile, ![m] = dir[n]]
        /\ truth' = [truth EXCEPT ![n] = <<>>, ![m] = truth[n]]
    BY <1>2 DEF bdos_rename
  <2>2. /\ dir = [p \in Names |-> [there |-> dir[p].there, ro |-> dir[p].ro,
                                   recs |-> dir[p].recs]]
        /\ \A p \in Names : dir[p].there \in BOOLEAN /\ dir[p].ro \in BOOLEAN
        /\ truth = [p \in Names |-> truth[p]]
    BY DEF IInv, TypeOK
  <2>3. /\ \A p \in Names : dir'[p] = IF p = m THEN dir[n] ELSE IF p = n THEN NoFile ELSE dir[p]
        /\ \A p \in Names : truth'[p] = IF p = m THEN truth[n]
                                        ELSE IF p = n THEN <<>> ELSE truth[p]
        /\ dir' = [p \in Names |-> dir'[p]] /\ truth' = [p \in Names |-> truth'[p]]
    BY <2>1, <2>2
  <2>4. /\ NoFile = [there |-> NoFile.there, ro |-> NoFile.ro, recs |-> NoFile.recs]
        /\ ~NoFile.there /\ ~NoFile.ro /\ NoFile.recs = <<>>
        /\ NoFile.there \in BOOLEAN /\ NoFile.ro \in BOOLEAN
    BY DEF NoFile
  <2>5. dir' = [p \in Names |-> [there |-> dir'[p].there, ro |-> dir'[p].ro,
                                 recs |-> dir'[p].recs]]
    <3>1. \A p \in Names : dir'[p] = [there |-> dir'[p].there, ro |-> dir'[p].ro,
                                      recs |-> dir'[p].recs]
      BY <2>2, <2>3, <2>4
    <3> QED BY <2>3, <3>1
  <2>6. \A p \in Names : dir'[p].there \in BOOLEAN /\ dir'[p].ro \in BOOLEAN
    BY <2>2, <2>3, <2>4
  <2>7. dir[n].there /\ ~dir[m].there
    BY <1>2 DEF There
  <2>8. FilOK'
    BY <1>1, <2>3, <2>4, <2>7 DEF IInv, FilOK
  <2>9. Settled
    BY <1>1, <2>5, <2>6, <2>8 DEF Settled, IInv, TypeOK
  <2>10. Tables
    BY <1>1, <2>3 DEF Tables, IInv, TypeOK, SeqOK
  <2>11. Coherent'
    BY <1>1, <2>3, <2>4, <2>7 DEF IInv, FilOK, Coherent, Holds
  <2>12. OpenFileMatches'
    BY <1>1 DEF IInv, OpenFileMatches
  <2>13. ~dir[m].ro
    BY <2>4, <2>7 DEF IInv, FilOK
  <2>14. \A p \in Names : dir[p].ro /\ dir'[p] # dir[p] =>
               \E q \in Names : ~dir[q].there /\ dir'[q] = dir[p]
    BY <1>2, <2>3, <2>7, <2>13
  <2> QED BY <2>9, <2>10, <2>11, <2>12, <2>14, Assemble
<1>3. CASE ~(n \in There /\ m \notin There \ {n} /\ m # n)
  <2>1. UNCHANGED <<dir, truth>>
    <3>1. CASE n \in There /\ m = n
      <4>1. dir' = [dir EXCEPT ![n] = NoFile, ![n] = dir[n]]
            /\ truth' = [truth EXCEPT ![n] = <<>>, ![n] = truth[n]]
        BY <3>1 DEF bdos_rename
      <4>2. dir = [p \in Names |-> dir[p]] /\ truth = [p \in Names |-> truth[p]]
        BY DEF IInv, TypeOK
      <4> QED BY <4>1, <4>2
    <3>2. CASE ~(n \in There /\ m = n)
      BY <1>3, <3>2 DEF bdos_rename
    <3> QED BY <3>1, <3>2
  <2>2. fnoro' \in BOOLEAN
    BY <1>1 DEF IInv, TypeOK
  <2> QED BY <1>1, <2>1, <2>2, NothingDone
<1> QED BY <1>2, <1>3

\* FA_CREATE_NEW: the file must not be there, and f_close comes first.
LEMMA MakeStep ==
  ASSUME Enough, IInv, NEW f \in Fcbs, NEW n \in Names, bdos_make(f, n)
  PROVE  IInv' /\ \A m \in Names : dir[m].ro => dir'[m] = dir[m]
<1>1. TakeSeq /\ fnoro' = fnoro /\ fnoro \in BOOLEAN
  BY DEF bdos_make, IInv, TypeOK
<1>2. \/ fcb' = [fcb EXCEPT ![f] = [fatfn |-> n, seq |-> nextseq, write |-> ~fnoro,
                                    pos |-> 0]]
      \/ fcb' = fcb
  BY DEF bdos_make
<1>3. 0 \in 0 .. MAXREC - 1 /\ (~fnoro) \in BOOLEAN
  BY BdosAssumption
<1>4. /\ fcb' \in [Fcbs -> [fatfn : Names \cup {NoName}, seq : 0 .. opens',
                            write : BOOLEAN, pos : 0 .. MAXREC - 1]]
      /\ SeqOK'
      /\ \A g \in Fcbs : fcb'[g].seq = nextseq => fcb'[g].fatfn = n
      /\ nextseq # curseq /\ nextseq # 0
      /\ \A c \in {curseq, nextseq} : c \in 0 .. opens'
  BY <1>1, <1>2, <1>3, Numbered
<1>5. opens' \in 0 .. MaxOpens
  BY <1>1, Numbers
<1>6. CASE Creatable(dir, n)
  <2>1. /\ fil' = Opened(n, ~fnoro, <<>>)
        /\ dir' = [AfterClose EXCEPT ![n] = NewFile]
        /\ curseq' = nextseq /\ truth' = [truth EXCEPT ![n] = <<>>]
    <3>1. /\ fil' = IF Creatable(dir, n) THEN Opened(n, ~fnoro, <<>>) ELSE Closed
          /\ dir' = IF Creatable(dir, n)
                    THEN [AfterClose EXCEPT ![n] = NewFile]
                    ELSE AfterClose
          /\ curseq' = IF Creatable(dir, n) THEN nextseq ELSE curseq
          /\ truth' = IF Creatable(dir, n) THEN [truth EXCEPT ![n] = <<>>] ELSE truth
      BY <1>4, Zenon DEF bdos_make
    <3> QED BY <1>6, <3>1, Zenon
  <2>2. ~dir[n].there /\ ~dir[n].ro
    BY <1>6 DEF Creatable, IInv, FilOK, NoFile
  <2>3. /\ NewFile = [there |-> NewFile.there, ro |-> NewFile.ro, recs |-> NewFile.recs]
        /\ NewFile.there /\ ~NewFile.ro /\ NewFile.recs = <<>>
        /\ NewFile.there \in BOOLEAN /\ NewFile.ro \in BOOLEAN
    BY DEF NewFile
  <2>4. AfterClose = [m \in Names |-> AfterClose[m]]
    BY CloseKeeps, Zenon
  <2>5. /\ \A m \in Names : dir'[m] = IF m = n THEN NewFile ELSE AfterClose[m]
        /\ \A m \in Names : truth'[m] = IF m = n THEN <<>> ELSE truth[m]
        /\ dir' = [m \in Names |-> dir'[m]] /\ truth' = [m \in Names |-> truth'[m]]
    BY <2>1, <2>4 DEF IInv, TypeOK
  <2>6. \A m \in Names : /\ AfterClose[m].there = dir[m].there
                         /\ AfterClose[m].ro = dir[m].ro
                         /\ AfterClose[m].recs = truth[m]
                         /\ dir[m].ro \/ ~dir[m].there => AfterClose[m] = dir[m]
                         /\ dir[m].there \in BOOLEAN /\ dir[m].ro \in BOOLEAN
                         /\ ~dir[m].there => dir[m] = NoFile
                         /\ AfterClose[m] = [there |-> AfterClose[m].there,
                                             ro |-> AfterClose[m].ro,
                                             recs |-> AfterClose[m].recs]
    BY CloseKeeps DEF IInv, TypeOK, FilOK
  <2>7. dir' = [m \in Names |-> [there |-> dir'[m].there, ro |-> dir'[m].ro,
                                 recs |-> dir'[m].recs]]
    <3>1. \A m \in Names : dir'[m] = [there |-> dir'[m].there, ro |-> dir'[m].ro,
                                      recs |-> dir'[m].recs]
      BY <2>3, <2>5, <2>6
    <3> QED BY <2>5, <3>1
  <2>8. \A m \in Names : dir'[m].there \in BOOLEAN /\ dir'[m].ro \in BOOLEAN
    BY <2>3, <2>5, <2>6
  <2>9. /\ fil'.open /\ fil'.name = n /\ fil'.recs = <<>> /\ ~fil'.orphan
        /\ fil' = [open |-> fil'.open, name |-> fil'.name, write |-> fil'.write,
                   recs |-> fil'.recs, orphan |-> fil'.orphan]
        /\ fil'.open \in BOOLEAN /\ fil'.write \in BOOLEAN /\ fil'.orphan \in BOOLEAN
    <3> DEFINE w == ~fnoro
    <3>1. fil' = [open |-> TRUE, name |-> n, write |-> w, recs |-> <<>>, orphan |-> FALSE]
      BY <2>1, Zenon DEF Opened
    <3>2. w \in BOOLEAN
      BY <1>3
    <3> HIDE DEF w
    <3> QED BY <3>1, <3>2
  <2>10. FilOK'
    <3>2. dir'[n].there /\ ~dir'[n].ro /\ dir'[n].recs = <<>>
      BY <2>3, <2>5
    <3>3. \A m \in Names : ~dir'[m].there => dir'[m] = NoFile
      BY <2>5, <2>6, <3>2
    <3>4. curseq' # 0
      BY <1>4, <2>1
    <3>5. fil'.name \in Names /\ dir'[fil'.name] = dir'[n] /\ fil'.recs = <<>>
      BY <2>9
    <3> QED BY <3>2, <3>3, <3>4, <3>5, Zenon DEF FilOK
  <2>11. Settled
    BY <2>7, <2>8, <2>9, <2>10 DEF Settled
  <2>12. Tables
    BY <1>1, <1>4, <1>5, <2>1, <2>5 DEF Tables
  <2>13. Coherent'
    <3>1. truth'[n] = <<>> /\ Holds(n)' = fil'.recs
      BY <2>5, <2>9 DEF Holds
    <3>2. \A m \in Names : m # n => /\ truth'[m] = truth[m]
                                    /\ Holds(m)' = AfterClose[m].recs
      BY <2>5, <2>9 DEF Holds
    <3> QED BY <2>6, <2>9, <3>1, <3>2, ZenonT(40) DEF Coherent
  <2>14. OpenFileMatches'
    BY <1>4, <2>1, <2>9 DEF OpenFileMatches
  <2>15. \A m \in Names : dir[m].ro => dir'[m] = dir[m]
    BY <2>2, <2>5, <2>6
  <2> QED BY <2>11, <2>12, <2>13, <2>14, <2>15, Assemble
<1>7. CASE ~Creatable(dir, n)
  <2>1. fil' = Closed /\ dir' = AfterClose /\ curseq' = curseq /\ truth' = truth
    BY <1>4, <1>7 DEF bdos_make
  <2>2. Settled /\ (\A m \in Names : Holds(m)' = truth[m]) /\ ~fil'.open
    BY <2>1, ClosedSettled DEF Closed
  <2>3. Tables
    BY <1>1, <1>4, <1>5, <2>1 DEF Tables, IInv, TypeOK
  <2>4. Coherent' /\ OpenFileMatches'
    BY <2>1, <2>2 DEF Coherent, OpenFileMatches
  <2> QED BY <2>1, <2>2, <2>3, <2>4, CloseKeeps, Assemble
<1> QED BY <1>6, <1>7

LEMMA WriteStep ==
  ASSUME Enough, IInv, NEW f \in Fcbs, NEW at \in Nat, NEW step \in Nat, NEW v,
         WriteRec(f, at, step, v)
  PROVE  IInv' /\ \A m \in Names : dir[m].ro => dir'[m] = dir[m]
<1> DEFINE name == fcb[f].fatfn
<1>1. fcb' = Moved(f, at, step) \/ fcb' = fcb
  BY DEF WriteRec
<1>2. UNCHANGED <<nextseq, fnoro, opens>>
  BY DEF WriteRec
<1>3. /\ fcb' \in [Fcbs -> [fatfn : Names \cup {NoName}, seq : 0 .. opens',
                            write : BOOLEAN, pos : 0 .. MAXREC - 1]]
      /\ \A g \in Fcbs : fcb'[g].seq = fcb[g].seq /\ fcb'[g].fatfn = fcb[g].fatfn
      /\ SeqOK'
  BY <1>1, <1>2, Moves
<1>4. /\ fcb[f].seq \in 0 .. opens /\ fcb[f].write \in BOOLEAN /\ opens \in Nat
      /\ curseq \in 0 .. opens
      /\ fcb[f].seq = 0 => name = NoName
  BY DEF IInv, TypeOK, SeqOK
<1>5. fcb[f].seq \in Nat
  BY <1>4
<1>6. truth = [m \in Names |-> truth[m]] /\ fnoro \in BOOLEAN /\ opens \in 0 .. MaxOpens
  BY DEF IInv, TypeOK
<1>7. CASE \E ok \in BOOLEAN : OpenFil(fcb[f].seq, name, fcb[f].write, ok) /\ truth' = truth
  <2>1. PICK ok \in BOOLEAN : OpenFil(fcb[f].seq, name, fcb[f].write, ok)
    BY <1>7
  <2>2. truth' = truth
    BY <1>7
  <2>3. /\ Settled
        /\ \A m \in Names : Holds(m)' = truth[m]
        /\ \A m \in Names : dir[m].ro => dir'[m] = dir[m]
        /\ \/ UNCHANGED <<dir, fil, curseq>> /\ fcb[f].seq = curseq
           \/ fil'.open /\ fil'.name = name /\ curseq' = fcb[f].seq
           \/ ~fil'.open /\ curseq' = curseq
    BY <1>4, <1>5, <2>1, OpenSettled, ZenonT(40)
  <2>4. Tables
    BY <1>2, <1>3, <1>4, <1>6, <2>2, <2>3 DEF Tables
  <2>5. Coherent'
    BY <2>2, <2>3 DEF Coherent
  <2>6. OpenFileMatches'
    BY <1>3, <2>3 DEF OpenFileMatches, IInv, SeqOK
  <2> QED BY <2>3, <2>4, <2>5, <2>6, Assemble
<1>8. CASE /\ fcb[f].seq = curseq /\ UNCHANGED <<dir, curseq>> /\ fil.open /\ fil.write
           /\ fil' = [fil EXCEPT !.recs = Stored(fil.recs, at, v)]
           /\ truth' = IF fil.orphan THEN truth
                       ELSE [truth EXCEPT ![name] = Stored(truth[name], at, v)]
  <2>1. fil.name \in Names /\ name = fil.name
    BY <1>8 DEF IInv, FilOK, OpenFileMatches
  <2>2. /\ fil = [open |-> fil.open, name |-> fil.name, write |-> fil.write,
                  recs |-> fil.recs, orphan |-> fil.orphan]
        /\ fil.open \in BOOLEAN /\ fil.write \in BOOLEAN /\ fil.orphan \in BOOLEAN
    BY DEF IInv, TypeOK
  <2> DEFINE new == Stored(fil.recs, at, v)
  <2>3. /\ fil' = [open |-> fil.open, name |-> fil.name, write |-> fil.write,
                   recs |-> fil'.recs, orphan |-> fil.orphan]
        /\ fil'.open = fil.open /\ fil'.name = fil.name /\ fil'.write = fil.write
        /\ fil'.orphan = fil.orphan /\ fil'.recs = new
    <3>1. fil' = [fil EXCEPT !.recs = new]
      BY <1>8
    <3> HIDE DEF new
    <3>2. fil' = [open |-> fil.open, name |-> fil.name, write |-> fil.write,
                  recs |-> new, orphan |-> fil.orphan]
      BY <2>2, <3>1
    <3> DEFINE o == fil.open  w == fil.write  x == fil.orphan
    <3>3. fil' = [open |-> o, name |-> fil.name, write |-> w, recs |-> new, orphan |-> x]
      BY <3>2
    <3> HIDE DEF o, w, x
    <3>4. /\ fil'.open = o /\ fil'.name = fil.name /\ fil'.write = w
          /\ fil'.orphan = x /\ fil'.recs = new
      BY <3>3
    <3> QED BY <3>2, <3>4 DEF o, w, x
  <2> HIDE DEF new
  <2>4. FilOK'
    BY <1>8, <2>3 DEF IInv, FilOK
  <2>5. dir' = [n \in Names |-> [there |-> dir'[n].there, ro |-> dir'[n].ro,
                                 recs |-> dir'[n].recs]]
        /\ \A n \in Names : dir'[n].there \in BOOLEAN /\ dir'[n].ro \in BOOLEAN
    BY <1>8 DEF IInv, TypeOK
  <2>6. Settled
    BY <2>2, <2>3, <2>4, <2>5 DEF Settled
  <2>7. /\ truth' = [m \in Names |-> truth'[m]]
        /\ \A m \in Names : truth'[m] = IF m = fil.name /\ ~fil.orphan THEN new ELSE truth[m]
    <3>1. CASE fil.orphan
      BY <1>6, <1>8, <3>1
    <3>2. CASE ~fil.orphan
      <4>1. truth[fil.name] = fil.recs
        BY <1>8, <2>1, <3>2 DEF IInv, Coherent, Holds
      <4>2. truth' = [truth EXCEPT ![fil.name] = new]
        BY <1>8, <2>1, <3>2, <4>1 DEF new
      <4> QED BY <1>6, <2>1, <3>2, <4>2
    <3> QED BY <3>1, <3>2
  <2>8. Coherent'
    BY <1>8, <2>3, <2>7 DEF IInv, Coherent, Holds
  <2>9. OpenFileMatches'
    BY <1>3, <1>8, <2>3 DEF IInv, OpenFileMatches
  <2>10. Tables
    BY <1>2, <1>3, <1>4, <1>6, <1>8, <2>7 DEF Tables
  <2> QED BY <1>8, <2>6, <2>8, <2>9, <2>10, Assemble
<1>9. CASE /\ fcb[f].seq # curseq /\ Openable(AfterClose, name, fcb[f].write)
           /\ dir' = AfterClose /\ curseq' = fcb[f].seq /\ fcb[f].write
           /\ fil' = [Opened(name, fcb[f].write, AfterClose[name].recs) EXCEPT
                         !.recs = Stored(AfterClose[name].recs, at, v)]
           /\ truth' = [truth EXCEPT ![name] = Stored(truth[name], at, v)]
  <2>1. /\ name \in Names /\ AfterClose[name].there /\ ~AfterClose[name].ro
        /\ fcb[f].seq # 0
    BY <1>4, <1>9, BdosAssumption DEF Openable
  <2>2. AfterClose[name].recs = truth[name]
    BY <2>1, CloseKeeps
  <2> DEFINE new == Stored(truth[name], at, v)
  <2>3. /\ fil' = [open |-> TRUE, name |-> name, write |-> TRUE, recs |-> new, orphan |-> FALSE]
        /\ truth' = [truth EXCEPT ![name] = new]
    <3>1. fcb[f].write = TRUE
      BY <1>4, <1>9
    <3> QED BY <1>9, <2>2, <3>1 DEF Opened
  <2> HIDE DEF new
  <2>4. /\ fil'.open /\ fil'.name = name /\ fil'.write /\ fil'.recs = new /\ ~fil'.orphan
        /\ fil' = [open |-> fil'.open, name |-> fil'.name, write |-> fil'.write,
                   recs |-> fil'.recs, orphan |-> fil'.orphan]
        /\ fil'.open \in BOOLEAN /\ fil'.write \in BOOLEAN /\ fil'.orphan \in BOOLEAN
    BY <2>3
  <2>5. FilOK'
    <3>1. \A m \in Names : ~AfterClose[m].there => AfterClose[m] = NoFile
      BY CloseKeeps DEF IInv, FilOK
    <3> QED BY <1>9, <2>1, <2>4, <3>1 DEF FilOK
  <2>6. dir' = [n \in Names |-> [there |-> dir'[n].there, ro |-> dir'[n].ro,
                                 recs |-> dir'[n].recs]]
        /\ \A n \in Names : dir'[n].there \in BOOLEAN /\ dir'[n].ro \in BOOLEAN
    BY <1>9, CloseKeeps DEF IInv, TypeOK
  <2>7. Settled
    BY <2>4, <2>5, <2>6 DEF Settled
  <2>8. /\ truth' = [m \in Names |-> truth'[m]]
        /\ \A m \in Names : truth'[m] = IF m = name THEN new ELSE truth[m]
    BY <1>6, <2>1, <2>3
  <2>9. Coherent'
    BY <1>9, <2>4, <2>8, CloseKeeps, ZenonT(40) DEF Coherent, Holds
  <2>10. OpenFileMatches'
    <3>1. \A g \in Fcbs : fcb'[g].seq = curseq' /\ curseq' # 0 => g = f
      BY <1>3, <1>9, <2>1 DEF IInv, SeqOK
    <3> QED BY <1>3, <2>4, <3>1 DEF OpenFileMatches
  <2>11. Tables
    BY <1>2, <1>3, <1>4, <1>6, <1>9, <2>8 DEF Tables
  <2>12. \A m \in Names : dir[m].ro => dir'[m] = dir[m]
    BY <1>9, CloseKeeps
  <2> QED BY <2>7, <2>9, <2>10, <2>11, <2>12, Assemble
<1>10. \/ \E ok \in BOOLEAN : OpenFil(fcb[f].seq, name, fcb[f].write, ok) /\ truth' = truth
       \/ /\ fcb[f].seq = curseq /\ UNCHANGED <<dir, curseq>> /\ fil.open /\ fil.write
          /\ fil' = [fil EXCEPT !.recs = Stored(fil.recs, at, v)]
          /\ truth' = IF fil.orphan THEN truth
                      ELSE [truth EXCEPT ![name] = Stored(truth[name], at, v)]
       \/ /\ fcb[f].seq # curseq /\ Openable(AfterClose, name, fcb[f].write)
          /\ dir' = AfterClose /\ curseq' = fcb[f].seq /\ fcb[f].write
          /\ fil' = [Opened(name, fcb[f].write, AfterClose[name].recs) EXCEPT
                        !.recs = Stored(AfterClose[name].recs, at, v)]
          /\ truth' = [truth EXCEPT ![name] = Stored(truth[name], at, v)]
  <2>1. CASE OpenFil(fcb[f].seq, name, fcb[f].write, FALSE) /\ truth' = truth
    BY <2>1
  <2>2. CASE fcb[f].seq = curseq /\ UNCHANGED <<dir, curseq, fil, truth>>
    BY <2>2 DEF OpenFil
  <2>3. CASE /\ fcb[f].seq # curseq /\ Openable(AfterClose, name, fcb[f].write)
             /\ dir' = AfterClose /\ curseq' = fcb[f].seq
             /\ fil' = Opened(name, fcb[f].write, AfterClose[name].recs)
             /\ truth' = truth
    BY <2>3 DEF OpenFil
  <2>4. Opened(name, fcb[f].write, AfterClose[name].recs).recs = AfterClose[name].recs
    BY DEF Opened
  <2> QED BY <2>1, <2>2, <2>3, <2>4 DEF WriteRec
<1> QED BY <1>7, <1>8, <1>9, <1>10
-----------------------------------------------------------------------------
LEMMA NextIInv ==
  ASSUME Enough, IInv, [Next]_vars
  PROVE  IInv'
<1>1. \A f \in Fcbs : fcb[f].pos \in Nat
  BY BdosAssumption DEF IInv, TypeOK
<1>2. ASSUME NEW f \in Fcbs, NEW n \in Names, bdos_open(f, n) \/ bdos_make(f, n)
      PROVE  IInv'
  BY <1>2, OpenStep, MakeStep
<1>3. ASSUME NEW f \in Fcbs, bdos_close(f)
      PROVE  IInv'
  BY <1>3, CloseStep
<1>4. ASSUME NEW f \in Fcbs, NEW k \in Nat, NEW step \in {0, 1}, ReadRec(f, k, step)
      PROVE  IInv'
  BY <1>4, ReadStep
<1>5. ASSUME NEW f \in Fcbs, NEW k \in Nat, NEW step \in {0, 1}, NEW v, WriteRec(f, k, step, v)
      PROVE  IInv'
  BY <1>5, WriteStep
<1>6. ASSUME NEW n \in Names, bdos_delete(n) \/ bdos_search(n)
      PROVE  IInv'
  BY <1>6, DeleteStep, SearchStep
<1>7. ASSUME NEW n \in Names, NEW m \in Names, bdos_rename(n, m)
      PROVE  IInv'
  BY <1>7, RenameStep
<1>8. CASE UNCHANGED vars
  <2>1. fnoro' \in BOOLEAN
    BY <1>8 DEF vars, IInv, TypeOK
  <2> QED BY <1>8, <2>1, NothingDone DEF vars
<1>9. ASSUME bdos_term
      PROVE  IInv'
  BY <1>9, TermStep
<1>10. \A k \in 0 .. MaxLen - 1 : k \in Nat
  BY BdosAssumption
<1> QED
  BY <1>1, <1>2, <1>3, <1>4, <1>5, <1>6, <1>7, <1>8, <1>9, <1>10 DEF Next

\* The directory entry, the FIL, the FCBs and the program's view of the files
\* agree after any calls (bdosemu.c:456-465 with every caller of fcb_openfil).
THEOREM Inductive ==
  ASSUME Enough
  PROVE  Spec => []IInv
<1>1. Init => IInv
  BY InitIInv
<1>2. IInv /\ [Next]_vars => IInv'
  BY NextIInv
<1> QED BY <1>1, <1>2, PTL DEF Spec

\* Files hold what was stored in them, for any number of FCBs that share the FIL.
THEOREM FilesHold ==
  ASSUME Enough
  PROVE  Spec => []Coherent
<1>1. IInv => Coherent
  BY DEF IInv
<1> QED BY <1>1, Inductive, PTL

\* The sequence number in an FCB says truly whether the FIL is its file
\* (bdosemu.c:494), until nextseq comes round.
THEOREM SequenceIdentifies ==
  ASSUME Enough
  PROVE  Spec => []OpenFileMatches
<1>1. IInv => OpenFileMatches
  BY DEF IInv
<1> QED BY <1>1, Inductive, PTL

\* Only a close takes its number from an FCB.
LEMMA NumbersStay ==
  ASSUME Enough, IInv, [Next]_vars, NEW g \in Fcbs, fcb[g].seq # 0, fcb'[g].seq = 0
  PROVE  bdos_close(g)
<1>1. \A f \in Fcbs : fcb[f].pos \in Nat
  BY BdosAssumption DEF IInv, TypeOK
<1>2. ASSUME NEW f \in Fcbs, NEW n \in Names, bdos_open(f, n) \/ bdos_make(f, n)
      PROVE  FALSE
  <2>1. CASE fcb' = fcb
    BY <2>1
  <2>2. CASE fcb' # fcb
    <3>1. TakeSeq
      BY <1>2, <2>2 DEF bdos_open, bdos_make
    <3>2. nextseq = opens + 1 /\ opens \in Nat
      BY <3>1, Numbers DEF IInv, TypeOK
    <3>3. PICK x : x.seq = nextseq /\ fcb' = [fcb EXCEPT ![f] = x]
      BY <1>2, <2>2 DEF bdos_open, bdos_make
    <3>4. fcb'[g] = fcb[g] \/ fcb'[g] = x
      BY <3>3 DEF IInv, TypeOK
    <3> QED BY <3>2, <3>3, <3>4
  <2> QED BY <2>1, <2>2
<1>3. ASSUME NEW f \in Fcbs, bdos_close(f)
      PROVE  f = g
  BY <1>3 DEF bdos_close, IInv, TypeOK
<1>4. ASSUME NEW f \in Fcbs, NEW k \in Nat, NEW step \in {0, 1},
             ReadRec(f, k, step) \/ \E v \in Recs : WriteRec(f, k, step, v)
      PROVE  FALSE
  <2>1. fcb' = Moved(f, k, step) \/ fcb' = fcb
    BY <1>4 DEF ReadRec, WriteRec
  <2>2. UNCHANGED <<nextseq, fnoro, opens>>
    BY <1>4 DEF ReadRec, WriteRec
  <2> QED BY <2>1, <2>2, Moves
<1>5. ASSUME \/ bdos_term \/ UNCHANGED vars
             \/ \E n \in Names : bdos_delete(n) \/ bdos_search(n)
             \/ \E n, m \in Names : bdos_rename(n, m)
      PROVE  FALSE
  BY <1>5 DEF bdos_term, vars, bdos_delete, bdos_search, bdos_rename
<1>6. \A k \in 0 .. MaxLen - 1 : k \in Nat
  BY BdosAssumption
<1> QED BY <1>1, <1>2, <1>3, <1>4, <1>5, <1>6 DEF Next

\* f_close, which bdos_close calls whatever the FIL is open for (bdosemu.c:514-523),
\* brings every file up to date.
THEOREM ClosesSave ==
  ASSUME Enough
  PROVE  Spec => CloseSaves
<1>1. ASSUME IInv, [Next]_vars
      PROVE  [(\E f \in Fcbs : fcb[f].seq # 0 /\ fcb'[f].seq = 0) =>
                 \A n \in Names : dir'[n].recs = truth'[n]]_vars
  BY <1>1, NumbersStay, CloseStep
<1> QED BY <1>1, Inductive, PTL DEF Spec, CloseSaves

\* A read-only file is as safe from programs as f_open and f_unlink make it, though
\* the mode bdos_open asks for is that of another file (bdosemu.c:474-476).
THEOREM ReadOnlySafe ==
  ASSUME Enough
  PROVE  Spec => ReadOnlyKept
<1>1. ASSUME IInv, [Next]_vars
      PROVE  \A n \in Names : dir[n].ro /\ dir'[n] # dir[n] =>
                 \E m \in Names : ~dir[m].there /\ dir'[m] = dir[n]
  <2>1. \A f \in Fcbs : fcb[f].pos \in Nat
    BY <1>1, BdosAssumption DEF IInv, TypeOK
  <2>2. \A k \in 0 .. MaxLen - 1 : k \in Nat
    BY BdosAssumption
  <2> DEFINE Kept == \A m \in Names : dir[m].ro => dir'[m] = dir[m]
  <2>3. ASSUME NEW f \in Fcbs, NEW n \in Names, bdos_open(f, n) \/ bdos_make(f, n)
        PROVE  Kept
    BY <1>1, <2>3, OpenStep, MakeStep
  <2>4. ASSUME NEW f \in Fcbs, bdos_close(f)
        PROVE  Kept
    BY <1>1, <2>4, CloseStep
  <2>5. ASSUME NEW f \in Fcbs, NEW k \in Nat, NEW step \in {0, 1}, ReadRec(f, k, step)
        PROVE  Kept
    BY <1>1, <2>5, ReadStep
  <2>6. ASSUME NEW f \in Fcbs, NEW k \in Nat, NEW step \in {0, 1}, NEW v,
               WriteRec(f, k, step, v)
        PROVE  Kept
    BY <1>1, <2>6, WriteStep
  <2>7. ASSUME NEW n \in Names, bdos_delete(n) \/ bdos_search(n)
        PROVE  Kept
    BY <1>1, <2>7, DeleteStep DEF bdos_search
  <2>8. ASSUME bdos_term \/ UNCHANGED vars
        PROVE  Kept
    BY <1>1, <2>8, TermStep DEF vars
  <2>9. Kept \/ \E n, m \in Names : bdos_rename(n, m)
    BY <1>1, <2>1, <2>2, <2>3, <2>4, <2>5, <2>6, <2>7, <2>8 DEF Next
  <2> QED BY <1>1, <2>9, RenameStep
<1>2. ASSUME IInv, [Next]_vars
      PROVE  [\A n \in Names : dir[n].ro /\ dir'[n] # dir[n] =>
                 \E m \in Names : ~dir[m].there /\ dir'[m] = dir[n]]_vars
  BY <1>1, <1>2
<1> QED BY <1>2, Inductive, PTL DEF Spec, ReadOnlyKept
=============================================================================
