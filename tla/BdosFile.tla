------------------------------ MODULE BdosFile ------------------------------
(***************************************************************************)
(* The file calls of the CP/M BDOS emulation (src/z80ctrl/bdosemu.c): any  *)
(* number of FCBs in the memory of the Z80 share the one FIL of the        *)
(* firmware, which is closed and reopened when another FCB is used.  An    *)
(* FCB is known by a sequence number that bdos_open writes into it.        *)
(* A program calls in any order; a call is one step, because the Z80 is    *)
(* off the bus while bdos_dma_execute runs.  Offsets count records.        *)
(***************************************************************************)
EXTENDS Naturals, Sequences, FiniteSets

CONSTANTS Fcbs,     \* FCBs in the memory of the Z80
          Names,    \* file names
          NoName,   \* fatfn cleared
          ReadOnly, \* the files the card starts with that are marked AM_RDO
          Recs,     \* contents of a record
          Junk,     \* what f_lseek beyond the end leaves in between
          SeqMod,   \* values of nextseq, a uint16_t: 65536
          MAXREC,   \* records that ex, s2 and cr can count: 65536
          MaxLen,   \* bound: records in a file
          MaxOpens  \* bound: sequence numbers handed out

ASSUME BdosAssumption == /\ SeqMod \in Nat /\ SeqMod > 1
                         /\ MAXREC \in Nat \ {0} /\ MaxLen \in Nat /\ MaxLen <= MAXREC
                         /\ NoName \notin Names /\ ReadOnly \subseteq Names
                         /\ Junk \notin Recs

VARIABLES fcb,             \* the FCBs
          dir,             \* the files there are, as their directory entries say
          fil,             \* the FIL
          curseq, nextseq,
          fnoro,           \* does the last directory entry read have AM_RDO?
          ret,             \* what the last call returned
          opens,           \* sequence numbers handed out
          truth            \* what the program has stored in each file

vars == <<fcb, dir, fil, curseq, nextseq, fnoro, ret, opens, truth>>

There == {n \in Names : dir[n].there}
NoFile == [there |-> FALSE, ro |-> FALSE, recs |-> <<>>]
NewFile == [there |-> TRUE, ro |-> FALSE, recs |-> <<>>]
Closed == [open |-> FALSE, name |-> NoName, write |-> FALSE, recs |-> <<>>,
           orphan |-> FALSE]

Init == /\ fcb = [f \in Fcbs |-> [fatfn |-> NoName, seq |-> 0, write |-> FALSE,
                                  pos |-> 0]]
        /\ \E old \in SUBSET Names :
              /\ ReadOnly \subseteq old
              /\ dir = [n \in Names |-> IF n \in old
                                       THEN [there |-> TRUE, ro |-> n \in ReadOnly,
                                             recs |-> <<>>]
                                       ELSE NoFile]
        /\ fil = Closed
        /\ curseq = 0 /\ nextseq = 1 /\ fnoro = FALSE /\ ret = "none"
        /\ opens = 0
        /\ truth = [n \in Names |-> <<>>]
-----------------------------------------------------------------------------
(* FatFs *)

\* f_close writes the size into the directory entry.  The entry of a file
\* that was deleted or renamed while it was open is no longer that file's.
AfterClose == IF fil.open /\ fil.write /\ ~fil.orphan
              THEN [dir EXCEPT ![fil.name].recs = fil.recs]
              ELSE dir

\* Mutant of Openable: AM_RDO is not looked at.
OpenableAny(d, n, write) == n \in Names /\ d[n].there

\* f_open of an existing file, and with FA_CREATE_NEW.
Openable(d, n, write) == n \in Names /\ d[n].there /\ ~(write /\ d[n].ro)
Creatable(d, n) == n \in Names /\ ~d[n].there

Opened(n, write, recs) == [open |-> TRUE, name |-> n, write |-> write,
                           recs |-> recs, orphan |-> FALSE]

\* f_lseek and f_write of record v at offset k.
Stored(recs, k, v) == [i \in 1 .. (IF k + 1 > Len(recs) THEN k + 1 ELSE Len(recs)) |->
                         IF i = k + 1 THEN v
                         ELSE IF i <= Len(recs) THEN recs[i] ELSE Junk]

\* bdos_search for name n: the attributes left in fno are those of the file
\* found, or of the last one of a directory that does not have it.
Search(n) == fnoro' \in IF n \in There THEN {dir[n].ro}
                        ELSE IF There = {} THEN {fnoro}
                        ELSE {dir[m].ro : m \in There}
-----------------------------------------------------------------------------
\* Mutant of OpenFil: the FIL is not closed before it is opened again.
OpenFilNoClose(seq, n, write, ok) ==
    \/ /\ seq = curseq /\ ok
       /\ UNCHANGED <<dir, fil, curseq>>
    \/ /\ seq # curseq /\ ok /\ Openable(dir, n, write)
       /\ fil' = Opened(n, write, dir[n].recs)
       /\ curseq' = seq
       /\ UNCHANGED dir
    \/ /\ seq # curseq /\ ~ok /\ ~Openable(dir, n, write)
       /\ fil' = Closed
       /\ UNCHANGED <<dir, curseq>>

\* fcb_openfil(): the FIL, if it is not that FCB's already, is closed and
\* opened; the result says whether f_open, if it was called, succeeded.
OpenFil(seq, n, write, ok) ==
    \/ /\ seq = curseq /\ ok
       /\ UNCHANGED <<dir, fil, curseq>>
    \/ /\ seq # curseq /\ ok /\ Openable(AfterClose, n, write)
       /\ dir' = AfterClose
       /\ fil' = Opened(n, write, AfterClose[n].recs)
       /\ curseq' = seq
    \/ /\ seq # curseq /\ ~ok /\ ~Openable(AfterClose, n, write)
       /\ dir' = AfterClose
       /\ fil' = Closed
       /\ UNCHANGED curseq

Fail == ret' = "error"

\* Mutant of TakeSeq: every FCB gets the same number.
TakeSeqStuck == /\ opens < MaxOpens /\ opens' = opens + 1
                /\ UNCHANGED nextseq

\* nextseq++, which skips 0.
TakeSeq == /\ opens < MaxOpens /\ opens' = opens + 1
           /\ nextseq' = IF (nextseq + 1) % SeqMod = 0 THEN 1 ELSE nextseq + 1

\* BDOS_OPEN.  mode comes from fno before the search fills it.
bdos_open(f, n) ==
    /\ Search(n)
    /\ \/ /\ n \notin There
          /\ Fail
          /\ UNCHANGED <<fcb, dir, fil, curseq, nextseq, opens>>
       \/ /\ n \in There
          /\ TakeSeq
          /\ \/ /\ OpenFil(nextseq, n, ~fnoro, TRUE)
                /\ fcb' = [fcb EXCEPT ![f] = [fatfn |-> n, seq |-> nextseq,
                                              write |-> ~fnoro, pos |-> fcb[f].pos]]
                /\ ret' = "ok"
             \/ /\ OpenFil(nextseq, n, ~fnoro, FALSE)
                /\ Fail /\ UNCHANGED fcb
    /\ UNCHANGED truth

\* BDOS_MAKE: FA_CREATE_NEW, for this f_open only.
bdos_make(f, n) ==
    /\ TakeSeq
    /\ \/ /\ nextseq = curseq                    \* fcb_openfil does nothing
          /\ UNCHANGED <<dir, fil, curseq, truth>>
          /\ ret' = "ok"
       \/ /\ nextseq # curseq
          /\ fil' = IF Creatable(dir, n) THEN Opened(n, ~fnoro, <<>>) ELSE Closed
          /\ dir' = IF Creatable(dir, n)
                    THEN [AfterClose EXCEPT ![n] = NewFile]
                    ELSE AfterClose
          /\ curseq' = IF Creatable(dir, n) THEN nextseq ELSE curseq
          /\ ret' = IF Creatable(dir, n) THEN "ok" ELSE "error"
          /\ truth' = IF Creatable(dir, n) THEN [truth EXCEPT ![n] = <<>>] ELSE truth
    /\ fcb' = IF ret' = "ok"
              THEN [fcb EXCEPT ![f] = [fatfn |-> n, seq |-> nextseq,
                                       write |-> ~fnoro, pos |-> 0]]
              ELSE fcb
    /\ UNCHANGED fnoro

\* Mutant of bdos_close: the FIL is closed only when it is the FCB's.
bdos_closeOwn(f) ==
    /\ IF fcb[f].seq = curseq
       THEN dir' = AfterClose /\ fil' = Closed /\ curseq' = 0
       ELSE UNCHANGED <<dir, fil, curseq>>
    /\ fcb' = [fcb EXCEPT ![f] = [fatfn |-> NoName, seq |-> 0, write |-> FALSE,
                                  pos |-> fcb[f].pos]]
    /\ ret' = "ok"
    /\ UNCHANGED <<nextseq, fnoro, opens, truth>>

\* Whatever file the FIL is open for is closed.
bdos_close(f) ==
    /\ dir' = AfterClose /\ fil' = Closed /\ curseq' = 0
    /\ fcb' = [fcb EXCEPT ![f] = [fatfn |-> NoName, seq |-> 0, write |-> FALSE,
                                  pos |-> fcb[f].pos]]
    /\ ret' = "ok"
    /\ UNCHANGED <<nextseq, fnoro, opens, truth>>

\* BDOS_TERMCPM closes the file, and leaves curseq.
bdos_term ==
    /\ dir' = AfterClose /\ fil' = Closed
    /\ UNCHANGED <<fcb, curseq, nextseq, fnoro, ret, opens, truth>>

\* Sequential calls use and advance ex, s2 and cr, random ones set them.
Moved(f, at, step) == [fcb EXCEPT ![f].pos = (at + step) % MAXREC]

ReadRec(f, at, step) ==
    /\ \/ /\ OpenFil(fcb[f].seq, fcb[f].fatfn, fcb[f].write, TRUE)
          /\ \/ /\ fil'.open /\ at < Len(fil'.recs)
                /\ ret' = "ok" /\ fcb' = Moved(f, at, step)
             \/ /\ fil'.open /\ at >= Len(fil'.recs)
                /\ ret' = "eof" /\ UNCHANGED fcb
             \/ /\ ~fil'.open                \* f_size is stale: EOF, or an error
                /\ ret' \in {"eof", "error"} /\ UNCHANGED fcb
       \/ /\ OpenFil(fcb[f].seq, fcb[f].fatfn, fcb[f].write, FALSE)
          /\ Fail /\ UNCHANGED fcb
    /\ UNCHANGED <<nextseq, fnoro, opens, truth>>

WriteRec(f, at, step, v) ==
    /\ at < MaxLen
    /\ \/ /\ OpenFil(fcb[f].seq, fcb[f].fatfn, fcb[f].write, FALSE)
          /\ Fail /\ UNCHANGED <<fcb, truth>>
       \/ /\ fcb[f].seq = curseq
          /\ UNCHANGED <<dir, curseq>>
          /\ \/ /\ fil.open /\ fil.write
                /\ fil' = [fil EXCEPT !.recs = Stored(fil.recs, at, v)]
                /\ truth' = IF fil.orphan THEN truth
                            ELSE [truth EXCEPT ![fcb[f].fatfn] =
                                    Stored(truth[fcb[f].fatfn], at, v)]
                /\ ret' = "ok" /\ fcb' = Moved(f, at, step)
             \/ /\ ~fil.open \/ ~fil.write
                /\ Fail /\ UNCHANGED <<fcb, fil, truth>>
       \/ /\ fcb[f].seq # curseq /\ Openable(AfterClose, fcb[f].fatfn, fcb[f].write)
          /\ dir' = AfterClose /\ curseq' = fcb[f].seq
          /\ LET now == Opened(fcb[f].fatfn, fcb[f].write, AfterClose[fcb[f].fatfn].recs)
             IN  \/ /\ fcb[f].write
                    /\ fil' = [now EXCEPT !.recs = Stored(now.recs, at, v)]
                    /\ truth' = [truth EXCEPT ![fcb[f].fatfn] =
                                    Stored(truth[fcb[f].fatfn], at, v)]
                    /\ ret' = "ok" /\ fcb' = Moved(f, at, step)
                 \/ /\ ~fcb[f].write
                    /\ fil' = now /\ Fail /\ UNCHANGED <<fcb, truth>>
    /\ UNCHANGED <<nextseq, fnoro, opens>>

\* BDOS_DELETE, without wildcards.  f_unlink refuses a read-only file; that
\* nothing was found is no error.
bdos_delete(n) ==
    /\ \/ /\ n \in There /\ ~dir[n].ro
          /\ dir' = [dir EXCEPT ![n] = NoFile]
          /\ fil' = IF fil.name = n THEN [fil EXCEPT !.orphan = TRUE] ELSE fil
          /\ truth' = [truth EXCEPT ![n] = <<>>]
          /\ fnoro' \in {FALSE} \cup {dir[m].ro : m \in There \ {n}}
          /\ ret' = "ok"
       \/ /\ n \in There /\ dir[n].ro
          /\ fnoro' = TRUE
          /\ Fail /\ UNCHANGED <<dir, fil, truth>>
       \/ /\ n \notin There
          /\ Search(n)
          /\ ret' = "ok" /\ UNCHANGED <<dir, fil, truth>>
    /\ UNCHANGED <<fcb, curseq, nextseq, opens>>

\* BDOS_RENAME.  Programs rename files they have closed.
bdos_rename(n, m) ==
    /\ fil.open => fil.name # n
    /\ \/ /\ n \in There /\ m \notin There \ {n}
          /\ dir' = [dir EXCEPT ![n] = NoFile, ![m] = dir[n]]
          /\ truth' = [truth EXCEPT ![n] = <<>>, ![m] = truth[n]]
          /\ ret' = "ok"
       \/ /\ n \notin There \/ m \in There \ {n}
          /\ Fail /\ UNCHANGED <<dir, truth>>
    /\ UNCHANGED <<fcb, fil, curseq, nextseq, fnoro, opens>>

\* BDOS_SFIRST and BDOS_SNEXT read directory entries; BDOS_SIZE does too.
bdos_search(n) ==
    /\ Search(n)
    /\ ret' = IF n \in There THEN "ok" ELSE "error"
    /\ UNCHANGED <<fcb, dir, fil, curseq, nextseq, opens, truth>>
-----------------------------------------------------------------------------
Next == \/ \E f \in Fcbs, n \in Names : bdos_open(f, n) \/ bdos_make(f, n)
        \/ \E f \in Fcbs : bdos_close(f)
        \/ bdos_term
        \/ \E f \in Fcbs : ReadRec(f, fcb[f].pos, 1)
        \/ \E f \in Fcbs, k \in 0 .. MaxLen - 1 : ReadRec(f, k, 0)
        \/ \E f \in Fcbs, v \in Recs : WriteRec(f, fcb[f].pos, 1, v)
        \/ \E f \in Fcbs, v \in Recs, k \in 0 .. MaxLen - 1 : WriteRec(f, k, 0, v)
        \/ \E n \in Names : bdos_delete(n) \/ bdos_search(n)
        \/ \E n, m \in Names : bdos_rename(n, m)

Spec == Init /\ [][Next]_vars
-----------------------------------------------------------------------------
\* The shapes of the records; what a record of a file holds plays no part.
TypeOK ==
    /\ fcb \in [Fcbs -> [fatfn : Names \cup {NoName}, seq : 0 .. opens,
                         write : BOOLEAN, pos : 0 .. MAXREC - 1]]
    /\ dir = [n \in Names |-> [there |-> dir[n].there, ro |-> dir[n].ro, recs |-> dir[n].recs]]
    /\ \A n \in Names : dir[n].there \in BOOLEAN /\ dir[n].ro \in BOOLEAN
    /\ truth = [n \in Names |-> truth[n]]
    /\ fil = [open |-> fil.open, name |-> fil.name, write |-> fil.write,
              recs |-> fil.recs, orphan |-> fil.orphan]
    /\ fil.open \in BOOLEAN /\ fil.write \in BOOLEAN /\ fil.orphan \in BOOLEAN
    /\ curseq \in 0 .. opens /\ opens \in 0 .. MaxOpens
    /\ fnoro \in BOOLEAN

\* As long as the numbers last each is given to one FCB, and an FCB that has none
\* names no file.
SeqOK == /\ opens < MaxOpens => nextseq = opens + 1
         /\ \A f, g \in Fcbs : fcb[f].seq = fcb[g].seq /\ fcb[f].seq # 0 => f = g
         /\ \A f \in Fcbs : fcb[f].seq = 0 => fcb[f].fatfn = NoName

\* The FIL and the directory: what is open is there and may be written if it is
\* open for that, and what is open for reading is as the directory says.
FilOK == /\ fil.open => fil.name \in Names /\ curseq # 0
         /\ fil.open /\ ~fil.orphan =>
               /\ dir[fil.name].there
               /\ IF fil.write THEN ~dir[fil.name].ro ELSE fil.recs = dir[fil.name].recs
         /\ \A n \in Names : ~dir[n].there => dir[n] = NoFile

\* What a file holds: in the FIL while that is open for it.
Holds(n) == IF fil.open /\ fil.name = n /\ ~fil.orphan THEN fil.recs ELSE dir[n].recs

\* Whatever FCBs a program uses in turn for a file, and whatever it opens and
\* closes in between, every file holds what the program stored in it.
Coherent == \A n \in Names : Holds(n) = truth[n]

\* The FIL is never taken for an FCB that names another file than it has open:
\* the sequence number in the FCB identifies it ("to uniquely identify fcb",
\* bdosemu.c:494).
OpenFileMatches ==
    fil.open => \A f \in Fcbs : fcb[f].seq = curseq /\ curseq # 0 =>
                                    fcb[f].fatfn = fil.name

\* The inductive invariant: the FCBs, the FIL, the directory and the program's
\* view of the files agree between any two calls.
IInv == TypeOK /\ SeqOK /\ FilOK /\ Coherent /\ OpenFileMatches

\* A close leaves nothing unsaved, also when the FIL was open for another FCB
\* than the one closed.
CloseSaves ==
    [][(\E f \in Fcbs : fcb[f].seq # 0 /\ fcb'[f].seq = 0) =>
          \A n \in Names : dir'[n].recs = truth'[n]]_vars

\* No call changes the contents of a read-only file, or removes it other than
\* by giving it a new name, though the mode is taken from a stale entry.
ReadOnlyKept ==
    [][\A n \in Names : dir[n].ro /\ dir'[n] # dir[n] =>
          \E m \in Names : ~dir[m].there /\ dir'[m] = dir[n]]_vars

\* "Open the FAT file needed by the FCB if it's not already" (bdosemu.c:454):
\* when the FIL counts as an FCB's, it is open.
CurrentIsOpen == curseq # 0 => fil.open

\* "Handle read-only files" (bdosemu.c:474): an FCB is open for writing exactly
\* when its file may be written.
ModeIsFiles == \A f \in Fcbs : fcb[f].seq # 0 /\ dir[fcb[f].fatfn].there =>
                                  fcb[f].write = ~dir[fcb[f].fatfn].ro
=============================================================================
