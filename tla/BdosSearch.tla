----------------------------- MODULE BdosSearch -----------------------------
(***************************************************************************)
(* The directory calls of the CP/M BDOS emulation (src/z80ctrl/bdosemu.c). *)
(* bdos_search keeps its mask, its extent and how far it has come in       *)
(* statics: BDOS_SFIRST begins a search and BDOS_SNEXT continues it, one   *)
(* directory entry per call, either one for each file or, when a program   *)
(* asks for every extent (ex = '?'), one for each extent of each file.     *)
(* BDOS_OPEN, BDOS_SIZE and BDOS_DELETE search, too.  A mask is the set of *)
(* names that match it.  Sizes and offsets are in records; the bytes of an *)
(* incomplete record count as one.                                         *)
(***************************************************************************)
EXTENDS Integers, Sequences

CONSTANTS RECSIZ,    \* bytes of a record, which is also what rc is cut to: 128
          RECCNT,    \* records of an extent: 128
          EXTCNT,    \* extents of a module: 32
          MODCNT,    \* modules of a file: 16
          Byte,      \* values of a uint8_t: 256
          OFFREC,    \* records that a 32-bit offset can count: 2^25
          Every,     \* '?' as an extent: 63, which is no extent
          Extents,   \* the extents asked for
          Names,     \* a sequence: the names, in the order of the directory
          Masks,     \* the masks asked for
          None,      \* no name
          Directories \* functions of the names: [there, ro, size]

ASSUME FcbAssumption == /\ RECCNT \in Nat \ {0} /\ EXTCNT \in Nat \ {0} /\ MODCNT \in Nat \ {0}
                        /\ RECSIZ \in 1 .. RECCNT
                        /\ Byte \in Nat \ {0, 1} /\ Byte % 2 = 0
                        /\ OFFREC \in Nat /\ OFFREC >= Byte * Byte

Files == {Names[p] : p \in DOMAIN Names}

\* No two files of a directory have the same name.
ASSUME DirectoryAssumption ==
    /\ Names \in Seq(Files)
    /\ \A p, q \in DOMAIN Names : Names[p] = Names[q] => p = q
    /\ None \notin Files
    /\ Masks \subseteq SUBSET Files
    /\ Extents \subseteq Nat /\ Every \in Nat
    /\ Directories \subseteq [Files -> [there : BOOLEAN, ro : BOOLEAN, size : Nat]]
-----------------------------------------------------------------------------
(* The fields of an FCB. *)
fcb_seqoffset(f) == (f.s2 * EXTCNT + f.ex) * RECCNT + f.cr

fcb_setseq(n) == [cr |-> n % RECCNT, ex |-> (n \div RECCNT) % EXTCNT,
                  s2 |-> (n \div (RECCNT * EXTCNT)) % MODCNT]

\* Mutant: the low and the middle byte change places.
fcb_setrandSwapped(n) == [r0 |-> (n \div Byte) % Byte, r1 |-> n % Byte,
                          r2 |-> (n \div (Byte * Byte)) % Byte]

fcb_setrand(n) == [r0 |-> n % Byte, r1 |-> (n \div Byte) % Byte,
                   r2 |-> (n \div (Byte * Byte)) % Byte]

\* r1 << 8 is an int of 16 bits: its sign spreads over r2 and what is above.
fcb_randoffset(f) ==
    IF f.r1 < Byte \div 2 THEN (f.r2 * Byte + f.r1) * Byte + f.r0
    ELSE OFFREC - Byte * Byte + f.r1 * Byte + f.r0
-----------------------------------------------------------------------------
VARIABLES dir,      \* the files of the card
          search,   \* the statics of bdos_search, of dirfcb, and the name in fno
          ret,      \* what the last call returned
          rand,     \* the random fields of the FCB of the last BDOS_SIZE
          sized,    \* history: the file it found
          own,      \* history: no call but SNEXT has searched since SFIRST
          seen      \* history: the entries of each file returned since SFIRST

vars == <<dir, search, ret, rand, sized, own, seen>>

AtMost(n, max) == IF n > max THEN max ELSE n

\* The record count of an entry when left records are left: a uint8_t.
Count(left) == AtMost(left % Byte, RECSIZ)

\* Mutant: the name is not compared with the mask.
MatchingAny(s) == {p \in DOMAIN Names : 0 < s.pos /\ s.pos <= p /\ dir[Names[p]].there}

\* f_readdir, until a name matches; position 0 is a DIR that was never opened.
Matching(s) == {p \in DOMAIN Names : /\ 0 < s.pos /\ s.pos <= p
                                     /\ dir[Names[p]].there /\ Names[p] \in s.mask}
Found(s) == CHOOSE p \in Matching(s) : \A q \in Matching(s) : p <= q

AtEnd(s) == s.left = 0 /\ Matching(s) = {}

\* Mutant: the further extents are returned whatever extent was asked for.
RestOfAny(left, every) == IF left > RECCNT THEN left - RECCNT ELSE 0

\* What remains of the file after an entry.
Rest(left, every) == IF left > RECCNT /\ every THEN left - RECCNT ELSE 0

\* The entry of the next file, or of the next extent.
bdos_search(s) ==
    LET left == IF s.left = 0 THEN dir[Names[Found(s)]].size ELSE s.left
        every == s.searchex = Every
        entry == [s EXCEPT !.rc = Count(left), !.left = Rest(left, every)]
    IN  IF AtEnd(s) THEN [s EXCEPT !.pos = AtMost(s.pos, 1) * (Len(Names) + 1)]
        ELSE IF s.left = 0
        THEN [entry EXCEPT !.pos = Found(s) + 1, !.fno = Names[Found(s)],
                           !.ex = IF every THEN 0 ELSE s.searchex, !.s2 = 0]
        ELSE IF s.ex + 1 >= EXTCNT THEN [entry EXCEPT !.ex = 0, !.s2 = (s.s2 + 1) % Byte]
        ELSE [entry EXCEPT !.ex = s.ex + 1]

\* Mutant: bytesleft is not cleared when a search begins.
FirstKeepsLeft(mask, e) == [mask |-> mask, searchex |-> e, pos |-> 1, left |-> search.left,
                            ex |-> 0, s2 |-> 0, rc |-> 0, fno |-> search.fno]

\* BDOS_SFIRST: the mask and the extent are saved and the directory is opened.
First(mask, e) == [mask |-> mask, searchex |-> e, pos |-> 1, left |-> 0,
                   ex |-> 0, s2 |-> 0, rc |-> 0, fno |-> search.fno]

Ok(s) == IF AtEnd(s) THEN "error" ELSE "ok"

Init == /\ dir \in Directories
        /\ search = [mask |-> {}, searchex |-> 0, pos |-> 0, left |-> 0,
                     ex |-> 0, s2 |-> 0, rc |-> 0, fno |-> None]
        /\ ret = "none" /\ rand = fcb_setrand(0) /\ sized = None
        /\ own = FALSE /\ seen = [n \in Files |-> 0]

\* An entry is returned, or the end of the directory.
Return(s, before) ==
    /\ search' = bdos_search(s) /\ ret' = Ok(s)
    /\ seen' = IF AtEnd(s) THEN before ELSE [before EXCEPT ![bdos_search(s).fno] = @ + 1]
    /\ UNCHANGED <<dir, rand, sized>>

SFIRST(mask, e) == /\ own' = TRUE
                   /\ Return(First(mask, e), [n \in Files |-> 0])

SNEXT == /\ UNCHANGED own
         /\ IF own THEN Return(search, seen)
            ELSE /\ search' = bdos_search(search) /\ ret' = Ok(search)
                 /\ UNCHANGED <<dir, rand, sized, seen>>

\* The search of another call takes the place of the program's.
Restart(s) == search' = s /\ own' = FALSE /\ seen' = [n \in Files |-> 0]

\* The first file that matches is opened.
OPEN(mask, e) == /\ Restart(bdos_search(First(mask, e))) /\ ret' = Ok(First(mask, e))
                 /\ UNCHANGED <<dir, rand, sized>>

\* bdos_size has no return on success: params.ret is whatever was left in the
\* register.
bdos_size(mask, e) ==
    /\ Restart(bdos_search(First(mask, e)))
    /\ IF AtEnd(First(mask, e))
       THEN ret' = "error" /\ UNCHANGED <<rand, sized>>
       ELSE /\ ret' \in {"ok", "error"}
            /\ sized' = search'.fno /\ rand' = fcb_setrand(dir[sized'].size)
    /\ UNCHANGED dir

\* Does f_unlink refuse a file, or the search return it once more?
Stops(n, e) == dir[n].ro \/ (e = Every /\ dir[n].size > RECCNT)

\* Files are removed until one is read-only or is found a second time.
bdos_delete(mask, e) ==
    LET match == Matching(First(mask, e))
        stops == {p \in match : Stops(Names[p], e)}
        last == CHOOSE p \in stops : \A q \in stops : p <= q
        gone == IF stops = {} THEN match
                ELSE {p \in match : p < last \/ (p = last /\ ~dir[Names[p]].ro)}
        found == bdos_search([First(mask, e) EXCEPT !.pos = last])
    IN  /\ dir' = [n \in Files |-> [dir[n] EXCEPT !.there = @ /\ \A p \in gone : Names[p] # n]]
        /\ IF stops = {}
           THEN /\ ret' = "ok"
                /\ Restart([First(mask, e) EXCEPT !.pos = Len(Names) + 1])
           ELSE /\ ret' = "error"
                /\ Restart(IF dir[Names[last]].ro THEN found ELSE bdos_search(found))
        /\ UNCHANGED <<rand, sized>>

Next == \/ \E mask \in Masks, e \in Extents :
              \/ SFIRST(mask, e) \/ OPEN(mask, e)
              \/ bdos_size(mask, e) \/ bdos_delete(mask, e)
        \/ SNEXT

Spec == Init /\ [][Next]_vars
-----------------------------------------------------------------------------
all == search.searchex = Every

\* The extent and module of an entry are where its records are, the way
\* BDOS_READ computes it (fcb_seqoffset): they begin before what is still to
\* come, and the entry never counts a record that is not there.  s2 is a
\* uint8_t: this is said of files of at most 128 megabytes.
EntryIsPosition ==
    LET start == fcb_seqoffset([s2 |-> search.s2, ex |-> search.ex, cr |-> 0])
        done == dir[search.fno].size - search.left
    IN  own /\ all /\ ret = "ok" /\ dir[search.fno].size \in 1 .. Byte * EXTCNT * RECCNT =>
            /\ done \in start + 1 .. start + RECCNT
            /\ start + search.rc <= done
            /\ search.left > 0 => done = start + RECCNT

\* The entries that a program asks for when it searches for a file.
Entries(n) == IF n \notin search.mask \/ ~dir[n].there THEN 0
              ELSE IF all /\ dir[n].size > 0 THEN (dir[n].size + RECCNT - 1) \div RECCNT
              ELSE 1

\* As long as the program makes no other of these calls, it is told of every
\* file that matches and of each of its extents exactly once, and the end comes
\* after the last of them.  (The calls that make, rename or lengthen a file also
\* change the directory under a search; they are no actions of this module.)
ListingComplete ==
    own => \A n \in Files : /\ seen[n] <= Entries(n)
                            /\ ret = "error" => seen[n] = Entries(n)

\* A deletion that reports success leaves no file that matches; and no call
\* removes a file that does not match, or a read-only one.
DeleteWhole ==
    [][\A n \in Files : dir[n].there =>
          /\ ~dir'[n].there => ~dir[n].ro /\ n \in search'.mask
          /\ dir' # dir /\ ret' = "ok" => (dir'[n].there <=> n \notin search'.mask)]_vars

\* A program that asks for the size of a file finds its end with a random read
\* or write, in files of less than 4 megabytes.
EndIsFound == sized # None /\ dir[sized].size < (Byte * Byte) \div 2 =>
                  fcb_randoffset(rand) = dir[sized].size

\* "Calculate a 32-bit offset from random fields in FCB" (bdosemu.c:220): the
\* same for files of any size.
RandomIsRecord == sized # None => fcb_randoffset(rand) = dir[sized].size

\* "Calculate the record count in this extent" (bdosemu.c:415): an entry counts
\* every record of its extent.
CountIsRecords ==
    own /\ all /\ ret = "ok" =>
        search.rc = AtMost(RECCNT, dir[search.fno].size -
                             fcb_seqoffset([s2 |-> search.s2, ex |-> search.ex, cr |-> 0]))
=============================================================================
