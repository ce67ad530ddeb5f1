--------------------------- MODULE BdosSearchProof ---------------------------
(***************************************************************************)
(* Proofs about the directory calls of the BDOS emulation, for every       *)
(* directory and every sequence of calls.                                  *)
(***************************************************************************)
EXTENDS BdosSearch, WellFoundedInduction, TLAPS

(***************************************************************************)
(* What the proofs need of numbers.                                        *)
(***************************************************************************)

\* A set of numbers has a least one: the first match of a mask exists.
LEMMA Least == ASSUME NEW T, T \subseteq Nat, T # {}
               PROVE  \E x \in T : \A y \in T : x <= y
<1> DEFINE R == OpToRel(<, Nat)
<1>0. IsWellFoundedOn(R, Nat)  BY NatLessThanWellFounded, Zenon
<1>1. PICK x \in T : \A y \in T : ~ (<<y, x>> \in R)
  <2> HIDE DEF R
  <2> QED BY <1>0, WFMin, Zenon
<1>2. \A y \in T : y \in Nat /\ x \in Nat /\ (<<y, x>> \in R <=> y < x)
  BY DEF OpToRel
<1>3. \A y \in T : x <= y
  <2> HIDE DEF R
  <2> SUFFICES ASSUME NEW y \in T  PROVE x <= y
    OBVIOUS
  <2>1. ~ (y < x)  BY <1>1, <1>2, Zenon
  <2> QED BY <1>2, <2>1
<1> QED BY <1>3

\* A quotient lies where its multiple says.
LEMMA Quotient == ASSUME NEW a \in Nat, NEW d \in Nat \ {0}, NEW q \in Nat, NEW r \in 0 .. d - 1,
                         a = q * d + r
                  PROVE  a \div d = q /\ a % d = r
  BY Z3

\* What a quotient and a remainder are.
LEMMA Divided == ASSUME NEW a \in Nat, NEW d \in Nat \ {0}
                 PROVE  /\ a \div d \in Nat /\ a % d \in 0 .. d - 1
                        /\ a = (a \div d) * d + (a % d)
  BY Z3

\* Multiples are in the order of what they are multiples of.
LEMMA Before == ASSUME NEW a \in Nat, NEW b \in Nat, NEW d \in Nat \ {0}, a * d < b * d
                PROVE  a < b
  BY Z3

\* Products of numbers are numbers.
LEMMA Product == ASSUME NEW a \in Nat, NEW b \in Nat
                 PROVE  a * b \in Nat
  BY Z3

(***************************************************************************)
(* The state has its type: the statics of bdos_search, the fields of the   *)
(* entry among them.                                                       *)
(***************************************************************************)
Statics == [mask : SUBSET Files, searchex : Nat, pos : 0 .. Len(Names) + 1, left : Nat,
            ex : Nat, s2 : 0 .. Byte - 1, rc : Nat, fno : Files \cup {None}]

TypeOK == /\ dir \in [Files -> [there : BOOLEAN, ro : BOOLEAN, size : Nat]]
          /\ search \in Statics
          /\ ret \in {"none", "ok", "error"}
          /\ own \in BOOLEAN
          /\ seen \in [Files -> Nat]

\* Every file has a position in the directory, every position a file.
LEMMA Positions == /\ Len(Names) \in Nat /\ DOMAIN Names = 1 .. Len(Names)
                   /\ \A p \in 1 .. Len(Names) : Names[p] \in Files
                   /\ \A n \in Files : \E p \in 1 .. Len(Names) : n = Names[p]
  BY DirectoryAssumption DEF Files

\* The file found is the first that matches.
LEMMA FoundFirst == ASSUME NEW s, Matching(s) # {}
                    PROVE  /\ Found(s) \in Matching(s) /\ Found(s) \in 1 .. Len(Names)
                           /\ \A q \in Matching(s) : Found(s) <= q
<1>1. Matching(s) \subseteq 1 .. Len(Names) /\ Matching(s) \subseteq Nat
  BY Positions DEF Matching
<1>2. \E p \in Matching(s) : \A q \in Matching(s) : p <= q  BY <1>1, Least
<1>3. Found(s) \in Matching(s) /\ \A q \in Matching(s) : Found(s) <= q  BY <1>2 DEF Found
<1> QED BY <1>1, <1>3

\* An entry counts no more records than are left, and than an extent has.
LEMMA CountType == ASSUME NEW left \in Nat
                   PROVE  /\ Count(left) \in Nat /\ Count(left) <= left
                          /\ Count(left) <= RECCNT
<1>1. Byte \in Nat \ {0} /\ RECSIZ \in Nat /\ RECSIZ <= RECCNT /\ RECCNT \in Nat
  BY FcbAssumption
<1>2. left % Byte \in Nat /\ left % Byte <= left  BY <1>1, Z3
<1> QED BY <1>1, <1>2 DEF Count, AtMost

\* What an entry leaves for the next one is what lies beyond its extent.
LEMMA RestType == ASSUME NEW left \in Nat, NEW every \in BOOLEAN
                  PROVE  /\ Rest(left, every) \in Nat
                         /\ Rest(left, every) > 0 => every /\ left = Rest(left, every) + RECCNT
                         /\ every /\ left > RECCNT => Rest(left, every) > 0
  BY FcbAssumption DEF Rest

\* A search begins with statics of their types.
LEMMA FirstType == ASSUME TypeOK, NEW mask \in Masks, NEW e \in Extents
                   PROVE  First(mask, e) \in Statics
<1>1. mask \in SUBSET Files /\ e \in Nat /\ 1 \in 0 .. Len(Names) + 1 /\ 0 \in 0 .. Byte - 1
  BY FcbAssumption, DirectoryAssumption, Positions
<1>2. search.fno \in Files \cup {None}  BY DEF Statics, TypeOK
<1> QED BY <1>1, <1>2 DEF First, Statics

\* The three outcomes of a call of bdos_search.
LEMMA Ended == ASSUME NEW s \in Statics, AtEnd(s)
               PROVE  /\ bdos_search(s) = [s EXCEPT !.pos = IF s.pos = 0 THEN 0 ELSE Len(Names) + 1]
                      /\ bdos_search(s) \in Statics
<1>1. s.pos \in Nat /\ Len(Names) \in Nat  BY Positions DEF Statics
<1>2. AtMost(s.pos, 1) * (Len(Names) + 1) = IF s.pos = 0 THEN 0 ELSE Len(Names) + 1
  BY <1>1 DEF AtMost
<1>3. bdos_search(s) = [s EXCEPT !.pos = IF s.pos = 0 THEN 0 ELSE Len(Names) + 1]
  BY <1>2 DEF bdos_search
<1>4. (IF s.pos = 0 THEN 0 ELSE Len(Names) + 1) \in 0 .. Len(Names) + 1  BY <1>1
<1> QED BY <1>3, <1>4 DEF Statics

\* bdos_search goes on to the next file that matches.
LEMMA NextFile ==
    ASSUME TypeOK, NEW s \in Statics, ~AtEnd(s), s.left = 0
    PROVE  LET f == Names[Found(s)]
               size == dir[f].size
               every == s.searchex = Every
           IN  /\ bdos_search(s) = [s EXCEPT !.pos = Found(s) + 1, !.fno = f, !.s2 = 0,
                                             !.ex = IF every THEN 0 ELSE s.searchex,
                                             !.rc = Count(size), !.left = Rest(size, every)]
               /\ bdos_search(s) \in Statics
               /\ Found(s) \in Matching(s) /\ Found(s) \in 1 .. Len(Names) /\ f \in Files
               /\ size \in Nat
               /\ \A q \in Matching(s) : Found(s) <= q
<1> DEFINE f == Names[Found(s)]
           size == dir[f].size
           every == s.searchex = Every
<1>1. Matching(s) # {}  BY DEF AtEnd
<1>2. /\ Found(s) \in Matching(s) /\ Found(s) \in 1 .. Len(Names) /\ f \in Files
      /\ \A q \in Matching(s) : Found(s) <= q
  BY <1>1, FoundFirst, Positions
<1>3. size \in Nat /\ every \in BOOLEAN  BY <1>2 DEF TypeOK
<1>4. bdos_search(s) = [s EXCEPT !.pos = Found(s) + 1, !.fno = f, !.s2 = 0,
                                 !.ex = IF every THEN 0 ELSE s.searchex,
                                 !.rc = Count(size), !.left = Rest(size, every)]
  BY DEF bdos_search, Statics
<1>5. Count(size) \in Nat /\ Rest(size, every) \in Nat  BY <1>3, CountType, RestType
<1>6. (IF every THEN 0 ELSE s.searchex) \in Nat  BY DEF Statics
<1>7. Found(s) + 1 \in 0 .. Len(Names) + 1 /\ 0 \in 0 .. Byte - 1
  BY <1>2, Positions, FcbAssumption
<1>8. bdos_search(s) \in Statics
  <2> HIDE DEF f, size, every
  <2> QED BY <1>2, <1>4, <1>5, <1>6, <1>7 DEF Statics
<1> QED BY <1>2, <1>3, <1>4, <1>8

\* bdos_search goes on to the next extent of its file.
LEMMA NextExtent ==
    ASSUME NEW s \in Statics, s.left # 0
    PROVE  LET every == s.searchex = Every
               wraps == s.ex + 1 >= EXTCNT
           IN  /\ ~AtEnd(s)
               /\ bdos_search(s) = [s EXCEPT !.ex = IF wraps THEN 0 ELSE s.ex + 1,
                                             !.s2 = IF wraps THEN (s.s2 + 1) % Byte ELSE s.s2,
                                             !.rc = Count(s.left), !.left = Rest(s.left, every)]
               /\ bdos_search(s) \in Statics
<1> DEFINE every == s.searchex = Every
           wraps == s.ex + 1 >= EXTCNT
<1>1. ~AtEnd(s)  BY DEF AtEnd
<1>2. bdos_search(s) = [s EXCEPT !.ex = IF wraps THEN 0 ELSE s.ex + 1,
                                 !.s2 = IF wraps THEN (s.s2 + 1) % Byte ELSE s.s2,
                                 !.rc = Count(s.left), !.left = Rest(s.left, every)]
  BY <1>1 DEF bdos_search, Statics
<1>3. s.left \in Nat /\ s.ex \in Nat /\ s.s2 \in 0 .. Byte - 1 /\ Byte \in Nat \ {0}
  BY FcbAssumption DEF Statics
<1>4. Count(s.left) \in Nat /\ Rest(s.left, every) \in Nat  BY <1>3, CountType, RestType
<1>5. (IF wraps THEN 0 ELSE s.ex + 1) \in Nat  BY <1>3
<1>6. (s.s2 + 1) % Byte \in 0 .. Byte - 1
  <2>1. s.s2 + 1 \in Nat  BY <1>3
  <2> QED BY <1>3, <2>1, Divided
<1>7. (IF wraps THEN (s.s2 + 1) % Byte ELSE s.s2) \in 0 .. Byte - 1  BY <1>3, <1>6
<1>8. bdos_search(s) \in Statics
  <2> HIDE DEF wraps, every
  <2> QED BY <1>2, <1>4, <1>5, <1>7 DEF Statics
<1> QED BY <1>1, <1>2, <1>8

\* bdos_search keeps the statics within the directory.
LEMMA SearchType == ASSUME TypeOK, NEW s \in Statics
                    PROVE  /\ bdos_search(s) \in Statics /\ bdos_search(s).mask = s.mask
                           /\ ~AtEnd(s) /\ s.left = 0 => bdos_search(s).fno \in Files
<1>1. CASE AtEnd(s)  BY <1>1, Ended DEF Statics
<1>2. CASE ~AtEnd(s) /\ s.left = 0
  <2>1. Names[Found(s)] \in Files /\ bdos_search(s) \in Statics  BY <1>2, NextFile
  <2>2. /\ bdos_search(s).mask = s.mask
        /\ bdos_search(s).fno = Names[Found(s)]
    BY <1>2, <2>1 DEF bdos_search, Statics
  <2> QED BY <2>1, <2>2
<1>3. CASE ~AtEnd(s) /\ s.left # 0  BY <1>3, NextExtent DEF Statics
<1> QED BY <1>1, <1>2, <1>3

\* What bdos_delete leaves of the search.
LEMMA DeleteSearch ==
    ASSUME TypeOK, NEW mask \in Masks, NEW e \in Extents, bdos_delete(mask, e)
    PROVE  /\ search' \in Statics /\ search'.mask = mask
           /\ dir' \in [Files -> [there : BOOLEAN, ro : BOOLEAN, size : Nat]]
           /\ \A n \in Files : dir'[n].size = dir[n].size
           /\ own' = FALSE /\ seen' \in [Files -> Nat] /\ ret' \in {"ok", "error"}
<1> DEFINE first == First(mask, e)
           match == Matching(first)
           stops == {p \in match : Stops(Names[p], e)}
           last == CHOOSE p \in stops : \A q \in stops : p <= q
           gone == IF stops = {} THEN match
                   ELSE {p \in match : p < last \/ (p = last /\ ~dir[Names[p]].ro)}
           found == bdos_search([first EXCEPT !.pos = last])
<1>1. first \in Statics /\ first.mask = mask  BY FirstType DEF First
<1>2. dir' = [n \in Files |-> [dir[n] EXCEPT !.there = @ /\ \A p \in gone : Names[p] # n]]
  BY DEF bdos_delete
<1>3. \A n \in Files : dir[n] \in [there : BOOLEAN, ro : BOOLEAN, size : Nat]
  BY DEF TypeOK
<1>4. /\ dir' \in [Files -> [there : BOOLEAN, ro : BOOLEAN, size : Nat]]
      /\ \A n \in Files : dir'[n].size = dir[n].size
  <2> HIDE DEF gone
  <2>1. \A n \in Files : (dir[n].there /\ \A p \in gone : Names[p] # n) \in BOOLEAN
    OBVIOUS
  <2> QED BY <1>2, <1>3, <2>1
<1>5. own' = FALSE /\ seen' \in [Files -> Nat] /\ ret' \in {"ok", "error"}
  BY DEF bdos_delete, Restart
<1>6. CASE stops = {}
  <2>1. search' = [first EXCEPT !.pos = Len(Names) + 1]
    BY <1>6, Zenon DEF bdos_delete, Restart
  <2>2. Len(Names) + 1 \in 0 .. Len(Names) + 1  BY Positions
  <2>3. search' \in Statics /\ search'.mask = mask
    <3> HIDE DEF first
    <3> QED BY <1>1, <2>1, <2>2 DEF Statics
  <2> QED BY <1>4, <1>5, <2>3
<1>7. CASE stops # {}
  <2>1. search' = IF dir[Names[last]].ro THEN found ELSE bdos_search(found)
    BY <1>7, Zenon DEF bdos_delete, Restart
  <2>2. stops \subseteq 1 .. Len(Names) /\ stops \subseteq Nat  BY Positions DEF Matching
  <2>3. \E p \in stops : \A q \in stops : p <= q
    <3> HIDE DEF stops
    <3> QED BY <1>7, <2>2, Least
  <2>4. last \in stops  BY <2>3
  <2>5. last \in 0 .. Len(Names) + 1
    <3> HIDE DEF last, stops
    <3> QED BY <2>2, <2>4, Positions
  <2>6. [first EXCEPT !.pos = last] \in Statics /\ [first EXCEPT !.pos = last].mask = mask
    <3> HIDE DEF first, last
    <3> QED BY <1>1, <2>5 DEF Statics
  <2>7. found \in Statics /\ found.mask = mask
    <3> HIDE DEF first, last
    <3> QED BY <2>6, SearchType
  <2>8. bdos_search(found) \in Statics /\ bdos_search(found).mask = mask
    <3> HIDE DEF found
    <3> QED BY <2>7, SearchType
  <2> HIDE DEF found, last
  <2> QED BY <1>4, <1>5, <2>1, <2>7, <2>8
<1> QED BY <1>6, <1>7

\* The deletion of one directory entry after the other: who is removed.
LEMMA DeleteGone ==
    ASSUME TypeOK, NEW mask \in Masks, NEW e \in Extents, bdos_delete(mask, e),
           NEW n \in Files, dir[n].there
    PROVE  /\ ~dir'[n].there => ~dir[n].ro /\ n \in mask
           /\ ret' = "ok" => (dir'[n].there <=> n \notin mask)
<1> DEFINE first == First(mask, e)
           match == Matching(first)
           stops == {p \in match : Stops(Names[p], e)}
           last == CHOOSE p \in stops : \A q \in stops : p <= q
           gone == IF stops = {} THEN match
                   ELSE {p \in match : p < last \/ (p = last /\ ~dir[Names[p]].ro)}
<1>1. dir'[n] = [dir[n] EXCEPT !.there = @ /\ \A p \in gone : Names[p] # n]
  BY DEF bdos_delete
<1>2. dir[n] \in [there : BOOLEAN, ro : BOOLEAN, size : Nat]  BY DEF TypeOK
<1>3. dir'[n].there <=> \A p \in gone : Names[p] # n
  <2> HIDE DEF gone
  <2> QED BY <1>1, <1>2
<1>4. match = {p \in 1 .. Len(Names) : dir[Names[p]].there /\ Names[p] \in mask}
  BY Positions DEF Matching, First
<1>5. stops \subseteq Nat /\ match \subseteq Nat  BY <1>4, Positions
<1>6. stops # {} => last \in stops /\ \A q \in stops : last <= q
  <2>1. stops # {} => \E p \in stops : \A q \in stops : p <= q
    <3> HIDE DEF stops
    <3> QED BY <1>5, Least
  <2> QED BY <2>1
<1>7. \A p \in gone : p \in match /\ ~dir[Names[p]].ro
  <2> SUFFICES ASSUME NEW p \in gone  PROVE p \in match /\ ~dir[Names[p]].ro
    OBVIOUS
  <2>1. CASE stops = {}  BY <2>1 DEF Stops
  <2>2. CASE stops # {}
    <3>1. p \in match /\ (p < last \/ (p = last /\ ~dir[Names[p]].ro))  BY <2>2
    <3>2. CASE p = last /\ ~dir[Names[p]].ro  BY <3>1, <3>2
    <3>3. CASE p < last
      <4>1. p \notin stops
        <5> HIDE DEF match, stops, last, gone
        <5>1. SUFFICES ASSUME p \in stops  PROVE FALSE
          OBVIOUS
        <5>2. last \in Nat /\ p \in Nat /\ last <= p  BY <1>5, <1>6, <2>2, <5>1
        <5> QED BY <3>3, <5>2
      <4>2. ~ Stops(Names[p], e)
        <5> HIDE DEF match, last, gone
        <5> QED BY <3>1, <4>1, Zenon
      <4> QED BY <3>1, <4>2 DEF Stops
    <3> QED BY <3>1, <3>2, <3>3
  <2> QED BY <2>1, <2>2
<1>8. ~dir'[n].there => ~dir[n].ro /\ n \in mask
  <2> HIDE DEF gone
  <2> QED BY <1>3, <1>4, <1>7
<1>9. ASSUME ret' = "ok"  PROVE dir'[n].there <=> n \notin mask
  <2>1. stops = {}
    <3> HIDE DEF gone, last
    <3>1. stops # {} => ret' = "error"  BY Zenon DEF bdos_delete
    <3> QED BY <1>9, <3>1
  <2>2. gone = match  BY <2>1
  <2>3. \E p \in 1 .. Len(Names) : n = Names[p]  BY Positions
  <2> HIDE DEF gone, match
  <2> QED BY <1>3, <1>4, <2>2, <2>3
<1> QED BY <1>8, <1>9

\* Every call does.
LEMMA NextType == ASSUME TypeOK, [Next]_vars
                  PROVE  TypeOK'
<1>1. ASSUME NEW mask \in Masks, NEW e \in Extents, SFIRST(mask, e)
      PROVE  TypeOK'
  <2> DEFINE first == First(mask, e)
             found == bdos_search(first)
             none == [n \in Files |-> 0]
  <2>1. first \in Statics /\ first.left = 0  BY FirstType DEF First
  <2>2. found \in Statics /\ (~AtEnd(first) => found.fno \in Files)
    <3> HIDE DEF first
    <3> QED BY <2>1, SearchType
  <2>3. /\ search' = found /\ ret' = Ok(first) /\ dir' = dir /\ own' = TRUE
        /\ seen' = IF AtEnd(first) THEN none ELSE [none EXCEPT ![found.fno] = @ + 1]
    BY <1>1 DEF SFIRST, Return
  <2>4. none \in [Files -> Nat]  OBVIOUS
  <2> HIDE DEF first, found, none
  <2>5. seen' \in [Files -> Nat]  BY <2>2, <2>3, <2>4
  <2> QED BY <2>2, <2>3, <2>5 DEF TypeOK, Ok
<1>2. ASSUME NEW mask \in Masks, NEW e \in Extents, OPEN(mask, e)
      PROVE  TypeOK'
  <2>1. bdos_search(First(mask, e)) \in Statics  BY FirstType, SearchType
  <2> QED BY <1>2, <2>1 DEF OPEN, Restart, TypeOK, Ok
<1>3. ASSUME NEW mask \in Masks, NEW e \in Extents, bdos_size(mask, e)
      PROVE  TypeOK'
  <2>1. bdos_search(First(mask, e)) \in Statics  BY FirstType, SearchType
  <2> QED BY <1>3, <2>1 DEF bdos_size, Restart, TypeOK, Ok
<1>4. ASSUME NEW mask \in Masks, NEW e \in Extents, bdos_delete(mask, e)
      PROVE  TypeOK'
  <2>1. /\ search' \in Statics
        /\ dir' \in [Files -> [there : BOOLEAN, ro : BOOLEAN, size : Nat]]
        /\ own' = FALSE /\ seen' \in [Files -> Nat] /\ ret' \in {"ok", "error"}
    BY <1>4, DeleteSearch
  <2> QED BY <2>1 DEF TypeOK
<1>5. ASSUME SNEXT  PROVE TypeOK'
  <2>1. search' = bdos_search(search) /\ ret' = Ok(search) /\ dir' = dir /\ own' = own
    BY <1>5 DEF SNEXT, Return
  <2>2. search \in Statics /\ search' \in Statics  BY <2>1, SearchType DEF TypeOK
  <2>3. seen' = seen \/ \E n : seen' = [seen EXCEPT ![n] = @ + 1]
    BY <1>5 DEF SNEXT, Return
  <2>4. seen' \in [Files -> Nat]  BY <2>3 DEF TypeOK
  <2> QED BY <2>1, <2>2, <2>4 DEF TypeOK, Ok
<1>6. CASE UNCHANGED vars  BY <1>6 DEF vars, TypeOK
<1> QED BY <1>1, <1>2, <1>3, <1>4, <1>5, <1>6 DEF Next

\* The statics begin there.
LEMMA InitType == Init => TypeOK
<1> SUFFICES ASSUME Init PROVE TypeOK
  OBVIOUS
<1>1. dir \in [Files -> [there : BOOLEAN, ro : BOOLEAN, size : Nat]]
  BY DirectoryAssumption DEF Init
<1>2. search \in Statics  BY FcbAssumption, Positions DEF Init, Statics
<1> QED BY <1>1, <1>2 DEF Init, TypeOK

\* The statics of bdos_search stay within the directory and their types.
THEOREM SearchTypes == Spec => []TypeOK
  BY InitType, NextType, PTL DEF Spec

\* Deletion is all or nothing as far as a program is told: whatever the order of
\* the names, however many match and whichever of them are read-only.
THEOREM DeletesWhole == Spec => DeleteWhole
<1>1. ASSUME TypeOK, [Next]_vars, NEW n \in Files, dir[n].there
      PROVE  /\ ~dir'[n].there => ~dir[n].ro /\ n \in search'.mask
             /\ dir' # dir /\ ret' = "ok" => (dir'[n].there <=> n \notin search'.mask)
  <2>1. CASE dir' = dir  BY <1>1, <2>1
  <2>2. ASSUME NEW mask \in Masks, NEW e \in Extents, bdos_delete(mask, e)
        PROVE  /\ ~dir'[n].there => ~dir[n].ro /\ n \in search'.mask
               /\ ret' = "ok" => (dir'[n].there <=> n \notin search'.mask)
    <3>1. search'.mask = mask  BY <1>1, <2>2, DeleteSearch
    <3>2. /\ ~dir'[n].there => ~dir[n].ro /\ n \in mask
          /\ ret' = "ok" => (dir'[n].there <=> n \notin mask)
      BY <1>1, <2>2, DeleteGone
    <3> QED BY <3>1, <3>2
  <2>3. dir' = dir \/ \E mask \in Masks, e \in Extents : bdos_delete(mask, e)
    BY <1>1 DEF Next, vars, SFIRST, OPEN, bdos_size, SNEXT, Return
  <2> QED BY <2>1, <2>2, <2>3
<1> DEFINE Whole == \A n \in Files : dir[n].there =>
              /\ ~dir'[n].there => ~dir[n].ro /\ n \in search'.mask
              /\ dir' # dir /\ ret' = "ok" => (dir'[n].there <=> n \notin search'.mask)
<1>2. TypeOK /\ [Next]_vars => [Whole]_vars  BY <1>1
<1> HIDE DEF Whole
<1>3. Spec => [][Whole]_vars  BY <1>2, SearchTypes, PTL DEF Spec
<1> QED BY <1>3 DEF Whole, DeleteWhole

(***************************************************************************)
(* The end of a file: fcb_setrand, then fcb_randoffset.                    *)
(***************************************************************************)
LEMMA Halves == /\ Byte \in Nat /\ Byte \div 2 \in Nat /\ Byte = 2 * (Byte \div 2)
                /\ Byte > 1 /\ (Byte * Byte) \div 2 = (Byte \div 2) * Byte
<1>1. Byte \in Nat \ {0, 1} /\ Byte % 2 = 0  BY FcbAssumption
<1>2. Byte \div 2 \in Nat /\ Byte = 2 * (Byte \div 2) /\ Byte > 1  BY <1>1
<1>3. ASSUME NEW b \in Nat, NEW h \in Nat, b = 2 * h  PROVE (b * b) \div 2 = h * b
  <2>1. h * b \in Nat  BY <1>3, Product
  <2>2. b * b = 2 * (h * b)  BY <1>3, Z3
  <2> QED BY <2>1, <2>2
<1> QED BY <1>1, <1>2, <1>3

\* Below the middle of the first two bytes, the sign of r1 << 8 is not set.
LEMMA SetThenGet == ASSUME NEW n \in Nat, n < (Byte * Byte) \div 2
                    PROVE  fcb_randoffset(fcb_setrand(n)) = n
<1> DEFINE h == Byte \div 2
           q == n \div Byte
           r == n % Byte
<1>1. Byte \in Nat \ {0} /\ h \in Nat /\ Byte = 2 * h /\ Byte > 1 /\ n < h * Byte
  BY Halves
<1>2. q \in Nat /\ r \in 0 .. Byte - 1 /\ n = q * Byte + r  BY <1>1, Divided
<1>3. q < h
  <2> HIDE DEF h, q, r
  <2>1. q * Byte \in Nat  BY <1>1, <1>2, Product
  <2>2. q * Byte < h * Byte  BY <1>1, <1>2, <2>1
  <2> QED BY <1>1, <1>2, <2>2, Before
<1>4. q % Byte = q
  <2> HIDE DEF h, q
  <2>1. q \in 0 .. Byte - 1  BY <1>1, <1>2, <1>3
  <2> QED BY <1>1, <2>1
<1>5. n \div (Byte * Byte) = 0
  <2>1. Byte * Byte \in Nat \ {0} /\ h * Byte <= Byte * Byte
    <3> HIDE DEF h
    <3>1. ASSUME NEW a \in Nat, NEW b \in Nat \ {0}, b = 2 * a
          PROVE  b * b \in Nat \ {0} /\ a * b <= b * b
      BY <3>1, Z3
    <3> QED BY <1>1, <3>1
  <2>2. h * Byte \in Nat  BY <1>1, Product
  <2>3. n < Byte * Byte /\ n = 0 * (Byte * Byte) + n
    <3> DEFINE square == Byte * Byte
    <3> HIDE DEF square, h
    <3>1. square \in Nat /\ n < square  BY <1>1, <2>1, <2>2 DEF square
    <3> QED BY <3>1 DEF square
  <2> DEFINE square == Byte * Byte
  <2>4. square \in Nat \ {0} /\ n \in 0 .. square - 1 /\ n = 0 * square + n
    BY <2>1, <2>3
  <2> HIDE DEF square
  <2>5. n \div square = 0  BY <2>4, Quotient
  <2> QED BY <2>5 DEF square
<1>6. 0 % Byte = 0  BY <1>1
<1>7. fcb_setrand(n) = [r0 |-> r, r1 |-> q, r2 |-> 0]
  BY <1>4, <1>5, <1>6 DEF fcb_setrand
<1>8. fcb_randoffset([r0 |-> r, r1 |-> q, r2 |-> 0]) = (0 * Byte + q) * Byte + r
  BY <1>3 DEF fcb_randoffset
<1>9. 0 * Byte + q = q  BY <1>1, <1>2
<1> QED BY <1>2, <1>7, <1>8, <1>9

SizeSet == sized # None => sized \in Files /\ rand = fcb_setrand(dir[sized].size)

\* The random fields stay those of the file that was sized.
LEMMA SizeSetStep == ASSUME TypeOK, SizeSet, [Next]_vars
                     PROVE  SizeSet'
<1>1. CASE rand' = rand /\ sized' = sized /\ \A n \in Files : dir'[n].size = dir[n].size
  BY <1>1 DEF SizeSet
<1>2. ASSUME NEW mask \in Masks, NEW e \in Extents, bdos_size(mask, e)
      PROVE  SizeSet'
  <2>1. CASE AtEnd(First(mask, e))
    BY <1>2, <2>1, <1>1 DEF bdos_size
  <2>2. CASE ~AtEnd(First(mask, e))
    <3>1. /\ sized' = bdos_search(First(mask, e)).fno /\ dir' = dir
          /\ rand' = fcb_setrand(dir[sized'].size)
      BY <1>2, <2>2 DEF bdos_size, Restart
    <3>2. First(mask, e) \in Statics /\ First(mask, e).left = 0  BY FirstType DEF First
    <3>3. sized' \in Files  BY <2>2, <3>1, <3>2, SearchType
    <3> QED BY <3>1, <3>3 DEF SizeSet
  <2> QED BY <2>1, <2>2
<1>3. ASSUME NEW mask \in Masks, NEW e \in Extents, bdos_delete(mask, e)
      PROVE  SizeSet'
  <2>1. rand' = rand /\ sized' = sized  BY <1>3 DEF bdos_delete
  <2>2. \A n \in Files : dir'[n].size = dir[n].size  BY <1>3, DeleteSearch
  <2> QED BY <1>1, <2>1, <2>2
<1>4. \/ rand' = rand /\ sized' = sized /\ dir' = dir
      \/ \E mask \in Masks, e \in Extents : bdos_size(mask, e) \/ bdos_delete(mask, e)
  BY DEF Next, vars, SFIRST, OPEN, SNEXT, Return
<1> QED BY <1>1, <1>2, <1>3, <1>4

\* After BDOS_SIZE the random fields of the FCB address the end of the file.
THEOREM FindsEnd == Spec => []EndIsFound
<1>1. Init => SizeSet  BY DEF Init, SizeSet
<1>2. TypeOK /\ SizeSet => EndIsFound
  <2> SUFFICES ASSUME TypeOK, SizeSet, sized # None,
                      dir[sized].size < (Byte * Byte) \div 2
               PROVE  fcb_randoffset(rand) = dir[sized].size
    BY DEF EndIsFound
  <2>1. dir[sized].size \in Nat  BY DEF TypeOK, SizeSet
  <2> QED BY <2>1, SetThenGet DEF SizeSet
<1>3. TypeOK /\ SizeSet /\ [Next]_vars => SizeSet'  BY SizeSetStep
<1> QED BY <1>1, <1>2, <1>3, SearchTypes, PTL DEF Spec

(***************************************************************************)
(* A listing: SFIRST and SNEXT with no other search between them.          *)
(*                                                                         *)
(* The names before the position have been told with every entry a program *)
(* asks for, but for the last of them while records are left of it; those  *)
(* from the position on have not been told at all.                         *)
(***************************************************************************)
Wants(s, n) == IF n \notin s.mask \/ ~dir[n].there THEN 0
               ELSE IF s.searchex = Every /\ dir[n].size > 0
               THEN (dir[n].size + RECCNT - 1) \div RECCNT
               ELSE 1

Unfinished(s, told, n) == /\ n \in s.mask /\ dir[n].there /\ s.searchex = Every
                          /\ dir[n].size = told[n] * RECCNT + s.left

Told(s, told) ==
    /\ s.pos \in 1 .. Len(Names) + 1
    /\ \A p \in 1 .. Len(Names) : p >= s.pos => told[Names[p]] = 0
    /\ \A p \in 1 .. Len(Names) :
          p < s.pos /\ ~(s.left > 0 /\ p = s.pos - 1) => told[Names[p]] = Wants(s, Names[p])
    /\ s.left > 0 => /\ s.pos > 1 /\ s.fno = Names[s.pos - 1]
                     /\ Unfinished(s, told, s.fno)

Listing == own => /\ Told(search, seen)
                  /\ ret = "error" => search.left = 0 /\ search.pos = Len(Names) + 1

\* The entries of a file of k whole extents and a last one.
LEMMA EntriesOf == ASSUME NEW k \in Nat, NEW left \in 1 .. RECCNT, NEW size \in Nat,
                          size = k * RECCNT + left
                   PROVE  (size + RECCNT - 1) \div RECCNT = k + 1
<1>1. RECCNT \in Nat \ {0}  BY FcbAssumption
<1>2. k * RECCNT \in Nat /\ (k + 1) * RECCNT = k * RECCNT + RECCNT  BY <1>1, Z3
<1> DEFINE m == k * RECCNT
           m1 == (k + 1) * RECCNT
<1>3. /\ size + RECCNT - 1 \in Nat /\ left - 1 \in 0 .. RECCNT - 1
      /\ size + RECCNT - 1 = m1 + (left - 1)
  <2>1. m \in Nat /\ m1 = m + RECCNT /\ size = m + left  BY <1>2
  <2> HIDE DEF m, m1
  <2> QED BY <1>1, <2>1
<1> QED BY <1>1, <1>3, Quotient

\* Some of its entries are not all of them.
LEMMA NotYetAll == ASSUME NEW k \in Nat, NEW left \in Nat \ {0}, NEW size \in Nat,
                          size = k * RECCNT + left
                   PROVE  k <= (size + RECCNT - 1) \div RECCNT
<1>1. RECCNT \in Nat \ {0}  BY FcbAssumption
<1> DEFINE a == size + RECCNT - 1
           q == a \div RECCNT
           m == k * RECCNT
<1>2. m \in Nat /\ a \in Nat /\ m <= a  
  <2>1. m \in Nat  BY <1>1, Product
  <2> HIDE DEF m
  <2> QED BY <1>1, <2>1 DEF m
<1>3. q \in Nat /\ (a % RECCNT) \in 0 .. RECCNT - 1 /\ a = q * RECCNT + (a % RECCNT)
  <2> HIDE DEF a
  <2> QED BY <1>1, <1>2, Divided DEF q
<1>4. q * RECCNT \in Nat /\ (q + 1) * RECCNT = q * RECCNT + RECCNT
  <2> HIDE DEF q
  <2> QED BY <1>1, <1>3, Z3
<1>5. m < (q + 1) * RECCNT
  <2> DEFINE n == q * RECCNT
             n1 == (q + 1) * RECCNT
             r == a % RECCNT
  <2>1. n \in Nat /\ n1 = n + RECCNT /\ r \in 0 .. RECCNT - 1 /\ a = n + r  BY <1>3, <1>4
  <2> HIDE DEF n, n1, r, m, a, q
  <2>2. m < n1  BY <1>1, <1>2, <2>1
  <2> QED BY <2>2 DEF n1
<1>6. k < q + 1
  <2> HIDE DEF q, a
  <2> QED BY <1>1, <1>3, <1>5, Before
<1>7. k <= q
  <2> HIDE DEF q
  <2> QED BY <1>3, <1>6
<1> QED BY <1>7 DEF q, a

\* A listing that has told of what it passed is complete when it ends.
LEMMA ListingIs == TypeOK /\ Listing => ListingComplete
<1> SUFFICES ASSUME TypeOK, Listing, own, NEW n \in Files
             PROVE  /\ seen[n] <= Entries(n)
                    /\ ret = "error" => seen[n] = Entries(n)
  BY DEF ListingComplete
<1>1. PICK p \in 1 .. Len(Names) : n = Names[p]  BY Positions
<1>2. /\ search.pos \in 1 .. Len(Names) + 1 /\ search.left \in Nat
      /\ dir[n].size \in Nat /\ seen[n] \in Nat /\ RECCNT \in Nat \ {0}
  BY FcbAssumption DEF Listing, Told, TypeOK, Statics
<1>3. Entries(n) >= 0 /\ Entries(n) = Wants(search, n)
  <2> DEFINE a == dir[n].size + RECCNT - 1
             q == a \div RECCNT
  <2>1. a \in Nat  BY <1>2
  <2>2. q \in Nat
    <3> HIDE DEF a
    <3> QED BY <1>2, <2>1, Divided
  <2>3. Entries(n) = (IF n \notin search.mask \/ ~dir[n].there THEN 0
                     ELSE IF all /\ dir[n].size > 0 THEN q ELSE 1)
    BY DEF Entries
  <2>4. Entries(n) >= 0
    <3> HIDE DEF q
    <3> QED BY <2>2, <2>3
  <2> QED BY <2>4 DEF Entries, Wants, all
<1>4. CASE p >= search.pos
  <2>1. seen[n] = 0  BY <1>1, <1>4 DEF Listing, Told
  <2>2. ret # "error"  BY <1>1, <1>2, <1>4, Positions DEF Listing
  <2> QED BY <1>3, <2>1, <2>2
<1>5. CASE p < search.pos /\ ~(search.left > 0 /\ p = search.pos - 1)
  <2>1. seen[n] = Entries(n)  BY <1>1, <1>3, <1>5 DEF Listing, Told
  <2> QED BY <1>2, <2>1
<1>6. CASE search.left > 0 /\ p = search.pos - 1
  <2>1. ret # "error"  BY <1>2, <1>6 DEF Listing
  <2>2. Unfinished(search, seen, n)  BY <1>1, <1>6 DEF Listing, Told
  <2>3. dir[n].size = seen[n] * RECCNT + search.left  BY <2>2 DEF Unfinished
  <2>4. seen[n] * RECCNT \in Nat  BY <1>2, Product
  <2>5. dir[n].size > 0
    <3> DEFINE m == seen[n] * RECCNT
    <3>1. m \in Nat /\ dir[n].size = m + search.left  BY <2>3, <2>4
    <3> HIDE DEF m
    <3> QED BY <1>2, <1>6, <3>1
  <2>6. Entries(n) = (dir[n].size + RECCNT - 1) \div RECCNT
    BY <2>2, <2>5 DEF Entries, Unfinished, all
  <2>7. search.left \in Nat \ {0}  BY <1>2, <1>6
  <2>8. seen[n] <= (dir[n].size + RECCNT - 1) \div RECCNT
    BY <1>2, <2>3, <2>7, NotYetAll
  <2> QED BY <2>1, <2>6, <2>8
<1> QED BY <1>1, <1>2, <1>4, <1>5, <1>6

\* A new search has told of no file.
LEMMA ToldNothing == ASSUME TypeOK, NEW mask \in Masks, NEW e \in Extents
                     PROVE  Told(First(mask, e), [n \in Files |-> 0])
  BY Positions DEF Told, First

\* The call after the last entry finds the names that are left without a match.
LEMMA ToldEnd == ASSUME TypeOK, NEW s \in Statics, NEW told \in [Files -> Nat],
                        Told(s, told), AtEnd(s)
                 PROVE  /\ Told(bdos_search(s), told)
                        /\ bdos_search(s).left = 0 /\ bdos_search(s).pos = Len(Names) + 1
<1> DEFINE new == bdos_search(s)
<1>1. /\ new \in Statics /\ new.pos = Len(Names) + 1 /\ new.left = 0
      /\ new.mask = s.mask /\ new.searchex = s.searchex
  <2>1. s.left = 0 /\ s.pos # 0 /\ s.pos \in 1 .. Len(Names) + 1  BY DEF AtEnd, Told
  <2> QED BY <2>1, Ended DEF Statics
<1>2. \A p \in 1 .. Len(Names) : told[Names[p]] = Wants(s, Names[p])
  <2> SUFFICES ASSUME NEW p \in 1 .. Len(Names)  PROVE told[Names[p]] = Wants(s, Names[p])
    OBVIOUS
  <2>1. s.left = 0 /\ s.pos \in 1 .. Len(Names) + 1  BY DEF AtEnd, Told
  <2>2. CASE p < s.pos  BY <2>1, <2>2 DEF Told
  <2>3. CASE p >= s.pos
    <3>1. p \notin Matching(s)  BY DEF AtEnd
    <3>2. Names[p] \notin s.mask \/ ~dir[Names[p]].there
      BY <2>1, <2>3, <3>1, Positions DEF Matching
    <3>3. told[Names[p]] = 0  BY <2>3 DEF Told
    <3> QED BY <3>2, <3>3 DEF Wants
  <2> QED BY <2>1, <2>2, <2>3, Positions
<1>3. \A n : Wants(new, n) = Wants(s, n)  BY <1>1 DEF Wants
<1> HIDE DEF new
<1>4. Told(new, told)
  BY <1>1, <1>2, <1>3, Positions DEF Told
<1> QED BY <1>1, <1>4 DEF new

\* The first entry of the next file that matches.
LEMMA ToldFile ==
    ASSUME TypeOK, NEW s \in Statics, NEW told \in [Files -> Nat],
           Told(s, told), ~AtEnd(s), s.left = 0
    PROVE  Told(bdos_search(s), [told EXCEPT ![bdos_search(s).fno] = @ + 1])
<1> DEFINE new == bdos_search(s)
           f == Names[Found(s)]
           size == dir[f].size
           more == [told EXCEPT ![new.fno] = @ + 1]
<1>1. /\ new.pos = Found(s) + 1 /\ new.fno = f /\ new.left = Rest(size, s.searchex = Every)
      /\ new.mask = s.mask /\ new.searchex = s.searchex
  BY NextFile DEF bdos_search, Statics
<1>2. /\ Found(s) \in Matching(s) /\ Found(s) \in 1 .. Len(Names) /\ f \in Files
      /\ size \in Nat /\ \A q \in Matching(s) : Found(s) <= q
  BY NextFile
<1>3. s.pos \in 1 .. Len(Names) + 1 /\ s.pos <= Found(s) /\ dir[f].there /\ f \in s.mask
  BY <1>2 DEF Told, Matching
<1>4. /\ \A p \in 1 .. Len(Names) : p # Found(s) => more[Names[p]] = told[Names[p]]
      /\ more[f] = 1
  <2>1. told[f] = 0  BY <1>2, <1>3 DEF Told
  <2>2. \A p \in 1 .. Len(Names) : p # Found(s) => Names[p] # f
    BY <1>2, Positions, DirectoryAssumption
  <2> HIDE DEF f
  <2> QED BY <1>1, <1>2, <2>1, <2>2, Positions
<1>5. \A n : Wants(new, n) = Wants(s, n)  BY <1>1 DEF Wants
<1>6. \A p \in 1 .. Len(Names) : p < Found(s) => more[Names[p]] = Wants(s, Names[p])
  <2> SUFFICES ASSUME NEW p \in 1 .. Len(Names), p < Found(s)
               PROVE  told[Names[p]] = Wants(s, Names[p])
    BY <1>2, <1>4
  <2>1. CASE p < s.pos  BY <2>1 DEF Told
  <2>2. CASE p >= s.pos
    <3>1. p \notin Matching(s)  BY <1>2
    <3>2. Names[p] \notin s.mask \/ ~dir[Names[p]].there
      BY <1>3, <2>2, <3>1, Positions DEF Matching
    <3>3. told[Names[p]] = 0  BY <2>2 DEF Told
    <3> QED BY <3>2, <3>3 DEF Wants
  <2> QED BY <1>3, <2>1, <2>2
<1>7. /\ Rest(size, s.searchex = Every) \in Nat
      /\ Rest(size, s.searchex = Every) > 0 =>
            s.searchex = Every /\ size = 1 * RECCNT + Rest(size, s.searchex = Every)
  <2> HIDE DEF size
  <2> QED BY <1>2, FcbAssumption DEF Rest
<1>8. Rest(size, s.searchex = Every) = 0 => Wants(s, f) = 1
  <2> SUFFICES ASSUME Rest(size, s.searchex = Every) = 0, s.searchex = Every, size > 0
               PROVE  (size + RECCNT - 1) \div RECCNT = 1
    BY <1>3 DEF Wants
  <2>1. size <= RECCNT /\ RECCNT \in Nat \ {0}
    <3> HIDE DEF size
    <3> QED BY <1>2, RestType, FcbAssumption DEF Rest
  <2>2. size \in 1 .. RECCNT /\ size = 0 * RECCNT + size  BY <1>2, <2>1
  <2> HIDE DEF size
  <2>3. (size + RECCNT - 1) \div RECCNT = 0 + 1  BY <1>2, <2>2, EntriesOf
  <2> QED BY <2>3
<1> HIDE DEF new, f, more, size
<1>9. new.left > 0 => Unfinished(new, more, f)
  BY <1>1, <1>3, <1>4, <1>7 DEF Unfinished, size
<1>10. \A p \in 1 .. Len(Names) :
          p < new.pos /\ ~(new.left > 0 /\ p = new.pos - 1) => more[Names[p]] = Wants(new, Names[p])
  <2> SUFFICES ASSUME NEW p \in 1 .. Len(Names),
                      p < new.pos, ~(new.left > 0 /\ p = new.pos - 1)
               PROVE  more[Names[p]] = Wants(s, Names[p])
    BY <1>5
  <2>1. CASE p < Found(s)  BY <1>6, <2>1
  <2>2. CASE p = Found(s)
    <3>1. new.left = 0  BY <1>1, <1>2, <1>7, <2>2
    <3> QED BY <1>1, <1>4, <1>8, <2>2, <3>1 DEF f
  <2> QED BY <1>1, <1>2, <2>1, <2>2
<1>11. \A p \in 1 .. Len(Names) : p >= new.pos => more[Names[p]] = 0
  BY <1>1, <1>2, <1>3, <1>4 DEF Told
<1>12. new.pos \in 1 .. Len(Names) + 1 /\ new.pos > 1 /\ new.fno = Names[new.pos - 1]
  BY <1>1, <1>2, Positions DEF f
<1> QED BY <1>1, <1>9, <1>10, <1>11, <1>12 DEF Told, new, more

\* The next entry of the file that is being told.
LEMMA ToldExtent ==
    ASSUME TypeOK, NEW s \in Statics, NEW told \in [Files -> Nat],
           Told(s, told), s.left # 0
    PROVE  Told(bdos_search(s), [told EXCEPT ![bdos_search(s).fno] = @ + 1])
<1> DEFINE new == bdos_search(s)
           f == s.fno
           k == told[f]
           size == dir[f].size
           more == [told EXCEPT ![new.fno] = @ + 1]
<1>1. /\ new.pos = s.pos /\ new.fno = f /\ new.left = Rest(s.left, s.searchex = Every)
      /\ new.mask = s.mask /\ new.searchex = s.searchex
  BY NextExtent DEF bdos_search, Statics
<1>2. /\ s.pos \in 1 .. Len(Names) + 1 /\ s.pos > 1 /\ f = Names[s.pos - 1]
      /\ f \in s.mask /\ dir[f].there /\ s.searchex = Every /\ size = k * RECCNT + s.left
      /\ s.left \in Nat \ {0}
  BY DEF Told, Unfinished, Statics
<1>3. s.pos - 1 \in 1 .. Len(Names) /\ f \in Files /\ k \in Nat /\ size \in Nat
  BY <1>2, Positions DEF TypeOK
<1>4. /\ \A p \in 1 .. Len(Names) : p # s.pos - 1 => more[Names[p]] = told[Names[p]]
      /\ more[f] = k + 1
  <2>1. \A p \in 1 .. Len(Names) : p # s.pos - 1 => Names[p] # f
    BY <1>2, <1>3, Positions, DirectoryAssumption
  <2> QED BY <1>1, <1>3, <2>1, Positions
<1>5. \A n : Wants(new, n) = Wants(s, n)  BY <1>1 DEF Wants
<1>6. new.left \in Nat /\ (new.left > 0 => s.left = new.left + RECCNT) /\ RECCNT \in Nat \ {0}
  BY <1>1, <1>2, RestType, FcbAssumption
<1> HIDE DEF new, k, more, size
<1>7. new.left > 0 => Unfinished(new, more, f)
  <2> SUFFICES ASSUME new.left > 0  PROVE size = (k + 1) * RECCNT + new.left
    BY <1>1, <1>2, <1>4 DEF Unfinished, size
  <2>1. k * RECCNT \in Nat /\ (k + 1) * RECCNT = k * RECCNT + RECCNT  BY <1>3, <1>6, Z3
  <2> DEFINE m == k * RECCNT
             m1 == (k + 1) * RECCNT
  <2>2. m \in Nat /\ m1 = m + RECCNT /\ size = m + s.left  BY <1>2, <2>1
  <2> HIDE DEF m, m1
  <2>3. size = m1 + new.left  BY <1>6, <2>2
  <2> QED BY <2>3 DEF m1
<1>8. new.left = 0 => Wants(s, f) = k + 1
  <2> SUFFICES ASSUME new.left = 0  PROVE Wants(s, f) = k + 1
    OBVIOUS
  <2>1. s.left \in 1 .. RECCNT  BY <1>1, <1>2, <1>6 DEF Rest
  <2>2. (size + RECCNT - 1) \div RECCNT = k + 1  BY <1>2, <1>3, <2>1, EntriesOf
  <2>3. size > 0
    <3>1. k * RECCNT \in Nat  BY <1>3, <1>6, Product
    <3> DEFINE m == k * RECCNT
    <3>2. m \in Nat /\ size = m + s.left  BY <1>2, <3>1
    <3> HIDE DEF m
    <3> QED BY <1>2, <3>2
  <2> QED BY <1>2, <2>2, <2>3 DEF Wants, size
<1>9. \A p \in 1 .. Len(Names) :
         p < new.pos /\ ~(new.left > 0 /\ p = new.pos - 1) => more[Names[p]] = Wants(new, Names[p])
  <2> SUFFICES ASSUME NEW p \in 1 .. Len(Names),
                      p < new.pos, ~(new.left > 0 /\ p = new.pos - 1)
               PROVE  more[Names[p]] = Wants(s, Names[p])
    BY <1>5
  <2>1. CASE p = s.pos - 1  BY <1>1, <1>2, <1>4, <1>6, <1>8, <2>1
  <2>2. CASE p # s.pos - 1
    <3>1. told[Names[p]] = Wants(s, Names[p])  BY <1>1, <2>2 DEF Told
    <3> QED BY <1>4, <2>2, <3>1
  <2> QED BY <2>1, <2>2
<1>10. \A p \in 1 .. Len(Names) : p >= new.pos => more[Names[p]] = 0
  <2> SUFFICES ASSUME NEW p \in 1 .. Len(Names), p >= new.pos  PROVE more[Names[p]] = 0
    OBVIOUS
  <2>1. told[Names[p]] = 0 /\ p # s.pos - 1  BY <1>1, <1>2 DEF Told
  <2> QED BY <1>4, <2>1
<1> QED BY <1>1, <1>2, <1>7, <1>9, <1>10 DEF Told, new, more

\* Every call keeps account of what was told.
LEMMA ListingStep == ASSUME TypeOK, Listing, [Next]_vars
                     PROVE  Listing'
<1> DEFINE none == [n \in Files |-> 0]
\* One call of bdos_search in a listing.
<1>1. ASSUME NEW s \in Statics, NEW told \in [Files -> Nat], Told(s, told),
             Return(s, told), own' = TRUE
      PROVE  Listing'
  <2> DEFINE new == bdos_search(s)
             more == IF AtEnd(s) THEN told ELSE [told EXCEPT ![new.fno] = @ + 1]
  <2>1. search' = new /\ seen' = more /\ ret' = Ok(s) /\ dir' = dir
    BY <1>1 DEF Return
  <2>2. /\ Told(new, more)
        /\ AtEnd(s) => new.left = 0 /\ new.pos = Len(Names) + 1
    <3>1. CASE AtEnd(s)  BY <1>1, <3>1, ToldEnd
    <3>2. CASE ~AtEnd(s) /\ s.left = 0  BY <1>1, <3>2, ToldFile
    <3>3. CASE ~AtEnd(s) /\ s.left # 0  BY <1>1, <3>3, ToldExtent
    <3> QED BY <3>1, <3>2, <3>3
  <2>3. ret' = "error" => AtEnd(s)  BY <2>1 DEF Ok
  <2> HIDE DEF new, more
  <2>4. Told(search, seen)'
    BY <2>1, <2>2 DEF Told, Unfinished, Wants
  <2> QED BY <2>1, <2>2, <2>3, <2>4 DEF Listing
<1>2. ASSUME NEW mask \in Masks, NEW e \in Extents, SFIRST(mask, e)
      PROVE  Listing'
  <2>1. First(mask, e) \in Statics /\ Told(First(mask, e), none) /\ none \in [Files -> Nat]
    BY FirstType, ToldNothing
  <2>2. Return(First(mask, e), none) /\ own' = TRUE  BY <1>2 DEF SFIRST
  <2> HIDE DEF none
  <2> QED BY <1>1, <2>1, <2>2
<1>3. ASSUME SNEXT, own  PROVE Listing'
  <2>1. Return(search, seen) /\ own' = TRUE  BY <1>3 DEF SNEXT, TypeOK
  <2>2. Told(search, seen)  BY <1>3 DEF Listing
  <2> QED BY <1>1, <2>1, <2>2 DEF TypeOK
<1>4. CASE own' = FALSE  BY <1>4 DEF Listing
<1>5. ASSUME NEW mask \in Masks, NEW e \in Extents,
             OPEN(mask, e) \/ bdos_size(mask, e) \/ bdos_delete(mask, e)
      PROVE  own' = FALSE
  BY <1>5, DeleteSearch DEF OPEN, bdos_size, Restart
<1>6. ASSUME SNEXT, ~own  PROVE own' = FALSE
  BY <1>6 DEF SNEXT, TypeOK
<1>7. CASE UNCHANGED vars
  BY <1>7 DEF vars, Listing, Told, Unfinished, Wants
<1> QED BY <1>2, <1>3, <1>4, <1>5, <1>6, <1>7 DEF Next

\* A listing tells of every file that matches and of each of its extents exactly
\* once, and ends after the last, however long the directory and the files.
THEOREM ListsAll == Spec => []ListingComplete
<1>1. Init => Listing  BY DEF Init, Listing
<1>2. TypeOK /\ Listing => ListingComplete  BY ListingIs
<1>3. TypeOK /\ Listing /\ [Next]_vars => Listing'  BY ListingStep
<1> QED BY <1>1, <1>2, <1>3, SearchTypes, PTL DEF Spec

(***************************************************************************)
(* The extent and the module of an entry.                                  *)
(***************************************************************************)
Number(s) == s.s2 * EXTCNT + s.ex
Limit == Byte * EXTCNT * RECCNT

\* What has been told of the file ends in the extent of this entry, or at its
\* end when records are left.
Placed(s) ==
    LET size == dir[s.fno].size
        start == Number(s) * RECCNT
        done == size - s.left
    IN  s.searchex = Every /\ size \in 1 .. Limit =>
            /\ s.ex < EXTCNT
            /\ start < done /\ done <= start + RECCNT
            /\ start + s.rc <= done
            /\ s.left > 0 => done = start + RECCNT

Entry == own => /\ ret \in {"ok", "error"}
                /\ ret = "ok" => Placed(search)

\* The number of an extent and its first record are numbers.
LEMMA NumberType == ASSUME NEW s \in Statics
                    PROVE  /\ Number(s) \in Nat /\ Number(s) * RECCNT \in Nat
                           /\ (Number(s) + 1) * RECCNT = Number(s) * RECCNT + RECCNT
<1>1. s.s2 \in Nat /\ s.ex \in Nat /\ EXTCNT \in Nat /\ RECCNT \in Nat
  BY FcbAssumption DEF Statics
<1>2. s.s2 * EXTCNT \in Nat  BY <1>1, Product
<1> DEFINE m == s.s2 * EXTCNT
<1>3. Number(s) \in Nat
  <2>1. m \in Nat /\ Number(s) = m + s.ex  BY <1>2 DEF Number
  <2> HIDE DEF m
  <2> QED BY <1>1, <2>1
<1>4. ASSUME NEW a \in Nat, NEW b \in Nat  PROVE a * b \in Nat /\ (a + 1) * b = a * b + b
  BY Z3
<1> QED BY <1>1, <1>3, <1>4

\* An entry that is placed is where its records are.
LEMMA PlacedIs == TypeOK /\ Entry => EntryIsPosition
<1> DEFINE size == dir[search.fno].size
           start == Number(search) * RECCNT
           start0 == fcb_seqoffset([s2 |-> search.s2, ex |-> search.ex, cr |-> 0])
           done == size - search.left
<1> SUFFICES ASSUME TypeOK, Entry, own, all, ret = "ok", size \in 1 .. Limit
             PROVE  /\ done \in start0 + 1 .. start0 + RECCNT
                    /\ start0 + search.rc <= done
                    /\ search.left > 0 => done = start0 + RECCNT
  BY DEF EntryIsPosition, Limit
<1>1. search \in Statics  BY DEF TypeOK
<1>2. start \in Nat /\ start0 = start + 0  BY <1>1, NumberType DEF fcb_seqoffset, Number
<1>3. start0 = start
  <2> HIDE DEF start, start0
  <2> QED BY <1>2
<1>4. /\ start < done /\ done <= start + RECCNT /\ start + search.rc <= done
      /\ search.left > 0 => done = start + RECCNT
  BY DEF Entry, Placed, all
<1>5. size \in Nat /\ search.left \in Nat /\ RECCNT \in Nat /\ search.rc \in Nat
  BY <1>1, FcbAssumption DEF Statics
<1>6. done \in Int
  <2> HIDE DEF size
  <2> QED BY <1>5
<1> HIDE DEF start, start0, done, size
<1> QED BY <1>2, <1>3, <1>4, <1>5, <1>6

\* The first entry of a file is placed.
LEMMA PlacedFile == ASSUME TypeOK, NEW s \in Statics, ~AtEnd(s), s.left = 0
                    PROVE  Placed(bdos_search(s))
<1> DEFINE new == bdos_search(s)
           size == dir[new.fno].size
           rest == Rest(size, TRUE)
<1> SUFFICES ASSUME new.searchex = Every, size \in 1 .. Limit
             PROVE  /\ new.ex < EXTCNT
                    /\ Number(new) * RECCNT < size - new.left
                    /\ size - new.left <= Number(new) * RECCNT + RECCNT
                    /\ Number(new) * RECCNT + new.rc <= size - new.left
                    /\ new.left > 0 => size - new.left = Number(new) * RECCNT + RECCNT
  BY DEF Placed
<1>0. /\ new.searchex = s.searchex /\ new.s2 = 0 /\ new.fno = Names[Found(s)]
      /\ new.ex = IF s.searchex = Every THEN 0 ELSE s.searchex
      /\ new.left = Rest(dir[Names[Found(s)]].size, s.searchex = Every)
      /\ new.rc = Count(dir[Names[Found(s)]].size)
  BY NextFile DEF bdos_search, Statics
<1>1. s.searchex = Every /\ new.s2 = 0 /\ new.ex = 0 /\ new.left = rest /\ new.rc = Count(size)
  <2> HIDE DEF new
  <2> QED BY <1>0
<1>2. RECCNT \in Nat \ {0} /\ EXTCNT \in Nat \ {0} /\ size \in Nat \ {0}  BY FcbAssumption
<1> HIDE DEF new, size
<1>3. Number(new) * RECCNT = 0  BY <1>1, <1>2 DEF Number
<1>4. Count(size) \in Nat /\ Count(size) <= size /\ Count(size) <= RECCNT  BY <1>2, CountType
<1>5. CASE size > RECCNT
  <2>1. rest = size - RECCNT  BY <1>5 DEF Rest
  <2> HIDE DEF rest
  <2> QED BY <1>1, <1>2, <1>3, <1>4, <1>5, <2>1
<1>6. CASE size <= RECCNT
  <2>1. rest = 0  BY <1>2, <1>6 DEF Rest
  <2> HIDE DEF rest
  <2> QED BY <1>1, <1>2, <1>3, <1>4, <1>6, <2>1
<1> QED BY <1>2, <1>5, <1>6

\* So is each entry that follows one that is.
LEMMA PlacedExtent ==
    ASSUME TypeOK, NEW s \in Statics, s.left # 0, Placed(s)
    PROVE  Placed(bdos_search(s))
<1> DEFINE new == bdos_search(s)
           size == dir[new.fno].size
           q == Number(s)
           start == q * RECCNT
           rest == Rest(s.left, TRUE)
           wraps == s.ex + 1 >= EXTCNT
<1> SUFFICES ASSUME new.searchex = Every, size \in 1 .. Limit
             PROVE  /\ new.ex < EXTCNT
                    /\ Number(new) * RECCNT < size - new.left
                    /\ size - new.left <= Number(new) * RECCNT + RECCNT
                    /\ Number(new) * RECCNT + new.rc <= size - new.left
                    /\ new.left > 0 => size - new.left = Number(new) * RECCNT + RECCNT
  BY DEF Placed
<1>0. /\ new.searchex = s.searchex /\ new.fno = s.fno
      /\ new.left = Rest(s.left, s.searchex = Every) /\ new.rc = Count(s.left)
      /\ new.ex = IF wraps THEN 0 ELSE s.ex + 1
      /\ new.s2 = IF wraps THEN (s.s2 + 1) % Byte ELSE s.s2
  BY NextExtent DEF bdos_search, Statics
<1>1. /\ s.searchex = Every /\ new.left = rest /\ new.rc = Count(s.left) /\ new.fno = s.fno
      /\ new.ex = IF wraps THEN 0 ELSE s.ex + 1
      /\ new.s2 = IF wraps THEN (s.s2 + 1) % Byte ELSE s.s2
  <2> HIDE DEF new, wraps
  <2> QED BY <1>0
<1>2. /\ RECCNT \in Nat \ {0} /\ EXTCNT \in Nat \ {0} /\ Byte \in Nat \ {0, 1}
      /\ size \in Nat \ {0} /\ s.left \in Nat \ {0} /\ s.s2 \in Nat /\ s.ex \in Nat
      /\ s.s2 < Byte
  <2> HIDE DEF size
  <2>1. s.left \in Nat /\ s.s2 \in 0 .. Byte - 1 /\ s.ex \in Nat  BY DEF Statics
  <2> QED BY <2>1, FcbAssumption
<1>3. q \in Nat /\ start \in Nat /\ (q + 1) * RECCNT = start + RECCNT  BY NumberType
<1>4. s.ex < EXTCNT /\ size - s.left = start + RECCNT
  BY <1>1, <1>2 DEF Placed
<1>5. q + 1 < Byte * EXTCNT
  <2> DEFINE n == Byte * EXTCNT
  <2>1. n \in Nat  BY <1>2, Product
  <2>2. (q + 1) * RECCNT < n * RECCNT
    <3> DEFINE limit == n * RECCNT
               upTo == (q + 1) * RECCNT
    <3>1. size <= limit /\ upTo = start + RECCNT /\ limit \in Nat
      BY <1>2, <1>3, <2>1, Product DEF Limit
    <3> HIDE DEF limit, upTo, start, q, n, size
    <3>2. upTo < limit  BY <1>2, <1>3, <1>4, <3>1
    <3> QED BY <3>2 DEF limit, upTo
  <2> HIDE DEF n, q
  <2>3. q + 1 \in Nat  BY <1>3
  <2>4. q + 1 < n  BY <1>2, <2>1, <2>2, <2>3, Before
  <2> QED BY <2>4 DEF n
<1>6. new.ex < EXTCNT /\ Number(new) = q + 1
  <2>1. CASE ~wraps
    <3>1. new.ex = s.ex + 1 /\ new.s2 = s.s2 /\ s.ex + 1 < EXTCNT  BY <1>1, <1>2, <2>1
    <3> DEFINE m == s.s2 * EXTCNT
    <3>2. m \in Nat /\ q = m + s.ex /\ Number(new) = m + new.ex
      BY <1>2, <3>1, Product DEF Number
    <3> HIDE DEF m, new, q
    <3> QED BY <1>2, <3>1, <3>2
  <2>2. CASE wraps
    <3>1. s.ex = EXTCNT - 1 /\ new.ex = 0  BY <1>1, <1>2, <1>4, <2>2
    <3> DEFINE m == s.s2 * EXTCNT
               m1 == (s.s2 + 1) * EXTCNT
    <3>2. m \in Nat /\ m1 = m + EXTCNT
      <4>1. ASSUME NEW a \in Nat, NEW b \in Nat  PROVE a * b \in Nat /\ (a + 1) * b = a * b + b
        BY Z3
      <4> QED BY <1>2, <4>1
    <3>3. q = m + s.ex  BY DEF Number
    <3>4. q + 1 = m1
      <4> HIDE DEF m, m1, q
      <4> QED BY <1>2, <3>1, <3>2, <3>3
    <3>5. s.s2 + 1 < Byte
      <4>1. (s.s2 + 1) * EXTCNT < Byte * EXTCNT  BY <1>5, <3>4
      <4>2. s.s2 + 1 \in Nat  BY <1>2
      <4> QED BY <1>2, <4>1, <4>2, Before
    <3>6. new.s2 = s.s2 + 1
      <4>1. (s.s2 + 1) % Byte = s.s2 + 1  BY <1>2, <3>5
      <4> HIDE DEF new
      <4> QED BY <1>1, <2>2, <4>1
    <3>7. Number(new) = m1 + 0  BY <3>1, <3>6 DEF Number
    <3>8. Number(new) = m1
      <4> HIDE DEF m1, new
      <4>1. m1 \in Nat  BY <1>2, <3>2
      <4> QED BY <3>7, <4>1
    <3> QED BY <1>2, <3>1, <3>4, <3>8
  <2> QED BY <2>1, <2>2
<1>7. Number(new) * RECCNT = start + RECCNT  BY <1>3, <1>6
<1>8. /\ Count(s.left) \in Nat /\ Count(s.left) <= s.left /\ Count(s.left) <= RECCNT
  BY <1>2, CountType
<1> DEFINE start1 == Number(new) * RECCNT
<1>9. start1 = start + RECCNT  BY <1>7
<1> HIDE DEF new, size, start, start1, q
<1>10. CASE s.left > RECCNT
  <2>1. rest = s.left - RECCNT  BY <1>10 DEF Rest
  <2> HIDE DEF rest
  <2>2. /\ start1 < size - new.left /\ size - new.left <= start1 + RECCNT
        /\ start1 + new.rc <= size - new.left
        /\ new.left > 0 => size - new.left = start1 + RECCNT
    BY <1>1, <1>2, <1>3, <1>4, <1>8, <1>9, <1>10, <2>1
  <2> QED BY <1>6, <2>2 DEF start1
<1>11. CASE s.left <= RECCNT
  <2>1. rest = 0  BY <1>2, <1>11 DEF Rest
  <2> HIDE DEF rest
  <2>2. /\ start1 < size - new.left /\ size - new.left <= start1 + RECCNT
        /\ start1 + new.rc <= size - new.left
        /\ new.left > 0 => size - new.left = start1 + RECCNT
    BY <1>1, <1>2, <1>3, <1>4, <1>8, <1>9, <1>11, <2>1
  <2> QED BY <1>6, <2>2 DEF start1
<1> QED BY <1>2, <1>10, <1>11

\* Every call leaves a placed entry.
LEMMA EntryStep == ASSUME TypeOK, Listing, Entry, [Next]_vars
                   PROVE  Entry'
\* One call of bdos_search in a listing.
<1>1. ASSUME NEW s \in Statics, NEW told, Return(s, told), own' = TRUE,
             s.left # 0 => Placed(s)
      PROVE  Entry'
  <2>1. search' = bdos_search(s) /\ ret' = Ok(s) /\ dir' = dir  BY <1>1 DEF Return
  <2>2. ~AtEnd(s) => Placed(bdos_search(s))
    BY <1>1, PlacedFile, PlacedExtent
  <2>3. Placed(bdos_search(s)) => Placed(search)'
    BY <2>1 DEF Placed, Number
  <2> QED BY <2>1, <2>2, <2>3 DEF Entry, Ok
<1>2. ASSUME NEW mask \in Masks, NEW e \in Extents, SFIRST(mask, e)
      PROVE  Entry'
  <2>1. First(mask, e) \in Statics /\ First(mask, e).left = 0  BY FirstType DEF First
  <2>2. Return(First(mask, e), [n \in Files |-> 0]) /\ own' = TRUE  BY <1>2 DEF SFIRST
  <2> QED BY <1>1, <2>1, <2>2
<1>3. ASSUME SNEXT, own  PROVE Entry'
  <2>1. Return(search, seen) /\ own' = TRUE  BY <1>3 DEF SNEXT, TypeOK
  <2>2. search.left # 0 => Placed(search)  BY <1>3 DEF Listing, Entry
  <2> QED BY <1>1, <2>1, <2>2 DEF TypeOK
<1>4. CASE own' = FALSE  BY <1>4 DEF Entry
<1>5. ASSUME NEW mask \in Masks, NEW e \in Extents,
             OPEN(mask, e) \/ bdos_size(mask, e) \/ bdos_delete(mask, e)
      PROVE  own' = FALSE
  BY <1>5, DeleteSearch DEF OPEN, bdos_size, Restart
<1>6. ASSUME SNEXT, ~own  PROVE own' = FALSE
  BY <1>6 DEF SNEXT, TypeOK
<1>7. CASE UNCHANGED vars
  BY <1>7 DEF vars, Entry, Placed, Number
<1> QED BY <1>2, <1>3, <1>4, <1>5, <1>6, <1>7 DEF Next

\* The extent and module of each entry of a listing say where its records are,
\* for every file whose extents the two bytes can count.
THEOREM EntriesPlaced == Spec => []EntryIsPosition
<1>1. Init => Listing /\ Entry  BY DEF Init, Listing, Entry
<1>2. TypeOK /\ Entry => EntryIsPosition  BY PlacedIs
<1>3. TypeOK /\ (Listing /\ Entry) /\ [Next]_vars => (Listing /\ Entry)'
  BY ListingStep, EntryStep
<1> QED BY <1>1, <1>2, <1>3, SearchTypes, PTL DEF Spec
=============================================================================
