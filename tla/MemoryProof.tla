---------------------------- MODULE MemoryProof ----------------------------
EXTENDS Memory, TLAPS

\* The addresses first .. last, copied from or to a buffer that begins at base.
Span(first, last, base) == {<<a, a - base>> : a \in first .. last}

(* Division: what the provers need of the bits of an address.              *)

\* What a quotient and a remainder are.
LEMMA Divide ==
  ASSUME NEW m \in Nat \ {0}, NEW a \in Nat
  PROVE  /\ a = (a \div m) * m + (a % m)
         /\ a \div m \in Nat /\ a % m \in 0 .. m - 1
BY Z3

\* What lies above a multiple of the divisor is the remainder.
LEMMA DivideSum ==
  ASSUME NEW m \in Nat \ {0}, NEW k \in Nat, NEW r \in 0 .. m - 1
  PROVE  (k * m + r) \div m = k /\ (k * m + r) % m = r
BY Z3

\* A block ends before the next one begins.
LEMMA Before ==
  ASSUME NEW m \in Nat \ {0}, NEW a \in Nat, NEW b \in Nat, a < b
  PROVE  a * m + m <= b * m
BY Z3

\* Multiples grow with the number.
LEMMA Monotone ==
  ASSUME NEW m \in Nat \ {0}, NEW a \in Nat, NEW b \in Nat, a <= b
  PROVE  a * m <= b * m
BY Z3

\* The next multiple is one divisor further.
LEMMA NextMultiple ==
  ASSUME NEW m \in Nat, NEW a \in Nat
  PROVE  (a + 1) * m = a * m + m
BY Z3

\* What lies above a whole number of buffers is the remainder.
LEMMA Offset ==
  ASSUME NEW m \in Nat \ {0}, NEW k \in Nat, k % m = 0, NEW r \in 0 .. m - 1
  PROVE  (k + r) % m = r /\ (k + m) % m = 0
<1> DEFINE q == k \div m
<1>1. k = q * m /\ q \in Nat
  <2>1. k = q * m + (k % m) /\ q \in Nat
    BY Divide
  <2> HIDE DEF q
  <2>2. q * m \in Nat
    BY <2>1, Z3
  <2> QED BY <2>1, <2>2
<1> HIDE DEF q
<1>2. (q * m + r) % m = r
  BY <1>1, DivideSum
<1>3. ((q + 1) * m + 0) % m = 0
  <2>1. q + 1 \in Nat /\ 0 \in 0 .. m - 1
    BY <1>1
  <2> QED BY <2>1, DivideSum
<1>4. (q + 1) * m + 0 = k + m
  <2>1. (q + 1) * m = q * m + m /\ q * m \in Nat
    BY <1>1, NextMultiple, Z3
  <2> QED BY <1>1, <2>1
<1> QED BY <1>1, <1>2, <1>3, <1>4

\* The three constants are numbers and a page lies in a bank.
LEMMA Sizes == /\ PageSize \in Nat \ {0} /\ Pages \in Nat \ {0} /\ Banks \in Nat \ {0}
               /\ Space \in Nat \ {0}
BY Geometry, Z3 DEF Space

\* mem_read_page and mem_write_page copy the bytes of one page.
LEMMA PageSpan ==
  ASSUME NEW page \in Nat, NEW lo \in 0 .. PageSize - 1, NEW hi \in lo .. PageSize - 1,
         NEW base \in Int
  PROVE  PageCopy(page, lo, hi, page * PageSize + lo - base)
           = Span(page * PageSize + lo, page * PageSize + hi, base)
<1> DEFINE first == page * PageSize
<1>1. first \in Nat
  BY Sizes, Z3
<1> HIDE DEF first
<1>2. ASSUME NEW i \in 0 .. hi - lo
      PROVE  <<first + lo + i, first + lo - base + i>> \in Span(first + lo, first + hi, base)
  <2>1. first + lo + i \in first + lo .. first + hi
    BY <1>1, Sizes
  <2>2. first + lo - base + i = (first + lo + i) - base
    BY <1>1, Sizes
  <2>3. \A a \in first + lo .. first + hi : <<a, a - base>> \in Span(first + lo, first + hi, base)
    BY DEF Span
  <2> QED BY <2>1, <2>2, <2>3
<1>3. ASSUME NEW a \in first + lo .. first + hi
      PROVE  <<a, a - base>> \in PageCopy(page, lo, hi, first + lo - base)
  <2> DEFINE i == a - (first + lo)
  <2>1. i \in 0 .. hi - lo /\ first + lo + i = a /\ first + lo - base + i = a - base
    BY <1>1, Sizes
  <2> QED BY <2>1, Sizes DEF PageCopy, first
<1>4. PageCopy(page, lo, hi, first + lo - base)
        = {<<first + lo + i, first + lo - base + i>> : i \in 0 .. hi - lo}
  <2>1. lo <= hi
    BY Sizes
  <2> QED BY <2>1 DEF PageCopy, first
<1>5. PageCopy(page, lo, hi, first + lo - base) \subseteq Span(first + lo, first + hi, base)
  BY <1>2, <1>4
<1>6. Span(first + lo, first + hi, base) \subseteq PageCopy(page, lo, hi, first + lo - base)
  BY <1>3 DEF Span
<1> QED BY <1>5, <1>6 DEF first

\* The whole pages between the first and the last.
LEMMA WholePages ==
  ASSUME NEW n \in Nat, NEW m \in Nat, n <= m, NEW base \in Int
  PROVE  UNION {Span(p * PageSize, p * PageSize + PageSize - 1, base) : p \in n .. m - 1}
           = Span(n * PageSize, m * PageSize - 1, base)
<1>0. \A p \in Nat : p * PageSize \in Nat
  BY Sizes, Z3
<1>1. ASSUME NEW p \in n .. m - 1, NEW a \in p * PageSize .. p * PageSize + PageSize - 1
      PROVE  a \in n * PageSize .. m * PageSize - 1
  <2>1. p * PageSize + PageSize <= m * PageSize
    BY Before, Sizes
  <2>2. n * PageSize <= p * PageSize
    BY Monotone, Sizes
  <2> QED BY <1>0, <2>1, <2>2, Sizes
<1>2. ASSUME NEW a \in n * PageSize .. m * PageSize - 1
      PROVE  \E p \in n .. m - 1 : a \in p * PageSize .. p * PageSize + PageSize - 1
  <2> DEFINE p == a \div PageSize
  <2>1. a \in Nat /\ p \in Nat /\ a \in p * PageSize .. p * PageSize + PageSize - 1
    <3>1. a \in Nat
      BY <1>0, Sizes
    <3>2. a = p * PageSize + (a % PageSize) /\ p \in Nat /\ a % PageSize \in 0 .. PageSize - 1
      BY <3>1, Sizes, Divide
    <3> HIDE DEF p
    <3> QED BY <3>1, <3>2, <1>0, Sizes
  <2> HIDE DEF p
  <2>2. p < m
    <3>1. SUFFICES ASSUME m <= p PROVE FALSE
      BY <2>1
    <3>2. m * PageSize <= p * PageSize
      BY <2>1, <3>1, Monotone, Sizes
    <3> QED BY <2>1, <3>2, <1>0
  <2>3. n <= p
    <3>1. SUFFICES ASSUME p < n PROVE FALSE
      BY <2>1
    <3>2. p * PageSize + PageSize <= n * PageSize
      BY <2>1, <3>1, Before, Sizes
    <3> QED BY <2>1, <3>2, <1>0, Sizes
  <2> QED BY <2>1, <2>2, <2>3
<1> QED BY <1>1, <1>2 DEF Span

\* mem_iterate copies exactly the bytes of its range, whatever pages it covers.
THEOREM IterateExact ==
  ASSUME NEW start \in Nat, NEW end \in Nat, start <= end, end < Space
  PROVE  mem_iterate(start, end) = Span(start, end, start)
<1> DEFINE hi == start \div PageSize  lo == start % PageSize
           ehi == end \div PageSize   elo == end % PageSize
<1>1. /\ hi \in Nat /\ lo \in 0 .. PageSize - 1 /\ start = hi * PageSize + lo
      /\ ehi \in Nat /\ elo \in 0 .. PageSize - 1 /\ end = ehi * PageSize + elo
  BY Divide, Sizes
<1> HIDE DEF hi, lo, ehi, elo
<1>0. \A p \in Nat : p * PageSize \in Nat
  BY Sizes, Z3
<1>2. hi <= ehi
  <2>1. SUFFICES ASSUME ehi < hi PROVE FALSE
    BY <1>1
  <2>2. ehi * PageSize + PageSize <= hi * PageSize
    BY <1>1, <2>1, Before, Sizes
  <2> QED BY <1>0, <1>1, <2>2, Sizes
<1>3. ehi < Pages
  <2>1. SUFFICES ASSUME Pages <= ehi PROVE FALSE
    BY <1>1, Sizes
  <2>2. Pages * PageSize <= ehi * PageSize
    BY <1>1, <2>1, Monotone, Sizes
  <2>3. Space = Pages * PageSize
    BY Sizes, Z3 DEF Space
  <2> QED BY <1>0, <1>1, <2>2, <2>3, Sizes
<1>4. CASE hi = ehi
  <2>1. lo <= elo
    BY <1>0, <1>1, <1>4
  <2>2. PageCopy(hi, lo, elo, 0) = Span(start, end, start)
    <3>1. hi * PageSize + lo - start = 0
      BY <1>0, <1>1
    <3> QED BY <1>1, <1>4, <2>1, <3>1, PageSpan
  <2> QED BY <1>4, <2>2 DEF mem_iterate, hi, lo, ehi, elo
<1>5. CASE hi < ehi
  <2>1. (hi + 1) % Pages = hi + 1
    BY <1>1, <1>3, <1>5, Sizes
  <2>2. (IF hi + 1 < ehi THEN ehi ELSE hi + 1) = ehi
    BY <1>1, <1>5
  <2> DEFINE head == PageCopy(hi, lo, PageSize - 1, 0)
             body == UNION {PageCopy(p, 0, PageSize - 1, Buf(lo, p - (hi + 1))) :
                              p \in hi + 1 .. ehi - 1}
             tail == PageCopy(ehi, 0, elo, Buf(lo, ehi - (hi + 1)))
             headSpan == Span(start, hi * PageSize + PageSize - 1, start)
             bodySpan == Span((hi + 1) * PageSize, ehi * PageSize - 1, start)
             tailSpan == Span(ehi * PageSize, end, start)
  <2>3. head = headSpan
    <3>1. hi * PageSize + lo - start = 0 /\ hi * PageSize + (PageSize - 1) = hi * PageSize + PageSize - 1
      BY <1>0, <1>1, Sizes
    <3> QED BY <1>1, <3>1, PageSpan, Sizes
  <2>4. ASSUME NEW p \in hi + 1 .. ehi, NEW e \in 0 .. PageSize - 1
        PROVE  PageCopy(p, 0, e, Buf(lo, p - (hi + 1)))
                 = Span(p * PageSize, p * PageSize + e, start)
    <3>1. (p - (hi + 1)) * PageSize = p * PageSize - hi * PageSize - PageSize
      <4>1. p \in Nat /\ hi \in Nat /\ PageSize \in Nat
        BY <1>1, Sizes
      <4> QED BY <4>1, Z3
    <3>2. Buf(lo, p - (hi + 1)) = p * PageSize + 0 - start
      BY <1>0, <1>1, <3>1, Sizes DEF Buf
    <3>3. p * PageSize + 0 = p * PageSize
      BY <1>0, <1>1
    <3>4. p \in Nat /\ 0 \in 0 .. PageSize - 1 /\ start \in Int
      BY <1>1, Sizes
    <3>5. PageCopy(p, 0, e, p * PageSize + 0 - start)
            = Span(p * PageSize + 0, p * PageSize + e, start)
      BY <3>4, PageSpan
    <3> QED BY <3>2, <3>3, <3>5
  <2>5. body = bodySpan
    <3>1. \A p \in hi + 1 .. ehi - 1 :
             PageCopy(p, 0, PageSize - 1, Buf(lo, p - (hi + 1)))
               = Span(p * PageSize, p * PageSize + PageSize - 1, start)
      <4> TAKE p \in hi + 1 .. ehi - 1
      <4>1. p \in hi + 1 .. ehi /\ PageSize - 1 \in 0 .. PageSize - 1
        BY <1>1, Sizes
      <4>2. p * PageSize + (PageSize - 1) = p * PageSize + PageSize - 1
        BY <1>0, <1>1, <4>1, Sizes
      <4> QED BY <2>4, <4>1, <4>2
    <3>2. hi + 1 \in Nat /\ hi + 1 <= ehi
      BY <1>1, <1>5
    <3>3. UNION {Span(p * PageSize, p * PageSize + PageSize - 1, start) : p \in hi + 1 .. ehi - 1}
            = Span((hi + 1) * PageSize, ehi * PageSize - 1, start)
      BY <1>1, <3>2, WholePages
    <3>4. {PageCopy(p, 0, PageSize - 1, Buf(lo, p - (hi + 1))) : p \in hi + 1 .. ehi - 1}
            = {Span(p * PageSize, p * PageSize + PageSize - 1, start) : p \in hi + 1 .. ehi - 1}
      BY <3>1
    <3> QED BY <3>3, <3>4
  <2>6. tail = tailSpan
    BY <1>1, <1>5, <2>4
  <2>7. (hi + 1) * PageSize = hi * PageSize + PageSize
    BY <1>1, NextMultiple, Sizes
  <2>8. hi * PageSize + PageSize <= ehi * PageSize
    BY <1>1, <1>5, Before, Sizes
  <2>9. headSpan \cup bodySpan \cup tailSpan = Span(start, end, start)
    BY <1>0, <1>1, <2>7, <2>8, Sizes DEF Span
  <2>10. mem_iterate(start, end) = head \cup body \cup tail
    <3>1. hi # ehi
      BY <1>1, <1>5
    <3> QED BY <2>1, <2>2, <3>1 DEF mem_iterate, hi, lo, ehi, elo
  <2> HIDE DEF head, body, tail, headSpan, bodySpan, tailSpan
  <2> QED BY <2>3, <2>5, <2>6, <2>9, <2>10
<1> QED BY <1>1, <1>2, <1>4, <1>5

\* The same with the place in memory of each address.
PlaceSpan(first, last, base) == {<<Physical(a), a - base>> : a \in first .. last}

\* The place of an address in the k-th block of 64K.
LEMMA InBlock ==
  ASSUME NEW k \in Nat, NEW a \in 0 .. Space - 1
  PROVE  Physical(k * Space + a) = (k % Banks) * Space + a
<1>1. (k * Space + a) \div Space = k /\ (k * Space + a) % Space = a
  BY DivideSum, Sizes
<1> QED BY <1>1 DEF Physical, Bank

\* Part of a block, copied in the bank of the block.
LEMMA BlockSpan ==
  ASSUME NEW k \in Nat, NEW x \in 0 .. Space - 1, NEW y \in 0 .. Space - 1,
         NEW base \in Int, NEW buf \in Int
  PROVE  In(k % Banks, Span(x, y, base), buf)
           = PlaceSpan(k * Space + x, k * Space + y, k * Space + base - buf)
<1> DEFINE block == k * Space
           bank == (k % Banks) * Space
<1>1. block \in Nat
  BY Sizes, Z3
<1>2. \A a \in 0 .. Space - 1 : Physical(block + a) = bank + a
  BY InBlock
<1> HIDE DEF block, bank
<1>3. In(k % Banks, Span(x, y, base), buf) = {<<bank + a, buf + (a - base)>> : a \in x .. y}
  <2>1. \A p \in Span(x, y, base) : \E a \in x .. y : p = <<a, a - base>>
    BY DEF Span
  <2>2. \A a \in x .. y : <<a, a - base>> \in Span(x, y, base)
    BY DEF Span
  <2>3. In(k % Banks, Span(x, y, base), buf)
          = {<<bank + p[1], buf + p[2]>> : p \in Span(x, y, base)}
    BY DEF In, bank
  <2>4. ASSUME NEW p \in Span(x, y, base)
        PROVE  <<bank + p[1], buf + p[2]>> \in {<<bank + a, buf + (a - base)>> : a \in x .. y}
    <3>1. PICK a \in x .. y : p = <<a, a - base>>
      BY <2>1
    <3> QED BY <3>1
  <2>5. ASSUME NEW a \in x .. y
        PROVE  <<bank + a, buf + (a - base)>>
                 \in {<<bank + p[1], buf + p[2]>> : p \in Span(x, y, base)}
    <3> DEFINE p == <<a, a - base>>
    <3>1. p \in Span(x, y, base) /\ p[1] = a /\ p[2] = a - base
      BY <2>2
    <3> QED BY <3>1
  <2> QED BY <2>3, <2>4, <2>5
<1>4. ASSUME NEW a \in x .. y
      PROVE  <<bank + a, buf + (a - base)>> \in PlaceSpan(block + x, block + y, block + base - buf)
  <2>1. /\ block + a \in block + x .. block + y
        /\ buf + (a - base) = (block + a) - (block + base - buf)
        /\ Physical(block + a) = bank + a
    BY <1>1, <1>2, Sizes
  <2>2. \A c \in block + x .. block + y :
           <<Physical(c), c - (block + base - buf)>> \in PlaceSpan(block + x, block + y, block + base - buf)
    BY DEF PlaceSpan
  <2> QED BY <2>1, <2>2
<1>5. ASSUME NEW c \in block + x .. block + y
      PROVE  <<Physical(c), c - (block + base - buf)>>
               \in {<<bank + a, buf + (a - base)>> : a \in x .. y}
  <2> DEFINE a == c - block
  <2>1. /\ a \in x .. y /\ block + a = c
        /\ buf + (a - base) = c - (block + base - buf)
        /\ Physical(block + a) = bank + a
    BY <1>1, <1>2, Sizes
  <2> QED BY <2>1
<1>6. PlaceSpan(block + x, block + y, block + base - buf)
        \subseteq {<<bank + a, buf + (a - base)>> : a \in x .. y}
  BY <1>5 DEF PlaceSpan
<1> QED BY <1>3, <1>4, <1>6 DEF block

\* mem_iterate_banked copies exactly the bytes of its range, from or to the bank
\* of each, when the range is no longer than a bank.
THEOREM BankedExact ==
  ASSUME NEW start \in Nat, NEW end \in Nat, start <= end, end - start < Space
  PROVE  mem_iterate_banked(start, end) = PlaceSpan(start, end, start)
<1> DEFINE s == start \div Space  x == start % Space
           e == end \div Space    y == end % Space
<1>1. /\ s \in Nat /\ x \in 0 .. Space - 1 /\ start = s * Space + x
      /\ e \in Nat /\ y \in 0 .. Space - 1 /\ end = e * Space + y
      /\ Bank(start) = s % Banks /\ Bank(end) = e % Banks
  BY Divide, Sizes DEF Bank
<1>2. mem_iterate_banked(start, end) =
        IF s % 2 = e % 2 THEN In(Bank(start), mem_iterate(x, y), 0)
        ELSE In(Bank(start), mem_iterate(x, Space - 1), 0)
             \cup In(Bank(end), mem_iterate(0, y), Space - x)
  BY DEF mem_iterate_banked
<1> HIDE DEF s, x, e, y
<1>0. \A k \in Nat : k * Space \in Nat
  BY Sizes, Z3
<1>3. e = s \/ e = s + 1
  <2>1. s <= e
    <3>1. SUFFICES ASSUME e < s PROVE FALSE
      BY <1>1
    <3>2. e * Space + Space <= s * Space
      BY <1>1, <3>1, Before, Sizes
    <3> QED BY <1>0, <1>1, <3>2, Sizes
  <2>2. e <= s + 1
    <3>1. SUFFICES ASSUME s + 1 < e PROVE FALSE
      BY <1>1
    <3>2. (s + 1) * Space + Space <= e * Space /\ (s + 1) * Space = s * Space + Space
      BY <1>1, <3>1, Before, NextMultiple, Sizes
    <3> QED BY <1>0, <1>1, <3>2, Sizes
  <2> QED BY <1>1, <2>1, <2>2
<1>4. CASE e = s
  <2>1. x <= y
    BY <1>0, <1>1, <1>4
  <2>2. mem_iterate(x, y) = Span(x, y, x)
    <3>1. x \in Nat /\ y \in Nat /\ y < Space
      BY <1>1, Sizes
    <3> QED BY <2>1, <3>1, IterateExact
  <2>3. s * Space + x - 0 = start
    BY <1>0, <1>1, Sizes
  <2>4. In(s % Banks, Span(x, y, x), 0)
          = PlaceSpan(s * Space + x, s * Space + y, s * Space + x - 0)
    <3>1. s \in Nat /\ x \in 0 .. Space - 1 /\ y \in 0 .. Space - 1 /\ x \in Int /\ 0 \in Int
      BY <1>1, Sizes
    <3>2. \A k \in Nat, u, v \in 0 .. Space - 1, base, buf \in Int :
             In(k % Banks, Span(u, v, base), buf)
               = PlaceSpan(k * Space + u, k * Space + v, k * Space + base - buf)
      BY BlockSpan
    <3> QED BY <3>1, <3>2, ZenonT(30)
  <2>5. mem_iterate_banked(start, end) = In(s % Banks, Span(x, y, x), 0)
    BY <1>1, <1>2, <1>4, <2>2
  <2> QED BY <1>1, <1>4, <2>3, <2>4, <2>5
<1>5. CASE e = s + 1
  <2>1. s % 2 # e % 2
    <3>1. /\ s \in Nat /\ s \div 2 \in Nat /\ s % 2 \in 0 .. 1
          /\ s = (s \div 2) * 2 + (s % 2)
      BY <1>1, Divide
    <3>2. CASE s % 2 = 0
      <4>1. e = (s \div 2) * 2 + 1
        BY <1>5, <3>1, <3>2
      <4> QED BY <3>1, <3>2, <4>1, DivideSum
    <3>3. CASE s % 2 = 1
      <4>1. e = (s \div 2 + 1) * 2 + 0
        BY <1>5, <3>1, <3>3
      <4> QED BY <3>1, <3>3, <4>1, DivideSum
    <3> QED BY <3>1, <3>2, <3>3
  <2>2. /\ mem_iterate(x, Space - 1) = Span(x, Space - 1, x)
        /\ mem_iterate(0, y) = Span(0, y, 0)
    BY <1>1, IterateExact, Sizes
  <2>3. e * Space = s * Space + Space
    BY <1>1, <1>5, NextMultiple, Sizes
  <2>4. In(Bank(start), mem_iterate(x, Space - 1), 0)
          = PlaceSpan(start, s * Space + (Space - 1), start)
    <3>1. /\ s * Space + x - 0 = start /\ s * Space + x = start
          /\ s \in Nat /\ x \in 0 .. Space - 1 /\ x \in Int /\ 0 \in Int
          /\ Space - 1 \in 0 .. Space - 1
      BY <1>0, <1>1, Sizes
    <3>2. In(s % Banks, Span(x, Space - 1, x), 0)
            = PlaceSpan(s * Space + x, s * Space + (Space - 1), s * Space + x - 0)
      BY <3>1, BlockSpan, ZenonT(40)
    <3> QED BY <1>1, <2>2, <3>1, <3>2
  <2>5. In(Bank(end), mem_iterate(0, y), Space - x) = PlaceSpan(e * Space, end, start)
    <3>1. /\ e * Space + 0 = e * Space /\ 0 \in 0 .. Space - 1
          /\ e * Space + 0 - (Space - x) = start
      BY <1>0, <1>1, <2>3, Sizes
    <3>2. Space - x \in Int
      BY <1>1, Sizes
    <3>3. In(e % Banks, Span(0, y, 0), Space - x)
            = PlaceSpan(e * Space + 0, e * Space + y, e * Space + 0 - (Space - x))
      <4> DEFINE buf == Space - x
      <4>1. e \in Nat /\ y \in 0 .. Space - 1 /\ 0 \in 0 .. Space - 1 /\ 0 \in Int /\ buf \in Int
        BY <1>1, <3>1, <3>2
      <4> HIDE DEF buf
      <4>2. In(e % Banks, Span(0, y, 0), buf)
              = PlaceSpan(e * Space + 0, e * Space + y, e * Space + 0 - buf)
        BY <4>1, BlockSpan, ZenonT(40)
      <4> QED BY <4>2 DEF buf
    <3> QED BY <1>1, <2>2, <3>1, <3>3
  <2>6. PlaceSpan(start, s * Space + (Space - 1), start) \cup PlaceSpan(e * Space, end, start)
          = PlaceSpan(start, end, start)
    <3>1. (start .. s * Space + (Space - 1)) \cup (e * Space .. end) = start .. end
      BY <1>0, <1>1, <2>3, Sizes
    <3> QED BY <3>1 DEF PlaceSpan
  <2> QED BY <1>2, <2>1, <2>4, <2>5, <2>6
<1> QED BY <1>3, <1>4, <1>5
-----------------------------------------------------------------------------
(* The commands.  The inductive invariant says how far a loop has come.     *)

Numbers == /\ from \in Nat /\ at \in Nat /\ to \in Int /\ left \in Nat /\ avail \in Nat
           /\ base_addr \in Nat

\* The number that the byte of an address has, and what is copied up to an address.
Number(a) == IF op = "fill" THEN (a - from) % PageSize
             ELSE IF op = "savehex" THEN a ELSE a - from
Image(last) == {<<Place(a), Number(a)>> : a \in from .. last}

Started == op \in {"fill", "savebin", "loadbin"} \/ (op = "savehex" /\ to < Space)

Progress ==
    Started =>
      /\ from <= at /\ (op # "loadbin" => from <= to)
      /\ op = "savebin" => left \in 1 .. PageSize
      /\ ~ended => /\ copied = Image(at - 1)
                   /\ op = "fill" => (at - from) % PageSize = 0 /\ (at = from \/ at < to)
                   /\ op \in {"savebin", "savehex"} => at <= to
                   /\ op = "loadbin" => to + 1 = at + Min(left, avail)

Idle == op \in {"cli", "run"} => copied = {} /\ ~ended

IInv == Numbers /\ Idle /\ Progress /\ CommandExact

\* What fill stores at an address: in the last place of a range of OneMore, what
\* follows its buffer.
FillByte(a) == IF OneMore /\ a = to THEN Junk ELSE (a - from) % PageSize

\* What a piece adds to the copy.
LEMMA PieceStep ==
  ASSUME Numbers, NEW n \in Nat \ {0}, n <= Space, NEW valid \in Nat, NEW number \in Int,
         Piece(n, valid, number)
  PROVE  /\ copied' = copied \cup {<<Place(a), IF a - at < valid THEN number + (a - at)
                                               ELSE Junk>> : a \in at .. at + n - 1}
         /\ from' = from /\ to' = to /\ base_addr' = base_addr
<1> DEFINE start == at + base_addr  end == at + n - 1 + base_addr
           Byte(k) == IF k < valid THEN number + k ELSE Junk
<1>1. /\ start \in Nat /\ end \in Nat /\ start <= end /\ end - start < Space
  BY Sizes DEF Numbers
<1>2. mem_iterate_banked(start, end) = PlaceSpan(start, end, start)
  BY <1>1, BankedExact
<1>3. copied' = copied \cup {<<p[1], Byte(p[2])>> : p \in PlaceSpan(start, end, start)}
  BY <1>2 DEF Piece
<1>4. ASSUME NEW a \in at .. at + n - 1
      PROVE  <<Place(a), Byte(a - at)>> \in {<<p[1], Byte(p[2])>> : p \in PlaceSpan(start, end, start)}
  <2> DEFINE p == <<Physical(a + base_addr), (a + base_addr) - start>>
  <2>1. a + base_addr \in start .. end /\ (a + base_addr) - start = a - at
    BY DEF Numbers
  <2>2. p \in PlaceSpan(start, end, start)
    <3>1. \A c \in start .. end : <<Physical(c), c - start>> \in PlaceSpan(start, end, start)
      BY DEF PlaceSpan
    <3> HIDE DEF start, end
    <3> QED BY <2>1, <3>1
  <2>3. p[1] = Place(a) /\ p[2] = a - at
    BY <2>1 DEF Place
  <2> HIDE DEF p, Byte
  <2> QED BY <2>2, <2>3
<1>5. ASSUME NEW p \in PlaceSpan(start, end, start)
      PROVE  <<p[1], Byte(p[2])>> \in {<<Place(a), Byte(a - at)>> : a \in at .. at + n - 1}
  <2>1. PICK c \in start .. end : p = <<Physical(c), c - start>>
    BY DEF PlaceSpan
  <2> DEFINE a == c - base_addr
  <2>2. a \in at .. at + n - 1 /\ a + base_addr = c /\ c - start = a - at
    BY <2>1 DEF Numbers
  <2>3. p[1] = Place(a) /\ p[2] = a - at
    BY <2>1, <2>2 DEF Place
  <2> HIDE DEF a, Byte
  <2> QED BY <2>2, <2>3
<1>6. {<<p[1], Byte(p[2])>> : p \in PlaceSpan(start, end, start)}
        = {<<Place(a), Byte(a - at)>> : a \in at .. at + n - 1}
  <2> HIDE DEF Byte, start, end
  <2> QED BY <1>4, <1>5
<1> QED BY <1>3, <1>6 DEF Piece

\* A piece whose bytes have the right numbers continues the copy.
LEMMA Continue ==
  ASSUME Numbers, NEW n \in Nat \ {0}, n <= Space, NEW valid \in Nat, NEW number \in Int,
         Piece(n, valid, number), at' = at + n, copied = Image(at - 1), from <= at, op' = op, n <= valid,
         \A a \in at .. at + n - 1 : Number(a) = number + (a - at)
  PROVE  copied' = Image(at - 1)' /\ from' = from /\ to' = to /\ base_addr' = base_addr
<1>0. PICK last \in Int : last = at + n - 1 /\ last = at' - 1
  BY DEF Numbers
<1>1. /\ copied' = copied \cup {<<Place(a), IF a - at < valid THEN number + (a - at)
                                             ELSE Junk>> : a \in at .. at + n - 1}
      /\ from' = from /\ to' = to /\ base_addr' = base_addr
  BY PieceStep
<1>2. \A a \in at .. at + n - 1 :
         (IF a - at < valid THEN number + (a - at) ELSE Junk) = Number(a)
  BY DEF Numbers
<1>3. copied' = Image(at - 1) \cup {<<Place(a), Number(a)>> : a \in at .. at + n - 1}
  BY <1>1, <1>2
<1>4. (from .. at - 1) \cup (at .. at + n - 1) = from .. at + n - 1
  BY DEF Numbers
<1>5. copied' = Image(last)
  BY <1>0, <1>3, <1>4 DEF Image
<1>6. \A a : Place(a)' = Place(a) /\ Number(a)' = Number(a)
  BY <1>1 DEF Place, Number
<1> QED BY <1>0, <1>1, <1>5, <1>6 DEF Image

\* The number of a byte in the piece that begins at a multiple of PageSize.
LEMMA Numbered ==
  ASSUME NEW first \in Int, NEW start \in Int, NEW a \in Int, PageSize \in Nat \ {0},
         start - first \in Nat, (start - first) % PageSize = 0,
         a - start \in 0 .. PageSize - 1
  PROVE  (a - first) % PageSize = a - start
<1>1. ((start - first) + (a - start)) % PageSize = a - start
  BY Offset
<1>2. (start - first) + (a - start) = a - first
  OBVIOUS
<1> QED BY <1>1, <1>2

\* Each piece of a loop keeps the invariant.
LEMMA FillStep == IInv /\ FillPiece => Progress' /\ CommandExact'
<1> SUFFICES ASSUME IInv, FillPiece PROVE Progress' /\ CommandExact'
  OBVIOUS
<1>1. /\ op = "fill" /\ op' = op /\ ~ended /\ at' = at + PageSize
      /\ ended' = (to - at <= PageSize) /\ Piece(FillLength, Min(FillLength, PageSize), 0)
  BY DEF FillPiece
<1>2. /\ Numbers /\ from <= at /\ from <= to /\ copied = Image(at - 1)
      /\ (at - from) % PageSize = 0 /\ (at = from \/ at < to)
  BY <1>1 DEF IInv, Progress, Started
<1>3. /\ from \in Nat /\ at \in Nat /\ to \in Int /\ at <= to
      /\ PageSize \in Nat \ {0} /\ PageSize + 1 <= Space /\ Space \in Nat \ {0}
  <2>1. PageSize + 1 <= Space
    BY Geometry, Z3 DEF Space
  <2> QED BY <1>2, <2>1, Sizes DEF Numbers
<1>4. at - from \in Nat /\ at \in Int /\ from \in Int /\ \A a \in at .. to : a \in Int
  BY <1>2, <1>3
<1>5. CASE to - at > PageSize
  <2>1. Piece(PageSize, PageSize, 0)
    <3>1. FillLength = PageSize /\ Min(FillLength, PageSize) = PageSize
      BY <1>3, <1>5 DEF FillLength, Min
    <3> QED BY <1>1, <3>1
  <2>2. \A a \in at .. at + PageSize - 1 : Number(a) = 0 + (a - at)
    <3> TAKE a \in at .. at + PageSize - 1
    <3>1. a - at \in 0 .. PageSize - 1 /\ 0 + (a - at) = a - at /\ a \in Int
      BY <1>3
    <3>2. (a - from) % PageSize = a - at
      BY <1>2, <1>3, <1>4, <3>1, Numbered
    <3> QED BY <1>1, <3>1, <3>2 DEF Number
  <2>3. copied' = Image(at - 1)' /\ from' = from /\ to' = to
    <3>1. PageSize <= Space /\ PageSize \in Nat /\ 0 \in Int /\ PageSize <= PageSize
      BY <1>3
    <3> QED BY <1>1, <1>2, <1>3, <2>1, <2>2, <3>1, Continue
  <2>4. (at' - from) % PageSize = 0
    <3>1. (at - from + PageSize) % PageSize = 0
      <4>1. 0 \in 0 .. PageSize - 1 /\ at - from \in Nat
        BY <1>2, <1>3
      <4> QED BY <1>2, <1>3, <4>1, Offset
    <3>2. at - from + PageSize = at' - from
      BY <1>1, <1>3
    <3> QED BY <3>1, <3>2
  <2>5. at' < to' /\ from' <= at' /\ from' <= to' /\ ~(to - at <= PageSize)
    BY <1>1, <1>2, <1>3, <1>5, <2>3
  <2>6. ~ended'
    BY <1>1, <2>5, Zenon
  <2> QED BY <1>1, <1>2, <2>3, <2>4, <2>5, <2>6 DEF Progress, Started, CommandExact
<1>6. CASE to - at <= PageSize
  <2> DEFINE n == FillLength  valid == Min(n, PageSize)
             Byte(a) == IF a - at < valid THEN 0 + (a - at) ELSE Junk
  <2>1. /\ n = to - at + 1 /\ n \in Nat \ {0} /\ n <= Space
        /\ valid = (IF to - at = PageSize THEN PageSize ELSE n) /\ valid \in Nat
    BY <1>3, <1>6 DEF FillLength, Min
  <2>2. copied' = copied \cup {<<Place(a), Byte(a)>> : a \in at .. to}
        /\ from' = from /\ to' = to /\ base_addr' = base_addr
    <3> HIDE DEF n, valid
    <3>1. /\ copied' = copied \cup {<<Place(a), Byte(a)>> : a \in at .. at + n - 1}
          /\ from' = from /\ to' = to /\ base_addr' = base_addr
      <4>1. Piece(n, valid, 0) /\ 0 \in Int
        BY <1>1 DEF n, valid
      <4>2. Numbers /\ n \in Nat \ {0} /\ n <= Space /\ valid \in Nat
        BY <1>2, <2>1
      <4> QED BY <4>1, <4>2, PieceStep
    <3>2. at + n - 1 = to
      BY <1>3, <2>1
    <3> QED BY <3>1, <3>2
  <2> HIDE DEF n, valid
  <2>3. \A a \in at .. to : Byte(a) = FillByte(a)
    <3> TAKE a \in at .. to
    <3>1. CASE to - at = PageSize
      <4>1. (to - from) % PageSize = 0 /\ to > from
        <5>1. ((at - from) + PageSize) % PageSize = 0
          <6>1. 0 \in 0 .. PageSize - 1 /\ at - from \in Nat
            BY <1>2, <1>3
          <6> QED BY <1>2, <1>3, <6>1, Offset
        <5>2. (at - from) + PageSize = to - from /\ to > from
          BY <1>2, <1>3, <3>1
        <5> QED BY <5>1, <5>2
      <4>2. CASE a = to
        <5>1. ~(a - at < valid)
          BY <1>3, <2>1, <3>1, <4>2
        <5> QED BY <4>1, <4>2, <5>1 DEF FillByte, OneMore
      <4>3. CASE a # to
        <5>1. a - at < valid /\ 0 + (a - at) = a - at /\ a - at \in 0 .. PageSize - 1
          BY <1>3, <2>1, <3>1, <4>3
        <5>2. (a - from) % PageSize = a - at
          BY <1>2, <1>3, <1>4, <5>1, Numbered
        <5> QED BY <4>3, <5>1, <5>2 DEF FillByte, OneMore
      <4> QED BY <4>2, <4>3
    <3>2. CASE to - at # PageSize
      <4>1. a - at < valid /\ 0 + (a - at) = a - at /\ a - at \in 0 .. PageSize - 1
        BY <1>3, <1>6, <2>1, <3>2
      <4>2. (a - from) % PageSize = a - at
        BY <1>2, <1>3, <1>4, <4>1, Numbered
      <4>3. ~(a = to /\ to > from /\ (to - from) % PageSize = 0)
        <5>1. SUFFICES ASSUME a = to, to > from, (to - from) % PageSize = 0 PROVE FALSE
          OBVIOUS
        <5>2. to - at = 0
          BY <4>2, <5>1
        <5> QED BY <1>2, <1>3, <5>1, <5>2
      <4> QED BY <4>1, <4>2, <4>3 DEF FillByte, OneMore
    <3> QED BY <3>1, <3>2
  <2>4. \A a \in from .. at - 1 : Number(a) = FillByte(a)
    BY <1>1, <1>3 DEF Number, FillByte, OneMore
  <2>5. copied' = {<<Place(a), FillByte(a)>> : a \in from .. to}
    <3>1. copied = {<<Place(a), FillByte(a)>> : a \in from .. at - 1}
      BY <1>2, <2>4 DEF Image
    <3>2. {<<Place(a), Byte(a)>> : a \in at .. to} = {<<Place(a), FillByte(a)>> : a \in at .. to}
      BY <2>3
    <3>3. (from .. at - 1) \cup (at .. to) = from .. to
      BY <1>2, <1>3
    <3> QED BY <2>2, <3>1, <3>2, <3>3
  <2>6. IF OneMore THEN copied' \ {<<Place(to), Junk>>} = Filled(to - 1) ELSE copied' = Filled(to)
    <3>1. CASE OneMore
      <4>1. \A a \in from .. to : (a - from) % PageSize # Junk
        <5> TAKE a \in from .. to
        <5>1. a - from \in Nat
          BY <1>3
        <5>2. (a - from) % PageSize \in 0 .. PageSize - 1
          BY <1>3, <5>1, Divide
        <5> QED BY <1>3, <5>2 DEF Junk
      <4>2. /\ \A a \in from .. to - 1 : a \in from .. to /\ FillByte(a) = (a - from) % PageSize
            /\ \A a \in from .. to : a = to \/ a \in from .. to - 1
            /\ FillByte(to) = Junk
        BY <1>3, <3>1 DEF FillByte
      <4>3. ASSUME NEW e \in copied' \ {<<Place(to), Junk>>} PROVE e \in Filled(to - 1)
        <5>1. PICK a \in from .. to : e = <<Place(a), FillByte(a)>>
          BY <2>5
        <5>2. a # to
          BY <4>2, <5>1
        <5> QED BY <4>2, <5>1, <5>2 DEF Filled
      <4>4. ASSUME NEW e \in Filled(to - 1) PROVE e \in copied' \ {<<Place(to), Junk>>}
        <5>1. PICK a \in from .. to - 1 : e = <<Place(a), (a - from) % PageSize>>
          BY DEF Filled
        <5> QED BY <2>5, <4>1, <4>2, <5>1
      <4> QED BY <3>1, <4>3, <4>4
    <3>2. CASE ~OneMore
      BY <2>5, <3>2 DEF FillByte, Filled
    <3> QED BY <3>1, <3>2
  <2>7. /\ OneMore' = OneMore /\ Place(to)' = Place(to)
        /\ Filled(to)' = Filled(to) /\ Filled(to - 1)' = Filled(to - 1)
    BY <2>2 DEF OneMore, Place, Filled
  <2>8. ended' /\ from' <= at'
    <3>1. ended'
      BY <1>1, <1>6, Zenon
    <3>2. from' <= at'
      BY <1>1, <1>2, <1>3, <2>2
    <3> QED BY <3>1, <3>2
  <2> QED BY <1>1, <1>2, <2>2, <2>6, <2>7, <2>8 DEF Progress, Started, CommandExact
<1> QED BY <1>3, <1>5, <1>6

\* A piece of savebin.
LEMMA SaveStep == IInv /\ SavePiece => Progress' /\ CommandExact'
<1> SUFFICES ASSUME IInv, SavePiece PROVE Progress' /\ CommandExact'
  OBVIOUS
<1> DEFINE n == Min(to - at + 1, left)
<1>1. /\ op = "savebin" /\ op' = op /\ ~ended /\ at' = at + n /\ left' = n
      /\ ended' = (at + n > to) /\ Piece(n, n, at - from)
  BY DEF SavePiece
<1>2. /\ Numbers /\ from <= at /\ at <= to /\ from <= to /\ copied = Image(at - 1)
      /\ left \in 1 .. PageSize
  BY <1>1 DEF IInv, Progress, Started
<1>3. /\ from \in Nat /\ at \in Nat /\ to \in Int /\ PageSize \in Nat /\ PageSize <= Space
  <2>1. PageSize <= Space
    BY Geometry, Z3 DEF Space
  <2> QED BY <1>2, <2>1, Sizes DEF Numbers
<1>4. n \in 1 .. PageSize /\ n \in Nat \ {0} /\ n <= Space /\ n <= to - at + 1 /\ n <= n
  BY <1>2, <1>3, Sizes DEF Min
<1> HIDE DEF n
<1>5. \A a \in at .. at + n - 1 : Number(a) = (at - from) + (a - at)
  BY <1>1, <1>3, <1>4 DEF Number
<1>6. /\ copied' = Image(at - 1)' /\ from' = from /\ to' = to /\ base_addr' = base_addr
      /\ at - from \in Int
  <2>1. at - from \in Int /\ n \in Nat
    BY <1>3, <1>4
  <2> QED BY <1>1, <1>2, <1>4, <1>5, <2>1, Continue
<1>7. CASE at + n > to
  <2>1. ended'
    BY <1>1, <1>7, Zenon
  <2>2. at' - 1 = to' /\ from' <= at'
    BY <1>1, <1>2, <1>3, <1>4, <1>6, <1>7
  <2>3. copied' = {<<Place(a), a - from>> : a \in from .. to}'
    BY <1>1, <1>6, <2>2 DEF Image, Number
  <2> QED BY <1>1, <1>2, <1>4, <1>6, <2>1, <2>2, <2>3 DEF Progress, Started, CommandExact
<1>8. CASE ~(at + n > to)
  <2>1. ~ended'
    BY <1>1, <1>8, Zenon
  <2>2. from' <= at' /\ at' <= to'
    BY <1>1, <1>2, <1>3, <1>4, <1>6, <1>8
  <2> QED BY <1>1, <1>2, <1>4, <1>6, <2>1, <2>2 DEF Progress, Started, CommandExact
<1> QED BY <1>7, <1>8

\* A piece of loadbin.
LEMMA LoadStep == IInv /\ LoadPiece => Progress' /\ CommandExact'
<1> SUFFICES ASSUME IInv, LoadPiece PROVE Progress' /\ CommandExact'
  OBVIOUS
<1> DEFINE br == Min(Min(2 * PageSize, avail), left)
<1>1. /\ op = "loadbin" /\ op' = op /\ ~ended /\ at' = at + br /\ left' = left - br
      /\ avail' = avail - br /\ ended' = (br < 2 * PageSize)
      /\ IF br > 0 THEN Piece(br, br, at - from) ELSE UNCHANGED <<from, to, banks, copied>>
  BY DEF LoadPiece
<1>2. /\ Numbers /\ from <= at /\ copied = Image(at - 1) /\ to + 1 = at + Min(left, avail)
  BY <1>1 DEF IInv, Progress, Started
<1>3. /\ from \in Nat /\ at \in Nat /\ to \in Int /\ left \in Nat /\ avail \in Nat
      /\ PageSize \in Nat /\ 2 * PageSize <= Space
  <2>1. 2 * PageSize <= Space
    <3>1. 2 <= Pages
      BY Geometry
    <3>2. 2 * PageSize <= Pages * PageSize /\ Pages * PageSize = Space
      <4>1. Pages * PageSize = PageSize * Pages
        BY Geometry, Z3
      <4> QED BY <3>1, <4>1, Monotone, Sizes DEF Space
    <3> QED BY <3>2
  <2> QED BY <1>2, <2>1, Sizes DEF Numbers
<1>4. /\ br \in Nat /\ br <= Space /\ br <= left /\ br <= avail /\ br <= 2 * PageSize
      /\ br < 2 * PageSize => br = Min(left, avail)
  BY <1>3, Sizes DEF Min
<1> HIDE DEF br
<1>5. /\ copied' = Image(at - 1)' /\ from' = from /\ to' = to /\ base_addr' = base_addr
  <2>1. CASE br > 0
    <3>1. \A a \in at .. at + br - 1 : Number(a) = (at - from) + (a - at)
      BY <1>1, <1>3, <1>4 DEF Number
    <3>2. at - from \in Int /\ br \in Nat \ {0} /\ br <= br
      BY <1>3, <1>4, <2>1
    <3> QED BY <1>1, <1>2, <1>4, <2>1, <3>1, <3>2, Continue
  <2>2. CASE ~(br > 0)
    <3>1. at' = at
      BY <1>1, <1>3, <1>4, <2>2
    <3>2. UNCHANGED <<from, to, banks, copied>>
      BY <1>1, <2>2
    <3> QED BY <1>1, <1>2, <3>1, <3>2 DEF Image, Place, Number, banks
  <2> QED BY <2>1, <2>2
<1>6. from' <= at'
  BY <1>1, <1>2, <1>3, <1>4, <1>5
<1>7. CASE br < 2 * PageSize
  <2>1. ended'
    BY <1>1, <1>7, Zenon
  <2>2. at' - 1 = to'
    BY <1>1, <1>2, <1>3, <1>4, <1>5, <1>7 DEF Min
  <2>3. copied' = {<<Place(a), a - from>> : a \in from .. to}'
    BY <1>1, <1>5, <2>2 DEF Image, Number
  <2> QED BY <1>1, <1>6, <2>1, <2>3 DEF Progress, Started, CommandExact
<1>8. CASE ~(br < 2 * PageSize)
  <2>1. ~ended'
    BY <1>1, <1>8, Zenon
  <2>2. to' + 1 = at' + Min(left, avail)'
    BY <1>1, <1>2, <1>3, <1>4, <1>5, <1>8 DEF Min
  <2> QED BY <1>1, <1>5, <1>6, <2>1, <2>2 DEF Progress, Started, CommandExact
<1> QED BY <1>7, <1>8

\* A piece of savehex.
LEMMA HexStep == IInv /\ HexPiece => Progress' /\ CommandExact'
<1> SUFFICES ASSUME IInv, HexPiece PROVE Progress' /\ CommandExact'
  OBVIOUS
<1> DEFINE end == to % Space
           count == IF at <= end + 1 /\ end + 1 - at <= Line THEN end + 1 - at ELSE Line
<1>1. /\ op = "savehex" /\ op' = op /\ ~ended /\ at' = at + count
      /\ ended' = (at + count > end) /\ Piece(count, count, at % Space)
  BY DEF HexPiece
<1> SUFFICES ASSUME to < Space, to' = to PROVE Progress' /\ CommandExact'
  BY <1>1 DEF Progress, Started, CommandExact, Piece
<1>2. /\ Numbers /\ from <= at /\ at <= to /\ from <= to /\ copied = Image(at - 1)
  BY <1>1 DEF IInv, Progress, Started
<1>3. /\ from \in Nat /\ at \in Nat /\ to \in Nat /\ Space \in Nat \ {0} /\ Line \in Nat \ {0}
      /\ Line <= Space
  <2>1. PageSize <= Space
    BY Geometry, Z3 DEF Space
  <2> QED BY <1>2, <2>1, Sizes, Geometry DEF Numbers
<1>4. end = to /\ at % Space = at
  <2>1. \A k \in 0 .. Space - 1 : k % Space = k
    BY <1>3
  <2> QED BY <1>2, <1>3, <2>1
<1>5. count = (IF to + 1 - at <= Line THEN to + 1 - at ELSE Line)
  <2> HIDE DEF end
  <2> QED BY <1>2, <1>3, <1>4
<1> HIDE DEF end, count
<1>6. count \in Nat \ {0} /\ count <= Space /\ count <= to + 1 - at /\ count <= count
  BY <1>2, <1>3, <1>5
<1>7. \A a \in at .. at + count - 1 : Number(a) = at + (a - at)
  BY <1>1, <1>3, <1>6 DEF Number
<1>8. copied' = Image(at - 1)' /\ from' = from /\ to' = to /\ base_addr' = base_addr
  <2>1. Piece(count, count, at) /\ at \in Int /\ count \in Nat
    BY <1>1, <1>3, <1>4, <1>6
  <2> QED BY <1>1, <1>2, <1>6, <1>7, <2>1, Continue
<1>9. CASE at + count > to
  <2>1. ended'
    BY <1>1, <1>4, <1>9, Zenon
  <2>2. at' - 1 = to' /\ from' <= at'
    BY <1>1, <1>2, <1>3, <1>6, <1>8, <1>9
  <2>3. copied' = {<<Place(a), a>> : a \in from .. to}'
    BY <1>1, <1>8, <2>2 DEF Image, Number
  <2> QED BY <1>1, <1>2, <1>8, <2>1, <2>2, <2>3 DEF Progress, Started, CommandExact
<1>10. CASE ~(at + count > to)
  <2>1. ~ended'
    BY <1>1, <1>4, <1>10, Zenon
  <2>2. from' <= at' /\ at' <= to'
    BY <1>1, <1>2, <1>3, <1>6, <1>8, <1>10
  <2> QED BY <1>1, <1>2, <1>8, <2>1, <2>2 DEF Progress, Started, CommandExact
<1> QED BY <1>9, <1>10

\* The steps that do not copy.
LEMMA BeginStep ==
  ASSUME NEW first \in Nat, NEW last \in Int, NEW len \in Nat, NEW size \in Nat,
         NEW what, IInv, NEW where \in {"cli", "run"}, Begin(where, what, first, last, len, size),
         what # "loadbin" => first <= last,
         what = "savebin" => len = PageSize,
         what = "loadbin" => last + 1 = first + Min(len, size),
         what \notin {"cli", "run"}
  PROVE  IInv'
<1>1. /\ op' = what /\ from' = first /\ to' = last /\ at' = first /\ left' = len
      /\ avail' = size /\ copied' = {} /\ ~ended' /\ base_addr' = base_addr /\ base_addr \in Nat
  BY DEF Begin, IInv, Idle, Numbers, banks
<1>2. Image(at - 1)' = {}
  BY <1>1 DEF Image
<1>3. (at' - from') % PageSize = 0
  <2>1. at' - from' = 0
    BY <1>1
  <2>2. 0 % PageSize = 0
    BY Sizes, Z3
  <2> QED BY <2>1, <2>2
<1>4. Numbers' /\ Idle' /\ CommandExact'
  BY <1>1 DEF Numbers, Idle, CommandExact
<1>5. Progress'
  BY <1>1, <1>2, <1>3, Sizes DEF Progress, Started
<1> QED BY <1>4, <1>5 DEF IInv

\* The commands of the user: they begin a copy, set the bank, start the Z80.
LEMMA CommandsStep == IInv /\ Commands => IInv'
<1> SUFFICES ASSUME IInv, Commands PROVE IInv'
  OBVIOUS
<1>0. /\ \A a \in User : a \in Nat
      /\ \A n \in Lengths : n \in Nat
      /\ PageSize \in Nat /\ 2 * Space * Banks \in Nat
  <2>1. 2 * Space * Banks \in Nat
    BY Sizes, Z3
  <2> QED BY <2>1, Geometry DEF User
<1>1. ASSUME NEW first \in User, NEW last \in User, first <= last,
             cli_fill(first, last) \/ cli_savebin(first, last) \/ save_ihex(first, last)
      PROVE  IInv'
  <2>1. first \in Nat /\ last \in Nat /\ last \in Int /\ 0 \in Nat /\ PageSize \in Nat
    BY <1>0
  <2>2. CASE cli_fill(first, last)
    BY <1>1, <2>1, <2>2, BeginStep DEF cli_fill
  <2>3. CASE cli_savebin(first, last)
    BY <1>1, <2>1, <2>3, BeginStep DEF cli_savebin
  <2>4. CASE save_ihex(first, last)
    BY <1>1, <2>1, <2>4, BeginStep DEF save_ihex
  <2> QED BY <1>1, <2>2, <2>3, <2>4
<1>2. ASSUME NEW first \in User, NEW len \in Lengths, NEW size \in Lengths,
             loadbin(first, len, size)
      PROVE  IInv'
  <2> DEFINE most == IF len = 0 THEN 2 * Space * Banks ELSE len
             last == first + Min(most, size) - 1
  <2>1. first \in Nat /\ most \in Nat /\ size \in Nat
    BY <1>0
  <2>2. Begin("cli", "loadbin", first, last, most, size)
    BY <1>2 DEF loadbin
  <2> HIDE DEF most
  <2>3. last \in Int /\ last + 1 = first + Min(most, size)
    BY <2>1 DEF Min
  <2> HIDE DEF last
  <2> QED BY <2>1, <2>2, <2>3, BeginStep
<1>3. ASSUME NEW b \in 0 .. Banks - 1, cli_base(b * Space) PROVE IInv'
  <2>1. b * Space \in Nat
    BY Sizes, Z3
  <2>2. /\ op = "cli" /\ op' = op /\ base_addr' = b * Space
        /\ UNCHANGED <<from, to, at, left, avail, copied, ended>>
    BY <1>3 DEF cli_base, range
  <2> QED BY <2>1, <2>2 DEF IInv, Numbers, Idle, Progress, Started, CommandExact
<1>4. ASSUME z80_reset \/ z80_run \/ Halted PROVE IInv'
  <2>1. /\ op \in {"cli", "run"} /\ op' \in {"cli", "run"}
        /\ UNCHANGED <<from, to, at, left, avail, copied, ended, base_addr>>
    BY <1>4 DEF z80_reset, z80_run, Halted, range, banks
  <2> QED BY <2>1 DEF IInv, Numbers, Idle, Progress, Started, CommandExact
<1> QED BY <1>1, <1>2, <1>3, <1>4 DEF Commands

\* A transfer that the program asks for.
LEMMA ProgramStep == IInv /\ Program => IInv'
<1> SUFFICES ASSUME IInv, Program PROVE IInv'
  OBVIOUS
<1>1. PICK addr \in 0 .. Space - 1, len \in Lengths, size \in Lengths :
         F_READ(addr, len, size) \/ F_WRITE(addr, len)
  BY DEF Program
<1>2. addr \in Nat /\ len \in Nat /\ size \in Nat
  BY Sizes, Geometry
<1>3. /\ op = "run" /\ op' \in {"read", "write"} /\ from' \in Nat /\ at' \in Nat /\ to' \in Int
      /\ left' \in Nat /\ avail' \in Nat /\ base_addr' = base_addr
  BY <1>1, <1>2 DEF F_READ, F_WRITE, Begin, Min, banks
<1> QED BY <1>3 DEF IInv, Numbers, Idle, Progress, Started, CommandExact

\* The pieces of every copy.
LEMMA LoopsStep == IInv /\ Loops => IInv'
<1> SUFFICES ASSUME IInv, Loops PROVE IInv'
  OBVIOUS
<1>0. Numbers /\ PageSize \in Nat /\ Space \in Nat \ {0} /\ Line \in Nat
  BY Sizes, Geometry DEF IInv
<1>1. CASE Return
  <2>1. /\ op' \in {"cli", "run"} /\ from' = 0 /\ to' = 0 /\ at' = 0 /\ left' = 0 /\ avail' = 0
        /\ copied' = {} /\ ~ended' /\ base_addr' = base_addr
    BY <1>1 DEF Return, banks
  <2> QED BY <1>0, <2>1 DEF IInv, Numbers, Idle, Progress, Started, CommandExact
<1>2. CASE FillPiece
  <2>1. Numbers' /\ Idle'
    BY <1>0, <1>2 DEF FillPiece, Piece, Numbers, Idle
  <2> QED BY <1>2, <2>1, FillStep DEF IInv
<1>3. CASE SavePiece
  <2>1. op = "savebin" /\ ~ended /\ at' = at + Min(to - at + 1, left) /\ left' = Min(to - at + 1, left)
    BY <1>3 DEF SavePiece
  <2>2. at <= to
    BY <2>1 DEF IInv, Progress, Started
  <2>3. Numbers' /\ Idle'
    BY <1>0, <1>3, <2>1, <2>2 DEF SavePiece, Piece, Numbers, Idle, Min
  <2> QED BY <1>3, <2>3, SaveStep DEF IInv
<1>4. CASE LoadPiece
  <2>1. Numbers' /\ Idle'
    BY <1>0, <1>4 DEF LoadPiece, Piece, Numbers, Idle, Min, banks
  <2> QED BY <1>4, <2>1, LoadStep DEF IInv
<1>5. CASE HexPiece
  <2> DEFINE end == to % Space
             count == IF at <= end + 1 /\ end + 1 - at <= Line THEN end + 1 - at ELSE Line
  <2>1. end \in Int
    BY <1>0, Z3 DEF Numbers
  <2>2. at' = at + count /\ Piece(count, count, at % Space) /\ op = "savehex" /\ UNCHANGED <<op, left, avail>>
    BY <1>5 DEF HexPiece
  <2> HIDE DEF end
  <2>3. count \in Nat
    BY <1>0, <2>1 DEF Numbers
  <2> HIDE DEF count
  <2>4. Numbers' /\ Idle'
    BY <1>0, <2>2, <2>3 DEF Piece, Numbers, Idle
  <2> QED BY <1>5, <2>4, HexStep DEF IInv
<1>6. CASE ReadPiece
  <2>1. op = "read" /\ op' = op /\ left' \in Nat /\ avail' \in Nat /\ at' \in Nat
    BY <1>0, <1>6, Sizes, Z3 DEF ReadPiece, Min, Numbers
  <2>2. Numbers' /\ Idle'
    BY <1>0, <1>6, <2>1 DEF ReadPiece, DmaPiece, Numbers, Idle, banks
  <2> QED BY <2>1, <2>2 DEF IInv, Progress, Started, CommandExact
<1>7. CASE WritePiece
  <2>1. op' \in {"write", "lost"} /\ left' \in Nat /\ avail' = avail /\ at' \in Nat
    <3>1. op' \in {"write", "lost"}
      BY <1>7 DEF WritePiece
    <3> QED BY <1>0, <1>7, <3>1, Sizes, Z3 DEF WritePiece, Min, Numbers
  <2>2. Numbers' /\ Idle'
    BY <1>0, <1>7, <2>1 DEF WritePiece, DmaPiece, Numbers, Idle, banks
  <2> QED BY <2>1, <2>2 DEF IInv, Progress, Started, CommandExact
<1>8. CASE Lost
  BY <1>8 DEF Lost, vars, IInv, Numbers, Idle, Progress, Started, CommandExact
<1> QED BY <1>1, <1>2, <1>3, <1>4, <1>5, <1>6, <1>7, <1>8 DEF Loops

\* The invariant of the commands holds of every behaviour.
THEOREM Inductive == Spec => []IInv
<1>1. Init => IInv
  BY DEF Init, IInv, Numbers, Idle, Progress, Started, CommandExact
<1>2. IInv /\ [Next]_vars => IInv'
  <2>1. IInv /\ UNCHANGED vars => IInv'
    BY DEF vars, IInv, Numbers, Idle, Progress, Started, CommandExact, Image, Number, Place,
           Filled, OneMore
  <2> QED BY <2>1, CommandsStep, ProgramStep, LoopsStep DEF Next
<1> QED BY <1>1, <1>2, PTL DEF Spec

\* loadbin and savebin copy their ranges exactly, for every size of page and bank
\* and every range that they can be given; so does savehex, for every size of a
\* record, when the range ends in the first 64K, and fill, but for the last byte of a
\* range of a number of buffers and one byte.
THEOREM CommandsCopy == Spec => []CommandExact
<1>1. IInv => CommandExact
  BY DEF IInv
<1> QED BY <1>1, Inductive, PTL
-----------------------------------------------------------------------------
(* F_READ and F_WRITE.                                                     *)

\* What is copied up to an address, in the bank that is selected.
DmaImage(last) == {<<mem_banks * Space + a, a - from>> : a \in from .. last}

\* How far a transfer has come: it has moved a whole number of buffers.
Transfer ==
    op \in {"read", "write"} /\ ~ended =>
        /\ from <= at /\ at < Space /\ at + left <= Space /\ copied = DmaImage(at - 1)
        /\ op = "write" => to + 1 = at + left /\ (left > 0 \/ at = from)
        /\ op = "read" => /\ to + 1 = at + Min(left, avail)
                          /\ (at - from) % (2 * PageSize) = 0
                          /\ left > 0 \/ at = from

\* Only a command changes the bank that z80_reset selected.
Selected == strayed \/ mem_banks = home

DInv == IInv /\ Selected /\ Transfer /\ DmaExact

\* A page has no byte before the beginning of its buffer, whatever the range.
LEMMA IteratePositive ==
  ASSUME NEW start \in 0 .. Space - 1, NEW end \in Int, NEW p \in mem_iterate(start, end)
  PROVE  p[2] \in Nat
<1> DEFINE starthi == start \div PageSize  startlo == start % PageSize
           endhi == end \div PageSize      endlo == end % PageSize
           second == (starthi + 1) % Pages
           last == IF second < endhi THEN endhi ELSE second
<1>1. /\ starthi \in Nat /\ startlo \in 0 .. PageSize - 1
  <2>1. start \in Nat
    BY Sizes
  <2> QED BY <2>1, Divide, Sizes
<1>2. endhi \in Int
  BY Sizes, Z3
<1>3. second \in Nat
  <2> HIDE DEF starthi
  <2> QED BY <1>1, Sizes
<1>4. endlo \in Int
  BY Sizes, Z3
<1>5. mem_iterate(start, end) =
        IF starthi = endhi THEN PageCopy(starthi, startlo, endlo, 0)
        ELSE PageCopy(starthi, startlo, PageSize - 1, 0)
             \cup (UNION {PageCopy(q, 0, PageSize - 1, Buf(startlo, q - second)) :
                             q \in second .. last - 1})
             \cup PageCopy(last, 0, endlo, Buf(startlo, last - second))
  BY DEF mem_iterate
<1> HIDE DEF starthi, startlo, endhi, endlo, second
<1>6. last \in Int /\ last - second \in Nat
  BY <1>2, <1>3
<1> HIDE DEF last
<1>7. ASSUME NEW page, NEW lo \in Int, NEW hi \in Int, NEW buf \in Nat, NEW q \in PageCopy(page, lo, hi, buf)
      PROVE  q[2] \in Nat
  BY DEF PageCopy
<1>8. ASSUME NEW n \in Nat PROVE Buf(startlo, n) \in Nat
  <2>1. n * PageSize \in Nat
    BY Sizes, Z3
  <2> QED BY <1>1, <2>1, Sizes DEF Buf
<1>9. CASE starthi = endhi
  BY <1>1, <1>4, <1>5, <1>7, <1>9
<1>10. CASE starthi # endhi
  <2>1. CASE p \in PageCopy(starthi, startlo, PageSize - 1, 0)
    BY <1>1, <1>7, <2>1, Sizes
  <2>2. CASE \E q \in second .. last - 1 :
                p \in PageCopy(q, 0, PageSize - 1, Buf(startlo, q - second))
    <3>1. PICK q \in second .. last - 1 :
                p \in PageCopy(q, 0, PageSize - 1, Buf(startlo, q - second))
      BY <2>2
    <3>2. q - second \in Nat
      BY <1>3, <1>6
    <3>3. Buf(startlo, q - second) \in Nat
      BY <1>8, <3>2
    <3>4. 0 \in Int /\ PageSize - 1 \in Int
      BY Sizes
    <3> QED BY <1>7, <3>1, <3>3, <3>4
  <2>3. CASE p \in PageCopy(last, 0, endlo, Buf(startlo, last - second))
    <3>1. Buf(startlo, last - second) \in Nat
      BY <1>6, <1>8
    <3> QED BY <1>4, <1>7, <2>3, <3>1
  <2> QED BY <1>5, <1>10, <2>1, <2>2, <2>3
<1> QED BY <1>9, <1>10

\* The places of a span.
LEMMA SpanPlaces ==
  ASSUME NEW first, NEW last, NEW base, NEW a
  PROVE  (\E p \in Span(first, last, base) : p[1] = a) <=> a \in first .. last
<1>1. ASSUME NEW p \in Span(first, last, base), p[1] = a PROVE a \in first .. last
  <2>1. PICK b \in first .. last : p = <<b, b - base>>
    BY DEF Span
  <2> QED BY <1>1, <2>1
<1>2. ASSUME a \in first .. last PROVE \E p \in Span(first, last, base) : p[1] = a
  <2>1. <<a, a - base>> \in Span(first, last, base)
    BY <1>2 DEF Span
  <2>2. <<a, a - base>>[1] = a
    OBVIOUS
  <2> QED BY <2>1, <2>2
<1> QED BY <1>1, <1>2

\* The places of a whole page.
LEMMA PagePlaces ==
  ASSUME NEW page \in Nat, NEW buf \in Int
  PROVE  /\ page * PageSize \in Nat
         /\ \A a : (\E p \in PageCopy(page, 0, PageSize - 1, buf) : p[1] = a)
                     <=> a \in page * PageSize .. page * PageSize + PageSize - 1
<1> DEFINE first == page * PageSize
<1>1. first \in Nat /\ 0 \in 0 .. PageSize - 1 /\ PageSize - 1 \in 0 .. PageSize - 1
  BY Sizes, Z3
<1>2. PageCopy(page, 0, PageSize - 1, buf) = Span(first, first + PageSize - 1, first - buf)
  <2>1. PageCopy(page, 0, PageSize - 1, page * PageSize + 0 - (first - buf))
          = Span(page * PageSize + 0, page * PageSize + (PageSize - 1), first - buf)
    <3>1. first - buf \in Int
      BY <1>1
    <3> HIDE DEF first
    <3> QED BY <1>1, <3>1, PageSpan
  <2> HIDE DEF first
  <2>2. first + 0 - (first - buf) = buf /\ first + 0 = first
        /\ first + (PageSize - 1) = first + PageSize - 1
    BY <1>1, Sizes
  <2> QED BY <2>1, <2>2 DEF first
<1> HIDE DEF first
<1>3. \A a : (\E p \in Span(first, first + PageSize - 1, first - buf) : p[1] = a)
               <=> a \in first .. first + PageSize - 1
  BY SpanPlaces
<1> QED BY <1>1, <1>2, <1>3 DEF first

\* The places of no bytes: the loops run at least once.
LEMMA IterateEmpty ==
  ASSUME NEW start \in 0 .. Space - 1
  PROVE  \A a : (\E p \in mem_iterate(start, (start - 1) % Space) : p[1] = a)
                  <=> a \in Touched(start)
<1> DEFINE end == (start - 1) % Space
           q == start \div PageSize  lo == start % PageSize
<1>1. /\ start \in Nat /\ start < Space /\ Space \in Nat \ {0}
      /\ PageSize \in Nat \ {0} /\ Pages \in Nat /\ Pages >= 2
  BY Sizes, Geometry
<1>2. start = q * PageSize + lo /\ q \in Nat /\ lo \in 0 .. PageSize - 1 /\ q * PageSize \in Nat
  <2>1. start = q * PageSize + lo /\ q \in Nat /\ lo \in 0 .. PageSize - 1
    BY <1>1, Divide
  <2> HIDE DEF q, lo
  <2>2. q * PageSize \in Nat
    BY <1>1, <2>1, Z3
  <2> QED BY <2>1, <2>2
<1>3. /\ Space = Pages * PageSize
      /\ q < Pages
  <2>1. Space = Pages * PageSize
    BY <1>1, Z3 DEF Space
  <2> HIDE DEF q, lo
  <2>2. q >= Pages => Pages * PageSize <= q * PageSize
    BY <1>1, <1>2, Monotone
  <2> QED BY <1>1, <1>2, <2>1, <2>2
<1>4. start > 0 => end = start - 1
  <2>1. \A k \in 0 .. Space - 1 : k % Space = k
    BY <1>1
  <2> QED BY <1>1, <2>1
<1>5. CASE lo # 0
  <2>1. end = q * PageSize + (lo - 1) /\ lo - 1 \in 0 .. PageSize - 1
    <3> HIDE DEF q, lo, end
    <3> QED BY <1>1, <1>2, <1>4, <1>5
  <2>2. end \div PageSize = q /\ end % PageSize = lo - 1
    <3> HIDE DEF q, lo, end
    <3> QED BY <1>1, <1>2, <2>1, DivideSum
  <2>3. mem_iterate(start, end) = PageCopy(q, lo, lo - 1, 0)
    BY <2>2 DEF mem_iterate
  <2>4. PageCopy(q, lo, lo - 1, 0) = {<<start, 0>>}
    <3> HIDE DEF q, lo, end
    <3>1. ~(lo <= lo - 1) /\ 0 .. 0 = {0} /\ q * PageSize + lo + 0 = start
      BY <1>1, <1>2
    <3> QED BY <3>1 DEF PageCopy
  <2>5. Touched(start) = {start}
    BY <1>5 DEF Touched
  <2> HIDE DEF q, lo, end
  <2>6. <<start, 0>>[1] = start /\ mem_iterate(start, end) = {<<start, 0>>}
    BY <2>3, <2>4
  <2>7. \A a : (\E p \in {<<start, 0>>} : p[1] = a) <=> a \in {start}
    BY <2>6
  <2> QED BY <2>5, <2>6, <2>7 DEF end
<1>6. CASE lo = 0 /\ q = 0
  <2>1. start = 0 /\ end = Space - 1
    <3>1. start = 0
      <4> HIDE DEF q, lo
      <4> QED BY <1>1, <1>2, <1>6, Z3
    <3>2. (0 - 1) % Space = Space - 1
      BY <1>1, Z3
    <3> QED BY <3>1, <3>2
  <2>2. mem_iterate(start, end) = Span(start, end, start)
    <3> HIDE DEF end
    <3> QED BY <1>1, <2>1, IterateExact
  <2>3. Touched(start) = 0 .. Space - 1
    <3>1. start % PageSize = 0
      BY <1>6
    <3> QED BY <2>1, <3>1 DEF Touched
  <2> HIDE DEF end
  <2>4. \A a : (\E p \in Span(start, end, start) : p[1] = a) <=> a \in 0 .. Space - 1
    BY <2>1, SpanPlaces
  <2> QED BY <2>2, <2>3, <2>4 DEF end
<1>7. CASE lo = 0 /\ q # 0
  <2>0. start = q * PageSize /\ start % PageSize = 0
    <3>1. start = q * PageSize
      <4> HIDE DEF q, lo
      <4> QED BY <1>1, <1>2, <1>7
    <3> QED BY <1>7, <3>1
  <2>1. end = (q - 1) * PageSize + (PageSize - 1) /\ q - 1 \in Nat /\ start > 0 /\ (q - 1) * PageSize \in Nat
    <3> HIDE DEF q, lo, end
    <3>1. q - 1 \in Nat /\ (q - 1) + 1 = q
      BY <1>2, <1>7
    <3>2. q * PageSize = (q - 1) * PageSize + PageSize
      BY <1>1, <3>1, NextMultiple
    <3>3. (q - 1) * PageSize \in Nat
      BY <1>1, <3>1, Z3
    <3> QED BY <1>1, <1>4, <2>0, <3>1, <3>2, <3>3
  <2>2. end \div PageSize = q - 1 /\ end % PageSize = PageSize - 1
    <3> HIDE DEF q, lo, end
    <3>1. PageSize - 1 \in 0 .. PageSize - 1
      BY <1>1
    <3> QED BY <1>1, <2>1, <3>1, DivideSum
  <2> DEFINE second == (q + 1) % Pages
             last == IF second < q - 1 THEN q - 1 ELSE second
  <2>3. mem_iterate(start, end) =
          PageCopy(q, 0, PageSize - 1, 0)
          \cup (UNION {PageCopy(p, 0, PageSize - 1, Buf(0, p - second)) : p \in second .. last - 1})
          \cup PageCopy(last, 0, PageSize - 1, Buf(0, last - second))
    <3>1. q # q - 1
      BY <1>2
    <3> HIDE DEF second, last
    <3>2. mem_iterate(start, end) =
            IF q = q - 1 THEN PageCopy(q, lo, PageSize - 1, 0)
            ELSE PageCopy(q, lo, PageSize - 1, 0)
                 \cup (UNION {PageCopy(p, 0, PageSize - 1, Buf(lo, p - second)) :
                                 p \in second .. last - 1})
                 \cup PageCopy(last, 0, PageSize - 1, Buf(lo, last - second))
      BY <2>2 DEF mem_iterate, second, last
    <3> QED BY <1>7, <3>1, <3>2
  <2>4. /\ second \in Nat /\ last \in Nat /\ second <= last
        /\ q = Pages - 1 => second = 0 /\ last = q - 1
        /\ q # Pages - 1 => second = q + 1 /\ last = q + 1
    <3> HIDE DEF q, lo, end
    <3>1. q = Pages - 1 => second = 0
      <4>1. Pages % Pages = 0
        BY <1>1, Z3
      <4>2. q = Pages - 1 => q + 1 = Pages
        BY <1>1
      <4> QED BY <4>1, <4>2
    <3>2. q # Pages - 1 => second = q + 1
      <4>1. \A k \in 0 .. Pages - 1 : k % Pages = k
        BY <1>1
      <4>2. q # Pages - 1 => q + 1 \in 0 .. Pages - 1
        BY <1>1, <1>2, <1>3
      <4> QED BY <4>1, <4>2
    <3>3. CASE q = Pages - 1
      <4>1. second = 0 /\ q - 1 \in Nat /\ Pages - 1 \in Nat
        BY <1>1, <2>1, <3>1, <3>3
      <4> HIDE DEF second
      <4>2. last = q - 1
        BY <4>1
      <4> QED BY <3>3, <4>1, <4>2
    <3>4. CASE q # Pages - 1
      <4>1. second = q + 1
        BY <3>2, <3>4
      <4> HIDE DEF second
      <4>2. last = q + 1
        BY <1>2, <4>1
      <4> QED BY <1>2, <3>4, <4>1, <4>2
    <3> QED BY <3>3, <3>4
  <2> HIDE DEF q, lo, end, second, last
  <2>5. \A n, m \in Nat : Buf(0, n) \in Int
    <3>1. \A n \in Nat : n * PageSize \in Int
      BY <1>1, Z3
    <3> QED BY <1>1, <3>1 DEF Buf
  <2> DEFINE Page(p) == p * PageSize .. p * PageSize + PageSize - 1
  <2>6. \A a : (\E p \in mem_iterate(start, end) : p[1] = a)
                 <=> \E p \in {q} \cup (second .. last) : a \in Page(p)
    <3> TAKE a
    <3>1. \A p \in second .. last : p \in Nat /\ Buf(0, p - second) \in Int
      <4>1. \A p \in second .. last : p \in Nat /\ p - second \in Nat
        BY <2>4
      <4> QED BY <2>5, <4>1
    <3>2. \A p \in second .. last :
            (\E e \in PageCopy(p, 0, PageSize - 1, Buf(0, p - second)) : e[1] = a) <=> a \in Page(p)
      BY <3>1, PagePlaces
    <3>3. (\E e \in PageCopy(q, 0, PageSize - 1, 0) : e[1] = a) <=> a \in Page(q)
      BY <1>2, PagePlaces
    <3>4. /\ second .. last = (second .. last - 1) \cup {last}
          /\ last \in second .. last
      BY <2>4
    <3> HIDE DEF Page
    <3>5. (\E e \in UNION {PageCopy(p, 0, PageSize - 1, Buf(0, p - second)) : p \in second .. last - 1} :
              e[1] = a) <=> \E p \in second .. last - 1 : a \in Page(p)
      BY <3>2, <3>4
    <3>6. (\E e \in PageCopy(last, 0, PageSize - 1, Buf(0, last - second)) : e[1] = a) <=> a \in Page(last)
      BY <3>2, <3>4
    <3> QED BY <2>3, <3>3, <3>4, <3>5, <3>6
  <2>7. CASE q = Pages - 1
    <3>1. Touched(start) = 0 .. Space - 1
      <4>1. start = Space - PageSize
        <5>1. (q + 1) * PageSize = q * PageSize + PageSize /\ q + 1 = Pages
          BY <1>1, <1>2, <2>7, NextMultiple
        <5> QED BY <1>1, <1>2, <1>3, <2>0, <5>1
      <4> QED BY <2>0, <4>1 DEF Touched
    <3>2. {q} \cup (second .. last) = 0 .. Pages - 1
      BY <1>1, <1>2, <2>1, <2>4, <2>7
    <3>3. ASSUME NEW a PROVE (\E p \in 0 .. Pages - 1 : a \in Page(p)) <=> a \in 0 .. Space - 1
      <4>1. 0 * PageSize = 0
        BY <1>1, Z3
      <4>2. UNION {Span(p * PageSize, p * PageSize + PageSize - 1, 0) : p \in 0 .. Pages - 1}
               = Span(0, Space - 1, 0)
        BY <1>1, <1>3, <4>1, WholePages
      <4>3. \A x, y \in Int : a \in x .. y <=> <<a, a - 0>> \in Span(x, y, 0)
        BY DEF Span
      <4>4. \A p \in 0 .. Pages - 1 : p * PageSize \in Int /\ p * PageSize + PageSize - 1 \in Int
        <5>1. \A p \in Nat : p * PageSize \in Nat
          BY <1>1, Z3
        <5> QED BY <1>1, <5>1
      <4>5. \A p \in 0 .. Pages - 1 : a \in Page(p) <=>
                <<a, a - 0>> \in Span(p * PageSize, p * PageSize + PageSize - 1, 0)
        BY <4>3, <4>4
      <4>6. a \in 0 .. Space - 1 <=> <<a, a - 0>> \in Span(0, Space - 1, 0)
        BY <1>1, <4>3
      <4> HIDE DEF Page
      <4> QED BY <4>2, <4>5, <4>6
    <3> QED BY <2>6, <3>1, <3>2, <3>3 DEF end
  <2>8. CASE q # Pages - 1
    <3>1. Touched(start) = start .. start + 2 * PageSize - 1
      <4>1. start # Space - PageSize
        <5>1. q + 1 \in Nat /\ q + 1 < Pages
          BY <1>1, <1>2, <1>3, <2>8
        <5>2. (q + 1) * PageSize + PageSize <= Pages * PageSize /\ (q + 1) * PageSize = q * PageSize + PageSize
          BY <1>1, <1>2, <5>1, Before, NextMultiple
        <5> QED BY <1>1, <1>2, <1>3, <2>0, <5>2
      <4>2. start \notin {0, Space - PageSize}
        BY <2>1, <4>1
      <4> QED BY <2>0, <4>2 DEF Touched
    <3>2. {q} \cup (second .. last) = {q, q + 1}
      BY <1>2, <2>4, <2>8
    <3>3. (q + 1) * PageSize = start + PageSize
      BY <1>1, <1>2, <2>0, NextMultiple
    <3>4. \A a : a \in Page(q) \/ a \in Page(q + 1) <=> a \in start .. start + 2 * PageSize - 1
      <4>1. Page(q) = start .. start + PageSize - 1
            /\ Page(q + 1) = start + PageSize .. start + PageSize + PageSize - 1
        BY <2>0, <3>3
      <4> HIDE DEF Page
      <4> QED BY <1>1, <4>1
    <3> HIDE DEF Page
    <3> QED BY <2>6, <3>1, <3>2, <3>4 DEF end
  <2> QED BY <2>7, <2>8
<1> QED BY <1>2, <1>5, <1>6, <1>7

\* What an empty piece adds.
Spill(addr) == {<<mem_banks * Space + a, Junk>> : a \in Touched(addr)}

\* A piece continues the copy; one of no bytes brings the junk of its places.
LEMMA DmaContinue ==
  ASSUME Numbers, NEW n \in Nat, from <= at, n <= 2 * PageSize, at + n <= Space, at < Space,
         copied = DmaImage(at - 1), DmaPiece(n, n, at - from)
  PROVE  /\ from' = from /\ to' = to /\ UNCHANGED banks
         /\ n > 0 => copied' = DmaImage(at + n - 1)
         /\ n = 0 => copied' = DmaImage(at - 1) \cup Spill(at)
<1> DEFINE end == (at + n - 1) % Space
           pairs == In(mem_banks, mem_iterate(at, end), 0)
           Byte(k) == IF k < n THEN at - from + k ELSE Junk
           new == {<<p[1], Byte(p[2])>> : p \in pairs}
<1>1. /\ from \in Nat /\ at \in Nat /\ Space \in Nat \ {0} /\ at - from \in Nat /\ PageSize \in Nat
      /\ at \in 0 .. Space - 1
  BY Sizes DEF Numbers
<1>2. /\ from' = from /\ to' = to /\ UNCHANGED banks /\ copied' = copied \cup new
  BY DEF DmaPiece
<1>4. CASE n > 0
  <2>1. end = at + n - 1
    <3>1. \A k \in 0 .. Space - 1 : k % Space = k
      BY <1>1
    <3>2. at + n - 1 \in 0 .. Space - 1
      BY <1>1, <1>4
    <3> QED BY <3>1, <3>2
  <2> HIDE DEF end
  <2>2. mem_iterate(at, end) = Span(at, end, at)
    <3>1. end \in Nat /\ at <= end /\ end < Space
      BY <1>1, <1>4, <2>1
    <3> QED BY <1>1, <3>1, IterateExact
  <2>3. ASSUME NEW a \in at .. end
        PROVE  <<mem_banks * Space + a, a - from>> \in new
    <3> DEFINE q == <<a, a - at>>
               p == <<mem_banks * Space + q[1], 0 + q[2]>>
    <3>1. q \in Span(at, end, at)
      BY DEF Span
    <3>2. p \in pairs
      <4> HIDE DEF q
      <4> QED BY <2>2, <3>1 DEF In
    <3>3. p[1] = mem_banks * Space + a /\ p[2] = a - at /\ Byte(p[2]) = a - from
      <4>1. 0 + (a - at) = a - at /\ a - at < n /\ at - from + (a - at) = a - from
        BY <1>1, <2>1
      <4> QED BY <4>1
    <3> HIDE DEF p, q, pairs, Byte
    <3> QED BY <3>2, <3>3
  <2>4. ASSUME NEW e \in new PROVE \E a \in at .. end : e = <<mem_banks * Space + a, a - from>>
    <3>1. PICK p \in pairs : e = <<p[1], Byte(p[2])>>
      OBVIOUS
    <3>2. PICK q \in Span(at, end, at) : p = <<mem_banks * Space + q[1], 0 + q[2]>>
      BY <2>2, <3>1 DEF In
    <3>3. PICK a \in at .. end : q = <<a, a - at>>
      BY <3>2 DEF Span
    <3>4. 0 + (a - at) = a - at /\ a - at < n /\ at - from + (a - at) = a - from
      BY <1>1, <2>1, <3>3
    <3>5. p[1] = mem_banks * Space + a /\ p[2] = a - at
      BY <3>2, <3>3, <3>4
    <3> QED BY <3>1, <3>4, <3>5
  <2> HIDE DEF new
  <2>5. (from .. at - 1) \cup (at .. end) = from .. end
    BY <1>1, <1>4, <2>1
  <2>6. new = {<<mem_banks * Space + a, a - from>> : a \in at .. end}
    BY <2>3, <2>4
  <2>7. copied' = DmaImage(end)
    BY <1>2, <2>5, <2>6 DEF DmaImage
  <2> QED BY <1>2, <1>4, <2>1, <2>7
<1>5. CASE n = 0
  <2>1. end = (at - 1) % Space /\ end \in Int
    <3>1. at + n - 1 = at - 1
      BY <1>1, <1>5
    <3> QED BY <1>1, <3>1, Z3
  <2> HIDE DEF end
  <2>2. ASSUME NEW e \in new PROVE e \in Spill(at)
    <3>1. PICK p \in pairs : e = <<p[1], Byte(p[2])>>
      OBVIOUS
    <3>2. PICK q \in mem_iterate(at, end) : p = <<mem_banks * Space + q[1], 0 + q[2]>>
      BY <3>1 DEF In
    <3>3. q[2] \in Nat
      BY <1>1, <2>1, <3>2, IteratePositive
    <3>4. p[2] \in Nat /\ p[1] = mem_banks * Space + q[1]
      BY <3>2, <3>3
    <3>5. Byte(p[2]) = Junk
      BY <1>5, <3>4
    <3>6. q[1] \in Touched(at)
      BY <1>1, <2>1, <3>2, IterateEmpty
    <3> QED BY <3>1, <3>4, <3>5, <3>6 DEF Spill
  <2>3. ASSUME NEW a \in Touched(at) PROVE <<mem_banks * Space + a, Junk>> \in new
    <3>1. PICK q \in mem_iterate(at, end) : q[1] = a
      BY <1>1, <2>1, IterateEmpty
    <3> DEFINE p == <<mem_banks * Space + q[1], 0 + q[2]>>
    <3>2. q[2] \in Nat
      BY <1>1, <2>1, <3>1, IteratePositive
    <3>3. p \in pairs
      BY DEF In
    <3>4. p[1] = mem_banks * Space + a /\ Byte(p[2]) = Junk
      BY <1>5, <3>1, <3>2
    <3> HIDE DEF p, pairs, Byte
    <3> QED BY <3>3, <3>4
  <2> HIDE DEF new
  <2>4. new = Spill(at)
    BY <2>2, <2>3 DEF Spill
  <2> QED BY <1>2, <1>5, <2>4
<1> QED BY <1>4, <1>5

\* What is copied at the end, in the bank that is selected then.
LEMMA Exact ==
  ASSUME Selected', UNCHANGED <<from, to, banks>>,
         copied' = DmaImage(to) \cup (IF EmptyPiece' THEN Spill(to + 1) ELSE {})
  PROVE  DmaExact'
<1>1. (IF strayed' THEN mem_banks' ELSE home') = mem_banks /\ from' = from /\ to' = to
  BY DEF Selected, banks
<1> DEFINE bank == IF strayed' THEN mem_banks' ELSE home'
<1>2. copied' = {<<bank * Space + a, a - from'>> : a \in from' .. to'}
                \cup {<<bank * Space + a, Junk>> : a \in IF EmptyPiece' THEN Touched(to' + 1) ELSE {}}
  <2> HIDE DEF bank
  <2>1. bank = mem_banks
    BY <1>1 DEF bank
  <2> QED BY <1>1, <2>1 DEF DmaImage, Spill
<1> QED BY <1>2, <1>1 DEF DmaExact

\* Each piece of a transfer keeps the invariant.
LEMMA ReadStep == DInv /\ ReadPiece => Selected' /\ Transfer' /\ DmaExact'
<1> SUFFICES ASSUME DInv, ReadPiece PROVE Selected' /\ Transfer' /\ DmaExact'
  OBVIOUS
<1> DEFINE btr1 == Min(left, 2 * PageSize)
           br1 == Min(btr1, avail)
<1>1. /\ op = "read" /\ op' = op /\ ~ended /\ DmaPiece(br1, br1, at - from)
      /\ left' = left - br1 /\ avail' = avail - br1 /\ at' = (at + br1) % Space
      /\ ended' = (left = br1 \/ br1 < btr1)
  BY DEF ReadPiece
<1>2. /\ Numbers /\ from <= at /\ at < Space /\ at + left <= Space /\ copied = DmaImage(at - 1)
      /\ to + 1 = at + Min(left, avail) /\ (at - from) % (2 * PageSize) = 0
      /\ left > 0 \/ at = from
  BY <1>1 DEF DInv, IInv, Transfer
<1>3. /\ from \in Nat /\ at \in Nat /\ to \in Int /\ left \in Nat /\ avail \in Nat
      /\ PageSize \in Nat \ {0} /\ Space \in Nat \ {0}
  BY <1>2, Sizes DEF Numbers
<1>4. /\ br1 \in Nat /\ btr1 \in Nat /\ br1 <= left /\ br1 <= avail /\ br1 <= btr1 /\ btr1 <= 2 * PageSize
      /\ br1 < btr1 => br1 = avail
      /\ btr1 = left \/ (btr1 = 2 * PageSize /\ btr1 < left)
  BY <1>3 DEF Min
<1> HIDE DEF br1, btr1
<1>5. /\ from' = from /\ to' = to /\ UNCHANGED banks
      /\ br1 > 0 => copied' = DmaImage(at + br1 - 1)
      /\ br1 = 0 => copied' = DmaImage(at - 1) \cup Spill(at)
  <2>1. br1 <= 2 * PageSize /\ at + br1 <= Space
    BY <1>2, <1>3, <1>4
  <2> QED BY <1>1, <1>2, <1>4, <2>1, DmaContinue
<1>6. \A last : DmaImage(last)' = {<<mem_banks * Space + a, a - from>> : a \in from .. last}'
  BY DEF DmaImage
<1>7. Selected'
  BY <1>5 DEF DInv, Selected, banks
<1>8. CASE left = br1 \/ br1 < btr1
  <2>1. ended'
    BY <1>1, <1>8, Zenon
  <2>2. at + br1 - 1 = to
    BY <1>2, <1>3, <1>4, <1>8 DEF Min
  <2>3. br1 = 0 <=> EmptyPiece'
    <3>1. ASSUME br1 = 0 PROVE EmptyPiece'
      <4>1. to - from + 1 = at - from /\ left' = left /\ (at = from => to < from)
        BY <1>1, <1>3, <2>2, <3>1
      <4> QED BY <1>2, <1>3, <1>5, <4>1 DEF EmptyPiece
    <3>2. ASSUME br1 > 0 PROVE ~EmptyPiece'
      <4>1. to - from + 1 = (at - from) + br1 /\ ~(to < from) /\ at - from \in Nat
        BY <1>2, <1>3, <1>4, <2>2, <3>2
      <4>2. CASE left = br1
        <5>1. ~(left' > 0)
          BY <1>1, <1>3, <4>2
        <5> QED BY <1>5, <4>1, <5>1 DEF EmptyPiece
      <4>3. CASE br1 < btr1
        <5>1. br1 \in 0 .. 2 * PageSize - 1 /\ 2 * PageSize \in Nat \ {0}
          BY <1>3, <1>4, <4>3
        <5>2. (at - from + br1) % (2 * PageSize) = br1
          BY <1>2, <4>1, <5>1, Offset
        <5> QED BY <1>5, <3>2, <4>1, <5>2 DEF EmptyPiece
      <4> QED BY <1>8, <4>2, <4>3
    <3> QED BY <1>4, <3>1, <3>2
  <2>4. copied' = DmaImage(to) \cup (IF EmptyPiece' THEN Spill(to + 1) ELSE {})
    <3>1. CASE br1 = 0
      <4>1. to = at - 1 /\ to + 1 = at
        BY <1>3, <2>2, <3>1
      <4> QED BY <1>5, <2>3, <3>1, <4>1
    <3>2. CASE br1 # 0
      <4>1. br1 > 0
        BY <1>4, <3>2
      <4> QED BY <1>5, <2>2, <2>3, <3>2, <4>1
    <3> QED BY <3>1, <3>2
  <2>5. DmaExact'
    BY <1>5, <1>7, <2>4, Exact
  <2> QED BY <1>1, <1>7, <2>1, <2>5 DEF Transfer
<1>9. CASE ~(left = br1 \/ br1 < btr1)
  <2>1. ~ended'
    BY <1>1, <1>9, Zenon
  <2>2. br1 = 2 * PageSize /\ br1 < left /\ br1 > 0
    BY <1>3, <1>4, <1>9
  <2>3. at' = at + br1
    <3>1. \A k \in 0 .. Space - 1 : k % Space = k
      BY <1>3
    <3>2. at + br1 \in 0 .. Space - 1
      BY <1>2, <1>3, <1>4, <2>2
    <3> QED BY <1>1, <3>1, <3>2
  <2>4. /\ from' <= at' /\ at' < Space /\ at' + left' <= Space /\ left' > 0
        /\ to' + 1 = at' + Min(left, avail)'
    BY <1>1, <1>2, <1>3, <1>4, <1>5, <2>2, <2>3 DEF Min
  <2>5. (at' - from') % (2 * PageSize) = 0
    <3>1. (at - from + 2 * PageSize) % (2 * PageSize) = 0
      <4>1. 2 * PageSize \in Nat \ {0} /\ 0 \in 0 .. 2 * PageSize - 1 /\ at - from \in Nat
        BY <1>2, <1>3
      <4> QED BY <1>2, <4>1, Offset
    <3>2. at - from + 2 * PageSize = at' - from'
      BY <1>3, <1>5, <2>2, <2>3
    <3> QED BY <3>1, <3>2
  <2>6. copied' = DmaImage(at - 1)'
    <3>1. copied' = DmaImage(at + br1 - 1) /\ at' - 1 = at + br1 - 1
      BY <1>3, <1>5, <2>2, <2>3
    <3>2. mem_banks' = mem_banks /\ from' = from
      BY <1>5 DEF banks
    <3> QED BY <3>1, <3>2 DEF DmaImage
  <2> QED BY <1>1, <1>7, <2>1, <2>4, <2>5, <2>6 DEF Transfer, DmaExact
<1> QED BY <1>8, <1>9

LEMMA WriteStep == DInv /\ WritePiece => Selected' /\ Transfer' /\ DmaExact'
<1> SUFFICES ASSUME DInv, WritePiece PROVE Selected' /\ Transfer' /\ DmaExact'
  OBVIOUS
<1> DEFINE btw1 == Min(left, 2 * PageSize)
<1>1. /\ op = "write" /\ op' \in {"write", "lost"} /\ ~ended /\ DmaPiece(btw1, btw1, at - from)
      /\ left' = left - btw1 /\ at' = (at + btw1) % Space /\ ended' = (left = btw1)
  BY DEF WritePiece
<1>2. /\ Numbers /\ from <= at /\ at < Space /\ at + left <= Space /\ copied = DmaImage(at - 1)
      /\ left > 0 \/ at = from
      /\ to + 1 = at + left
  BY <1>1 DEF DInv, IInv, Transfer
<1>3. /\ from \in Nat /\ at \in Nat /\ to \in Int /\ left \in Nat
      /\ PageSize \in Nat \ {0} /\ Space \in Nat \ {0}
  BY <1>2, Sizes DEF Numbers
<1>4. /\ btw1 \in Nat /\ btw1 <= left /\ btw1 <= 2 * PageSize
      /\ btw1 = 0 => left = 0
  BY <1>2, <1>3 DEF Min
<1> HIDE DEF btw1
<1>5. /\ from' = from /\ to' = to /\ UNCHANGED banks
      /\ btw1 > 0 => copied' = DmaImage(at + btw1 - 1)
      /\ btw1 = 0 => copied' = DmaImage(at - 1) \cup Spill(at)
  <2>1. at + btw1 <= Space
    BY <1>2, <1>3, <1>4
  <2> QED BY <1>1, <1>2, <1>4, <2>1, DmaContinue
<1>6. Selected'
  BY <1>5 DEF DInv, Selected, banks
<1>7. CASE left = btw1
  <2>1. ended'
    BY <1>1, <1>7, Zenon
  <2>2. at + btw1 - 1 = to /\ left' = 0
    BY <1>1, <1>2, <1>3, <1>7
  <2>3. btw1 = 0 <=> EmptyPiece'
    <3>1. ASSUME btw1 = 0 PROVE EmptyPiece'
      <4>1. to < from /\ to - from + 1 = 0
        BY <1>2, <1>3, <1>4, <2>2, <3>1
      <4>2. 0 % (2 * PageSize) = 0
        BY <1>3, Z3
      <4> QED BY <1>5, <4>1, <4>2 DEF EmptyPiece
    <3>2. ASSUME btw1 > 0 PROVE ~EmptyPiece'
      <4>1. ~(to < from) /\ ~(left' > 0)
        BY <1>2, <1>3, <1>4, <2>2, <3>2
      <4> QED BY <1>5, <4>1 DEF EmptyPiece
    <3> QED BY <1>4, <3>1, <3>2
  <2>4. copied' = DmaImage(to) \cup (IF EmptyPiece' THEN Spill(to + 1) ELSE {})
    <3>1. CASE btw1 = 0
      <4>1. to = at - 1 /\ to + 1 = at
        BY <1>3, <2>2, <3>1
      <4> QED BY <1>5, <2>3, <3>1, <4>1
    <3>2. CASE btw1 # 0
      <4>1. btw1 > 0
        BY <1>4, <3>2
      <4> QED BY <1>5, <2>2, <2>3, <3>2, <4>1
    <3> QED BY <3>1, <3>2
  <2>5. DmaExact'
    BY <1>5, <1>6, <2>4, Exact
  <2> QED BY <1>6, <2>1, <2>5 DEF Transfer
<1>8. CASE left # btw1
  <2>0. ~ended'
    BY <1>1, <1>8, Zenon
  <2>1. ~ended' /\ left' > 0 /\ at + btw1 < Space /\ btw1 > 0
    BY <2>0, <1>1, <1>2, <1>3, <1>4, <1>8
  <2>2. at' = at + btw1
    <3>1. \A k \in 0 .. Space - 1 : k % Space = k
      BY <1>3
    <3>2. at + btw1 \in 0 .. Space - 1
      BY <1>3, <1>4, <2>1
    <3> QED BY <1>1, <3>1, <3>2
  <2>3. from' <= at' /\ at' < Space /\ at' + left' <= Space /\ to' + 1 = at' + left'
    BY <1>1, <1>2, <1>3, <1>4, <1>5, <2>2
  <2>4. copied' = DmaImage(at - 1)'
    <3>1. copied' = DmaImage(at + btw1 - 1) /\ at' - 1 = at + btw1 - 1
      BY <1>3, <1>4, <1>5, <2>1, <2>2
    <3>2. mem_banks' = mem_banks /\ from' = from
      BY <1>5 DEF banks
    <3> QED BY <3>1, <3>2 DEF DmaImage
  <2> QED BY <1>1, <1>6, <2>1, <2>3, <2>4 DEF Transfer, DmaExact
<1> QED BY <1>7, <1>8

\* What is not a piece of a transfer.
LEMMA OtherStep == DInv /\ [Next]_vars /\ ~ReadPiece /\ ~WritePiece => Selected' /\ Transfer' /\ DmaExact'
<1> SUFFICES ASSUME DInv, [Next]_vars, ~ReadPiece, ~WritePiece
             PROVE  Selected' /\ Transfer' /\ DmaExact'
  OBVIOUS
<1>0. Numbers /\ Idle /\ Selected /\ Transfer /\ DmaExact
  BY DEF DInv, IInv
<1>1. CASE Program
  <2>1. PICK addr \in 0 .. Space - 1, len \in Lengths, size \in Lengths :
          addr + len <= Space /\ (F_READ(addr, len, size) \/ F_WRITE(addr, len))
    BY <1>1 DEF Program
  <2>2. addr \in Nat /\ len \in Nat /\ size \in Nat /\ PageSize \in Nat \ {0}
    BY Sizes, Geometry
  <2>3. /\ from' = addr /\ at' = addr /\ left' = len /\ UNCHANGED banks /\ copied' = {} /\ ~ended'
    BY <1>0, <2>1 DEF F_READ, F_WRITE, Begin, Idle
  <2>4. \/ op' = "read" /\ to' = addr + Min(len, size) - 1 /\ avail' = size
        \/ op' = "write" /\ to' = addr + len - 1
    BY <2>1 DEF F_READ, F_WRITE, Begin
  <2>5. copied' = DmaImage(at - 1)'
    BY <2>2, <2>3 DEF DmaImage
  <2>6. (at' - from') % (2 * PageSize) = 0
    <3>1. at' - from' = 0 /\ 2 * PageSize \in Nat \ {0}
      BY <2>2, <2>3
    <3>2. \A m \in Nat \ {0} : 0 % m = 0
      BY Z3
    <3> QED BY <3>1, <3>2
  <2>7. to' + 1 = (IF op' = "read" THEN at' + Min(left', avail') ELSE at' + left')
    BY <2>2, <2>3, <2>4 DEF Min
  <2>8. at' < Space /\ at' + left' <= Space /\ from' <= at'
    BY <2>1, <2>2, <2>3, Sizes
  <2>9. left' > 0 \/ at' = from'
    BY <2>3
  <2>10. Selected' /\ DmaExact'
    BY <1>0, <2>3 DEF Selected, DmaExact, banks
  <2>11. Transfer'
    <3>1. op' = "write" => to' + 1 = at' + left'
      BY <2>7
    <3>2. op' = "read" => to' + 1 = at' + Min(left, avail)'
      BY <2>7 DEF Min
    <3> QED BY <2>5, <2>6, <2>8, <2>9, <3>1, <3>2 DEF Transfer
  <2> QED BY <2>10, <2>11
<1>2. CASE \/ FillPiece \/ SavePiece \/ LoadPiece \/ HexPiece
  <2>1. op' \notin {"read", "write"}
    BY <1>2 DEF FillPiece, SavePiece, LoadPiece, HexPiece
  <2>2. ASSUME NEW n, NEW valid, NEW number, Piece(n, valid, number) PROVE Selected'
    <3>1. ~strayed' => Bank(at + base_addr) = home /\ Bank(at + n - 1 + base_addr) = home
      BY <2>2, Zenon DEF Piece
    <3> QED BY <2>2, <3>1 DEF Piece, LastBank, Selected
  <2>3. UNCHANGED banks => Selected'
    BY <1>0 DEF Selected, banks
  <2>4. UNCHANGED banks \/ \E n, valid, number : Piece(n, valid, number)
    BY <1>2 DEF FillPiece, SavePiece, LoadPiece, HexPiece
  <2> QED BY <2>1, <2>2, <2>3, <2>4 DEF Transfer, DmaExact
<1>3. CASE Return \/ Commands
  <2>1. op' \notin {"read", "write"}
    BY <1>3 DEF Return, Commands, cli_fill, cli_savebin, save_ihex, loadbin, Begin, cli_base,
       z80_reset, z80_run, Halted
  <2>2. UNCHANGED <<mem_banks, home, strayed>> \/ mem_banks' = home'
    BY <1>3 DEF Return, Commands, cli_fill, cli_savebin, save_ihex, loadbin, Begin, cli_base,
       z80_reset, z80_run, Halted, banks
  <2> QED BY <1>0, <2>1, <2>2 DEF Selected, Transfer, DmaExact
<1>4. CASE UNCHANGED vars \/ Lost
  BY <1>0, <1>4 DEF vars, Lost, Selected, Transfer, DmaExact, DmaImage, EmptyPiece
<1> QED BY <1>1, <1>2, <1>3, <1>4 DEF Next, Loops

\* F_READ and F_WRITE move each byte of their range between the file and its place
\* in the bank of the program, for every size of page and bank and every length,
\* and touch no other place than those of an empty piece at their end, which are
\* one, two pages or the whole memory.
THEOREM TransfersCopy == Spec => []DmaExact
<1>1. Init => Selected /\ Transfer /\ DmaExact
  BY DEF Init, Selected, Transfer, DmaExact
<1>2. DInv /\ [Next]_vars => Selected' /\ Transfer' /\ DmaExact'
  BY ReadStep, WriteStep, OtherStep
<1>3. Init /\ IInv => DInv
  BY <1>1 DEF DInv
<1>4. DInv /\ [Next]_vars /\ IInv' => DInv'
  BY <1>2 DEF DInv
<1>5. DInv => DmaExact
  BY DEF DInv
<1> QED BY <1>3, <1>4, <1>5, Inductive, PTL DEF Spec
=============================================================================
