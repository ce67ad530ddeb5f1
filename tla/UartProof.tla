----------------------------- MODULE UartProof -----------------------------
EXTENDS Uart, SequenceTheorems, TLAPS

\* The ring index advances by one and wraps at the size of the buffer.
LEMMA IncIndex == ASSUME NEW k \in Index
                  PROVE  /\ Inc(k) \in Index
                         /\ Inc(k) = IF k = N - 1 THEN 0 ELSE k + 1
<1>1. CASE k + 1 < N
  <2>1. (k + 1) % N = k + 1
    BY <1>1, SizeAssumption DEF Index
  <2> QED BY <2>1, <1>1, SizeAssumption DEF Inc, Index
<1>2. CASE k + 1 = N
  <2>1. N % N = 0
    BY SizeAssumption
  <2> QED BY <2>1, <1>2, SizeAssumption DEF Inc, Index
<1> QED BY <1>1, <1>2, SizeAssumption DEF Index

\* The steps that leave both rings and the program counter's view of them alone.
Quiet == \/ StartTimer \/ PutWait \/ GetRead \/ PeekRead
         \/ FlushCall \/ FlushCt \/ FlushUdre \/ FlushReturn
         \/ ClearWatchFlag
         \/ \E k \in Bytes : SetWatchKey(k)
         \/ \E u \in Uarts : Shift(u)
         \/ \E u \in Uarts, b \in Bytes : PutCall(u, b)
         \/ \E u \in Uarts, op \in {"get", "peek"} : GetCall(u, op)

\* The steps that touch neither a ring nor an interrupt enable change none of
\* the variables that the invariant's ring conjuncts speak of.
LEMMA QuietStep ==
  ASSUME Quiet
  PROVE  /\ UNCHANGED tx /\ UNCHANGED rx /\ UNCHANGED ucsrb
         /\ ie => ie'
         /\ \/ pc' = pc /\ cur' = cur
            \/ /\ pc \notin {"put_adv", "get_adv"}
               /\ pc' \notin {"put_adv", "get_adv"}
<1> USE DEF Quiet, hw, local, StartTimer, PutWait, GetRead, PeekRead,
            FlushCall, FlushCt, FlushUdre, FlushReturn, ClearWatchFlag,
            SetWatchKey, Shift, PutCall, GetCall
<1>1. UNCHANGED tx /\ UNCHANGED rx /\ UNCHANGED ucsrb
  OBVIOUS
<1>2. ie => ie'
  OBVIOUS
<1>3. \/ pc' = pc /\ cur' = cur
      \/ /\ pc \notin {"put_adv", "get_adv"}
         /\ pc' \notin {"put_adv", "get_adv"}
  OBVIOUS
<1> QED BY <1>1, <1>2, <1>3

\* A byte stored in a slot of one buffer.
LEMMA StoreType ==
  ASSUME NEW f \in [Uarts -> [Index -> Bytes]], NEW u \in Uarts,
         NEW k \in Index, NEW b \in Bytes
  PROVE  [f EXCEPT ![u] = [@ EXCEPT ![k] = b]] \in [Uarts -> [Index -> Bytes]]
<1>1. [f[u] EXCEPT ![k] = b] \in [Index -> Bytes]
  OBVIOUS
<1> QED BY <1>1

\* Zero is an index of a ring, a UART and a count.
LEMMA Zeros == 0 \in Index /\ 0 \in Uarts /\ 0 \in 0 .. N
BY SizeAssumption DEF Index, Uarts

\* Static memory at power-up satisfies the invariant.
LEMMA InitIInv == Init => IInv
<1> SUFFICES ASSUME Init PROVE IInv
  OBVIOUS
<1>1. RingType
  BY Zeros, BytesAssumption DEF Init, RingType
<1>2. PortType
  BY BytesAssumption DEF Init, PortType
<1>3. MainType
  BY Zeros, BytesAssumption DEF Init, MainType
<1>4. RingOK
  <2> SUFFICES ASSUME NEW u \in Uarts
               PROVE  /\ TxWi(u) = Wrap(tx_ri[u], tx_ct[u])
                      /\ rx_wi[u] = Wrap(RxRi(u), rx_ct[u])
    BY DEF RingOK
  <2> QED BY SizeAssumption DEF Init, TxWi, RxRi, Wrap
<1>5. Armed /\ CallOK /\ FlushOK
  BY DEF Init, Armed, CallOK, FlushOK
<1> QED BY <1>1, <1>2, <1>3, <1>4, <1>5 DEF IInv, TypeOK

\* No step of the main thread or of an interrupt takes an index out of its ring
\* or a count out of 0 .. N.
LEMMA NextRingType == IInv /\ [Next]_vars => RingType'
<1> SUFFICES ASSUME RingType, MainType, CallOK, [Next]_vars
             PROVE  RingType'
  BY DEF IInv, TypeOK
<1>1. ASSUME NEW u \in Uarts, uart_init(u),
             UNCHANGED <<tx_buff, rx_buff>>
      PROVE  RingType'
  BY <1>1, Zeros DEF uart_init, RingType
<1>2. CASE Boot
  BY <1>1, <1>2 DEF Boot, MainType
<1>3. ASSUME NEW u \in Uarts, Baud(u) PROVE RingType'
  BY <1>1, <1>3 DEF Baud
<1>4. CASE PutStore
  BY <1>4, StoreType DEF PutStore, RingType, MainType, rx
<1>5. CASE PutCrit
  BY <1>5, SizeAssumption DEF PutCrit, RingType, MainType, CallOK, rx
<1>6. CASE PutAdv
  BY <1>6, IncIndex DEF PutAdv, RingType, MainType, rx
<1>7. CASE GetCrit
  BY <1>7, SizeAssumption DEF GetCrit, RingType, MainType, CallOK, tx
<1>8. CASE GetAdv
  BY <1>8, IncIndex DEF GetAdv, RingType, MainType, tx
<1>9. ASSUME NEW u \in Uarts, NEW b \in Bytes, uart_rx_vect(u, b)
      PROVE  RingType'
  <2>1. rx_wi[u] \in Index /\ Inc(rx_wi[u]) \in Index
    BY IncIndex DEF RingType
  <2>2. rx_wi' \in [Uarts -> Index] /\ rx_ct' \in [Uarts -> 0 .. N]
    BY <1>9, <2>1, SizeAssumption DEF uart_rx_vect, RingType
  <2>3. rx_buff' \in [Uarts -> [Index -> Bytes]]
    <3>1. \/ rx_buff' = rx_buff
          \/ rx_buff' = [rx_buff EXCEPT ![u] = [@ EXCEPT ![rx_wi[u]] = b]]
      BY <1>9 DEF uart_rx_vect
    <3>2. [rx_buff EXCEPT ![u] = [@ EXCEPT ![rx_wi[u]] = b]]
             \in [Uarts -> [Index -> Bytes]]
      BY <2>1, StoreType DEF RingType
    <3> QED BY <3>1, <3>2 DEF RingType
  <2> QED BY <1>9, <2>2, <2>3 DEF uart_rx_vect, RingType, tx
<1>10. ASSUME NEW u \in Uarts, uart_udre_vect(u)
       PROVE  RingType'
  <2>1. tx_ri[u] \in Index /\ Inc(tx_ri[u]) \in Index
    BY IncIndex DEF RingType
  <2>2. tx_ri' \in [Uarts -> Index] /\ tx_ct' \in [Uarts -> 0 .. N]
    <3>1. \/ tx_ri' = tx_ri /\ tx_ct' = tx_ct
          \/ /\ tx_ct[u] # 0
             /\ tx_ri' = [tx_ri EXCEPT ![u] = Inc(tx_ri[u])]
             /\ tx_ct' = [tx_ct EXCEPT ![u] = @ - 1]
      BY <1>10 DEF uart_udre_vect
    <3>2. CASE tx_ri' = tx_ri /\ tx_ct' = tx_ct
      BY <3>2 DEF RingType
    <3>3. CASE /\ tx_ct[u] # 0
               /\ tx_ri' = [tx_ri EXCEPT ![u] = Inc(tx_ri[u])]
               /\ tx_ct' = [tx_ct EXCEPT ![u] = @ - 1]
      <4>0. tx_ct[u] \in 0 .. N
        BY DEF RingType
      <4>1. tx_ct[u] - 1 \in 0 .. N
        BY <3>3, <4>0, SizeAssumption
      <4> QED BY <2>1, <3>3, <4>1 DEF RingType
    <3> QED BY <3>1, <3>2, <3>3
  <2> QED BY <1>10, <2>2 DEF uart_udre_vect, RingType, rx
<1>11. CASE Quiet \/ UNCHANGED vars
  BY <1>11, QuietStep DEF vars, tx, rx, RingType
<1> QED
  BY <1>2, <1>3, <1>4, <1>5, <1>6, <1>7, <1>8, <1>9, <1>10, <1>11
  DEF Next, Calls, Running, Interrupts, Quiet

\* The registers of the UARTs and the halt key keep their types.
LEMMA NextPortType == IInv /\ [Next]_vars => PortType'
<1> SUFFICES ASSUME RingType, PortType, MainType, [Next]_vars
             PROVE  PortType'
  BY DEF IInv, TypeOK
<1>1. CASE Boot \/ \E u \in Uarts : Baud(u)
  BY <1>1 DEF Boot, Baud, uart_init, PortType, Flags, watch
<1>2. CASE PutStore \/ PutCrit \/ PutAdv
  BY <1>2 DEF PutStore, PutCrit, PutAdv, PortType, Flags, watch, hw
<1>3. CASE GetCrit \/ GetAdv
  BY <1>3 DEF GetCrit, GetAdv, PortType, watch, hw
<1>4. ASSUME NEW u \in Uarts, NEW b \in Bytes, uart_rx_vect(u, b)
      PROVE  PortType'
  BY <1>4 DEF uart_rx_vect, PortType, hw
<1>5. ASSUME NEW u \in Uarts, uart_udre_vect(u)
      PROVE  PortType'
  <2>1. tx_buff[u][tx_ri[u]] \in Bytes
    BY DEF RingType
  <2>2. udr' \in [Uarts -> Bytes] /\ udre' \in [Uarts -> BOOLEAN]
    BY <1>5, <2>1 DEF uart_udre_vect, PortType
  <2>3. ucsrb' \in [Uarts -> SUBSET Flags]
    BY <1>5 DEF uart_udre_vect, PortType, Flags
  <2> QED BY <1>5, <2>2, <2>3 DEF uart_udre_vect, PortType, watch
<1>6. CASE Quiet \/ UNCHANGED vars
  BY <1>6 DEF Quiet, vars, hw, watch, PortType, StartTimer, PutWait,
    GetRead, PeekRead, FlushCall, FlushCt, FlushUdre, FlushReturn,
    ClearWatchFlag, SetWatchKey, Shift, PutCall, GetCall
<1> QED
  BY <1>1, <1>2, <1>3, <1>4, <1>5, <1>6
  DEF Next, Calls, Running, Interrupts, Quiet

\* The locals of the running function keep their types.
LEMMA NextMainType == IInv /\ [Next]_vars => MainType'
<1> SUFFICES ASSUME RingType, MainType, [Next]_vars
             PROVE  MainType'
  BY DEF IInv, TypeOK
<1>1. CASE Boot \/ \E u \in Uarts : Baud(u)
  BY <1>1 DEF Boot, Baud, MainType, local
<1>2. CASE PutStore \/ PutCrit \/ PutAdv
  BY <1>2 DEF PutStore, PutCrit, PutAdv, MainType, local
<1>3. CASE GetCrit \/ GetAdv
  BY <1>3 DEF GetCrit, GetAdv, MainType, local
<1>4. CASE Interrupts
  BY <1>4 DEF Interrupts, uart_rx_vect, uart_udre_vect, Shift, MainType, local
<1>5. CASE PutWait \/ GetRead \/ PeekRead
  BY <1>5 DEF PutWait, GetRead, PeekRead, MainType, RingType, local
<1>6. ASSUME NEW u \in Uarts, NEW op \in {"get", "peek"}, GetCall(u, op)
      PROVE  MainType'
  BY <1>6, BytesAssumption DEF GetCall, MainType, RingType, local
<1>7. CASE FlushCall \/ FlushCt \/ FlushUdre \/ FlushReturn
  BY <1>7, Zeros DEF FlushCall, FlushCt, FlushUdre, FlushReturn, MainType, local
<1>8. CASE StartTimer \/ ClearWatchFlag \/ \E k \in Bytes : SetWatchKey(k)
  BY <1>8 DEF StartTimer, ClearWatchFlag, SetWatchKey, MainType, local
<1>9. ASSUME NEW u \in Uarts, NEW b \in Bytes, PutCall(u, b)
      PROVE  MainType'
  BY <1>9 DEF PutCall, MainType
<1>10. CASE UNCHANGED vars
  BY <1>10 DEF vars, MainType
<1> QED
  BY <1>1, <1>2, <1>3, <1>4, <1>5, <1>6, <1>7, <1>8, <1>9, <1>10
  DEF Next, Calls, Running

\* Every step keeps wi exactly ct places after ri: the main thread moves one
\* end of a ring, the interrupt the other.
LEMMA NextRingOK == IInv /\ [Next]_vars => RingOK'
<1> SUFFICES ASSUME IInv, [Next]_vars, NEW v \in Uarts
             PROVE  (/\ TxWi(v) = Wrap(tx_ri[v], tx_ct[v])
                     /\ rx_wi[v] = Wrap(RxRi(v), rx_ct[v]))'
  BY DEF RingOK
<1> DEFINE TxOK == TxWi(v) = Wrap(tx_ri[v], tx_ct[v])
           RxOK == rx_wi[v] = Wrap(RxRi(v), rx_ct[v])
<1>0. TxOK /\ RxOK /\ RingType /\ MainType /\ CallOK
  BY DEF IInv, RingOK, TypeOK
<1>t. /\ tx_wi[v] \in 0 .. N - 1 /\ tx_ri[v] \in 0 .. N - 1 /\ tx_ct[v] \in 0 .. N
      /\ rx_wi[v] \in 0 .. N - 1 /\ rx_ri[v] \in 0 .. N - 1 /\ rx_ct[v] \in 0 .. N
  BY <1>0 DEF RingType, Index
<1>i. /\ Inc(tx_wi[v]) = IF tx_wi[v] = N - 1 THEN 0 ELSE tx_wi[v] + 1
      /\ Inc(tx_ri[v]) = IF tx_ri[v] = N - 1 THEN 0 ELSE tx_ri[v] + 1
      /\ Inc(rx_wi[v]) = IF rx_wi[v] = N - 1 THEN 0 ELSE rx_wi[v] + 1
      /\ Inc(rx_ri[v]) = IF rx_ri[v] = N - 1 THEN 0 ELSE rx_ri[v] + 1
  BY <1>0, IncIndex DEF RingType
\* What a step that leaves the fields of one ring alone leaves true.
<1>a. ASSUME UNCHANGED tx, pc # "put_adv", pc' # "put_adv"
      PROVE  TxOK'
  BY <1>0, <1>a DEF TxWi, Wrap, tx
<1>b. ASSUME UNCHANGED rx, pc # "get_adv", pc' # "get_adv"
      PROVE  RxOK'
  BY <1>0, <1>b DEF RxRi, Wrap, rx
<1>c. ASSUME UNCHANGED tx, UNCHANGED <<pc, cur>> PROVE TxOK'
  BY <1>0, <1>c DEF TxWi, Wrap, tx
<1>d. ASSUME UNCHANGED rx, UNCHANGED <<pc, cur>> PROVE RxOK'
  BY <1>0, <1>d DEF RxRi, Wrap, rx
<1>1. ASSUME NEW u \in Uarts, uart_init(u), pc' \notin {"put_adv", "get_adv"},
             pc \notin {"put_adv", "get_adv"}
      PROVE  (TxOK /\ RxOK)'
  <2>1. CASE v = u
    <3>1. /\ tx_wi'[v] = 0 /\ tx_ri'[v] = 0 /\ tx_ct'[v] = 0
          /\ rx_wi'[v] = 0 /\ rx_ri'[v] = 0 /\ rx_ct'[v] = 0
      BY <1>0, <1>1, <2>1 DEF uart_init, RingType
    <3> QED BY <3>1, <1>1, SizeAssumption DEF TxWi, RxRi, Wrap
  <2>2. CASE v # u
    <3>1. /\ UNCHANGED <<tx_wi[v], tx_ri[v], tx_ct[v]>>
          /\ UNCHANGED <<rx_wi[v], rx_ri[v], rx_ct[v]>>
      BY <1>0, <1>1, <2>2 DEF uart_init, RingType
    <3> QED BY <3>1, <1>0, <1>1 DEF TxWi, RxRi, Wrap
  <2> QED BY <2>1, <2>2
<1>2. CASE Boot \/ \E u \in Uarts : Baud(u)
  BY <1>0, <1>1, <1>2 DEF Boot, Baud, MainType
<1>3. CASE PutStore
  <2>1. TxOK'
    BY <1>0, <1>3 DEF PutStore, TxWi, Wrap
  <2> QED BY <2>1, <1>b, <1>3 DEF PutStore
<1>4. CASE PutCrit
  <2>1. TxOK'
    <3>1. CASE v = cur
      <4>1. tx_ct'[v] = tx_ct[v] + 1 /\ tx_ct[v] < N
        BY <1>0, <1>4, <3>1 DEF PutCrit, RingType, CallOK
      <4> QED BY <1>0, <1>t, <1>i, <1>4, <3>1, <4>1, SizeAssumption
              DEF PutCrit, TxWi, Wrap, local
    <3>2. CASE v # cur
      <4>1. tx_ct'[v] = tx_ct[v]
        BY <1>0, <1>4, <3>2 DEF PutCrit, RingType
      <4> QED BY <1>0, <1>4, <3>2, <4>1 DEF PutCrit, TxWi, Wrap, local
    <3> QED BY <3>1, <3>2
  <2> QED BY <2>1, <1>b, <1>4 DEF PutCrit
<1>5. CASE PutAdv
  <2>1. TxOK'
    <3>1. CASE v = cur
      <4>1. tx_wi'[v] = Inc(tx_wi[v])
        BY <1>0, <1>5, <3>1 DEF PutAdv, RingType, CallOK
      <4> QED BY <1>0, <1>5, <3>1, <4>1 DEF PutAdv, TxWi, Wrap
    <3>2. CASE v # cur
      <4>1. tx_wi'[v] = tx_wi[v]
        BY <1>0, <1>5, <3>2 DEF PutAdv, RingType
      <4> QED BY <1>0, <1>5, <3>2, <4>1 DEF PutAdv, TxWi, Wrap
    <3> QED BY <3>1, <3>2
  <2> QED BY <2>1, <1>b, <1>5 DEF PutAdv
<1>6. CASE GetCrit
  <2>1. RxOK'
    <3>1. CASE v = cur
      <4>1. rx_ct'[v] = rx_ct[v] - 1 /\ rx_ct[v] > 0
        BY <1>0, <1>6, <3>1 DEF GetCrit, RingType, CallOK
      <4> QED BY <1>0, <1>t, <1>i, <1>6, <3>1, <4>1, SizeAssumption
              DEF GetCrit, RxRi, Wrap, local
    <3>2. CASE v # cur
      <4>1. rx_ct'[v] = rx_ct[v]
        BY <1>0, <1>6, <3>2 DEF GetCrit, RingType
      <4> QED BY <1>0, <1>6, <3>2, <4>1 DEF GetCrit, RxRi, Wrap, local
    <3> QED BY <3>1, <3>2
  <2> QED BY <2>1, <1>a, <1>6 DEF GetCrit
<1>7. CASE GetAdv
  <2>1. RxOK'
    <3>1. CASE v = cur
      <4>1. rx_ri'[v] = Inc(rx_ri[v])
        BY <1>0, <1>7, <3>1 DEF GetAdv, RingType, CallOK
      <4> QED BY <1>0, <1>7, <3>1, <4>1 DEF GetAdv, RxRi, Wrap
    <3>2. CASE v # cur
      <4>1. rx_ri'[v] = rx_ri[v]
        BY <1>0, <1>7, <3>2 DEF GetAdv, RingType
      <4> QED BY <1>0, <1>7, <3>2, <4>1 DEF GetAdv, RxRi, Wrap
    <3> QED BY <3>1, <3>2
  <2> QED BY <2>1, <1>a, <1>7 DEF GetAdv
<1>8. ASSUME NEW u \in Uarts, NEW b \in Bytes, uart_rx_vect(u, b)
      PROVE  (TxOK /\ RxOK)'
  <2>1. RxOK'
    <3>1. CASE v = u /\ rx_ct[u] < N
      <4>1. rx_ct'[v] = rx_ct[v] + 1 /\ rx_wi'[v] = Inc(rx_wi[v])
        BY <1>0, <1>8, <3>1, SizeAssumption DEF uart_rx_vect, RingType
      <4>2. rx_ri' = rx_ri /\ pc' = pc /\ cur' = cur
        BY <1>8 DEF uart_rx_vect, local
      <4> QED BY <1>0, <1>t, <1>i, <3>1, <4>1, <4>2, SizeAssumption DEF RxRi, Wrap
    <3>2. CASE v # u \/ rx_ct[u] = N
      <4>1. UNCHANGED <<rx_ct[v], rx_wi[v], rx_ri, pc, cur>>
        BY <1>0, <1>8, <3>2, SizeAssumption DEF uart_rx_vect, RingType, local
      <4> QED BY <1>0, <4>1 DEF RxRi, Wrap
    <3>3. rx_ct[u] < N \/ rx_ct[u] = N
      <4>1. rx_ct[u] \in 0 .. N
        BY <1>0 DEF RingType
      <4> QED BY <4>1, SizeAssumption
    <3> QED BY <3>1, <3>2, <3>3
  <2> QED BY <2>1, <1>c, <1>8 DEF uart_rx_vect, local
<1>9. ASSUME NEW u \in Uarts, uart_udre_vect(u)
      PROVE  (TxOK /\ RxOK)'
  <2>1. TxOK'
    <3>1. CASE v = u /\ tx_ct[u] # 0
      <4>1. tx_ct'[v] = tx_ct[v] - 1 /\ tx_ri'[v] = Inc(tx_ri[v])
        BY <1>0, <1>9, <3>1 DEF uart_udre_vect, RingType
      <4>2. tx_wi' = tx_wi /\ pc' = pc /\ cur' = cur
        BY <1>9 DEF uart_udre_vect, local
      <4> QED BY <1>0, <1>t, <1>i, <3>1, <4>1, <4>2, SizeAssumption DEF TxWi, Wrap
    <3>2. CASE v # u \/ tx_ct[u] = 0
      <4>1. UNCHANGED <<tx_ct[v], tx_ri[v], tx_wi, pc, cur>>
        BY <1>0, <1>9, <3>2 DEF uart_udre_vect, RingType, local
      <4> QED BY <1>0, <4>1 DEF TxWi, Wrap
    <3> QED BY <3>1, <3>2
  <2> QED BY <2>1, <1>d, <1>9 DEF uart_udre_vect, local
<1>10. CASE Quiet
  BY <1>10, <1>a, <1>b, <1>c, <1>d, QuietStep
<1>11. CASE UNCHANGED vars
  BY <1>11, <1>c, <1>d DEF vars
<1> QED
  BY <1>2, <1>3, <1>4, <1>5, <1>6, <1>7, <1>8, <1>9, <1>10, <1>11
  DEF Next, Calls, Running, Interrupts, Quiet

\* No step leaves bytes in a transmit ring with its interrupt disarmed.
LEMMA NextArmed == IInv /\ [Next]_vars => Armed'
<1> SUFFICES ASSUME IInv, [Next]_vars, NEW v \in Uarts, tx_ct'[v] > 0
             PROVE  ie' /\ "UDRIE" \in ucsrb'[v]
  BY DEF Armed
<1>0. /\ tx_ct[v] > 0 => ie /\ "UDRIE" \in ucsrb[v]
      /\ RingType /\ PortType /\ MainType
  BY DEF IInv, Armed, TypeOK
<1>a. tx_ct[v] \in 0 .. N
  BY <1>0 DEF RingType
<1>1. ASSUME NEW u \in Uarts, uart_init(u), ie' = ie
      PROVE  ie' /\ "UDRIE" \in ucsrb'[v]
  <2>1. v # u
    BY <1>0, <1>1 DEF uart_init, RingType
  <2>2. tx_ct'[v] = tx_ct[v] /\ ucsrb'[v] = ucsrb[v]
    BY <1>0, <1>1, <2>1 DEF uart_init, RingType, PortType
  <2> QED BY <1>0, <1>1, <2>2
<1>2. CASE Boot \/ \E u \in Uarts : Baud(u)
  BY <1>0, <1>1, <1>2 DEF Boot, Baud, MainType
<1>3. CASE PutCrit
  <2>1. ie' /\ ucsrb' = [ucsrb EXCEPT ![cur] = {"RXCIE", "UDRIE"}]
    BY <1>3 DEF PutCrit
  <2>2. CASE v = cur
    BY <1>0, <2>1, <2>2 DEF PortType
  <2>3. CASE v # cur
    <3>1. tx_ct'[v] = tx_ct[v] /\ ucsrb'[v] = ucsrb[v]
      BY <1>0, <1>3, <2>3 DEF PutCrit, RingType, PortType
    <3> QED BY <1>0, <2>1, <3>1
  <2> QED BY <2>2, <2>3
<1>4. CASE PutStore \/ PutAdv
  BY <1>0, <1>4 DEF PutStore, PutAdv, hw
<1>5. CASE GetCrit \/ GetAdv
  BY <1>0, <1>5 DEF GetCrit, GetAdv, hw, tx
<1>6. ASSUME NEW u \in Uarts, NEW b \in Bytes, uart_rx_vect(u, b)
      PROVE  ie' /\ "UDRIE" \in ucsrb'[v]
  BY <1>0, <1>6 DEF uart_rx_vect, hw, tx
<1>7. ASSUME NEW u \in Uarts, uart_udre_vect(u)
      PROVE  ie' /\ "UDRIE" \in ucsrb'[v]
  <2>1. CASE v # u
    <3>1. tx_ct'[v] = tx_ct[v] /\ ucsrb'[v] = ucsrb[v] /\ ie' = ie
      BY <1>0, <1>7, <2>1 DEF uart_udre_vect, RingType, PortType
    <3> QED BY <1>0, <3>1
  <2>2. CASE v = u
    <3>1. tx_ct[v] # 0 /\ tx_ct'[v] = tx_ct[v] - 1
      BY <1>0, <1>7, <2>2 DEF uart_udre_vect, RingType
    <3>2. tx_ct[v] # 1
      BY <1>a, <3>1
    <3>3. ucsrb'[v] = ucsrb[v] /\ ie' = ie
      BY <1>0, <1>7, <2>2, <3>1, <3>2 DEF uart_udre_vect, PortType
    <3> QED BY <1>0, <1>a, <3>1, <3>3
  <2> QED BY <2>1, <2>2
<1>8. CASE Quiet
  BY <1>0, <1>8, QuietStep DEF tx
<1>9. CASE UNCHANGED vars
  BY <1>0, <1>9 DEF vars, tx
<1> QED
  BY <1>2, <1>3, <1>4, <1>5, <1>6, <1>7, <1>8, <1>9
  DEF Next, Calls, Running, Interrupts, Quiet

\* What the main thread has read or written stays as it left it, whichever
\* interrupt comes.
LEMMA NextCallOK == IInv /\ [Next]_vars => CallOK'
<1> SUFFICES ASSUME IInv, [Next]_vars PROVE CallOK'
  OBVIOUS
<1>0. RingType /\ MainType /\ CallOK /\ RingOK
  BY DEF IInv, TypeOK
<1>t. /\ cur \in Uarts /\ i \in Index
      /\ tx_ct[cur] \in 0 .. N /\ rx_ct[cur] \in 0 .. N
      /\ rx_wi[cur] \in 0 .. N - 1 /\ rx_ri[cur] \in 0 .. N - 1
  BY <1>0 DEF MainType, RingType, Index
<1>1. ASSUME pc' \notin {"put_store", "put_crit", "put_adv", "get_read",
                         "get_crit", "get_adv", "peek_read"}
      PROVE  CallOK'
  BY <1>1 DEF CallOK
<1>2. CASE Boot \/ PutAdv \/ GetAdv \/ PeekRead \/ FlushCall \/ FlushCt
           \/ FlushUdre \/ FlushReturn \/ \E u \in Uarts : Baud(u)
  <2>1. pc' \in {"boot", "idle", "flush_ct", "flush_udre", "flushed"}
    BY <1>2 DEF Boot, PutAdv, GetAdv, PeekRead, FlushCall, FlushCt, FlushUdre,
      FlushReturn, Baud
  <2> QED BY <1>1, <2>1
<1>3. CASE StartTimer \/ ClearWatchFlag \/ (\E k \in Bytes : SetWatchKey(k))
           \/ (\E u \in Uarts, b \in Bytes : PutCall(u, b))
  <2>1. pc' \in {"idle", "put_wait"}
    BY <1>3 DEF StartTimer, ClearWatchFlag, SetWatchKey, PutCall
  <2> QED BY <1>1, <2>1
<1>4. CASE PutWait
  BY <1>4, <1>t DEF PutWait, CallOK, tx
<1>5. CASE PutStore
  <2>1. tx_buff'[cur][i] = d
    BY <1>0, <1>t, <1>5 DEF PutStore, RingType
  <2>2. i = tx_wi[cur] /\ tx_ct[cur] < N
    BY <1>0, <1>5 DEF PutStore, CallOK
  <2>3. /\ pc' = "put_crit" /\ tx_wi' = tx_wi /\ tx_ct' = tx_ct
        /\ cur' = cur /\ i' = i /\ d' = d
    BY <1>5 DEF PutStore, local
  <2> QED BY <2>1, <2>2, <2>3 DEF CallOK
<1>6. CASE PutCrit
  BY <1>0, <1>6 DEF PutCrit, CallOK, local
<1>7. ASSUME NEW u \in Uarts, NEW op \in {"get", "peek"}, GetCall(u, op)
      PROVE  CallOK'
  <2>1. CASE rx_ct[u] = 0
    BY <1>1, <1>7, <2>1 DEF GetCall
  <2>2. CASE rx_ct[u] # 0
    <3>1. /\ cur' = u /\ i' = rx_ri[u] /\ pc' \in {"get_read", "peek_read"}
          /\ UNCHANGED rx
      BY <1>7, <2>2 DEF GetCall
    <3>2. rx_ct[u] > 0
      <4>1. rx_ct[u] \in 0 .. N
        BY <1>0 DEF RingType
      <4> QED BY <4>1, <2>2
    <3> QED BY <3>1, <3>2 DEF CallOK, rx
  <2> QED BY <2>1, <2>2
<1>8. CASE GetRead
  BY <1>0, <1>8 DEF GetRead, CallOK, rx
<1>9. CASE GetCrit
  BY <1>0, <1>9 DEF GetCrit, CallOK, local
<1>10. ASSUME NEW u \in Uarts, NEW b \in Bytes, uart_rx_vect(u, b)
       PROVE  CallOK'
  <2>0. UNCHANGED <<tx_wi, tx_ct, tx_buff, rx_ri, pc, cur, i, d>>
    BY <1>10 DEF uart_rx_vect, tx, local
  <2>1. CASE u # cur \/ rx_ct[u] = N
    <3>1. rx_ct'[cur] = rx_ct[cur] /\ rx_buff'[cur] = rx_buff[cur]
      <4>1. N \in Nat
        BY SizeAssumption
      <4> QED BY <1>0, <1>t, <1>10, <2>1, <4>1 DEF uart_rx_vect, RingType
    <3> QED BY <1>0, <2>0, <3>1 DEF CallOK
  <2>2. CASE u = cur /\ rx_ct[u] # N
    <3>1. rx_ct'[cur] = rx_ct[cur] + 1
      BY <1>0, <1>t, <1>10, <2>2 DEF uart_rx_vect, RingType
    <3>2. rx_buff'[cur] = [rx_buff[cur] EXCEPT ![rx_wi[cur]] = b]
      BY <1>0, <1>t, <1>10, <2>2 DEF uart_rx_vect, RingType
    \* The slot being read is not the one the interrupt fills.
    <3>3. ASSUME pc = "get_crit" PROVE rx_wi[cur] # i
      <4>1. rx_wi[cur] = Wrap(rx_ri[cur], rx_ct[cur])
        BY <1>0, <1>t, <3>3 DEF RingOK, RxRi
      <4>2. i = rx_ri[cur] /\ rx_ct[cur] > 0
        BY <1>0, <3>3 DEF CallOK
      <4>3. rx_ct[cur] < N
        BY <1>t, <2>2, SizeAssumption
      <4> QED BY <1>t, <4>1, <4>2, <4>3, SizeAssumption DEF Wrap
    <3>4. pc = "get_crit" => rx_buff'[cur][i] = rx_buff[cur][i]
      <4>1. rx_buff[cur] \in [Index -> Bytes]
        BY <1>0, <1>t DEF RingType
      <4> QED BY <1>t, <3>2, <3>3, <4>1
    <3> QED BY <1>0, <1>t, <2>0, <3>1, <3>4 DEF CallOK
  <2> QED BY <2>1, <2>2
<1>11. ASSUME NEW u \in Uarts, uart_udre_vect(u)
       PROVE  CallOK'
  <2>1. /\ UNCHANGED <<tx_wi, tx_buff, pc, cur, i, d>>
        /\ UNCHANGED <<rx_ri, rx_ct, rx_buff>>
    BY <1>11 DEF uart_udre_vect, rx, local
  <2>2. tx_ct'[cur] = tx_ct[cur] \/ tx_ct'[cur] = tx_ct[cur] - 1
    BY <1>0, <1>t, <1>11 DEF uart_udre_vect, RingType
  <2>3. tx_ct[cur] < N => tx_ct'[cur] < N
    BY <1>t, <2>2, SizeAssumption
  <2> QED BY <1>0, <2>1, <2>3 DEF CallOK
<1>12. ASSUME NEW u \in Uarts, Shift(u) PROVE CallOK'
  BY <1>0, <1>12 DEF Shift, tx, rx, local, CallOK
<1>13. CASE UNCHANGED vars
  BY <1>0, <1>13 DEF vars, tx, rx, CallOK
<1> QED
  BY <1>2, <1>3, <1>4, <1>5, <1>6, <1>7, <1>8, <1>9, <1>10, <1>11, <1>12, <1>13
  DEF Next, Calls, Running, Interrupts

\* A ring that the main thread has seen empty, and is not filling, stays empty.
LEMMA NextFlushOK == IInv /\ [Next]_vars => FlushOK'
<1> SUFFICES ASSUME IInv, [Next]_vars PROVE FlushOK'
  OBVIOUS
<1>0. RingType /\ PortType /\ MainType /\ FlushOK
  BY DEF IInv, TypeOK
<1>n. \A u \in Uarts : u \in Nat /\ cur \in Nat
  BY <1>0, SizeAssumption DEF MainType, Uarts
\* Steps that add nothing to a transmit ring nor to a data register.
<1>a. ASSUME \A u \in Uarts : tx_ct[u] = 0 => tx_ct'[u] = 0,
             \A u \in Uarts : udre[u] => udre'[u] \/ tx_ct[u] # 0,
             UNCHANGED <<pc, cur>>
      PROVE  FlushOK'
  BY <1>0, <1>a DEF FlushOK
<1>1. CASE Boot
  <2>1. \A u \in Uarts : tx_ct'[u] = 0
    <3>1. \A u \in Uarts : tx_ct[u] = 0
      BY <1>0, <1>1 DEF FlushOK, Boot
    <3> QED BY <1>0, <1>1, <3>1 DEF Boot, uart_init, RingType
  <2>2. pc' \in {"boot", "idle"}
    BY <1>1 DEF Boot
  <2> QED BY <2>1, <2>2 DEF FlushOK
<1>2. CASE pc' \in {"idle", "put_wait", "put_store", "put_crit", "put_adv",
                    "get_read", "get_crit", "get_adv", "peek_read"}
  BY <1>2 DEF FlushOK
<1>3. CASE FlushCall
  <2>1. pc' = "flush_ct" /\ cur' = 0
    BY <1>3 DEF FlushCall
  <2>2. \A u \in Uarts : ~ (u < 0)
    BY SizeAssumption DEF Uarts
  <2> QED BY <2>1, <2>2 DEF FlushOK
<1>4. CASE FlushCt
  <2>1. UNCHANGED tx_ct /\ pc = "flush_ct"
    BY <1>4 DEF FlushCt, tx
  <2>2. \A u \in Uarts : u < cur => tx_ct[u] = 0
    BY <1>0, <2>1 DEF FlushOK
  <2>3. \A u \in Uarts : ~ (u < 0)
    BY SizeAssumption DEF Uarts
  <2>4. CASE tx_ct[cur] # 0
    BY <1>4, <2>1, <2>3, <2>4 DEF FlushCt, FlushOK
  <2>5. CASE tx_ct[cur] = 0 /\ cur + 1 \in Uarts
    <3>1. pc' = "flush_ct" /\ cur' = cur + 1
      BY <1>4, <2>5 DEF FlushCt
    <3>2. \A u \in Uarts : u < cur + 1 => u < cur \/ u = cur
      BY <1>n
    <3> QED BY <2>1, <2>2, <2>5, <3>1, <3>2 DEF FlushOK
  <2>6. CASE tx_ct[cur] = 0 /\ cur + 1 \notin Uarts
    <3>1. pc' = "flush_udre" /\ cur' = 0
      BY <1>4, <2>6 DEF FlushCt
    <3>2. \A u \in Uarts : u < cur \/ u = cur
      BY <1>0, <2>6, SizeAssumption DEF Uarts, MainType
    <3> QED BY <2>1, <2>2, <2>3, <2>6, <3>1, <3>2 DEF FlushOK
  <2> QED BY <2>4, <2>5, <2>6
<1>5. CASE FlushUdre
  <2>1. UNCHANGED <<tx_ct, udre>> /\ pc = "flush_udre" /\ udre[cur]
    BY <1>5 DEF FlushUdre, tx, hw
  <2>2. /\ \A u \in Uarts : tx_ct[u] = 0
        /\ \A u \in Uarts : u < cur => udre[u]
    BY <1>0, <2>1 DEF FlushOK
  <2>3. CASE cur + 1 \in Uarts
    <3>1. pc' = "flush_udre" /\ cur' = cur + 1
      BY <1>5, <2>1, <2>3 DEF FlushUdre
    <3>2. \A u \in Uarts : u < cur + 1 => u < cur \/ u = cur
      BY <1>n
    <3> QED BY <2>1, <2>2, <3>1, <3>2 DEF FlushOK
  <2>4. CASE cur + 1 \notin Uarts
    <3>1. pc' = "flushed"
      BY <1>5, <2>4 DEF FlushUdre
    <3>2. \A u \in Uarts : u < cur \/ u = cur
      BY <1>0, <2>4, SizeAssumption DEF Uarts, MainType
    <3> QED BY <2>1, <2>2, <3>1, <3>2 DEF FlushOK
  <2> QED BY <2>3, <2>4
<1>6. ASSUME NEW u \in Uarts, NEW b \in Bytes, uart_rx_vect(u, b)
      PROVE  FlushOK'
  BY <1>a, <1>6 DEF uart_rx_vect, tx, hw, local
<1>7. ASSUME NEW u \in Uarts, uart_udre_vect(u)
      PROVE  FlushOK'
  <2>1. UNCHANGED <<pc, cur>>
    BY <1>7 DEF uart_udre_vect, local
  <2>2. ASSUME NEW v \in Uarts, tx_ct[v] = 0
        PROVE  tx_ct'[v] = 0 /\ udre'[v] = udre[v]
    BY <1>0, <1>7, <2>2 DEF uart_udre_vect, RingType, PortType
  <2> QED BY <1>a, <2>1, <2>2
<1>8. ASSUME NEW u \in Uarts, Shift(u) PROVE FlushOK'
  <2>1. UNCHANGED <<tx_ct, pc, cur>>
    BY <1>8 DEF Shift, tx, local
  <2>2. \A v \in Uarts : udre[v] => udre'[v]
    BY <1>0, <1>8 DEF Shift, PortType
  <2> QED BY <1>a, <2>1, <2>2
<1>9. CASE UNCHANGED vars
  BY <1>0, <1>9 DEF vars, tx, FlushOK
<1>10. CASE \/ StartTimer \/ ClearWatchFlag \/ (\E k \in Bytes : SetWatchKey(k))
            \/ (\E u \in Uarts, b \in Bytes : PutCall(u, b))
            \/ PutWait \/ PutStore \/ PutCrit \/ PutAdv
  BY <1>2, <1>10 DEF StartTimer, ClearWatchFlag, SetWatchKey, PutCall,
     PutWait, PutStore, PutCrit, PutAdv
<1>11. CASE \/ (\E u \in Uarts, op \in {"get", "peek"} : GetCall(u, op))
            \/ GetRead \/ GetCrit \/ GetAdv \/ PeekRead
            \/ FlushReturn \/ (\E u \in Uarts : Baud(u))
  BY <1>2, <1>11 DEF GetCall, GetRead, GetCrit, GetAdv, PeekRead,
     FlushReturn, Baud
<1> QED
  BY <1>1, <1>3, <1>4, <1>5, <1>6, <1>7, <1>8, <1>9, <1>10, <1>11
  DEF Next, Calls, Running, Interrupts

\* The invariant is inductive: each conjunct needs the others before the step.
THEOREM Invariance == Spec => []IInv
<1>1. IInv /\ [Next]_vars => IInv'
  BY NextRingType, NextPortType, NextMainType, NextRingOK, NextArmed,
     NextCallOK, NextFlushOK DEF IInv, TypeOK
<1> QED BY InitIInv, <1>1, PTL DEF Spec

\* For rings of every size and any number of UARTs, no byte is ever left in a
\* transmit ring without an interrupt armed to take it.
THEOREM AlwaysArmed == Spec => []Armed
<1>1. IInv => Armed
  BY DEF IInv
<1> QED BY Invariance, <1>1, PTL

\* uart_flush returns only when every ring and every data register is empty.
THEOREM FlushCorrect == Spec => []FlushDrains
<1>1. IInv => FlushDrains
  BY DEF IInv, FlushOK, FlushDrains
<1> QED BY Invariance, <1>1, PTL
-----------------------------------------------------------------------------
(***************************************************************************)
(* The driver implements the port: for rings of every size and any number  *)
(* of UARTs, the interleavings of uart.c with its interrupts are           *)
(* behaviours of bounded FIFO queues.                                      *)
(***************************************************************************)

\* The bytes of a ring, oldest first.
Ring(buff, ri, ct) == [k \in 1 .. ct |-> buff[Wrap(ri, k - 1)]]

\* The places of a ring are distinct.
LEMMA WrapPlace ==
  ASSUME NEW s \in Index, NEW k \in 0 .. N - 1
  PROVE  /\ Wrap(s, k) \in Index
         /\ Wrap(s, 0) = s
         /\ \A j \in 0 .. N - 1 : Wrap(s, j) = Wrap(s, k) => j = k
         /\ k > 0 => Wrap(s, k) = Wrap(Inc(s), k - 1)
<1>1. Inc(s) = IF s = N - 1 THEN 0 ELSE s + 1
  BY IncIndex
<1> QED BY <1>1, SizeAssumption DEF Wrap, Index

LEMMA RingIsSeq ==
  ASSUME NEW buff \in [Index -> Bytes], NEW ri \in Index, NEW ct \in 0 .. N
  PROVE  /\ Ring(buff, ri, ct) \in Seq(Bytes)
         /\ Len(Ring(buff, ri, ct)) = ct
         /\ Ring(buff, ri, ct) = <<>> <=> ct = 0
         /\ \A k \in 1 .. ct : Ring(buff, ri, ct)[k] = buff[Wrap(ri, k - 1)]
<1>1. \A k \in 1 .. ct : buff[Wrap(ri, k - 1)] \in Bytes
  BY WrapPlace, SizeAssumption
<1>2. Ring(buff, ri, ct) \in [1 .. ct -> Bytes] /\ ct \in Nat
  BY <1>1, SizeAssumption DEF Ring
<1>3. Ring(buff, ri, ct) \in Seq(Bytes) /\ Len(Ring(buff, ri, ct)) = ct
  BY <1>2, SeqDef, LenProperties
<1>4. Ring(buff, ri, ct) = <<>> <=> ct = 0
  BY <1>3, EmptySeq
<1> QED BY <1>3, <1>4 DEF Ring

\* A byte in the place after the last makes the queue longer.
LEMMA RingAppend ==
  ASSUME NEW buff \in [Index -> Bytes], NEW ri \in Index, NEW ct \in 0 .. N - 1
  PROVE  Ring(buff, ri, ct + 1) = Append(Ring(buff, ri, ct), buff[Wrap(ri, ct)])
<1> DEFINE b == buff[Wrap(ri, ct)]
           long == Ring(buff, ri, ct + 1)
           app == Append(Ring(buff, ri, ct), b)
<1>1. ct \in 0 .. N /\ ct + 1 \in 0 .. N /\ ct \in Nat
  BY SizeAssumption
<1>2. b \in Bytes
  BY WrapPlace
<1>3. /\ long \in Seq(Bytes) /\ Len(long) = ct + 1
      /\ \A k \in 1 .. ct + 1 : long[k] = buff[Wrap(ri, k - 1)]
  BY <1>1, RingIsSeq
<1>4. /\ Ring(buff, ri, ct) \in Seq(Bytes) /\ Len(Ring(buff, ri, ct)) = ct
      /\ \A k \in 1 .. ct : Ring(buff, ri, ct)[k] = buff[Wrap(ri, k - 1)]
  BY <1>1, RingIsSeq
<1> HIDE DEF b
<1>5. /\ app \in Seq(Bytes) /\ Len(app) = ct + 1
      /\ \A k \in 1 .. ct : app[k] = Ring(buff, ri, ct)[k]
      /\ app[ct + 1] = b
  BY <1>1, <1>2, <1>4, AppendProperties
<1>6. \A k \in 1 .. ct + 1 : long[k] = app[k]
  <2>1. long[ct + 1] = b
    BY <1>1, <1>3 DEF b
  <2>2. ASSUME NEW k \in 1 .. ct PROVE long[k] = app[k]
    <3>1. k \in 1 .. ct + 1
      BY <1>1
    <3>2. long[k] = buff[Wrap(ri, k - 1)]
      BY <1>3, <3>1
    <3>3. app[k] = Ring(buff, ri, ct)[k]
      BY <1>5
    <3> QED BY <1>4, <3>2, <3>3
  <2>3. \A k \in 1 .. ct + 1 : k \in 1 .. ct \/ k = ct + 1
    BY <1>1
  <2> QED BY <1>5, <2>1, <2>2, <2>3
<1> HIDE DEF long, app
<1>7. long = app
  BY <1>3, <1>5, <1>6, SeqEqual
<1> QED BY <1>7 DEF long, app, b

\* The byte taken is the oldest one.
LEMMA RingTail ==
  ASSUME NEW buff \in [Index -> Bytes], NEW ri \in Index, NEW ct \in 1 .. N
  PROVE  /\ Ring(buff, ri, ct) # <<>>
         /\ Head(Ring(buff, ri, ct)) = buff[ri]
         /\ Tail(Ring(buff, ri, ct)) = Ring(buff, Inc(ri), ct - 1)
<1> DEFINE q == Ring(buff, ri, ct)
           rest == Ring(buff, Inc(ri), ct - 1)
<1>1. ct \in 0 .. N /\ ct - 1 \in 0 .. N /\ ct \in Nat \ {0} /\ Inc(ri) \in Index
  BY IncIndex, SizeAssumption
<1>2. /\ q \in Seq(Bytes) /\ Len(q) = ct /\ q # <<>>
      /\ \A k \in 1 .. ct : q[k] = buff[Wrap(ri, k - 1)]
  BY <1>1, RingIsSeq
<1>3. /\ rest \in Seq(Bytes) /\ Len(rest) = ct - 1
      /\ \A k \in 1 .. ct - 1 : rest[k] = buff[Wrap(Inc(ri), k - 1)]
  BY <1>1, RingIsSeq
<1> HIDE DEF q, rest
<1>4. /\ Tail(q) \in Seq(Bytes) /\ Len(Tail(q)) = ct - 1 /\ Head(q) = q[1]
      /\ \A k \in 1 .. ct - 1 : Tail(q)[k] = q[k + 1]
  BY <1>1, <1>2, HeadTailProperties
<1>5. q[1] = buff[ri]
  BY <1>1, <1>2, WrapPlace, SizeAssumption
<1>6. \A k \in 1 .. ct - 1 : Wrap(ri, k) = Wrap(Inc(ri), k - 1)
  BY <1>1, WrapPlace, SizeAssumption
<1>7. ASSUME NEW k \in 1 .. ct - 1 PROVE Tail(q)[k] = rest[k]
  <2>1. k + 1 \in 1 .. ct /\ (k + 1) - 1 = k
    BY <1>1
  <2>2. q[k + 1] = buff[Wrap(ri, k)]
    BY <1>2, <2>1
  <2> QED BY <1>3, <1>4, <1>6, <2>2
<1>8. Tail(q) = rest
  BY <1>3, <1>4, <1>7, SeqEqual
<1> QED BY <1>2, <1>4, <1>5, <1>8 DEF q, rest

\* A store behind the last byte leaves the queue alone.
LEMMA RingStore ==
  ASSUME NEW buff \in [Index -> Bytes], NEW ri \in Index, NEW ct \in 0 .. N - 1, NEW b
  PROVE  Ring([buff EXCEPT ![Wrap(ri, ct)] = b], ri, ct) = Ring(buff, ri, ct)
<1>1. \A k \in 1 .. ct : /\ Wrap(ri, k - 1) \in Index
                         /\ Wrap(ri, k - 1) # Wrap(ri, ct)
  BY WrapPlace, SizeAssumption
<1>2. \A k \in 1 .. ct :
         [buff EXCEPT ![Wrap(ri, ct)] = b][Wrap(ri, k - 1)] = buff[Wrap(ri, k - 1)]
  BY <1>1
<1> QED BY <1>2 DEF Ring
-----------------------------------------------------------------------------
(* What the port sees of a state of the driver. *)
TxSeen == [u \in Uarts |-> TxQueue(u)]
RxSeen == [u \in Uarts |-> RxQueue(u)]
RetSeen == IF pc = "get_adv" THEN d ELSE ret
Seen == <<TxSeen, RxSeen, udr, RetSeen, watch_key, watch_flag>>

\* The queues of a state are sequences of the bytes the counts tell.
LEMMA QueueFacts ==
  ASSUME RingType, MainType, NEW u \in Uarts
  PROVE  /\ tx_buff[u] \in [Index -> Bytes] /\ tx_ri[u] \in Index /\ tx_ct[u] \in 0 .. N
         /\ rx_buff[u] \in [Index -> Bytes] /\ RxRi(u) \in Index /\ rx_ct[u] \in 0 .. N
         /\ TxQueue(u) = Ring(tx_buff[u], tx_ri[u], tx_ct[u])
         /\ RxQueue(u) = Ring(rx_buff[u], RxRi(u), rx_ct[u])
         /\ Len(TxQueue(u)) = tx_ct[u] /\ (TxQueue(u) = <<>> <=> tx_ct[u] = 0)
         /\ Len(RxQueue(u)) = rx_ct[u] /\ (RxQueue(u) = <<>> <=> rx_ct[u] = 0)
<1>1. /\ tx_buff[u] \in [Index -> Bytes] /\ tx_ri[u] \in Index /\ tx_ct[u] \in 0 .. N
      /\ rx_buff[u] \in [Index -> Bytes] /\ rx_ri[u] \in Index /\ rx_ct[u] \in 0 .. N
  BY DEF RingType
<1>2. RxRi(u) \in Index
  BY <1>1, IncIndex DEF RxRi
<1>3. /\ TxQueue(u) = Ring(tx_buff[u], tx_ri[u], tx_ct[u])
      /\ RxQueue(u) = Ring(rx_buff[u], RxRi(u), rx_ct[u])
  BY DEF TxQueue, RxQueue, Ring
<1>4. Len(TxQueue(u)) = tx_ct[u] /\ (TxQueue(u) = <<>> <=> tx_ct[u] = 0)
  <2> DEFINE q == Ring(tx_buff[u], tx_ri[u], tx_ct[u])
  <2>1. Len(q) = tx_ct[u] /\ (q = <<>> <=> tx_ct[u] = 0)
    BY <1>1, RingIsSeq
  <2> HIDE DEF q
  <2>2. TxQueue(u) = q
    BY <1>3 DEF q
  <2> QED BY <2>1, <2>2
<1>5. Len(RxQueue(u)) = rx_ct[u] /\ (RxQueue(u) = <<>> <=> rx_ct[u] = 0)
  <2> DEFINE q == Ring(rx_buff[u], RxRi(u), rx_ct[u])
  <2>1. Len(q) = rx_ct[u] /\ (q = <<>> <=> rx_ct[u] = 0)
    BY <1>1, <1>2, RingIsSeq
  <2> HIDE DEF q
  <2>2. RxQueue(u) = q
    BY <1>3 DEF q
  <2> QED BY <2>1, <2>2
<1> QED BY <1>1, <1>2, <1>3, <1>4, <1>5

\* The port sees no difference when a ring and the advance of its index stay.
LEMMA TxStays ==
  ASSUME UNCHANGED <<tx_ri, tx_ct, tx_buff>>
  PROVE  UNCHANGED TxSeen
BY DEF TxSeen, TxQueue

LEMMA RxStays ==
  ASSUME UNCHANGED <<rx_ri, rx_ct, rx_buff>>,
         \/ UNCHANGED <<pc, cur>>
         \/ pc # "get_adv" /\ pc' # "get_adv"
  PROVE  UNCHANGED RxSeen
<1>1. \A u \in Uarts : RxRi(u)' = RxRi(u)
  BY DEF RxRi
<1> QED BY <1>1 DEF RxSeen, RxQueue

\* The port sees a queue replaced when no other queue changes.
LEMMA TxChange ==
  ASSUME NEW u \in Uarts, NEW q, TxQueue(u)' = q,
         \A v \in Uarts \ {u} : TxQueue(v)' = TxQueue(v)
  PROVE  TxSeen' = [TxSeen EXCEPT ![u] = q]
BY DEF TxSeen

LEMMA RxChange ==
  ASSUME NEW u \in Uarts, NEW q, RxQueue(u)' = q,
         \A v \in Uarts \ {u} : RxQueue(v)' = RxQueue(v)
  PROVE  RxSeen' = [RxSeen EXCEPT ![u] = q]
BY DEF RxSeen
-----------------------------------------------------------------------------
\* uart_init empties the receive queue of one UART; nothing waits to be sent.
LEMMA ReinitStep ==
  ASSUME IInv, NEW u \in Uarts, uart_init(u), pc \in {"boot", "flushed"},
         pc' # "get_adv", UNCHANGED <<tx_buff, rx_buff, udr, ret, watch>>
  PROVE  Port!Reinit(u)
<1>0. RingType /\ MainType /\ tx_ct[u] = 0 /\ (\A v \in Uarts : tx_ct[v] = 0)
  BY DEF IInv, TypeOK, FlushOK
<1>1. TxSeen[u] = <<>>
  BY <1>0, QueueFacts DEF TxSeen
<1>2. \A v \in Uarts : tx_ct'[v] = 0 /\ TxQueue(v)' = <<>>
  <2> SUFFICES ASSUME NEW v \in Uarts PROVE tx_ct'[v] = 0 /\ TxQueue(v)' = <<>>
    OBVIOUS
  <2>1. tx_ct'[v] = 0
    BY <1>0 DEF uart_init, RingType
  <2> QED BY <2>1 DEF TxQueue
<1>3. UNCHANGED TxSeen
  BY <1>0, <1>2, QueueFacts DEF TxSeen
<1>4. RxQueue(u)' = <<>>
  <2>1. rx_ct'[u] = 0
    BY <1>0 DEF uart_init, RingType
  <2> QED BY <2>1 DEF RxQueue
<1>5. \A v \in Uarts \ {u} : RxQueue(v)' = RxQueue(v)
  <2> SUFFICES ASSUME NEW v \in Uarts \ {u} PROVE RxQueue(v)' = RxQueue(v)
    OBVIOUS
  <2>1. rx_ct'[v] = rx_ct[v] /\ rx_ri'[v] = rx_ri[v] /\ rx_buff' = rx_buff
    BY <1>0 DEF uart_init, RingType
  <2>2. RxRi(v)' = RxRi(v)
    BY <2>1 DEF RxRi
  <2> QED BY <2>1, <2>2 DEF RxQueue
<1>6. RxSeen' = [RxSeen EXCEPT ![u] = <<>>]
  BY <1>4, <1>5, RxChange
<1> QED BY <1>1, <1>3, <1>6
        DEF Port!Reinit, Port!watch, TxSeen, RxSeen, watch

\* uart_putc stores its byte in the first free place.
LEMMA PutStoreStep ==
  ASSUME IInv, PutStore
  PROVE  UNCHANGED Seen
<1>0. RingType /\ MainType /\ RingOK /\ i = tx_wi[cur] /\ tx_ct[cur] < N /\ cur \in Uarts
  BY DEF IInv, TypeOK, CallOK, PutStore, MainType
<1>1. tx_ct[cur] \in 0 .. N - 1 /\ tx_ri[cur] \in Index /\ tx_buff[cur] \in [Index -> Bytes]
  BY <1>0, SizeAssumption DEF RingType
<1>2. i = Wrap(tx_ri[cur], tx_ct[cur])
  BY <1>0 DEF RingOK, TxWi, PutStore
<1>3. ASSUME NEW v \in Uarts PROVE TxQueue(v)' = TxQueue(v)
  <2>1. UNCHANGED <<tx_ri, tx_ct>>
    BY DEF PutStore
  <2>2. CASE v = cur
    <3>1. tx_buff'[v] = [tx_buff[v] EXCEPT ![Wrap(tx_ri[v], tx_ct[v])] = d]
      BY <1>0, <1>2, <2>2 DEF PutStore, RingType
    <3>2. Ring(tx_buff'[v], tx_ri[v], tx_ct[v]) = Ring(tx_buff[v], tx_ri[v], tx_ct[v])
      BY <1>1, <2>2, <3>1, RingStore
    <3> QED BY <2>1, <3>2 DEF TxQueue, Ring
  <2>3. CASE v # cur
    <3>1. tx_buff'[v] = tx_buff[v]
      BY <1>0, <2>3 DEF PutStore, RingType
    <3> QED BY <2>1, <3>1 DEF TxQueue
  <2> QED BY <2>2, <2>3
<1>4. UNCHANGED TxSeen
  BY <1>3 DEF TxSeen
<1>5. UNCHANGED RxSeen
  BY RxStays DEF PutStore, rx
<1> QED BY <1>4, <1>5 DEF Seen, RetSeen, PutStore, hw, watch, local

\* The count that makes the byte visible to the interrupt queues it.
LEMMA PutCritStep ==
  ASSUME IInv, PutCrit
  PROVE  cur \in Uarts /\ d \in Bytes /\ Port!Put(cur, d)
<1>0. /\ RingType /\ MainType /\ RingOK /\ cur \in Uarts /\ d \in Bytes
      /\ i = tx_wi[cur] /\ tx_ct[cur] < N /\ tx_buff[cur][i] = d
  BY DEF IInv, TypeOK, CallOK, PutCrit, MainType
<1>1. tx_ct[cur] \in 0 .. N - 1 /\ tx_ri[cur] \in Index /\ tx_buff[cur] \in [Index -> Bytes]
  BY <1>0, SizeAssumption DEF RingType
<1>2. i = Wrap(tx_ri[cur], tx_ct[cur])
  BY <1>0 DEF RingOK, TxWi, PutCrit
<1>3. TxQueue(cur)' = Append(TxQueue(cur), d)
  <2>1. tx_ct'[cur] = tx_ct[cur] + 1 /\ UNCHANGED <<tx_ri, tx_buff, cur>>
    BY <1>0 DEF PutCrit, RingType, local
  <2>2. TxQueue(cur)' = Ring(tx_buff[cur], tx_ri[cur], tx_ct[cur] + 1)
    BY <2>1 DEF TxQueue, Ring
  <2>3. Ring(tx_buff[cur], tx_ri[cur], tx_ct[cur] + 1)
          = Append(Ring(tx_buff[cur], tx_ri[cur], tx_ct[cur]), d)
    BY <1>0, <1>1, <1>2, RingAppend
  <2> QED BY <1>0, <2>2, <2>3, QueueFacts
<1>4. ASSUME NEW v \in Uarts \ {cur} PROVE TxQueue(v)' = TxQueue(v)
  <2>1. tx_ct'[v] = tx_ct[v] /\ UNCHANGED <<tx_ri, tx_buff>>
    BY <1>0 DEF PutCrit, RingType
  <2> QED BY <2>1 DEF TxQueue
<1>5. TxSeen' = [TxSeen EXCEPT ![cur] = Append(TxSeen[cur], d)]
  <2>1. ASSUME NEW u \in Uarts, u = cur
        PROVE  TxSeen' = [TxSeen EXCEPT ![u] = Append(TxQueue(u), d)]
    <3>1. TxQueue(u)' = Append(TxQueue(u), d)
      BY <1>3, <2>1 DEF TxQueue, PutCrit, local
    <3>2. \A v \in Uarts \ {u} : TxQueue(v)' = TxQueue(v)
      BY <1>4, <2>1
    <3> QED BY <3>1, <3>2, TxChange
  <2> QED BY <1>0, <2>1 DEF TxSeen
<1>6. UNCHANGED RxSeen
  BY RxStays DEF PutCrit, rx
<1>7. Len(TxSeen[cur]) < N
  BY <1>0, QueueFacts DEF TxSeen
<1>8. UNCHANGED <<udr, RetSeen, watch_key, watch_flag>>
  BY DEF PutCrit, RetSeen, watch, local
<1> QED BY <1>0, <1>5, <1>6, <1>7, <1>8
        DEF Port!Put, Port!watch, TxSeen, RxSeen, RetSeen

\* The critical section of uart_getc takes the byte just read from the queue.
LEMMA GetCritStep ==
  ASSUME IInv, GetCrit
  PROVE  cur \in Uarts /\ Port!Get(cur)
<1>0. /\ RingType /\ MainType /\ cur \in Uarts
      /\ i = rx_ri[cur] /\ rx_ct[cur] > 0 /\ rx_buff[cur][i] = d
  BY DEF IInv, TypeOK, CallOK, GetCrit, MainType
<1>1. rx_ct[cur] \in 1 .. N /\ rx_ri[cur] \in Index /\ rx_buff[cur] \in [Index -> Bytes]
  BY <1>0, SizeAssumption DEF RingType
<1>2. RxQueue(cur) = Ring(rx_buff[cur], rx_ri[cur], rx_ct[cur])
  <2>1. RxRi(cur) = rx_ri[cur]
    BY DEF RxRi, GetCrit
  <2> QED BY <1>0, <2>1, QueueFacts
<1>3. /\ RxQueue(cur) # <<>> /\ Head(RxQueue(cur)) = d
      /\ Tail(RxQueue(cur)) = Ring(rx_buff[cur], Inc(rx_ri[cur]), rx_ct[cur] - 1)
  BY <1>0, <1>1, <1>2, RingTail
<1>4. RxQueue(cur)' = Tail(RxQueue(cur))
  <2>1. /\ rx_ct'[cur] = rx_ct[cur] - 1 /\ UNCHANGED <<rx_ri, rx_buff, cur>>
        /\ pc' = "get_adv"
    BY <1>0 DEF GetCrit, RingType, local
  <2>2. RxRi(cur)' = Inc(rx_ri[cur])
    BY <2>1 DEF RxRi
  <2>3. RxQueue(cur)' = Ring(rx_buff[cur], Inc(rx_ri[cur]), rx_ct[cur] - 1)
    BY <2>1, <2>2 DEF RxQueue, Ring
  <2> QED BY <1>3, <2>3
<1>5. ASSUME NEW v \in Uarts \ {cur} PROVE RxQueue(v)' = RxQueue(v)
  <2>1. rx_ct'[v] = rx_ct[v] /\ UNCHANGED <<rx_ri, rx_buff, cur>>
    BY <1>0 DEF GetCrit, RingType, local
  <2>2. RxRi(v)' = RxRi(v)
    BY <2>1 DEF RxRi
  <2> QED BY <2>1, <2>2 DEF RxQueue
<1>6. RxSeen' = [RxSeen EXCEPT ![cur] = Tail(RxSeen[cur])]
  <2>1. ASSUME NEW u \in Uarts, u = cur
        PROVE  RxSeen' = [RxSeen EXCEPT ![u] = Tail(RxQueue(u))]
    <3>1. UNCHANGED cur
      BY DEF GetCrit, local
    <3>2. RxQueue(u)' = Tail(RxQueue(u))
      BY <1>4, <2>1, <3>1 DEF RxQueue, RxRi
    <3>3. \A v \in Uarts \ {u} : RxQueue(v)' = RxQueue(v)
      BY <1>5, <2>1
    <3> QED BY <3>2, <3>3, RxChange
  <2> QED BY <1>0, <2>1 DEF RxSeen
<1>7. UNCHANGED TxSeen
  BY TxStays DEF GetCrit, tx
<1>8. RxSeen[cur] = RxQueue(cur)
  BY <1>0 DEF RxSeen
<1>9. RetSeen' = d /\ UNCHANGED <<udr, watch_key, watch_flag>>
  BY DEF GetCrit, RetSeen, watch, local
<1> QED BY <1>0, <1>3, <1>6, <1>7, <1>8, <1>9
        DEF Port!Get, Port!watch, TxSeen, RxSeen, RetSeen

\* Moving ri afterwards is not seen: the byte already counts as taken.
LEMMA GetAdvStep ==
  ASSUME IInv, GetAdv
  PROVE  UNCHANGED Seen
<1>0. RingType /\ MainType /\ cur \in Uarts /\ i = rx_ri[cur]
  BY DEF IInv, TypeOK, CallOK, GetAdv, MainType
<1>1. ASSUME NEW v \in Uarts PROVE RxRi(v)' = RxRi(v)
  <2>1. pc = "get_adv" /\ pc' = "idle" /\ rx_ri' = [rx_ri EXCEPT ![cur] = Inc(i)]
    BY DEF GetAdv
  <2>2. CASE v = cur
    BY <1>0, <2>1, <2>2 DEF RxRi, RingType
  <2>3. CASE v # cur
    BY <1>0, <2>1, <2>3 DEF RxRi, RingType
  <2> QED BY <2>2, <2>3
<1>2. UNCHANGED RxSeen
  BY <1>1 DEF GetAdv, RxSeen, RxQueue
<1>3. UNCHANGED TxSeen
  BY TxStays DEF GetAdv, tx
<1>4. UNCHANGED <<udr, RetSeen, watch_key, watch_flag>>
  BY DEF GetAdv, RetSeen, hw, watch, local
<1> QED BY <1>2, <1>3, <1>4 DEF Seen

\* uart_peek returns the oldest byte and leaves it in the ring.
LEMMA PeekReadStep ==
  ASSUME IInv, PeekRead
  PROVE  cur \in Uarts /\ Port!Peek(cur)
<1>0. RingType /\ MainType /\ cur \in Uarts /\ i = rx_ri[cur] /\ rx_ct[cur] > 0
  BY DEF IInv, TypeOK, CallOK, PeekRead, MainType
<1>1. rx_ct[cur] \in 1 .. N /\ rx_ri[cur] \in Index /\ rx_buff[cur] \in [Index -> Bytes]
  BY <1>0, SizeAssumption DEF RingType
<1>2. RxQueue(cur) = Ring(rx_buff[cur], rx_ri[cur], rx_ct[cur])
  <2>1. RxRi(cur) = rx_ri[cur]
    BY DEF RxRi, PeekRead
  <2> QED BY <1>0, <2>1, QueueFacts
<1>3. RxQueue(cur) # <<>> /\ Head(RxQueue(cur)) = rx_buff[cur][i]
  BY <1>0, <1>1, <1>2, RingTail
<1>4. RxSeen[cur] = RxQueue(cur)
  BY <1>0 DEF RxSeen
<1>5. UNCHANGED TxSeen
  BY TxStays DEF PeekRead, tx
<1>6. UNCHANGED RxSeen
  BY RxStays DEF PeekRead, rx
<1>7. RetSeen' = rx_buff[cur][i] /\ UNCHANGED <<udr, watch_key, watch_flag>>
  BY DEF PeekRead, RetSeen, hw, watch
<1> QED BY <1>0, <1>3, <1>4, <1>5, <1>6, <1>7
        DEF Port!Peek, Port!queues, Port!watch, TxSeen, RxSeen, RetSeen

\* uart_getc and uart_peek answer 0 when the ring is empty.
LEMMA GetCallStep ==
  ASSUME IInv, NEW u \in Uarts, NEW op \in {"get", "peek"}, GetCall(u, op)
  PROVE  Port!GetEmpty(u) \/ UNCHANGED Seen
<1>0. RingType /\ MainType
  BY DEF IInv, TypeOK
<1>1. UNCHANGED TxSeen
  BY TxStays DEF GetCall, tx
<1>2. UNCHANGED RxSeen
  BY RxStays DEF GetCall, rx, local
<1>3. UNCHANGED <<udr, watch_key, watch_flag>>
  BY DEF GetCall, hw, watch
<1>4. CASE rx_ct[u] = 0
  <2>1. RxSeen[u] = <<>>
    BY <1>0, <1>4, QueueFacts DEF RxSeen
  <2>2. RetSeen' = Zero
    BY <1>4 DEF GetCall, RetSeen
  <2> QED BY <1>1, <1>2, <1>3, <2>1, <2>2
          DEF Port!GetEmpty, Port!queues, Port!watch, TxSeen, RxSeen, RetSeen
<1>5. CASE rx_ct[u] # 0
  <2>1. UNCHANGED RetSeen
    BY <1>5 DEF GetCall, RetSeen
  <2> QED BY <1>1, <1>2, <1>3, <2>1 DEF Seen
<1> QED BY <1>4, <1>5
-----------------------------------------------------------------------------
\* The receive interrupt appends its byte, or drops it when the ring is full.
LEMMA ReceiveStep ==
  ASSUME IInv, NEW u \in Uarts, NEW b \in Bytes, uart_rx_vect(u, b)
  PROVE  Port!Receive(u, b)
<1>0. RingType /\ MainType /\ RingOK
  BY DEF IInv, TypeOK
<1>1. /\ rx_ct[u] \in 0 .. N /\ RxRi(u) \in Index /\ rx_buff[u] \in [Index -> Bytes]
      /\ RxQueue(u) = Ring(rx_buff[u], RxRi(u), rx_ct[u])
      /\ Len(RxQueue(u)) = rx_ct[u]
  BY <1>0, QueueFacts
<1>2. UNCHANGED TxSeen
  BY TxStays DEF uart_rx_vect, tx
<1>3. /\ watch_flag' = (watch_flag \/ (watch_key # Zero /\ b = watch_key))
      /\ UNCHANGED <<udr, RetSeen, watch_key, rx_ri, pc, cur>>
  BY DEF uart_rx_vect, RetSeen, hw, local
<1>4. RxSeen[u] = RxQueue(u)
  BY DEF RxSeen
<1>5. \A v \in Uarts : RxRi(v)' = RxRi(v)
  BY <1>3 DEF RxRi
<1>6. CASE rx_ct[u] = N
  <2>1. UNCHANGED RxSeen
    <3>1. UNCHANGED <<rx_ct, rx_buff>>
      BY <1>6, SizeAssumption DEF uart_rx_vect
    <3> QED BY <1>3, <3>1, RxStays
  <2> QED BY <1>1, <1>2, <1>3, <1>4, <1>6, <2>1
          DEF Port!Receive, Port!watch, TxSeen, RxSeen, RetSeen
<1>7. CASE rx_ct[u] < N
  <2> DEFINE w == Wrap(RxRi(u), rx_ct[u])
             new == [rx_buff[u] EXCEPT ![w] = b]
  <2>1. rx_ct[u] \in 0 .. N - 1 /\ rx_ct[u] # N
    BY <1>1, <1>7, SizeAssumption
  <2>2. rx_wi[u] = w /\ w \in Index
    BY <1>0, <1>1, <2>1, WrapPlace DEF RingOK
  <2>3. /\ rx_ct' = [rx_ct EXCEPT ![u] = @ + 1]
        /\ rx_buff' = [rx_buff EXCEPT ![u] = new]
    BY <2>1, <2>2 DEF uart_rx_vect
  <2>4. rx_ct'[u] = rx_ct[u] + 1 /\ rx_buff'[u] = new
    BY <1>0, <2>3 DEF RingType
  <2>5. new \in [Index -> Bytes] /\ new[w] = b
    BY <1>1, <2>2
  <2>6. Ring(new, RxRi(u), rx_ct[u]) = RxQueue(u)
    BY <1>1, <2>1, RingStore
  <2> HIDE DEF new, w
  <2>7. Ring(new, RxRi(u), rx_ct[u] + 1) = Append(RxQueue(u), b)
    <3>1. new[Wrap(RxRi(u), rx_ct[u])] = b
      BY <2>5 DEF w
    <3> QED BY <1>1, <2>1, <2>5, <2>6, <3>1, RingAppend
  <2>8. RxQueue(u)' = Append(RxQueue(u), b)
    BY <1>5, <2>4, <2>7 DEF RxQueue, Ring
  <2>9. ASSUME NEW v \in Uarts \ {u} PROVE RxQueue(v)' = RxQueue(v)
    <3>1. rx_ct'[v] = rx_ct[v] /\ rx_buff'[v] = rx_buff[v]
      BY <1>0, <2>3 DEF RingType
    <3> QED BY <1>5, <3>1 DEF RxQueue
  <2>10. RxSeen' = [RxSeen EXCEPT ![u] = Append(RxSeen[u], b)]
    BY <1>4, <2>8, <2>9, RxChange
  <2> QED BY <1>1, <1>2, <1>3, <1>4, <1>7, <2>10
          DEF Port!Receive, Port!watch, TxSeen, RxSeen, RetSeen
<1> QED BY <1>1, <1>6, <1>7, SizeAssumption

\* The data-register-empty interrupt transmits the oldest byte, if there is one.
LEMMA TransmitStep ==
  ASSUME IInv, NEW u \in Uarts, uart_udre_vect(u)
  PROVE  Port!Transmit(u) \/ UNCHANGED Seen
<1>0. RingType /\ MainType
  BY DEF IInv, TypeOK
<1>1. /\ tx_ct[u] \in 0 .. N /\ tx_ri[u] \in Index /\ tx_buff[u] \in [Index -> Bytes]
      /\ TxQueue(u) = Ring(tx_buff[u], tx_ri[u], tx_ct[u])
  BY <1>0, QueueFacts
<1>2. UNCHANGED RxSeen
  BY RxStays DEF uart_udre_vect, rx, local
<1>3. UNCHANGED <<RetSeen, watch_key, watch_flag, tx_buff>>
  BY DEF uart_udre_vect, RetSeen, watch, local
<1>4. CASE tx_ct[u] = 0
  <2>1. UNCHANGED <<tx_ct, tx_ri, udr>>
    BY <1>4 DEF uart_udre_vect
  <2> QED BY <1>2, <1>3, <2>1, TxStays DEF Seen
<1>5. CASE tx_ct[u] # 0
  <2>1. tx_ct[u] \in 1 .. N
    BY <1>1, <1>5, SizeAssumption
  <2>2. /\ TxQueue(u) # <<>> /\ Head(TxQueue(u)) = tx_buff[u][tx_ri[u]]
        /\ Tail(TxQueue(u)) = Ring(tx_buff[u], Inc(tx_ri[u]), tx_ct[u] - 1)
    BY <1>1, <2>1, RingTail
  <2>3. /\ tx_ct' = [tx_ct EXCEPT ![u] = @ - 1]
        /\ tx_ri' = [tx_ri EXCEPT ![u] = Inc(tx_ri[u])]
        /\ udr' = [udr EXCEPT ![u] = Head(TxQueue(u))]
    BY <1>5, <2>2 DEF uart_udre_vect
  <2>4. TxQueue(u)' = Tail(TxQueue(u))
    <3>1. tx_ct'[u] = tx_ct[u] - 1 /\ tx_ri'[u] = Inc(tx_ri[u])
      BY <1>0, <2>3 DEF RingType
    <3>2. TxQueue(u)' = Ring(tx_buff[u], Inc(tx_ri[u]), tx_ct[u] - 1)
      BY <1>3, <3>1 DEF TxQueue, Ring
    <3> QED BY <2>2, <3>2
  <2>5. ASSUME NEW v \in Uarts \ {u} PROVE TxQueue(v)' = TxQueue(v)
    <3>1. tx_ct'[v] = tx_ct[v] /\ tx_ri'[v] = tx_ri[v]
      BY <1>0, <2>3 DEF RingType
    <3> QED BY <1>3, <3>1 DEF TxQueue
  <2>6. TxSeen[u] = TxQueue(u)
    BY DEF TxSeen
  <2>7. TxSeen' = [TxSeen EXCEPT ![u] = Tail(TxSeen[u])]
    BY <2>4, <2>5, <2>6, TxChange
  <2>8. Port!Transmit(u)
    BY <1>2, <1>3, <2>2, <2>3, <2>6, <2>7
    DEF Port!Transmit, Port!watch, TxSeen, RxSeen, RetSeen
  <2> QED BY <2>8
<1> QED BY <1>4, <1>5
-----------------------------------------------------------------------------
\* The driver implements the bounded FIFO queues of UartPort: no byte accepted
\* is lost, repeated or reordered, whatever interrupt comes between whichever
\* two statements, for every size of the buffers and every number of UARTs.
THEOREM DriverImplements == Spec => PortSpec
<1>1. Init => Port!Init
  <2> SUFFICES ASSUME Init PROVE Port!Init
    OBVIOUS
  <2>1. RingType /\ MainType
    BY InitIInv DEF IInv, TypeOK
  <2>2. \A u \in Uarts : TxQueue(u) = <<>> /\ RxQueue(u) = <<>>
    BY <2>1, QueueFacts DEF Init
  <2> QED BY <2>2 DEF Init, Port!Init, Port!Uarts, Uarts
<1>2. IInv /\ [Next]_vars => [Port!Next]_(Port!vars)
  <2> SUFFICES ASSUME IInv, [Next]_vars
               PROVE  Port!Next \/ UNCHANGED Seen
    BY DEF Port!vars, Seen, TxSeen, RxSeen, RetSeen
  <2>0. RingType /\ MainType
    BY DEF IInv, TypeOK
  <2> USE DEF Port!Next, Port!Uarts
  <2>1. CASE Boot
    <3>1. cur \in Uarts /\ Port!Reinit(cur)
      BY <2>0, <2>1, ReinitStep DEF Boot, MainType, watch
    <3> QED BY <3>1 DEF Uarts
  <2>2. ASSUME NEW u \in Uarts, Baud(u) PROVE Port!Next
    <3>1. Port!Reinit(u)
      BY <2>2, ReinitStep DEF Baud, watch
    <3> QED BY <3>1 DEF Uarts
  <2>3. CASE PutStore \/ GetAdv
    BY <2>3, PutStoreStep, GetAdvStep
  <2>4. CASE PutCrit
    BY <2>4, PutCritStep DEF Uarts
  <2>5. CASE GetCrit
    BY <2>5, GetCritStep DEF Uarts
  <2>6. CASE PeekRead
    BY <2>6, PeekReadStep DEF Uarts
  <2>7. ASSUME NEW u \in Uarts, NEW op \in {"get", "peek"}, GetCall(u, op)
        PROVE  Port!Next \/ UNCHANGED Seen
    BY <2>7, GetCallStep DEF Uarts
  <2>8. ASSUME NEW u \in Uarts, NEW b \in Bytes, uart_rx_vect(u, b)
        PROVE  Port!Next
    BY <2>8, ReceiveStep DEF Uarts
  <2>9. ASSUME NEW u \in Uarts, uart_udre_vect(u)
        PROVE  Port!Next \/ UNCHANGED Seen
    BY <2>9, TransmitStep DEF Uarts
  <2>10. CASE ClearWatchFlag \/ \E k \in Bytes : SetWatchKey(k)
    <3>1. /\ \/ watch_key' \in Bytes /\ UNCHANGED watch_flag
             \/ watch_flag' = FALSE /\ UNCHANGED watch_key
          /\ UNCHANGED <<tx_ri, tx_ct, tx_buff, rx_ri, rx_ct, rx_buff, pc, cur,
                         udr, RetSeen>>
      BY <2>10 DEF ClearWatchFlag, SetWatchKey, tx, rx, hw, local, RetSeen
    <3>2. UNCHANGED TxSeen /\ UNCHANGED RxSeen
      BY <3>1, TxStays, RxStays
    <3>3. Port!Watch
      BY <3>1, <3>2 DEF Port!Watch, Port!queues, TxSeen, RxSeen, RetSeen
    <3> QED BY <3>3
  <2>11. CASE \/ StartTimer \/ PutWait \/ PutAdv \/ GetRead
              \/ FlushCall \/ FlushCt \/ FlushUdre \/ FlushReturn
              \/ (\E u \in Uarts : Shift(u))
              \/ (\E u \in Uarts, b \in Bytes : PutCall(u, b))
              \/ UNCHANGED vars
    <3>1. UNCHANGED <<tx_ri, tx_ct, tx_buff, rx_ri, rx_ct, rx_buff,
                      udr, watch_key, watch_flag>>
      BY <2>11 DEF StartTimer, PutWait, PutAdv, GetRead, FlushCall, FlushCt,
         FlushUdre, FlushReturn, Shift, PutCall, vars, tx, rx, hw, watch
    <3>2. /\ \/ UNCHANGED <<pc, cur>>
             \/ pc # "get_adv" /\ pc' # "get_adv"
          /\ UNCHANGED RetSeen
      BY <2>11 DEF StartTimer, PutWait, PutAdv, GetRead, FlushCall, FlushCt,
         FlushUdre, FlushReturn, Shift, PutCall, vars, local, RetSeen
    <3> QED BY <3>1, <3>2, TxStays, RxStays DEF Seen
  <2> QED BY <2>1, <2>2, <2>3, <2>4, <2>5, <2>6, <2>7, <2>8, <2>9, <2>10, <2>11
          DEF Next, Calls, Running, Interrupts
<1> QED BY <1>1, <1>2, Invariance, PTL DEF Spec, PortSpec, Port!Spec
=============================================================================
