------------------------------ MODULE Z80Proof ------------------------------
EXTENDS Z80Run, SequenceTheorems, TLAPS

\* An address stays one of at most two bytes.
LEMMA MailedBox ==
  ASSUME NEW box \in Boxes, NEW byte \in Bytes \cup {None}
  PROVE  Mailed(box, byte) \in Boxes
BY DEF Boxes, Mailed

\* A command is not None, as it stands in dma or as the port's promise sees it.
LEMMA CommandIsNone ==
  ASSUME NEW m \in Mailboxes, NEW box \in Boxes, Len(box) = 2, NEW byte \in Bytes
  PROVE  <<m, byte>> # None /\ <<m, box, byte>> # None
<1>1. box \in [1 .. 2 -> Bytes]
  BY LenProperties DEF Boxes
<1> QED BY <1>1, PortAssumption

\* At power-up the firmware has the bus and the mailboxes are empty.
LEMMA InitIInv == Init => IInv
<1> SUFFICES ASSUME Init PROVE IInv
  OBVIOUS
<1>1. <<>> \in Boxes
  BY DEF Boxes
<1>2. TypeOK
  BY <1>1 DEF Init, TypeOK, BusType, KeyType, MailType
<1>3. BusOK /\ NoContention /\ InStep /\ mail = Owed
  BY DEF Init, BusOK, NoContention, InStep, Owed
<1> QED BY <1>2, <1>3 DEF IInv

\* The steps of the Z80 and of the user, which leave the firmware where it is.
Outside == \/ Cpu \/ Press \/ Release \/ HaltKey \/ Halt \/ ResetSeen
           \/ \E h \in Halts : cli_halt(h[1], h[2])
           \/ \E r \in Requests : IoStart(r)

\* The steps of the firmware that move no byte of a mailbox.
Quiet == \/ Started \/ Poll \/ PollIdle \/ Check \/ Stop \/ Stopped
         \/ Ack \/ Acked \/ DmaRequest \/ DmaGranted
         \/ DmaRelease \/ DmaReleased \/ Run

\* Every step is one of these.
LEMMA NextCases ==
  [Next]_vars => \/ Outside \/ Quiet \/ Dispatch \/ Execute \/ DmaDropped
                 \/ z80_reset \/ UNCHANGED vars
BY DEF Next, Firmware, User, Outside, Quiet

\* The firmware, the bus and the Z80 stay in their types.
LEMMA NextBusType == TypeOK /\ [Next]_vars => BusType'
<1> SUFFICES ASSUME BusType, [Next]_vars PROVE BusType'
  BY DEF TypeOK
<1> USE DEF BusType, bus, cpu, keys, ports, Goto
<1>1. CASE IoDone \/ Grant \/ TakeBack \/ Press \/ Release \/ HaltKey
           \/ Halt \/ ResetSeen
  BY <1>1, ZenonT(40) DEF IoDone, Grant, TakeBack, Press, Release, HaltKey, Halt, ResetSeen
<1>2. ASSUME NEW h \in Halts, cli_halt(h[1], h[2]) PROVE BusType'
  BY <1>2 DEF cli_halt
<1>3. ASSUME NEW r \in Requests, IoStart(r) PROVE BusType'
  BY <1>3 DEF IoStart
<1>4. CASE Started \/ Poll \/ PollIdle \/ Check \/ Stop
  BY <1>4 DEF Started, Poll, PollIdle, Check, Stop, Request
<1>5. CASE Stopped \/ Ack \/ Acked \/ DmaRequest \/ DmaGranted
  BY <1>5 DEF Stopped, Ack, Acked, DmaRequest, DmaGranted, Request, Granted, TimedOut
<1>6. CASE DmaRelease \/ DmaReleased \/ Run
  BY <1>6 DEF DmaRelease, DmaReleased, Run, Released
<1>7. CASE Dispatch
  BY <1>7 DEF Dispatch
<1>8. CASE Execute \/ DmaDropped \/ z80_reset
  BY <1>8 DEF Execute, DmaDropped, TimedOut, z80_reset
<1>9. CASE UNCHANGED vars
  BY <1>9 DEF vars
<1> QED BY <1>1, <1>2, <1>3, <1>4, <1>5, <1>6, <1>7, <1>8, <1>9, NextCases
        DEF Outside, Cpu, Quiet

\* So do the settings of the user.
LEMMA NextKeyType == TypeOK /\ [Next]_vars => KeyType'
<1> SUFFICES ASSUME KeyType, BusType, [Next]_vars PROVE KeyType'
  BY DEF TypeOK
<1> USE DEF KeyType, bus, cpu, keys, ports, Goto
<1>1. CASE IoDone \/ Grant \/ TakeBack \/ Press \/ Release \/ HaltKey
           \/ Halt \/ ResetSeen
  BY <1>1 DEF IoDone, Grant, TakeBack, Press, Release, HaltKey, Halt, ResetSeen, BusType
<1>2. ASSUME NEW h \in Halts, cli_halt(h[1], h[2]) PROVE KeyType'
  BY <1>2, PortAssumption DEF cli_halt
<1>3. ASSUME NEW r \in Requests, IoStart(r) PROVE KeyType'
  BY <1>3 DEF IoStart
<1>4. CASE Started \/ Poll \/ PollIdle \/ Check \/ Stop
  BY <1>4 DEF Started, Poll, PollIdle, Check, Stop, Request
<1>5. CASE Stopped \/ Ack \/ Acked \/ DmaRequest \/ DmaGranted
  BY <1>5 DEF Stopped, Ack, Acked, DmaRequest, DmaGranted, Request, Granted, TimedOut
<1>6. CASE DmaRelease \/ DmaReleased \/ Run
  BY <1>6 DEF DmaRelease, DmaReleased, Run, Released
<1>7. CASE Dispatch \/ Execute \/ DmaDropped \/ z80_reset
  BY <1>7 DEF Dispatch, Execute, DmaDropped, TimedOut, z80_reset
<1>8. CASE UNCHANGED vars
  BY <1>8 DEF vars
<1> QED BY <1>1, <1>2, <1>3, <1>4, <1>5, <1>6, <1>7, <1>8, NextCases
        DEF Outside, Cpu, Quiet

\* The steps that move no byte and no command.
LEMMA MailStays ==
  ASSUME Quiet \/ Outside \/ z80_reset \/ UNCHANGED vars
  PROVE  /\ mail' = mail
         /\ dma' = dma
         /\ sent' = sent \/ sent' = mail \/ IoDone
<1> USE DEF cpu, keys, ports
<1>1. CASE Quiet
  BY <1>1 DEF Quiet, Started, Poll, PollIdle, Check, Stop, Stopped, Ack, Acked,
              DmaRequest, DmaGranted, DmaRelease, DmaReleased, Run,
              Request, Granted, TimedOut, Released
<1>2. CASE Outside
  BY <1>2 DEF Outside, Cpu, IoDone, Grant, TakeBack, Press, Release, HaltKey, Halt,
              ResetSeen, cli_halt, IoStart
<1> QED BY <1>1, <1>2 DEF z80_reset, vars

\* A mailbox holds at most two bytes, and a command is a byte for a mailbox.
LEMMA NextMailType == TypeOK /\ InStep /\ [Next]_vars => MailType'
<1> SUFFICES ASSUME MailType, BusType, InStep, [Next]_vars PROVE MailType'
  BY DEF TypeOK
<1> USE DEF MailType, keys, ports, cpu
<1>1. CASE IoDone
  <2>1. req \in Requests
    BY <1>1 DEF IoDone, InStep, BusType
  <2>2. CASE req.port = Dev
    BY <1>1, <2>2 DEF IoDone
  <2>3. CASE req.port # Dev
    <3>1. req.port \in Mailboxes /\ Mailed(sent[req.port], req.byte) \in Boxes
      BY <2>1, <2>3, MailedBox DEF Requests, Ports
    <3> QED BY <1>1, <2>3, <3>1 DEF IoDone
  <2> QED BY <2>2, <2>3
<1>2. CASE ~IoDone /\ (Quiet \/ Outside \/ z80_reset \/ UNCHANGED vars)
  BY <1>2, MailStays
<1>3. CASE Dispatch
  <2>0. sent' = sent
    BY <1>3 DEF Dispatch
  <2>1. CASE mail' = mail /\ dma' = dma
    BY <2>0, <2>1
  <2>2. CASE z80 = "io" /\ req.port \in Mailboxes
    <3>1. req.byte \in Bytes \cup {None}
      BY <2>2 DEF InStep, BusType, Requests
    <3>2. CASE Queue(req.port)
      BY <2>0, <2>2, <3>1, <3>2 DEF Queue
    <3>3. CASE Post(req.port)
      <4>1. Mailed(mail[req.port], req.byte) \in Boxes
        BY <2>2, <3>1, MailedBox
      <4> QED BY <2>0, <2>2, <3>3, <4>1 DEF Post
    <3>4. CASE req.port = Dev
      BY <2>2, <3>4, PortAssumption
    <3> QED BY <1>3, <2>2, <3>2, <3>3, <3>4 DEF Dispatch
  <2> QED BY <1>3, <2>1, <2>2 DEF Dispatch
<1>4. CASE Execute \/ DmaDropped
  BY <1>4 DEF Execute, DmaDropped, TimedOut
<1> QED BY <1>1, <1>2, <1>3, <1>4, NextCases

\* The points of the firmware at which BUSRQ, the control lines, the data lines
\* and a pending command are as BusOK says.
LEMMA NextBus == TypeOK /\ BusOK /\ InStep /\ [Next]_vars => BusOK'
<1> SUFFICES ASSUME TypeOK, BusOK, InStep, [Next]_vars PROVE BusOK'
  OBVIOUS
<1> USE DEF BusOK, bus, cpu, keys, ports, Goto
<1>1. CASE Outside
  <2>1. UNCHANGED <<pc, bus, mail, dma>>
    BY <1>1 DEF Outside, Cpu, IoDone, Grant, TakeBack, Press, Release, HaltKey, Halt,
                ResetSeen, cli_halt, IoStart
  <2> QED BY <2>1
<1>2. CASE Started \/ Poll \/ PollIdle \/ Check \/ Stop
  BY <1>2 DEF Started, Poll, PollIdle, Check, Stop, Request
<1>3. CASE Stopped \/ Ack \/ Acked
  BY <1>3 DEF Stopped, Ack, Acked, Request, Granted, TimedOut
<1>4. CASE DmaRequest \/ DmaGranted \/ DmaRelease \/ DmaReleased \/ Run
  BY <1>4 DEF DmaRequest, DmaGranted, DmaRelease, DmaReleased, Run, Request, Granted,
              Released
<1>5. CASE Dispatch
  <2>0. dma = None /\ ~drive /\ ~dout
    BY <1>5 DEF Dispatch
  <2>1. CASE dma' = dma
    BY <1>5, <2>0, <2>1 DEF Dispatch
  <2>2. CASE dma' # dma
    <3>1. z80 = "io" /\ req.port \in Mailboxes /\ req.byte \in Bytes \cup {None}
      BY <1>5, <2>2, <2>0 DEF InStep, Dispatch, TypeOK, BusType, Requests, Queue, Post
    <3>2. Queue(req.port) /\ dout' = FALSE
      BY <1>5, <2>2, <2>0, <3>1 DEF Dispatch, Queue, Post
    <3> QED BY <1>5, <2>0, <3>1, <3>2, CommandIsNone DEF Dispatch, Queue
  <2> QED BY <2>1, <2>2
<1>6. CASE Execute \/ DmaDropped \/ z80_reset
  BY <1>6 DEF Execute, DmaDropped, TimedOut, z80_reset
<1>7. CASE UNCHANGED vars
  BY <1>7 DEF vars
<1> QED BY <1>1, <1>2, <1>3, <1>4, <1>5, <1>6, <1>7, NextCases DEF Quiet

\* The firmware does not begin to drive a line, and the Z80 does not come back,
\* while the other has the bus.
LEMMA NextContention ==
  TypeOK /\ BusOK /\ InStep /\ NoContention /\ [Next]_vars => NoContention'
<1> SUFFICES ASSUME TypeOK, BusOK, InStep, NoContention, [Next]_vars, ~hit'
             PROVE  NoContention'
  BY DEF NoContention
<1> USE DEF BusOK, NoContention, bus, cpu, keys, ports, Goto
<1>1. CASE Outside
  BY <1>1 DEF Outside, Cpu, IoDone, Grant, TakeBack, Press, Release, HaltKey, Halt,
              ResetSeen, cli_halt, IoStart, InStep, Clocked
<1>2. CASE Started \/ Poll \/ PollIdle \/ Check \/ Stop
  BY <1>2 DEF Started, Poll, PollIdle, Check, Stop, Request, Wait, BusAck
<1>3. CASE Stopped \/ Ack \/ Acked
  BY <1>3 DEF Stopped, Ack, Acked, Request, Granted, TimedOut, BusAck
<1>4. CASE DmaRequest \/ DmaGranted \/ DmaRelease \/ DmaReleased \/ Run
  BY <1>4 DEF DmaRequest, DmaGranted, DmaRelease, DmaReleased, Run, Request, Granted,
              Released, BusAck
<1>5. CASE Dispatch
  BY <1>5 DEF Dispatch
<1>6. CASE Execute \/ DmaDropped \/ z80_reset
  BY <1>6 DEF Execute, DmaDropped, TimedOut, z80_reset
<1>7. CASE UNCHANGED vars
  BY <1>7 DEF vars
<1> QED BY <1>1, <1>2, <1>3, <1>4, <1>5, <1>6, <1>7, NextCases DEF Quiet

\* The Z80 stays in the cycle that is being served, and a cycle that is served is
\* ended before the firmware polls again.
LEMMA NextInStep == TypeOK /\ BusOK /\ InStep /\ [Next]_vars => InStep'
<1> SUFFICES ASSUME TypeOK, BusOK, InStep, [Next]_vars PROVE InStep'
  OBVIOUS
<1> USE DEF BusOK, InStep, bus, cpu, keys, ports, Goto
<1>1. CASE Cpu \/ Press \/ Release \/ HaltKey
  BY <1>1 DEF Cpu, IoDone, Grant, TakeBack, Press, Release, HaltKey, Clocked
<1>2. CASE Halt \/ ResetSeen
  BY <1>2 DEF Halt, ResetSeen
<1>3. ASSUME NEW h \in Halts, cli_halt(h[1], h[2]) PROVE InStep'
  BY <1>3 DEF cli_halt
<1>4. ASSUME NEW r \in Requests, IoStart(r) PROVE InStep'
  BY <1>4, PortAssumption DEF IoStart, Clocked
<1>5. CASE Started \/ Poll \/ PollIdle \/ Check \/ Stop
  BY <1>5 DEF Started, Poll, PollIdle, Check, Stop, Request, Wait
<1>6. CASE Stopped \/ Ack \/ Acked
  BY <1>6 DEF Stopped, Ack, Acked, Request, Granted, TimedOut, BusAck
<1>7. CASE DmaRequest \/ DmaGranted \/ DmaRelease \/ DmaReleased \/ Run
  BY <1>7 DEF DmaRequest, DmaGranted, DmaRelease, DmaReleased, Run, Request, Granted,
              Released, BusAck
<1>8. CASE Dispatch
  BY <1>8 DEF Dispatch
<1>9. CASE Execute \/ DmaDropped \/ z80_reset
  BY <1>9 DEF Execute, DmaDropped, TimedOut, z80_reset
<1>10. CASE UNCHANGED vars
  BY <1>10 DEF vars
<1> QED BY <1>1, <1>2, <1>3, <1>4, <1>5, <1>6, <1>7, <1>8, <1>9, <1>10, NextCases
        DEF Outside, Quiet

\* A request is in one of three states for the mailboxes: not served, served and
\* owed to the Z80's view of them, or ended.
LEMMA NextOwed ==
  IInv /\ [Next]_vars /\ ~lost' => mail' = Owed'
<1> SUFFICES ASSUME IInv, [Next]_vars, ~lost' PROVE mail' = Owed'
  OBVIOUS
<1>0. lost => lost'
  BY DEF Next, Firmware, User, Cpu, IoDone, Grant, TakeBack, Press, Release, HaltKey,
         Halt, ResetSeen, cli_halt, IoStart, Started, Poll, PollIdle, Check, Stop,
         Stopped, Ack, Acked, DmaRequest, DmaGranted, DmaRelease, DmaReleased, Run,
         Request, Granted, TimedOut, Released, Dispatch, Execute, DmaDropped,
         z80_reset, vars, cpu
<1>00. mail = Owed
  BY <1>0 DEF IInv
<1> USE DEF cpu, Owed, ports
<1>1. CASE IoDone
  <2>1. req \in Requests /\ served /\ mail' = mail
    BY <1>1 DEF IoDone, IInv, InStep, TypeOK, BusType, KeyType
  <2>2. CASE req.port = Dev
    BY <1>00, <1>1, <2>1, <2>2, PortAssumption DEF IoDone
  <2>3. CASE req.port \in Mailboxes
    BY <1>00, <1>1, <2>1, <2>3, PortAssumption DEF IoDone
  <2> QED BY <2>1, <2>2, <2>3 DEF Requests, Ports
<1>2. CASE Outside /\ ~IoDone
  BY <1>00, <1>2 DEF Outside, Cpu, Grant, TakeBack, Press, Release, HaltKey,
                     Halt, ResetSeen, cli_halt, IoStart
<1>3. CASE Quiet
  BY <1>00, <1>3 DEF Quiet, Started, Poll, PollIdle, Check, Stop, Stopped, Ack, Acked,
                     DmaRequest, DmaGranted, DmaRelease, DmaReleased, Run,
                     Request, Granted, TimedOut, Released
<1>4. CASE Dispatch
  <2>1. CASE z80 # "io"
    BY <1>00, <1>4, <2>1 DEF Dispatch
  <2>2. CASE z80 = "io"
    <3>1. mail = sent /\ served' /\ UNCHANGED <<z80, req, sent>>
      BY <1>00, <1>4, <2>2 DEF Dispatch, IInv, InStep, Goto
    <3>2. CASE req.port = Dev
      BY <1>4, <2>2, <3>1, <3>2, PortAssumption DEF Dispatch
    <3>3. CASE req.port \in Mailboxes
      <4>1. req.byte \in Bytes \cup {None} /\ mail[req.port] \in Boxes
        BY <2>2, <3>3 DEF IInv, InStep, TypeOK, BusType, MailType, Requests
      <4>2. CASE Queue(req.port)
        <5>1. Mailed(mail[req.port], req.byte) = mail[req.port]
          BY <4>1, <4>2 DEF Queue, Mailed
        <5>2. mail = [mail EXCEPT ![req.port] = Mailed(@, req.byte)]
          BY <3>3, <5>1 DEF IInv, TypeOK, MailType
        <5> QED BY <2>2, <3>1, <3>3, <4>2, <5>2 DEF Queue
      <4>3. CASE Post(req.port)
        BY <2>2, <3>1, <3>3, <4>3 DEF Post
      <4> QED BY <1>4, <2>2, <3>3, <4>2, <4>3, PortAssumption DEF Dispatch
    <3> QED BY <1>4, <2>2, <3>2, <3>3 DEF Dispatch
  <2> QED BY <2>1, <2>2
<1>5. CASE Execute \/ DmaDropped \/ z80_reset
  BY <1>00, <1>5 DEF Execute, DmaDropped, TimedOut, z80_reset
<1>6. CASE UNCHANGED vars
  BY <1>00, <1>6 DEF vars
<1> QED BY <1>1, <1>2, <1>3, <1>4, <1>5, <1>6, NextCases

\* The invariant is inductive.
LEMMA NextIInv == IInv /\ [Next]_vars => IInv'
BY NextBusType, NextKeyType, NextMailType, NextBus, NextContention, NextInStep, NextOwed
   DEF IInv, TypeOK

\* Firmware, Z80 and mailboxes agree at every step of any interleaving of I/O
\* cycles, DMA commands, RESET and the halt keys.
THEOREM Inductive == Spec => []IInv
<1> QED BY InitIInv, NextIInv, PTL DEF Spec

\* The firmware never drives the bus against the Z80, except after RESET took
\* BUSACK back.
THEOREM BusSafe == Spec => []NoContention
<1>1. IInv => NoContention
  BY DEF IInv
<1> QED BY <1>1, Inductive, PTL

\* Between its I/O cycles the Z80 program and the firmware hold the same bytes
\* in every mailbox, unless a cycle was lost.
THEOREM Agreement == Spec => []Understood
<1>1. IInv => Understood
  BY DEF IInv, Understood, Owed
<1> QED BY <1>1, Inductive, PTL

\* Cycles are lost only while z80_run is stopping, or after RESET.
THEOREM LossBounded == Spec => LostOnlyAtStop
<1>1. IInv /\ [Next]_vars => [lost' # lost => pc = "stopping" \/ hit]_vars
  <2> SUFFICES ASSUME IInv, [Next]_vars, lost' # lost PROVE pc = "stopping" \/ hit
    OBVIOUS
  <2>1. IoDone
    BY DEF Next, Firmware, User, Cpu, IoDone, Grant, TakeBack, Press, Release, HaltKey,
           Halt, ResetSeen, cli_halt, IoStart, Started, Poll, PollIdle, Check, Stop,
           Stopped, Ack, Acked, DmaRequest, DmaGranted, DmaRelease, DmaReleased, Run,
           Request, Granted, TimedOut, Released, Dispatch, Execute, DmaDropped,
           z80_reset, vars, cpu
  <2> QED BY <2>1 DEF IoDone, IInv, InStep, TypeOK, KeyType
<1> QED BY <1>1, Inductive, PTL DEF Spec, LostOnlyAtStop

\* What stands in for the command in progress, in the promise of the ports.
Todo == IF dma = None THEN None ELSE <<dma[1], mail[dma[1]], dma[2]>>

\* Nothing is in progress exactly when no command is queued.
LEMMA TodoNone == TypeOK /\ BusOK => (Todo = None <=> dma = None)
<1> SUFFICES ASSUME TypeOK, BusOK, dma # None PROVE Todo # None
  BY DEF Todo
<1>1. PICK m \in Mailboxes, b \in Bytes : dma = <<m, b>>
  BY DEF TypeOK, MailType
<1>2. mail[m] \in Boxes /\ Len(mail[m]) = 2
  BY <1>1 DEF TypeOK, MailType, BusOK
<1> QED BY <1>1, <1>2, CommandIsNone DEF Todo

\* A served request is one step of the port: a cleared address, a byte of it, or
\* a command.
LEMMA DispatchStep ==
  ASSUME IInv, Dispatch
  PROVE  \/ UNCHANGED <<mail, Todo, done, hit>>
         \/ \E m \in Mailboxes : \/ Dma!Clear(m)
                                 \/ \E b \in Bytes : Dma!Address(m, b) \/ Dma!Command(m, b)
<1>1. dma = None /\ Todo = None /\ UNCHANGED <<done, hit>>
  BY DEF IInv, BusOK, Dispatch, Goto, Todo, ports, keys
<1>2. CASE UNCHANGED <<mail, dma>>
  BY <1>1, <1>2 DEF Todo
<1>3. CASE z80 = "io" /\ req.port \in Mailboxes
  <2>1. req.byte \in Bytes \cup {None}
    BY <1>3 DEF IInv, InStep, TypeOK, BusType, Requests
  <2>2. CASE Queue(req.port)
    <3>1. req.byte \in Bytes /\ dma' # None
      BY <2>1, <2>2, <1>3, CommandIsNone DEF Queue, IInv, TypeOK, MailType
    <3>2. Dma!Command(req.port, req.byte)
      BY <1>1, <2>2, <3>1, <1>3 DEF Queue, Dma!Command, Todo
    <3> QED BY <1>3, <3>1, <3>2
  <2>3. CASE Post(req.port) /\ req.byte = None
    <3>1. Dma!Clear(req.port)
      BY <1>1, <2>3 DEF Post, Mailed, Dma!Clear, Todo
    <3> QED BY <1>3, <3>1
  <2>4. CASE Post(req.port) /\ req.byte # None
    <3>1. Dma!Address(req.port, req.byte)
      BY <1>1, <2>4, <1>3 DEF Post, Mailed, Dma!Address, Todo, IInv, TypeOK, MailType
    <3> QED BY <1>3, <2>1, <2>4, <3>1
  <2> QED BY <1>2, <1>3, <2>2, <2>3, <2>4 DEF Dispatch
<1> QED BY <1>2, <1>3 DEF Dispatch

\* The DMA ports keep their promise: every step of the firmware, the Z80 and the
\* user is a step of the abstract port or invisible to it.
THEOREM PortsImplement == Spec => DmaSpec
<1>1. Init => Dma!Init
  BY DEF Init, Dma!Init
<1>2. IInv /\ [Next]_vars => [Dma!Next]_(Dma!vars)
  <2> SUFFICES ASSUME IInv, [Next]_vars
               PROVE  Dma!Next \/ UNCHANGED <<mail, Todo, done, hit>>
    BY DEF Dma!vars, Todo
  <2>0. Todo = None <=> dma = None
    BY TodoNone DEF IInv
  <2>1. CASE Dispatch
    BY <2>1, DispatchStep DEF Dma!Next
  <2>2. CASE Execute
    <3>1. dma # None /\ dma' = None /\ UNCHANGED <<mail, hit>>
      BY <2>2 DEF Execute, IInv, BusOK, Goto, keys
    <3>2. CASE BusAck
      <4>1. Dma!Execute
        BY <2>0, <2>2, <3>1, <3>2 DEF Execute, Dma!Execute, Todo
      <4> QED BY <4>1 DEF Dma!Next
    <3>3. CASE ~BusAck
      <4>1. hit
        BY <2>2, <3>3 DEF Execute, IInv, InStep, Goto, BusAck
      <4>2. Dma!Spoilt
        BY <2>0, <2>2, <3>1, <3>3, <4>1 DEF Execute, Dma!Spoilt, Todo
      <4> QED BY <4>2 DEF Dma!Next
    <3> QED BY <3>2, <3>3
  <2>3. CASE DmaDropped
    <3>1. dma # None /\ hit
      BY <2>3 DEF DmaDropped, TimedOut, IInv, BusOK, InStep, Goto
    <3>2. Dma!Spoilt
      BY <2>0, <2>3, <3>1 DEF DmaDropped, TimedOut, Dma!Spoilt, Todo
    <3> QED BY <3>2 DEF Dma!Next
  <2>4. CASE Quiet \/ Outside \/ z80_reset \/ UNCHANGED vars
    <3>1. UNCHANGED <<mail, dma, done>>
      BY <2>4 DEF Quiet, Started, Poll, PollIdle, Check, Stop, Stopped, Ack, Acked,
                  DmaRequest, DmaGranted, DmaRelease, DmaReleased, Run,
                  Request, Granted, TimedOut, Released, Outside, Cpu, IoDone, Grant,
                  TakeBack, Press, Release, HaltKey, Halt, ResetSeen, cli_halt,
                  IoStart, z80_reset, ports, vars
    <3>2. hit' \in BOOLEAN /\ (dma # None => hit' = hit \/ hit')
      <4>1. KeyType'
        BY NextKeyType DEF IInv, TypeOK
      <4>2. dma # None => hit' = hit \/ hit'
        BY <2>4 DEF Quiet, Started, Poll, PollIdle, Check, Stop, Stopped, Ack, Acked,
                    DmaRequest, DmaGranted, DmaRelease, DmaReleased, Run,
                    Request, Granted, TimedOut, Released, Outside, Cpu, IoDone, Grant,
                    TakeBack, Press, Release, HaltKey, Halt, ResetSeen, cli_halt,
                    IoStart, z80_reset, vars, IInv, BusOK, Goto
      <4> QED BY <4>1, <4>2 DEF KeyType
    <3>3. UNCHANGED Todo
      BY <3>1 DEF Todo
    <3>4. CASE UNCHANGED hit
      BY <3>1, <3>3, <3>4
    <3>5. CASE ~UNCHANGED hit
      <4>1. Dma!Reset
        BY <2>0, <3>1, <3>2, <3>3, <3>5 DEF Dma!Reset, Todo
      <4> QED BY <4>1 DEF Dma!Next
    <3> QED BY <3>4, <3>5
  <2> QED BY <2>1, <2>2, <2>3, <2>4, NextCases
<1> QED BY <1>1, <1>2, Inductive, PTL DEF Spec, DmaSpec, Dma!Spec
=============================================================================
