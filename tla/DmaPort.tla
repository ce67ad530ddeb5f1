------------------------------ MODULE DmaPort ------------------------------
(***************************************************************************)
(* What the firmware of z80ctrl promises to a Z80 program that uses its    *)
(* DMA ports (BDOS and file commands): after a read of the port, the first *)
(* two bytes written are an address, and each further byte is a command,   *)
(* carried out once with that address.  Only RESET makes it lose one.      *)
(***************************************************************************)
EXTENDS Naturals, Sequences

CONSTANTS Mailboxes,  \* the ports: FATFS DMA and BDOS
          Bytes,
          None, Junk

VARIABLES mail,  \* mail[m]: the bytes of the address written so far
          todo,  \* the command being carried out, or None
          done,  \* the last command carried out
          hit    \* RESET was pressed since the firmware began to serve

vars == <<mail, todo, done, hit>>

Init == mail = [m \in Mailboxes |-> <<>>] /\ todo = None /\ done = None /\ hit = FALSE

Clear(m) == /\ todo = None
            /\ mail' = [mail EXCEPT ![m] = <<>>]
            /\ UNCHANGED <<todo, done, hit>>

Address(m, b) == /\ todo = None /\ Len(mail[m]) < 2
                 /\ mail' = [mail EXCEPT ![m] = Append(@, b)]
                 /\ UNCHANGED <<todo, done, hit>>

Command(m, b) == /\ todo = None /\ Len(mail[m]) = 2
                 /\ todo' = <<m, mail[m], b>>
                 /\ UNCHANGED <<mail, done, hit>>

Execute == /\ todo # None
           /\ done' = todo /\ todo' = None
           /\ UNCHANGED <<mail, hit>>

\* A command interrupted by RESET is dropped, or runs with undefined parameters.
Spoilt == /\ todo # None /\ hit
          /\ todo' = None /\ done' \in {done, Junk}
          /\ UNCHANGED <<mail, hit>>

Reset == /\ hit' \in (IF todo = None THEN BOOLEAN ELSE {TRUE})
         /\ UNCHANGED <<mail, todo, done>>

Next == \/ \E m \in Mailboxes : \/ Clear(m)
                                \/ \E b \in Bytes : Address(m, b) \/ Command(m, b)
        \/ Execute \/ Spoilt \/ Reset

Spec == Init /\ [][Next]_vars

\* A command does not stay pending.
FairSpec == Spec /\ WF_vars(Execute \/ Spoilt)
=============================================================================
