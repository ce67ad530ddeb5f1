----------------------------- MODULE XmodemLine -----------------------------
(***************************************************************************)
(* The serial line between xm_transmit (or another sender) and xm_receive, *)
(* at the level of XMODEM packets and control bytes.  The line keeps the   *)
(* order and repeats nothing; it may lose or garble what it carries, as    *)
(* often as its setting says.  A garbled packet keeps its header byte and fails    *)
(* the receiver's check; a garbled header or control byte is JUNK, a byte  *)
(* that means nothing to the side that reads it.                           *)
(***************************************************************************)
EXTENDS Integers, Sequences

CONSTANTS Settings, \* the conditions a session can run under: records of who sends
                    \* (batch: a YMODEM program, or xm_transmit), how often the line
                    \* may fail (faults), the blocks the receiver's card can hold
                    \* (disk) and whether file calls may fail (fails)
          Mod       \* packet numbers: a uint8_t, 256 in the code

ASSUME ModAssumption == Mod \in Nat /\ Mod > 1
ASSUME SettingsAssumption ==
    Settings \subseteq [batch : BOOLEAN, faults : Nat, disk : Nat, fails : BOOLEAN]

VARIABLES s2r,    \* what the receiver's UART holds, oldest first
          r2s,    \* what the sender's UART holds, oldest first
          faults, \* faults left
          setting \* the conditions of this session

line == <<s2r, r2s, faults, setting>>

Byte(b) == [t |-> b]
Packet(num, crc, data) ==
    [t |-> "PKT", num |-> num, crc |-> crc, data |-> data, ok |-> TRUE]

LineInit == s2r = <<>> /\ r2s = <<>> /\ setting \in Settings /\ faults = setting.faults

Lose == \/ /\ \E k \in DOMAIN s2r :
                s2r' = SubSeq(s2r, 1, k - 1) \o SubSeq(s2r, k + 1, Len(s2r))
           /\ UNCHANGED r2s
        \/ /\ \E k \in DOMAIN r2s :
                r2s' = SubSeq(r2s, 1, k - 1) \o SubSeq(r2s, k + 1, Len(r2s))
           /\ UNCHANGED s2r

Garble == \/ /\ \E k \in DOMAIN s2r :
                  \/ s2r' = [s2r EXCEPT ![k] = Byte("JUNK")]
                  \/ s2r[k].t = "PKT" /\ s2r' = [s2r EXCEPT ![k].ok = FALSE]
             /\ UNCHANGED r2s
          \/ /\ \E k \in DOMAIN r2s : r2s' = [r2s EXCEPT ![k] = "JUNK"]
             /\ UNCHANGED s2r

Fault == /\ faults > 0
         /\ faults' = faults - 1
         /\ Lose \/ Garble
         /\ UNCHANGED setting
=============================================================================
