------------------------------ MODULE MCXmodem ------------------------------
(* Files, command lines and conditions for the XMODEM and YMODEM runs. *)
EXTENDS XmodemSession

Local == <<"local">>
ThreeBlocks == <<FALSE, TRUE, FALSE>>
FourBlocks == <<FALSE, FALSE, FALSE, FALSE>>
\* A name without a size, one with a size, a size too large for an int, and again a
\* name without one.
Mixed == <<[name |-> "foo", len |-> 1, sent |-> 2, sized |-> FALSE],
           [name |-> "bar", len |-> 1, sent |-> 2, sized |-> TRUE],
           [name |-> "baz", len |-> 5, sent |-> 5, sized |-> TRUE],
           [name |-> "qux", len |-> 2, sent |-> 2, sized |-> FALSE]>>

\* Board to board over a poor line; with a card of two blocks and failing FatFs calls;
\* a batch over a poor line.
Poor == [batch |-> FALSE, faults |-> 2, disk |-> 8, fails |-> FALSE]
Small == [batch |-> FALSE, faults |-> 1, disk |-> 2, fails |-> TRUE]
Several == [batch |-> TRUE, faults |-> 3, disk |-> 16, fails |-> FALSE]
AnySession == {Poor, Small, Several}
Perfect == {[Poor EXCEPT !.faults = 0]}
=============================================================================
