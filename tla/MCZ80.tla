-------------------------------- MODULE MCZ80 --------------------------------
(* Z80Run with no halt condition, or with all of them. *)
EXTENDS Z80Run

NoneOrAll == {<<FALSE, {}>>, <<TRUE, {"RESET", "HALT"}>>}
=============================================================================
