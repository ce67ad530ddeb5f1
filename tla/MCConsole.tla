----------------------------- MODULE MCConsole -----------------------------
(* A file of two bytes to read. *)
EXTENDS Console

TwoBytes == <<Space, Space>>
=============================================================================
