------------------------------- MODULE MCDisk -------------------------------
(* Symmetry for the driver's runs: the image files are interchangeable. *)
EXTENDS DiskGuest, TLC

ImageSymmetry == Permutations(Images)
=============================================================================
