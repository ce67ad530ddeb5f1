---------------------------- MODULE MCBdosSearch ----------------------------
(* Directories of three names, the second of which may be read-only. *)
EXTENDS BdosSearch

CONSTANTS x, y, z

Listed == <<x, y, z>>
AllMasks == {{y, z}, {x, y, z}}

\* Sizes around those where an entry, a module or a uint8_t ends.
Around == {0, 1, 127, 128, 129, 256, 257, 4096, 4097, 32767, 32768}

Cards == {[f \in {x, y, z} |->
             IF f = x THEN [there |-> TRUE, ro |-> FALSE, size |-> s]
             ELSE IF f = y THEN [there |-> TRUE, ro |-> ro, size |-> t]
             ELSE [there |-> TRUE, ro |-> FALSE, size |-> 0]] :
          s \in Around, t \in {1, 300}, ro \in BOOLEAN}
=============================================================================
