-------------------------------- MODULE MCDisplay -------------------------------
(* Small values of the constants of Display. *)
EXTENDS Display

\* Inside both resolutions, at the edge of one, and beyond both.
MCCoords == {0, 1, 2, 5}

\* Two rows each: a dot, a bar, and a corner.
MCSprites == {[i \in 0..1 |-> IF i = 0 THEN {0} ELSE {}],
              [i \in 0..1 |-> {0, 1}],
              [i \in 0..1 |-> IF i = 0 THEN {1} ELSE {0, 1}]}
================================================================================
