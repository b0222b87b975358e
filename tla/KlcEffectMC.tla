---------------------------- MODULE KlcEffectMC ----------------------------
(* Constants for the runs of KlcEffect.                                    *)
EXTENDS KlcEffect

\* Up to three colors, placed evenly or anywhere, in any order.
Few(S) == UNION {[1 .. n -> S] : n \in 1 .. 3}

\* As many colors as fit the program of a breathe with and without the padding
\* section, one more, all that are allowed, and one more than that.
Many == {[i \in 1 .. n |-> IF i % 2 = 1 THEN 255 ELSE 1] : n \in {7, 8, 9, 14, 15}}

MCCommands ==
  [mode : Modes, colors : Few({0, 1, 255}) \union Many, speed : {0, 1000, 65535},
   positions : {<<>>} \union Few({0, 40, 100}) \union {[i \in 1 .. 8 |-> 10 * i], <<101>>},
   brightness : {128}]
=============================================================================
