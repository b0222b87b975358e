--------------------------- MODULE EcControlsMC ---------------------------
(* Constants for the run of EcControls.                                    *)
EXTENDS EcControls

\* The limits are those of model_gen1; each edge and what lies beyond it.  PL2
\* is as PL1 and left at what firmware set.
MCRequests == [charge |-> {-300, 0, 80, 100, 101}, camera |-> {0, 1, 2},
               PL1 |-> {7, 8, 43, 44}, PL2 |-> {}]
MCPlMax    == [PL1 |-> 43, PL2 |-> 45]
MCFirmware == {[charge |-> 128 + 127, camera |-> 11, PL1 |-> 20, PL2 |-> 20]}
=============================================================================
