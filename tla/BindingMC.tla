----------------------------- MODULE BindingMC -----------------------------
(* Constants for the runs of Binding.                                      *)
EXTENDS Binding

MCParams == [force : BOOLEAN, disable_control : BOOLEAN]

\* A GS66 found by its EC, a Claw, a board that is denied by its EC entry, an
\* older board, one with a newer interface, and one that is not a laptop.
Laptop == [msi |-> TRUE, laptop |-> TRUE, major |-> 2, tigerlake |-> TRUE,
           webcam |-> TRUE, dmi |-> Plain, ec |-> Plain]
MCMachines ==
  {Laptop,
   [Laptop EXCEPT !.laptop = FALSE, !.dmi = Handheld, !.ec = None],
   [Laptop EXCEPT !.ec = Denied],
   [Laptop EXCEPT !.tigerlake = FALSE],
   [Laptop EXCEPT !.major = 3, !.webcam = FALSE],
   [Laptop EXCEPT !.major = 1],
   [Laptop EXCEPT !.msi = FALSE, !.laptop = FALSE]}
=============================================================================
