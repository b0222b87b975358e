---------------------------- MODULE KlcPluginMC ----------------------------
(* Constants for the run of KlcPlugin, and its constraint: what follows on *)
(* an Unload that raced OpenRGB is not explored, as nothing is claimed of  *)
(* it.                                                                     *)
EXTENDS KlcPlugin

MCKeyboards == {"k1", "k2"}
MCNodes     == {"n1", "n2"}
MCAddresses == 1 .. 4

UntilRaced == raced => pc[Gui] # "idle"
=============================================================================
