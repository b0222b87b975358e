----------------------------- MODULE ProfileMC -----------------------------
(* Constants for the runs of Profile.                                      *)
EXTENDS Profile

MCProfiles == {"low-power", "balanced", "performance", "custom"}
MCChoices  == MCProfiles \ {"custom"}
=============================================================================
