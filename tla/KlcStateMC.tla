----------------------------- MODULE KlcStateMC -----------------------------
(* Constants for the runs of KlcState.                                     *)
EXTENDS KlcState

\* `all` lights both parts, `key` only the first.
All == {1, 2}
Key == {1}
MCFrames   == {All, Key}
MCCommands ==
  {[op |-> "apply", frame |-> All, raw |-> FALSE],
   [op |-> "apply", frame |-> Key, raw |-> TRUE],
   [op |-> "brightness", level |-> 1]}
=============================================================================
