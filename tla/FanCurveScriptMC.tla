-------------------------- MODULE FanCurveScriptMC --------------------------
(* Constants for the runs of FanCurveScript.                               *)
EXTENDS FanCurveScript

Curve(t, s) == [temp |-> t, speed |-> s]

\* Two points a fan: a file with the edges of both units, and files with a
\* speed above 100, a word, and a point too few for the GPU.
MCCurves == <<Curve(<<50, 300>>, <<0, 55>>), Curve(<<60, 80>>, <<1, 100>>)>>
MCConfs ==
  {MCCurves,
   [MCCurves EXCEPT ![1].speed = <<50, 120>>],
   [MCCurves EXCEPT ![2].temp = <<50, Word>>],
   [MCCurves EXCEPT ![2].speed = <<50>>]}

MCFactory == [f \in Fans |-> [i \in Points |-> [temp |-> 40 + i, speed |-> 30 + i]]]
==============================================================================
