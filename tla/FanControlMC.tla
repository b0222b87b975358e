---------------------------- MODULE FanControlMC ----------------------------
(* Constants for the runs of FanControl.                                   *)
EXTENDS FanControl, TLC

MCPoints == {1, 2}
MCValues == {0, 1}
MCBlank  == [p \in Points |-> 0]

\* The factory curve is off at the first point and on at the others.
MCFactory == [t \in Tables |-> [p \in Points |-> IF p = 1 THEN 0 ELSE 1]]

Store(t, p, v) == [kind |-> "store", table |-> t, point |-> p, value |-> v]
Enable(v)      == [kind |-> "enable", val |-> v]

\* Two points of one table, and both modes: what two tasks can contend for.
MCContend == {Store(1, 1, 1), Store(1, 2, 0), Enable(1), Enable(2)}

\* One task that changes a fan table and a temperature table.
MCCustom == {Store(1, 1, 1), Store(NTables, 1, 1), Enable(0), Enable(1), Enable(2)}
=============================================================================
