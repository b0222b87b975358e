---------------------------- MODULE WmiAccessMC ----------------------------
(* Constants for the run of WmiAccess.                                     *)
EXTENDS WmiAccess, TLC

\* ec_update_bit, a write of the whole register, and both debugfs files, one of
\* them read as well.  (msi_wmi_platform_query for a read is the get_data file
\* without its lock.)
B(x, y) == 0 :> x @@ 1 :> y
MCBits == {0, 1}
MCRequests ==
  {[op |-> "update", addr |-> 1, bit |-> 0, on |-> TRUE],
   [op |-> "set", addr |-> 1, val |-> B(FALSE, TRUE)],
   [op |-> "raw", file |-> "set_data", addr |-> 1, val |-> B(FALSE, TRUE)],
   [op |-> "raw", file |-> "get_data", addr |-> 1, val |-> B(TRUE, FALSE)],
   [op |-> "show", file |-> "get_data"]}
=============================================================================
