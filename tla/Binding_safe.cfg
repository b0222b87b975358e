SPECIFICATION FairSpec
CONSTANTS
  Machines <- MCMachines
  Params <- MCParams
  Users = {u1, u2}
  None = None
INVARIANT TypeOK
INVARIANT HandlersHaveMemory
INVARIANT NothingIsLeft
INVARIANT ControlIsGated
INVARIANT PwmHasFanCurves
PROPERTY UnbindCompletes
