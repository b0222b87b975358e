SPECIFICATION FairSpec
CONSTANTS
  NTables = 2
  NFan = 1
  Points <- MCPoints
  Values <- MCValues
  Factory <- MCFactory
  Blank <- MCBlank
  Unread = Unread
  Users = {u1, u2}
  Driver = Driver
  Free = Free
  Requests <- MCContend
  Sleeps = {}
INVARIANT TypeOK
INVARIANT StoreSeesCurrentTable
INVARIANT HalfRestoredOnlyInAuto
INVARIANT UnloadRestoresSnapshot
PROPERTY ImplementsEcFan
PROPERTY WritesComplete
PROPERTY UnbindCompletes
