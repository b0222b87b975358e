SPECIFICATION Spec
CONSTANTS
  NTables = 2
  NFan = 1
  Points <- MCPoints
  Values <- MCValues
  Factory <- MCFactory
  Blank <- MCBlank
  Unread = Unread
  Users = {u1}
  Driver = Driver
  Free = Free
  Requests <- MCContend
  Sleeps = {}
INVARIANT RestoreOnlyFullSnapshot
