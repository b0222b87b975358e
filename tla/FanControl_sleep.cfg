SPECIFICATION Spec
CONSTANTS
  NTables = 3
  NFan = 2
  Points <- MCPoints
  Values <- MCValues
  Factory <- MCFactory
  Blank <- MCBlank
  Unread = Unread
  Users = {u1, u2}
  Driver = Driver
  Free = Free
  Requests <- MCCustom
  Sleeps = {"s2idle", "S3", "hibernate"}
INVARIANT ResumeUsesFullSnapshot
INVARIANT WakeKeepsFanTables
