SPECIFICATION FairSpec
CONSTANTS
  Tasks = {t1, t2}
  Addrs = {1}
  Bits <- MCBits
  Requests <- MCRequests
  Nobody = Nobody
INVARIANT TypeOK
PROPERTY ImplementsEcRegisters
PROPERTY CallsReturn
