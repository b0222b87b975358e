SPECIFICATION Spec
CONSTANTS
  NPoints = 2
  Confs <- MCConfs
  Factory <- MCFactory
  Word = Word
INVARIANT TypeOK
INVARIANT AppliedIsWhole
INVARIANT SpeedsAreClose
INVARIANT AbortsInAuto
