SPECIFICATION Spec
CONSTANT Commands <- MCCommands
INVARIANT TypeOK
INVARIANT LightFollowsKeyframes
INVARIANT DeltasFit
CHECK_DEADLOCK FALSE
PROPERTY LoopTakesItsTime
