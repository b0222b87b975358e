SPECIFICATION Spec
CONSTANTS
  Clis = {c1}
  Daemon = Daemon
  NParts = 2
  Frames <- MCFrames
  NoFrame = NoFrame
  Full = 1
  MaxSteps = 2
  Raw = Raw
  NoLed = NoLed
  Commands <- MCCommands
INVARIANT TypeOK
INVARIANT SoloRunsApply
INVARIANT OsdInSync
INVARIANT LastFrameIsKept
