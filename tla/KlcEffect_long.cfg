SPECIFICATION Spec
CONSTANT Commands <- MCCommands
INVARIANT StaysInProgram
CHECK_DEADLOCK FALSE
