SPECIFICATION FairSpec
CONSTANTS
  Keyboards <- MCKeyboards
  Nodes <- MCNodes
  Addresses <- MCAddresses
  Nowhere = Nowhere
  Nothing = Nothing
  MaxOthers = 1
INVARIANT TypeOK
INVARIANT NobodyUsesFreed
INVARIANT OneControllerPerKeyboard
INVARIANT NothingLeftAfterUnload
PROPERTY KeyboardComesBack
CONSTRAINT UntilRaced
