SPECIFICATION Spec
CONSTANTS
  MaxCmd = 3
  MaxNok = 0
  MaxReady = 1
INVARIANT NothingLost
