SPECIFICATION Spec
CONSTANTS
  MaxCmd = 1
  MaxNok = 0
  MaxReady = 1
INVARIANT WaitIsTimed
