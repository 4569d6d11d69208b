SPECIFICATION Spec
CONSTANTS
  MaxCmd = 1
  MaxNok = 1
  MaxReady = 1
  MaxMissed = 4
  UnknownCmds = {}
  Preamble = 9
  SyncBits = 4
  SyncZeros = 1
  CtrlBits = 4
  FecBits = 2
  BlockBits = 2
  DataBlocks = 2
  Backs = {7, 8}
PROPERTY NothingWaste
