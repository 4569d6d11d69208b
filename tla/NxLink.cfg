SPECIFICATION Spec
CONSTANTS
  Messages <- MCMessages
  MaxBlocks = 2
  CallsignBursts <- OneBit
  DataBursts <- OneRowTwoRows
INVARIANT OneRateAtATime
INVARIANT HeadAnnouncesMessage
INVARIANT ShortBurstCorrected
INVARIANT WrongBlocksMarked
INVARIANT CallsignCorrected
