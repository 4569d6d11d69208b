SPECIFICATION Spec
CONSTANT MaxFlips = 2
INVARIANT SingleErrorCorrected
INVARIANT AcceptedIsCodeword
CHECK_DEADLOCK FALSE
