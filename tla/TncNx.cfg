SPECIFICATION FairSpec
CONSTANTS
  MaxCmd = 3
  MaxNok = 0
  MaxReady = 1
INVARIANT TypeOK
INVARIANT NoCallbackAfterDestroy
PROPERTY RunsOutBetweenCalls
PROPERTY LostOnlyTogether
PROPERTY StrandedOnlyTogether
PROPERTY RepeatedOnlyTogether
PROPERTY UntimedByTrigger
PROPERTY ImplementsService
PROPERTY SessionEnds
PROPERTY EveryCommandServed
PROPERTY DestructorReturns
