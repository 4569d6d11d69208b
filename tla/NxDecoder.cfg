SPECIFICATION FairSpec
CONSTANTS
  Streams <- MCStreams
  CallSizes <- MCCallSizes
  CallsignBits <- MCCallsignBits
  BlockBits <- MCBlockBits
INVARIANT TypeOK
INVARIANT NoSyncMissed
INVARIANT BlockBufferClear
INVARIANT ErrorsAreOwn
INVARIANT HistorySuffices
PROPERTY SyncAdvances
PROPERTY StreamConsumed
