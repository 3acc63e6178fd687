CONSTANTS
  Senders = {s1, s2}
  Workers = {w1}
  Capacity = 2
  MaxMsg = 2
  MaxBytes = 3
SPECIFICATION FairSpec
INVARIANT TypeOK
INVARIANT OneSendOutstanding
INVARIANT TransfersAreTheFront
INVARIANT HandedOverOnceAndClean
INVARIANT StrandedOnlyByEmptyExit
PROPERTY ImplementsByteStream
PROPERTY EventuallyDelivered
PROPERTY EventuallyHandedOver
