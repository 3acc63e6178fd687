CONSTANTS
  Capacity = 4
  Bytes = {a, b}
SPECIFICATION Spec
INVARIANT LentBytesStay
INVARIANT SegmentsFit
PROPERTY AddsWhatItWasGiven
PROPERTY ImplementsFifo
