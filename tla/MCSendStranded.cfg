CONSTANTS
  Senders = {s1}
  Workers = {w1, w2}
  Capacity = 2
  MaxMsg = 1
  MaxBytes = 3
SPECIFICATION Spec
INVARIANT NoStrandedData
