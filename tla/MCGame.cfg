CONSTANTS
  NoPlayer = none
  Players = {p1, p2, p3}
  Titles = {t1, t2}
  NoTitle = untitled
  Limits = {1, 2, 3}
  HeaderBytes = 2
  RoomBytes = 3
  SizeMod = 8
  MaxRooms = 3
SPECIFICATION Spec
SYMMETRY Symmetric
INVARIANT TypeOK
INVARIANT MapsAgree
INVARIANT OwnerIsFirstMember
INVARIANT ToldTheTruth
INVARIANT SizeFieldExact
PROPERTY EmptyOnlyFromBirth
