CONSTANTS
  Width = 5
  HeaderSize = 2
  Filler = {0}
  MaxPackets = 3
SPECIFICATION FairSpec
INVARIANT TypeOK
INVARIANT PacketsAsSent
INVARIANT StreamIntact
INVARIANT CutsWhereTheClientDid
INVARIANT OnlyBadSizesRefused
INVARIANT FullBranchDead
PROPERTY EveryPacketHandedOn
PROPERTY ReceivingEnds
