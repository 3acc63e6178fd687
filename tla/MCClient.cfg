CONSTANT MaxRequests = 2
SPECIFICATION FairSpec
INVARIANT TypeOK
INVARIANT BelievesTheTruth
INVARIANT TitleOfItsOwnRoom
INVARIANT ConnectedAbortsOnlyWhenLost
PROPERTY QuitEnds
