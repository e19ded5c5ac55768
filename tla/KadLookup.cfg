\* Four contacts of which any may be silent, two networks, two files.
SPECIFICATION FairSpec
CONSTANTS
    Nodes = {1, 2, 3, 4}
    Seeds <- MCSeeds
    Networks <- MCNetworks
    Files = {"f", "g"}
    Keyword = "keyword"
    Distance <- MCDistance
    Published <- MCPublished
    Sources <- MCSources
    Rounds = 2
    Alpha = 2
    SearchNodes = 2
    FileRounds = 1
    FileAlpha = 1
    FileNodes = 2
    EnrichTop = 2
    MaxHeard = 5
INVARIANTS
    TypeOK
    FindsNearest
    KeepsHighest
    SourcesOfTheFile
PROPERTY LookupEnds
CHECK_DEADLOCK FALSE
