SPECIFICATION Spec
CONSTANTS
    Jobs <- MCJobs
    Layouts <- MCLayouts
    RandPerm <- MCRandPerm
    Nodes = 2
    Shuffled <- MCShuffled
    BufferThreshold = 4
INVARIANTS
    EachSampleOnce
    DatasetsBuiltBeforeRead
    TrainItersFitSamples
    GroupsSound
    TokensReturn
    TextReadOnce
    PreparedSamplesWhole
