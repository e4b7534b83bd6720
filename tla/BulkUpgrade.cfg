SPECIFICATION FairSpec
CONSTANTS
    Files <- MCFiles
    Pieces = 3
    Builds = {"upgrade", "boot"}
    MaxFaults = 3
INVARIANTS TypeOK WrittenIsOneImage ParametersStay
PROPERTY GoodIsWritten
