SPECIFICATION UnitsFairSpec
CONSTANTS
    Units = {"u1"}
    Boards = {"u1"}
    Photos = {"p1"}
    PhotoOf <- OneAlbum
    NoPhoto = NoPhoto
    NoUnit = NoUnit
    Extractions <- OpenOrOneBathroom
    SeenBy <- TwoBathroomsOrBlurred
    Edits <- Looser
    Default <- TwoBathrooms
    MaxSweeps = 2
    MaxAttempts = 2
    MaxRevisions = 2
    MaxTroubles = 1
INVARIANTS
    ArchiveIsRejudged
    AdmittedIsTold
    VisionDoneIsJudged
PROPERTIES
    EveryUnitSettles
CHECK_DEADLOCK FALSE
