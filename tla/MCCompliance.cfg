CONSTANTS
    Seconds = 2
    Descriptors = 5
SPECIFICATION FairSpec
INVARIANTS
    TypeOK AnswersAreOfThisTest ReadBuffersAreFreedOnce TestsHaveASocket WaitsLongEnough
    FailuresHaveACause
PROPERTY AllTestsEnd
