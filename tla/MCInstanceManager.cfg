SPECIFICATION FairSpec
CONSTANTS
    Threads = {t1, t2}
    Main = main
    NULL = NULL
    Tasks <- ThreeTasks
    NumParts = 1
    Modulus = 8
    Growth <- Doubling
INVARIANTS
    CountInv
    ShelvedAreFree
    ReferencesAreLive
    NothingThrows
    CountsAreUsers
    TaskIsReleased
PROPERTIES
    TasksEnd
    ImplementsRegistry
