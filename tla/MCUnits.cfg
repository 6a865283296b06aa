SPECIFICATION Spec
CONSTANTS
    Own = {u1}
    Enemy = {e1}
    ENTRY_SIZE = 1
    MaxLoop = 3
    MaxGames = 2
INVARIANTS
    UnitsInv
    PoolIsSound
    ObservationIsTold
    NothingToldTwice
PROPERTIES
    PointersStay
    
