SPECIFICATION ReliableSpec
CONSTANTS
    Keys = {k0, k1}
    ZeroKey = k0
    Vals = {v0, v1}
    ZeroVal = v0
    MaxRows = 3
    Savers = {stopper}
    StopSaver = stopper
    NoSaver = nosaver
    NoRow = norow
    AssertsOn = FALSE
    ReAdds = FALSE
    IOErrors = FALSE
INVARIANTS
    IInv
    SavedUnlessDirty
    LiveRowsReachable
PROPERTIES
    StopSavesEverything
    PersistedIdsStable
    ImplementsDurableTable
