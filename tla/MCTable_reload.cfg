SPECIFICATION Spec
CONSTANTS
    Keys = {k0, k1}
    ZeroKey = k0
    Vals = {v0, v1}
    ZeroVal = v0
    MaxRows = 2
    Savers = {stopper}
    StopSaver = stopper
    NoSaver = nosaver
    NoRow = norow
    AssertsOn = TRUE
    ReAdds = FALSE
    IOErrors = FALSE
INVARIANTS
    KeysEnteredOnce
