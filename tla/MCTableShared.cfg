SPECIFICATION RunSpec
CONSTANTS
    Keys = {k0, k1, k2}
    ZeroKey = k0
    Vals = {v0, v1}
    ZeroVal = v0
    MaxRows = 2
    Savers = {stopper, saveThread}
    StopSaver = stopper
    NoSaver = nosaver
    NoRow = norow
    AssertsOn = FALSE
    ReAdds = TRUE
    IOErrors = TRUE
INVARIANTS
    NoForeignRow
PROPERTIES
    SharedTableIsSound
SYMMETRY KeySymmetry
