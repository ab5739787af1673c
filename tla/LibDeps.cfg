SPECIFICATION Spec
CONSTANTS
    A = A  B = B  Interface = {A, B}  Label = {0, 1}  Snapshot = {1}
    Unpinned = Unpinned  Malformed = Malformed  NoFile = NoFile
    Definitions <- MCDefinitions
    MaxEdits = 1
    Crashes = TRUE
INVARIANTS ListClosed CleanListComplete
