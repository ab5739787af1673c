SPECIFICATION Spec2
CONSTANTS
    a = a  b = b
    File = {f1}
    Content = {a, b}
    Extends <- MCExtends
    Absent = Absent  DotHash = DotHash  NoHash = NoHash  EmptyHash = EmptyHash
    NoGen = NoGen  PartialGen = PartialGen
    MaxVersion = 2
    Operations = {"update_api", "freeze_api"}
    Faults = {"crash"}
INVARIANTS FrozenNeverBlamed GeneratedMatchesFrozen 
