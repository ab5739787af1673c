SPECIFICATION Spec
CONSTANTS
    a = a  a2 = a2  b = b  x = x
    File = {f1, f2}
    Content = {a, b}
    Extends <- MCExtends
    Absent = Absent  DotHash = DotHash  NoHash = NoHash  EmptyHash = EmptyHash
    NoGen = NoGen  PartialGen = PartialGen
    MaxVersion = 2
    Operations = {"update_api", "freeze_api"}
    Faults = {}
INVARIANT IntegrityErrorMeansModified
