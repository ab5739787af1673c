SPECIFICATION Spec
CONSTANTS
    a = a  b = b
    File = {f1}
    Content = {a, b}
    Extends <- MCExtends
    Absent = Absent
    NoHash = NoHash  NoDef = NoDef  NoGen = NoGen  PartialGen = PartialGen
    Label = {s1}
    MaxVersion = 1
    MaxOrdinal = 1
INVARIANTS PinnedSourcesMatch 
PROPERTY WholeTreeKeepsFrozen
