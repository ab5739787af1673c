SPECIFICATION FairSpec
CONSTANTS
    A = A  B = B  c1 = c1  c2 = c2  Absent = Absent
    FrozenB = {1}
    Target <- MCTarget  Deps <- MCDeps
    Type = {f, g}  Content = {c1, c2}
    Checkout <- MCCheckout  Release <- MCRelease
    Edited <- MCEdited
    Layout = "central"
    Faults = TRUE
INVARIANTS DependenciesAdded  AddedOnce
PROPERTIES FrozenSourcesKept EveryRunEnds
