SPECIFICATION Spec
CONSTANTS
    sorted <- MCSorted
    NoInit = NoInit  Expr = Expr  ExprValue = 1
    VintfStability = "@VintfStability"
    Statements <- MCStatements
    Inits = {0, 1, NoInit, Expr}
    EnumNames = {"x", "y"}
    Trees <- MCTrees
    MaxReleases = 3
CHECK_DEADLOCK FALSE
INVARIANT    CutDumpSeen
