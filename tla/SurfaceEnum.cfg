SPECIFICATION Spec
CONSTANTS
    sorted <- MCSorted
    NoInit = NoInit  Expr = Expr  ExprValue = 1
    VintfStability = "@VintfStability"
    Statements = {}
    Inits = {0, 1, NoInit, Expr}
    EnumNames = {"x", "y", "z"}
    Trees <- MCTrees
    MaxReleases = 2
CHECK_DEADLOCK FALSE
INVARIANT EnumIntsKept
