------------------------- MODULE MCTopologicalSort -------------------------
(* Every dictionary over a few libraries whose lists are short, lists that   *)
(* name a library twice and libraries that name themselves included.         *)
EXTENDS TopologicalSort

CONSTANT MaxDeps

MCLists == UNION {[1 .. n -> Lib] : n \in 0 .. MaxDeps}

MCGraphs == [Lib -> MCLists]

=============================================================================
