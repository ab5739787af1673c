------------------------------ MODULE LibOrder ------------------------------
(***************************************************************************)
(* What the callers of topological_sort rely on: it puts out each library  *)
(* at most once, and only when all that depend on it are out; it gives up  *)
(* when no library is left that it could put out.                          *)
(***************************************************************************)
EXTENDS Naturals, Sequences

CONSTANT Lib

VARIABLES
    dependencies,  \* lib -> the list of the libs it depends on
    order,         \* what is out
    verdict        \* "none", "sorted" or "cycle"

DependsOn(k, l) == \E n \in DOMAIN dependencies[k] : dependencies[k][n] = l

Out == {order[n] : n \in DOMAIN order}

Ready == {l \in Lib \ Out : \A k \in Lib : DependsOn(k, l) => k \in Out}

Init == order = <<>> /\ verdict = "none"

Emit(l) ==
    /\ verdict = "none" /\ l \in Ready
    /\ order' = Append(order, l)
    /\ UNCHANGED <<dependencies, verdict>>

Finish ==
    /\ verdict = "none" /\ Ready = {}
    /\ verdict' = IF Out = Lib THEN "sorted" ELSE "cycle"
    /\ UNCHANGED <<dependencies, order>>

Next == (\E l \in Lib : Emit(l)) \/ Finish

Spec == Init /\ [][Next]_<<dependencies, order, verdict>>

=============================================================================
