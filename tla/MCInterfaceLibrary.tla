------------------------ MODULE MCInterfaceLibrary ------------------------
(* A depends on B in development and on version 1 of B; the versions of B    *)
(* that are frozen come with or without generated sources.                    *)
EXTENDS InterfaceLibrary

CONSTANTS A, B, c1, c2, FrozenB

MCTarget == {<<A, 0>>, <<B, 0>>} \cup {<<B, v>> : v \in FrozenB}

MCDeps == [t \in Target |-> IF t = <<A, 0>> THEN {<<B, 0>>, <<B, 1>>} ELSE {}]

MCEdited == {<<B, 0>>}

MCCheckout == [t \in Target |-> [ty \in Type |-> c1]]

MCRelease == [t \in {<<B, v>> : v \in FrozenB} |-> [ty \in Type |-> c2]]

=============================================================================
