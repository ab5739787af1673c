------------------------------ MODULE MCLibDeps ------------------------------
(* Two interfaces, each with a version in development and one snapshot.  A   *)
(* imports B in every way there is; B may import A, which makes a cycle.      *)
EXTENDS LibDeps

CONSTANTS A, B

MCDef(imps, info) == [imports |-> imps, versions_with_info |-> info]

MCImports(j, pins) == {[k \in {} |-> 0]} \cup [{j} -> pins]

NoInfo == [v \in {} |-> {}]

\* Version 1 of A was frozen against version 1 of B, or before B ever was.
MCInfo == {NoInfo, [v \in {1} |-> {<<B, 1>>}], [v \in {1} |-> {<<B, 0>>}]}

MCDefinitions ==
    [loc \in Location |->
        CASE loc = <<A, CURRENT_VERSION>> ->
                {MCDef(i, v) : i \in MCImports(B, {Unpinned, CURRENT_VERSION, 1}), v \in MCInfo}
          [] loc = <<B, CURRENT_VERSION>> -> {MCDef(i, NoInfo) : i \in MCImports(A, {Unpinned})}
          [] loc = <<A, 1>> -> {MCDef(i, NoInfo) : i \in MCImports(B, {Unpinned, 1})}
          [] OTHER -> {MCDef(i, NoInfo) : i \in MCImports(B, {})}]

=============================================================================
