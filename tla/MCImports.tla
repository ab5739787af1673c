------------------------------ MODULE MCImports ------------------------------
(* Three interfaces, A above B above C: A may import B and C, and B may     *)
(* import C.  This is the least graph in which an interface is reached in    *)
(* two versions.                                                             *)
EXTENDS Imports

CONSTANTS A, B, C, Pins

MCMaxVersion == [i \in Interface |-> IF i = A THEN 1 ELSE 2]

MCDicts(names) ==
    {l \in UNION {[D -> {Unpinned} \cup Pins] : D \in SUBSET names} :
        \A j \in DOMAIN l : j # C => l[j] = Unpinned}

MCImportLists ==
    [i \in Interface |-> CASE i = A -> MCDicts({B, C}) [] i = B -> MCDicts({C})
                          [] i = C -> MCDicts({})]

=============================================================================
