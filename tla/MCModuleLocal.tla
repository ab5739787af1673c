--------------------------- MODULE MCModuleLocal ---------------------------
(* Small instances of ModuleLocal. *)
EXTENDS ModuleLocal

CONSTANTS a, b

\* b adds a method to a.
MCExtends == {<<a, a>>, <<b, b>>, <<a, b>>}

=============================================================================
