----------------------------- MODULE MCTwoTools -----------------------------
(* Small instances of TwoTools. *)
EXTENDS TwoTools

CONSTANTS a, b

\* b adds a method to a.
MCExtends == {<<a, a>>, <<b, b>>, <<a, b>>}

=============================================================================
