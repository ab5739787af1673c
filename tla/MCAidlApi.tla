----------------------------- MODULE MCAidlApi -----------------------------
(* Small instances of AidlApi. *)
EXTENDS AidlApi

CONSTANTS a, a2, b, x

\* a2 is a with other comments, b adds a method to a, x breaks all of them.
MCExtends ==
    {<<a, a>>, <<a2, a2>>, <<b, b>>, <<x, x>>, <<a, a2>>, <<a2, a>>, <<a, b>>, <<a2, b>>}
        \cap (Content \X Content)

=============================================================================
