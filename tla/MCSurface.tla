----------------------------- MODULE MCSurface -----------------------------
(* Small AIDL trees for model checking dump-surface and diff-surface. *)
EXTENDS Surface

SX == INSTANCE SequencesExt

CONSTANTS Statements, Inits, EnumNames

\* Bodies of at most n statements with distinct names.
Bodies(S, n) == {b \in SX!BoundedSeq(S, n) : IsInjective(Names(b))}

Stmt(name, const, text) == [name |-> name, const |-> const, text |-> text]

MCStatements == {Stmt("a", FALSE, 1), Stmt("a", FALSE, 2), Stmt("b", FALSE, 1),
                 Stmt("c", FALSE, 1), Stmt("k", TRUE, 1)}

EnumValues == {Stmt(n, FALSE, v) : n \in EnumNames, v \in Inits}

Decl(kind, oneway, annotations, members) ==
    [kind |-> kind, oneway |-> oneway, annotations |-> annotations, members |-> members]

\* A type with any body, or with any header and no body.
Bodied ==
    {Decl(k, FALSE, {}, b) : k \in {"interface", "parcelable", "union"}, b \in Bodies(Statements, 3)} \cup
    {Decl("enum", FALSE, {}, b) : b \in Bodies(EnumValues, 3)}

Headed ==
    {Decl(k, FALSE, as, <<>>) : k \in DECL_KINDS, as \in SUBSET {VintfStability, "@Backing"}} \cup
    {Decl("interface", TRUE, as, <<>>) : as \in SUBSET {VintfStability, "@Backing"}}

\* Of two names the outer type's is the first.
MCSorted(S) == SelectSeq(<<"T", "T.N">>, LAMBDA q : q \in S)

\* A nested type comes with its outer type.
MCTrees ==
    {[q \in {"T"} |-> d] : d \in Bodied \cup Headed} \cup
    {[q \in {"T", "T.N"} |-> IF q = "T" THEN Decl("parcelable", FALSE, {}, <<>>) ELSE d] :
        d \in {Decl(k, FALSE, {}, b) : k \in {"parcelable", "union"},
                                       b \in Bodies({Stmt("a", FALSE, 1)}, 1)}}

=============================================================================
