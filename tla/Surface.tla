------------------------------ MODULE Surface ------------------------------
(***************************************************************************)
(* dump-surface and diff-surface: each release of an AIDL tree is dumped   *)
(* to text lines, and the dump is classified against the one before it.    *)
(* A statement is a record of its name, whether it is a const, and its     *)
(* remaining text; in an enum the text is the initializer.  Comments and   *)
(* spacing are not represented.  A nested type is a type of its own, under *)
(* its qualified name.  The operators on sequences are those of            *)
(* SequencesExt, without the rest of that module, which slows proofs down. *)
(***************************************************************************)
EXTENDS Integers, Sequences, FiniteSetsExt, Functions, Folds

CONSTANTS
    Trees,           \* the AIDL trees considered, from qualified names to declarations
    sorted(_),       \* the names in a set, in their order
    NoInit,          \* an enum value without initializer
    Expr,            \* an initializer that is not an integer literal
    ExprValue,       \* the integer that expression stands for
    VintfStability,  \* the annotation that may be added
    MaxReleases

DECL_KINDS == {"interface", "parcelable", "union", "enum"}

ASSUME ConstantsAssumption ==
    NoInit \notin Int /\ Expr \notin Int /\ NoInit # Expr /\ ExprValue \in Int

\* A statement, and a type declaration that the AIDL compiler accepts.
Statement(m) == m = [name |-> m.name, const |-> m.const, text |-> m.text] /\ m.const \in BOOLEAN

Declaration(d) ==
    /\ d = [kind |-> d.kind, oneway |-> d.oneway, annotations |-> d.annotations, members |-> d.members]
    /\ d.kind \in DECL_KINDS /\ (d.oneway => d.kind = "interface")
    /\ d.members \in Seq(Range(d.members))
    /\ IsInjective([i \in DOMAIN d.members |-> d.members[i].name])
    /\ \A i \in DOMAIN d.members : /\ Statement(d.members[i])
                                   /\ d.kind = "enum" => /\ ~d.members[i].const
                                                         /\ d.members[i].text \in Int \cup {NoInit, Expr}

\* f lists the elements of D, each once.
Enumerates(f, D) ==
    /\ f \in Seq(D) /\ D = {f[i] : i \in 1 .. Len(f)}
    /\ \A i, j \in 1 .. Len(f) : f[i] = f[j] => i = j

ASSUME TreesAssumption ==
    \A t \in Trees : /\ t = [q \in DOMAIN t |-> t[q]]
                     /\ Enumerates(sorted(DOMAIN t), DOMAIN t)
                     /\ \A q \in DOMAIN t : Declaration(t[q])

ASSUME MaxReleasesAssumption == MaxReleases \in Nat \ {0}

VARIABLES
    trees,    \* the releases' sources
    dumps,    \* what dump-surface wrote for each
    reports   \* what diff-surface said of each against its predecessor

vars == <<trees, dumps, reports>>

-----------------------------------------------------------------------------
(* Sequences *)

FoldLeft(op(_, _), base, seq) ==
    MapThenFoldSet(LAMBDA x, y : op(y, x), base, LAMBDA i : seq[i], Max, DOMAIN seq)

Last(s) == s[Len(s)]

IsPrefix(s, t) == Len(s) <= Len(t) /\ SubSeq(s, 1, Len(s)) = SubSeq(t, 1, Len(s))

-----------------------------------------------------------------------------
(* Dumping *)

\* One value of an enum body.  prev is the last value's integer, or Expr when
\* it could not be derived; the value's line then carries what the source says.
EnumValue(acc, v) ==
    LET prev == IF v.text # NoInit THEN v.text
                ELSE IF acc.prev = Expr THEN Expr ELSE acc.prev + 1
    IN  [prev |-> prev, members |-> Append(acc.members,
            [v EXCEPT !.text = IF v.text = NoInit /\ prev = Expr THEN NoInit ELSE prev])]

_parse_enum_body(body) == FoldLeft(EnumValue, [prev |-> -1, members |-> <<>>], body).members

_parse_type(decl) ==
    IF decl.kind = "enum" THEN [decl EXCEPT !.members = _parse_enum_body(@)] ELSE decl

parse_aidl(tree) == [q \in DOMAIN tree |-> _parse_type(tree[q])]

Header(q, t) == [line |-> "head", qname |-> q, kind |-> t.kind, oneway |-> t.oneway,
                 annotations |-> t.annotations]

Blank == [line |-> "blank"]

\* The lines of one type: its header, its members indented, an empty line.
Lines(q, t) ==
    <<Header(q, t)>> \o [i \in DOMAIN t.members |-> [line |-> "member", member |-> t.members[i]]]
                     \o <<Blank>>

Written(types) ==
    FoldLeft(LAMBDA lines, q : lines \o Lines(q, types[q]), <<>>, sorted(DOMAIN types))

dump_surface(tree) == Written(parse_aidl(tree))

-----------------------------------------------------------------------------
(* Comparing two dumps *)

\* One line of a dump: a header opens a type, a member goes to the open one.
ParseLine(acc, l) ==
    CASE l.line = "head" ->
            [cur |-> l.qname,
             types |-> [q \in DOMAIN acc.types \cup {l.qname} |->
                 IF q = l.qname THEN [kind |-> l.kind, oneway |-> l.oneway,
                                      annotations |-> l.annotations, members |-> <<>>]
                 ELSE acc.types[q]]]
      [] l.line = "member" /\ acc.cur \in DOMAIN acc.types ->
            [acc EXCEPT !.types[acc.cur].members = Append(@, l.member)]
      [] OTHER -> acc

parse_dump(lines) == FoldLeft(ParseLine, [cur |-> Blank, types |-> <<>>], lines).types

_member_name(m) == m.name

Names(ms) == [i \in DOMAIN ms |-> _member_name(ms[i])]

\* The elements of s that are in S, in their order.
Within(s, S) == FoldLeft(LAMBDA r, x : IF x \in S THEN Append(r, x) ELSE r, <<>>, s)

ByName(ms) == [n \in Range(Names(ms)) |-> ms[CHOOSE i \in DOMAIN ms : _member_name(ms[i]) = n]]

Change(class, kind, symbol) == [class |-> class, kind |-> kind, symbol |-> symbol]

\* Variant: looks only at the members that both have.
Lost_ChangedOnly(old, new, prefix) ==
    {Change("breaking", <<prefix, "changed">>, n) :
        n \in {x \in DOMAIN old \cap DOMAIN new : new[x] # old[x]}}

\* What becomes of the old members, looked up by name.
Lost(old, new, prefix) ==
    {Change("breaking", <<prefix, "removed">>, n) : n \in DOMAIN old \ DOMAIN new} \cup
    {Change("breaking", <<prefix, "changed">>, n) :
        n \in {x \in DOMAIN old \cap DOMAIN new : new[x] # old[x]}}

\* Variant: compares the survivors' positions among themselves only.
_diff_sequence_Relative(kind, old, new, prefix) ==
    LET o == ByName(old)
        n == ByName(new)
        survivors == Within(Names(old), DOMAIN n)
        kept      == Within(Names(new), DOMAIN o)
    IN  Lost(o, n, prefix) \cup
        IF kept # survivors THEN {Change("breaking", <<prefix, "reordered">>, "")}
        ELSE {IF kind = "union" THEN Change("breaking", <<"union_arm", "added">>, x)
              ELSE Change("major", <<prefix, "added">>, x) : x \in DOMAIN n \ DOMAIN o}

_diff_sequence(kind, old, new, prefix) ==
    LET o == ByName(old)
        n == ByName(new)
        survivors == Within(Names(old), DOMAIN n)
        from == Len(survivors)
    IN  Lost(o, n, prefix) \cup
        IF SubSeq(Names(new), 1, from) # survivors
        THEN {Change("breaking", <<prefix, "reordered">>, "")}
        ELSE {IF kind = "union" THEN Change("breaking", <<"union_arm", "added">>, x)
              ELSE Change("major", <<prefix, "added">>, x) :
                x \in Range(SubSeq(Names(new), from + 1, Len(new))) \ DOMAIN o}

\* Variant: takes the position of an enum value for its contract.
_diff_enum_Ordered(old, new, prefix) ==
    Lost(ByName(old), ByName(new), prefix) \cup
    {Change("major", <<prefix, "added">>, n) : n \in DOMAIN ByName(new) \ DOMAIN ByName(old)} \cup
    IF IsPrefix(Names(old), Names(new)) THEN {} ELSE {Change("breaking", <<prefix, "reordered">>, "")}

_diff_enum(old, new, prefix) ==
    Lost(ByName(old), ByName(new), prefix) \cup
    {Change("major", <<prefix, "added">>, n) : n \in DOMAIN ByName(new) \ DOMAIN ByName(old)}

Consts(ms) == Within(ms, {m \in Range(ms) : m.const})

Rest(ms) == Within(ms, {m \in Range(ms) : ~m.const})

\* Variant: does not look for annotations that went away.
_diff_annotations_AddedOnly(o, n) ==
    {Change(IF a = VintfStability THEN "major" ELSE "breaking", <<"annotation", "added">>, a) :
        a \in n.annotations \ o.annotations}

_diff_annotations(o, n) ==
    {Change("breaking", <<"annotation", "removed">>, a) : a \in o.annotations \ n.annotations} \cup
    {Change(IF a = VintfStability THEN "major" ELSE "breaking", <<"annotation", "added">>, a) :
        a \in n.annotations \ o.annotations}

\* A type both dumps have.
DiffType(q, o, n) ==
    (IF o.kind # n.kind \/ o.oneway # n.oneway
     THEN {Change("breaking", <<"type", "changed">>, q)} ELSE {}) \cup
    _diff_annotations(o, n) \cup
    IF o.kind = "enum" THEN _diff_enum(o.members, n.members, "enum_value")
    ELSE _diff_enum(Consts(o.members), Consts(n.members), "const") \cup
         _diff_sequence(o.kind, Rest(o.members), Rest(n.members),
                        IF o.kind = "interface" THEN "method" ELSE "field")

Changes(old, new) ==
    {Change("breaking", <<"type", "removed">>, q) : q \in DOMAIN old \ DOMAIN new} \cup
    {Change("major", <<"type", "added">>, q) : q \in DOMAIN new \ DOMAIN old} \cup
    UNION {DiffType(q, old[q], new[q]) : q \in DOMAIN old \cap DOMAIN new}

Class(changes) ==
    LET classes == {c.class : c \in changes}
    IN  IF "breaking" \in classes THEN "breaking"
        ELSE IF "major" \in classes THEN "major" ELSE "none"

diff_surface(old, new) == Class(Changes(parse_dump(old), parse_dump(new)))

-----------------------------------------------------------------------------

Init ==
    /\ trees \in {<<t>> : t \in Trees}
    /\ dumps = <<dump_surface(trees[1])>>
    /\ reports = <<"none">>

\* The next release: dump-surface, then diff-surface against the previous dump.
\* After a breaking change nothing is promised: a new series starts in Init.
Release(tree) ==
    /\ Len(trees) < MaxReleases
    /\ Last(reports) # "breaking"
    /\ trees' = Append(trees, tree)
    /\ dumps' = Append(dumps, dump_surface(tree))
    /\ reports' = Append(reports, diff_surface(Last(dumps), Last(dumps')))

Next == \E tree \in Trees : Release(tree)

Spec == Init /\ [][Next]_vars

-----------------------------------------------------------------------------
(* Properties *)

\* The integer the compiler gives the i-th value of an enum: that of the last
\* value at or before it with an initializer, and one more for each since.
Anchor(body, i) == Max({0} \cup {j \in 1 .. i : body[j].text # NoInit})

Derivable(body, i) == Anchor(body, i) = 0 \/ body[Anchor(body, i)].text # Expr

IntOf(body, i) ==
    LET j == Anchor(body, i)
    IN  IF j = 0 THEN i - 1 ELSE i - j + IF body[j].text = Expr THEN ExprValue ELSE body[j].text

EnumInts(body) == {<<body[i].name, IntOf(body, i)>> : i \in DOMAIN body}

DerivableInts(body) ==
    {<<body[i].name, IntOf(body, i)>> : i \in {x \in DOMAIN body : Derivable(body, x)}}

\* What a client built against o relies on is there in n: the transaction of a
\* method and the place of a field are positions, a union's reader knows exactly
\* its arms, a const and an enum value are compiled into the client.
TypeServes(o, n) ==
    /\ o.kind = n.kind /\ o.oneway = n.oneway
    /\ o.annotations \subseteq n.annotations
    /\ n.annotations \ o.annotations \subseteq {VintfStability}
    /\ IF o.kind = "enum" THEN DerivableInts(o.members) \subseteq EnumInts(n.members)
       ELSE /\ Range(Consts(o.members)) \subseteq Range(Consts(n.members))
            /\ IsPrefix(Rest(o.members), Rest(n.members))
            /\ o.kind = "union" => Rest(o.members) = Rest(n.members)

Serves(old, new) ==
    /\ DOMAIN old \subseteq DOMAIN new
    /\ \A q \in DOMAIN old : TypeServes(old[q], new[q])

\* A client built against any release of a series without a breaking report
\* still works with the last one, however many releases ago that was:
\* diff_surface only ever compares neighbours.
ClientsServed ==
    Last(reports) # "breaking" => \A i \in DOMAIN trees : Serves(trees[i], Last(trees))

AllDerivable(tree) ==
    \A q \in DOMAIN tree : \A i \in DOMAIN tree[q].members : tree[q].members[i].text # Expr

\* diff_surface reports breaking only what can break a client of the previous
\* release: writing an implicit enum integer out, or moving enum values or
\* consts, is no change.
BreakingIsReal ==
    LET n == Len(trees)
    IN  reports[n] = "breaking" /\ AllDerivable(trees[n - 1]) /\ AllDerivable(trees[n])
            => ~Serves(trees[n - 1], trees[n])

\* Going back from a release is breaking exactly when going to it was additive:
\* an addition that diff_surface sees forwards is a removal that it sees backwards.
RollbackSeen ==
    LET n == Len(dumps)
    IN  n > 1 /\ reports[n] # "breaking" =>
            diff_surface(dumps[n], dumps[n - 1]) = IF reports[n] = "major" THEN "breaking" ELSE "none"

\* A dump whose writing was cut off is never taken for the whole one: compared
\* with it the whole one has additions, and as the newer of the two it is
\* breaking.
CutDumpSeen ==
    LET dump == Last(dumps)
    IN  \A k \in 0 .. Len(dump) :
            LET cut == SubSeq(dump, 1, k)
            IN  (\E i \in k + 1 .. Len(dump) : dump[i] # Blank) =>
                    diff_surface(dump, cut) = "breaking" /\ diff_surface(cut, dump) # "none"

\* "breaking - a client built against <old> can break against <new> (... enum
\* int changed ...)": an enum value whose integer moved is never passed over.
EnumIntsKept ==
    LET n == Len(trees)
    IN  n > 1 /\ reports[n] # "breaking" =>
            \A q \in DOMAIN trees[n - 1] : trees[n - 1][q].kind = "enum" =>
                EnumInts(trees[n - 1][q].members) \subseteq EnumInts(trees[n][q].members)

=============================================================================
