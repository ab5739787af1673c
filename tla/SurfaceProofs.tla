---------------------------- MODULE SurfaceProofs ----------------------------
(***************************************************************************)
(* dump-surface and diff-surface, for every set of trees.                  *)
(*                                                                         *)
(* The argument has three parts.  What diff_surface says of two dumps is   *)
(* decided by a preorder on the types that parse_dump reads from them      *)
(* (Kept).  On what parse_aidl makes of trees, Kept is what clients need   *)
(* (Serves), up to enum integers that dump-surface cannot derive.  And a   *)
(* dump reads back as the types it was written from, while one that was    *)
(* cut off reads as a part of them that does not keep them.                *)
(***************************************************************************)
EXTENDS Surface, SequenceTheorems, WellFoundedInduction, TLAPS

-----------------------------------------------------------------------------
(* Induction: the provers take no predicate as a parameter, but a set of     *)
(* numbers, of which they take the least one.                                *)

\* A set of naturals that is not empty has a least element.
LEMMA LeastNatural ==
    ASSUME NEW T, T \subseteq Nat, T # {}
    PROVE  \E x \in T : \A y \in T : x <= y
<1>1. \A x, y \in Nat : y < x => <<y, x>> \in OpToRel(<, Nat)
  BY DEF OpToRel
<1>2. PICK R : /\ IsWellFoundedOn(R, Nat)
               /\ \A x, y \in Nat : y < x => <<y, x>> \in R
  BY <1>1, NatLessThanWellFounded, Zenon
<1>3. PICK x \in T : \A y \in T : ~ (<<y, x>> \in R)
  BY <1>2, WFMin, Zenon
<1>4. ASSUME NEW y \in T PROVE x <= y
  <2>1. x \in Nat /\ y \in Nat
    BY <1>3, <1>4
  <2>2. ~ (y < x)
    BY <2>1, <1>2, <1>3, Zenon
  <2> QED
    BY <2>1, <2>2
<1> QED
  BY <1>4

\* A set that holds 0, and with a number its successor, holds all up to n.
LEMMA Induction ==
    ASSUME NEW n \in Nat, NEW T, 0 \in T, \A i \in 0 .. n - 1 : i \in T => i + 1 \in T
    PROVE  0 .. n \subseteq T
<1> DEFINE U == {i \in 0 .. n : i \notin T}
<1> SUFFICES ASSUME U # {} PROVE FALSE
  OBVIOUS
<1>1. PICK x \in U : \A y \in U : x <= y
  <2>1. U \subseteq Nat
    OBVIOUS
  <2> HIDE DEF U
  <2> QED
    BY <2>1, LeastNatural, Zenon
<1>2. x # 0 /\ x \in 0 .. n /\ x - 1 \in 0 .. n - 1 /\ ~(x <= x - 1) /\ (x - 1) + 1 = x
  BY <1>1
<1>3. x - 1 \in T
  BY <1>1, <1>2
<1> QED
  BY <1>1, <1>2, <1>3

-----------------------------------------------------------------------------
(* Folds *)

\* Positions up to n, n among them, have n as their maximum.
LEMMA MaxIs ==
    ASSUME NEW n \in Nat, NEW t \in SUBSET (1 .. n), n \in t
    PROVE  Max(t) = n
<1>1. PICK x : x = Max(t)
  OBVIOUS
<1>2. \A y \in t : n >= y /\ y \in Nat
  OBVIOUS
<1>3. x \in t /\ \A y \in t : x >= y
  BY <1>1, <1>2, Zenon DEF Max
<1> QED
  BY <1>1, <1>2, <1>3

\* g is the function on the sets of positions that FoldLeft is defined with.
FoldOver(g, X, b, n, step) ==
    /\ g \in [SUBSET (1 .. n) -> X]
    /\ \A t \in SUBSET (1 .. n) :
         IF t = {} THEN g[t] = b ELSE Max(t) \in t /\ g[t] = step[Max(t)][g[t \ {Max(t)}]]

\* There is one for any steps: FoldLeft's recursion is well founded.
LEMMA FoldRuns ==
    ASSUME NEW X, NEW b \in X, NEW n \in Nat, NEW step \in [1 .. n -> [X -> X]]
    PROVE  \E g : FoldOver(g, X, b, n, step)
<1> DEFINE T == {m \in Nat : \E g : FoldOver(g, X, b, m, step)}
<1>1. 0 \in T
  <2>1. PICK g : g = [t \in SUBSET (1 .. 0) |-> b]
    BY Zenon
  <2>2. FoldOver(g, X, b, 0, step)
    BY <2>1 DEF FoldOver
  <2> QED
    BY <2>2
<1>2. ASSUME NEW m \in 0 .. n - 1, m \in T PROVE m + 1 \in T
  <2>1. PICK g : FoldOver(g, X, b, m, step)
    BY <1>2
  <2>2. PICK h : h = [t \in SUBSET (1 .. m + 1) |->
                        IF m + 1 \in t THEN step[m + 1][g[t \ {m + 1}]] ELSE g[t]]
    BY Zenon
  <2>3. \A t \in SUBSET (1 .. m + 1) : /\ t \ {m + 1} \in SUBSET (1 .. m)
                                       /\ m + 1 \notin t => t \in SUBSET (1 .. m)
    OBVIOUS
  <2>4. \A t \in SUBSET (1 .. m) : t \in SUBSET (1 .. m + 1) /\ m + 1 \notin t
    OBVIOUS
  <2>5. m + 1 \in 1 .. n /\ m + 1 \in Nat /\ step[m + 1] \in [X -> X]
    OBVIOUS
  <2>6. h \in [SUBSET (1 .. m + 1) -> X]
    BY <2>1, <2>2, <2>3, <2>5 DEF FoldOver
  <2>7. ASSUME NEW t \in SUBSET (1 .. m + 1)
        PROVE  IF t = {} THEN h[t] = b
               ELSE Max(t) \in t /\ h[t] = step[Max(t)][h[t \ {Max(t)}]]
    <3>1. CASE m + 1 \in t
      <4>1. Max(t) = m + 1
        BY <2>5, <3>1, MaxIs
      <4>2. h[t] = step[m + 1][g[t \ {m + 1}]] /\ h[t \ {m + 1}] = g[t \ {m + 1}]
        BY <2>2, <2>3, <2>4, <3>1
      <4> QED
        BY <3>1, <4>1, <4>2
    <3>2. CASE m + 1 \notin t
      <4>1. t \in SUBSET (1 .. m) /\ h[t] = g[t]
        BY <2>2, <2>3, <3>2
      <4>2. t \ {Max(t)} \in SUBSET (1 .. m)
        BY <4>1, Zenon
      <4>3. h[t \ {Max(t)}] = g[t \ {Max(t)}]
        BY <2>2, <2>4, <4>2
      <4> QED
        BY <2>1, <4>1, <4>3, Zenon DEF FoldOver
    <3> QED
      BY <3>1, <3>2
  <2>8. FoldOver(h, X, b, m + 1, step)
    BY <2>6, <2>7 DEF FoldOver
  <2> QED
    BY <2>5, <2>8
<1>3. n \in T
  <2> HIDE DEF T
  <2>1. 0 .. n \subseteq T
    BY <1>1, <1>2, Induction, Zenon
  <2> QED
    BY <2>1
<1> QED
  BY <1>3

\* The sets of positions that a fold goes through.
LEMMA Upto ==
    ASSUME NEW i \in Nat, i # 0
    PROVE  Max(1 .. i) = i /\ (1 .. i) \ {i} = 1 .. i - 1 /\ 1 .. i # {}
<1>1. 1 .. i \in SUBSET (1 .. i) /\ i \in 1 .. i
  OBVIOUS
<1>2. Max(1 .. i) = i
  BY <1>1, MaxIs
<1>3. ASSUME NEW x PROVE x \in (1 .. i) \ {i} <=> x \in 1 .. i - 1
  OBVIOUS
<1>4. (1 .. i) \ {i} = 1 .. i - 1
  BY <1>3, Zenon
<1> QED
  BY <1>1, <1>2, <1>4, Zenon

\* The run behind Within: the elements met so far that are in the set.
LEMMA WithinRun ==
    ASSUME NEW A, NEW s \in Seq(A), NEW S
    PROVE  \E acc : /\ acc[0] = <<>> /\ Within(s, S) = acc[Len(s)]
                    /\ \A i \in 1 .. Len(s) :
                         acc[i] = IF s[i] \in S THEN Append(acc[i - 1], s[i]) ELSE acc[i - 1]
<1>1. PICK n \in Nat : n = Len(s) /\ DOMAIN s = 1 .. n /\ \A i \in 1 .. n : s[i] \in A
  OBVIOUS
<1>2. PICK b, X : b = <<>> /\ X = Seq(A)
  OBVIOUS
<1> DEFINE op(r, x) == IF x \in S THEN Append(r, x) ELSE r
<1>3. b \in X /\ \A i \in 1 .. n : \A r \in X : op(r, s[i]) \in X
  BY <1>1, <1>2
<1>4. Within(s, S) = FoldLeft(LAMBDA r, x : op(r, x), b, s)
  BY <1>2, Zenon DEF Within
<1> HIDE DEF op
<1>5. PICK step \in [1 .. n -> [X -> X]] : step = [i \in 1 .. n |-> [r \in X |-> op(r, s[i])]]
  BY <1>3, Zenon
<1>6. PICK g : FoldOver(g, X, b, n, step)
  BY <1>3, FoldRuns, Zenon
<1>7. \A t \in SUBSET (1 .. n) : g[t] = IF t = {} THEN b ELSE op(g[t \ {Max(t)}], s[Max(t)])
  BY <1>5, <1>6, Zenon DEF FoldOver
<1>8. g = [t \in SUBSET (1 .. n) |-> IF t = {} THEN b ELSE op(g[t \ {Max(t)}], s[Max(t)])]
  BY <1>6, <1>7, Zenon DEF FoldOver
<1>9. PICK h : /\ h = [t \in SUBSET (1 .. n) |-> IF t = {} THEN b ELSE op(h[t \ {Max(t)}], s[Max(t)])]
               /\ Within(s, S) = h[1 .. n]
  BY <1>1, <1>4, <1>8, Zenon DEF FoldLeft, MapThenFoldSet
<1>10. PICK acc : acc = [i \in 0 .. n |-> h[1 .. i]]
  BY Zenon
<1>11. acc[0] = b /\ Within(s, S) = acc[n]
  <2>1. PICK e : e = 1 .. 0 /\ e = {}
    <3>1. 1 .. 0 = {}
      OBVIOUS
    <3> QED
      BY <3>1, Zenon
  <2>2. h[e] = b
    BY <1>9, <2>1
  <2>3. acc[0] = h[e] /\ acc[n] = h[1 .. n]
    BY <1>10, <2>1
  <2> QED
    BY <1>9, <2>2, <2>3
<1>12. ASSUME NEW i \in 1 .. n PROVE acc[i] = op(acc[i - 1], s[i])
  <2>1. /\ i \in Nat \ {0} /\ i \in 0 .. n /\ i - 1 \in 0 .. n /\ 1 .. i \in SUBSET (1 .. n)
    OBVIOUS
  <2>2. PICK t : t = 1 .. i
    OBVIOUS
  <2>3. t \in SUBSET (1 .. n) /\ t # {} /\ Max(t) = i /\ t \ {i} = 1 .. i - 1
    BY <2>1, <2>2, Upto, Zenon
  <2>4. h[t] = op(h[t \ {Max(t)}], s[Max(t)])
    BY <1>9, <2>3, Zenon
  <2> QED
    BY <1>10, <2>1, <2>2, <2>3, <2>4, Zenon
<1> QED
  BY <1>1, <1>2, <1>11, <1>12 DEF op

-----------------------------------------------------------------------------
(* Sequences of members *)

\* The empty sequence.
LEMMA EmptyFacts ==
    ASSUME NEW A
    PROVE  <<>> \in Seq(A) /\ Len(<<>>) = 0 /\ Range(<<>>) = {}
<1>1. DOMAIN <<>> = {}
  OBVIOUS
<1>2. Range(<<>>) = {}
  BY <1>1, Zenon DEF Range
<1> QED
  BY <1>2

\* A sequence with one element more.
LEMMA AppendFacts ==
    ASSUME NEW A, NEW s \in Seq(A), NEW x \in A
    PROVE  /\ Append(s, x) \in Seq(A) /\ Len(Append(s, x)) = Len(s) + 1
           /\ \A i \in 1 .. Len(s) : Append(s, x)[i] = s[i]
           /\ Append(s, x)[Len(s) + 1] = x
           /\ Range(Append(s, x)) = Range(s) \cup {x}
<1>1. PICK n \in Nat : n = Len(s) /\ DOMAIN s = 1 .. n
  OBVIOUS
<1>2. PICK t : t = Append(s, x)
  BY Zenon
<1>3. /\ t \in Seq(A) /\ Len(t) = n + 1 /\ \A i \in 1 .. n : t[i] = s[i]
      /\ t[n + 1] = x /\ DOMAIN t = 1 .. n + 1
  BY <1>1, <1>2, AppendProperties
<1>4. \A j : j \in 1 .. n + 1 <=> j \in 1 .. n \/ j = n + 1
  OBVIOUS
<1>5. Range(t) = Range(s) \cup {x}
  BY <1>1, <1>3, <1>4, Zenon DEF Range
<1> QED
  BY <1>1, <1>2, <1>3, <1>5

\* Within keeps the elements that are in the set, and no others.
LEMMA WithinFacts ==
    ASSUME NEW A, NEW s \in Seq(A), NEW S
    PROVE  Within(s, S) \in Seq(A) /\ Range(Within(s, S)) = Range(s) \cap S
<1>1. PICK acc : /\ acc[0] = <<>> /\ Within(s, S) = acc[Len(s)]
                 /\ \A i \in 1 .. Len(s) :
                      acc[i] = IF s[i] \in S THEN Append(acc[i - 1], s[i]) ELSE acc[i - 1]
  BY WithinRun
<1>2. PICK n \in Nat : n = Len(s) /\ DOMAIN s = 1 .. n /\ \A i \in 1 .. n : s[i] \in A
  OBVIOUS
<1> DEFINE T == {i \in 0 .. n : /\ acc[i] \in Seq(A)
                                /\ Range(acc[i]) = {s[j] : j \in 1 .. i} \cap S}
<1>3. 0 \in T
  <2>1. {s[j] : j \in 1 .. 0} = {}
    OBVIOUS
  <2>2. 0 \in 0 .. n
    OBVIOUS
  <2> QED
    BY <1>1, <2>1, <2>2, EmptyFacts, Zenon
<1>4. ASSUME NEW i \in 0 .. n - 1, i \in T PROVE i + 1 \in T
  <2>1. /\ i + 1 \in 1 .. n /\ (i + 1) - 1 = i /\ i + 1 \in 0 .. n
        /\ s[i + 1] \in A
        /\ \A j : j \in 1 .. i + 1 <=> j \in 1 .. i \/ j = i + 1
    BY <1>2
  <2>2. acc[i + 1] = IF s[i + 1] \in S THEN Append(acc[i], s[i + 1]) ELSE acc[i]
    BY <1>1, <1>2, <2>1
  <2>3. acc[i] \in Seq(A) /\ Range(acc[i]) = {s[j] : j \in 1 .. i} \cap S
    BY <1>4
  <2>4. acc[i + 1] \in Seq(A)
    BY <2>1, <2>2, <2>3
  <2>5. CASE s[i + 1] \in S
    <3>1. acc[i + 1] = Append(acc[i], s[i + 1])
      BY <2>2, <2>5
    <3>2. Range(acc[i + 1]) = Range(acc[i]) \cup {s[i + 1]}
      BY <2>1, <2>3, <3>1, AppendFacts
    <3>3. Range(acc[i + 1]) = {s[j] : j \in 1 .. i + 1} \cap S
      BY <2>1, <2>3, <2>5, <3>2, Zenon
    <3> QED
      BY <2>1, <2>4, <3>3
  <2>6. CASE s[i + 1] \notin S
    <3>1. acc[i + 1] = acc[i]
      BY <2>2, <2>6
    <3>2. Range(acc[i + 1]) = {s[j] : j \in 1 .. i + 1} \cap S
      BY <2>1, <2>3, <2>6, <3>1, Zenon
    <3> QED
      BY <2>1, <2>4, <3>2
  <2> QED
    BY <2>5, <2>6
<1>5. n \in T
  <2> HIDE DEF T
  <2>1. 0 .. n \subseteq T
    BY <1>3, <1>4, Induction
  <2> QED
    BY <2>1
<1>6. Range(s) = {s[j] : j \in 1 .. n}
  BY <1>2 DEF Range
<1> QED
  BY <1>1, <1>2, <1>5, <1>6

\* Within of a set that has all the elements is the sequence.
LEMMA WithinAll ==
    ASSUME NEW A, NEW s \in Seq(A), NEW S, \A i \in 1 .. Len(s) : s[i] \in S
    PROVE  Within(s, S) = s
<1>1. PICK acc : /\ acc[0] = <<>> /\ Within(s, S) = acc[Len(s)]
                 /\ \A i \in 1 .. Len(s) :
                      acc[i] = IF s[i] \in S THEN Append(acc[i - 1], s[i]) ELSE acc[i - 1]
  BY WithinRun
<1>2. PICK n \in Nat : n = Len(s) /\ DOMAIN s = 1 .. n /\ \A i \in 1 .. n : s[i] \in A
  OBVIOUS
<1> DEFINE T == {i \in 0 .. n : /\ acc[i] \in Seq(A) /\ Len(acc[i]) = i
                                /\ \A j \in 1 .. i : acc[i][j] = s[j]}
<1>3. 0 \in T
  <2>1. 0 \in 0 .. n /\ \A j : j \notin 1 .. 0
    OBVIOUS
  <2> QED
    BY <1>1, <2>1, EmptyFacts, Zenon
<1>4. ASSUME NEW i \in 0 .. n - 1, i \in T PROVE i + 1 \in T
  <2>1. i + 1 \in 1 .. n /\ (i + 1) - 1 = i /\ i + 1 \in 0 .. n /\ s[i + 1] \in A
    BY <1>2
  <2>2. acc[i + 1] = Append(acc[i], s[i + 1])
    BY <1>1, <1>2, <2>1, Zenon
  <2>3. acc[i] \in Seq(A) /\ Len(acc[i]) = i /\ \A j \in 1 .. i : acc[i][j] = s[j]
    BY <1>4
  <2>4. \A j : j \in 1 .. i + 1 <=> j \in 1 .. i \/ j = i + 1
    OBVIOUS
  <2>5. /\ acc[i + 1] \in Seq(A) /\ Len(acc[i + 1]) = i + 1
        /\ \A j \in 1 .. i : acc[i + 1][j] = acc[i][j]
        /\ acc[i + 1][i + 1] = s[i + 1]
    BY <2>1, <2>2, <2>3, AppendFacts
  <2> QED
    BY <2>1, <2>3, <2>4, <2>5, SMTT(30)
<1>5. n \in T
  <2> HIDE DEF T
  <2>1. 0 .. n \subseteq T
    BY <1>3, <1>4, Induction, Zenon
  <2> QED
    BY <2>1
<1>6. acc[n] \in Seq(A) /\ Len(acc[n]) = Len(s) /\ \A j \in 1 .. Len(s) : acc[n][j] = s[j]
  BY <1>2, <1>5
<1> QED
  BY <1>1, <1>2, <1>6, SeqEqual, SMTT(30)

\* A body, as a declaration or a dump has it: no two members of one name.
Body(s) ==
    /\ s \in Seq(Range(s))
    /\ \A i, j \in 1 .. Len(s) : s[i].name = s[j].name => i = j

\* The same through the members alone, and the positions.
LEMMA BodyFacts ==
    ASSUME NEW s, Body(s)
    PROVE  /\ DOMAIN s = 1 .. Len(s) /\ Len(s) \in Nat
           /\ \A m \in Range(s) : \E i \in 1 .. Len(s) : s[i] = m
           /\ \A i \in 1 .. Len(s) : s[i] \in Range(s)
           /\ \A m1, m2 \in Range(s) : m1.name = m2.name => m1 = m2
<1>1. s \in Seq(Range(s)) /\ DOMAIN s = 1 .. Len(s) /\ Len(s) \in Nat
  BY DEF Body
<1>2. /\ \A m \in Range(s) : \E i \in 1 .. Len(s) : s[i] = m
      /\ \A i \in 1 .. Len(s) : s[i] \in Range(s)
  BY <1>1, Zenon DEF Range
<1>3. \A m1, m2 \in Range(s) : m1.name = m2.name => m1 = m2
  BY <1>2, Zenon DEF Body
<1> QED
  BY <1>1, <1>2, <1>3

\* Within of a body is a body.
LEMMA WithinBody ==
    ASSUME NEW s, NEW S, Body(s)
    PROVE  Body(Within(s, S)) /\ Range(Within(s, S)) = Range(s) \cap S
<1> DEFINE A == Range(s)
<1>1. s \in Seq(A)
  BY DEF Body
<1>2. PICK acc : /\ acc[0] = <<>> /\ Within(s, S) = acc[Len(s)]
                 /\ \A i \in 1 .. Len(s) :
                      acc[i] = IF s[i] \in S THEN Append(acc[i - 1], s[i]) ELSE acc[i - 1]
  BY <1>1, WithinRun
<1>3. PICK n \in Nat : n = Len(s) /\ DOMAIN s = 1 .. n /\ \A i \in 1 .. n : s[i] \in A
  BY <1>1
<1> DEFINE T == {i \in 0 .. n : /\ acc[i] \in Seq(A)
                                /\ \A k \in 1 .. Len(acc[i]) : \E j \in 1 .. i : acc[i][k] = s[j]
                                /\ \A k, l \in 1 .. Len(acc[i]) : acc[i][k].name = acc[i][l].name => k = l}
<1> HIDE DEF A
<1>4. 0 \in T
  <2>1. 0 \in 0 .. n /\ \A j : j \notin 1 .. 0
    OBVIOUS
  <2> QED
    BY <1>2, <2>1, EmptyFacts, Zenon
<1>5. ASSUME NEW i \in 0 .. n - 1, i \in T PROVE i + 1 \in T
  <2>1. /\ i + 1 \in 1 .. n /\ (i + 1) - 1 = i /\ i + 1 \in 0 .. n
        /\ s[i + 1] \in A
        /\ \A j \in 1 .. i : j \in 1 .. i + 1 /\ j \in 1 .. n /\ j # i + 1
    BY <1>3
  <2>2. acc[i + 1] = IF s[i + 1] \in S THEN Append(acc[i], s[i + 1]) ELSE acc[i]
    BY <1>2, <1>3, <2>1
  <2>3. /\ acc[i] \in Seq(A)
        /\ \A k \in 1 .. Len(acc[i]) : \E j \in 1 .. i : acc[i][k] = s[j]
        /\ \A k, l \in 1 .. Len(acc[i]) : acc[i][k].name = acc[i][l].name => k = l
    BY <1>5
  <2>4. CASE s[i + 1] \notin S
    <3>1. acc[i + 1] = acc[i]
      BY <2>2, <2>4
    <3> QED
      BY <2>1, <2>3, <3>1, SMTT(30)
  <2>5. CASE s[i + 1] \in S
    <3>1. PICK a, m, r : a = acc[i] /\ m = Len(a) /\ r = acc[i + 1]
      BY Zenon
    <3>2. /\ r \in Seq(A) /\ Len(r) = m + 1 /\ m \in Nat
          /\ \A k \in 1 .. m : r[k] = a[k]
          /\ r[m + 1] = s[i + 1]
      BY <2>1, <2>2, <2>3, <2>5, <3>1, AppendFacts
    <3>3. \A k : k \in 1 .. m + 1 <=> k \in 1 .. m \/ k = m + 1
      BY <3>2
    <3>4. ASSUME NEW k \in 1 .. m PROVE r[k].name # s[i + 1].name
      <4>1. PICK j \in 1 .. i : r[k] = s[j]
        BY <2>3, <3>1, <3>2, <3>4
      <4> QED
        BY <1>3, <2>1, <4>1 DEF Body
    <3>5. \A k \in 1 .. Len(r) : \E j \in 1 .. i + 1 : r[k] = s[j]
      BY <2>1, <2>3, <3>1, <3>2, <3>3
    <3>6. ASSUME NEW k \in 1 .. Len(r), NEW l \in 1 .. Len(r), r[k].name = r[l].name PROVE k = l
      <4>1. (k \in 1 .. m \/ k = m + 1) /\ (l \in 1 .. m \/ l = m + 1)
        BY <3>2, <3>3
      <4>2. k \in 1 .. m /\ l \in 1 .. m => k = l
        BY <2>3, <3>1, <3>2, <3>6, Zenon
      <4> QED
        BY <3>2, <3>4, <3>6, <4>1, <4>2
    <3> QED
      BY <2>1, <3>1, <3>2, <3>5, <3>6
  <2> QED
    BY <2>4, <2>5
<1>6. n \in T
  <2> HIDE DEF T
  <2>1. 0 .. n \subseteq T
    BY <1>4, <1>5, Induction
  <2> QED
    BY <2>1
<1>7. PICK w : w = Within(s, S) /\ w \in Seq(A)
               /\ \A k, l \in 1 .. Len(w) : w[k].name = w[l].name => k = l
  BY <1>2, <1>3, <1>6
<1>8. w \in Seq(Range(w))
  BY <1>7, SeqOfRange
<1> QED
  BY <1>1, <1>7, <1>8, WithinFacts DEF Body, A

-----------------------------------------------------------------------------
(* What the comparison reports *)

\* In a body ByName finds each member under its own name.
LEMMA ByNameFacts ==
    ASSUME NEW s, Body(s)
    PROVE  /\ DOMAIN ByName(s) = {m.name : m \in Range(s)}
           /\ \A m \in Range(s) : ByName(s)[m.name] = m
<1>1. /\ DOMAIN s = 1 .. Len(s)
      /\ \A m \in Range(s) : \E i \in 1 .. Len(s) : s[i] = m
      /\ \A i \in 1 .. Len(s) : s[i] \in Range(s)
  BY BodyFacts
<1>2. Range(Names(s)) = {s[i].name : i \in 1 .. Len(s)}
  BY <1>1, Zenon DEF Range, Names, _member_name
<1>3. Range(Names(s)) = {m.name : m \in Range(s)}
  BY <1>1, <1>2, Zenon
<1>4. ASSUME NEW m \in Range(s) PROVE ByName(s)[m.name] = m
  <2>1. PICK i \in 1 .. Len(s) : s[i] = m
    BY <1>1
  <2>2. \A j \in 1 .. Len(s) : s[j].name = m.name => j = i
    BY <2>1, Zenon DEF Body
  <2>3. (CHOOSE j \in DOMAIN s : _member_name(s[j]) = m.name) = i
    BY <1>1, <2>1, <2>2, Zenon DEF _member_name
  <2>4. ByName(s)[m.name] = s[CHOOSE j \in DOMAIN s : _member_name(s[j]) = m.name]
    BY <1>3, Zenon DEF ByName
  <2> QED
    BY <2>1, <2>3, <2>4, Zenon
<1>5. DOMAIN ByName(s) = Range(Names(s))
  BY DEF ByName
<1> QED
  BY <1>3, <1>4, <1>5

\* Whether a set of changes holds a breaking one, and that it has two classes.
Breaks(cs) == \E c \in cs : c.class = "breaking"
Classified(cs) == \A c \in cs : c.class \in {"breaking", "major"}

\* The class of a change is the one it was made with.
LEMMA ChangeClass ==
    ASSUME NEW class, NEW kind, NEW symbol
    PROVE  Change(class, kind, symbol).class = class
BY DEF Change

\* Lost reports a member unless the new body has the very same one.
LEMMA LostFacts ==
    ASSUME NEW o, NEW n, NEW prefix, Body(o), Body(n)
    PROVE  /\ Lost(ByName(o), ByName(n), prefix) = {} <=> Range(o) \subseteq Range(n)
           /\ \A c \in Lost(ByName(o), ByName(n), prefix) : c.class = "breaking"
<1>1. PICK old, new : old = ByName(o) /\ new = ByName(n)
  OBVIOUS
<1>2. /\ DOMAIN old = {m.name : m \in Range(o)} /\ \A m \in Range(o) : old[m.name] = m
      /\ DOMAIN new = {m.name : m \in Range(n)} /\ \A m \in Range(n) : new[m.name] = m
  BY <1>1, ByNameFacts, Zenon
<1>3. Lost(old, new, prefix) = {} <=> \A x \in DOMAIN old : x \in DOMAIN new /\ new[x] = old[x]
  BY Zenon DEF Lost
<1>4. ASSUME Range(o) \subseteq Range(n), NEW x \in DOMAIN old PROVE x \in DOMAIN new /\ new[x] = old[x]
  <2>1. PICK m \in Range(o) : x = m.name
    BY <1>2, <1>4, Zenon
  <2> QED
    BY <1>2, <1>4, <2>1, Zenon
<1>5. ASSUME \A x \in DOMAIN old : x \in DOMAIN new /\ new[x] = old[x], NEW m \in Range(o) PROVE m \in Range(n)
  <2>1. m.name \in DOMAIN old /\ old[m.name] = m
    BY <1>2, Zenon
  <2>2. m.name \in DOMAIN new /\ new[m.name] = m
    BY <1>5, <2>1
  <2>3. PICK p \in Range(n) : p.name = m.name
    BY <1>2, <2>2
  <2> QED
    BY <1>2, <2>2, <2>3, Zenon
<1>6. ASSUME NEW c \in Lost(old, new, prefix) PROVE c.class = "breaking"
  <2>1. \E kind, x : c = Change("breaking", kind, x)
    BY <1>6, Zenon DEF Lost
  <2> QED
    BY <2>1, ChangeClass, Zenon
<1> QED
  BY <1>1, <1>3, <1>4, <1>5, <1>6, Zenon

\* _diff_enum is breaking unless every old value is kept; else it is silent if
\* none was added.
LEMMA EnumFacts ==
    ASSUME NEW o, NEW n, NEW prefix, Body(o), Body(n), NEW cs, cs = _diff_enum(o, n, prefix)
    PROVE  /\ Classified(cs)
           /\ Breaks(cs) <=> ~(Range(o) \subseteq Range(n))
           /\ Range(o) \subseteq Range(n) => (cs = {} <=> Range(n) \subseteq Range(o))
<1>1. PICK lost, old, new : old = ByName(o) /\ new = ByName(n) /\ lost = Lost(old, new, prefix)
  OBVIOUS
<1>2. /\ DOMAIN old = {m.name : m \in Range(o)} /\ \A m \in Range(o) : old[m.name] = m
      /\ DOMAIN new = {m.name : m \in Range(n)} /\ \A m \in Range(n) : new[m.name] = m
      /\ lost = {} <=> Range(o) \subseteq Range(n)
      /\ \A c \in lost : c.class = "breaking"
  BY <1>1, ByNameFacts, LostFacts, Zenon
<1>3. PICK added : added = {Change("major", <<prefix, "added">>, x) : x \in DOMAIN new \ DOMAIN old}
  BY Zenon
<1>4. cs = lost \cup added
  BY <1>1, <1>3, Zenon DEF _diff_enum
<1>5. \A c \in added : c.class = "major"
  BY <1>3, ChangeClass, Zenon
<1>6. "major" # "breaking"
  OBVIOUS
<1>7. Classified(cs)
  BY <1>2, <1>4, <1>5, Zenon DEF Classified
<1>8. Breaks(cs) <=> ~(Range(o) \subseteq Range(n))
  BY <1>2, <1>4, <1>5, <1>6, Zenon DEF Breaks
<1>9. ASSUME Range(o) \subseteq Range(n) PROVE cs = {} <=> Range(n) \subseteq Range(o)
  <2>1. cs = {} <=> DOMAIN new \subseteq DOMAIN old
    <3>1. added = {} <=> DOMAIN new \subseteq DOMAIN old
      BY <1>3, Zenon
    <3> QED
      BY <1>2, <1>4, <1>9, <3>1, Zenon
  <2>2. ASSUME DOMAIN new \subseteq DOMAIN old, NEW m \in Range(n) PROVE m \in Range(o)
    <3>1. PICK p \in Range(o) : p.name = m.name
      BY <1>2, <2>2
    <3> QED
      BY <1>2, <1>9, <3>1, Zenon
  <2> QED
    BY <1>2, <2>1, <2>2, Zenon
<1> QED
  BY <1>7, <1>8, <1>9

\* The beginning of a sequence, as a function.
LEMMA SubSeqIs ==
    ASSUME NEW A, NEW s \in Seq(A), NEW k \in Nat
    PROVE  SubSeq(s, 1, k) = [i \in 1 .. k |-> s[i]]
OBVIOUS

\* IsPrefix, position by position.
LEMMA PrefixIs ==
    ASSUME NEW s, NEW t, Body(s), Body(t)
    PROVE  IsPrefix(s, t) <=> Len(s) <= Len(t) /\ \A i \in 1 .. Len(s) : s[i] = t[i]
<1>1. PICK k \in Nat, l \in Nat : k = Len(s) /\ l = Len(t)
  BY BodyFacts
<1>2. SubSeq(s, 1, k) = [i \in 1 .. k |-> s[i]] /\ SubSeq(t, 1, k) = [i \in 1 .. k |-> t[i]]
  BY SubSeqIs DEF Body
<1>3. SubSeq(s, 1, k) = SubSeq(t, 1, k) <=> \A i \in 1 .. k : s[i] = t[i]
  BY <1>2
<1> QED
  BY <1>1, <1>3, Zenon DEF IsPrefix

\* A prefix has no other members.
LEMMA PrefixRange ==
    ASSUME NEW s, NEW t, Body(s), Body(t), IsPrefix(s, t)
    PROVE  Range(s) \subseteq Range(t)
<1>1. Len(s) \in Nat /\ Len(t) \in Nat /\ Len(s) <= Len(t) /\ \A i \in 1 .. Len(s) : s[i] = t[i]
  BY BodyFacts, PrefixIs
<1>2. \A i \in 1 .. Len(s) : i \in 1 .. Len(t)
  BY <1>1
<1>3. ASSUME NEW m \in Range(s) PROVE m \in Range(t)
  <2>1. PICK i \in 1 .. Len(s) : s[i] = m
    BY BodyFacts
  <2>2. t[i] \in Range(t)
    BY <1>2, BodyFacts
  <2> QED
    BY <1>1, <2>1, <2>2
<1> QED
  BY <1>3

\* A prefix that is no shorter is the whole.
LEMMA PrefixBoth ==
    ASSUME NEW s, NEW t, Body(s), Body(t), IsPrefix(s, t)
    PROVE  /\ IsPrefix(t, s) <=> Len(s) = Len(t)
           /\ s = t <=> Len(s) = Len(t)
<1>1. Len(s) \in Nat /\ Len(t) \in Nat /\ Len(s) <= Len(t) /\ \A i \in 1 .. Len(s) : s[i] = t[i]
  BY BodyFacts, PrefixIs
<1>2. IsPrefix(t, s) <=> Len(t) <= Len(s) /\ \A i \in 1 .. Len(t) : t[i] = s[i]
  BY PrefixIs, Zenon
<1>3. IsPrefix(t, s) <=> Len(s) = Len(t)
  BY <1>1, <1>2
<1>4. ASSUME Len(s) = Len(t) PROVE s = t
  BY <1>1, <1>4, SeqEqual DEF Body
<1> QED
  BY <1>3, <1>4

\* The names of a body's members.
LEMMA NamesFacts ==
    ASSUME NEW s, Body(s)
    PROVE  /\ Names(s) \in Seq({m.name : m \in Range(s)})
           /\ Len(Names(s)) = Len(s)
           /\ \A i \in 1 .. Len(s) : Names(s)[i] = s[i].name
<1>1. PICK n \in Nat : n = Len(s) /\ DOMAIN s = 1 .. n
  BY BodyFacts
<1>2. PICK N : N = {m.name : m \in Range(s)}
  BY Zenon
<1>3. \A i \in 1 .. n : s[i].name \in N
  BY <1>1, <1>2, BodyFacts, Zenon
<1>4. Names(s) = [i \in 1 .. n |-> s[i].name]
  BY <1>1 DEF Names, _member_name
<1>5. Names(s) \in [1 .. n -> N]
  BY <1>3, <1>4
<1>6. Names(s) \in Seq(N)
  BY <1>5, SeqDef
<1>7. Len(Names(s)) = n
  BY <1>5, <1>6
<1> QED
  BY <1>1, <1>2, <1>4, <1>6, <1>7

\* _diff_sequence is breaking unless the old body is a prefix of the new one, and
\* for a union unless they are equal; else it is silent if nothing was appended.
LEMMA SequenceFacts ==
    ASSUME NEW kind, NEW o, NEW n, NEW prefix, Body(o), Body(n),
           NEW cs, cs = _diff_sequence(kind, o, n, prefix)
    PROVE  /\ Classified(cs)
           /\ Breaks(cs) <=> ~(IsPrefix(o, n) /\ (kind = "union" => o = n))
           /\ IsPrefix(o, n) /\ (kind = "union" => o = n) => (cs = {} <=> IsPrefix(n, o))
<1>1. PICK lost, old, new, survivors, from :
        /\ old = ByName(o) /\ new = ByName(n) /\ lost = Lost(old, new, prefix)
        /\ survivors = Within(Names(o), DOMAIN new) /\ from = Len(survivors)
  BY Zenon
<1>2. /\ DOMAIN old = {m.name : m \in Range(o)}
      /\ DOMAIN new = {m.name : m \in Range(n)}
      /\ lost = {} <=> Range(o) \subseteq Range(n)
      /\ \A c \in lost : c.class = "breaking"
  BY <1>1, ByNameFacts, LostFacts, Zenon
<1>3. PICK reordered : reordered = (SubSeq(Names(n), 1, from) # survivors)
  OBVIOUS
<1>4. PICK rest, added :
        /\ rest = Range(SubSeq(Names(n), from + 1, Len(n))) \ DOMAIN old
        /\ added = {IF kind = "union" THEN Change("breaking", <<"union_arm", "added">>, x)
                    ELSE Change("major", <<prefix, "added">>, x) : x \in rest}
  BY Zenon
<1>5. cs = lost \cup IF SubSeq(Names(n), 1, from) # survivors
                     THEN {Change("breaking", <<prefix, "reordered">>, "")} ELSE added
  BY <1>1, <1>4, Zenon DEF _diff_sequence
<1>6. ASSUME NEW c \in added PROVE c.class = IF kind = "union" THEN "breaking" ELSE "major"
  <2>1. \/ kind = "union" /\ \E k, x : c = Change("breaking", k, x)
        \/ kind # "union" /\ \E k, x : c = Change("major", k, x)
    BY <1>4, <1>6, Zenon
  <2> QED
    BY <2>1, ChangeClass, Zenon
<1>7. added = {} <=> rest = {}
  BY <1>4, Zenon
<1>8. "major" # "breaking"
  OBVIOUS
<1>9. Classified(cs)
  <2>1. ASSUME NEW c \in cs PROVE c.class = "breaking" \/ c.class = "major"
    <3>1. c \in lost \/ c = Change("breaking", <<prefix, "reordered">>, "") \/ c \in added
      BY <1>5, <2>1, Zenon
    <3>2. c \in added => c.class = "breaking" \/ c.class = "major"
      BY <1>6, Zenon
    <3>3. Change("breaking", <<prefix, "reordered">>, "").class = "breaking"
      BY ChangeClass, Zenon
    <3> QED
      BY <1>2, <3>1, <3>2, <3>3, Zenon
  <2> QED
    BY <2>1, Zenon DEF Classified
<1>10. CASE ~(Range(o) \subseteq Range(n))
  <2>1. Breaks(cs)
    BY <1>2, <1>5, <1>10, Zenon DEF Breaks
  <2>2. ~IsPrefix(o, n)
    BY <1>10, PrefixRange
  <2> QED
    BY <1>9, <2>1, <2>2
<1>11. CASE Range(o) \subseteq Range(n)
  <2>1. ASSUME NEW i \in 1 .. Len(o) PROVE Names(o)[i] \in DOMAIN new
    <3>1. Names(o)[i] = o[i].name /\ o[i] \in Range(n)
      BY <1>11, BodyFacts, NamesFacts, Zenon
    <3> QED
      BY <1>2, <3>1, Zenon
  <2>2. survivors = Names(o) /\ from = Len(o)
    BY <1>1, <2>1, NamesFacts, WithinAll, Zenon
  <2>3. SubSeq(Names(n), 1, from) = survivors <=> IsPrefix(o, n)
    <3>1. PICK k \in Nat, l \in Nat : k = Len(o) /\ l = Len(n)
      BY BodyFacts
    <3>2. PICK p, q : p = Names(o) /\ q = Names(n)
      OBVIOUS
    <3>3. /\ SubSeq(q, 1, k) = [i \in 1 .. k |-> q[i]] /\ p = [i \in 1 .. k |-> p[i]]
          /\ \A i \in 1 .. k : p[i] = o[i].name
          /\ \A i \in 1 .. l : q[i] = n[i].name
      <4>1. /\ p \in Seq({m.name : m \in Range(o)}) /\ Len(p) = k
            /\ q \in Seq({m.name : m \in Range(n)}) /\ Len(q) = l
            /\ \A i \in 1 .. k : p[i] = o[i].name
            /\ \A i \in 1 .. l : q[i] = n[i].name
        BY <3>1, <3>2, NamesFacts, Zenon
      <4>2. SubSeq(q, 1, k) = [i \in 1 .. k |-> q[i]]
        BY <4>1, SubSeqIs
      <4>3. PICK N : p \in Seq(N)
        BY <4>1
      <4>4. p = [i \in 1 .. k |-> p[i]]
        BY <4>1, <4>3
      <4> QED
        BY <4>1, <4>2, <4>4
    <3>4. SubSeq(Names(n), 1, from) = survivors <=> \A i \in 1 .. k : p[i] = q[i]
      BY <2>2, <3>1, <3>2, <3>3
    <3>5. ASSUME IsPrefix(o, n) PROVE \A i \in 1 .. k : p[i] = q[i]
      <4>1. k <= l /\ \A i \in 1 .. k : o[i] = n[i]
        BY <3>1, <3>5, PrefixIs
      <4> QED
        BY <3>1, <3>3, <4>1
    <3>6. ASSUME \A i \in 1 .. k : p[i] = q[i] PROVE IsPrefix(o, n)
      <4>1. ASSUME l < k PROVE FALSE
        <5>1. l + 1 \in 1 .. k /\ \A j \in 1 .. l : j \in 1 .. k /\ j # l + 1
          BY <4>1
        <5>2. o[l + 1] \in Range(n)
          BY <1>11, <3>1, <5>1, BodyFacts
        <5>3. PICK j \in 1 .. l : n[j] = o[l + 1]
          BY <3>1, <5>2, BodyFacts
        <5>4. o[j].name = o[l + 1].name
          BY <3>3, <3>6, <5>1, <5>3
        <5> QED
          BY <3>1, <5>1, <5>3, <5>4 DEF Body
      <4>2. k <= l
        BY <3>1, <4>1
      <4>3. ASSUME NEW i \in 1 .. k PROVE o[i] = n[i]
        <5>1. i \in 1 .. l
          BY <4>2
        <5>2. o[i] \in Range(n) /\ n[i] \in Range(n)
          BY <1>11, <3>1, <5>1, BodyFacts
        <5>3. o[i].name = n[i].name
          BY <3>3, <3>6, <5>1
        <5> QED
          BY <5>2, <5>3, BodyFacts
      <4> QED
        BY <3>1, <4>2, <4>3, PrefixIs
    <3> QED
      BY <3>4, <3>5, <3>6
  <2>4. CASE ~IsPrefix(o, n)
    <3>1. cs = lost \cup {Change("breaking", <<prefix, "reordered">>, "")}
      BY <1>5, <2>3, <2>4, Zenon
    <3>2. Breaks(cs)
      BY <3>1, ChangeClass, Zenon DEF Breaks
    <3> QED
      BY <1>9, <2>4, <3>2
  <2>5. CASE IsPrefix(o, n)
    <3>1. cs = added
      BY <1>2, <1>5, <1>11, <2>3, <2>5, Zenon
    <3>2. rest = {} <=> Len(o) = Len(n)
      <4>1. PICK k \in Nat, l \in Nat : k = Len(o) /\ l = Len(n)
        BY BodyFacts
      <4>2. k <= l /\ \A i \in 1 .. k : o[i] = n[i]
        BY <2>5, <4>1, PrefixIs
      <4>3. PICK q, tail : q = Names(n) /\ tail = SubSeq(q, k + 1, l)
        BY Zenon
      <4>4. /\ q \in Seq({m.name : m \in Range(n)}) /\ Len(q) = l
            /\ \A i \in 1 .. l : q[i] = n[i].name
        BY <4>1, <4>3, NamesFacts, Zenon
      <4>5. tail = [i \in 1 .. l - k |-> q[i + k]]
        BY <4>2, <4>3, <4>4
      <4>6. rest = Range(tail) \ DOMAIN old
        BY <1>4, <2>2, <4>1, <4>3, Zenon
      <4>7. ASSUME k = l PROVE rest = {}
        <5>1. DOMAIN tail = {}
          BY <4>5, <4>7
        <5> QED
          BY <4>6, <5>1, Zenon DEF Range
      <4>8. ASSUME k # l PROVE rest # {}
        <5>1. /\ l - k \in 1 .. l - k /\ (l - k) + k = l /\ l \in 1 .. l
              /\ \A i \in 1 .. k : i \in 1 .. l /\ i # l
          BY <4>2, <4>8
        <5>2. tail[l - k] = n[l].name
          BY <4>4, <4>5, <5>1
        <5>3. n[l].name \in Range(tail)
          BY <4>5, <5>1, <5>2 DEF Range
        <5>4. ASSUME NEW m \in Range(o) PROVE m.name # n[l].name
          <6>1. PICK i \in 1 .. k : o[i] = m
            BY <4>1, BodyFacts
          <6>2. n[i].name # n[l].name
            BY <4>1, <5>1 DEF Body
          <6> QED
            BY <4>2, <6>1, <6>2
        <5>5. n[l].name \notin DOMAIN old
          BY <1>2, <5>4, Zenon
        <5> QED
          BY <4>6, <5>3, <5>5, Zenon
      <4> QED
        BY <4>1, <4>7, <4>8
    <3>3. cs = {} <=> Len(o) = Len(n)
      BY <1>7, <3>1, <3>2
    <3>4. Breaks(cs) <=> kind = "union" /\ cs # {}
      BY <1>6, <1>8, <3>1, Zenon DEF Breaks
    <3>5. (IsPrefix(n, o) <=> Len(o) = Len(n)) /\ (o = n <=> Len(o) = Len(n))
      BY <2>5, PrefixBoth
    <3> QED
      BY <1>9, <2>5, <3>3, <3>4, <3>5, Zenon
  <2> QED
    BY <2>4, <2>5
<1> QED
  BY <1>10, <1>11

\* The verdict on a union of changes.
LEMMA UnionFacts ==
    ASSUME NEW a, NEW b
    PROVE  /\ Breaks(a \cup b) <=> Breaks(a) \/ Breaks(b)
           /\ Classified(a \cup b) <=> Classified(a) /\ Classified(b)
           /\ a \cup b = {} <=> a = {} /\ b = {}
BY Zenon DEF Breaks, Classified

AnnotationsKept(o, n) ==
    o.annotations \subseteq n.annotations /\ n.annotations \ o.annotations \subseteq {VintfStability}

\* _diff_annotations is breaking unless only VintfStability is added.
LEMMA AnnotationFacts ==
    ASSUME NEW o, NEW n, NEW cs, cs = _diff_annotations(o, n)
    PROVE  /\ Classified(cs)
           /\ Breaks(cs) <=> ~AnnotationsKept(o, n)
           /\ AnnotationsKept(o, n) => (cs = {} <=> AnnotationsKept(n, o))
<1>1. PICK a, b : a = o.annotations /\ b = n.annotations
  OBVIOUS
<1>2. PICK gone, new :
        /\ gone = {Change("breaking", <<"annotation", "removed">>, x) : x \in a \ b}
        /\ new = {Change(IF x = VintfStability THEN "major" ELSE "breaking", <<"annotation", "added">>, x) :
                    x \in b \ a}
  BY Zenon
<1>3. cs = gone \cup new
  BY <1>1, <1>2, Zenon DEF _diff_annotations
<1>4. \A c \in gone : c.class = "breaking"
  BY <1>2, ChangeClass, ZenonT(40)
<1>5. ASSUME NEW c \in new
      PROVE  \E x \in b \ a : c.class = IF x = VintfStability THEN "major" ELSE "breaking"
  <2>1. PICK x \in b \ a : \E k : c = Change(IF x = VintfStability THEN "major" ELSE "breaking", k, x)
    BY <1>2, Zenon
  <2> QED
    BY <2>1, ChangeClass
<1>6. ASSUME NEW x \in b \ a
      PROVE  \E c \in new : c.class = IF x = VintfStability THEN "major" ELSE "breaking"
  <2>1. PICK c \in new : \E k : c = Change(IF x = VintfStability THEN "major" ELSE "breaking", k, x)
    BY <1>2, Zenon
  <2> QED
    BY <2>1, ChangeClass
<1>7. "major" # "breaking"
  OBVIOUS
<1>8. (gone = {} <=> a \subseteq b) /\ (new = {} <=> b \subseteq a)
  BY <1>2, Zenon
<1>9. Classified(gone) /\ (Breaks(gone) <=> ~(a \subseteq b))
  BY <1>4, <1>8, Zenon DEF Classified, Breaks
<1>10. Classified(new)
  BY <1>5, Zenon DEF Classified
<1>11. Breaks(new) <=> ~(b \ a \subseteq {VintfStability})
  <2>1. ASSUME NEW c \in new, c.class = "breaking" PROVE ~(b \ a \subseteq {VintfStability})
    BY <1>5, <1>7, <2>1, Zenon
  <2>2. ASSUME NEW x \in b \ a, x # VintfStability PROVE Breaks(new)
    BY <1>6, <2>2, Zenon DEF Breaks
  <2> QED
    BY <2>1, <2>2, Zenon DEF Breaks
<1> QED
  BY <1>1, <1>3, <1>8, <1>9, <1>10, <1>11, UnionFacts, Zenon DEF AnnotationsKept

\* What a dumped type must keep for diff_surface to report nothing breaking.
BodyKept(o, n) ==
    IF o.kind = "enum" THEN Range(o.members) \subseteq Range(n.members)
    ELSE /\ Range(Consts(o.members)) \subseteq Range(Consts(n.members))
         /\ IsPrefix(Rest(o.members), Rest(n.members))
         /\ o.kind = "union" => Rest(o.members) = Rest(n.members)

TypeKept(o, n) ==
    /\ o.kind = n.kind /\ o.oneway = n.oneway
    /\ AnnotationsKept(o, n)
    /\ BodyKept(o, n)

\* The verdict on one type that both dumps have.
LEMMA TypeFacts ==
    ASSUME NEW q, NEW o, NEW n, Body(o.members), Body(n.members), NEW cs, cs = DiffType(q, o, n)
    PROVE  /\ Classified(cs)
           /\ Breaks(cs) <=> ~TypeKept(o, n)
           /\ TypeKept(o, n) => (cs = {} <=> TypeKept(n, o))
<1>1. PICK head, ann, body :
        /\ head = (IF o.kind # n.kind \/ o.oneway # n.oneway
                   THEN {Change("breaking", <<"type", "changed">>, q)} ELSE {})
        /\ ann = _diff_annotations(o, n)
        /\ body = IF o.kind = "enum" THEN _diff_enum(o.members, n.members, "enum_value")
                  ELSE _diff_enum(Consts(o.members), Consts(n.members), "const") \cup
                       _diff_sequence(o.kind, Rest(o.members), Rest(n.members),
                                      IF o.kind = "interface" THEN "method" ELSE "field")
  BY Zenon
<1>2. cs = (head \cup ann) \cup body
  BY <1>1, Zenon DEF DiffType
<1>3. /\ Classified(head)
      /\ Breaks(head) <=> ~(o.kind = n.kind /\ o.oneway = n.oneway)
      /\ o.kind = n.kind /\ o.oneway = n.oneway => head = {}
  <2>1. CASE o.kind # n.kind \/ o.oneway # n.oneway
    <3>1. head = {Change("breaking", <<"type", "changed">>, q)}
      BY <1>1, <2>1, Zenon
    <3>2. Change("breaking", <<"type", "changed">>, q).class = "breaking"
      BY ChangeClass
    <3>3. Classified(head) /\ Breaks(head)
      BY <3>1, <3>2, Zenon DEF Classified, Breaks
    <3> QED
      BY <2>1, <3>3, Zenon
  <2>2. CASE o.kind = n.kind /\ o.oneway = n.oneway
    <3>1. head = {}
      BY <1>1, <2>2, Zenon
    <3> QED
      BY <2>2, <3>1, Zenon DEF Classified, Breaks
  <2> QED
    BY <2>1, <2>2, Zenon
<1>4. /\ Classified(ann)
      /\ Breaks(ann) <=> ~AnnotationsKept(o, n)
      /\ AnnotationsKept(o, n) => (ann = {} <=> AnnotationsKept(n, o))
  BY <1>1, AnnotationFacts, Zenon
<1>5. /\ Classified(body)
      /\ Breaks(body) <=> ~BodyKept(o, n)
      /\ o.kind = n.kind /\ BodyKept(o, n) => (body = {} <=> BodyKept(n, o))
  <2>1. CASE o.kind = "enum"
    <3>1. body = _diff_enum(o.members, n.members, "enum_value")
      BY <1>1, <2>1, Zenon
    <3>2. /\ Classified(body)
          /\ Breaks(body) <=> ~(Range(o.members) \subseteq Range(n.members))
          /\ Range(o.members) \subseteq Range(n.members)
               => (body = {} <=> Range(n.members) \subseteq Range(o.members))
      <4>1. PICK a, b, p : a = o.members /\ b = n.members /\ p = "enum_value"
        OBVIOUS
      <4>2. /\ Classified(body)
            /\ Breaks(body) <=> ~(Range(a) \subseteq Range(b))
            /\ Range(a) \subseteq Range(b) => (body = {} <=> Range(b) \subseteq Range(a))
        <5>1. Body(a) /\ Body(b) /\ body = _diff_enum(a, b, p)
          BY <3>1, <4>1, Zenon
        <5> QED
          BY <5>1, EnumFacts, Zenon
      <4> QED
        BY <4>1, <4>2, Zenon
    <3> QED
      BY <2>1, <3>2, Zenon DEF BodyKept
  <2>2. CASE o.kind # "enum"
    <3>1. PICK co, cn, ro, rn, p : /\ co = Consts(o.members) /\ cn = Consts(n.members)
                                   /\ ro = Rest(o.members) /\ rn = Rest(n.members)
                                   /\ p = IF o.kind = "interface" THEN "method" ELSE "field"
      OBVIOUS
    <3>2. Body(co) /\ Body(cn) /\ Body(ro) /\ Body(rn)
      BY <3>1, WithinBody, Zenon DEF Consts, Rest
    <3>3. PICK a, b : a = _diff_enum(co, cn, "const") /\ b = _diff_sequence(o.kind, ro, rn, p)
      OBVIOUS
    <3>4. body = a \cup b
      BY <1>1, <2>2, <3>1, <3>3, Zenon
    <3>5. /\ Classified(a)
          /\ Breaks(a) <=> ~(Range(co) \subseteq Range(cn))
          /\ Range(co) \subseteq Range(cn) => (a = {} <=> Range(cn) \subseteq Range(co))
      BY <3>2, <3>3, EnumFacts, Zenon
    <3>6. /\ Classified(b)
          /\ Breaks(b) <=> ~(IsPrefix(ro, rn) /\ (o.kind = "union" => ro = rn))
          /\ IsPrefix(ro, rn) /\ (o.kind = "union" => ro = rn) => (b = {} <=> IsPrefix(rn, ro))
      BY <3>2, <3>3, SequenceFacts, Zenon
    <3>7. BodyKept(o, n) <=> /\ Range(co) \subseteq Range(cn)
                             /\ IsPrefix(ro, rn) /\ (o.kind = "union" => ro = rn)
      BY <2>2, <3>1, Zenon DEF BodyKept
    <3>8. o.kind = n.kind => (BodyKept(n, o) <=> /\ Range(cn) \subseteq Range(co)
                                                 /\ IsPrefix(rn, ro) /\ (o.kind = "union" => rn = ro))
      BY <2>2, <3>1, Zenon DEF BodyKept
    <3> QED
      BY <3>4, <3>5, <3>6, <3>7, <3>8, UnionFacts, Zenon
  <2> QED
    BY <2>1, <2>2, Zenon
<1>6. Classified(cs)
  BY <1>2, <1>3, <1>4, <1>5, UnionFacts, ZenonT(40)
<1>7. Breaks(cs) <=> ~TypeKept(o, n)
  <2>1. Breaks(cs) <=> Breaks(head) \/ Breaks(ann) \/ Breaks(body)
    <3>1. Breaks(head \cup ann) <=> Breaks(head) \/ Breaks(ann)
      BY UnionFacts, Zenon
    <3>2. Breaks((head \cup ann) \cup body) <=> Breaks(head \cup ann) \/ Breaks(body)
      BY UnionFacts, Zenon
    <3> QED
      BY <1>2, <3>1, <3>2, Zenon
  <2> QED
    BY <1>3, <1>4, <1>5, <2>1, Zenon DEF TypeKept
<1>8. ASSUME TypeKept(o, n) PROVE cs = {} <=> TypeKept(n, o)
  <2>1. cs = {} <=> head = {} /\ ann = {} /\ body = {}
    BY <1>2, UnionFacts, Zenon
  <2>2. head = {} /\ (ann = {} <=> AnnotationsKept(n, o)) /\ (body = {} <=> BodyKept(n, o))
    BY <1>3, <1>4, <1>5, <1>8, Zenon DEF TypeKept
  <2> QED
    BY <1>8, <2>1, <2>2, Zenon DEF TypeKept
<1> QED
  BY <1>6, <1>7, <1>8

\* A set of types as parse_dump makes it from a dump, and what such a one must
\* keep for diff_surface to report nothing breaking.
Dumped(types) == \A q \in DOMAIN types : Body(types[q].members)

Kept(o, n) ==
    DOMAIN o \subseteq DOMAIN n /\ \A q \in DOMAIN o : TypeKept(o[q], n[q])

\* The verdict on all changes between two dumps.
LEMMA ChangesFacts ==
    ASSUME NEW o, NEW n, Dumped(o), Dumped(n), NEW cs, cs = Changes(o, n)
    PROVE  /\ Classified(cs)
           /\ Breaks(cs) <=> ~Kept(o, n)
           /\ Kept(o, n) => (cs = {} <=> Kept(n, o))
<1>1. PICK gone, new, diff :
        /\ gone = {Change("breaking", <<"type", "removed">>, q) : q \in DOMAIN o \ DOMAIN n}
        /\ new = {Change("major", <<"type", "added">>, q) : q \in DOMAIN n \ DOMAIN o}
        /\ diff = UNION {DiffType(q, o[q], n[q]) : q \in DOMAIN o \cap DOMAIN n}
  BY Zenon
<1>2. cs = (gone \cup new) \cup diff
  BY <1>1, Zenon DEF Changes
<1>3. "major" # "breaking"
  OBVIOUS
<1>4. \A c \in gone : c.class = "breaking"
  BY <1>1, ChangeClass, ZenonT(40)
<1>5. \A c \in new : c.class = "major"
  BY <1>1, ChangeClass, ZenonT(40)
<1>6. (gone = {} <=> DOMAIN o \subseteq DOMAIN n) /\ (new = {} <=> DOMAIN n \subseteq DOMAIN o)
  BY <1>1, Zenon
<1>7. Classified(gone) /\ (Breaks(gone) <=> ~(DOMAIN o \subseteq DOMAIN n))
  BY <1>4, <1>6, Zenon DEF Classified, Breaks
<1>8. Classified(new) /\ ~Breaks(new)
  BY <1>3, <1>5, Zenon DEF Classified, Breaks
<1>9. ASSUME NEW q \in DOMAIN o \cap DOMAIN n
      PROVE  /\ Classified(DiffType(q, o[q], n[q]))
             /\ Breaks(DiffType(q, o[q], n[q])) <=> ~TypeKept(o[q], n[q])
             /\ TypeKept(o[q], n[q]) => (DiffType(q, o[q], n[q]) = {} <=> TypeKept(n[q], o[q]))
  <2>1. PICK a, b, d : a = o[q] /\ b = n[q] /\ d = DiffType(q, a, b)
    OBVIOUS
  <2>2. Body(a.members) /\ Body(b.members)
    BY <1>9, <2>1, Zenon DEF Dumped
  <2>3. /\ Classified(d)
        /\ Breaks(d) <=> ~TypeKept(a, b)
        /\ TypeKept(a, b) => (d = {} <=> TypeKept(b, a))
    BY <2>1, <2>2, TypeFacts, Zenon
  <2> QED
    BY <2>1, <2>3, Zenon
<1>10. \A c : c \in diff <=> \E q \in DOMAIN o \cap DOMAIN n : c \in DiffType(q, o[q], n[q])
  BY <1>1, Zenon
<1>11. Classified(diff)
  BY <1>9, <1>10, Zenon DEF Classified
<1>12. Breaks(diff) <=> \E q \in DOMAIN o \cap DOMAIN n : ~TypeKept(o[q], n[q])
  BY <1>9, <1>10, Zenon DEF Breaks
<1>13. diff = {} <=> \A q \in DOMAIN o \cap DOMAIN n : DiffType(q, o[q], n[q]) = {}
  BY <1>10, Zenon
<1>14. Classified(cs)
  <2>1. Classified(gone \cup new)
    BY <1>7, <1>8, UnionFacts, Zenon
  <2> QED
    BY <1>2, <1>11, <2>1, UnionFacts, ZenonT(40)
<1>15. Breaks(cs) <=> ~Kept(o, n)
  <2>1. Breaks(gone \cup new) <=> Breaks(gone)
    BY <1>8, UnionFacts, Zenon
  <2>2. Breaks((gone \cup new) \cup diff) <=> Breaks(gone \cup new) \/ Breaks(diff)
    BY UnionFacts, Zenon
  <2>3. Breaks(cs) <=> Breaks(gone) \/ Breaks(diff)
    BY <1>2, <2>1, <2>2, Zenon
  <2> QED
    BY <1>7, <1>12, <2>3, Zenon DEF Kept
<1>16. ASSUME Kept(o, n) PROVE cs = {} <=> Kept(n, o)
  <2>1. cs = {} <=> gone = {} /\ new = {} /\ diff = {}
    BY <1>2, UnionFacts, Zenon
  <2>2. cs = {} <=> DOMAIN n \subseteq DOMAIN o /\ diff = {}
    BY <1>6, <1>16, <2>1, Zenon DEF Kept
  <2>3. \A q \in DOMAIN o \cap DOMAIN n : DiffType(q, o[q], n[q]) = {} <=> TypeKept(n[q], o[q])
    BY <1>9, <1>16, Zenon DEF Kept
  <2> QED
    BY <1>13, <1>16, <2>2, <2>3, Zenon DEF Kept
<1> QED
  BY <1>14, <1>15, <1>16

\* What diff_surface says of two dumps depends only on which of them keeps the other.
LEMMA Verdict ==
    ASSUME NEW o, NEW n, Dumped(o), Dumped(n)
    PROVE  Class(Changes(o, n)) = IF ~Kept(o, n) THEN "breaking"
                                  ELSE IF Kept(n, o) THEN "none" ELSE "major"
<1>1. PICK cs : cs = Changes(o, n)
  OBVIOUS
<1>2. /\ Classified(cs)
      /\ Breaks(cs) <=> ~Kept(o, n)
      /\ Kept(o, n) => (cs = {} <=> Kept(n, o))
  BY <1>1, ChangesFacts, Zenon
<1>3. Class(cs) = IF Breaks(cs) THEN "breaking" ELSE IF cs = {} THEN "none" ELSE "major"
  <2>1. "breaking" \in {c.class : c \in cs} <=> Breaks(cs)
    BY Zenon DEF Breaks
  <2>2. ~Breaks(cs) => ("major" \in {c.class : c \in cs} <=> cs # {})
    BY <1>2, Zenon DEF Breaks, Classified
  <2> QED
    BY <2>1, <2>2, Zenon DEF Class
<1> QED
  BY <1>1, <1>2, <1>3, Zenon

\* IsPrefix is transitive on bodies.
LEMMA PrefixTransitive ==
    ASSUME NEW a, NEW b, NEW c, Body(a), Body(b), Body(c), IsPrefix(a, b), IsPrefix(b, c)
    PROVE  IsPrefix(a, c)
<1>1. PICK i \in Nat, j \in Nat, k \in Nat : i = Len(a) /\ j = Len(b) /\ k = Len(c)
  BY BodyFacts
<1>2. /\ i <= j /\ \A x \in 1 .. i : a[x] = b[x]
      /\ j <= k /\ \A x \in 1 .. j : b[x] = c[x]
  BY <1>1, PrefixIs
<1>3. i <= k /\ \A x \in 1 .. i : a[x] = c[x]
  BY <1>2
<1> QED
  BY <1>1, <1>3, PrefixIs

\* The constants of a body and the rest of it are bodies.
LEMMA RestBody ==
    ASSUME NEW s, Body(s)
    PROVE  /\ Body(Consts(s)) /\ Body(Rest(s))
           /\ Range(Consts(s)) = {m \in Range(s) : m.const}
           /\ Range(Rest(s)) = {m \in Range(s) : ~m.const}
<1>1. PICK c, r : c = {m \in Range(s) : m.const} /\ r = {m \in Range(s) : ~m.const}
  BY Zenon
<1>2. Body(Within(s, c)) /\ Range(Within(s, c)) = Range(s) \cap c
  BY WithinBody, Zenon
<1>3. Body(Within(s, r)) /\ Range(Within(s, r)) = Range(s) \cap r
  BY WithinBody, Zenon
<1>4. Range(s) \cap c = c /\ Range(s) \cap r = r
  BY <1>1, Zenon
<1> QED
  BY <1>1, <1>2, <1>3, <1>4, Zenon DEF Consts, Rest

\* Kept is a preorder: every dump keeps itself ...
LEMMA KeptReflexive ==
    ASSUME NEW t, Dumped(t)
    PROVE  Kept(t, t)
<1>1. ASSUME NEW q \in DOMAIN t PROVE TypeKept(t[q], t[q])
  <2>1. PICK d : d = t[q] /\ Body(d.members)
    BY Zenon DEF Dumped
  <2>2. PICK r : r = Rest(d.members) /\ Body(r)
    BY <2>1, RestBody, Zenon
  <2>3. IsPrefix(r, r)
    BY <2>2, BodyFacts, PrefixIs
  <2>4. BodyKept(d, d)
    BY <2>2, <2>3, Zenon DEF BodyKept
  <2>5. AnnotationsKept(d, d)
    BY Zenon DEF AnnotationsKept
  <2> QED
    BY <2>1, <2>4, <2>5, Zenon DEF TypeKept
<1> QED
  BY <1>1, Zenon DEF Kept

\* ... and what is kept twice is kept.
LEMMA KeptTransitive ==
    ASSUME NEW a, NEW b, NEW c, Dumped(a), Dumped(b), Dumped(c), Kept(a, b), Kept(b, c)
    PROVE  Kept(a, c)
<1>1. ASSUME NEW q \in DOMAIN a PROVE TypeKept(a[q], c[q])
  <2>1. q \in DOMAIN b /\ q \in DOMAIN c /\ TypeKept(a[q], b[q]) /\ TypeKept(b[q], c[q])
    BY <1>1, Zenon DEF Kept
  <2>2. PICK x, y, z : x = a[q] /\ y = b[q] /\ z = c[q]
    OBVIOUS
  <2>3. /\ Body(x.members) /\ Body(y.members) /\ Body(z.members)
        /\ TypeKept(x, y) /\ TypeKept(y, z)
    BY <1>1, <2>1, <2>2, Zenon DEF Dumped
  <2>4. AnnotationsKept(x, z)
    BY <2>3, Zenon DEF TypeKept, AnnotationsKept
  <2>5. BodyKept(x, z)
    <3>1. PICK rx, ry, rz : rx = Rest(x.members) /\ ry = Rest(y.members) /\ rz = Rest(z.members)
      OBVIOUS
    <3>2. Body(rx) /\ Body(ry) /\ Body(rz)
      BY <2>3, <3>1, RestBody, Zenon
    <3>3. x.kind = y.kind /\ y.kind = z.kind /\ BodyKept(x, y) /\ BodyKept(y, z)
      BY <2>3, Zenon DEF TypeKept
    <3>4. CASE x.kind = "enum"
      BY <3>3, <3>4, Zenon DEF BodyKept
    <3>5. CASE x.kind # "enum"
      <4>1. /\ Range(Consts(x.members)) \subseteq Range(Consts(y.members))
            /\ IsPrefix(rx, ry) /\ (x.kind = "union" => rx = ry)
        BY <3>1, <3>3, <3>5, Zenon DEF BodyKept
      <4>2. /\ Range(Consts(y.members)) \subseteq Range(Consts(z.members))
            /\ IsPrefix(ry, rz) /\ (x.kind = "union" => ry = rz)
        BY <3>1, <3>3, <3>5, Zenon DEF BodyKept
      <4>3. IsPrefix(rx, rz)
        BY <3>2, <4>1, <4>2, PrefixTransitive
      <4> QED
        BY <3>1, <3>5, <4>1, <4>2, <4>3, Zenon DEF BodyKept
    <3> QED
      BY <3>4, <3>5, Zenon
  <2> QED
    BY <2>2, <2>3, <2>4, <2>5, Zenon DEF TypeKept
<1> QED
  BY <1>1, Zenon DEF Kept

-----------------------------------------------------------------------------
(* The values of an enum *)

\* The integer of the last value, where it can be derived, and the members so far.
EnumInit == [prev |-> -1, members |-> <<>>]
EnumText == Int \cup {NoInit, Expr}
EnumMember(N) == [name : N, const : {FALSE}, text : EnumText]
EnumAcc(N) == [prev : Int \cup {Expr}, members : Seq(EnumMember(N))]

\* EnumValue goes from accumulator to accumulator.
LEMMA EnumValueType ==
    ASSUME NEW N, NEW r \in EnumAcc(N), NEW v \in EnumMember(N)
    PROVE  EnumValue(r, v) \in EnumAcc(N)
<1>1. /\ r.prev \in Int \cup {Expr} /\ r.members \in Seq(EnumMember(N))
      /\ v.name \in N /\ v.const = FALSE /\ v.text \in Int \cup {NoInit, Expr}
      /\ v = [name |-> v.name, const |-> v.const, text |-> v.text]
  BY Zenon DEF EnumAcc, EnumMember, EnumText
<1> DEFINE p == IF v.text # NoInit THEN v.text ELSE IF r.prev = Expr THEN Expr ELSE r.prev + 1
           w == [v EXCEPT !.text = IF v.text = NoInit /\ p = Expr THEN NoInit ELSE p]
<1>2. EnumValue(r, v) = [prev |-> p, members |-> Append(r.members, w)]
  BY DEF EnumValue
<1>3. p \in Int \cup {Expr}
  BY <1>1
<1> HIDE DEF p
<1>4. w = [name |-> v.name, const |-> v.const, text |-> IF v.text = NoInit /\ p = Expr THEN NoInit ELSE p]
  BY <1>1
<1>5. w \in EnumMember(N)
  BY <1>1, <1>3, <1>4, Zenon DEF EnumMember, EnumText
<1> HIDE DEF w
<1>6. Append(r.members, w) \in Seq(EnumMember(N))
  BY <1>1, <1>5
<1> QED
  BY <1>2, <1>3, <1>6 DEF EnumAcc

\* The run behind _parse_enum_body.
LEMMA EnumRun ==
    ASSUME NEW N, NEW s \in Seq(EnumMember(N))
    PROVE  \E acc : /\ acc[0] = EnumInit /\ _parse_enum_body(s) = acc[Len(s)].members
                    /\ \A i \in 1 .. Len(s) : acc[i] = EnumValue(acc[i - 1], s[i])
<1>1. PICK n \in Nat : n = Len(s) /\ DOMAIN s = 1 .. n /\ \A i \in 1 .. n : s[i] \in EnumMember(N)
  OBVIOUS
<1>2. PICK b, X : b = EnumInit /\ X = EnumAcc(N)
  OBVIOUS
<1>3. b \in X /\ \A i \in 1 .. n : \A r \in X : EnumValue(r, s[i]) \in X
  <2>1. b \in X
    BY <1>2, EmptyFacts DEF EnumInit, EnumAcc
  <2> QED
    BY <1>1, <1>2, <2>1, EnumValueType
<1>4. PICK f : f = FoldLeft(EnumValue, b, s) /\ _parse_enum_body(s) = f.members
  BY <1>2, Zenon DEF _parse_enum_body, EnumInit
<1>5. PICK step \in [1 .. n -> [X -> X]] : step = [i \in 1 .. n |-> [r \in X |-> EnumValue(r, s[i])]]
  BY <1>3, Zenon
<1>6. PICK g : FoldOver(g, X, b, n, step)
  BY <1>3, FoldRuns, Zenon
<1>7. \A t \in SUBSET (1 .. n) : g[t] = IF t = {} THEN b ELSE EnumValue(g[t \ {Max(t)}], s[Max(t)])
  BY <1>5, <1>6, Zenon DEF FoldOver
<1>8. g = [t \in SUBSET (1 .. n) |-> IF t = {} THEN b ELSE EnumValue(g[t \ {Max(t)}], s[Max(t)])]
  BY <1>6, <1>7, Zenon DEF FoldOver
<1>9. PICK h : /\ h = [t \in SUBSET (1 .. n) |->
                         IF t = {} THEN b ELSE EnumValue(h[t \ {Max(t)}], s[Max(t)])]
               /\ f = h[1 .. n]
  BY <1>1, <1>4, <1>8, Zenon DEF FoldLeft, MapThenFoldSet
<1>10. PICK acc : acc = [i \in 0 .. n |-> h[1 .. i]]
  BY Zenon
<1>11. acc[0] = b /\ f = acc[n]
  <2>1. PICK e : e = 1 .. 0 /\ e = {}
    <3>1. 1 .. 0 = {}
      OBVIOUS
    <3> QED
      BY <3>1, Zenon
  <2>2. h[e] = b
    BY <1>9, <2>1
  <2>3. acc[0] = h[e] /\ acc[n] = h[1 .. n]
    BY <1>10, <2>1
  <2> QED
    BY <1>9, <2>2, <2>3
<1>12. ASSUME NEW i \in 1 .. n PROVE acc[i] = EnumValue(acc[i - 1], s[i])
  <2>1. /\ i \in Nat \ {0} /\ i \in 0 .. n /\ i - 1 \in 0 .. n /\ 1 .. i \in SUBSET (1 .. n)
    OBVIOUS
  <2>2. PICK t : t = 1 .. i
    OBVIOUS
  <2>3. t \in SUBSET (1 .. n) /\ t # {} /\ Max(t) = i /\ t \ {i} = 1 .. i - 1
    BY <2>1, <2>2, Upto, Zenon
  <2>4. h[t] = EnumValue(h[t \ {Max(t)}], s[Max(t)])
    BY <1>9, <2>3, Zenon
  <2> QED
    BY <1>10, <2>1, <2>2, <2>3, <2>4, Zenon
<1> QED
  BY <1>1, <1>2, <1>4, <1>11, <1>12

\* A value with an initializer is its own anchor; another has that of the value
\* before it.
LEMMA AnchorSteps ==
    ASSUME NEW body, NEW i \in Nat
    PROVE  /\ Anchor(body, 0) = 0
           /\ i # 0 /\ body[i].text # NoInit => Anchor(body, i) = i
           /\ i # 0 /\ body[i].text = NoInit => Anchor(body, i) = Anchor(body, i - 1)
<1> DEFINE at(k) == {0} \cup {j \in 1 .. k : body[j].text # NoInit}
<1>1. Anchor(body, 0) = 0
  <2>1. at(0) = {0}
    OBVIOUS
  <2> QED
    BY <2>1 DEF Anchor, Max
<1>2. ASSUME i # 0, body[i].text # NoInit PROVE Anchor(body, i) = i
  <2>1. PICK S : S = at(i)
    BY Zenon
  <2>2. i \in S /\ \A y \in S : y \in Nat /\ i >= y
    BY <1>2, <2>1
  <2>3. PICK x : x = Max(S)
    OBVIOUS
  <2>4. x \in S /\ \A y \in S : x >= y
    BY <2>2, <2>3, Zenon DEF Max
  <2>5. x = i
    BY <2>2, <2>4
  <2> QED
    BY <2>1, <2>3, <2>5 DEF Anchor
<1>3. ASSUME i # 0, body[i].text = NoInit PROVE Anchor(body, i) = Anchor(body, i - 1)
  <2>1. \A j : j \in 1 .. i /\ body[j].text # NoInit <=> j \in 1 .. i - 1 /\ body[j].text # NoInit
    BY <1>3
  <2>2. at(i) = at(i - 1)
    BY <2>1, Zenon
  <2> QED
    BY <2>2, Zenon DEF Anchor
<1> QED
  BY <1>1, <1>2, <1>3

\* What the i-th value of an enum's dump carries.
ValueOf(v, body, i) ==
    /\ v.name = body[i].name
    /\ Derivable(body, i) => v.text = IntOf(body, i) /\ IntOf(body, i) \in Int
    /\ ~Derivable(body, i) => v.text \in {NoInit, Expr}

\* Up to the i-th value: where its integer comes from, and the integer itself
\* as prev carries it.
Reckoned(body, i, prev) ==
    /\ Anchor(body, i) \in 0 .. i
    /\ Anchor(body, i) # 0 => body[Anchor(body, i)].text # NoInit
    /\ Derivable(body, i) => prev = IntOf(body, i) /\ IntOf(body, i) \in Int
    /\ ~Derivable(body, i) => prev = Expr

\* EnumValue derives the integer that the compiler counts, or knows that it cannot.
LEMMA EnumValueStep ==
    ASSUME NEW N, NEW r \in EnumAcc(N), NEW body \in Seq(EnumMember(N)), NEW i \in 1 .. Len(body),
           Reckoned(body, i - 1, r.prev)
    PROVE  \E v : /\ EnumValue(r, body[i]).members = Append(r.members, v)
                  /\ v \in EnumMember(N)
                  /\ ValueOf(v, body, i)
                  /\ Reckoned(body, i, EnumValue(r, body[i]).prev)
<1>1. PICK v : v = body[i]
  OBVIOUS
<1>2. /\ v.name \in N /\ v.const = FALSE /\ v.text \in Int \cup {NoInit, Expr}
      /\ v = [name |-> v.name, const |-> v.const, text |-> v.text]
      /\ r.prev \in Int \cup {Expr}
      /\ i \in Nat /\ i # 0 /\ i - 1 \in Nat
      /\ \A j \in 1 .. i : body[j].text \in Int \cup {NoInit, Expr}
  <2>1. \A j \in 1 .. Len(body) : body[j] \in EnumMember(N)
    OBVIOUS
  <2>2. \A j \in 1 .. Len(body) : body[j].text \in Int \cup {NoInit, Expr}
    BY <2>1, Zenon DEF EnumMember, EnumText
  <2>3. i \in Nat /\ i # 0 /\ i - 1 \in Nat /\ \A j \in 1 .. i : j \in 1 .. Len(body)
    OBVIOUS
  <2>4. v \in EnumMember(N)
    BY <1>1, <2>1
  <2>5. /\ v.name \in N /\ v.const = FALSE /\ v.text \in Int \cup {NoInit, Expr}
        /\ v = [name |-> v.name, const |-> v.const, text |-> v.text]
    BY <2>4, Zenon DEF EnumMember, EnumText
  <2>6. r.prev \in Int \cup {Expr}
    BY DEF EnumAcc
  <2> QED
    BY <2>2, <2>3, <2>5, <2>6
<1> DEFINE p == IF v.text # NoInit THEN v.text ELSE IF r.prev = Expr THEN Expr ELSE r.prev + 1
           x == IF v.text = NoInit /\ p = Expr THEN NoInit ELSE p
           w == [v EXCEPT !.text = x]
<1>3. EnumValue(r, body[i]).members = Append(r.members, w) /\ EnumValue(r, body[i]).prev = p
  BY <1>1 DEF EnumValue
<1>4. p \in Int \cup {Expr} /\ x \in EnumText
  BY <1>2 DEF EnumText
<1>5. w = [name |-> v.name, const |-> v.const, text |-> x]
  BY <1>2
<1>6. w \in EnumMember(N) /\ w.name = v.name /\ w.text = x
  BY <1>2, <1>4, <1>5, Zenon DEF EnumMember
<1>7. Reckoned(body, i, p) /\ (Derivable(body, i) => x = p) /\ (~Derivable(body, i) => x \in {NoInit, Expr})
  <2>1. CASE v.text # NoInit
    <3>1. Anchor(body, i) = i
      BY <1>1, <1>2, <2>1, AnchorSteps
    <3>2. p = v.text /\ x = v.text
      <4>1. p = v.text
        BY <2>1
      <4> HIDE DEF p
      <4> QED
        BY <2>1, <4>1
    <3>3. Derivable(body, i) <=> v.text # Expr
      BY <1>1, <1>2, <3>1 DEF Derivable
    <3>4. v.text # Expr => IntOf(body, i) = v.text /\ v.text \in Int
      BY <1>1, <1>2, <2>1, <3>1, SMTT(30) DEF IntOf
    <3> QED
      BY <1>1, <1>2, <2>1, <3>1, <3>2, <3>3, <3>4, SMTT(30) DEF Reckoned
  <2>2. CASE v.text = NoInit
    <3>1. PICK a : a = Anchor(body, i)
      OBVIOUS
    <3>2. a = Anchor(body, i - 1)
      BY <1>1, <1>2, <2>2, <3>1, AnchorSteps
    <3>3. a \in 0 .. i - 1 /\ (a # 0 => body[a].text # NoInit)
      BY <3>2 DEF Reckoned
    <3>4. Derivable(body, i) <=> Derivable(body, i - 1)
      BY <3>1, <3>2, Zenon DEF Derivable
    <3>5. CASE Derivable(body, i)
      <4>1. r.prev = IntOf(body, i - 1) /\ r.prev \in Int
        BY <3>4, <3>5 DEF Reckoned
      <4>2. r.prev # Expr
        BY <4>1, ConstantsAssumption
      <4>3. p = r.prev + 1 /\ p \in Int /\ p # Expr
        BY <2>2, <4>1, <4>2, ConstantsAssumption
      <4>4. x = p
        BY <4>3
      <4>5. IntOf(body, i) = p
        <5>1. CASE a = 0
          <6>1. IntOf(body, i) = i - 1 /\ IntOf(body, i - 1) = (i - 1) - 1
            BY <3>1, <3>2, <5>1, SMTT(30) DEF IntOf
          <6> QED
            BY <1>2, <4>1, <4>3, <6>1, SMTT(30)
        <5>2. CASE a # 0
          <6>1. PICK c : c = body[a].text
            OBVIOUS
          <6>2. c \in Int /\ c # Expr
            <7>1. c \in Int \cup {NoInit, Expr} /\ c # NoInit
              BY <1>2, <3>3, <5>2, <6>1, SMTT(30)
            <7>2. c # Expr
              BY <3>1, <3>5, <5>2, <6>1, SMTT(30) DEF Derivable
            <7> QED
              BY <7>1, <7>2, SMTT(30)
          <6>3. IntOf(body, i) = i - a + c /\ IntOf(body, i - 1) = (i - 1) - a + c
            BY <3>1, <3>2, <5>2, <6>1, <6>2, SMTT(30) DEF IntOf
          <6> QED
            BY <1>2, <3>3, <4>1, <4>3, <6>2, <6>3, SMTT(30)
        <5> QED
          BY <5>1, <5>2
      <4> HIDE DEF p, x
      <4> QED
        BY <1>2, <3>1, <3>3, <3>5, <4>3, <4>4, <4>5 DEF Reckoned
    <3>6. CASE ~Derivable(body, i)
      <4>1. r.prev = Expr
        BY <3>4, <3>6 DEF Reckoned
      <4>2. p = Expr /\ x = NoInit
        BY <2>2, <4>1
      <4> HIDE DEF p, x
      <4> QED
        BY <1>2, <3>1, <3>3, <3>6, <4>2 DEF Reckoned
    <3> QED
      BY <3>5, <3>6
  <2> QED
    BY <2>1, <2>2, SMTT(30)
<1> HIDE DEF p, x, w
<1>8. ValueOf(w, body, i)
  BY <1>1, <1>6, <1>7 DEF ValueOf, Reckoned
<1> QED
  BY <1>3, <1>6, <1>7, <1>8

\* Every value of the run has the integer that the compiler counts.
LEMMA EnumBody ==
    ASSUME NEW N, NEW body \in Seq(EnumMember(N)), NEW es, es = _parse_enum_body(body)
    PROVE  /\ es \in Seq(EnumMember(N)) /\ Len(es) = Len(body)
           /\ \A i \in 1 .. Len(body) : ValueOf(es[i], body, i)
<1>1. PICK acc : /\ acc[0] = EnumInit /\ es = acc[Len(body)].members
                 /\ \A i \in 1 .. Len(body) : acc[i] = EnumValue(acc[i - 1], body[i])
  BY EnumRun
<1>2. PICK n \in Nat : n = Len(body)
  OBVIOUS
<1>3. \A i \in 1 .. n : body[i] \in EnumMember(N)
  BY <1>2
<1> DEFINE T == {i \in 0 .. n : /\ acc[i] \in EnumAcc(N) /\ Len(acc[i].members) = i
                                /\ Reckoned(body, i, acc[i].prev)
                                /\ \A j \in 1 .. i : ValueOf(acc[i].members[j], body, j)}
<1>4. 0 \in T
  <2>1. /\ EnumInit.prev = -1 /\ EnumInit.members = <<>> /\ EnumInit \in EnumAcc(N)
    BY EmptyFacts DEF EnumInit, EnumAcc
  <2>2. Anchor(body, 0) = 0
    BY AnchorSteps
  <2>3. Derivable(body, 0) /\ IntOf(body, 0) = -1
    BY <2>2 DEF Derivable, IntOf
  <2>4. Reckoned(body, 0, -1)
    BY <2>2, <2>3 DEF Reckoned
  <2>5. 0 \in 0 .. n /\ \A j : j \notin 1 .. 0
    BY SMTT(30)
  <2> QED
    BY <1>1, <2>1, <2>4, <2>5, EmptyFacts
<1>5. ASSUME NEW i \in 0 .. n - 1, i \in T PROVE i + 1 \in T
  <2>1. /\ i + 1 \in 1 .. n /\ (i + 1) - 1 = i /\ i + 1 \in 0 .. n
        /\ \A j : j \in 1 .. i + 1 <=> j \in 1 .. i \/ j = i + 1
    OBVIOUS
  <2>2. PICK r, s : r = acc[i] /\ s = acc[i + 1]
    OBVIOUS
  <2>3. /\ r \in EnumAcc(N) /\ Len(r.members) = i
        /\ Reckoned(body, i, r.prev)
        /\ \A j \in 1 .. i : ValueOf(r.members[j], body, j)
    BY <1>5, <2>2
  <2>4. s = EnumValue(r, body[i + 1])
    BY <1>1, <1>2, <2>1, <2>2
  <2>5. s \in EnumAcc(N)
    BY <1>3, <2>1, <2>3, <2>4, EnumValueType, SMTT(30)
  <2>6. PICK v : /\ s.members = Append(r.members, v)
                 /\ v \in EnumMember(N)
                 /\ ValueOf(v, body, i + 1)
                 /\ Reckoned(body, i + 1, s.prev)
    <3>1. PICK k \in 1 .. Len(body) : k = i + 1 /\ Reckoned(body, k - 1, r.prev) /\ s = EnumValue(r, body[k])
      BY <1>2, <2>1, <2>3, <2>4
    <3> QED
      BY <2>3, <3>1, EnumValueStep
  <2>7. r.members \in Seq(EnumMember(N))
    BY <2>3 DEF EnumAcc
  <2>8. /\ Len(s.members) = i + 1
        /\ \A j \in 1 .. i : s.members[j] = r.members[j]
        /\ s.members[i + 1] = v
    BY <2>3, <2>6, <2>7, AppendFacts, SMTT(30)
  <2>9. \A j \in 1 .. i + 1 : ValueOf(s.members[j], body, j)
    BY <2>1, <2>3, <2>6, <2>8
  <2> QED
    BY <2>1, <2>2, <2>5, <2>6, <2>8, <2>9, SMTT(30)
<1>6. n \in T
  <2> HIDE DEF T
  <2>1. 0 .. n \subseteq T
    BY <1>4, <1>5, Induction
  <2> QED
    BY <2>1
<1>7. acc[n].members \in Seq(EnumMember(N))
  BY <1>6 DEF EnumAcc
<1> QED
  BY <1>1, <1>2, <1>6, <1>7

\* It keeps the names apart.
LEMMA EnumBodyIs ==
    ASSUME NEW N, NEW body \in Seq(EnumMember(N)), Body(body)
    PROVE  Body(_parse_enum_body(body))
<1>1. PICK es : es = _parse_enum_body(body)
  OBVIOUS
<1>2. /\ es \in Seq(EnumMember(N)) /\ Len(es) = Len(body)
      /\ \A i \in 1 .. Len(body) : es[i].name = body[i].name
  BY <1>1, EnumBody DEF ValueOf
<1>3. es \in Seq(Range(es))
  BY <1>2, SeqOfRange
<1> QED
  BY <1>1, <1>2, <1>3 DEF Body

\* The integers of an enum that could be derived are those of its dump.
LEMMA EnumKeptServes ==
    ASSUME NEW N, NEW M, NEW o \in Seq(EnumMember(N)), NEW n \in Seq(EnumMember(M)),
           Range(_parse_enum_body(o)) \subseteq Range(_parse_enum_body(n))
    PROVE  DerivableInts(o) \subseteq EnumInts(n)
<1>1. PICK eo, en : eo = _parse_enum_body(o) /\ en = _parse_enum_body(n)
  OBVIOUS
<1>2. /\ eo \in Seq(EnumMember(N)) /\ Len(eo) = Len(o)
      /\ \A i \in 1 .. Len(o) : ValueOf(eo[i], o, i)
  BY <1>1, EnumBody
<1>3. /\ en \in Seq(EnumMember(M)) /\ Len(en) = Len(n)
      /\ \A i \in 1 .. Len(n) : ValueOf(en[i], n, i)
  BY <1>1, EnumBody
<1>4. ASSUME NEW i \in 1 .. Len(o), Derivable(o, i)
      PROVE  \E j \in 1 .. Len(n) : <<o[i].name, IntOf(o, i)>> = <<n[j].name, IntOf(n, j)>>
  <2>1. eo[i].name = o[i].name /\ eo[i].text = IntOf(o, i) /\ IntOf(o, i) \in Int
    BY <1>2, <1>4 DEF ValueOf
  <2>2. eo[i] \in Range(en)
    <3>1. eo[i] \in Range(eo)
      BY <1>2 DEF Range
    <3> QED
      BY <1>1, <3>1
  <2>3. PICK j \in 1 .. Len(n) : en[j] = eo[i]
    BY <1>3, <2>2, SMTT(30) DEF Range
  <2>4. Derivable(n, j)
    BY <1>3, <2>1, <2>3, ConstantsAssumption, SMTT(30) DEF ValueOf
  <2>5. n[j].name = o[i].name /\ IntOf(n, j) = IntOf(o, i)
    BY <1>3, <2>1, <2>3, <2>4 DEF ValueOf
  <2> QED
    BY <2>5
<1>5. DOMAIN o = 1 .. Len(o) /\ DOMAIN n = 1 .. Len(n)
  OBVIOUS
<1> QED
  BY <1>4, <1>5, Zenon DEF DerivableInts, EnumInts

\* An anchor is not behind its value.
LEMMA AnchorRange ==
    ASSUME NEW body, NEW n \in Nat, NEW i \in 0 .. n
    PROVE  Anchor(body, i) \in 0 .. i
<1> DEFINE T == {k \in 0 .. n : Anchor(body, k) \in 0 .. k}
<1>1. 0 \in T
  BY AnchorSteps
<1>2. ASSUME NEW k \in 0 .. n - 1, k \in T PROVE k + 1 \in T
  <2>1. k + 1 \in Nat /\ k + 1 # 0 /\ (k + 1) - 1 = k /\ k + 1 \in 0 .. n /\ Anchor(body, k) \in 0 .. k
    BY <1>2
  <2>2. Anchor(body, k + 1) = k + 1 \/ Anchor(body, k + 1) = Anchor(body, k)
    BY <2>1, AnchorSteps
  <2> QED
    BY <2>1, <2>2
<1>3. 0 .. n \subseteq T
  <2> HIDE DEF T
  <2> QED
    BY <1>1, <1>2, Induction
<1> QED
  BY <1>3

\* Where every integer can be derived, a dump has no more to keep than them.
LEMMA EnumServesKept ==
    ASSUME NEW N, NEW M, NEW o \in Seq(EnumMember(N)), NEW n \in Seq(EnumMember(M)),
           \A i \in 1 .. Len(o) : o[i].text # Expr, \A i \in 1 .. Len(n) : n[i].text # Expr,
           DerivableInts(o) \subseteq EnumInts(n)
    PROVE  Range(_parse_enum_body(o)) \subseteq Range(_parse_enum_body(n))
<1>1. PICK eo, en : eo = _parse_enum_body(o) /\ en = _parse_enum_body(n)
  OBVIOUS
<1>2. /\ eo \in Seq(EnumMember(N)) /\ Len(eo) = Len(o)
      /\ \A i \in 1 .. Len(o) : ValueOf(eo[i], o, i)
  BY <1>1, EnumBody
<1>3. /\ en \in Seq(EnumMember(M)) /\ Len(en) = Len(n)
      /\ \A i \in 1 .. Len(n) : ValueOf(en[i], n, i)
  BY <1>1, EnumBody
<1>4. ASSUME NEW i \in 1 .. Len(o) PROVE Derivable(o, i)
  <2>1. Anchor(o, i) \in 0 .. i
    BY AnchorRange
  <2> QED
    BY <2>1 DEF Derivable
<1>5. ASSUME NEW i \in 1 .. Len(n) PROVE Derivable(n, i)
  <2>1. Anchor(n, i) \in 0 .. i
    BY AnchorRange
  <2> QED
    BY <2>1 DEF Derivable
<1>6. DOMAIN o = 1 .. Len(o) /\ DOMAIN n = 1 .. Len(n) /\ DOMAIN eo = 1 .. Len(o) /\ DOMAIN en = 1 .. Len(n)
  BY <1>2, <1>3
<1>7. ASSUME NEW i \in 1 .. Len(o) PROVE \E j \in 1 .. Len(n) : en[j] = eo[i]
  <2>1. <<o[i].name, IntOf(o, i)>> \in DerivableInts(o)
    BY <1>4, <1>6, Zenon DEF DerivableInts
  <2>2. PICK j \in 1 .. Len(n) : <<o[i].name, IntOf(o, i)>> = <<n[j].name, IntOf(n, j)>>
    BY <1>6, <2>1, Zenon DEF EnumInts
  <2>3. o[i].name = n[j].name /\ IntOf(o, i) = IntOf(n, j)
    BY <2>2
  <2>4. eo[i].name = o[i].name /\ eo[i].text = IntOf(o, i)
    BY <1>2, <1>4 DEF ValueOf
  <2>5. en[j].name = n[j].name /\ en[j].text = IntOf(n, j)
    BY <1>3, <1>5, SMTT(30) DEF ValueOf
  <2>6. eo[i] \in EnumMember(N) /\ en[j] \in EnumMember(M)
    BY <1>2, <1>3
  <2>7. PICK x, y : x = eo[i] /\ y = en[j]
    OBVIOUS
  <2>8. x = y
    <3>1. x = [name |-> x.name, const |-> FALSE, text |-> x.text]
      BY <2>6, <2>7, Zenon DEF EnumMember
    <3>2. y = [name |-> y.name, const |-> FALSE, text |-> y.text]
      BY <2>6, <2>7, Zenon DEF EnumMember
    <3>3. x.name = y.name /\ x.text = y.text
      BY <2>3, <2>4, <2>5, <2>7
    <3> QED
      BY <3>1, <3>2, <3>3, Zenon
  <2> QED
    BY <2>7, <2>8
<1> QED
  BY <1>1, <1>6, <1>7, ZenonT(40) DEF Range

-----------------------------------------------------------------------------
(* Reading a dump back *)

\* A type as a dump holds it, and what a dump of it holds that was cut off
\* after its m-th member.
Typed(t) ==
    /\ t = [kind |-> t.kind, oneway |-> t.oneway, annotations |-> t.annotations, members |-> t.members]
    /\ Body(t.members)

CutType(t, m) ==
    [kind |-> t.kind, oneway |-> t.oneway, annotations |-> t.annotations,
     members |-> SubSeq(t.members, 1, m)]

\* The members of a declaration are a body; those of an enum are enum values.
LEMMA DeclarationFacts ==
    ASSUME NEW d, Declaration(d)
    PROVE  /\ Body(d.members)
           /\ d.kind = "enum" => \E N : d.members \in Seq(EnumMember(N))
<1>1. PICK s : s = d.members
  OBVIOUS
<1>2. s \in Seq(Range(s)) /\ IsInjective([i \in DOMAIN s |-> s[i].name])
  BY <1>1, Zenon DEF Declaration
<1>3. PICK n \in Nat : n = Len(s) /\ DOMAIN s = 1 .. n
  BY <1>2
<1>4. \A i, j \in 1 .. n : s[i].name = s[j].name => i = j
  BY <1>2, <1>3 DEF IsInjective
<1>5. ASSUME d.kind = "enum" PROVE \E N : s \in Seq(EnumMember(N))
  <2>1. PICK N : N = {s[i].name : i \in 1 .. n}
    BY Zenon
  <2>2. ASSUME NEW i \in 1 .. n PROVE s[i] \in EnumMember(N)
    <3>1. PICK v : v = s[i]
      OBVIOUS
    <3>2. /\ v = [name |-> v.name, const |-> v.const, text |-> v.text]
          /\ v.const \in BOOLEAN /\ ~v.const /\ v.text \in Int \cup {NoInit, Expr}
      BY <1>1, <1>3, <1>5, <2>2, <3>1, Zenon DEF Declaration, Statement
    <3>3. v.const = FALSE
      BY <3>2, Zenon
    <3>4. v.name \in N
      BY <2>1, <3>1, Zenon
    <3>5. v \in EnumMember(N)
      BY <3>2, <3>3, <3>4, Zenon DEF EnumMember, EnumText
    <3> QED
      BY <3>1, <3>5
  <2>3. s = [i \in 1 .. n |-> s[i]]
    BY <1>2, <1>3
  <2>4. s \in [1 .. n -> EnumMember(N)]
    BY <2>2, <2>3
  <2>5. s \in Seq(EnumMember(N))
    BY <2>4, SeqDef
  <2> QED
    BY <2>5
<1> QED
  BY <1>1, <1>2, <1>3, <1>4, <1>5, Zenon DEF Body

\* What _parse_type makes of a declaration.
LEMMA ParsedType ==
    ASSUME NEW d, Declaration(d), NEW t, t = _parse_type(d)
    PROVE  /\ Typed(t)
           /\ t.kind = d.kind /\ t.oneway = d.oneway /\ t.annotations = d.annotations
           /\ d.kind = "enum" => t.members = _parse_enum_body(d.members)
           /\ d.kind # "enum" => t.members = d.members
<1>1. /\ d = [kind |-> d.kind, oneway |-> d.oneway, annotations |-> d.annotations, members |-> d.members]
  BY Zenon DEF Declaration
<1>2. CASE d.kind # "enum"
  <2>1. t = d
    BY <1>2, Zenon DEF _parse_type
  <2> QED
    BY <1>1, <1>2, <2>1, DeclarationFacts, Zenon DEF Typed
<1>3. CASE d.kind = "enum"
  <2>1. PICK es : es = _parse_enum_body(d.members)
    OBVIOUS
  <2>2. t = [d EXCEPT !.members = es]
    BY <1>3, <2>1 DEF _parse_type
  <2>3. t = [kind |-> d.kind, oneway |-> d.oneway, annotations |-> d.annotations, members |-> es]
    BY <1>1, <2>2
  <2>4. t.kind = d.kind /\ t.oneway = d.oneway /\ t.annotations = d.annotations /\ t.members = es
    BY <2>3
  <2>5. Body(es)
    BY <1>3, <2>1, DeclarationFacts, EnumBodyIs, Zenon
  <2> QED
    BY <1>3, <2>1, <2>3, <2>4, <2>5, Zenon DEF Typed
<1> QED
  BY <1>2, <1>3

MemberLine(m) == [line |-> "member", member |-> m]

\* The lines of a type with m members.
Block(w, q, t, m, L) ==
    /\ w \in Seq(L) /\ Len(w) = m + 2 /\ m \in Nat
    /\ w[1] = Header(q, t) /\ w[m + 2] = Blank
    /\ \A i \in 1 .. m : w[i + 1] = MemberLine(t.members[i])

\* L has the lines of t.
HasLines(L, q, t) ==
    Header(q, t) \in L /\ Blank \in L /\ \A x \in Range(t.members) : MemberLine(x) \in L

\* The lines of a type, position by position.
LEMMA LinesFacts ==
    ASSUME NEW q, NEW t, Body(t.members), NEW L, HasLines(L, q, t)
    PROVE  Block(Lines(q, t), q, t, Len(t.members), L)
<1> DEFINE m == Len(t.members)
           w == Lines(q, t)
<1>1. PICK s, h, e : s = t.members /\ h = Header(q, t) /\ e = Blank
  OBVIOUS
<1>2. m \in Nat /\ DOMAIN s = 1 .. m /\ \A i \in 1 .. m : s[i] \in Range(s)
  BY <1>1, BodyFacts
<1>3. PICK body : body = [i \in 1 .. m |-> MemberLine(s[i])]
  BY Zenon
<1>4. w = <<h>> \o body \o <<e>>
  BY <1>1, <1>2, <1>3, Zenon DEF Lines, MemberLine
<1> HIDE DEF m, w
<1>5. \A i \in 1 .. m : MemberLine(s[i]) \in L
  BY <1>1, <1>2 DEF HasLines
<1>6. body \in [1 .. m -> L]
  BY <1>3, <1>5
<1>7. body \in Seq(L)
  BY <1>2, <1>6, SeqDef
<1>8. Len(body) = m
  BY <1>2, <1>6, <1>7
<1>9. PICK a, z : a = <<h>> /\ z = <<e>>
  BY Zenon
<1>10. a \in Seq(L) /\ Len(a) = 1 /\ a[1] = h /\ z \in Seq(L) /\ Len(z) = 1 /\ z[1] = e
  BY <1>1, <1>9 DEF HasLines
<1>11. PICK b : b = a \o body
  BY Zenon
<1>12. b \in Seq(L) /\ Len(b) = m + 1 /\ b[1] = h /\ \A i \in 1 .. m : b[i + 1] = body[i]
  <2>1. /\ b \in Seq(L) /\ Len(b) = 1 + m
        /\ \A i \in 1 .. 1 + m : b[i] = IF i <= 1 THEN a[i] ELSE body[i - 1]
    <3>1. /\ b \in Seq(L) /\ Len(b) = Len(a) + Len(body)
          /\ \A i \in 1 .. Len(a) + Len(body) : b[i] = IF i <= Len(a) THEN a[i] ELSE body[i - Len(a)]
      BY <1>7, <1>10, <1>11, ConcatProperties, Zenon
    <3>2. Len(a) = 1 /\ Len(body) = m
      BY <1>8, <1>10, Zenon
    <3> QED
      BY <3>1, <3>2, Zenon
  <2>2. 1 \in 1 .. 1 + m /\ \A i \in 1 .. m : i + 1 \in 1 .. 1 + m /\ ~(i + 1 <= 1) /\ (i + 1) - 1 = i
    BY <1>2
  <2> QED
    BY <1>2, <1>10, <2>1, <2>2
<1>13. /\ w \in Seq(L) /\ Len(w) = m + 2 /\ w[1] = h /\ w[m + 2] = e
       /\ \A i \in 1 .. m : w[i + 1] = b[i + 1]
  BY <1>2, <1>4, <1>9, <1>10, <1>11, <1>12
<1>14. \A i \in 1 .. m : body[i] = MemberLine(s[i])
  BY <1>3
<1>15. Block(w, q, t, m, L)
  BY <1>1, <1>2, <1>12, <1>13, <1>14 DEF Block
<1> QED
  BY <1>15 DEF m, w

\* The types of a dump so far and one more, of which m members were read.
With(types, q, t, m) ==
    [p \in DOMAIN types \cup {q} |-> IF p = q THEN CutType(t, m) ELSE types[p]]

\* A header opens a type without members.
LEMMA HeadStep ==
    ASSUME NEW cur, NEW types, NEW q, NEW t, Body(t.members)
    PROVE  ParseLine([cur |-> cur, types |-> types], Header(q, t))
             = [cur |-> q, types |-> With(types, q, t, 0)]
<1>1. PICK a, l : a = [cur |-> cur, types |-> types] /\ l = Header(q, t)
  BY Zenon
<1>2. /\ a.types = types /\ l.line = "head" /\ l.qname = q /\ l.kind = t.kind
      /\ l.oneway = t.oneway /\ l.annotations = t.annotations
  BY <1>1 DEF Header
<1>3. SubSeq(t.members, 1, 0) = <<>>
  BY SubSeqEmpty
<1>4. CutType(t, 0) = [kind |-> t.kind, oneway |-> t.oneway, annotations |-> t.annotations, members |-> <<>>]
  BY <1>3, Zenon DEF CutType
<1>5. "head" # "member"
  OBVIOUS
<1>6. ParseLine(a, l) = [cur |-> l.qname,
             types |-> [p \in DOMAIN a.types \cup {l.qname} |->
                 IF p = l.qname THEN [kind |-> l.kind, oneway |-> l.oneway,
                                      annotations |-> l.annotations, members |-> <<>>]
                 ELSE a.types[p]]]
  BY <1>2, <1>5 DEF ParseLine
<1> QED
  BY <1>1, <1>2, <1>4, <1>6, Zenon DEF With

\* A blank line changes nothing.
LEMMA BlankStep ==
    ASSUME NEW a
    PROVE  ParseLine(a, Blank) = a
<1>1. Blank.line = "blank" /\ "blank" # "head" /\ "blank" # "member"
  BY DEF Blank
<1> QED
  BY <1>1 DEF ParseLine

\* A member line goes to the open type.
LEMMA MemberStep ==
    ASSUME NEW types, NEW q, NEW t, Body(t.members), NEW m \in 0 .. Len(t.members) - 1
    PROVE  ParseLine([cur |-> q, types |-> With(types, q, t, m)], MemberLine(t.members[m + 1]))
             = [cur |-> q, types |-> With(types, q, t, m + 1)]
<1>1. PICK a, l, x, W : /\ a = [cur |-> q, types |-> W] /\ W = With(types, q, t, m)
                        /\ l = MemberLine(x) /\ x = t.members[m + 1]
  BY Zenon
<1>2. a.cur = q /\ a.types = W /\ l.line = "member" /\ l.member = x /\ "member" # "head"
  BY <1>1, SMTT(30) DEF MemberLine
<1>3. q \in DOMAIN W /\ W[q] = CutType(t, m)
  BY <1>1 DEF With
<1>4. ParseLine(a, l) = [a EXCEPT !.types[a.cur].members = Append(@, l.member)]
  BY <1>2, <1>3 DEF ParseLine
<1>5. ParseLine(a, l) = [cur |-> q, types |-> [W EXCEPT ![q].members = Append(@, x)]]
  BY <1>1, <1>2, <1>4, SMTT(30)
<1>6. PICK s, u : s = SubSeq(t.members, 1, m) /\ u = SubSeq(t.members, 1, m + 1)
  BY Zenon
<1>7. Append(s, x) = u
  <2>1. PICK y : y = t.members
    BY SMTT(30)
  <2>2. y \in Seq(Range(y)) /\ m + 1 \in 1 .. Len(y) /\ m \in Nat
    BY <2>1, BodyFacts DEF Body
  <2> QED
    BY <1>1, <1>6, <2>1, <2>2
<1>8. [CutType(t, m) EXCEPT !.members = Append(@, x)] = CutType(t, m + 1)
  <2>1. PICK k, o, n : k = t.kind /\ o = t.oneway /\ n = t.annotations
    OBVIOUS
  <2>2. /\ CutType(t, m) = [kind |-> k, oneway |-> o, annotations |-> n, members |-> s]
        /\ CutType(t, m + 1) = [kind |-> k, oneway |-> o, annotations |-> n, members |-> u]
    BY <1>6, <2>1, Zenon DEF CutType
  <2>3. PICK c : c = CutType(t, m)
    OBVIOUS
  <2>4. c.members = s /\ [c EXCEPT !.members = u] = CutType(t, m + 1)
    BY <2>2, <2>3
  <2>5. [c EXCEPT !.members = Append(c.members, x)] = CutType(t, m + 1)
    BY <1>7, <2>4, Zenon
  <2> QED
    BY <2>3, <2>5, Zenon
<1>9. [W EXCEPT ![q].members = Append(@, x)] = [W EXCEPT ![q] = [W[q] EXCEPT !.members = Append(@, x)]]
  OBVIOUS
<1>10. [W EXCEPT ![q] = CutType(t, m + 1)] = With(types, q, t, m + 1)
  BY <1>1, Zenon DEF With
<1> QED
  BY <1>1, <1>3, <1>5, <1>8, <1>9, <1>10, Zenon

\* The lines and the parser's states over a set U of names, flags and members.
LineSet(U) ==
    [line : {"head"}, qname : U, kind : U, oneway : U, annotations : U] \cup
    [line : {"member"}, member : U] \cup {Blank}
TypeSet(U) == [kind : U, oneway : U, annotations : U, members : Seq(U)]
TypesSet(U) == UNION {[D -> TypeSet(U)] : D \in SUBSET U}
ParseAcc(U) == [cur : U \cup {Blank}, types : TypesSet(U)]
ParseInit == [cur |-> Blank, types |-> <<>>]

\* The types before the first line.
LEMMA EmptyTypes ==
    ASSUME NEW U
    PROVE  <<>> \in TypesSet(U) /\ DOMAIN <<>> = {}
<1>1. DOMAIN <<>> = {}
  OBVIOUS
<1>2. <<>> \in [{} -> TypeSet(U)]
  OBVIOUS
<1> QED
  BY <1>1, <1>2, Zenon DEF TypesSet

\* ParseLine goes from accumulator to accumulator.
LEMMA ParseLineType ==
    ASSUME NEW U, NEW a \in ParseAcc(U), NEW l \in LineSet(U)
    PROVE  ParseLine(a, l) \in ParseAcc(U)
<1>1. a.cur \in U \cup {Blank} /\ a.types \in TypesSet(U) /\ a = [cur |-> a.cur, types |-> a.types]
  BY DEF ParseAcc
<1>2. PICK D \in SUBSET U : a.types \in [D -> TypeSet(U)]
  BY <1>1, Zenon DEF TypesSet
<1>3. CASE l = Blank
  BY <1>3, BlankStep
<1>4. CASE l \in [line : {"head"}, qname : U, kind : U, oneway : U, annotations : U]
  <2>1. PICK r : r = [kind |-> l.kind, oneway |-> l.oneway, annotations |-> l.annotations, members |-> <<>>]
    BY Zenon
  <2>2. l.line = "head" /\ l.qname \in U /\ r \in TypeSet(U)
    BY <1>4, <2>1, EmptyFacts DEF TypeSet
  <2>3. PICK W : W = [q \in DOMAIN a.types \cup {l.qname} |-> IF q = l.qname THEN r ELSE a.types[q]]
    BY Zenon
  <2>4. ParseLine(a, l) = [cur |-> l.qname, types |-> W]
    BY <2>1, <2>2, <2>3 DEF ParseLine
  <2>5. W \in [D \cup {l.qname} -> TypeSet(U)]
    BY <1>2, <2>2, <2>3
  <2>6. W \in TypesSet(U)
    BY <2>2, <2>5 DEF TypesSet
  <2> QED
    BY <2>2, <2>4, <2>6 DEF ParseAcc
<1>5. CASE l \in [line : {"member"}, member : U]
  <2>1. l.line = "member" /\ l.member \in U /\ "member" # "head"
    BY <1>5
  <2>2. CASE a.cur \notin DOMAIN a.types
    <3>1. ParseLine(a, l) = a
      BY <2>1, <2>2 DEF ParseLine
    <3> QED
      BY <3>1
  <2>3. CASE a.cur \in DOMAIN a.types
    <3>1. PICK c, W, r, x : c = a.cur /\ W = a.types /\ r = W[c] /\ x = l.member
      OBVIOUS
    <3>2. c \in D /\ r \in TypeSet(U) /\ W \in [D -> TypeSet(U)]
      BY <1>2, <2>3, <3>1
    <3>3. PICK s : s = Append(r.members, x)
      BY Zenon
    <3>4. s \in Seq(U)
      BY <2>1, <3>1, <3>2, <3>3 DEF TypeSet
    <3>5. PICK n : n = [r EXCEPT !.members = s]
      BY Zenon
    <3>6. n \in TypeSet(U)
      BY <3>2, <3>4, <3>5, Zenon DEF TypeSet
    <3>7. ParseLine(a, l) = [a EXCEPT !.types[c].members = Append(@, x)]
      BY <2>1, <2>3, <3>1 DEF ParseLine
    <3>8. ParseLine(a, l) = [cur |-> c, types |-> [W EXCEPT ![c].members = Append(@, x)]]
      BY <1>1, <3>1, <3>7, Zenon
    <3>9. [W EXCEPT ![c].members = Append(@, x)] = [W EXCEPT ![c] = [W[c] EXCEPT !.members = Append(@, x)]]
      OBVIOUS
    <3>10. [W[c] EXCEPT !.members = Append(@, x)] = n
      BY <3>1, <3>3, <3>5, Zenon
    <3>11. ParseLine(a, l) = [cur |-> c, types |-> [W EXCEPT ![c] = n]]
      BY <3>8, <3>9, <3>10, Zenon
    <3>12. [W EXCEPT ![c] = n] \in [D -> TypeSet(U)]
      BY <3>2, <3>6
    <3>13. [W EXCEPT ![c] = n] \in TypesSet(U)
      BY <3>12, Zenon DEF TypesSet
    <3> QED
      BY <1>1, <3>1, <3>11, <3>13 DEF ParseAcc
  <2> QED
    BY <2>2, <2>3
<1> QED
  BY <1>3, <1>4, <1>5 DEF LineSet

\* acc holds what was read after each line.
Run(lines, acc) ==
    acc[0] = ParseInit /\ \A i \in 1 .. Len(lines) : acc[i] = ParseLine(acc[i - 1], lines[i])

\* parse_dump is the end of a run with one step per line.
LEMMA ParseRun ==
    ASSUME NEW U, NEW s \in Seq(LineSet(U))
    PROVE  \E acc : Run(s, acc) /\ parse_dump(s) = acc[Len(s)].types
<1>1. PICK n \in Nat : n = Len(s) /\ DOMAIN s = 1 .. n /\ \A i \in 1 .. n : s[i] \in LineSet(U)
  OBVIOUS
<1>2. PICK b, X : b = ParseInit /\ X = ParseAcc(U)
  OBVIOUS
<1>3. b \in X /\ \A i \in 1 .. n : \A r \in X : ParseLine(r, s[i]) \in X
  <2>1. b \in X
    BY <1>2, EmptyTypes DEF ParseInit, ParseAcc
  <2> QED
    BY <1>1, <1>2, <2>1, ParseLineType, SMTT(30)
<1>4. PICK f : f = FoldLeft(ParseLine, b, s) /\ parse_dump(s) = f.types
  BY <1>2, Zenon DEF parse_dump, ParseInit
<1>5. PICK step \in [1 .. n -> [X -> X]] : step = [i \in 1 .. n |-> [r \in X |-> ParseLine(r, s[i])]]
  BY <1>3, Zenon
<1>6. PICK g : FoldOver(g, X, b, n, step)
  BY <1>3, FoldRuns, Zenon
<1>7. \A t \in SUBSET (1 .. n) : g[t] = IF t = {} THEN b ELSE ParseLine(g[t \ {Max(t)}], s[Max(t)])
  BY <1>5, <1>6, Zenon DEF FoldOver
<1>8. g = [t \in SUBSET (1 .. n) |-> IF t = {} THEN b ELSE ParseLine(g[t \ {Max(t)}], s[Max(t)])]
  BY <1>6, <1>7, Zenon DEF FoldOver
<1>9. PICK h : /\ h = [t \in SUBSET (1 .. n) |->
                         IF t = {} THEN b ELSE ParseLine(h[t \ {Max(t)}], s[Max(t)])]
               /\ f = h[1 .. n]
  BY <1>1, <1>4, <1>8, Zenon DEF FoldLeft, MapThenFoldSet
<1>10. PICK acc : acc = [i \in 0 .. n |-> h[1 .. i]]
  BY Zenon
<1>11. acc[0] = b /\ f = acc[n]
  <2>1. PICK e : e = 1 .. 0 /\ e = {}
    <3>1. 1 .. 0 = {}
      OBVIOUS
    <3> QED
      BY <3>1, Zenon
  <2>2. h[e] = b
    BY <1>9, <2>1
  <2>3. acc[0] = h[e] /\ acc[n] = h[1 .. n]
    BY <1>10, <2>1
  <2> QED
    BY <1>9, <2>2, <2>3
<1>12. ASSUME NEW i \in 1 .. n PROVE acc[i] = ParseLine(acc[i - 1], s[i])
  <2>1. /\ i \in Nat \ {0} /\ i \in 0 .. n /\ i - 1 \in 0 .. n /\ 1 .. i \in SUBSET (1 .. n)
    OBVIOUS
  <2>2. PICK t : t = 1 .. i
    OBVIOUS
  <2>3. t \in SUBSET (1 .. n) /\ t # {} /\ Max(t) = i /\ t \ {i} = 1 .. i - 1
    BY <2>1, <2>2, Upto, Zenon
  <2>4. h[t] = ParseLine(h[t \ {Max(t)}], s[Max(t)])
    BY <1>9, <2>3, Zenon
  <2> QED
    BY <1>10, <2>1, <2>2, <2>3, <2>4, Zenon
<1> QED
  BY <1>1, <1>2, <1>4, <1>11, <1>12 DEF Run

\* Two runs over the same beginning agree at its end.
LEMMA RunUnique ==
    ASSUME NEW s, NEW u, NEW a, NEW b, Run(s, a), Run(u, b), NEW k \in Nat,
           Len(s) \in Nat, Len(u) \in Nat, k <= Len(s), k <= Len(u), \A i \in 1 .. k : s[i] = u[i]
    PROVE  a[k] = b[k]
<1> DEFINE T == {i \in 0 .. k : a[i] = b[i]}
<1>1. 0 \in T
  BY DEF Run
<1>2. ASSUME NEW i \in 0 .. k - 1, i \in T PROVE i + 1 \in T
  <2>1. /\ i + 1 \in 1 .. k /\ (i + 1) - 1 = i /\ i + 1 \in 0 .. k
        /\ i + 1 \in 1 .. Len(s) /\ i + 1 \in 1 .. Len(u)
    OBVIOUS
  <2>2. a[i + 1] = ParseLine(a[i], s[i + 1]) /\ b[i + 1] = ParseLine(b[i], u[i + 1])
    BY <2>1 DEF Run
  <2>3. a[i] = b[i] /\ s[i + 1] = u[i + 1]
    BY <1>2, <2>1
  <2> QED
    BY <2>1, <2>2, <2>3
<1>3. 0 .. k \subseteq T
  <2> HIDE DEF T
  <2> QED
    BY <1>1, <1>2, Induction, Zenon
<1> QED
  BY <1>3

\* The lines written after each type of s, up to the whole dump.
WrittenInTurn(types, s) ==
    \E ls : /\ ls[0] = <<>> /\ Written(types) = ls[Len(s)]
            /\ \A j \in 1 .. Len(s) : ls[j] = ls[j - 1] \o Lines(s[j], types[s[j]])

\* Written is the end of a run with one type per step.
LEMMA DumpRun ==
    ASSUME NEW types, NEW D, NEW s \in Seq(D), s = sorted(DOMAIN types),
           NEW L, \A q \in D : Lines(q, types[q]) \in Seq(L)
    PROVE  WrittenInTurn(types, s)
<1> SUFFICES \E ls : /\ ls[0] = <<>> /\ Written(types) = ls[Len(s)]
                     /\ \A j \in 1 .. Len(s) : ls[j] = ls[j - 1] \o Lines(s[j], types[s[j]])
  BY Zenon DEF WrittenInTurn
<1>1. PICK n \in Nat : n = Len(s) /\ DOMAIN s = 1 .. n /\ \A i \in 1 .. n : s[i] \in D
  OBVIOUS
<1>2. PICK b, X : b = <<>> /\ X = Seq(L)
  OBVIOUS
<1> DEFINE op(r, x) == r \o Lines(x, types[x])
<1>3. b \in X /\ \A i \in 1 .. n : \A r \in X : op(r, s[i]) \in X
  <2>1. b \in X
    BY <1>2
  <2>2. ASSUME NEW i \in 1 .. n, NEW r \in X PROVE op(r, s[i]) \in X
    <3>1. PICK w : w = Lines(s[i], types[s[i]])
      OBVIOUS
    <3>2. w \in Seq(L) /\ r \in Seq(L)
      BY <1>1, <1>2, <3>1
    <3>3. r \o w \in Seq(L)
      BY <3>2, ConcatProperties
    <3> QED
      BY <1>2, <3>1, <3>3
  <2> QED
    BY <2>1, <2>2
<1>4. PICK f : f = Written(types) /\ f = FoldLeft(LAMBDA r, x : op(r, x), b, s)
  BY <1>2, Zenon DEF Written
<1> HIDE DEF op
<1>5. PICK step \in [1 .. n -> [X -> X]] : step = [i \in 1 .. n |-> [r \in X |-> op(r, s[i])]]
  BY <1>3, Zenon
<1>6. PICK g : FoldOver(g, X, b, n, step)
  BY <1>3, FoldRuns
<1>7. \A t \in SUBSET (1 .. n) : g[t] = IF t = {} THEN b ELSE op(g[t \ {Max(t)}], s[Max(t)])
  BY <1>5, <1>6, Zenon DEF FoldOver
<1>8. g = [t \in SUBSET (1 .. n) |-> IF t = {} THEN b ELSE op(g[t \ {Max(t)}], s[Max(t)])]
  BY <1>6, <1>7, Zenon DEF FoldOver
<1>9. PICK h : /\ h = [t \in SUBSET (1 .. n) |-> IF t = {} THEN b ELSE op(h[t \ {Max(t)}], s[Max(t)])]
               /\ f = h[1 .. n]
  BY <1>1, <1>4, <1>8, ZenonT(40) DEF FoldLeft, MapThenFoldSet
<1>10. PICK ls : ls = [i \in 0 .. n |-> h[1 .. i]]
  BY Zenon
<1>11. ls[0] = b /\ f = ls[n]
  <2>1. PICK e : e = 1 .. 0 /\ e = {}
    <3>1. 1 .. 0 = {}
      OBVIOUS
    <3> QED
      BY <3>1, Zenon
  <2>2. h[e] = b
    BY <1>9, <2>1
  <2>3. ls[0] = h[e] /\ ls[n] = h[1 .. n]
    BY <1>10, <2>1
  <2> QED
    BY <1>9, <2>2, <2>3
<1>12. ASSUME NEW i \in 1 .. n PROVE ls[i] = op(ls[i - 1], s[i])
  <2>1. /\ i \in Nat \ {0} /\ i \in 0 .. n /\ i - 1 \in 0 .. n /\ 1 .. i \in SUBSET (1 .. n)
    OBVIOUS
  <2>2. PICK t : t = 1 .. i
    OBVIOUS
  <2>3. t \in SUBSET (1 .. n) /\ t # {} /\ Max(t) = i /\ t \ {i} = 1 .. i - 1
    BY <2>1, <2>2, Upto, SMTT(30)
  <2>4. h[t] = op(h[t \ {Max(t)}], s[Max(t)])
    BY <1>9, <2>3, Zenon
  <2> QED
    BY <1>10, <2>1, <2>2, <2>3, <2>4, Zenon
<1> QED
  BY <1>1, <1>2, <1>4, <1>11, <1>12, ZenonT(40) DEF op

\* The position before the last line of a block.
LEMMA LastButOne ==
    ASSUME NEW k \in Nat, NEW m \in Nat
    PROVE  (k + (m + 2)) - 1 = k + 1 + m
OBVIOUS

\* The lines of a type after others.
Joined(all, s, w, k, m, L) ==
    /\ all \in Seq(L) /\ Len(all) = k + m + 2
    /\ \A i \in 1 .. k : all[i] = s[i]
    /\ \A i \in 1 .. m + 2 : all[k + i] = w[i]

\* The lines of two texts, one behind the other.
LEMMA ConcatLines ==
    ASSUME NEW L, NEW s \in Seq(L), NEW w \in Seq(L), NEW k, k = Len(s), NEW m, m \in Nat, Len(w) = m + 2
    PROVE  Joined(s \o w, s, w, k, m, L)
<1>1. PICK all : all = s \o w
  BY Zenon
<1>2. k \in Nat
  OBVIOUS
<1>3. /\ all \in Seq(L) /\ Len(all) = Len(s) + Len(w)
      /\ \A i \in 1 .. Len(s) + Len(w) : all[i] = IF i <= Len(s) THEN s[i] ELSE w[i - Len(s)]
  BY <1>1, ConcatProperties, Zenon
<1>4. \A i \in 1 .. k + (m + 2) : all[i] = IF i <= k THEN s[i] ELSE w[i - k]
  BY <1>3, Zenon
<1>5. Len(all) = k + m + 2
  BY <1>2, <1>3
<1>6. /\ \A i \in 1 .. k : i \in 1 .. k + (m + 2) /\ i <= k
      /\ \A i \in 1 .. m + 2 : k + i \in 1 .. k + (m + 2) /\ ~(k + i <= k) /\ (k + i) - k = i
  BY <1>2
<1>7. \A i \in 1 .. k : all[i] = s[i]
  BY <1>4, <1>6, Zenon
<1>8. ASSUME NEW i \in 1 .. m + 2 PROVE all[k + i] = w[i]
  <2>1. all[k + i] = IF k + i <= k THEN s[k + i] ELSE w[(k + i) - k]
    BY <1>4, <1>6, Zenon
  <2> QED
    BY <1>6, <2>1, Zenon
<1> QED
  BY <1>1, <1>3, <1>5, <1>7, <1>8, Zenon DEF Joined

\* Reading one more type: its header, its members one by one, its empty line.
BlockRead(run, acc, lines, k, types, q, t, m) ==
    /\ Run(lines \o Lines(q, t), run)
    /\ \A i \in 0 .. k : run[i] = acc[i]
    /\ \A i \in 0 .. m : run[k + 1 + i] = [cur |-> q, types |-> With(types, q, t, i)]
    /\ run[k + m + 2] = [cur |-> q, types |-> With(types, q, t, m)]

\* Reading on over the lines of one type adds that type, member by member.
LEMMA BlockRun ==
    ASSUME NEW L, NEW lines \in Seq(L), NEW acc, Run(lines, acc), NEW k, k = Len(lines),
           NEW cur, NEW types, acc[k] = [cur |-> cur, types |-> types],
           NEW q, NEW t, Body(t.members), NEW m, m = Len(t.members), HasLines(L, q, t)
    PROVE  \E run : BlockRead(run, acc, lines, k, types, q, t, m)
<1>1. PICK w : w = Lines(q, t)
  OBVIOUS
<1>2. /\ w \in Seq(L) /\ Len(w) = m + 2 /\ m \in Nat
      /\ w[1] = Header(q, t) /\ w[m + 2] = Blank
      /\ \A i \in 1 .. m : w[i + 1] = MemberLine(t.members[i])
  <2>1. Block(w, q, t, m, L)
    BY <1>1, LinesFacts, Zenon
  <2> QED
    BY <2>1, Zenon DEF Block
<1>3. PICK all : all = lines \o w
  BY Zenon
<1>4. k \in Nat /\ m \in Nat
  BY <1>2
<1>5. /\ Len(all) = k + m + 2
      /\ \A i \in 1 .. k : all[i] = lines[i]
      /\ \A i \in 1 .. m + 2 : all[k + i] = w[i]
  <2>1. Joined(lines \o w, lines, w, k, m, L)
    BY <1>2, ConcatLines, SMTT(30)
  <2> QED
    BY <1>3, <2>1, Zenon DEF Joined
<1> DEFINE st(i) == [cur |-> q, types |-> With(types, q, t, i)]
<1>6. PICK run : run = [i \in 0 .. k + m + 2 |->
                         IF i <= k THEN acc[i] ELSE IF i = k + m + 2 THEN st(m) ELSE st(i - k - 1)]
  BY Zenon
<1> HIDE DEF st
<1>7. \A i \in 0 .. k : run[i] = acc[i]
  BY <1>2, <1>4, <1>6, SMTT(30)
<1>8. \A i \in 0 .. m : run[k + 1 + i] = st(i)
  <2>1. ASSUME NEW i \in 0 .. m PROVE run[k + 1 + i] = st(i)
    <3>1. k + 1 + i \in 0 .. k + m + 2 /\ ~(k + 1 + i <= k) /\ k + 1 + i # k + m + 2 /\ (k + 1 + i) - k - 1 = i
      BY <1>2, <1>4, SMTT(30)
    <3> QED
      BY <1>6, <3>1, SMTT(30)
  <2> QED
    BY <2>1
<1>9. run[k + m + 2] = st(m)
  BY <1>2, <1>4, <1>6, SMTT(30)
<1>10. run[0] = ParseInit
  BY <1>4, <1>7, SMTT(30) DEF Run
<1>11. ASSUME NEW i \in 1 .. Len(all) PROVE run[i] = ParseLine(run[i - 1], all[i])
  <2>1. CASE i <= k
    <3>1. i \in 1 .. k /\ i \in 0 .. k /\ i - 1 \in 0 .. k
      BY <1>4, <2>1, SMTT(30)
    <3>2. acc[i] = ParseLine(acc[i - 1], lines[i])
      BY <3>1, SMTT(30) DEF Run
    <3> QED
      BY <1>5, <1>7, <3>1, <3>2, SMTT(30)
  <2>2. CASE i = k + 1
    <3>1. i = k + 1 + 0 /\ i - 1 = k /\ k \in 0 .. k /\ 0 \in 0 .. m /\ 1 \in 1 .. m + 2
      BY <1>2, <1>4, <2>2, SMTT(30)
    <3>2. run[i] = st(0) /\ run[i - 1] = acc[k] /\ all[i] = Header(q, t)
      BY <1>2, <1>5, <1>7, <1>8, <2>2, <3>1, SMTT(30)
    <3>3. ParseLine([cur |-> cur, types |-> types], Header(q, t)) = st(0)
      BY HeadStep, Zenon DEF st
    <3> QED
      BY <3>2, <3>3, SMTT(30)
  <2>3. CASE i > k + 1 /\ i < k + m + 2
    <3>1. PICK j \in 1 .. m : i = k + 1 + j
      <4>1. i \in Int
        BY <1>4, <1>5
      <4>2. i - k - 1 \in 1 .. m /\ i = k + 1 + (i - k - 1)
        BY <1>4, <2>3, <4>1, SMTT(30)
      <4> QED
        BY <4>2, Zenon
    <3>2. /\ j \in 0 .. m /\ j - 1 \in 0 .. m /\ i - 1 = k + 1 + (j - 1) /\ i = k + (j + 1)
          /\ j + 1 \in 1 .. m + 2 /\ j - 1 \in 0 .. m - 1 /\ (j - 1) + 1 = j
      BY <1>2, <1>4, <3>1, SMTT(30)
    <3>3. run[i] = st(j) /\ run[i - 1] = st(j - 1) /\ all[i] = MemberLine(t.members[j])
      BY <1>2, <1>5, <1>8, <3>1, <3>2, ZenonT(40)
    <3>4. ParseLine(st(j - 1), MemberLine(t.members[j])) = st(j)
      <4>1. PICK x \in 0 .. Len(t.members) - 1 : x = j - 1 /\ x + 1 = j
        BY <3>2
      <4>2. ParseLine(st(x), MemberLine(t.members[x + 1])) = st(x + 1)
        BY MemberStep, Zenon DEF st
      <4> QED
        BY <4>1, <4>2, Zenon
    <3> QED
      BY <3>3, <3>4
  <2>4. CASE i = k + m + 2
    <3>1. i - 1 = k + 1 + m /\ m \in 0 .. m /\ i = k + (m + 2) /\ m + 2 \in 1 .. m + 2
      <4>1. m \in 0 .. m /\ m + 2 \in 1 .. m + 2
        BY <1>4
      <4>2. i = k + (m + 2)
        BY <1>4, <2>4
      <4>3. i - 1 = k + 1 + m
        BY <1>4, <4>2, LastButOne, ZenonT(40)
      <4> QED
        BY <4>1, <4>2, <4>3, Zenon
    <3>2. run[i] = st(m) /\ run[i - 1] = st(m) /\ all[i] = Blank
      BY <1>2, <1>5, <1>8, <1>9, <2>4, <3>1, Zenon
    <3> QED
      BY <3>2, BlankStep, Zenon
  <2>5. Len(all) = k + m + 2
    BY <1>5
  <2>6. i <= k \/ i = k + 1 \/ (i > k + 1 /\ i < k + m + 2) \/ i = k + m + 2
    BY <1>4, <2>5
  <2> QED
    BY <2>1, <2>2, <2>3, <2>4, <2>6, SMTT(30)
<1>12. Run(all, run)
  BY <1>10, <1>11 DEF Run
<1> QED
  BY <1>1, <1>3, <1>7, <1>8, <1>9, <1>12, SMTT(30) DEF st, BlockRead

\* p is what a dump of types holds that was cut off somewhere.
CutOf(p, types) ==
    /\ p = [q \in DOMAIN p |-> p[q]]
    /\ DOMAIN p \subseteq DOMAIN types
    /\ \A q \in DOMAIN p : \E m \in 0 .. Len(types[q].members) : p[q] = CutType(types[q], m)

\* After k lines a part of the types was read, and the whole of them only when
\* the rest is blank.
ReadAfter(lines, acc, types, k) ==
    /\ CutOf(acc[k].types, types)
    /\ acc[k].types = types => \A i \in k + 1 .. Len(lines) : lines[i] = Blank

Reads(lines, acc, types) ==
    /\ Run(lines, acc)
    /\ \E cur : acc[Len(lines)] = [cur |-> cur, types |-> types]
    /\ \A k \in 0 .. Len(lines) : ReadAfter(lines, acc, types, k)

\* Types as parse_aidl makes them.
Parsed(types) ==
    /\ types = [q \in DOMAIN types |-> types[q]]
    /\ \A q \in DOMAIN types : Typed(types[q])

\* A type is cut to itself only if no member is missing.
LEMMA CutWhole ==
    ASSUME NEW t, Typed(t)
    PROVE  /\ CutType(t, Len(t.members)) = t
           /\ Len(t.members) \in Nat
           /\ \A m \in 0 .. Len(t.members) : CutType(t, m) = t => m = Len(t.members)
<1>1. PICK s, n, k, o, a : s = t.members /\ n = Len(s) /\ k = t.kind /\ o = t.oneway /\ a = t.annotations
  BY Zenon
<1>2. /\ t = [kind |-> k, oneway |-> o, annotations |-> a, members |-> s]
      /\ s \in Seq(Range(s)) /\ n \in Nat
  BY <1>1, BodyFacts DEF Typed, Body
<1>3. \A m : CutType(t, m) = [kind |-> k, oneway |-> o, annotations |-> a, members |-> SubSeq(s, 1, m)]
  BY <1>1, Zenon DEF CutType
<1>4. SubSeq(s, 1, n) = s
  BY <1>1, <1>2, SubSeqFull
<1>5. CutType(t, n) = t
  BY <1>2, <1>3, <1>4, Zenon
<1>6. ASSUME NEW m \in 0 .. n, CutType(t, m) = t PROVE m = n
  <2>1. PICK u : u = SubSeq(s, 1, m)
    BY Zenon
  <2>2. u \in Seq(Range(s)) /\ Len(u) = m
    BY <1>1, <1>2, <2>1
  <2>3. CutType(t, m) = [kind |-> k, oneway |-> o, annotations |-> a, members |-> u]
    BY <1>3, <2>1, Zenon
  <2>4. u = s
    BY <1>2, <1>6, <2>3
  <2> QED
    BY <1>1, <2>2, <2>4
<1> QED
  BY <1>1, <1>2, <1>5, <1>6, Zenon

\* No lines read as no types.
LEMMA ReadNone ==
    ASSUME NEW acc, acc = [k \in 0 .. 0 |-> ParseInit]
    PROVE  Reads(<<>>, acc, <<>>)
<1>1. Len(<<>>) = 0 /\ DOMAIN <<>> = {} /\ <<>> = [q \in {} |-> <<>>[q]]
  OBVIOUS
<1>2. acc[0] = ParseInit /\ ParseInit.types = <<>> /\ \A k \in 0 .. 0 : k = 0
  BY DEF ParseInit
<1>3. Run(<<>>, acc)
  BY <1>1, <1>2 DEF Run
<1>4. CutOf(<<>>, <<>>)
  BY <1>1, Zenon DEF CutOf
<1>5. \A i : i \notin 0 + 1 .. 0
  OBVIOUS
<1>6. ReadAfter(<<>>, acc, <<>>, 0)
  BY <1>1, <1>2, <1>4, <1>5, Zenon DEF ReadAfter
<1>7. \E cur : acc[Len(<<>>)] = [cur |-> cur, types |-> <<>>]
  BY <1>1, <1>2, Zenon DEF ParseInit
<1> QED
  BY <1>1, <1>2, <1>3, <1>6, <1>7, Zenon DEF Reads

\* Lines over L that read as these types.
ReadsAs(lines, types, L) ==
    lines \in Seq(L) /\ Parsed(types) /\ \E run : Reads(lines, run, types)

\* Lines that read as some types, and then those of another one, read as them all.
LEMMA ReadMore ==
    ASSUME NEW L, NEW lines, NEW types, ReadsAs(lines, types, L),
           NEW q, q \notin DOMAIN types, NEW t, Typed(t), HasLines(L, q, t),
           NEW more, more = [p \in DOMAIN types \cup {q} |-> IF p = q THEN t ELSE types[p]],
           NEW longer, longer = lines \o Lines(q, t)
    PROVE  ReadsAs(longer, more, L)
<1>a. lines \in Seq(L) /\ Parsed(types)
  BY Zenon DEF ReadsAs
<1>b. PICK acc : Reads(lines, acc, types)
  BY Zenon DEF ReadsAs
<1> USE <1>a, <1>b
<1> SUFFICES /\ \E run : Reads(lines \o Lines(q, t), run, more)
             /\ lines \o Lines(q, t) \in Seq(L)
             /\ Parsed(more)
  BY Zenon DEF ReadsAs
<1>1. PICK k, m : k = Len(lines) /\ m = Len(t.members)
  BY Zenon
<1>2. k \in Nat /\ m \in Nat
  BY <1>1, CutWhole
<1>3. PICK cur : acc[k] = [cur |-> cur, types |-> types]
  BY <1>1, Zenon DEF Reads
<1>4. Body(t.members) /\ Run(lines, acc)
  BY Zenon DEF Typed, Reads
<1>5. PICK run : /\ Run(lines \o Lines(q, t), run)
                 /\ \A i \in 0 .. k : run[i] = acc[i]
                 /\ \A i \in 0 .. m : run[k + 1 + i] = [cur |-> q, types |-> With(types, q, t, i)]
                 /\ run[k + m + 2] = [cur |-> q, types |-> With(types, q, t, m)]
  <2>1. \E run : BlockRead(run, acc, lines, k, types, q, t, m)
    BY <1>1, <1>3, <1>4, BlockRun, Zenon
  <2> QED
    BY <2>1, Zenon DEF BlockRead
<1>6. PICK w, all : w = Lines(q, t) /\ all = lines \o w
  OBVIOUS
<1>7. Block(w, q, t, m, L)
  BY <1>1, <1>4, <1>6, LinesFacts, Zenon
<1>8. all \in Seq(L) /\ Len(all) = k + m + 2 /\ all[k + m + 2] = Blank
  <2>1. w \in Seq(L) /\ Len(w) = m + 2 /\ w[m + 2] = Blank
    BY <1>7, Zenon DEF Block
  <2>2. all \in Seq(L) /\ Len(all) = k + m + 2 /\ \A i \in 1 .. m + 2 : all[k + i] = w[i]
    <3>1. Joined(lines \o w, lines, w, k, m, L)
      BY <1>1, <1>2, <2>1, ConcatLines, Zenon
    <3> QED
      BY <1>6, <3>1, Zenon DEF Joined
  <2>3. m + 2 \in 1 .. m + 2 /\ k + (m + 2) = k + m + 2
    BY <1>2
  <2>4. all[k + (m + 2)] = Blank
    BY <2>1, <2>2, <2>3, Zenon
  <2> QED
    BY <2>2, <2>3, <2>4, Zenon
<1>9. /\ DOMAIN more = DOMAIN types \cup {q} /\ more[q] = t
      /\ \A p \in DOMAIN types : p # q /\ more[p] = types[p]
      /\ more = [p \in DOMAIN more |-> more[p]]
  OBVIOUS
<1>10. Parsed(more)
  BY <1>9, Zenon DEF Parsed
<1>11. With(types, q, t, m) = more
  BY <1>1, CutWhole, Zenon DEF With
<1>12. ASSUME NEW i \in 0 .. k PROVE ReadAfter(all, run, more, i)
  <2>1. PICK p : p = acc[i].types /\ p = run[i].types
    BY <1>5
  <2>2. CutOf(p, types)
    BY <1>1, <2>1, Zenon DEF Reads, ReadAfter
  <2>3. CutOf(p, more)
    BY <1>9, <2>2, Zenon DEF CutOf
  <2>4. p # more
    BY <1>9, <2>2, Zenon DEF CutOf
  <2> QED
    BY <2>1, <2>3, <2>4, ZenonT(40) DEF ReadAfter
<1>13. ASSUME NEW i \in 0 .. m
       PROVE  /\ CutOf(With(types, q, t, i), more)
              /\ With(types, q, t, i) = more => i = m
  <2>1. PICK p : p = With(types, q, t, i)
    OBVIOUS
  <2>2. /\ p = [x \in DOMAIN p |-> p[x]] /\ DOMAIN p = DOMAIN more /\ p[q] = CutType(t, i)
        /\ \A x \in DOMAIN types : p[x] = types[x]
    BY <1>9, <2>1 DEF With
  <2>3. ASSUME NEW x \in DOMAIN p PROVE \E j \in 0 .. Len(more[x].members) : p[x] = CutType(more[x], j)
    <3>1. CASE x = q
      BY <1>1, <1>9, <2>2, <3>1, Zenon
    <3>2. CASE x \in DOMAIN types
      <4>1. Typed(types[x]) /\ p[x] = types[x] /\ more[x] = types[x]
        BY <1>9, <2>2, <3>2, Zenon DEF Parsed
      <4>2. PICK n : n = Len(types[x].members)
        BY Zenon
      <4>3. n \in 0 .. n /\ CutType(types[x], n) = types[x]
        BY <4>1, <4>2, CutWhole
      <4> QED
        BY <4>1, <4>2, <4>3, Zenon
    <3> QED
      BY <1>9, <2>2, <2>3, <3>1, <3>2, Zenon
  <2>4. CutOf(p, more)
    BY <2>2, <2>3, Zenon DEF CutOf
  <2>5. p = more => i = m
    BY <1>1, <1>9, <2>2, CutWhole, Zenon
  <2> QED
    BY <2>1, <2>4, <2>5, Zenon
<1>14. ASSUME NEW i \in 0 .. m PROVE ReadAfter(all, run, more, k + 1 + i)
  <2>1. run[k + 1 + i].types = With(types, q, t, i)
    <3>1. run[k + 1 + i] = [cur |-> q, types |-> With(types, q, t, i)]
      BY <1>5, Zenon
    <3> QED
      BY <3>1
  <2>2. \A x \in k + 1 + m + 1 .. k + m + 2 : x = k + m + 2
    BY <1>2
  <2> QED
    BY <1>8, <1>13, <2>1, <2>2, ZenonT(40) DEF ReadAfter
<1>15. ReadAfter(all, run, more, k + m + 2)
  <2>1. run[k + m + 2].types = With(types, q, t, m)
    BY <1>5
  <2>2. m \in 0 .. m /\ \A x : x \notin k + m + 2 + 1 .. k + m + 2
    BY <1>2
  <2> QED
    BY <1>8, <1>13, <2>1, <2>2, ZenonT(40) DEF ReadAfter
<1>16. ASSUME NEW i \in 0 .. k + m + 2
       PROVE  i \in 0 .. k \/ (\E j \in 0 .. m : i = k + 1 + j) \/ i = k + m + 2
  <2>1. i \in 0 .. k \/ i - k - 1 \in 0 .. m \/ i = k + m + 2
    BY <1>2
  <2>2. i = k + 1 + (i - k - 1)
    BY <1>2
  <2> QED
    BY <2>1, <2>2, Zenon
<1>17. Reads(all, run, more)
  <2>1. \A i \in 0 .. k + m + 2 : ReadAfter(all, run, more, i)
    BY <1>12, <1>14, <1>15, <1>16, Zenon
  <2> QED
    BY <1>5, <1>6, <1>8, <1>11, <2>1, Zenon DEF Reads
<1> QED
  BY <1>6, <1>8, <1>10, <1>17, Zenon

\* All lines of a dump lie in one set.
LEMMA HasAllLines ==
    ASSUME NEW types
    PROVE  \E U : \A q \in DOMAIN types : HasLines(LineSet(U), q, types[q])
<1> DEFINE D == DOMAIN types
           U == D \cup {types[q].kind : q \in D} \cup {types[q].oneway : q \in D}
                  \cup {types[q].annotations : q \in D} \cup UNION {Range(types[q].members) : q \in D}
<1>1. ASSUME NEW q \in D PROVE HasLines(LineSet(U), q, types[q])
  <2>1. PICK t : t = types[q]
    OBVIOUS
  <2>2. /\ q \in U /\ t.kind \in U /\ t.oneway \in U /\ t.annotations \in U
        /\ \A x \in Range(t.members) : x \in U
    BY <2>1, Zenon
  <2> HIDE DEF U, D
  <2>3. Header(q, t) \in LineSet(U)
    BY <2>2 DEF Header, LineSet
  <2>4. \A x \in Range(t.members) : MemberLine(x) \in LineSet(U)
    BY <2>2 DEF MemberLine, LineSet
  <2>5. Blank \in LineSet(U)
    BY Zenon DEF LineSet
  <2> QED
    BY <2>1, <2>3, <2>4, <2>5, Zenon DEF HasLines
<1> HIDE DEF U
<1> QED
  BY <1>1

\* What dump_surface writes reads as the types it was given.
LEMMA DumpReads ==
    ASSUME NEW types, Parsed(types), Enumerates(sorted(DOMAIN types), DOMAIN types)
    PROVE  \E U : ReadsAs(Written(types), types, LineSet(U))
<1>1. PICK D, s : D = DOMAIN types /\ s = sorted(D)
  BY SMTT(30)
<1>2. PICK U : \A q \in D : HasLines(LineSet(U), q, types[q])
  BY <1>1, HasAllLines
<1>3. PICK L : L = LineSet(U)
  OBVIOUS
<1>4. /\ s \in Seq(D) /\ D = {s[i] : i \in 1 .. Len(s)}
      /\ \A i, j \in 1 .. Len(s) : s[i] = s[j] => i = j
  <2>1. Enumerates(s, D)
    BY <1>1, Zenon
  <2> QED
    BY <2>1, Zenon DEF Enumerates
<1>5. PICK n \in Nat : n = Len(s) /\ \A i \in 1 .. n : s[i] \in D
  BY <1>4
<1>6. ASSUME NEW q \in D PROVE Typed(types[q]) /\ Body(types[q].members) /\ HasLines(L, q, types[q])
  BY <1>1, <1>2, <1>3, Zenon DEF Parsed, Typed
<1>7. ASSUME NEW q \in D PROVE Lines(q, types[q]) \in Seq(L)
  BY <1>6, LinesFacts, Zenon DEF Block
<1>8. PICK ls : /\ ls[0] = <<>> /\ Written(types) = ls[n]
                /\ \A j \in 1 .. n : ls[j] = ls[j - 1] \o Lines(s[j], types[s[j]])
  <2>1. s \in Seq(D) /\ s = sorted(DOMAIN types)
    BY <1>1, <1>4, Zenon
  <2>2. \A q \in D : Lines(q, types[q]) \in Seq(L)
    BY <1>7, Zenon
  <2>3. WrittenInTurn(types, s)
    BY <2>1, <2>2, DumpRun, Zenon
  <2> QED
    BY <1>5, <2>3, Zenon DEF WrittenInTurn
<1> DEFINE Sub(j) == [p \in {s[i] : i \in 1 .. j} |-> types[p]]
           T == {j \in 0 .. n : ReadsAs(ls[j], Sub(j), L)}
<1>9. 0 \in T
  <2>1. {s[i] : i \in 1 .. 0} = {}
    OBVIOUS
  <2>2. Sub(0) = <<>>
    <3>1. Sub(0) = [p \in {} |-> types[p]]
      BY <2>1, Zenon
    <3>2. [p \in {} |-> types[p]] = <<>>
      OBVIOUS
    <3> QED
      BY <3>1, <3>2, Zenon
  <2>3. <<>> \in Seq(L)
    BY EmptyFacts
  <2>4. DOMAIN <<>> = {} /\ <<>> = [q \in {} |-> <<>>[q]]
    OBVIOUS
  <2>5. Parsed(<<>>)
    BY <2>4, Zenon DEF Parsed
  <2>6. \E run : Reads(<<>>, run, <<>>)
    BY ReadNone, Zenon
  <2>7. 0 \in 0 .. n
    OBVIOUS
  <2> HIDE DEF Sub
  <2> QED
    BY <1>8, <2>2, <2>3, <2>5, <2>6, <2>7, Zenon DEF ReadsAs
<1>10. ASSUME NEW j \in 0 .. n - 1, j \in T PROVE j + 1 \in T
  <2>1. /\ j + 1 \in 1 .. n /\ (j + 1) - 1 = j /\ j + 1 \in 0 .. n
        /\ \A i : i \in 1 .. j + 1 <=> i \in 1 .. j \/ i = j + 1
        /\ \A i \in 1 .. j : i \in 1 .. n /\ i # j + 1
    OBVIOUS
  <2>2. PICK q, t, sub, more : q = s[j + 1] /\ t = types[q] /\ sub = Sub(j) /\ more = Sub(j + 1)
    BY Zenon
  <2>3. PICK lines, longer : lines = ls[j] /\ longer = ls[j + 1] /\ ReadsAs(lines, sub, L)
    BY <1>10, <2>2, Zenon
  <2>4. DOMAIN sub = {s[i] : i \in 1 .. j} /\ \A p \in DOMAIN sub : sub[p] = types[p]
    BY <2>2, Zenon
  <2>5. q \in D /\ q \notin DOMAIN sub
    BY <1>4, <1>5, <2>1, <2>2, <2>4
  <2>6. {s[i] : i \in 1 .. j + 1} = DOMAIN sub \cup {q}
    BY <2>1, <2>2, <2>4, Zenon
  <2>7. more = [p \in DOMAIN sub \cup {q} |-> IF p = q THEN t ELSE sub[p]]
    <3>1. more = [p \in DOMAIN sub \cup {q} |-> types[p]]
      BY <2>2, <2>6, ZenonT(40)
    <3> HIDE DEF Sub, T
    <3> QED
      BY <2>2, <2>4, <3>1
  <2>8. longer = lines \o Lines(q, t)
    BY <1>8, <2>1, <2>2, <2>3, Zenon
  <2>9. Typed(t) /\ HasLines(L, q, t)
    BY <1>6, <2>2, <2>5, Zenon
  <2> HIDE DEF Sub
  <2>10. ReadsAs(longer, more, L)
    BY <2>3, <2>5, <2>7, <2>8, <2>9, ReadMore, Zenon
  <2> QED
    BY <2>1, <2>2, <2>3, <2>10, Zenon
<1>11. n \in T
  <2> HIDE DEF T
  <2>1. 0 .. n \subseteq T
    BY <1>9, <1>10, Induction
  <2> QED
    BY <2>1
<1>12. Sub(n) = types
  BY <1>1, <1>4, <1>5, Zenon DEF Parsed
<1> HIDE DEF Sub
<1> QED
  BY <1>3, <1>8, <1>11, <1>12, Zenon

\* A dump of these types, by what parse_dump makes of it and of its beginnings.
DumpOf(dump, types) ==
    /\ Len(dump) \in Nat
    /\ parse_dump(dump) = types
    /\ \A k \in 0 .. Len(dump) : \A p : p = parse_dump(SubSeq(dump, 1, k)) =>
         /\ CutOf(p, types)
         /\ p = types => \A i \in k + 1 .. Len(dump) : dump[i] = Blank

\* parse_dump reads a dump back as the types it was written from; of a dump
\* that was cut off it reads a part of them, and never all while a line that is
\* not blank is missing.
LEMMA ReadBack ==
    ASSUME NEW U, NEW lines, NEW types, ReadsAs(lines, types, LineSet(U))
    PROVE  DumpOf(lines, types)
<1>1. PICK run : lines \in Seq(LineSet(U)) /\ Reads(lines, run, types)
  BY Zenon DEF ReadsAs
<1>2. PICK n \in Nat : n = Len(lines) /\ DOMAIN lines = 1 .. n /\ \A i \in 1 .. n : lines[i] \in LineSet(U)
  BY <1>1
<1>3. Run(lines, run) /\ \A k \in 0 .. n : ReadAfter(lines, run, types, k)
  BY <1>1, <1>2, Zenon DEF Reads
<1>4. run[n].types = types
  <2>1. PICK cur : run[n] = [cur |-> cur, types |-> types]
    BY <1>1, <1>2, Zenon DEF Reads
  <2> QED
    BY <2>1
<1>5. ASSUME NEW k \in 0 .. n, NEW cut \in Seq(LineSet(U)), Len(cut) = k, \A i \in 1 .. k : cut[i] = lines[i]
      PROVE  parse_dump(cut) = run[k].types
  <2>1. PICK acc : Run(cut, acc) /\ parse_dump(cut) = acc[Len(cut)].types
    BY ParseRun, Zenon
  <2>2. k \in Nat /\ Len(lines) \in Nat /\ Len(cut) \in Nat /\ k <= Len(lines) /\ k <= Len(cut)
    BY <1>2, <1>5
  <2>3. acc[k] = run[k]
    BY <1>3, <1>5, <2>1, <2>2, RunUnique
  <2> QED
    BY <1>5, <2>1, <2>3, Zenon
<1>6. parse_dump(lines) = types
  <2>1. n \in 0 .. n
    OBVIOUS
  <2> QED
    BY <1>1, <1>2, <1>4, <1>5, <2>1, Zenon
<1>7. ASSUME NEW k \in 0 .. n, NEW p, p = parse_dump(SubSeq(lines, 1, k))
      PROVE  /\ CutOf(p, types)
             /\ p = types => \A i \in k + 1 .. n : lines[i] = Blank
  <2>1. PICK cut : cut = SubSeq(lines, 1, k)
    BY Zenon
  <2>2. cut \in Seq(LineSet(U)) /\ Len(cut) = k /\ \A i \in 1 .. k : cut[i] = lines[i]
    BY <1>1, <1>2, <2>1
  <2>3. p = run[k].types
    BY <1>5, <1>7, <2>1, <2>2, Zenon
  <2> QED
    BY <1>2, <1>3, <2>3, Zenon DEF ReadAfter
<1> QED
  BY <1>2, <1>6, <1>7, Zenon DEF DumpOf

\* parse_aidl's types are as the dump expects them, and can be sorted.
LEMMA ParsedTree ==
    ASSUME NEW t \in Trees, NEW types, types = parse_aidl(t)
    PROVE  /\ Parsed(types) /\ DOMAIN types = DOMAIN t
           /\ Enumerates(sorted(DOMAIN types), DOMAIN types)
<1>1. DOMAIN types = DOMAIN t /\ types = [q \in DOMAIN types |-> types[q]]
  BY Zenon DEF parse_aidl
<1>2. Enumerates(sorted(DOMAIN t), DOMAIN t) /\ \A q \in DOMAIN t : Declaration(t[q])
  BY TreesAssumption, Zenon
<1>3. ASSUME NEW q \in DOMAIN t PROVE Typed(types[q])
  <2>1. types[q] = _parse_type(t[q])
    BY Zenon DEF parse_aidl
  <2> QED
    BY <1>2, <2>1, ParsedType, Zenon
<1> QED
  BY <1>1, <1>2, <1>3, Zenon DEF Parsed

\* The same for the dump of a tree.
LEMMA RoundTrip ==
    ASSUME NEW t \in Trees, NEW types, types = parse_aidl(t), NEW dump, dump = dump_surface(t)
    PROVE  Parsed(types) /\ DumpOf(dump, types)
<1>1. Parsed(types) /\ Enumerates(sorted(DOMAIN types), DOMAIN types)
  BY ParsedTree, Zenon
<1>2. dump = Written(types)
  BY Zenon DEF dump_surface
<1>3. PICK U : ReadsAs(Written(types), types, LineSet(U))
  BY <1>1, DumpReads, Zenon
<1>4. ReadsAs(dump, types, LineSet(U))
  BY <1>2, <1>3, Zenon
<1> QED
  BY <1>1, <1>4, ReadBack, Zenon

\* A type that is kept keeps each of its members.
LEMMA KeptMembers ==
    ASSUME NEW o, NEW n, Body(o.members), Body(n.members), BodyKept(o, n)
    PROVE  Range(o.members) \subseteq Range(n.members)
<1>1. CASE o.kind = "enum"
  BY <1>1, Zenon DEF BodyKept
<1>2. CASE o.kind # "enum"
  <2>1. PICK a, b : a = o.members /\ b = n.members /\ Body(a) /\ Body(b)
    OBVIOUS
  <2>2. /\ Range(Consts(a)) \subseteq Range(Consts(b)) /\ IsPrefix(Rest(a), Rest(b))
    BY <1>2, <2>1, Zenon DEF BodyKept
  <2>3. /\ Body(Rest(a)) /\ Range(Consts(a)) = {m \in Range(a) : m.const}
        /\ Range(Rest(a)) = {m \in Range(a) : ~m.const}
    BY <2>1, RestBody, Zenon
  <2>4. /\ Body(Rest(b)) /\ Range(Consts(b)) = {m \in Range(b) : m.const}
        /\ Range(Rest(b)) = {m \in Range(b) : ~m.const}
    BY <2>1, RestBody, Zenon
  <2>5. Range(Rest(a)) \subseteq Range(Rest(b))
    BY <2>2, <2>3, <2>4, PrefixRange, Zenon
  <2>6. ASSUME NEW x \in Range(a) PROVE x \in Range(b)
    BY <2>2, <2>3, <2>4, <2>5, Zenon
  <2> QED
    BY <2>1, <2>6, Zenon
<1> QED
  BY <1>1, <1>2

\* A body that was cut is a body still, and the first member cut off is in none
\* of what is left.
LEMMA CutBody ==
    ASSUME NEW s, Body(s), NEW m \in 0 .. Len(s), NEW c, c = SubSeq(s, 1, m)
    PROVE  Body(c) /\ (m # Len(s) => ~(Range(s) \subseteq Range(c)))
<1>1. PICK n \in Nat : n = Len(s) /\ DOMAIN s = 1 .. n /\ s \in Seq(Range(s)) /\ m \in 0 .. n /\ m \in Nat
  BY BodyFacts DEF Body
<1>2. Len(c) = m /\ DOMAIN c = 1 .. m /\ c \in Seq(Range(s)) /\ \A i \in 1 .. m : c[i] = s[i] /\ i \in 1 .. n
  BY <1>1
<1>3. Range(c) = {s[i] : i \in 1 .. m}
  BY <1>2, Zenon DEF Range
<1>4. \A i, j \in 1 .. n : s[i].name = s[j].name => i = j
  BY <1>1, Zenon DEF Body
<1>5. Body(c)
  <2>1. c \in Seq(Range(c))
    <3>0. Range(c) = {c[i] : i \in 1 .. m}
      BY <1>2, Zenon DEF Range
    <3>1. PICK R : R = Range(c) /\ \A i \in 1 .. m : c[i] \in R
      BY <3>0, SMT
    <3>2. c \in Seq(R)
      BY <1>1, <1>2, <3>1
    <3> QED
      BY <3>1, <3>2, Zenon
  <2>2. \A i, j \in 1 .. m : c[i].name = c[j].name => i = j
    BY <1>2, <1>4
  <2>3. \A i, j \in 1 .. Len(c) : c[i].name = c[j].name => i = j
    BY <1>2, <2>2, Zenon
  <2> QED
    BY <2>1, <2>3, Zenon DEF Body
<1>6. ASSUME m # n PROVE \E x \in Range(s) : x \notin Range(c)
  <2>1. m + 1 \in 1 .. n /\ \A i \in 1 .. m : i # m + 1
    BY <1>1, <1>6
  <2>2. s[m + 1] \in Range(s)
    BY <1>1, <2>1, Zenon DEF Range
  <2>3. \A i \in 1 .. m : s[i] # s[m + 1]
    BY <1>2, <1>4, <2>1, Zenon
  <2> QED
    BY <1>3, <2>2, <2>3, Zenon
<1> QED
  BY <1>1, <1>5, <1>6, Zenon

\* What is read from a cut dump does not keep the types unless it is them.
LEMMA CutLost ==
    ASSUME NEW types, Parsed(types), NEW p, CutOf(p, types)
    PROVE  Dumped(types) /\ Dumped(p) /\ (p # types => ~Kept(types, p))
<1>1. ASSUME NEW q \in DOMAIN types PROVE Typed(types[q]) /\ Body(types[q].members)
  BY Zenon DEF Parsed, Typed
<1>2. ASSUME NEW q \in DOMAIN p
      PROVE  /\ q \in DOMAIN types /\ Body(p[q].members)
             /\ p[q] # types[q] => ~(Range(types[q].members) \subseteq Range(p[q].members))
  <2>1. PICK t : t = types[q] /\ q \in DOMAIN types
    BY Zenon DEF CutOf
  <2>2. PICK m \in 0 .. Len(t.members) : p[q] = CutType(t, m)
    BY <2>1, Zenon DEF CutOf
  <2>3. Typed(t) /\ Body(t.members)
    BY <1>1, <2>1, Zenon
  <2>4. CutType(t, Len(t.members)) = t
    BY <2>3, CutWhole, Zenon
  <2>5. PICK s, c : s = t.members /\ c = SubSeq(s, 1, m)
    BY Zenon
  <2>6. p[q].members = c
    BY <2>2, <2>5 DEF CutType
  <2>7. Body(c) /\ (m # Len(s) => ~(Range(s) \subseteq Range(c)))
    BY <2>2, <2>3, <2>5, CutBody, Zenon
  <2> QED
    BY <2>1, <2>2, <2>4, <2>5, <2>6, <2>7, Zenon
<1>3. Dumped(types) /\ Dumped(p)
  BY <1>1, <1>2, Zenon DEF Dumped
<1>4. ASSUME p # types, Kept(types, p) PROVE FALSE
  <2>1. DOMAIN types = DOMAIN p
    BY <1>2, <1>4, Zenon DEF Kept
  <2>2. PICK q \in DOMAIN p : p[q] # types[q]
    <3>1. p = [q \in DOMAIN p |-> p[q]] /\ types = [q \in DOMAIN p |-> types[q]]
      BY <2>1, Zenon DEF CutOf, Parsed
    <3> QED
      BY <1>4, <3>1, Zenon
  <2>3. PICK o, n : o = types[q] /\ n = p[q]
    OBVIOUS
  <2>4. Body(o.members) /\ Body(n.members) /\ BodyKept(o, n)
    BY <1>1, <1>2, <1>4, <2>2, <2>3, Zenon DEF Kept, TypeKept
  <2>5. Range(o.members) \subseteq Range(n.members)
    BY <2>4, KeptMembers, Zenon
  <2> QED
    BY <1>2, <2>2, <2>3, <2>5, Zenon
<1> QED
  BY <1>3, <1>4, Zenon

\* What diff_surface says of two dumps, by what the types they were written from keep.
LEMMA DiffIs ==
    ASSUME NEW old, NEW new, NEW o, NEW n, parse_dump(old) = o, parse_dump(new) = n, Dumped(o), Dumped(n)
    PROVE  /\ diff_surface(old, new) = "breaking" <=> ~Kept(o, n)
           /\ diff_surface(old, new) = "none" <=> Kept(o, n) /\ Kept(n, o)
           /\ diff_surface(old, new) = "major" <=> Kept(o, n) /\ ~Kept(n, o)
<1>1. PICK v : v = diff_surface(old, new)
  OBVIOUS
<1>2. v = Class(Changes(o, n))
  BY <1>1, Zenon DEF diff_surface
<1>3. v = IF ~Kept(o, n) THEN "breaking" ELSE IF Kept(n, o) THEN "none" ELSE "major"
  BY <1>2, Verdict, Zenon
<1>4. "breaking" # "none" /\ "breaking" # "major" /\ "none" # "major"
  OBVIOUS
<1>5. CASE ~Kept(o, n)
  <2>1. v = "breaking"
    BY <1>3, <1>5, Zenon
  <2> QED
    BY <1>1, <1>4, <1>5, <2>1, Zenon
<1>6. CASE Kept(o, n) /\ Kept(n, o)
  <2>1. v = "none"
    BY <1>3, <1>6, Zenon
  <2> QED
    BY <1>1, <1>4, <1>6, <2>1, Zenon
<1>7. CASE Kept(o, n) /\ ~Kept(n, o)
  <2>1. v = "major"
    BY <1>3, <1>7, Zenon
  <2> QED
    BY <1>1, <1>4, <1>7, <2>1, Zenon
<1> QED
  BY <1>5, <1>6, <1>7, Zenon

\* A type whose dump is kept serves its clients.
LEMMA TypeKeptServes ==
    ASSUME NEW d, NEW e, Declaration(d), Declaration(e), TypeKept(_parse_type(d), _parse_type(e))
    PROVE  TypeServes(d, e)
<1>1. PICK o, n : o = _parse_type(d) /\ n = _parse_type(e) /\ TypeKept(o, n)
  OBVIOUS
<1>2. /\ o.kind = d.kind /\ o.oneway = d.oneway /\ o.annotations = d.annotations
      /\ d.kind = "enum" => o.members = _parse_enum_body(d.members)
      /\ d.kind # "enum" => o.members = d.members
  BY <1>1, ParsedType, Zenon
<1>3. /\ n.kind = e.kind /\ n.oneway = e.oneway /\ n.annotations = e.annotations
      /\ e.kind = "enum" => n.members = _parse_enum_body(e.members)
      /\ e.kind # "enum" => n.members = e.members
  BY <1>1, ParsedType, Zenon
<1>4. /\ d.kind = e.kind /\ d.oneway = e.oneway
      /\ d.annotations \subseteq e.annotations
      /\ e.annotations \ d.annotations \subseteq {VintfStability}
  BY <1>1, <1>2, <1>3, Zenon DEF TypeKept, AnnotationsKept
<1>5. CASE d.kind = "enum"
  <2>1. Range(_parse_enum_body(d.members)) \subseteq Range(_parse_enum_body(e.members))
    BY <1>1, <1>2, <1>3, <1>4, <1>5, Zenon DEF TypeKept, BodyKept
  <2>2. PICK N, M : d.members \in Seq(EnumMember(N)) /\ e.members \in Seq(EnumMember(M))
    BY <1>4, <1>5, DeclarationFacts, Zenon
  <2>3. DerivableInts(d.members) \subseteq EnumInts(e.members)
    BY <2>1, <2>2, EnumKeptServes, Zenon
  <2> QED
    BY <1>4, <1>5, <2>3, Zenon DEF TypeServes
<1>6. CASE d.kind # "enum"
  <2>1. /\ Range(Consts(d.members)) \subseteq Range(Consts(e.members))
        /\ IsPrefix(Rest(d.members), Rest(e.members))
        /\ d.kind = "union" => Rest(d.members) = Rest(e.members)
    BY <1>1, <1>2, <1>3, <1>4, <1>6, Zenon DEF TypeKept, BodyKept
  <2> QED
    BY <1>4, <1>6, <2>1, Zenon DEF TypeServes
<1> QED
  BY <1>5, <1>6

\* Where every enum integer is derivable, a type that serves its clients has a dump that is kept.
LEMMA TypeServesKept ==
    ASSUME NEW d, NEW e, Declaration(d), Declaration(e), TypeServes(d, e),
           \A i \in DOMAIN d.members : d.members[i].text # Expr,
           \A i \in DOMAIN e.members : e.members[i].text # Expr
    PROVE  TypeKept(_parse_type(d), _parse_type(e))
<1>1. PICK o, n : o = _parse_type(d) /\ n = _parse_type(e)
  OBVIOUS
<1>2. /\ o.kind = d.kind /\ o.oneway = d.oneway /\ o.annotations = d.annotations
      /\ d.kind = "enum" => o.members = _parse_enum_body(d.members)
      /\ d.kind # "enum" => o.members = d.members
  BY <1>1, ParsedType, Zenon
<1>3. /\ n.kind = e.kind /\ n.oneway = e.oneway /\ n.annotations = e.annotations
      /\ e.kind = "enum" => n.members = _parse_enum_body(e.members)
      /\ e.kind # "enum" => n.members = e.members
  BY <1>1, ParsedType, Zenon
<1>4. /\ d.kind = e.kind /\ o.kind = n.kind /\ o.oneway = n.oneway
      /\ AnnotationsKept(o, n)
  BY <1>2, <1>3, Zenon DEF TypeServes, AnnotationsKept
<1>5. BodyKept(o, n)
  <2>1. CASE d.kind = "enum"
    <3>1. DerivableInts(d.members) \subseteq EnumInts(e.members)
      BY <2>1, Zenon DEF TypeServes
    <3>2. PICK N, M, x, y : /\ x = d.members /\ y = e.members
                            /\ x \in Seq(EnumMember(N)) /\ y \in Seq(EnumMember(M))
      BY <1>4, <2>1, DeclarationFacts, Zenon
    <3>3. DOMAIN x = 1 .. Len(x) /\ DOMAIN y = 1 .. Len(y)
      BY <3>2
    <3>4. (\A i \in 1 .. Len(x) : x[i].text # Expr) /\ (\A i \in 1 .. Len(y) : y[i].text # Expr)
      BY <3>2, <3>3, Zenon
    <3>5. Range(_parse_enum_body(x)) \subseteq Range(_parse_enum_body(y))
      BY <3>1, <3>2, <3>4, EnumServesKept, Zenon
    <3> QED
      BY <1>2, <1>3, <1>4, <2>1, <3>2, <3>5, Zenon DEF BodyKept
  <2>2. CASE d.kind # "enum"
    <3>1. /\ Range(Consts(d.members)) \subseteq Range(Consts(e.members))
          /\ IsPrefix(Rest(d.members), Rest(e.members))
          /\ d.kind = "union" => Rest(d.members) = Rest(e.members)
      BY <2>2, Zenon DEF TypeServes
    <3> QED
      BY <1>2, <1>3, <1>4, <2>2, <3>1, Zenon DEF BodyKept
  <2> QED
    BY <2>1, <2>2
<1> QED
  BY <1>1, <1>4, <1>5, Zenon DEF TypeKept

\* A tree whose dump is kept serves its clients.
LEMMA KeptServes ==
    ASSUME NEW a \in Trees, NEW b \in Trees, Kept(parse_aidl(a), parse_aidl(b))
    PROVE  Serves(a, b)
<1>1. PICK x, y : x = parse_aidl(a) /\ y = parse_aidl(b) /\ Kept(x, y)
  OBVIOUS
<1>2. DOMAIN x = DOMAIN a /\ DOMAIN y = DOMAIN b
  BY <1>1, ParsedTree, Zenon
<1>3. DOMAIN a \subseteq DOMAIN b
  BY <1>1, <1>2, Zenon DEF Kept
<1>4. ASSUME NEW q \in DOMAIN a PROVE TypeServes(a[q], b[q])
  <2>1. PICK d, e : d = a[q] /\ e = b[q] /\ Declaration(d) /\ Declaration(e)
    BY <1>3, TreesAssumption, Zenon
  <2>2. x[q] = _parse_type(d) /\ y[q] = _parse_type(e)
    BY <1>1, <1>3, <2>1, Zenon DEF parse_aidl
  <2>3. TypeKept(_parse_type(d), _parse_type(e))
    BY <1>1, <1>2, <2>2, Zenon DEF Kept
  <2> QED
    BY <2>1, <2>3, TypeKeptServes, Zenon
<1> QED
  BY <1>3, <1>4, Zenon DEF Serves

\* The converse, where every enum integer is derivable.
LEMMA ServesKept ==
    ASSUME NEW a \in Trees, NEW b \in Trees, AllDerivable(a), AllDerivable(b), Serves(a, b)
    PROVE  Kept(parse_aidl(a), parse_aidl(b))
<1>1. PICK x, y : x = parse_aidl(a) /\ y = parse_aidl(b)
  OBVIOUS
<1>2. DOMAIN x = DOMAIN a /\ DOMAIN y = DOMAIN b
  BY <1>1, ParsedTree, Zenon
<1>3. DOMAIN a \subseteq DOMAIN b
  BY Zenon DEF Serves
<1>4. ASSUME NEW q \in DOMAIN a PROVE TypeKept(x[q], y[q])
  <2>1. PICK d, e : d = a[q] /\ e = b[q] /\ Declaration(d) /\ Declaration(e)
    BY <1>3, TreesAssumption, Zenon
  <2>2. x[q] = _parse_type(d) /\ y[q] = _parse_type(e)
    BY <1>1, <1>3, <2>1, Zenon DEF parse_aidl
  <2>3. TypeServes(d, e)
    BY <2>1, Zenon DEF Serves
  <2>4. (\A i \in DOMAIN d.members : d.members[i].text # Expr) /\ (\A i \in DOMAIN e.members : e.members[i].text # Expr)
    BY <1>3, <2>1, Zenon DEF AllDerivable
  <2>5. TypeKept(_parse_type(d), _parse_type(e))
    BY <2>1, <2>3, <2>4, TypeServesKept, Zenon
  <2> QED
    BY <2>2, <2>5, Zenon
<1> QED
  BY <1>1, <1>2, <1>3, <1>4, Zenon DEF Kept

-----------------------------------------------------------------------------
(* The series of releases *)

Dumps == {dump_surface(t) : t \in Trees}

Verdicts == {"none", "major", "breaking"}

\* What a series of releases is: a dump and a report of each, the report being
\* the one against the predecessor.  Neighbours are all that diff_surface
\* compares; that the last release keeps every earlier one is what the
\* properties need beyond it, and it holds because Kept is transitive.
History(ts, ds, rs) ==
    /\ ts \in Seq(Trees) /\ ds \in Seq(Dumps) /\ rs \in Seq(Verdicts)
    /\ Len(ts) >= 1 /\ Len(ds) = Len(ts) /\ Len(rs) = Len(ts)
    /\ \A k \in 1 .. Len(ts) : ds[k] = dump_surface(ts[k])
    /\ rs[1] = "none"
    /\ \A k \in 2 .. Len(ts) : rs[k] = diff_surface(ds[k - 1], ds[k])
    /\ rs[Len(ts)] # "breaking" =>
         \A k \in 1 .. Len(ts) : Kept(parse_aidl(ts[k]), parse_aidl(ts[Len(ts)]))

\* diff_surface always gives one of the three verdicts.
LEMMA DiffVerdict ==
    ASSUME NEW old, NEW new
    PROVE  diff_surface(old, new) \in Verdicts
  BY DEF diff_surface, Class, Verdicts

\* The report on two releases with the types o and n.
ReportOn(v, o, n) ==
    /\ v = "breaking" <=> ~Kept(o, n)
    /\ v = "none" <=> Kept(o, n) /\ Kept(n, o)
    /\ v = "major" <=> Kept(o, n) /\ ~Kept(n, o)

\* diff_surface on the dumps of two trees.
LEMMA DiffOfDumps ==
    ASSUME NEW a \in Trees, NEW b \in Trees, NEW o, NEW n, o = parse_aidl(a), n = parse_aidl(b),
           NEW v, v = diff_surface(dump_surface(a), dump_surface(b))
    PROVE  ReportOn(v, o, n)
<1>1. PICK d, e : d = dump_surface(a) /\ e = dump_surface(b)
  OBVIOUS
<1>2. Parsed(o) /\ DumpOf(d, o) /\ Parsed(n) /\ DumpOf(e, n)
  BY <1>1, RoundTrip, Zenon
<1>3. parse_dump(d) = o /\ parse_dump(e) = n
  BY <1>2, Zenon DEF DumpOf
<1>4. Dumped(o) /\ Dumped(n)
  BY <1>2, Zenon DEF Parsed, Typed, Dumped
<1> QED
  BY <1>1, <1>3, <1>4, DiffIs, Zenon DEF ReportOn

\* What parse_aidl makes of a tree can be compared.
LEMMA TreeDumped ==
    ASSUME NEW t \in Trees
    PROVE  Dumped(parse_aidl(t))
  BY ParsedTree, Zenon DEF Parsed, Typed, Dumped

\* Reading a dump back gives the types it was written from: parse_dump undoes
\* what dump_surface does to the result of parse_aidl, for every tree.
THEOREM DumpReadBack == \A t \in Trees : parse_dump(dump_surface(t)) = parse_aidl(t)
  BY RoundTrip, Zenon DEF DumpOf

\* diff_surface need only compare neighbours: two reports that are not breaking
\* compose to one that is not, whatever trees lie between.
THEOREM AdditiveComposes ==
    \A a, b, c \in Trees :
        /\ diff_surface(dump_surface(a), dump_surface(b)) # "breaking"
        /\ diff_surface(dump_surface(b), dump_surface(c)) # "breaking"
        => diff_surface(dump_surface(a), dump_surface(c)) # "breaking"
<1> SUFFICES ASSUME NEW a \in Trees, NEW b \in Trees, NEW c \in Trees,
                    diff_surface(dump_surface(a), dump_surface(b)) # "breaking",
                    diff_surface(dump_surface(b), dump_surface(c)) # "breaking"
             PROVE  diff_surface(dump_surface(a), dump_surface(c)) # "breaking"
  OBVIOUS
<1>1. PICK u, v, w : /\ u = diff_surface(dump_surface(a), dump_surface(b))
                     /\ v = diff_surface(dump_surface(b), dump_surface(c))
                     /\ w = diff_surface(dump_surface(a), dump_surface(c))
  OBVIOUS
<1>2. PICK x, y, z : x = parse_aidl(a) /\ y = parse_aidl(b) /\ z = parse_aidl(c)
  OBVIOUS
<1>3. ReportOn(u, x, y)
  BY <1>1, <1>2, DiffOfDumps, Zenon
<1>4. ReportOn(v, y, z)
  BY <1>1, <1>2, DiffOfDumps, Zenon
<1>5. ReportOn(w, x, z)
  BY <1>1, <1>2, DiffOfDumps, Zenon
<1>6. Kept(x, y) /\ Kept(y, z)
  BY <1>1, <1>3, <1>4, Zenon DEF ReportOn
<1>7. Dumped(x) /\ Dumped(y) /\ Dumped(z)
  BY <1>2, TreeDumped, Zenon
<1>8. Kept(x, z)
  BY <1>6, <1>7, KeptTransitive, Zenon
<1> QED
  BY <1>1, <1>5, <1>8, Zenon DEF ReportOn

\* A first release is a history.
LEMMA HistoryStarts ==
    ASSUME NEW t \in Trees
    PROVE  History(<<t>>, <<dump_surface(t)>>, <<"none">>)
<1>1. PICK ts, ds, rs : ts = <<t>> /\ ds = <<dump_surface(t)>> /\ rs = <<"none">>
  BY Zenon
<1>2. dump_surface(t) \in Dumps /\ "none" \in Verdicts
  BY Zenon DEF Dumps, Verdicts
<1>3. /\ ts \in Seq(Trees) /\ ds \in Seq(Dumps) /\ rs \in Seq(Verdicts)
      /\ Len(ts) = 1 /\ Len(ds) = 1 /\ Len(rs) = 1
      /\ ts[1] = t /\ ds[1] = dump_surface(t) /\ rs[1] = "none"
      /\ \A k \in 1 .. 1 : k = 1 
      /\ \A k : k \notin 2 .. 1
      /\ 1 >= 1
  BY <1>1, <1>2
<1>4. Kept(parse_aidl(t), parse_aidl(t))
  BY TreeDumped, KeptReflexive, Zenon
<1>5. History(ts, ds, rs)
  BY <1>3, <1>4, Zenon DEF History
<1> QED
  BY <1>1, <1>5, Zenon

\* r is the sequence s over S, of n elements, and x.
Grown(S, s, x, n, r) ==
    /\ r \in Seq(S) /\ Len(r) = n + 1 /\ r[n + 1] = x
    /\ \A k \in 1 .. n : r[k] = s[k] /\ s[k] \in S

\* Append, as the steps below use it.
LEMMA Appended ==
    ASSUME NEW S, NEW s \in Seq(S), NEW x \in S, NEW n \in Nat, n = Len(s), NEW r, r = Append(s, x)
    PROVE  Grown(S, s, x, n, r)
  BY DEF Grown

\* Release continues a history.
LEMMA HistoryGoesOn ==
    ASSUME NEW ts, NEW ds, NEW rs, History(ts, ds, rs), rs[Len(rs)] # "breaking",
           NEW t \in Trees, NEW ts2, NEW ds2, NEW rs2,
           ts2 = Append(ts, t), ds2 = Append(ds, dump_surface(t)),
           rs2 = Append(rs, diff_surface(ds[Len(ds)], dump_surface(t)))
    PROVE  History(ts2, ds2, rs2)
<1>1. PICK n \in Nat : n >= 1 /\ n = Len(ts) /\ n = Len(ds) /\ n = Len(rs)
  BY DEF History
<1>2. ts \in Seq(Trees) /\ ds \in Seq(Dumps) /\ rs \in Seq(Verdicts)
  BY Zenon DEF History
<1>3. PICK d, v : d = dump_surface(t) /\ v = diff_surface(ds[n], d)
  OBVIOUS
<1>4. d \in Dumps /\ v \in Verdicts
  BY <1>3, DiffVerdict, Zenon DEF Dumps
<1>5. ts2 = Append(ts, t) /\ ds2 = Append(ds, d) /\ rs2 = Append(rs, v)
  BY <1>1, <1>3, Zenon
<1>6. /\ ts2 \in Seq(Trees) /\ Len(ts2) = n + 1 /\ ts2[n + 1] = t
      /\ \A k \in 1 .. n : ts2[k] = ts[k] /\ ts[k] \in Trees
  <2>1. Grown(Trees, ts, t, n, ts2)
    BY <1>1, <1>2, <1>5, Appended, Zenon
  <2> QED
    BY <2>1, Zenon DEF Grown
<1>7. /\ ds2 \in Seq(Dumps) /\ Len(ds2) = n + 1 /\ ds2[n + 1] = d
      /\ \A k \in 1 .. n : ds2[k] = ds[k]
  <2>1. Grown(Dumps, ds, d, n, ds2)
    BY <1>1, <1>2, <1>4, <1>5, Appended, Zenon
  <2> QED
    BY <2>1, Zenon DEF Grown
<1>8. /\ rs2 \in Seq(Verdicts) /\ Len(rs2) = n + 1 /\ rs2[n + 1] = v
      /\ \A k \in 1 .. n : rs2[k] = rs[k]
  <2>1. Grown(Verdicts, rs, v, n, rs2)
    BY <1>1, <1>2, <1>4, <1>5, Appended, Zenon
  <2> QED
    BY <2>1, Zenon DEF Grown
<1>9. /\ n + 1 >= 1 /\ 1 \in 1 .. n /\ n \in 1 .. n /\ (n + 1) - 1 = n
      /\ \A k \in 1 .. n + 1 : k \in 1 .. n \/ k = n + 1
      /\ \A k \in 2 .. n + 1 : k \in 2 .. n \/ k = n + 1
      /\ \A k \in 2 .. n : k \in 1 .. n /\ k - 1 \in 1 .. n
  BY <1>1
<1>10. /\ \A k \in 1 .. n : ds[k] = dump_surface(ts[k])
       /\ rs[1] = "none"
       /\ \A k \in 2 .. n : rs[k] = diff_surface(ds[k - 1], ds[k])
       /\ \A k \in 1 .. n : Kept(parse_aidl(ts[k]), parse_aidl(ts[n]))
  <2>1. rs[Len(ts)] # "breaking"
    BY <1>1, Zenon
  <2> QED
    BY <1>1, <2>1, Zenon DEF History
<1>11. \A k \in 1 .. n + 1 : ds2[k] = dump_surface(ts2[k])
  BY <1>3, <1>6, <1>7, <1>9, <1>10, Zenon
<1>12. rs2[1] = "none"
  BY <1>8, <1>9, <1>10, Zenon
<1>13. \A k \in 2 .. n + 1 : rs2[k] = diff_surface(ds2[k - 1], ds2[k])
  <2>1. ASSUME NEW k \in 2 .. n PROVE rs2[k] = diff_surface(ds2[k - 1], ds2[k])
    BY <1>7, <1>8, <1>9, <1>10, Zenon
  <2>2. rs2[n + 1] = diff_surface(ds2[(n + 1) - 1], ds2[n + 1])
    BY <1>3, <1>7, <1>8, <1>9, Zenon
  <2> QED
    BY <1>9, <2>1, <2>2, Zenon
<1>14. ASSUME rs2[n + 1] # "breaking", NEW k \in 1 .. n + 1
       PROVE  Kept(parse_aidl(ts2[k]), parse_aidl(ts2[n + 1]))
  <2>1. CASE k = n + 1
    BY <1>6, <2>1, TreeDumped, KeptReflexive, Zenon
  <2>2. CASE k \in 1 .. n
    <3>1. PICK a, b : a = ts[k] /\ b = ts[n] /\ a \in Trees /\ b \in Trees
      BY <1>6, <1>9, <2>2, Zenon
    <3>2. v = diff_surface(dump_surface(b), dump_surface(t))
      BY <1>3, <1>9, <1>10, <3>1, Zenon
    <3>3. v # "breaking"
      BY <1>8, <1>14, Zenon
    <3>4. Kept(parse_aidl(b), parse_aidl(t))
      BY <3>1, <3>2, <3>3, DiffOfDumps, Zenon DEF ReportOn
    <3>5. Kept(parse_aidl(a), parse_aidl(b))
      BY <1>10, <2>2, <3>1, Zenon
    <3>6. Dumped(parse_aidl(a)) /\ Dumped(parse_aidl(b)) /\ Dumped(parse_aidl(t))
      BY <3>1, TreeDumped, Zenon
    <3>7. Kept(parse_aidl(a), parse_aidl(t))
      BY <3>4, <3>5, <3>6, KeptTransitive, Zenon
    <3> QED
      BY <1>6, <2>2, <3>1, <3>7, Zenon
  <2> QED
    BY <1>9, <2>1, <2>2, Zenon
<1> QED
  BY <1>6, <1>7, <1>8, <1>9, <1>11, <1>12, <1>13, <1>14, Zenon DEF History

SurfaceInv == History(trees, dumps, reports)

\* Every series of releases is a history.
LEMMA SeriesInv == Spec => []SurfaceInv
<1>1. Init => SurfaceInv
  <2> SUFFICES ASSUME Init PROVE SurfaceInv
    OBVIOUS
  <2>1. PICK t \in Trees : trees = <<t>>
    BY Zenon DEF Init
  <2>2. trees[1] = t
    BY <2>1
  <2>3. dumps = <<dump_surface(t)>> /\ reports = <<"none">>
    BY <2>2, Zenon DEF Init
  <2>4. History(<<t>>, <<dump_surface(t)>>, <<"none">>)
    BY HistoryStarts, Zenon
  <2> QED
    BY <2>1, <2>3, <2>4, Zenon DEF SurfaceInv
<1>2. SurfaceInv /\ [Next]_vars => SurfaceInv'
  <2> SUFFICES ASSUME SurfaceInv, [Next]_vars PROVE SurfaceInv'
    OBVIOUS
  <2>1. CASE UNCHANGED vars
    BY <2>1, Zenon DEF SurfaceInv, vars
  <2>2. CASE Next
    <3>1. PICK t \in Trees : Release(t)
      BY <2>2, Zenon DEF Next
    <3>2. PICK ds2 : ds2 = dumps'
      OBVIOUS
    <3>3. /\ reports[Len(reports)] # "breaking"
          /\ trees' = Append(trees, t)
          /\ ds2 = Append(dumps, dump_surface(t))
          /\ reports' = Append(reports, diff_surface(dumps[Len(dumps)], ds2[Len(ds2)]))
      BY <3>1, <3>2, Zenon DEF Release, Last
    <3>4. ds2[Len(ds2)] = dump_surface(t)
      <4>1. PICK d, n : d = dump_surface(t) /\ n = Len(dumps) /\ dumps \in Seq(Dumps) /\ d \in Dumps
        BY Zenon DEF SurfaceInv, History, Dumps
      <4>2. n \in Nat
        BY <4>1
      <4>3. Grown(Dumps, dumps, d, n, ds2)
        BY <3>3, <4>1, <4>2, Appended, Zenon
      <4>4. Len(ds2) = n + 1 /\ ds2[n + 1] = d
        BY <4>3, Zenon DEF Grown
      <4> QED
        BY <4>1, <4>4, Zenon
    <3>5. reports' = Append(reports, diff_surface(dumps[Len(dumps)], dump_surface(t)))
      BY <3>3, <3>4, Zenon
    <3>6. History(trees', dumps', reports')
      BY <3>2, <3>3, <3>5, HistoryGoesOn, Zenon DEF SurfaceInv
    <3> QED
      BY <3>6, Zenon DEF SurfaceInv
  <2> QED
    BY <2>1, <2>2, Zenon
<1> QED
  BY <1>1, <1>2, PTL DEF Spec

\* A history's releases, and the report on the last one.
LastReport(ts, ds, rs, n) ==
    /\ n \in Nat /\ n >= 1 /\ n = Len(ds) /\ n = Len(rs) /\ rs[1] = "none" /\ DOMAIN ts = 1 .. n
    /\ \A k \in 1 .. n : ts[k] \in Trees /\ ds[k] = dump_surface(ts[k])
    /\ n > 1 => /\ n \in 1 .. n /\ n - 1 \in 1 .. n
                /\ rs[n] = diff_surface(ds[n - 1], ds[n])

\* The releases by position.
LEMMA TreeAt ==
    ASSUME NEW ts \in Seq(Trees), NEW n, n = Len(ts)
    PROVE  n \in Nat /\ DOMAIN ts = 1 .. n /\ \A k \in 1 .. n : ts[k] \in Trees
  OBVIOUS

\* Every history has such a last report.
LEMMA LastReported ==
    ASSUME NEW ts, NEW ds, NEW rs, History(ts, ds, rs), NEW n, n = Len(ts)
    PROVE  LastReport(ts, ds, rs, n)
<1>1. ts \in Seq(Trees) /\ n = Len(ds) /\ n = Len(rs) /\ n >= 1 /\ rs[1] = "none"
  BY Zenon DEF History
<1>2. n \in Nat /\ DOMAIN ts = 1 .. n /\ \A k \in 1 .. n : ts[k] \in Trees
  BY <1>1, TreeAt, Zenon
<1>3. n > 1 => n \in 1 .. n /\ n - 1 \in 1 .. n /\ n \in 2 .. n
  BY <1>2
<1>4. /\ \A k \in 1 .. n : ds[k] = dump_surface(ts[k])
      /\ \A k \in 2 .. n : rs[k] = diff_surface(ds[k - 1], ds[k])
  BY Zenon DEF History
<1> QED
  BY <1>1, <1>2, <1>3, <1>4, Zenon DEF LastReport

\* diff_surface's additive verdict is the exact converse of a breaking one: going
\* back from a release is breaking if going to it was major, and nothing if it
\* was nothing.
THEOREM RollbackAlwaysSeen == Spec => []RollbackSeen
<1>1. SurfaceInv => RollbackSeen
  <2> SUFFICES ASSUME SurfaceInv PROVE RollbackSeen
    OBVIOUS
  <2>1. PICK n : n = Len(trees) /\ LastReport(trees, dumps, reports, n)
    BY LastReported, Zenon DEF SurfaceInv
  <2>2. /\ n = Len(dumps)
        /\ \A k \in 1 .. n : trees[k] \in Trees /\ dumps[k] = dump_surface(trees[k])
        /\ n > 1 => /\ n \in 1 .. n /\ n - 1 \in 1 .. n
                    /\ reports[n] = diff_surface(dumps[n - 1], dumps[n])
    BY <2>1, Zenon DEF LastReport
  <2>3. ASSUME n > 1, reports[n] # "breaking"
        PROVE  diff_surface(dumps[n], dumps[n - 1]) = IF reports[n] = "major" THEN "breaking" ELSE "none"
    <3>1. PICK a, b : /\ a = trees[n - 1] /\ b = trees[n] /\ a \in Trees /\ b \in Trees
                      /\ dumps[n - 1] = dump_surface(a) /\ dumps[n] = dump_surface(b)
      BY <2>2, <2>3, Zenon
    <3>2. PICK o, p, v, w : /\ o = parse_aidl(a) /\ p = parse_aidl(b)
                            /\ v = diff_surface(dump_surface(a), dump_surface(b))
                            /\ w = diff_surface(dump_surface(b), dump_surface(a))
      OBVIOUS
    <3>3. ReportOn(v, o, p)
      BY <3>1, <3>2, DiffOfDumps, Zenon
    <3>4. ReportOn(w, p, o)
      BY <3>1, <3>2, DiffOfDumps, Zenon
    <3>5. v = reports[n] /\ w = diff_surface(dumps[n], dumps[n - 1])
      BY <2>2, <2>3, <3>1, <3>2, Zenon
    <3> QED
      BY <2>3, <3>3, <3>4, <3>5, Zenon DEF ReportOn
  <2> QED
    BY <2>2, <2>3, Zenon DEF RollbackSeen
<1> QED
  BY <1>1, SeriesInv, PTL

\* In a series of releases that diff_surface never called breaking, the last one
\* serves the clients of every earlier one, however many releases lie between.
THEOREM ClientsAlwaysServed == Spec => []ClientsServed
<1>1. SurfaceInv => ClientsServed
  <2> SUFFICES ASSUME SurfaceInv PROVE ClientsServed
    OBVIOUS
  <2>1. PICK n : n = Len(trees) /\ LastReport(trees, dumps, reports, n)
    BY LastReported, Zenon DEF SurfaceInv
  <2>2. /\ n \in Nat /\ n >= 1 /\ n = Len(reports) /\ DOMAIN trees = 1 .. n
        /\ \A k \in 1 .. n : trees[k] \in Trees
    BY <2>1, Zenon DEF LastReport
  <2>3. DOMAIN trees = 1 .. n /\ n \in 1 .. n
    BY <2>1, <2>2
  <2>4. ASSUME reports[n] # "breaking", NEW k \in 1 .. n PROVE Serves(trees[k], trees[n])
    <3>1. Kept(parse_aidl(trees[k]), parse_aidl(trees[n]))
      BY <2>1, <2>4, Zenon DEF SurfaceInv, History
    <3> QED
      BY <2>2, <2>3, <3>1, KeptServes, Zenon
  <2> QED
    BY <2>1, <2>2, <2>3, <2>4, Zenon DEF ClientsServed, Last
<1> QED
  BY <1>1, SeriesInv, PTL

\* Where every enum integer can be derived, what diff_surface calls breaking can
\* break a client of the previous release.
THEOREM BreakingAlwaysReal == Spec => []BreakingIsReal
<1>1. SurfaceInv => BreakingIsReal
  <2> SUFFICES ASSUME SurfaceInv PROVE BreakingIsReal
    OBVIOUS
  <2>1. PICK n : n = Len(trees) /\ LastReport(trees, dumps, reports, n)
    BY LastReported, Zenon DEF SurfaceInv
  <2>2. /\ n \in Nat /\ n >= 1 /\ reports[1] = "none"
        /\ \A k \in 1 .. n : trees[k] \in Trees /\ dumps[k] = dump_surface(trees[k])
        /\ n > 1 => /\ n \in 1 .. n /\ n - 1 \in 1 .. n
                    /\ reports[n] = diff_surface(dumps[n - 1], dumps[n])
    BY <2>1, Zenon DEF LastReport
  <2>3. ASSUME reports[n] = "breaking", AllDerivable(trees[n - 1]), AllDerivable(trees[n]),
               Serves(trees[n - 1], trees[n])
        PROVE  FALSE
    <3>1. n > 1
      <4>1. "none" # "breaking"
        OBVIOUS
      <4>2. n # 1
        BY <2>2, <2>3, <4>1, Zenon
      <4> QED
        BY <2>2, <4>2
    <3>2. PICK a, b : /\ a = trees[n - 1] /\ b = trees[n] /\ a \in Trees /\ b \in Trees
                      /\ reports[n] = diff_surface(dump_surface(a), dump_surface(b))
      BY <2>2, <3>1, Zenon
    <3>3. Kept(parse_aidl(a), parse_aidl(b))
      BY <2>3, <3>2, ServesKept, Zenon
    <3> QED
      BY <2>3, <3>2, <3>3, DiffOfDumps, Zenon DEF ReportOn
  <2> QED
    BY <2>1, <2>3, Zenon DEF BreakingIsReal
<1> QED
  BY <1>1, SeriesInv, PTL

\* A dump that was cut off before a line that says something is never taken for
\* the whole one, in either direction, wherever the cut fell.
THEOREM CutDumpAlwaysSeen == Spec => []CutDumpSeen
<1>1. SurfaceInv => CutDumpSeen
  <2> SUFFICES ASSUME SurfaceInv PROVE CutDumpSeen
    OBVIOUS
  <2>1. PICK n, dump : n = Len(trees) /\ dump = dumps[n] /\ LastReport(trees, dumps, reports, n)
    BY LastReported, Zenon DEF SurfaceInv
  <2>2. /\ n \in Nat /\ n >= 1 /\ n = Len(dumps)
        /\ \A k \in 1 .. n : trees[k] \in Trees /\ dumps[k] = dump_surface(trees[k])
    BY <2>1, Zenon DEF LastReport
  <2>3. n \in 1 .. n
    BY <2>2
  <2>4. PICK t, types : t \in Trees /\ dump = dump_surface(t) /\ types = parse_aidl(t)
    BY <2>1, <2>2, <2>3, Zenon
  <2>5. Parsed(types) /\ DumpOf(dump, types)
    BY <2>4, RoundTrip, Zenon
  <2>6. ASSUME NEW k \in 0 .. Len(dump), NEW cut, cut = SubSeq(dump, 1, k),
               \E i \in k + 1 .. Len(dump) : dump[i] # Blank
        PROVE  diff_surface(dump, cut) = "breaking" /\ diff_surface(cut, dump) # "none"
    <3>1. PICK p : p = parse_dump(cut)
      OBVIOUS
    <3>2. parse_dump(dump) = types /\ CutOf(p, types) /\ p # types
      BY <2>5, <2>6, <3>1, Zenon DEF DumpOf
    <3>3. Dumped(types) /\ Dumped(p) /\ ~Kept(types, p)
      BY <2>5, <3>2, CutLost, Zenon
    <3>4. diff_surface(dump, cut) = "breaking" <=> ~Kept(types, p)
      BY <3>1, <3>2, <3>3, DiffIs, Zenon
    <3>5. diff_surface(cut, dump) = "none" <=> Kept(p, types) /\ Kept(types, p)
      BY <3>1, <3>2, <3>3, DiffIs, Zenon
    <3> QED
      BY <3>3, <3>4, <3>5, Zenon
  <2>7. Last(dumps) = dump
    BY <2>1, <2>2, Zenon DEF Last
  <2> QED
    BY <2>6, <2>7, Zenon DEF CutDumpSeen
<1> QED
  BY <1>1, SeriesInv, PTL

=============================================================================
