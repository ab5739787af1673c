----------------------- MODULE TopologicalSortProofs -----------------------
(***************************************************************************)
(* topological_sort puts every library out after its dependents, and only  *)
(* gives up when it must, on every dictionary.  The invariant: the count   *)
(* of a library is the number of list entries that name it and have not    *)
(* been gone through, and it is queued or out once there are none left.    *)
(***************************************************************************)
EXTENDS TopologicalSort, FiniteSetTheorems, SequenceTheorems, TLAPS

Elems(s) == {s[n] : n \in DOMAIN s}

Distinct(s) == \A m, n \in DOMAIN s : s[m] = s[n] => m = n

\* The entries that name l and have not been gone through yet.
Pending(l) ==
    {e \in Uses(l) : \/ e[1] \notin Elems(sorted_order)
                     \/ e[1] = lib /\ pc = "relax" /\ e[2] >= pos}

CountInv ==
    /\ \A l \in Lib : indegree[l] = Cardinality(Pending(l))
    /\ \A l \in Lib : Pending(l) = {} <=> l \in Elems(queue) \cup Elems(sorted_order)

OnceInv ==
    /\ Distinct(queue) /\ Distinct(sorted_order)
    /\ Elems(queue) \cap Elems(sorted_order) = {}
    /\ pc = "relax" => lib \in Elems(sorted_order) /\ pos # 0
    /\ pc = "cycle" => queue = <<>> /\ Elems(sorted_order) # Lib
    /\ pc = "sorted" => queue = <<>> /\ Elems(sorted_order) = Lib

SortInv == TypeOK /\ CountInv /\ OnceInv

-----------------------------------------------------------------------------
(* Sequences without repetitions *)

LEMMA AppendElems ==
    ASSUME NEW S, NEW s \in Seq(S), NEW x \in S
    PROVE  /\ Append(s, x) \in Seq(S)
           /\ Elems(Append(s, x)) = Elems(s) \cup {x}
           /\ Distinct(s) /\ x \notin Elems(s) => Distinct(Append(s, x))
<1> DEFINE t == Append(s, x)
<1>1. /\ t \in Seq(S) /\ Len(t) = Len(s) + 1 /\ DOMAIN t = 1 .. Len(s) + 1
      /\ \A n \in 1 .. Len(s) : t[n] = s[n]
      /\ t[Len(s) + 1] = x /\ DOMAIN s = 1 .. Len(s) /\ Len(s) \in Nat
  OBVIOUS
<1> HIDE DEF t
<1>2. Elems(t) = Elems(s) \cup {x}
  BY <1>1 DEF Elems
<1>3. Distinct(s) /\ x \notin Elems(s) => Distinct(t)
  BY <1>1 DEF Elems, Distinct
<1> QED
  BY <1>1, <1>2, <1>3 DEF t

LEMMA TailElems ==
    ASSUME NEW S, NEW s \in Seq(S), s # <<>>, Distinct(s)
    PROVE  /\ Head(s) \in Elems(s) /\ Tail(s) \in Seq(S) /\ Distinct(Tail(s))
           /\ Elems(Tail(s)) = Elems(s) \ {Head(s)}
<1> DEFINE t == Tail(s)
<1>1. /\ t \in Seq(S) /\ Len(t) = Len(s) - 1 /\ DOMAIN t = 1 .. Len(s) - 1
      /\ \A n \in 1 .. Len(s) - 1 : t[n] = s[n + 1]
      /\ Head(s) = s[1] /\ DOMAIN s = 1 .. Len(s) /\ Len(s) \in Nat \ {0}
  BY HeadTailProperties, EmptySeq
<1> HIDE DEF t
<1>2. Head(s) \in Elems(s)
  BY <1>1 DEF Elems
<1>3. \A n \in 1 .. Len(s) - 1 : t[n] # s[1]
  BY <1>1 DEF Distinct
<1>4. \A n \in 2 .. Len(s) : n - 1 \in 1 .. Len(s) - 1 /\ s[n] = t[n - 1]
  BY <1>1
<1>5. Elems(t) = Elems(s) \ {Head(s)}
  <2>1. Elems(t) \subseteq Elems(s) \ {s[1]}
    BY <1>1, <1>3 DEF Elems
  <2>2. ASSUME NEW y \in Elems(s), y # s[1] PROVE y \in Elems(t)
    <3>1. PICK n \in DOMAIN s : s[n] = y
      BY DEF Elems
    <3>2. n \in 2 .. Len(s)
      BY <1>1, <2>2, <3>1
    <3>3. n - 1 \in DOMAIN t /\ t[n - 1] = y
      BY <1>1, <1>4, <3>1, <3>2
    <3> QED
      BY <3>3 DEF Elems
  <2> QED
    BY <1>1, <2>1, <2>2
<1>6. Distinct(t)
  <2> SUFFICES ASSUME NEW m \in DOMAIN t, NEW n \in DOMAIN t, t[m] = t[n]
               PROVE  m = n
    BY DEF Distinct
  <2>1. m + 1 \in DOMAIN s /\ n + 1 \in DOMAIN s /\ s[m + 1] = s[n + 1]
    BY <1>1
  <2>2. m + 1 = n + 1
    BY <2>1 DEF Distinct
  <2> QED
    BY <1>1, <2>2
<1> QED
  BY <1>1, <1>2, <1>5, <1>6 DEF t

-----------------------------------------------------------------------------
(* The entries *)

LEMMA UsesFinite ==
    ASSUME dependencies \in Graphs, NEW l
    PROVE  IsFiniteSet(Uses(l))
<1> DEFINE row(k) == {k} \X DOMAIN dependencies[k]
           f == [k \in Lib |-> row(k)]
           T == {row(k) : k \in Lib}
<1>1. \A k \in Lib : dependencies[k] \in Seq(Lib)
  BY GraphsAssumption
<1>2. \A k \in Lib : IsFiniteSet(row(k))
  <2> SUFFICES ASSUME NEW k \in Lib PROVE IsFiniteSet(row(k))
    OBVIOUS
  <2>1. DOMAIN dependencies[k] = 1 .. Len(dependencies[k]) /\ Len(dependencies[k]) \in Int
    BY <1>1
  <2>2. IsFiniteSet(DOMAIN dependencies[k])
    BY <2>1, FS_Interval
  <2> QED
    BY <2>2, FS_Singleton, FS_Product
<1> HIDE DEF row
<1>3. f \in Surjection(Lib, T)
  BY DEF Surjection
<1>4. IsFiniteSet(T)
  BY <1>3, FS_Surjection, LibAssumption
<1>5. IsFiniteSet(UNION T)
  BY <1>2, <1>4, FS_UNION
<1>6. Uses(l) \subseteq UNION T
  BY DEF Uses, Entries, row
<1> QED
  BY <1>5, <1>6, FS_Subset

LEMMA EntryType ==
    ASSUME dependencies \in Graphs
    PROVE  \A k \in Lib : \A n, l : <<k, n>> \in Uses(l) <=>
               n \in DOMAIN dependencies[k] /\ dependencies[k][n] = l
BY DEF Uses, Entries

LEMMA EntryIsPair ==
    ASSUME NEW l, NEW e \in Uses(l)
    PROVE  e[1] \in Lib /\ e = <<e[1], e[2]>> /\ e[2] \in DOMAIN dependencies[e[1]]
BY DEF Uses, Entries

LEMMA PendingFinite ==
    ASSUME dependencies \in Graphs, NEW l
    PROVE  IsFiniteSet(Pending(l)) /\ Cardinality(Pending(l)) \in Nat
<1>1. Pending(l) \subseteq Uses(l)
  BY DEF Pending
<1> QED
  BY <1>1, UsesFinite, FS_Subset, FS_CardinalityType

LEMMA AllOut ==
    ASSUME NEW s \in Seq(Lib), Distinct(s)
    PROVE  Len(s) = Cardinality(Lib) <=> Elems(s) = Lib
<1>1. DOMAIN s = 1 .. Len(s) /\ Len(s) \in Nat /\ s \in [1 .. Len(s) -> Lib]
  OBVIOUS
<1>2. s \in Injection(1 .. Len(s), Lib)
  BY <1>1 DEF Distinct, Injection, IsInjective
<1>3. Cardinality(1 .. Len(s)) = Len(s)
  BY <1>1, FS_Interval
<1>4. Len(s) = Cardinality(Lib) <=> s \in Surjection(1 .. Len(s), Lib)
  BY <1>2, <1>3, LibAssumption, FS_Injection
<1> QED
  BY <1>1, <1>4 DEF Surjection, Elems

-----------------------------------------------------------------------------
(* The invariant *)

LEMMA InitSort == Init => SortInv
<1> SUFFICES ASSUME Init PROVE SortInv
  OBVIOUS
<1>1. dependencies \in Graphs /\ sorted_order = <<>> /\ pc = "pop" /\ lib \in Lib /\ pos = 0
  BY DEF Init
<1>2. Elems(sorted_order) = {} /\ Distinct(sorted_order) /\ sorted_order \in Seq(Lib)
  BY <1>1 DEF Elems, Distinct
<1>3. \A l \in Lib : Pending(l) = Uses(l)
  BY <1>1, <1>2 DEF Pending
<1>4. \A l \in Lib : Cardinality(Uses(l)) \in Nat
  BY <1>1, UsesFinite, FS_CardinalityType
<1>5. indegree \in [Lib -> Nat] /\ \A l \in Lib : indegree[l] = Cardinality(Pending(l))
  BY <1>3, <1>4 DEF Init
<1>6. IsFiniteSet(Roots) /\ Cardinality(Roots) \in Nat
  BY LibAssumption, FS_Subset, FS_CardinalityType DEF Roots
<1>7. queue \in [1 .. Cardinality(Roots) -> Roots] /\ queue \in Surjection(1 .. Cardinality(Roots), Roots)
  BY DEF Init, Orders, Surjection
<1>8. queue \in Seq(Lib) /\ Elems(queue) = Roots
  <2>1. Roots \subseteq Lib
    BY DEF Roots
  <2>2. queue \in Seq(Lib)
    BY <1>6, <1>7, <2>1
  <2> QED
    BY <1>7, <2>2 DEF Surjection, Elems
<1>9. Distinct(queue)
  <2>1. IsFiniteSet(1 .. Cardinality(Roots)) /\ Cardinality(1 .. Cardinality(Roots)) = Cardinality(Roots)
    BY <1>6, FS_Interval
  <2>2. queue \in Injection(1 .. Cardinality(Roots), Roots)
    BY <1>7, <2>1, FS_SurjSameCardinalityImpliesInj
  <2> QED
    BY <1>7, <2>2 DEF Injection, IsInjective, Distinct
<1>10. CountInv
  BY <1>2, <1>3, <1>5, <1>8 DEF CountInv, Roots
<1>11. OnceInv
  BY <1>1, <1>2, <1>9 DEF OnceInv
<1> QED
  BY <1>1, <1>2, <1>5, <1>8, <1>10, <1>11 DEF SortInv, TypeOK

\* What Pop moves from the queue to the order.
LEMMA PopMoves ==
    ASSUME SortInv, Pop
    PROVE  /\ lib' \in Lib /\ lib' \in Elems(queue) /\ lib' \notin Elems(sorted_order)
           /\ queue' \in Seq(Lib) /\ Elems(queue') = Elems(queue) \ {lib'} /\ Distinct(queue')
           /\ sorted_order' \in Seq(Lib) /\ Distinct(sorted_order')
           /\ Elems(sorted_order') = Elems(sorted_order) \cup {lib'}
<1>1. queue \in Seq(Lib) /\ sorted_order \in Seq(Lib) /\ queue # <<>>
      /\ lib' = Head(queue) /\ queue' = Tail(queue) /\ sorted_order' = Append(sorted_order, lib')
  BY DEF SortInv, TypeOK, Pop
<1>2. Distinct(queue) /\ Distinct(sorted_order) /\ Elems(queue) \cap Elems(sorted_order) = {}
  BY DEF SortInv, OnceInv
<1>3. lib' \in Lib
  BY <1>1
<1>4. lib' \in Elems(queue) /\ queue' \in Seq(Lib) /\ Distinct(queue')
      /\ Elems(queue') = Elems(queue) \ {lib'}
  BY <1>1, <1>2, TailElems
<1> QED
  BY <1>1, <1>2, <1>3, <1>4, AppendElems

LEMMA PopSort ==
    ASSUME SortInv, Pop
    PROVE  SortInv'
<1>1. dependencies' = dependencies /\ indegree' = indegree /\ pc = "pop" /\ pc' = "relax" /\ pos' = 1
  BY DEF Pop
<1>2. dependencies \in Graphs /\ \A l : Uses(l)' = Uses(l)
  BY <1>1 DEF SortInv, TypeOK, Uses, Entries
<1>3. ASSUME NEW l \in Lib PROVE Pending(l)' = Pending(l)
  <2>1. \A e \in Uses(l) : e[2] \in Nat /\ e[2] >= 1
    <3> SUFFICES ASSUME NEW e \in Uses(l) PROVE e[2] \in Nat /\ e[2] >= 1
      OBVIOUS
    <3>1. e[1] \in Lib /\ e[2] \in DOMAIN dependencies[e[1]]
      BY EntryIsPair
    <3>2. dependencies[e[1]] \in Seq(Lib)
      BY <1>2, <3>1, GraphsAssumption
    <3> QED
      BY <3>1, <3>2
  <2> QED
    BY <1>1, <1>2, <2>1, PopMoves DEF Pending
<1>4. TypeOK'
  BY <1>1, PopMoves DEF SortInv, TypeOK
<1>5. CountInv'
  <2>1. (Elems(queue) \cup Elems(sorted_order))' = Elems(queue) \cup Elems(sorted_order)
    BY PopMoves
  <2> QED
    BY <1>1, <1>3, <2>1 DEF SortInv, CountInv
<1>6. OnceInv'
  BY <1>1, PopMoves DEF SortInv, OnceInv
<1> QED
  BY <1>4, <1>5, <1>6 DEF SortInv

\* Relax goes through one entry: <<lib, pos>>.
LEMMA RelaxRemoves ==
    ASSUME SortInv, Relax, NEW l \in Lib
    PROVE  /\ Pending(l)' = Pending(l) \ {<<lib, pos>>}
           /\ <<lib, pos>> \in Pending(l) <=> l = dependencies[lib][pos]
<1>1. dependencies' = dependencies /\ sorted_order' = sorted_order /\ lib' = lib
      /\ pc = "relax" /\ pc' = pc /\ pos' = pos + 1 /\ pos \in DOMAIN dependencies[lib]
  BY DEF Relax
<1>2. dependencies \in Graphs /\ lib \in Lib /\ pos \in Nat /\ lib \in Elems(sorted_order)
  BY <1>1 DEF SortInv, TypeOK, OnceInv
<1>3. Uses(l)' = Uses(l)
  BY <1>1 DEF Uses, Entries
<1>4. <<lib, pos>> \in Uses(l) <=> l = dependencies[lib][pos]
  BY <1>1, <1>2, EntryType
<1>5. ASSUME NEW e \in Uses(l)
      PROVE  e[2] \in Nat /\ e = <<e[1], e[2]>>
  <2>1. e[1] \in Lib /\ e = <<e[1], e[2]>> /\ e[2] \in DOMAIN dependencies[e[1]]
    BY EntryIsPair
  <2>2. dependencies[e[1]] \in Seq(Lib)
    BY <1>2, <2>1, GraphsAssumption
  <2> QED
    BY <2>1, <2>2
<1>6. \A e \in Uses(l) : e[1] = lib => (e[2] >= pos + 1 <=> e[2] >= pos /\ e # <<lib, pos>>)
  <2> SUFFICES ASSUME NEW e \in Uses(l), e[1] = lib
               PROVE  e[2] >= pos + 1 <=> e[2] >= pos /\ e # <<lib, pos>>
    OBVIOUS
  <2>1. e = <<lib, pos>> <=> e[2] = pos
    BY <1>5
  <2> QED
    BY <1>2, <1>5, <2>1
<1>7. Pending(l)' = Pending(l) \ {<<lib, pos>>}
  BY <1>1, <1>2, <1>3, <1>6 DEF Pending
<1>8. <<lib, pos>> \in Uses(l) => <<lib, pos>> \in Pending(l)
  BY <1>1, <1>2 DEF Pending
<1> QED
  BY <1>4, <1>7, <1>8 DEF Pending

LEMMA RelaxSort ==
    ASSUME SortInv, Relax
    PROVE  SortInv'
<1>0. PICK dep : dep = dependencies[lib][pos]
  OBVIOUS
<1>1. /\ dependencies' = dependencies /\ sorted_order' = sorted_order /\ lib' = lib
      /\ pc = "relax" /\ pc' = pc /\ pos' = pos + 1 /\ pos \in DOMAIN dependencies[lib]
      /\ indegree' = [indegree EXCEPT ![dep] = @ - 1]
      /\ queue' = IF indegree'[dep] = 0 THEN Append(queue, dep) ELSE queue
  BY <1>0 DEF Relax
<1>2. /\ dependencies \in Graphs /\ lib \in Lib /\ pos \in Nat /\ indegree \in [Lib -> Nat]
      /\ queue \in Seq(Lib) /\ sorted_order \in Seq(Lib)
  BY DEF SortInv, TypeOK
<1>3. dep \in Lib
  <2>1. dependencies[lib] \in Seq(Lib)
    BY <1>2, GraphsAssumption
  <2> QED
    BY <1>0, <1>1, <2>1
<1>4. \A l \in Lib : /\ Pending(l)' = Pending(l) \ {<<lib, pos>>}
                     /\ <<lib, pos>> \in Pending(l) <=> l = dep
  BY <1>0, RelaxRemoves
<1>5. \A l \in Lib : /\ IsFiniteSet(Pending(l)') /\ Cardinality(Pending(l)') \in Nat
                     /\ Cardinality(Pending(l)') =
                          IF l = dep THEN Cardinality(Pending(l)) - 1 ELSE Cardinality(Pending(l))
  <2> SUFFICES ASSUME NEW l \in Lib
               PROVE  /\ IsFiniteSet(Pending(l)') /\ Cardinality(Pending(l)') \in Nat
                      /\ Cardinality(Pending(l)') =
                           IF l = dep THEN Cardinality(Pending(l)) - 1 ELSE Cardinality(Pending(l))
    OBVIOUS
  <2>1. IsFiniteSet(Pending(l))
    BY <1>2, PendingFinite
  <2>2. Pending(l)' = Pending(l) \ {<<lib, pos>>} /\ (<<lib, pos>> \in Pending(l) <=> l = dep)
    BY <1>4
  <2> QED
    BY <2>1, <2>2, FS_RemoveElement, FS_CardinalityType
<1>6. \A l \in Lib : indegree'[l] = Cardinality(Pending(l)')
  BY <1>1, <1>2, <1>3, <1>5 DEF SortInv, CountInv
<1>7. indegree' \in [Lib -> Nat]
  BY <1>1, <1>2, <1>3, <1>5, <1>6
<1>8. indegree'[dep] = 0 <=> Pending(dep)' = {}
  BY <1>3, <1>5, <1>6, FS_EmptySet
<1>9. dep \notin Elems(queue) \cup Elems(sorted_order)
  BY <1>3, <1>4 DEF SortInv, CountInv
<1>10. Distinct(queue)
  BY DEF SortInv, OnceInv
<1>11. /\ queue' \in Seq(Lib) /\ Distinct(queue')
       /\ Elems(queue') = Elems(queue) \cup (IF Pending(dep)' = {} THEN {dep} ELSE {})
  <2>1. CASE Pending(dep)' = {}
    BY <1>1, <1>2, <1>3, <1>8, <1>9, <1>10, <2>1, AppendElems
  <2>2. CASE Pending(dep)' # {}
    BY <1>1, <1>2, <1>8, <1>10, <2>2
  <2> QED
    BY <2>1, <2>2
<1>12. TypeOK'
  BY <1>1, <1>2, <1>7, <1>11 DEF SortInv, TypeOK
<1>13. \A l \in Lib : Pending(l)' = {} <=> l \in Elems(queue') \cup Elems(sorted_order')
  <2> SUFFICES ASSUME NEW l \in Lib
               PROVE  Pending(l)' = {} <=> l \in Elems(queue') \cup Elems(sorted_order)
    BY <1>1
  <2>1. CASE l = dep
    BY <1>9, <1>11, <2>1
  <2>2. CASE l # dep
    <3>1. Pending(l)' = Pending(l)
      BY <1>4, <2>2
    <3> QED
      BY <1>11, <2>2, <3>1 DEF SortInv, CountInv
  <2> QED
    BY <2>1, <2>2
<1>14. CountInv'
  BY <1>6, <1>13 DEF CountInv
<1>15. OnceInv'
  BY <1>1, <1>2, <1>9, <1>11 DEF SortInv, OnceInv
<1> QED
  BY <1>12, <1>14, <1>15 DEF SortInv

LEMMA RelaxedSort ==
    ASSUME SortInv, Relaxed
    PROVE  SortInv'
<1>1. /\ pc = "relax" /\ pc' = "pop" /\ pos \notin DOMAIN dependencies[lib]
      /\ UNCHANGED <<dependencies, indegree, queue, sorted_order, lib, pos>>
  BY DEF Relaxed
<1>2. /\ dependencies \in Graphs /\ lib \in Lib /\ pos \in Nat \ {0} /\ lib \in Elems(sorted_order)
  BY <1>1 DEF SortInv, TypeOK, OnceInv
<1>3. dependencies[lib] \in Seq(Lib)
  BY <1>2, GraphsAssumption
<1>4. \A l \in Lib : \A e \in Uses(l) : ~(e[1] = lib /\ e[2] >= pos)
  BY <1>1, <1>2, <1>3, EntryIsPair
<1>5. \A l \in Lib : Uses(l)' = Uses(l)
  BY <1>1 DEF Uses, Entries
<1>6. \A l \in Lib : Pending(l)' = Pending(l)
  BY <1>1, <1>4, <1>5 DEF Pending
<1> QED
  BY <1>1, <1>6 DEF SortInv, TypeOK, CountInv, OnceInv

LEMMA FinishSort ==
    ASSUME SortInv, Finish
    PROVE  SortInv' /\ (pc' = "sorted" <=> Elems(sorted_order) = Lib) /\ pc' \in {"sorted", "cycle"}
<1>1. /\ pc = "pop" /\ queue = <<>>
      /\ pc' = IF Len(sorted_order) = Cardinality(Lib) THEN "sorted" ELSE "cycle"
      /\ UNCHANGED <<dependencies, indegree, queue, sorted_order, lib, pos>>
  BY DEF Finish
<1>2. Len(sorted_order) = Cardinality(Lib) <=> Elems(sorted_order) = Lib
  BY AllOut DEF SortInv, TypeOK, OnceInv
<1>3. \A l \in Lib : Uses(l)' = Uses(l)
  BY <1>1 DEF Uses, Entries
<1>4. \A l \in Lib : Pending(l)' = Pending(l)
  BY <1>1, <1>3 DEF Pending
<1>5. (pc' = "sorted" <=> Elems(sorted_order) = Lib) /\ pc' \in {"sorted", "cycle"}
  BY <1>1, <1>2
<1>6. TypeOK' /\ CountInv'
  BY <1>1, <1>4, <1>5 DEF SortInv, TypeOK, CountInv
<1>7. OnceInv'
  BY <1>1, <1>5 DEF SortInv, OnceInv
<1> QED
  BY <1>5, <1>6, <1>7 DEF SortInv

LEMMA NextSort == SortInv /\ [Next]_vars => SortInv'
<1> SUFFICES ASSUME SortInv, [Next]_vars PROVE SortInv'
  OBVIOUS
<1>1. CASE UNCHANGED vars
  <2>1. \A l \in Lib : Pending(l)' = Pending(l)
    BY <1>1 DEF vars, Pending, Uses, Entries
  <2> QED
    BY <1>1, <2>1 DEF vars, SortInv, TypeOK, CountInv, OnceInv
<1> QED
  BY <1>1, PopSort, RelaxSort, RelaxedSort, FinishSort DEF Next

\* No count of topological_sort goes below zero, on any dictionary.
THEOREM TypeCorrect == Spec => []TypeOK
<1>1. SortInv => TypeOK
  BY DEF SortInv
<1> QED
  BY <1>1, InitSort, NextSort, PTL DEF Spec

-----------------------------------------------------------------------------
(* The order *)

\* What is ready when a library is popped.
LEMMA QueuedReady ==
    ASSUME SortInv, pc = "pop", NEW l \in Lib
    PROVE  /\ l \in Elems(queue) => \A k \in Lib : DependsOn(k, l) => k \in Elems(sorted_order)
           /\ l \notin Elems(queue) \cup Elems(sorted_order) =>
                  \E k \in Lib \ Elems(sorted_order) : DependsOn(k, l)
<1>1. dependencies \in Graphs
  BY DEF SortInv, TypeOK
<1>2. \A k \in Lib : DependsOn(k, l) <=> \E n : <<k, n>> \in Uses(l)
  BY <1>1, EntryType DEF DependsOn
<1>3. ASSUME l \in Elems(queue), NEW k \in Lib, DependsOn(k, l)
      PROVE  k \in Elems(sorted_order)
  <2>1. Pending(l) = {}
    BY <1>3 DEF SortInv, CountInv
  <2>2. PICK n : <<k, n>> \in Uses(l)
    BY <1>2, <1>3
  <2> QED
    BY <2>1, <2>2 DEF Pending
<1>4. ASSUME l \notin Elems(queue) \cup Elems(sorted_order)
      PROVE  \E k \in Lib \ Elems(sorted_order) : DependsOn(k, l)
  <2>1. PICK e : e \in Pending(l)
    BY <1>4 DEF SortInv, CountInv
  <2>2. e \in Uses(l) /\ e[1] \notin Elems(sorted_order)
    BY <2>1 DEF Pending
  <2>3. e[1] \in Lib /\ <<e[1], e[2]>> \in Uses(l)
    BY <2>2, EntryIsPair
  <2> QED
    BY <1>2, <2>2, <2>3
<1> QED
  BY <1>3, <1>4

LEMMA OrderStep == SortInv /\ DependentsFirst /\ [Next]_vars => DependentsFirst'
<1> SUFFICES ASSUME SortInv, DependentsFirst, [Next]_vars PROVE DependentsFirst'
  OBVIOUS
<1>1. CASE UNCHANGED <<dependencies, sorted_order>>
  BY <1>1 DEF DependentsFirst, DependsOn
<1>2. CASE Pop
  <2>1. /\ dependencies' = dependencies /\ pc = "pop" /\ sorted_order \in Seq(Lib)
        /\ sorted_order' = Append(sorted_order, lib')
    BY <1>2 DEF Pop, SortInv, TypeOK
  <2>2. lib' \in Lib /\ lib' \in Elems(queue)
    BY <1>2, PopMoves
  <2>3. PICK h : h = lib'
    OBVIOUS
  <2>4. \A k \in Lib : DependsOn(k, h) => \E m \in DOMAIN sorted_order : sorted_order[m] = k
    BY <2>1, <2>2, <2>3, QueuedReady DEF Elems
  <2>5. /\ DOMAIN sorted_order = 1 .. Len(sorted_order) /\ Len(sorted_order) \in Nat
        /\ DOMAIN sorted_order' = 1 .. Len(sorted_order) + 1
        /\ \A n \in 1 .. Len(sorted_order) : sorted_order'[n] = sorted_order[n]
        /\ sorted_order'[Len(sorted_order) + 1] = h
    BY <2>1, <2>2, <2>3
  <2>6. \A k, l : DependsOn(k, l)' = DependsOn(k, l)
    BY <2>1 DEF DependsOn
  <2> SUFFICES ASSUME NEW n \in 1 .. Len(sorted_order) + 1, NEW k \in Lib,
                      DependsOn(k, sorted_order'[n])
               PROVE  \E m \in 1 .. n - 1 : sorted_order'[m] = k
    BY <2>1, <2>5 DEF DependentsFirst, DependsOn
  <2>7. CASE n = Len(sorted_order) + 1
    BY <2>4, <2>5, <2>7
  <2>8. CASE n \in 1 .. Len(sorted_order)
    <3>1. PICK m \in 1 .. n - 1 : sorted_order[m] = k
      BY <2>5, <2>8 DEF DependentsFirst
    <3> QED
      BY <2>5, <2>8, <3>1
  <2> QED
    BY <2>5, <2>7, <2>8
<1> QED
  BY <1>1, <1>2 DEF Next, vars, Relax, Relaxed, Finish

\* On every dictionary, a library comes out after all that depend on it.
THEOREM DependentsAlwaysFirst == Spec => []DependentsFirst
<1>1. Init => DependentsFirst
  BY DEF Init, DependentsFirst
<1> QED
  BY <1>1, InitSort, NextSort, OrderStep, PTL DEF Spec

-----------------------------------------------------------------------------
(* The refinement *)

LEMMA ReadyIs ==
    ASSUME SortInv, pc = "pop"
    PROVE  Order!Ready = Elems(queue)
<1>1. Order!Out = Elems(sorted_order) /\ \A k, l : Order!DependsOn(k, l) <=> DependsOn(k, l)
  BY DEF Order!Out, Elems, Order!DependsOn, DependsOn
<1>2. Elems(queue) \subseteq Lib
  BY DEF SortInv, TypeOK, Elems
<1>3. Elems(queue) \cap Elems(sorted_order) = {}
  BY DEF SortInv, OnceInv
<1> QED
  BY <1>1, <1>2, <1>3, QueuedReady DEF Order!Ready

LEMMA StepRefines == SortInv /\ [Next]_vars =>
    [Order!Next]_<<dependencies, sorted_order, IF pc \in {"sorted", "cycle"} THEN pc ELSE "none">>
<1> DEFINE v == IF pc \in {"sorted", "cycle"} THEN pc ELSE "none"
<1> SUFFICES ASSUME SortInv, [Next]_vars
             PROVE  Order!Next \/ UNCHANGED <<dependencies, sorted_order, v>>
  OBVIOUS
<1>1. CASE Pop
  <2>1. lib' \in Lib /\ lib' \in Elems(queue)
    BY <1>1, PopMoves
  <2>2. lib' \in Order!Ready
    BY <1>1, <2>1, ReadyIs DEF Pop
  <2>3. PICK h : h = lib'
    OBVIOUS
  <2>4. Order!Emit(h)
    BY <1>1, <2>2, <2>3 DEF Order!Emit, Pop
  <2> QED
    BY <2>1, <2>3, <2>4 DEF Order!Next
<1>2. CASE Finish
  <2>1. pc = "pop" /\ queue = <<>> /\ UNCHANGED <<dependencies, sorted_order>>
    BY <1>2 DEF Finish
  <2>2. Order!Ready = {}
    BY <2>1, ReadyIs DEF Elems
  <2>3. (pc' = "sorted" <=> Elems(sorted_order) = Lib) /\ pc' \in {"sorted", "cycle"}
    BY <1>2, FinishSort
  <2>4. Order!Out = Elems(sorted_order)
    BY DEF Order!Out, Elems
  <2>5. Order!Finish
    BY <2>1, <2>2, <2>3, <2>4 DEF Order!Finish
  <2> QED
    BY <2>5 DEF Order!Next
<1>3. CASE Relax \/ Relaxed \/ UNCHANGED vars
  BY <1>3 DEF Relax, Relaxed, vars
<1> QED
  BY <1>1, <1>2, <1>3 DEF Next

\* topological_sort implements what its callers rely on, on every dictionary.
THEOREM SortImplementsLibOrder == Spec => ImplementsLibOrder
<1>1. Init => Order!Init
  BY DEF Init, Order!Init
<1> QED
  BY <1>1, InitSort, NextSort, StepRefines, PTL DEF Spec, ImplementsLibOrder, Order!Spec

-----------------------------------------------------------------------------
(* The verdict *)

\* A library of S that is out has a dependent of S that is out earlier.
LEMMA NoFirst ==
    ASSUME DependentsFirst, sorted_order \in Seq(Lib), Elems(sorted_order) = Lib,
           NEW S \in SUBSET Lib, Cyclic(S)
    PROVE  FALSE
<1> DEFINE T == {n \in DOMAIN sorted_order : sorted_order[n] \in S}
<1>1. DOMAIN sorted_order \subseteq Nat
  OBVIOUS
<1>2. T # {} /\ T \subseteq Nat
  BY <1>1 DEF Cyclic, Elems
<1>3. PICK n \in T : \A m \in T : ~(<<m, n>> \in OpToRel(<, Nat))
  <2> HIDE DEF T
  <2> QED
    BY <1>2, NatLessThanWellFounded, WFMin
<1>4. \A m \in T : ~(m < n)
  BY <1>2, <1>3 DEF OpToRel
<1>5. PICK k \in S : DependsOn(k, sorted_order[n])
  BY DEF Cyclic
<1>6. PICK m \in 1 .. n - 1 : sorted_order[m] = k
  BY <1>5 DEF DependentsFirst
<1>7. m \in T /\ m < n
  BY <1>1, <1>6
<1> QED
  BY <1>4, <1>7

LEMMA VerdictRight == SortInv /\ DependentsFirst => CycleDetected
<1> SUFFICES ASSUME SortInv, DependentsFirst PROVE CycleDetected
  OBVIOUS
<1>1. ASSUME pc = "cycle" PROVE \E S \in SUBSET Lib : Cyclic(S)
  <2> DEFINE S == Lib \ Elems(sorted_order)
  <2>1. queue = <<>> /\ Elems(sorted_order) # Lib /\ Elems(sorted_order) \subseteq Lib
    BY <1>1 DEF SortInv, OnceInv, TypeOK, Elems
  <2>2. ASSUME NEW l \in S PROVE \E k \in S : DependsOn(k, l)
    <3>1. PICK e : e \in Pending(l)
      BY <2>1 DEF SortInv, CountInv, Elems
    <3>2. e \in Uses(l) /\ e[1] \notin Elems(sorted_order)
      BY <1>1, <3>1 DEF Pending
    <3>3. e[1] \in Lib /\ e[2] \in DOMAIN dependencies[e[1]] /\ dependencies[e[1]][e[2]] = l
      BY <3>2, EntryIsPair DEF Uses
    <3> QED
      BY <3>2, <3>3 DEF DependsOn
  <2>3. Cyclic(S)
    BY <2>1, <2>2 DEF Cyclic
  <2> QED
    BY <2>3
<1>2. ASSUME pc = "sorted", NEW S \in SUBSET Lib, Cyclic(S) PROVE FALSE
  BY <1>2, NoFirst DEF SortInv, TypeOK, OnceInv
<1> QED
  BY <1>1, <1>2 DEF CycleDetected

\* "Cycle detected in dependencies" is raised when there is a cycle, and only
\* then, on every dictionary.
THEOREM CycleAlwaysDetected == Spec => []CycleDetected
<1>1. Init => DependentsFirst
  BY DEF Init, DependentsFirst
<1> QED
  BY <1>1, InitSort, NextSort, OrderStep, VerdictRight, PTL DEF Spec

-----------------------------------------------------------------------------
(* Termination: liveness is left to TLC, but each step leaves less to do *)

\* The libraries that have not come out, and what is left to do before the next
\* one can.
ToCome == Cardinality(Lib) - Len(sorted_order)

Stage ==
    CASE pc = "relax" -> Len(dependencies[lib]) + 3 - pos
      [] pc = "pop"   -> 1
      [] OTHER        -> 0

\* Each step lets a library come out or goes on with the last one that has.
Progress ==
    /\ ToCome' \in Nat /\ Stage' \in Nat
    /\ ToCome' < ToCome \/ (ToCome' = ToCome /\ Stage' < Stage)

PosInv == pc = "relax" => pos <= Len(dependencies[lib]) + 1

LEMMA OutBound ==
    ASSUME SortInv
    PROVE  /\ Len(sorted_order) \in Nat /\ Cardinality(Lib) \in Nat
           /\ Len(sorted_order) <= Cardinality(Lib)
<1>1. /\ DOMAIN sorted_order = 1 .. Len(sorted_order) /\ Len(sorted_order) \in Nat
      /\ sorted_order \in [1 .. Len(sorted_order) -> Lib]
  BY DEF SortInv, TypeOK
<1>2. sorted_order \in Injection(1 .. Len(sorted_order), Lib)
  BY <1>1 DEF SortInv, OnceInv, Distinct, Injection, IsInjective
<1>3. Cardinality(1 .. Len(sorted_order)) = Len(sorted_order)
  BY <1>1, FS_Interval
<1>4. Cardinality(1 .. Len(sorted_order)) <= Cardinality(Lib)
  BY <1>2, LibAssumption, FS_Injection
<1> QED
  BY <1>1, <1>3, <1>4, LibAssumption, FS_CardinalityType

LEMMA LibLists ==
    ASSUME SortInv
    PROVE  /\ dependencies[lib] \in Seq(Lib) /\ Len(dependencies[lib]) \in Nat
           /\ DOMAIN dependencies[lib] = 1 .. Len(dependencies[lib]) /\ pos \in Nat
<1>1. dependencies \in [Lib -> Seq(Lib)] /\ lib \in Lib /\ pos \in Nat
  BY GraphsAssumption DEF SortInv, TypeOK
<1>2. dependencies[lib] \in Seq(Lib)
  BY <1>1
<1> QED
  BY <1>1, <1>2

LEMMA PosNext == SortInv /\ PosInv /\ [Next]_vars => PosInv'
<1> SUFFICES ASSUME SortInv, PosInv, [Next]_vars PROVE PosInv'
  OBVIOUS
<1>1. CASE Pop
  <2>1. SortInv' /\ pos' = 1
    BY <1>1, PopSort DEF Pop
  <2>2. Len(dependencies'[lib']) \in Nat
    <3>1. dependencies' \in [Lib -> Seq(Lib)] /\ lib' \in Lib
      BY <2>1, GraphsAssumption DEF SortInv, TypeOK
    <3> QED
      BY <3>1
  <2> QED
    BY <2>1, <2>2 DEF PosInv
<1>2. CASE Relax
  BY <1>2, LibLists DEF Relax, PosInv
<1>3. CASE Relaxed
  BY <1>3 DEF Relaxed, PosInv
<1>4. CASE Finish
  BY <1>4 DEF Finish, PosInv
<1>5. CASE UNCHANGED vars
  BY <1>5 DEF vars, PosInv
<1> QED
  BY <1>1, <1>2, <1>3, <1>4, <1>5 DEF Next

LEMMA ToComeType == SortInv => ToCome \in Nat
BY OutBound DEF ToCome

LEMMA StageType == SortInv /\ PosInv => Stage \in Nat
<1> SUFFICES ASSUME SortInv, PosInv PROVE Stage \in Nat
  OBVIOUS
<1>1. pc \in {"pop", "relax", "sorted", "cycle"}
  BY DEF SortInv, TypeOK
<1> QED
  BY <1>1, LibLists DEF Stage, PosInv

LEMMA StepProgress ==
    ASSUME SortInv, PosInv, Next, ToCome' \in Nat, Stage' \in Nat
    PROVE  Progress
<1> SUFFICES ToCome' < ToCome \/ (ToCome' = ToCome /\ Stage' < Stage)
  BY DEF Progress
<1>1. sorted_order \in Seq(Lib) /\ Len(sorted_order) \in Nat /\ Cardinality(Lib) \in Nat
  BY OutBound DEF SortInv, TypeOK
<1>2. CASE Pop
  <2>1. queue \in Seq(Lib) /\ queue # <<>> /\ sorted_order' = Append(sorted_order, Head(queue))
    BY <1>2 DEF Pop, SortInv, TypeOK
  <2>2. Head(queue) \in Lib
    BY <2>1
  <2>3. Len(sorted_order') = Len(sorted_order) + 1
    BY <1>1, <2>1, <2>2
  <2> QED
    BY <1>1, <2>3 DEF ToCome
<1>3. CASE Relax
  <2>1. /\ pc = "relax" /\ pc' = "relax" /\ pos' = pos + 1
        /\ UNCHANGED <<dependencies, sorted_order, lib>>
    BY <1>3 DEF Relax
  <2> QED
    BY <1>1, <2>1, LibLists DEF ToCome, Stage
<1>4. CASE Relaxed
  <2>1. pc = "relax" /\ pc' = "pop" /\ UNCHANGED sorted_order
    BY <1>4 DEF Relaxed
  <2> QED
    BY <1>1, <2>1, LibLists DEF ToCome, Stage, PosInv
<1>5. CASE Finish
  <2>1. pc = "pop" /\ pc' \in {"sorted", "cycle"} /\ UNCHANGED sorted_order
    BY <1>5 DEF Finish
  <2> QED
    BY <1>1, <2>1 DEF ToCome, Stage
<1> QED
  BY <1>2, <1>3, <1>4, <1>5 DEF Next

\* topological_sort cannot go on for ever, on any dictionary: each of its steps
\* makes a pair of numbers smaller, the libraries that have not come out and then
\* the entries of the current library's list.
THEOREM SortProgresses == Spec => [][Progress]_vars
<1>1. Init => PosInv
  BY DEF Init, PosInv
<1>2. SortInv /\ PosInv => ToCome \in Nat /\ Stage \in Nat
  BY ToComeType, StageType
<1>3. SortInv /\ PosInv /\ (ToCome \in Nat /\ Stage \in Nat)' /\ [Next]_vars => [Progress]_vars
  BY StepProgress
<1> QED
  BY <1>1, <1>2, <1>3, InitSort, NextSort, PosNext, PTL DEF Spec

=============================================================================
