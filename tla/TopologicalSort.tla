-------------------------- MODULE TopologicalSort --------------------------
(***************************************************************************)
(* topological_sort of the interface libraries: Kahn's algorithm run from  *)
(* the libraries that nothing depends on, its output reversed.             *)
(***************************************************************************)
EXTENDS Integers, Sequences, FiniteSets

CONSTANTS
    Lib,     \* the keys of the dependency dictionary
    Graphs   \* the dictionaries considered: lib -> list of libs

ASSUME LibAssumption == IsFiniteSet(Lib)

ASSUME GraphsAssumption == Graphs \subseteq [Lib -> Seq(Lib)]

VARIABLES dependencies, indegree, queue, sorted_order, lib, pos, pc

vars == <<dependencies, indegree, queue, sorted_order, lib, pos, pc>>

-----------------------------------------------------------------------------

\* The entries of the dictionary's lists, by key and index.
Entries == UNION {{k} \X DOMAIN dependencies[k] : k \in Lib}

Uses(l) == {e \in Entries : dependencies[e[1]][e[2]] = l}

\* The keys with no incoming edge, in the dictionary's order, which is any.
Roots == {l \in Lib : Uses(l) = {}}

Orders(S) == {q \in [1 .. Cardinality(S) -> S] : \A l \in S : \E n \in DOMAIN q : q[n] = l}

\* Variant: counts a library that is listed once or more as one.
Init_CountsOne ==
    /\ dependencies \in Graphs
    /\ indegree = [l \in Lib |-> IF Uses(l) = {} THEN 0 ELSE 1]
    /\ queue \in Orders(Roots)
    /\ sorted_order = <<>>
    /\ lib \in Lib /\ pos = 0 /\ pc = "pop"

Init ==
    /\ dependencies \in Graphs
    /\ indegree = [l \in Lib |-> Cardinality(Uses(l))]
    /\ queue \in Orders(Roots)
    /\ sorted_order = <<>>
    /\ lib \in Lib /\ pos = 0 /\ pc = "pop"

\* Variant: looks at the first library without taking it off the queue.
Pop_Peek ==
    /\ pc = "pop" /\ queue # <<>>
    /\ lib' = Head(queue)
    /\ sorted_order' = Append(sorted_order, lib')
    /\ pos' = 1 /\ pc' = "relax"
    /\ UNCHANGED <<dependencies, indegree, queue>>

Pop ==
    /\ pc = "pop" /\ queue # <<>>
    /\ lib' = Head(queue) /\ queue' = Tail(queue)
    /\ sorted_order' = Append(sorted_order, lib')
    /\ pos' = 1 /\ pc' = "relax"
    /\ UNCHANGED <<dependencies, indegree>>

\* Variant: queues a library as soon as one of its dependents is out.
Relax_AtOnce ==
    /\ pc = "relax" /\ pos \in DOMAIN dependencies[lib]
    /\ LET dep == dependencies[lib][pos]
       IN  /\ indegree' = [indegree EXCEPT ![dep] = @ - 1]
           /\ queue' = IF \E n \in DOMAIN queue : queue[n] = dep THEN queue ELSE Append(queue, dep)
    /\ pos' = pos + 1
    /\ UNCHANGED <<dependencies, sorted_order, lib, pc>>

\* Variant: forgets the libraries that are listed twice.
Relax_Once ==
    /\ pc = "relax" /\ pos \in DOMAIN dependencies[lib]
    /\ LET dep == dependencies[lib][pos]
           dup == \E n \in 1 .. pos - 1 : dependencies[lib][n] = dep
       IN  /\ indegree' = [indegree EXCEPT ![dep] = IF dup THEN @ ELSE @ - 1]
           /\ queue' = IF indegree'[dep] = 0 /\ ~dup THEN Append(queue, dep) ELSE queue
    /\ pos' = pos + 1
    /\ UNCHANGED <<dependencies, sorted_order, lib, pc>>

Relax ==
    /\ pc = "relax" /\ pos \in DOMAIN dependencies[lib]
    /\ LET dep == dependencies[lib][pos]
       IN  /\ indegree' = [indegree EXCEPT ![dep] = @ - 1]
           /\ queue' = IF indegree'[dep] = 0 THEN Append(queue, dep) ELSE queue
    /\ pos' = pos + 1
    /\ UNCHANGED <<dependencies, sorted_order, lib, pc>>

\* Variant: gets stuck on a library that depends on nothing.
Relaxed_NotEmpty ==
    /\ pc = "relax" /\ pos > Len(dependencies[lib]) /\ pos > 1
    /\ pc' = "pop"
    /\ UNCHANGED <<dependencies, indegree, queue, sorted_order, lib, pos>>

Relaxed ==
    /\ pc = "relax" /\ pos \notin DOMAIN dependencies[lib]
    /\ pc' = "pop"
    /\ UNCHANGED <<dependencies, indegree, queue, sorted_order, lib, pos>>

\* The caller gets the reverse of sorted_order, or an exception.
Finish ==
    /\ pc = "pop" /\ queue = <<>>
    /\ pc' = IF Len(sorted_order) = Cardinality(Lib) THEN "sorted" ELSE "cycle"
    /\ UNCHANGED <<dependencies, indegree, queue, sorted_order, lib, pos>>

Next == Pop \/ Relax \/ Relaxed \/ Finish

Spec == Init /\ [][Next]_vars

FairSpec == Spec /\ WF_vars(Next)

-----------------------------------------------------------------------------
(* Properties *)

\* Every variable stays in its type; no count goes below zero.
TypeOK ==
    /\ dependencies \in Graphs /\ indegree \in [Lib -> Nat]
    /\ queue \in Seq(Lib) /\ sorted_order \in Seq(Lib)
    /\ lib \in Lib /\ pos \in Nat
    /\ pc \in {"pop", "relax", "sorted", "cycle"}

DependsOn(k, l) == \E n \in DOMAIN dependencies[k] : dependencies[k][n] = l

\* A library comes out after everything that depends on it, so that in the
\* reversed list, which the build goes through from the start, it comes before
\* all of its dependents.
DependentsFirst ==
    \A n \in DOMAIN sorted_order : \A k \in Lib :
        DependsOn(k, sorted_order[n]) => \E m \in 1 .. n - 1 : sorted_order[m] = k

\* S keeps itself alive: each member has a dependent in S.
Cyclic(S) == S # {} /\ \A l \in S : \E k \in S : DependsOn(k, l)

\* "Cycle detected in dependencies" is raised exactly when there is a cycle, a
\* library that depends on itself included.
CycleDetected ==
    /\ pc = "cycle" => \E S \in SUBSET Lib : Cyclic(S)
    /\ pc = "sorted" => \A S \in SUBSET Lib : ~Cyclic(S)

\* The abstract specification, with the counts and the queue hidden.
Order == INSTANCE LibOrder
           WITH order <- sorted_order, verdict <- IF pc \in {"sorted", "cycle"} THEN pc ELSE "none"

\* What the callers of topological_sort rely on: each library is put out at most
\* once, after all of its dependents, and the sort gives up only when none is left
\* to put out.
ImplementsLibOrder == Order!Spec

\* The sort ends, on every dictionary.
Terminates == <>(pc \in {"sorted", "cycle"})

=============================================================================
