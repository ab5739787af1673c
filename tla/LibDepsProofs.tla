--------------------------- MODULE LibDepsProofs ---------------------------
(***************************************************************************)
(* dependencies.txt for every set of definitions: whatever is written of   *)
(* it is closed under dependencies, and after a clean end it is complete.  *)
(* The invariant relates the lines that are written to the libraries that  *)
(* are still to be written.                                                *)
(***************************************************************************)
EXTENDS LibDeps, FiniteSetTheorems, SequenceTheorems, TLAPS

TheLine(t) == [lib |-> t, deps |-> lib_deps(t)]

\* The file holds one line for each library of S.
Holds(file, S) ==
    /\ file \in Seq(Line) /\ Len(file) = Cardinality(S)
    /\ \A t \in S : \E n \in DOMAIN file : file[n] = TheLine(t)

TypeInv ==
    /\ DOMAIN defs \subseteq Location
    /\ dep_file \in Seq(Line) \cup {NoFile}

FileInv ==
    /\ pc = "sort" => dep_file = NoFile
    /\ pc = "write" =>
         /\ todo \subseteq Libs /\ \A t \in Libs : lib_deps(t) \subseteq Libs
         /\ Holds(Lines, Libs \ todo)
    /\ pc = "read" /\ exit = "ok" => Holds(dep_file, Libs)
    /\ pc = "idle" /\ exit = "ok" => Holds(aidl_targets, Libs)
    /\ pc \notin {"read", "idle"} => exit = "none"

ListInv == TypeInv /\ FileInv /\ ListClosed

-----------------------------------------------------------------------------

LEMMA LibsFinite ==
    ASSUME TypeInv
    PROVE  Libs \subseteq Target /\ IsFiniteSet(Libs) /\ (Names # {} => Libs # {})
<1>1. Names \subseteq Interface
  BY DEF TypeInv, Names, Location
<1>2. Frozen \subseteq Target /\ Names \X {CURRENT_VERSION} \subseteq Target
  BY <1>1 DEF Frozen, Target
<1>3. Snapshots \subseteq Target
  BY LabelAssumption DEF TypeInv, Snapshots, Location, Target
<1>4. IsFiniteSet(Target)
  <2>1. IsFiniteSet(Label \cup {CURRENT_VERSION})
    BY FiniteAssumption, FS_AddElement
  <2> QED
    BY <2>1, FiniteAssumption, FS_Product DEF Target
<1>5. Libs \subseteq Target
  BY <1>2, <1>3 DEF Libs
<1>6. Names # {} => Libs # {}
  <2> SUFFICES ASSUME NEW i \in Names PROVE Libs # {}
    OBVIOUS
  <2>1. <<i, CURRENT_VERSION>> \in Libs
    BY DEF Libs
  <2> QED
    BY <2>1
<1> QED
  BY <1>4, <1>5, <1>6, FS_Subset

LEMMA SameDefs ==
    ASSUME UNCHANGED defs
    PROVE  /\ Names' = Names /\ Libs' = Libs /\ \A t : lib_deps(t)' = lib_deps(t)
           /\ \A f, S : Holds(f, S)' <=> Holds(f, S)
<1>1. /\ Names' = Names /\ Libs' = Libs /\ \A t : lib_deps(t)' = lib_deps(t)
  BY DEF Names, Libs, Frozen, Snapshots, interfaces, Labels, lib_deps
<1> QED
  BY <1>1 DEF Holds, TheLine

LEMMA AppendLine ==
    ASSUME NEW f \in Seq(Line), NEW l \in Line
    PROVE  /\ Append(f, l) \in Seq(Line) /\ Len(Append(f, l)) = Len(f) + 1
           /\ DOMAIN f = 1 .. Len(f) /\ Len(f) \in Nat
           /\ DOMAIN Append(f, l) = 1 .. Len(f) + 1
           /\ \A n \in 1 .. Len(f) : Append(f, l)[n] = f[n]
           /\ Append(f, l)[Len(f) + 1] = l
OBVIOUS

LEMMA InitList == Init => ListInv
<1> SUFFICES ASSUME Init PROVE ListInv
  OBVIOUS
<1>1. DOMAIN defs \subseteq Location
  BY DEF Init
<1>2. dep_file = NoFile /\ pc = "idle" /\ exit = "none"
  BY DEF Init
<1> QED
  BY <1>1, <1>2 DEF ListInv, TypeInv, FileInv, ListClosed

LEMMA WriteLine ==
    ASSUME ListInv, NEW t \in todo, Write(t)
    PROVE  ListInv'
<1>1. /\ pc = "write" /\ lib_deps(t) \cap todo = {} /\ pc' = "write" /\ todo' = todo \ {t}
      /\ dep_file' = Append(Lines, TheLine(t)) /\ UNCHANGED <<defs, exit>>
  BY DEF Write, TheLine
<1>2. /\ Holds(Lines, Libs \ todo) /\ todo \subseteq Libs
      /\ \A u \in Libs : lib_deps(u) \subseteq Libs
  BY <1>1 DEF ListInv, FileInv
<1>3. Libs \subseteq Target /\ IsFiniteSet(Libs)
  BY LibsFinite DEF ListInv
<1>4. TheLine(t) \in Line /\ TheLine(t).lib = t /\ TheLine(t).deps = lib_deps(t)
  BY <1>2, <1>3 DEF TheLine, Line
<1>5. PICK f \in Seq(Line) : f = Lines
  BY <1>2 DEF Holds
<1>6. PICK l \in Line : l = TheLine(t)
  BY <1>4
<1>7. PICK g : g = Append(f, l)
  OBVIOUS
<1>8. /\ g \in Seq(Line) /\ Len(g) = Len(f) + 1 /\ DOMAIN f = 1 .. Len(f) /\ Len(f) \in Nat
      /\ DOMAIN g = 1 .. Len(f) + 1 /\ g[Len(f) + 1] = l
      /\ \A n \in 1 .. Len(f) : g[n] = f[n]
  BY <1>7, AppendLine
<1>9. dep_file' = g /\ g # NoFile
  BY <1>1, <1>5, <1>6, <1>7, <1>8, NoFileAssumption
<1>10. TypeInv'
  BY <1>1, <1>8, <1>9 DEF ListInv, TypeInv
<1>11. Holds(g, Libs \ (todo \ {t}))
  <2>1. IsFiniteSet(Libs \ todo) /\ Libs \ (todo \ {t}) = (Libs \ todo) \cup {t} /\ t \notin Libs \ todo
    BY <1>2, <1>3, FS_Difference
  <2>2. Cardinality(Libs \ (todo \ {t})) = Cardinality(Libs \ todo) + 1
    BY <2>1, FS_AddElement
  <2>3. Len(g) = Cardinality(Libs \ (todo \ {t}))
    BY <1>2, <1>5, <1>8, <2>2 DEF Holds
  <2>4. ASSUME NEW u \in Libs \ (todo \ {t}) PROVE \E n \in DOMAIN g : g[n] = TheLine(u)
    <3>1. CASE u = t
      BY <1>6, <1>8, <3>1
    <3>2. CASE u # t
      <4>1. PICK n \in DOMAIN f : f[n] = TheLine(u)
        BY <1>2, <1>5, <3>2 DEF Holds
      <4> QED
        BY <1>8, <4>1
    <3> QED
      BY <3>1, <3>2
  <2> QED
    BY <1>8, <2>3, <2>4 DEF Holds
<1>12. FileInv'
  <2>1. Lines' = g
    BY <1>9 DEF Lines
  <2> QED
    BY <1>1, <1>2, <1>11, <2>1, SameDefs DEF ListInv, FileInv
<1>13. ListClosed'
  <2> SUFFICES ASSUME NEW n \in DOMAIN g, NEW d \in g[n].deps
               PROVE  \E m \in 1 .. n - 1 : g[m].lib = d
    BY <1>9 DEF ListClosed
  <2>1. CASE n \in 1 .. Len(f)
    <3>1. dep_file = f /\ dep_file # NoFile
      <4>1. f # <<>>
        BY <1>8, <2>1
      <4> QED
        BY <1>5, <4>1 DEF Lines
    <3>2. PICK m \in 1 .. n - 1 : f[m].lib = d
      BY <1>8, <2>1, <3>1 DEF ListInv, ListClosed
    <3> QED
      BY <1>8, <2>1, <3>2
  <2>2. CASE n = Len(f) + 1
    <3>1. d \in Libs \ todo
      BY <1>1, <1>2, <1>4, <1>6, <1>8, <2>2
    <3>2. PICK m \in DOMAIN f : f[m] = TheLine(d)
      BY <1>2, <1>5, <3>1 DEF Holds
    <3>3. TheLine(d).lib = d
      BY DEF TheLine
    <3> QED
      BY <1>8, <2>2, <3>2, <3>3
  <2> QED
    BY <1>8, <2>1, <2>2
<1> QED
  BY <1>10, <1>12, <1>13 DEF ListInv

LEMMA NextList == ListInv /\ [Next]_vars => ListInv'
<1> SUFFICES ASSUME ListInv, [Next]_vars PROVE ListInv'
  OBVIOUS
<1>1. ASSUME UNCHANGED <<defs, dep_file>> PROVE TypeInv' /\ ListClosed'
  BY <1>1 DEF ListInv, TypeInv, ListClosed
<1>2. CASE Configure \/ Load \/ Crash
  BY <1>1, <1>2, SameDefs DEF Configure, Load, Crash, Exit, ListInv, FileInv
<1>3. CASE Remove
  BY <1>3 DEF Remove, ListInv, TypeInv, FileInv, ListClosed
<1>4. CASE Sort
  <2>1. pc = "sort" /\ dep_file = NoFile /\ exit = "none" /\ UNCHANGED <<defs, dep_file>>
    BY <1>4 DEF Sort, ListInv, FileInv
  <2>2. CASE pc' = "write" /\ todo' = Libs /\ ~Unregistered /\ exit' = exit
    <3>1. Libs \ Libs = {} /\ Lines = <<>> /\ Lines' = Lines
      BY <2>1 DEF Lines
    <3>2. Holds(<<>>, {})
      BY FS_EmptySet DEF Holds
    <3>3. todo' \subseteq Libs' /\ \A t \in Libs' : lib_deps(t)' \subseteq Libs'
      BY <2>1, <2>2, SameDefs DEF Unregistered
    <3>4. Holds(Lines, Libs \ todo)'
      BY <2>1, <2>2, <3>1, <3>2, SameDefs
    <3>5. FileInv'
      BY <2>1, <2>2, <3>3, <3>4 DEF FileInv
    <3> QED
      BY <1>1, <2>1, <3>5 DEF ListInv
  <2>3. CASE pc' = "read" /\ exit' \in {"unregistered", "cycle"}
    BY <1>1, <2>1, <2>3 DEF ListInv, FileInv
  <2> QED
    BY <1>4, <2>2, <2>3 DEF Sort, Exit
<1>5. CASE Written
  <2>1. /\ pc = "write" /\ todo = {} /\ pc' = "read" /\ UNCHANGED <<defs, dep_file>>
        /\ exit' = IF Names = {} THEN "no_interfaces" ELSE "ok"
    BY <1>5 DEF Written, Exit
  <2>2. ASSUME Names # {} PROVE Holds(dep_file, Libs)
    <3>1. Holds(Lines, Libs) /\ Libs # {} /\ IsFiniteSet(Libs)
      BY <2>1, <2>2, LibsFinite DEF ListInv, FileInv
    <3>2. Lines # <<>>
      BY <3>1 DEF Holds
    <3> QED
      BY <3>1, <3>2 DEF Lines
  <2>3. FileInv'
    BY <2>1, <2>2, SameDefs DEF FileInv
  <2> QED
    BY <1>1, <2>1, <2>3 DEF ListInv
<1>6. CASE read_interfaces_lib_dependencies
  BY <1>1, <1>6, SameDefs DEF read_interfaces_lib_dependencies, ListInv, FileInv
<1>7. ASSUME NEW loc \in Location, Edit(loc) PROVE ListInv'
  <2>1. DOMAIN defs' \subseteq Location
    BY <1>7 DEF Edit, ListInv, TypeInv
  <2> QED
    BY <1>7, <2>1 DEF Edit, ListInv, TypeInv, FileInv, ListClosed
<1>8. CASE UNCHANGED vars
  <2>1. Lines' = Lines
    BY <1>8 DEF vars, Lines
  <2> QED
    BY <1>1, <1>8, <2>1, SameDefs DEF vars, ListInv, FileInv
<1> QED
  BY <1>2, <1>3, <1>4, <1>5, <1>6, <1>7, <1>8, WriteLine DEF Next, Generate

-----------------------------------------------------------------------------

\* However much of dependencies.txt is written, no line of it depends on one that
\* is missing, for all definitions and wherever aidl_ops dies.
THEOREM ListAlwaysClosed == Spec => []ListClosed
<1>1. ListInv => ListClosed
  BY DEF ListInv
<1> QED
  BY <1>1, InitList, NextList, PTL DEF Spec

\* After a clean end CMake has one line for each library there is.
THEOREM CleanListAlwaysComplete == Spec => []CleanListComplete
<1>1. ListInv => CleanListComplete
  BY DEF ListInv, FileInv, Holds, TheLine, CleanListComplete
<1> QED
  BY <1>1, InitList, NextList, PTL DEF Spec

=============================================================================
