------------------------------ MODULE LibDeps ------------------------------
(***************************************************************************)
(* The list of interface libraries that the CMake build reads: aidl_ops -a *)
(* computes it from every interface.yaml under the interface roots, and    *)
(* writes it line by line to dependencies.txt; host/CMakeLists.inc runs    *)
(* that command and then reads the file.                                   *)
(*                                                                         *)
(* An interface.yaml lies at <<name, label>>, the label being the name of  *)
(* its directory: CURRENT_VERSION, or that of a frozen snapshot.  It holds *)
(* imports (name -> pin) and versions_with_info (version -> set of library *)
(* targets).  A target is <<name, version>>, for <name>-v<version>-cpp.    *)
(* What topological_sort computes is an order in which every library comes *)
(* after its dependencies; here lines are written in any such order.       *)
(***************************************************************************)
EXTENDS Integers, Sequences, FiniteSets

CONSTANTS
    Interface,
    Label,        \* version numbers and names, in sorting order
    Snapshot,     \* the labels that are directories of snapshots
    Unpinned,     \* a bare-name import
    Malformed,    \* an interface.yaml that cannot be loaded
    Definitions,  \* the definitions developers write, by location
    NoFile,       \* there is no dependencies.txt
    MaxEdits,     \* bound on the edits after the initial state
    Crashes       \* whether aidl_ops may die

CURRENT_VERSION == -1

ASSUME LabelAssumption ==
    Snapshot \subseteq Label /\ Label \subseteq Nat /\ Unpinned \notin Label \cup {CURRENT_VERSION}

Location == Interface \X (Snapshot \cup {CURRENT_VERSION})

Target == Interface \X (Label \cup {CURRENT_VERSION})

\* What a line of dependencies.txt may hold.
Line == [lib : Target, deps : SUBSET Target]

ASSUME FiniteAssumption == IsFiniteSet(Interface) /\ IsFiniteSet(Label)

ASSUME NoFileAssumption == NoFile \notin Seq(Line)

VARIABLES
    defs,         \* location -> definition, for the files that exist
    dep_file,     \* the lines of dependencies.txt, or NoFile
    todo,         \* the libraries whose line has yet to be written
    pc,           \* where the configure run is
    exit,         \* how aidl_ops ended, which nobody looks at
    aidl_targets, \* the lines that CMake went on with, or NoFile
    edits

vars == <<defs, dep_file, todo, pc, exit, aidl_targets, edits>>

-----------------------------------------------------------------------------
(* load_interfaces *)

Names == {loc[1] : loc \in DOMAIN defs}

Labels(n) == {v \in Snapshot : <<n, v>> \in DOMAIN defs}

\* The definition that stays in the dictionary: current, or the last snapshot.
interfaces(n) ==
    IF <<n, CURRENT_VERSION>> \in DOMAIN defs THEN defs[<<n, CURRENT_VERSION>>]
    ELSE defs[<<n, CHOOSE v \in Labels(n) : \A w \in Labels(n) : w <= v>>]

-----------------------------------------------------------------------------
(* generate_libraries_dependencies *)

resolve_lib_deps(d) ==
    {<<j, IF d.imports[j] = Unpinned THEN CURRENT_VERSION ELSE d.imports[j]>> :
        j \in DOMAIN d.imports}

Frozen == {t \in Names \X Label : t[2] \in DOMAIN interfaces(t[1]).versions_with_info}

Snapshots == {loc \in DOMAIN defs : loc[2] # CURRENT_VERSION}

Libs == Frozen \cup Names \X {CURRENT_VERSION} \cup Snapshots

lib_deps(t) ==
    IF t[2] = CURRENT_VERSION THEN resolve_lib_deps(interfaces(t[1]))
    ELSE IF t \in Frozen THEN interfaces(t[1]).versions_with_info[t[2]]
    ELSE resolve_lib_deps(defs[t])

Unregistered == \E t \in Libs : ~(lib_deps(t) \subseteq Libs)

Cyclic == \E S \in SUBSET Libs \ {{}} : \A t \in S : lib_deps(t) \cap S # {}

-----------------------------------------------------------------------------
(* One configure run *)

Configure ==
    /\ pc = "idle" /\ pc' = "load"
    /\ exit' = "none" /\ aidl_targets' = NoFile
    /\ UNCHANGED <<defs, dep_file, todo, edits>>

Exit(result) == pc' = "read" /\ exit' = result /\ todo' = {}

Load ==
    /\ pc = "load"
    /\ IF \E loc \in DOMAIN defs : defs[loc] = Malformed
       THEN Exit("malformed")
       ELSE pc' = "remove" /\ UNCHANGED <<exit, todo>>
    /\ UNCHANGED <<defs, dep_file, aidl_targets, edits>>

\* Variant: leaves the old file, to which the new lines are appended.
Remove_Not ==
    /\ pc = "remove" /\ pc' = "sort"
    /\ UNCHANGED <<defs, dep_file, todo, exit, aidl_targets, edits>>

Remove ==
    /\ pc = "remove" /\ pc' = "sort"
    /\ dep_file' = NoFile
    /\ UNCHANGED <<defs, todo, exit, aidl_targets, edits>>

Sort ==
    /\ pc = "sort"
    /\ IF Unregistered THEN Exit("unregistered")
       ELSE IF Cyclic THEN Exit("cycle")
       ELSE pc' = "write" /\ todo' = Libs /\ UNCHANGED exit
    /\ UNCHANGED <<defs, dep_file, aidl_targets, edits>>

Lines == IF dep_file = NoFile THEN <<>> ELSE dep_file

\* Variant: dependents come first.
Write_DependentsFirst(t) ==
    /\ pc = "write" /\ t \in todo /\ \A u \in todo : t \notin lib_deps(u)
    /\ dep_file' = Append(Lines, [lib |-> t, deps |-> lib_deps(t)])
    /\ todo' = todo \ {t}
    /\ UNCHANGED <<defs, pc, exit, aidl_targets, edits>>

Write(t) ==
    /\ pc = "write" /\ t \in todo /\ lib_deps(t) \cap todo = {}
    /\ dep_file' = Append(Lines, [lib |-> t, deps |-> lib_deps(t)])
    /\ todo' = todo \ {t}
    /\ UNCHANGED <<defs, pc, exit, aidl_targets, edits>>

\* Without any interface the tool reports a fatal error and writes nothing.
Written ==
    /\ pc = "write" /\ todo = {}
    /\ Exit(IF Names = {} THEN "no_interfaces" ELSE "ok")
    /\ UNCHANGED <<defs, dep_file, aidl_targets, edits>>

Crash ==
    /\ Crashes /\ pc \in {"load", "remove", "sort", "write"}
    /\ Exit("crashed")
    /\ UNCHANGED <<defs, dep_file, aidl_targets, edits>>

\* A missing file is a fatal error; aidl_targets stays NoFile.
read_interfaces_lib_dependencies ==
    /\ pc = "read" /\ pc' = "idle"
    /\ aidl_targets' = dep_file
    /\ UNCHANGED <<defs, dep_file, todo, exit, edits>>

\* A developer, or a freeze_api, writes or deletes an interface.yaml.
Edit(loc) ==
    /\ pc = "idle" /\ edits < MaxEdits /\ edits' = edits + 1
    /\ \/ \E d \in Definitions[loc] \cup {Malformed} :
            defs' = [l \in DOMAIN defs \cup {loc} |-> IF l = loc THEN d ELSE defs[l]]
       \/ defs' = [l \in DOMAIN defs \ {loc} |-> defs[l]]
    /\ defs' # defs
    /\ aidl_targets' = NoFile /\ exit' = "none"
    /\ UNCHANGED <<dep_file, todo, pc>>

-----------------------------------------------------------------------------

Init ==
    /\ \E D \in SUBSET Location :
         defs \in {f \in [D -> UNION {Definitions[loc] : loc \in D}] :
                      \A loc \in D : f[loc] \in Definitions[loc]}
    /\ dep_file = NoFile /\ todo = {} /\ pc = "idle" /\ exit = "none"
    /\ aidl_targets = NoFile /\ edits = 0

Generate == Load \/ Remove \/ Sort \/ (\E t \in todo : Write(t)) \/ Written

Next ==
    \/ Configure \/ Generate \/ Crash \/ read_interfaces_lib_dependencies
    \/ \E loc \in Location : Edit(loc)

Spec == Init /\ [][Next]_vars

-----------------------------------------------------------------------------
(* Properties *)

\* In dependencies.txt every library comes after the libraries it depends on,
\* at every moment: however much of the file a dying aidl_ops has written,
\* nothing that AddInterfaceLibrary will look up is missing from it.
ListClosed ==
    dep_file # NoFile =>
        \A n \in DOMAIN dep_file : \A d \in dep_file[n].deps :
            \E m \in 1 .. n - 1 : dep_file[m].lib = d

\* When aidl_ops ends well, CMake goes on with one line for each version of each
\* interface, with the dependencies the definitions of today give it.
CleanListComplete ==
    (pc = "idle" /\ exit = "ok") =>
        /\ Len(aidl_targets) = Cardinality(Libs)
        /\ \A t \in Libs : \E n \in DOMAIN aidl_targets :
             aidl_targets[n] = [lib |-> t, deps |-> lib_deps(t)]

=============================================================================
