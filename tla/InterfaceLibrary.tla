-------------------------- MODULE InterfaceLibrary --------------------------
(***************************************************************************)
(* A configure run of host/CMakeLists.inc: target_build_interfaces_libra-  *)
(* ries selects targets of dependencies.txt, and AddInterfaceLibrary adds  *)
(* each of them after its dependencies, generating its C++ sources first   *)
(* when the regeneration policy says so.  The generated trees stay on disk *)
(* from one run to the next; the targets (TARGET t) do not.                *)
(*                                                                         *)
(* A target is <<name, version>>, version CURRENT_VERSION being the one in *)
(* development.  The AIDL and the sources of a target are functions from   *)
(* the types of the interface to contents.                                 *)
(***************************************************************************)
EXTENDS Integers, Sequences

CONSTANTS
    Target,   \* the lines of dependencies.txt
    Deps,     \* the dependencies of each, by line
    Type,     \* AIDL types, one .cpp file each
    Content,  \* contents of an AIDL file, and of what is generated from it
    Absent,   \* there is no such file
    Checkout, \* the AIDL that a checkout has, by target
    Release,  \* the sources that it may have, by frozen target
    Edited,   \* the versions in development that developers edit
    Layout,   \* "central" or "module-local"
    Faults    \* whether commands fail and processes die

CURRENT_VERSION == 0

Tree == [Type -> Content \cup {Absent}]

ASSUME TargetAssumption ==
    /\ \A t \in Target : t[2] \in Nat
    /\ Edited \subseteq {t \in Target : t[2] = CURRENT_VERSION}
    /\ \A t \in Target : Deps[t] \subseteq Target
    /\ Checkout \in [Target -> Tree] /\ \A t \in DOMAIN Release : Release[t] \in Tree
    /\ Layout \in {"central", "module-local"} /\ Faults \in BOOLEAN

VARIABLES
    aidl,      \* the AIDL of each target
    gen,       \* its generated .cpp files
    added,     \* the targets added so far, with the sources they are built from
    requested, \* the targets the run has yet to add
    stack,     \* the AddInterfaceLibrary calls that are active
    request,   \* INTERFACE_VERSION and INTERFACE_TARGET of the run
    outcome

vars == <<aidl, gen, added, requested, stack, request, outcome>>

-----------------------------------------------------------------------------

Present(tree) == {ty \in Type : tree[ty] # Absent}

NoTargets == [t \in {} |-> 0]

IsCurrent(t) == t[2] = CURRENT_VERSION

Name == {t[1] : t \in Target}

Frame(t) == [target |-> t, deps |-> Deps[t], stage |-> "dependencies", files |-> {}]

Top == stack[Len(stack)]

SetTop(f) == [stack EXCEPT ![Len(stack)] = f]

Pop == SubSeq(stack, 1, Len(stack) - 1)

-----------------------------------------------------------------------------
(* target_build_interfaces_libraries *)

\* The targets a request selects, in the order of the list (here in any order).
Selected(r) ==
    {t \in Target :
        /\ r.name = "all" \/ t[1] = r.name
        /\ \/ r.version = "all"
           \/ r.version = "current" /\ IsCurrent(t)
           \/ r.version = "latest" /\ ~IsCurrent(t)
           \/ r.version = "number" /\ t[2] = r.number}

\* The requests that end with message(FATAL_ERROR ...).  The one for a version
\* that a given interface lacks is spelled message(FATAL_ERROR, ...), which CMake
\* prints before it goes on.
Invalid(r) ==
    \/ r.version = "current" /\ r.name # "all" /\ Selected(r) = {}
    \/ r.version = "latest" /\ r.name # "all"
    \/ r.version = "number" /\ r.name = "all"

Selection ==
    [version : {"all", "current", "latest"}, name : {"all"} \cup Name]
      \cup [version : {"number"}, name : {"all"} \cup Name,
            number : {t[2] : t \in Target} \ {CURRENT_VERSION}]

Configure(r) ==
    /\ outcome # "running"
    /\ request' = r
    /\ requested' = IF Invalid(r) THEN {} ELSE Selected(r)
    /\ outcome' = IF Invalid(r) THEN "fatal" ELSE "running"
    /\ added' = NoTargets
    /\ UNCHANGED <<aidl, gen, stack>>

Done ==
    /\ outcome = "running" /\ requested = {} /\ stack = <<>>
    /\ outcome' = "configured"
    /\ UNCHANGED <<aidl, gen, added, requested, stack, request>>

-----------------------------------------------------------------------------
(* AddInterfaceLibrary *)

\* The call for a requested target; one that was added already returns at once.
AddRequested(t) ==
    /\ outcome = "running" /\ stack = <<>> /\ t \in requested
    /\ requested' = requested \ {t}
    /\ stack' = IF t \in DOMAIN added THEN <<>> ELSE <<Frame(t)>>
    /\ UNCHANGED <<aidl, gen, added, request, outcome>>

\* Variant: the dependencies are left for later.
AddDependency_Later(d) ==
    /\ stack # <<>> /\ Top.stage = "dependencies" /\ d \in Top.deps
    /\ stack' = SetTop([Top EXCEPT !.deps = @ \ {d}])
    /\ requested' = requested \cup {d}
    /\ UNCHANGED <<aidl, gen, added, request, outcome>>

\* Variant: does not go on to the next dependency.
AddDependency_Again(d) ==
    /\ stack # <<>> /\ Top.stage = "dependencies" /\ d \in Top.deps
    /\ stack' = IF d \in DOMAIN added THEN stack ELSE Append(stack, Frame(d))
    /\ UNCHANGED <<aidl, gen, added, requested, request, outcome>>

\* Variant: does not look whether the dependency is a target.
AddDependency_Unchecked(d) ==
    /\ stack # <<>> /\ Top.stage = "dependencies" /\ d \in Top.deps
    /\ stack' = Append(SetTop([Top EXCEPT !.deps = @ \ {d}]), Frame(d))
    /\ UNCHANGED <<aidl, gen, added, requested, request, outcome>>

AddDependency(d) ==
    /\ stack # <<>> /\ Top.stage = "dependencies" /\ d \in Top.deps
    /\ LET rest == SetTop([Top EXCEPT !.deps = @ \ {d}])
       IN  stack' = IF d \in DOMAIN added THEN rest ELSE Append(rest, Frame(d))
    /\ UNCHANGED <<aidl, gen, added, requested, request, outcome>>

\* add_library, with every .cpp file that lies in the source directory.
AddLibrary ==
    /\ added' = [t \in DOMAIN added \cup {Top.target} |->
                    IF t = Top.target THEN gen[t] ELSE added[t]]
    /\ stack' = Pop

Fatal ==
    /\ outcome' = "fatal" /\ stack' = <<>> /\ requested' = {}
    /\ UNCHANGED <<aidl, added, request>>

\* Variant: what exists is reused, also for the version in development.
Regenerate_Skip(t) == Present(gen[t]) = {}

\* Variant: everything is regenerated.
Regenerate_Always(t) == TRUE

Regenerate(t) == IsCurrent(t) \/ Present(gen[t]) = {}

\* aidl_ops -g refuses -v in the module-local layout, and an interface that has
\* no AIDL files.
Refused(t) == (Layout = "module-local" /\ ~IsCurrent(t)) \/ Present(aidl[t]) = {}

Reuse ==
    /\ stack # <<>> /\ Top.stage = "dependencies" /\ Top.deps = {}
    /\ ~Regenerate(Top.target)
    /\ AddLibrary
    /\ UNCHANGED <<aidl, gen, requested, request, outcome>>

GenerateSource ==
    /\ stack # <<>> /\ Top.stage = "dependencies" /\ Top.deps = {}
    /\ Regenerate(Top.target) /\ ~Refused(Top.target)
    /\ stack' = SetTop([Top EXCEPT !.stage = "generate", !.files = Present(aidl[Top.target])])
    /\ UNCHANGED <<aidl, gen, added, requested, request, outcome>>

GenerateRefused ==
    /\ stack # <<>> /\ Top.stage = "dependencies" /\ Top.deps = {}
    /\ Regenerate(Top.target) /\ Refused(Top.target)
    /\ Fatal /\ UNCHANGED gen

\* The AIDL compiler overwrites in place.
WriteSource(ty) ==
    /\ stack # <<>> /\ Top.stage = "generate" /\ ty \in Top.files
    /\ gen' = [gen EXCEPT ![Top.target][ty] = aidl[Top.target][ty]]
    /\ stack' = SetTop([Top EXCEPT !.files = @ \ {ty}])
    /\ UNCHANGED <<aidl, added, requested, request, outcome>>

Generated ==
    /\ stack # <<>> /\ Top.stage = "generate" /\ Top.files = {}
    /\ AddLibrary
    /\ UNCHANGED <<aidl, gen, requested, request, outcome>>

\* aidl_ops fails, or the whole run is killed.
Fails ==
    /\ Faults /\ outcome = "running"
    /\ Fatal /\ UNCHANGED gen

\* A developer changes, adds or removes a type of a version in development.
Edit(t, ty, c) ==
    /\ outcome # "running" /\ t \in Edited /\ aidl[t][ty] # c
    /\ aidl' = [aidl EXCEPT ![t][ty] = c]
    /\ added' = NoTargets
    /\ UNCHANGED <<gen, requested, stack, request, outcome>>

-----------------------------------------------------------------------------

\* The sources of a release need not be what the compiler of today generates.
Init ==
    /\ aidl = Checkout
    /\ gen \in [Target -> {[ty \in Type |-> Absent]} \cup {Release[t] : t \in DOMAIN Release}]
    /\ \A t \in Target : Present(gen[t]) # {} => t \in DOMAIN Release /\ gen[t] = Release[t]
    /\ added = NoTargets /\ requested = {} /\ stack = <<>>
    /\ request \in {r \in Selection : r.version = "all" /\ r.name = "all"}
    /\ outcome = "none"

AddInterfaceLibrary ==
    \/ \E t \in Target : AddRequested(t) \/ AddDependency(t)
    \/ Reuse \/ GenerateSource \/ GenerateRefused \/ Generated
    \/ \E ty \in Type : WriteSource(ty)

Next ==
    \/ \E r \in Selection : Configure(r)
    \/ AddInterfaceLibrary \/ Done \/ Fails
    \/ \E t \in Target, ty \in Type, c \in Content \cup {Absent} : Edit(t, ty, c)

Spec == Init /\ [][Next]_vars

FairSpec == Spec /\ WF_vars(AddInterfaceLibrary \/ Done)

-----------------------------------------------------------------------------
(* Properties *)

\* A library is added, and linked, only after all the libraries it depends on,
\* whatever is asked for and whatever failed in earlier runs.
DependenciesAdded ==
    \A t \in DOMAIN added : Deps[t] \subseteq DOMAIN added

\* A library in development is built from sources generated from the AIDL of
\* today: no type of it is missing or has older contents, also after runs that
\* failed half way.
CurrentFresh ==
    \A t \in DOMAIN added : IsCurrent(t) =>
        \A ty \in Present(aidl[t]) : added[t][ty] = aidl[t][ty]

\* The complete sources of a frozen version are part of the release: no run
\* touches them again.
FrozenSourcesKept ==
    [][\A t \in Target :
         ~IsCurrent(t) /\ Present(gen[t]) = Present(aidl[t]) => gen'[t] = gen[t]]_vars

\* add_library is called once for each target: what a call is about to add is no
\* target yet, and no other call is about to add it.
AddedOnce ==
    \A i \in 1 .. Len(stack) :
        /\ stack[i].target \notin DOMAIN added
        /\ \A j \in 1 .. Len(stack) : i # j => stack[i].target # stack[j].target

\* A run that is neither killed nor refused ends.
EveryRunEnds == outcome = "running" ~> outcome # "running"

=============================================================================
