------------------------------ MODULE Imports ------------------------------
(***************************************************************************)
(* How the host tool resolves the imports of versioned interfaces.  The    *)
(* persistent state is what the interface.yaml files say: the imports of   *)
(* the version in development, each with or without a version pin, and for *)
(* every frozen version the imports that append_version recorded.  An      *)
(* operation is the sequence of get_dependencies calls it makes; a call is *)
(* the recursion of process_imports, one frame of the stack per call.      *)
(*                                                                         *)
(* A dictionary is a function on the names it holds.  Definitions are      *)
(* loaded once per operation, so an edit made while the tool runs is an    *)
(* edit made before or after it.                                           *)
(***************************************************************************)
EXTENDS Integers, Sequences, FiniteSets

CONSTANTS
    Interface,   \* names of interfaces
    NoInterface, \* no operation runs
    Unpinned,    \* IMPORT_VERSION_UNPINNED
    ImportLists, \* the "imports" lists that developers give each interface
    MaxVersion,  \* bound on the number of frozen versions, by interface
    Operations   \* the operations that are invoked

\* An "imports" list: the names that are imported, each with its version.
ImportList(l) ==
    /\ l = [j \in DOMAIN l |-> l[j]] /\ DOMAIN l \subseteq Interface
    /\ \A j \in DOMAIN l : l[j] \in {Unpinned} \cup Nat

ASSUME ImportListsAssumption ==
    /\ Unpinned \notin Nat
    /\ \A i \in Interface : \A l \in ImportLists[i] : ImportList(l)
    /\ MaxVersion \in [Interface -> Nat]

VARIABLES
    imports,            \* the current imports: name -> pin or Unpinned
    versions_with_info, \* per interface, per frozen version: name -> version
    current,            \* the interfaces that have a stable/.../current
    op, target,         \* the operation that runs, and on which interface
    calls,              \* the get_dependencies calls it has yet to finish
    stack,              \* the process_imports calls that are active
    api_dependecies,    \* name -> version, of the running or last call
    outcome

disk == <<imports, versions_with_info, current>>
vars == <<disk, op, target, calls, stack, api_dependecies, outcome>>

-----------------------------------------------------------------------------

latest_version(i) == Len(versions_with_info[i])

next_version(i) == latest_version(i) + 1

EmptyDict == [j \in {} |-> 0]

\* get_imports knows the version.
HasVersion(i, v) == v \in 1 .. next_version(i)

get_imports(i, v) ==
    IF v \in 1 .. latest_version(i) THEN versions_with_info[i][v] ELSE imports[i]

import_ver_type == Head(calls).type

\* The version whose imports process_imports asks for, of interface i reached
\* as version v at the given recursion depth.
imports_version(i, v, depth) ==
    CASE import_ver_type = "next"   -> next_version(i)
      [] import_ver_type = "latest" ->
            IF depth = 1 \/ latest_version(i) = 0 THEN next_version(i) ELSE latest_version(i)
      [] import_ver_type = "frozen" -> v

\* Variant: counts recorded versions from 0.
import_version_OffByOne(j, pin) ==
    CASE import_ver_type = "next"   -> next_version(j)
      [] import_ver_type = "latest" ->
            IF pin # Unpinned THEN pin
            ELSE IF latest_version(j) = 0 THEN next_version(j) ELSE latest_version(j)
      [] import_ver_type = "frozen" -> IF pin > 1 THEN pin - 1 ELSE pin

\* The version in which it goes on to process an import.
import_version(j, pin) ==
    CASE import_ver_type = "next"   -> next_version(j)
      [] import_ver_type = "latest" ->
            IF pin # Unpinned THEN pin
            ELSE IF latest_version(j) = 0 THEN next_version(j) ELSE latest_version(j)
      [] import_ver_type = "frozen" -> pin

\* Variant: only the latest version has a directory.
HasDir_LatestOnly(i, v) == IF v = next_version(i) THEN i \in current ELSE v = latest_version(i) /\ v > 0

\* The directory aidl_gen_preprocessed takes the sources from exists.
HasDir(i, v) == IF v = next_version(i) THEN i \in current ELSE v \in 1 .. latest_version(i)

\* Variant: goes through the imports of the version in development.
Frame_Current(i, v, depth) ==
    [interface |-> i, version |-> v,
     imports |-> get_imports(i, imports_version(i, v, depth)),
     todo |-> DOMAIN imports[i]]

Frame(i, v, depth) ==
    [interface |-> i, version |-> v,
     imports |-> get_imports(i, imports_version(i, v, depth)),
     todo |-> DOMAIN get_imports(i, imports_version(i, v, depth))]

-----------------------------------------------------------------------------
(* The calls an operation makes *)

Call(type, v) == [type |-> type, version |-> v]

get_dependencies(i, v) == Call(IF v = next_version(i) THEN "next" ELSE "frozen", v)

\* validate_interface checks each version against the one before it.
validate_interface(i, hasCurrent) ==
    [k \in 1 .. latest_version(i) - 1 |-> get_dependencies(i, k + 1)]
      \o IF hasCurrent /\ latest_version(i) > 0
         THEN <<get_dependencies(i, next_version(i))>> ELSE <<>>

pre_validation(i) ==
    IF i \in current /\ latest_version(i) > 0
    THEN <<get_dependencies(i, next_version(i))>> ELSE <<>>

check_for_development(i) ==
    IF latest_version(i) > 0 THEN <<get_dependencies(i, next_version(i))>> ELSE <<>>

Running(o, i, c) ==
    /\ op = "none" /\ op' = o /\ target' = i /\ calls' = c
    /\ outcome' = "running"
    /\ UNCHANGED <<imports, versions_with_info, stack, api_dependecies>>

handle_update_api(i) ==
    /\ Running("update_api", i, pre_validation(i) \o validate_interface(i, TRUE))
    /\ current' = current \cup {i}

\* Variant: the dependencies are those of development.
handle_freeze_api_Next(i) ==
    /\ i \in current /\ latest_version(i) < MaxVersion[i]
    /\ Running("freeze_api", i,
               validate_interface(i, TRUE) \o check_for_development(i)
                 \o <<Call("next", next_version(i))>>)
    /\ UNCHANGED current

handle_freeze_api(i) ==
    /\ i \in current /\ latest_version(i) < MaxVersion[i]
    /\ Running("freeze_api", i,
               validate_interface(i, TRUE) \o check_for_development(i)
                 \o <<Call("latest", next_version(i))>>)
    /\ UNCHANGED current

handle_source_gen(i, v) ==
    /\ i \in current /\ v \in 1 .. next_version(i)
    /\ Running("generate_source", i, validate_interface(i, TRUE) \o <<get_dependencies(i, v)>>)
    /\ UNCHANGED current

\* freeze_api and generate_source before the first update_api end at once.
NoCurrent(i) ==
    /\ op = "none" /\ i \notin current
    /\ outcome' = "no_current"
    /\ UNCHANGED <<disk, op, target, calls, stack, api_dependecies>>

-----------------------------------------------------------------------------
(* process_imports *)

Top == stack[Len(stack)]

Begin ==
    /\ op # "none" /\ calls # <<>> /\ stack = <<>>
    /\ stack' = <<Frame(target, Head(calls).version, 1)>>
    /\ api_dependecies' = EmptyDict
    /\ UNCHANGED <<disk, op, target, calls, outcome>>

\* Variant: the last version met replaces the one on record.
add_dependency_Last(i, v) ==
    /\ HasDir(i, v)
    /\ api_dependecies' = [j \in DOMAIN api_dependecies \cup {i} |->
                              IF j = i THEN v ELSE api_dependecies[j]]

add_dependency(i, v) ==
    IF i \in DOMAIN api_dependecies /\ api_dependecies[i] >= v
    THEN UNCHANGED api_dependecies
    ELSE /\ HasDir(i, v)
         /\ api_dependecies' = [j \in DOMAIN api_dependecies \cup {i} |->
                                   IF j = i THEN v ELSE api_dependecies[j]]

\* Variant: takes the same import again.
Descend_Again(j) ==
    /\ stack # <<>> /\ j \in Top.todo
    /\ LET v     == import_version(j, Top.imports[j])
           depth == Len(stack) + 1
       IN  /\ HasVersion(j, imports_version(j, v, depth))
           /\ stack' = Append(stack, Frame(j, v, depth))
    /\ UNCHANGED <<disk, op, target, calls, api_dependecies, outcome>>

\* Variant: preprocesses an interface before its imports.
Descend_Preorder(j) ==
    /\ stack # <<>> /\ j \in Top.todo
    /\ LET v     == import_version(j, Top.imports[j])
           depth == Len(stack) + 1
       IN  /\ HasVersion(j, imports_version(j, v, depth))
           /\ stack' = Append([stack EXCEPT ![Len(stack)].todo = @ \ {j}], Frame(j, v, depth))
           /\ IF HasDir(j, v) THEN add_dependency(j, v) ELSE UNCHANGED api_dependecies
    /\ UNCHANGED <<disk, op, target, calls, outcome>>

\* The recursive call; imports are taken in any order.
Descend(j) ==
    /\ stack # <<>> /\ j \in Top.todo
    /\ LET v     == import_version(j, Top.imports[j])
           depth == Len(stack) + 1
       IN  /\ HasVersion(j, imports_version(j, v, depth))
           /\ stack' = Append([stack EXCEPT ![Len(stack)].todo = @ \ {j}], Frame(j, v, depth))
    /\ UNCHANGED <<disk, op, target, calls, api_dependecies, outcome>>

Return ==
    /\ stack # <<>> /\ Top.todo = {}
    /\ IF Len(stack) = 1
       THEN calls' = Tail(calls) /\ UNCHANGED api_dependecies
       ELSE add_dependency(Top.interface, Top.version) /\ UNCHANGED calls
    /\ stack' = SubSeq(stack, 1, Len(stack) - 1)
    /\ UNCHANGED <<disk, op, target, outcome>>

-----------------------------------------------------------------------------
(* How an operation ends *)

End(result) ==
    /\ op' = "none" /\ target' = NoInterface /\ calls' = <<>>
    /\ stack' = <<>> /\ api_dependecies' = EmptyDict
    /\ outcome' = result
    /\ UNCHANGED <<imports, current>>

\* get_imports knows no such version.
UnknownVersion(j) ==
    /\ stack # <<>> /\ j \in Top.todo
    /\ ~HasVersion(j, imports_version(j, import_version(j, Top.imports[j]), Len(stack) + 1))
    /\ End("unknown_version") /\ UNCHANGED versions_with_info

NeedsAdding ==
    /\ Len(stack) > 1 /\ Top.todo = {}
    /\ ~(Top.interface \in DOMAIN api_dependecies /\ api_dependecies[Top.interface] >= Top.version)

\* aidl_gen_preprocessed finds no directory for the version.
NoDirectory ==
    /\ NeedsAdding /\ ~HasDir(Top.interface, Top.version)
    /\ End("no_directory") /\ UNCHANGED versions_with_info

\* aidl rejects the sources it is given.
CommandFails ==
    /\ NeedsAdding
    /\ End("command_failed") /\ UNCHANGED versions_with_info

append_version(i) ==
    versions_with_info' =
        [versions_with_info EXCEPT ![i] =
            Append(@, [j \in DOMAIN imports[i] |-> latest_version(j)])]

\* freeze_api registers nothing when current does not differ from the latest.
Finish ==
    /\ op # "none" /\ calls = <<>>
    /\ \/ op = "freeze_api" /\ append_version(target)
       \/ /\ op = "freeze_api" => latest_version(target) > 0
          /\ UNCHANGED versions_with_info
    /\ End("ok")

EditImports(i, l) ==
    /\ op = "none" /\ l # imports[i]
    /\ imports' = [imports EXCEPT ![i] = l]
    /\ UNCHANGED <<versions_with_info, current, op, target, calls, stack>>
    /\ UNCHANGED <<api_dependecies, outcome>>

-----------------------------------------------------------------------------

Init ==
    /\ imports \in {f \in [Interface -> UNION {ImportLists[i] : i \in Interface}] :
                       \A i \in Interface : f[i] \in ImportLists[i]}
    /\ versions_with_info = [i \in Interface |-> <<>>]
    /\ current = {}
    /\ op = "none" /\ target = NoInterface /\ calls = <<>> /\ stack = <<>>
    /\ api_dependecies = EmptyDict
    /\ outcome = "none"

Invoke ==
    \E i \in Interface :
        \/ "update_api" \in Operations /\ handle_update_api(i)
        \/ "freeze_api" \in Operations /\ handle_freeze_api(i)
        \/ /\ "generate_source" \in Operations
           /\ \E v \in 1 .. MaxVersion[i] + 1 : handle_source_gen(i, v)
        \/ NoCurrent(i)

Resolve ==
    \/ Begin \/ Return \/ NoDirectory \/ CommandFails
    \/ \E j \in Interface : Descend(j) \/ UnknownVersion(j)

Next ==
    \/ Invoke \/ Resolve \/ Finish
    \/ \E i \in Interface : \E l \in ImportLists[i] : EditImports(i, l)

Spec == Init /\ [][Next]_vars

\* The tool is a process that runs to its end.
FairSpec == Spec /\ WF_vars(Resolve) /\ WF_vars(Finish)

-----------------------------------------------------------------------------
(* Properties *)

\* Every variable stays in its type.
TypeOK ==
    /\ imports \in [Interface -> UNION {ImportLists[i] : i \in Interface}]
    /\ \A i \in Interface : \A v \in 1 .. latest_version(i) :
         \A j \in DOMAIN versions_with_info[i][v] :
            j \in Interface /\ versions_with_info[i][v][j] \in 0 .. MaxVersion[j]
    /\ current \subseteq Interface
    /\ op \in Operations \cup {"none"} /\ target \in Interface \cup {NoInterface}
    /\ \A j \in DOMAIN api_dependecies :
         j \in Interface /\ api_dependecies[j] \in 1 .. MaxVersion[j] + 1
    /\ \A n \in DOMAIN stack :
         /\ stack[n].interface \in Interface /\ stack[n].version \in Nat
         /\ stack[n].todo \subseteq DOMAIN stack[n].imports

\* A get_dependencies call has computed its result.
Resolved == Len(stack) = 1 /\ Top.todo = {}

Direct(i, v, depth) ==
    LET imps == get_imports(i, imports_version(i, v, depth))
    IN  {<<j, import_version(j, imps[j])>> : j \in DOMAIN imps}

\* With an interface in some version, S holds the imports of that one too.
Closed(S) == \A p \in S : Direct(p[1], p[2], 2) \subseteq S

\* S is what version v of interface i imports, directly or not.
Reachable(S, i, v) ==
    /\ Direct(i, v, 1) \subseteq S /\ Closed(S)
    /\ \A T \in SUBSET S : Direct(i, v, 1) \subseteq T /\ Closed(T) => T = S

\* process_imports finds every interface that is imported directly or
\* indirectly, and of the versions in which it is met the newest one, in
\* whatever order the imports are written down.
ResolvesToNewest ==
    Resolved =>
        \E S \in SUBSET UNION {{j} \X (0 .. api_dependecies[j]) : j \in DOMAIN api_dependecies} :
            /\ Reachable(S, target, Head(calls).version)
            /\ \A j \in DOMAIN api_dependecies : <<j, api_dependecies[j]>> \in S

\* What aidl is given for a frozen version is closed under imports: for each
\* version it gets, and for the frozen version itself, it also gets everything
\* that one was frozen against, in the version recorded then or a newer one.
FrozenClosed ==
    Resolved /\ import_ver_type = "frozen" =>
        \A p \in {<<target, Head(calls).version>>}
                  \cup {<<j, api_dependecies[j]>> : j \in DOMAIN api_dependecies} :
            LET recorded == versions_with_info[p[1]][p[2]] IN
            \A k \in DOMAIN recorded :
                k \in DOMAIN api_dependecies /\ api_dependecies[k] >= recorded[k]

\* aidl_gen_preprocessed runs for an interface only when everything the
\* interface imports was preprocessed before it.
ImportsFirst ==
    [][\A j \in DOMAIN api_dependecies' :
         (j \notin DOMAIN api_dependecies \/ api_dependecies'[j] # api_dependecies[j])
            => DOMAIN Top.imports \subseteq DOMAIN api_dependecies]_vars

\* A frozen version can be resolved again for ever, unless it was frozen against
\* an interface that had never been frozen: nothing that developers edit or
\* freeze later takes away what it needs.
FrozenStaysResolvable ==
    [][(stack # <<>> /\ import_ver_type = "frozen"
          /\ outcome' \in {"unknown_version", "no_directory"})
         => \E n \in DOMAIN stack : \E j \in DOMAIN stack[n].imports : stack[n].imports[j] = 0]_vars

\* No current imports ask for a version of j that is yet to be frozen.
NoEarlyPin(j) ==
    \A i \in Interface : j \in DOMAIN imports[i] =>
        imports[i][j] = Unpinned \/ imports[i][j] <= latest_version(j)

\* For an import without a pin, append_version records the version that the
\* dependency check of the same freeze_api was made with.
RecordsWhatWasChecked ==
    [][\A i \in Interface : \A j \in DOMAIN imports[i] :
         (/\ latest_version(i)' > latest_version(i)
          /\ imports[i][j] = Unpinned /\ latest_version(j) > 0 /\ NoEarlyPin(j))
           => /\ j \in DOMAIN api_dependecies
              /\ versions_with_info'[i][next_version(i)][j] = api_dependecies[j]]_vars

\* The recursion ends, so every operation does.
EveryOperationEnds == op # "none" ~> op = "none"

=============================================================================
