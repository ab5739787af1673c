---------------------------- MODULE ModuleLocal ----------------------------
(***************************************************************************)
(* One interface in the "module-local" layout.  Its module directory holds *)
(* current, where it is developed; the snapshots <X.Y.Z.W> that a release  *)
(* script makes; and the versions 1, 2, ... that freeze_api makes.  Each   *)
(* is the home of its own .aidl files, .hash, interface.yaml and generated *)
(* sources.  aidl_ops works on the definition load_interfaces picks from   *)
(* the roots it is given, but validates module/current whichever it is.    *)
(***************************************************************************)
EXTENDS ApiDirs, Integers

CONSTANTS
    Label,       \* the names of snapshots
    MaxVersion,  \* bound on the number of frozen versions
    MaxOrdinal,  \* bound on the version a release pins
    NoHash, NoDef, NoGen, PartialGen

ASSUME BoundsAssumption == MaxVersion \in Nat /\ MaxOrdinal \in Nat

CURRENT_VERSION == 0

Versions == 1 .. MaxVersion

Place == {CURRENT_VERSION} \cup Versions \cup Label

ASSUME LabelAssumption == Label \cap (0 .. MaxVersion) = {}

VARIABLES
    dirs,      \* the directories there are in the module directory
    files,     \* their .aidl files
    hash,      \* their .hash
    def,       \* their interface.yaml: `version:`, length of versions_with_info
    torn,      \* whose interface.yaml is truncated and not yet rewritten
    gen,       \* their src and include directories
    pc, op,    \* the running tool,
    roots,     \* the definitions it found under its interface roots,
    chosen,    \* the one it works on,
    loaded,    \* that one's number of versions,
    todo       \* and what cp has yet to copy

disk == <<dirs, files, hash, def, torn, gen>>
process == <<pc, op, roots, chosen, loaded, todo>>
vars == <<disk, process>>

-----------------------------------------------------------------------------
(* Digests, definitions, generated sources *)

\* There is no `version:`.
Unpinned == -1

version_for_hashgen(ver) == IF ver > 1 THEN ver - 1 ELSE 0

aidl_hash_gen(d, ver) == [api |-> d, tag |-> version_for_hashgen(ver)]

Definition(pin, n) == [version |-> pin, versions |-> n]

ASSUME NoDefAssumption == NoDef \notin [version : Int, versions : Nat]

Sources(ver, h, d) == [version |-> ver, hash |-> h, api |-> d]

next_version == loaded + 1

\* Variant: the definition that os.walk happens to find last.
Winners_Unsorted(R) == R

\* load_interfaces keeps the last definition of a name, and sorts current last.
\* Without it the last in the order of names wins; that may be any of them.
Winners(R) == IF CURRENT_VERSION \in R THEN {CURRENT_VERSION} ELSE R

-----------------------------------------------------------------------------
(* validate_interface, which always looks at module/current *)

version_dir(v) == IF v = next_version THEN CURRENT_VERSION ELSE v

frozen_dumps == IF dirs \cap Versions # {} THEN 1 .. loaded ELSE {}

api_dumps == frozen_dumps \cup {next_version}

\* Variant: trusts the .hash of current.
check_integrity_FrozenOnly(v) ==
    v # next_version => hash[v] = aidl_hash_gen(files[v], v)

check_integrity(v) ==
    LET d == version_dir(v) IN
    IF hash[d] = NoHash THEN v = next_version
    ELSE hash[d] = aidl_hash_gen(files[d], v)

check_compatibility(v) ==
    v - 1 \in api_dumps => Compatible(files[v - 1], files[version_dir(v)])

validate_interface ==
    /\ frozen_dumps \subseteq dirs
    /\ \A v \in api_dumps : check_integrity(v) /\ check_compatibility(v)

-----------------------------------------------------------------------------
(* The steps of the tool *)

Goto(label) == pc' = label /\ UNCHANGED <<op, roots, chosen, loaded>>

Exit ==
    /\ pc' = "idle" /\ op' = "none" /\ roots' = {} /\ chosen' = CURRENT_VERSION
    /\ loaded' = 0 /\ todo' = {}

\* A torn interface.yaml among the roots ends the tool, and update_api does
\* nothing in this layout.  MaxVersion bounds the freezes.
Invoke(o, R) ==
    /\ pc = "idle"
    /\ R \cap torn = {}
    /\ \E p \in Winners(R) :
         /\ o = "freeze_api" => def[p].versions < MaxVersion
         /\ chosen' = p /\ loaded' = def[p].versions
    /\ op' = o /\ roots' = R
    /\ pc' = IF o = "update_api" THEN "skip" ELSE "validate"
    /\ UNCHANGED <<disk, todo>>

Skip ==
    /\ pc = "skip"
    /\ Exit
    /\ UNCHANGED disk

\* A version given with -v is refused, after the validation.
Validate(v_given) ==
    /\ pc = "validate"
    /\ IF ~validate_interface \/ (op = "gen" /\ v_given)
       THEN Exit
       ELSE Goto(IF op = "gen" THEN "generate" ELSE "remove_hash") /\ UNCHANGED todo
    /\ UNCHANGED disk

\* Variant: emits a pinned version for an unfrozen contract.
resolve_emit_version_Unchecked(p) ==
    IF def[p].version = Unpinned THEN {next_version} ELSE {def[p].version}

\* None when it raises an error: a pinned version is positive, and of a frozen
\* contract.
resolve_emit_version(p) ==
    IF def[p].version = Unpinned THEN {next_version}
    ELSE IF def[p].version < 1 \/ hash[p] = NoHash THEN {} ELSE {def[p].version}

\* gen_cpp_sources: the version directory is that of the definition.
Generate ==
    /\ pc = "generate"
    /\ \/ /\ Present(files[chosen]) # {}
          /\ \E ver \in resolve_emit_version(chosen) :
               \E g \in {Sources(ver, hash[chosen], files[chosen]), gen[chosen], PartialGen} :
                 gen' = [gen EXCEPT ![chosen] = g]
       \/ /\ Present(files[chosen]) = {} \/ resolve_emit_version(chosen) = {}
          /\ UNCHANGED gen
    /\ Exit
    /\ UNCHANGED <<dirs, files, hash, def, torn>>

\* update_hash_for_current_api
RemoveHash ==
    /\ pc = "remove_hash"
    /\ hash' = [hash EXCEPT ![CURRENT_VERSION] = NoHash]
    /\ Goto("hash_gen")
    /\ UNCHANGED <<dirs, files, def, torn, gen, todo>>

HashGen ==
    /\ pc = "hash_gen"
    /\ hash' = [hash EXCEPT ![CURRENT_VERSION] =
                  aidl_hash_gen(files[CURRENT_VERSION], next_version)]
    /\ Goto("mkdir")
    /\ UNCHANGED <<dirs, files, def, torn, gen, todo>>

Parts == {"aidl", ".hash", "interface.yaml", "src"}

PartsOf(p) ==
    {"aidl"} \cup (IF hash[p] = NoHash THEN {} ELSE {".hash"})
             \cup (IF def[p] = NoDef THEN {} ELSE {"interface.yaml"})
             \cup (IF gen[p] = NoGen THEN {} ELSE {"src"})

\* check_for_development and dependecies_check_for_freeze, which may fail, write
\* nothing that outlives the tool; mkdir -p.
MakeVersionDir ==
    /\ pc = "mkdir"
    /\ \/ /\ loaded \notin frozen_dumps \/ ~Equal(files[loaded], files[CURRENT_VERSION])
          /\ dirs' = dirs \cup {next_version}
          /\ todo' = PartsOf(CURRENT_VERSION)
          /\ Goto("copy")
       \/ Exit /\ UNCHANGED dirs
    /\ UNCHANGED <<files, hash, def, torn, gen>>

\* cp -rf current/. takes along whatever is in current.
Copy(part) ==
    LET n == next_version  c == CURRENT_VERSION IN
    /\ pc = "copy" /\ part \in todo
    /\ todo' = todo \ {part}
    /\ files' = IF part = "aidl" THEN [files EXCEPT ![n] = files[c]] ELSE files
    /\ hash' = IF part = ".hash" THEN [hash EXCEPT ![n] = hash[c]] ELSE hash
    /\ def' = IF part = "interface.yaml" THEN [def EXCEPT ![n] = def[c]] ELSE def
    /\ gen' = IF part = "src" THEN [gen EXCEPT ![n] = gen[c]] ELSE gen
    /\ UNCHANGED <<dirs, torn, pc, op, roots, chosen, loaded>>

\* rm -f interface.yaml
RemoveDefinition ==
    /\ pc = "copy" /\ todo = {}
    /\ def' = [def EXCEPT ![next_version] = NoDef]
    /\ Goto("append")
    /\ UNCHANGED <<dirs, files, hash, torn, gen, todo>>

\* interface-update.py truncates the definition that was chosen,
AppendVersion ==
    /\ pc = "append"
    /\ torn' = torn \cup {chosen}
    /\ Goto("write")
    /\ UNCHANGED <<dirs, files, hash, def, gen, todo>>

\* and writes it with one more version.
WriteDefinition ==
    /\ pc = "write"
    /\ def' = [def EXCEPT ![chosen] = Definition(@.version, @.versions + 1)]
    /\ torn' = torn \ {chosen}
    /\ Exit
    /\ UNCHANGED <<dirs, files, hash, gen>>

-----------------------------------------------------------------------------
(* The environment *)

Crash ==
    /\ pc # "idle"
    /\ Exit
    /\ UNCHANGED disk

\* A developer edits current, or deletes its .hash.
Edit(d) ==
    /\ pc = "idle"
    /\ files' = [files EXCEPT ![CURRENT_VERSION] = d]
    /\ UNCHANGED <<dirs, hash, def, torn, gen, process>>

DeleteHash ==
    /\ pc = "idle"
    /\ hash' = [hash EXCEPT ![CURRENT_VERSION] = NoHash]
    /\ UNCHANGED <<dirs, files, def, torn, gen, process>>

RestoreDefinition(p) ==
    /\ pc = "idle" /\ p \in torn
    /\ torn' = torn \ {p}
    /\ UNCHANGED <<dirs, files, hash, def, gen, process>>

\* The release script copies current, and should give the snapshot a version
\* and a .hash.
Release(l, pin, h) ==
    /\ pc = "idle" /\ l \notin dirs /\ CURRENT_VERSION \notin torn
    /\ dirs' = dirs \cup {l}
    /\ files' = [files EXCEPT ![l] = files[CURRENT_VERSION]]
    /\ hash' = [hash EXCEPT ![l] = h]
    /\ def' = [def EXCEPT ![l] = Definition(pin, def[CURRENT_VERSION].versions)]
    /\ UNCHANGED <<torn, gen, process>>

-----------------------------------------------------------------------------

Init ==
    /\ dirs = {CURRENT_VERSION}
    /\ \E d \in Dir \ {EmptyDir} :
         files = [p \in Place |-> IF p = CURRENT_VERSION THEN d ELSE EmptyDir]
    /\ hash = [p \in Place |-> NoHash]
    /\ def = [p \in Place |->
                IF p = CURRENT_VERSION THEN Definition(Unpinned, 0) ELSE NoDef]
    /\ torn = {}
    /\ gen = [p \in Place |-> NoGen]
    /\ pc = "idle" /\ op = "none" /\ roots = {} /\ chosen = CURRENT_VERSION
    /\ loaded = 0 /\ todo = {}

\* The roots are the module directory, or any of current and the snapshots.
Defined == {p \in dirs : def[p] # NoDef}

Roots == {Defined} \cup SUBSET (Defined \ Versions)

Tool ==
    \/ \E o \in {"update_api", "freeze_api", "gen"}, R \in Roots : Invoke(o, R)
    \/ Skip \/ (\E given \in BOOLEAN : Validate(given)) \/ Generate
    \/ RemoveHash \/ HashGen \/ MakeVersionDir \/ (\E part \in Parts : Copy(part))
    \/ RemoveDefinition \/ AppendVersion \/ WriteDefinition

Environment ==
    \/ Crash
    \/ \E d \in Dir \ {EmptyDir} : Edit(d)
    \/ DeleteHash
    \/ \E p \in Place : RestoreDefinition(p)
    \/ \E l \in Label, pin \in Unpinned .. MaxOrdinal :
         \E h \in {NoHash, aidl_hash_gen(files[CURRENT_VERSION], 1)} : Release(l, pin, h)

Next == Tool \/ Environment

Spec == Init /\ [][Next]_vars

-----------------------------------------------------------------------------
(* Properties *)

\* Sources that carry a pinned version are those of the snapshot that pins it:
\* they are in its own directory, and carry its own, real digest and its API,
\* whatever has happened to current since.
PinnedSourcesMatch ==
    \A l \in Label \cap dirs :
        def[l].version # Unpinned /\ gen[l] \notin {NoGen, PartialGen} =>
            /\ gen[l] = Sources(def[l].version, hash[l], files[l])
            /\ hash[l] # NoHash

\* Sources of current, and those freeze_api copies into a version, never carry a
\* digest of another API than the one they were generated from, although current
\* can be edited at any time and only freeze_api renews its .hash.
DigestIsOfSources ==
    \A p \in {CURRENT_VERSION} \cup Versions :
        gen[p] \notin {NoGen, PartialGen} =>
            gen[p].hash = NoHash \/ gen[p].hash.api = gen[p].api

\* An operation that is given the whole module, current included, never changes a
\* version that current registers, nor any snapshot, whatever other definitions
\* of the same name load_interfaces finds there.
WholeTreeKeepsFrozen ==
    [][(CURRENT_VERSION \in roots) =>
         \A p \in 1 .. def[CURRENT_VERSION].versions \cup Label :
             /\ files'[p] = files[p] /\ hash'[p] = hash[p]
             /\ def'[p] = def[p] /\ gen'[p] = gen[p]]_vars

=============================================================================
