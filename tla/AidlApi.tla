------------------------------ MODULE AidlApi ------------------------------
(***************************************************************************)
(* The life cycle of one versioned AIDL interface under the host tool      *)
(* (aidl_ops.py -u | -f | -g), in the "central" layout:                    *)
(*                                                                         *)
(*   src              <module>/current/*.aidl, edited by developers        *)
(*   files, hash      stable/aidl/<module>/<version>/*.aidl and .hash      *)
(*   versions, torn   the versions_with_info list of interface.yaml        *)
(*   gen              stable/generated/<module>/<version>                  *)
(*                                                                         *)
(* The disk survives a tool process; pc, op, loaded and todo are the       *)
(* process, and are lost when it ends or dies.  A step of the tool is one  *)
(* change to the disk, so a crash can fall between any two of them.  The   *)
(* stable interface modelled imports nothing.                              *)
(***************************************************************************)
EXTENDS ApiDirs, Integers

CONSTANTS
    DotHash,     \* the name of the .hash file
    NoHash,      \* there is no .hash file
    EmptyHash,   \* there is a .hash file, and it holds no digest
    NoGen,       \* nothing was generated
    PartialGen,  \* the compiler died while it was writing sources
    MaxVersion,  \* bound on the number of frozen versions
    Operations,  \* the operations that are invoked
    Faults       \* which of "crash", "command", "edit" may happen

ASSUME DotHashAssumption == DotHash \notin File

ASSUME MaxVersionAssumption == MaxVersion \in Nat

ASSUME FaultsAssumption == Faults \subseteq {"crash", "command", "edit"}

VARIABLES
    src,             \* the developers' directory
    dirs,            \* the version directories that exist
    files,           \* the .aidl files of each of them
    hash,            \* the .hash file of each of them
    versions,        \* how many entries versions_with_info has
    torn,            \* interface.yaml is truncated and not yet rewritten
    has_development, \* the file of that name
    gen,             \* the generated sources of each version directory
    pc, op, loaded, todo,
    outcome          \* how the last operation ended

disk == <<src, dirs, files, hash, versions, torn, has_development, gen>>
vars == <<disk, pc, op, loaded, todo, outcome>>

-----------------------------------------------------------------------------
(* Versions and digests *)

CURRENT_VERSION == 0

Versions == CURRENT_VERSION .. MaxVersion

\* Variant: hashes with the version itself.
version_for_hashgen_Unshifted(ver) == ver

\* 0 stands for the word "latest-version".
version_for_hashgen(ver) == IF ver > 1 THEN ver - 1 ELSE 0

\* The digest is taken to be injective: it is what was digested.
aidl_hash_gen(d, ver) == [api |-> d, tag |-> version_for_hashgen(ver)]

Hash == [api : Dir, tag : Versions]

ASSUME NoHashAssumption == NoHash \notin Hash

Gen == [version : 1 .. MaxVersion + 1, hash : Hash \cup {NoHash, EmptyHash}, api : Dir]

\* What aidl --version --hash generates from a directory.
Sources(ver, h, d) == [version |-> ver, hash |-> h, api |-> d]

-----------------------------------------------------------------------------
(* What the running tool computes from the disk and from what it loaded *)

\* Variant: takes the latest version for the next one.
next_version_Latest == IF loaded = 0 THEN 1 ELSE loaded

next_version == loaded + 1

\* The directory of the API dump of a version.
version_dir(ver) == IF ver = next_version THEN CURRENT_VERSION ELSE ver

\* Variant: overlooks version 1.
has_frozen_versions_NotFirst == \E v \in dirs : v > 1

has_frozen_versions == \E v \in dirs : v # CURRENT_VERSION

api_dumps == (IF has_frozen_versions THEN 1 .. loaded ELSE {})
                \cup (IF CURRENT_VERSION \in dirs THEN {next_version} ELSE {})

MissingDir == \E v \in api_dumps : version_dir(v) \notin dirs

check_integrity(v) ==
    hash[version_dir(v)] = aidl_hash_gen(files[version_dir(v)], v)

FailsIntegrity(v) == hash[version_dir(v)] # NoHash /\ ~check_integrity(v)

LacksHash(v) == hash[version_dir(v)] = NoHash /\ \E w \in api_dumps : w > v

check_compatibility(v) ==
    v - 1 \in api_dumps => Compatible(files[version_dir(v - 1)], files[version_dir(v)])

Fails(v) == FailsIntegrity(v) \/ LacksHash(v) \/ ~check_compatibility(v)

\* The dumps are checked in order; the first failing check ends the tool.
validate_interface ==
    IF MissingDir THEN "missing"
    ELSE IF \A v \in api_dumps : ~Fails(v) THEN "ok"
    ELSE LET v == CHOOSE v \in api_dumps :
                    Fails(v) /\ \A w \in api_dumps : Fails(w) => v <= w
         IN  IF FailsIntegrity(v) THEN "integrity"
             ELSE IF LacksHash(v) THEN "unhashed" ELSE "incompatible"

-----------------------------------------------------------------------------
(* The steps of the tool.  Goto and Exit are the process's own part of one. *)

Goto(label) == pc' = label /\ UNCHANGED <<op, loaded, outcome>>

Exit(result) ==
    /\ pc' = "idle" /\ op' = "none" /\ loaded' = 0 /\ todo' = {}
    /\ outcome' = result

Fault(f) == f \in Faults

\* load_interfaces; MaxVersion bounds the freezes.
Invoke(o) ==
    /\ pc = "idle" /\ ~torn
    /\ o = "freeze_api" => versions < MaxVersion
    /\ op' = o /\ loaded' = versions /\ outcome' = "running"
    /\ pc' = IF o = "update_api" THEN "pre_validate" ELSE "validate"
    /\ UNCHANGED <<disk, todo>>

LoadFails ==
    /\ pc = "idle" /\ torn
    /\ outcome' = "unloadable"
    /\ UNCHANGED <<disk, pc, op, loaded, todo>>

PreValidate ==
    /\ pc = "pre_validate"
    /\ IF /\ CURRENT_VERSION \in dirs /\ has_frozen_versions
          /\ ~Compatible(files[CURRENT_VERSION], src)
       THEN Exit("rejected") /\ UNCHANGED dirs
       ELSE /\ dirs' = dirs \cup {CURRENT_VERSION}
            /\ todo' = Present(src)
            /\ Goto("rsync")
    /\ UNCHANGED <<src, files, hash, versions, torn, has_development, gen>>

\* rsync copies what is there and deletes nothing.
Rsync(f) ==
    /\ pc = "rsync" /\ f \in todo
    /\ files' = IF src[f] = Absent THEN files
                ELSE [files EXCEPT ![CURRENT_VERSION][f] = src[f]]
    /\ todo' = todo \ {f}
    /\ UNCHANGED <<src, dirs, hash, versions, torn, has_development, gen>>
    /\ UNCHANGED <<pc, op, loaded, outcome>>

\* The exit status of rsync is not looked at.
RsyncEnd ==
    /\ pc = "rsync" /\ (todo = {} \/ Fault("command"))
    /\ todo' = {}
    /\ Goto("remove_hash")
    /\ UNCHANGED disk

RemoveHash ==
    /\ pc = "remove_hash"
    /\ hash' = [hash EXCEPT ![CURRENT_VERSION] = NoHash]
    /\ Goto("hash_gen")
    /\ UNCHANGED <<src, dirs, files, versions, torn, has_development, gen, todo>>

\* Nor is that of aidl_hash_gen.
HashGen ==
    /\ pc = "hash_gen"
    /\ \E h \in {aidl_hash_gen(files[CURRENT_VERSION], next_version)}
                 \cup (IF Fault("command") THEN {NoHash, EmptyHash} ELSE {}) :
         hash' = [hash EXCEPT ![CURRENT_VERSION] = h]
    /\ Goto(IF op = "update_api" THEN "validate" ELSE "check_dev")
    /\ UNCHANGED <<src, dirs, files, versions, torn, has_development, gen, todo>>

\* validate_interface ends update_api and begins the other two operations.
Validate ==
    /\ pc = "validate"
    /\ IF op = "update_api" \/ validate_interface # "ok"
       THEN Exit(validate_interface)
       ELSE IF next_version \notin api_dumps
       THEN Exit("no_current")
       ELSE Goto(IF op = "freeze_api" THEN "remove_hash" ELSE "generate") /\ UNCHANGED todo
    /\ UNCHANGED disk

\* Variant: freezes without asking whether anything changed.
CheckForDevelopment_Always ==
    /\ pc = "check_dev"
    /\ has_development' = "1"
    /\ Goto("dep_check")
    /\ UNCHANGED <<src, dirs, files, hash, versions, torn, gen, todo>>

\* has_development holds the exit status of aidl --checkapi=equal.
CheckForDevelopment ==
    /\ pc = "check_dev"
    /\ \E status \in {IF loaded \in api_dumps /\ Equal(files[loaded], files[CURRENT_VERSION])
                      THEN "0" ELSE "1"}
                     \cup (IF Fault("command") THEN {"1", "other"} ELSE {}) :
         has_development' = status
    /\ Goto("dep_check")
    /\ UNCHANGED <<src, dirs, files, hash, versions, torn, gen, todo>>

\* The developers' sources may or may not compile; aidl wants at least one.
DependenciesCheck ==
    /\ pc = "dep_check"
    /\ \/ Present(src) # {} /\ Goto("mkdir") /\ UNCHANGED todo
       \/ Exit("dependencies")
    /\ UNCHANGED disk

MakeVersionDir ==
    /\ pc = "mkdir"
    /\ \/ /\ has_development = "1"
          /\ dirs' = dirs \cup {next_version}
          /\ todo' = Present(files[CURRENT_VERSION])
                       \cup (IF hash[CURRENT_VERSION] = NoHash THEN {} ELSE {DotHash})
          /\ Goto("copy")
       \/ /\ has_development # "1" \/ Fault("command")
          /\ Goto("append")
          /\ UNCHANGED <<dirs, todo>>
    /\ UNCHANGED <<src, files, hash, versions, torn, has_development, gen>>

CopyFile(f) ==
    /\ pc = "copy" /\ f \in todo \ {DotHash}
    /\ files' = [files EXCEPT ![next_version][f] = files[CURRENT_VERSION][f]]
    /\ todo' = todo \ {f}
    /\ UNCHANGED <<src, dirs, hash, versions, torn, has_development, gen>>
    /\ UNCHANGED <<pc, op, loaded, outcome>>

CopyHash ==
    /\ pc = "copy" /\ DotHash \in todo
    /\ hash' = [hash EXCEPT ![next_version] = hash[CURRENT_VERSION]]
    /\ todo' = todo \ {DotHash}
    /\ UNCHANGED <<src, dirs, files, versions, torn, has_development, gen>>
    /\ UNCHANGED <<pc, op, loaded, outcome>>

\* Variant: does not wait for the copy.
CopyEnd_Early ==
    /\ pc = "copy" /\ todo' = {}
    /\ Goto("append")
    /\ UNCHANGED disk

\* The exit status of mkdir && cp is not looked at.
CopyEnd ==
    /\ pc = "copy" /\ (todo = {} \/ Fault("command"))
    /\ todo' = {}
    /\ Goto("append")
    /\ UNCHANGED disk

\* interface-update.py opens interface.yaml for writing, which truncates it.
AppendVersion ==
    /\ pc = "append"
    /\ \/ /\ has_development = "1"
          /\ torn' = TRUE
          /\ Goto("write") /\ UNCHANGED todo
       \/ /\ has_development # "1" \/ Fault("command")
          /\ Exit(IF has_development = "1" THEN "ok" ELSE "nothing_happened")
          /\ UNCHANGED torn
    /\ UNCHANGED <<src, dirs, files, hash, versions, has_development, gen>>

WriteDefinition ==
    /\ pc = "write"
    /\ \/ versions' = versions + 1 /\ torn' = FALSE
       \/ Fault("command") /\ UNCHANGED <<versions, torn>>
    /\ Exit("ok")
    /\ UNCHANGED <<src, dirs, files, hash, has_development, gen>>

\* Variant: bakes in the digest of current.
Generate_CurrentHash(ver) ==
    /\ pc = "generate" /\ ver \in 1 .. next_version
    /\ LET d == version_dir(ver) IN
       /\ d \in dirs /\ Present(files[d]) # {}
       /\ gen' = [gen EXCEPT ![d] = Sources(ver, hash[CURRENT_VERSION], files[d])]
    /\ Exit("ok")
    /\ UNCHANGED <<src, dirs, files, hash, versions, torn, has_development>>

\* gen_cpp_sources; hash NoHash is the word "notfrozen".
Generate(ver) ==
    /\ pc = "generate"
    /\ LET d == version_dir(ver) IN
       \/ /\ ver \notin 1 .. next_version
          /\ Exit("bad_version") /\ UNCHANGED gen
       \/ /\ ver \in 1 .. next_version /\ (d \notin dirs \/ Present(files[d]) = {})
          /\ Exit("no_sources") /\ UNCHANGED gen
       \/ /\ ver \in 1 .. next_version /\ d \in dirs /\ Present(files[d]) # {}
          /\ \/ /\ gen' = [gen EXCEPT ![d] = Sources(ver, hash[d], files[d])]
                /\ Exit("ok")
             \/ /\ \E g \in {gen[d], PartialGen} : gen' = [gen EXCEPT ![d] = g]
                /\ Exit("aidl_failed")
    /\ UNCHANGED <<src, dirs, files, hash, versions, torn, has_development>>

-----------------------------------------------------------------------------
(* The environment *)

\* The process dies between two of its changes to the disk, or in the middle
\* of one that is not atomic.
Crash ==
    /\ Fault("crash") /\ pc # "idle"
    /\ Exit("crashed")
    /\ \/ UNCHANGED <<hash, gen>>
       \/ /\ pc = "hash_gen"
          /\ hash' = [hash EXCEPT ![CURRENT_VERSION] = EmptyHash]
          /\ UNCHANGED gen
       \/ /\ pc = "generate"
          /\ \E d \in dirs : gen' = [gen EXCEPT ![d] = PartialGen]
          /\ UNCHANGED hash
    /\ UNCHANGED <<src, dirs, files, versions, torn, has_development>>

\* A developer creates, saves or deletes a source file.
EditSource(f, c) ==
    /\ pc = "idle" \/ Fault("edit")
    /\ src[f] # c
    /\ src' = [src EXCEPT ![f] = c]
    /\ UNCHANGED <<dirs, files, hash, versions, torn, has_development, gen>>
    /\ UNCHANGED <<pc, op, loaded, todo, outcome>>

\* A developer puts back the last complete interface.yaml.
RestoreDefinition ==
    /\ pc = "idle" /\ torn
    /\ torn' = FALSE
    /\ UNCHANGED <<src, dirs, files, hash, versions, has_development, gen>>
    /\ UNCHANGED <<pc, op, loaded, todo, outcome>>

-----------------------------------------------------------------------------

Init ==
    /\ src \in Dir
    /\ dirs = {}
    /\ files = [v \in Versions |-> EmptyDir]
    /\ hash = [v \in Versions |-> NoHash]
    /\ versions = 0 /\ torn = FALSE
    /\ has_development = "none"
    /\ gen = [v \in Versions |-> NoGen]
    /\ pc = "idle" /\ op = "none" /\ loaded = 0 /\ todo = {}
    /\ outcome = "none"

Update == PreValidate \/ (\E f \in File : Rsync(f)) \/ RsyncEnd

Rehash == RemoveHash \/ HashGen

Freeze ==
    \/ CheckForDevelopment \/ DependenciesCheck
    \/ MakeVersionDir \/ (\E f \in File : CopyFile(f)) \/ CopyHash \/ CopyEnd
    \/ AppendVersion \/ WriteDefinition

GenerateSource == \E ver \in 0 .. loaded + 2 : Generate(ver)

Environment ==
    \/ Crash
    \/ \E f \in File, c \in Content \cup {Absent} : EditSource(f, c)
    \/ RestoreDefinition

Next ==
    \/ \E o \in Operations : Invoke(o)
    \/ LoadFails
    \/ Update \/ Rehash \/ Validate \/ Freeze \/ GenerateSource
    \/ Environment

Spec == Init /\ [][Next]_vars

-----------------------------------------------------------------------------
(* Properties *)

Labels == {"idle", "pre_validate", "rsync", "remove_hash", "hash_gen", "validate",
           "check_dev", "dep_check", "mkdir", "copy", "append", "write", "generate"}

\* Every variable stays in its type: in particular every .hash file, and every
\* version baked into generated sources, comes from the tool.
TypeOK ==
    /\ src \in Dir
    /\ dirs \subseteq Versions
    /\ files \in [Versions -> Dir]
    /\ hash \in [Versions -> Hash \cup {NoHash, EmptyHash}]
    /\ versions \in 0 .. MaxVersion /\ torn \in BOOLEAN
    /\ has_development \in {"none", "0", "1", "other"}
    /\ gen \in [Versions -> Gen \cup {NoGen, PartialGen}]
    /\ pc \in Labels /\ op \in Operations \cup {"none"}
    /\ loaded \in 0 .. MaxVersion
    /\ todo \subseteq File \cup {DotHash}

\* Every version that interface.yaml lists has its directory, and its .hash is
\* the digest of what the directory holds: freeze_api registers a version only
\* after a complete copy, also when an earlier freeze_api died half way and left
\* a directory of that number behind (check_integrity never fails on a frozen
\* version that nobody touched).
RegisteredIntact ==
    \A v \in 1 .. versions : v \in dirs /\ hash[v] = aidl_hash_gen(files[v], v)

\* A later version can stand in for every earlier one, and an earlier one never
\* for a later one: freeze_api compares a new version with the one before it
\* alone, yet no version breaks, or is, an API frozen long ago.
VersionsGrow ==
    \A v, w \in 1 .. versions :
        v < w => Compatible(files[v], files[w]) /\ ~Compatible(files[w], files[v])

\* stable/.../current never stops being a compatible successor of every frozen
\* version, whichever step update_api dies at: a half-copied current is still
\* one, so that update_api can be run again and freeze_api accepts it.
CurrentCompatible ==
    \A v \in 1 .. versions : Compatible(files[v], files[CURRENT_VERSION])

\* Sources generated for a frozen version carry that version's number, its
\* digest and its API for as long as they exist.
GeneratedMatchesFrozen ==
    \A v \in 1 .. versions :
        gen[v] \in {NoGen, PartialGen, Sources(v, hash[v], files[v])}

\* No step of the tool changes the files or the .hash of a version that
\* interface.yaml lists, or takes it off the list, whatever fails.
FrozenImmutable ==
    [][/\ versions' >= versions
       /\ \A v \in 1 .. versions : files'[v] = files[v] /\ hash'[v] = hash[v]]_vars

\* The registered versions are an append-only log of successively compatible,
\* different APIs.
Log == INSTANCE FrozenLog WITH log <- [v \in 1 .. versions |-> files[v]]

ImplementsFrozenLog == Log!Spec

-----------------------------------------------------------------------------
(* What the repository says, and the code does not do *)

\* "Above AIDL file(s) has changed, resulting in a different hash": the tool
\* reports an integrity failure only when some file differs from what its .hash
\* file was computed from.
IntegrityErrorMeansModified ==
    outcome = "integrity" =>
        \E d \in dirs : hash[d] = EmptyHash
                        \/ (hash[d] \in Hash /\ hash[d].api # files[d])

=============================================================================
