------------------------------ MODULE TwoTools ------------------------------
(***************************************************************************)
(* A build that generates sources (aidl_ops -g) while a developer updates  *)
(* and freezes the same interface: two processes on one tree, without any  *)
(* lock.  The developer's process is that of AidlApi.  The builder's is    *)
(* taken apart here into its reads of the disk, since the disk may change  *)
(* between any two of them.                                                *)
(***************************************************************************)
EXTENDS AidlApi

VARIABLES
    b_pc,       \* where the builder is
    b_loaded,   \* the number of versions it loaded
    b_ver,      \* the version it was asked for
    b_dumps,    \* the API dumps it has yet to check
    b_files,    \* the .aidl files it found
    b_hash,     \* the digest it is going to bake in
    b_blames    \* whom its last run found fault with, if anybody

builder == <<b_pc, b_loaded, b_ver, b_dumps, b_files, b_hash, b_blames>>

process == <<pc, op, loaded, todo, outcome>>

vars2 == <<vars, builder>>

-----------------------------------------------------------------------------

b_next == b_loaded + 1

\* Variant: reads interface.yaml again instead of using what it loaded.
b_dir_Reloaded(ver) == IF ver = versions + 1 THEN CURRENT_VERSION ELSE ver

b_dir(ver) == IF ver = b_next THEN CURRENT_VERSION ELSE ver

BGoto(label) == b_pc' = label /\ UNCHANGED <<b_loaded, b_ver, b_blames>>

BExit(culprit) ==
    /\ b_pc' = "idle" /\ b_loaded' = 0 /\ b_ver' = 0
    /\ b_dumps' = {} /\ b_files' = {} /\ b_hash' = NoHash
    /\ b_blames' = culprit

\* load_interfaces, on an interface.yaml that may be truncated at the moment.
BLoad(ver) ==
    /\ b_pc = "idle"
    /\ IF torn THEN BExit("nobody")
       ELSE /\ b_pc' = "current" /\ b_loaded' = versions /\ b_ver' = ver
            /\ b_blames' = "nobody"
            /\ UNCHANGED <<b_dumps, b_files, b_hash>>
    /\ UNCHANGED <<disk, process>>

\* validate_interface looks for current before it looks for the frozen versions.
BLookForCurrent ==
    /\ b_pc = "current"
    /\ b_dumps' = IF CURRENT_VERSION \in dirs THEN {b_next} ELSE {}
    /\ BGoto("versions")
    /\ UNCHANGED <<disk, process, b_files, b_hash>>

\* A current that has come into being since then is used before it is defined.
BListVersions ==
    /\ b_pc = "versions"
    /\ LET frozen == IF has_frozen_versions THEN 1 .. b_loaded ELSE {} IN
       IF \E v \in frozen : v \notin dirs THEN BExit("frozen")
       ELSE IF CURRENT_VERSION \in dirs /\ b_dumps = {} THEN BExit("nobody")
       ELSE b_dumps' = b_dumps \cup frozen /\ BGoto("integrity") /\ UNCHANGED <<b_files, b_hash>>
    /\ UNCHANGED <<disk, process>>

FirstDump == CHOOSE v \in b_dumps : \A w \in b_dumps : v <= w

\* Whose check failed.
Culprit(v) == IF v = b_next THEN "current" ELSE "frozen"

BCheckIntegrity ==
    /\ b_pc = "integrity"
    /\ IF b_dumps = {} THEN BExit("nobody")
       ELSE LET v == FirstDump
                d == b_dir(v)
            IN  IF \/ hash[d] # NoHash /\ hash[d] # aidl_hash_gen(files[d], v)
                   \/ hash[d] = NoHash /\ b_dumps # {v}
                THEN BExit(Culprit(v))
                ELSE BGoto("compatibility") /\ UNCHANGED <<b_dumps, b_files, b_hash>>
    /\ UNCHANGED <<disk, process>>

\* The dump before it is the first one's predecessor only when versions were listed.
BCheckCompatibility ==
    /\ b_pc = "compatibility"
    /\ LET v == FirstDump IN
       IF v > 1 /\ b_dir(v - 1) \in dirs /\ ~Compatible(files[v - 1], files[b_dir(v)])
       THEN BExit(Culprit(v))
       ELSE /\ b_dumps' = b_dumps \ {v}
            /\ BGoto(IF v = b_next THEN "sources" ELSE "integrity")
            /\ UNCHANGED <<b_files, b_hash>>
    /\ UNCHANGED <<disk, process>>

\* handle_source_gen refuses a version that does not exist; gen_cpp_sources lists
\* the sources first,
BListSources ==
    /\ b_pc = "sources"
    /\ IF b_ver \notin 1 .. b_next THEN BExit("nobody")
       ELSE IF b_dir(b_ver) \notin dirs \/ Present(files[b_dir(b_ver)]) = {}
       THEN BExit("nobody")
       ELSE /\ b_files' = Present(files[b_dir(b_ver)])
            /\ BGoto("hash") /\ UNCHANGED <<b_dumps, b_hash>>
    /\ UNCHANGED <<disk, process>>

\* then reads the digest,
BReadHash ==
    /\ b_pc = "hash"
    /\ b_hash' = hash[b_dir(b_ver)]
    /\ BGoto("compile")
    /\ UNCHANGED <<disk, process, b_dumps, b_files>>

\* and then has aidl compile what is in the listed files by now.
BCompile ==
    /\ b_pc = "compile"
    /\ LET d   == b_dir(b_ver)
           api == [f \in File |-> IF f \in b_files THEN files[d][f] ELSE Absent]
       IN  \/ /\ gen' = [gen EXCEPT ![d] = Sources(b_ver, b_hash, api)]
              /\ BExit("nobody")
           \/ /\ \E g \in {gen[d], PartialGen} : gen' = [gen EXCEPT ![d] = g]
              /\ BExit("nobody")
    /\ UNCHANGED <<src, dirs, files, hash, versions, torn, has_development, process>>

BDies ==
    /\ Fault("crash") /\ b_pc # "idle"
    /\ BExit("nobody")
    /\ UNCHANGED <<disk, process>>

-----------------------------------------------------------------------------

Init2 ==
    /\ Init
    /\ b_pc = "idle" /\ b_loaded = 0 /\ b_ver = 0 /\ b_dumps = {} /\ b_files = {}
    /\ b_hash = NoHash /\ b_blames = "nobody"

Developer == Next /\ UNCHANGED builder

Builder ==
    \/ \E ver \in 1 .. MaxVersion + 1 : BLoad(ver)
    \/ BLookForCurrent \/ BListVersions \/ BCheckIntegrity \/ BCheckCompatibility
    \/ BListSources \/ BReadHash \/ BCompile \/ BDies

Next2 == Developer \/ Builder

Spec2 == Init2 /\ [][Next2]_vars2

-----------------------------------------------------------------------------
(* Properties *)

\* Whenever it runs, and whatever update_api or freeze_api is doing or has died
\* doing, the builder never misses a frozen version, and never finds one modified,
\* unhashed or incompatible: freeze_api registers a version only when it is
\* complete.  (It may well find fault with current.)
FrozenNeverBlamed == b_blames # "frozen"

=============================================================================
