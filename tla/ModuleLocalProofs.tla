------------------------- MODULE ModuleLocalProofs -------------------------
(***************************************************************************)
(* Proofs about ModuleLocal, for every set of snapshots, every number of   *)
(* versions and every set of APIs.                                         *)
(***************************************************************************)
EXTENDS ModuleLocal, TLAPS

Def == [version : Int, versions : 0 .. MaxVersion]

\* The maps are maps over the module's directories; a definition is one, and
\* current never loses its own.
DiskInv ==
    /\ dirs \subseteq Place /\ CURRENT_VERSION \in dirs
    /\ files = [p \in Place |-> files[p]]
    /\ hash = [p \in Place |-> hash[p]]
    /\ gen = [p \in Place |-> gen[p]]
    /\ def = [p \in Place |-> def[p]]
    /\ \A p \in Place : def[p] \in Def \cup {NoDef}
    /\ def[CURRENT_VERSION] \in Def /\ \A l \in Label \cap dirs : def[l] \in Def
    /\ \A l \in Label : l \notin dirs => gen[l] = NoGen

\* A running tool works on current or on a snapshot, on current if it found it,
\* and knows the versions of what it works on.
ToolInv ==
    /\ pc = "idle" => roots = {}
    /\ pc # "idle" =>
        /\ chosen \in {CURRENT_VERSION} \cup (Label \cap dirs)
        /\ CURRENT_VERSION \in roots => chosen = CURRENT_VERSION
        /\ loaded = def[chosen].versions
        /\ op = "freeze_api" => loaded < MaxVersion
        /\ pc = "validate" => op \in {"freeze_api", "gen"}
        /\ pc \notin {"skip", "validate", "generate"} => op = "freeze_api"

\* Before current is compiled, its .hash has been checked.
CheckedInv ==
    pc = "generate" =>
        \/ hash[CURRENT_VERSION] = NoHash
        \/ hash[CURRENT_VERSION].api = files[CURRENT_VERSION]

ModuleInv == DiskInv /\ ToolInv

-----------------------------------------------------------------------------

LEMMA Places ==
    /\ CURRENT_VERSION \in Place /\ Label \subseteq Place /\ Versions \subseteq Place
    /\ CURRENT_VERSION \notin Versions /\ CURRENT_VERSION \notin Label
    /\ Versions \cap Label = {}
BY BoundsAssumption, LabelAssumption DEF Place, Versions, CURRENT_VERSION

LEMMA ModuleInit == Init => ModuleInv
<1> SUFFICES ASSUME Init PROVE ModuleInv
  OBVIOUS
<1>1. Definition(Unpinned, 0) \in Def
  BY BoundsAssumption DEF Def, Definition, Unpinned
<1> QED
  BY <1>1, Places DEF Init, ModuleInv, DiskInv, ToolInv

LEMMA NextIsVersion ==
    ASSUME ModuleInv, pc # "idle", op = "freeze_api"
    PROVE  next_version \in Versions /\ loaded \in 0 .. MaxVersion
<1>1. def[chosen] \in Def
  BY DEF ModuleInv, DiskInv, ToolInv
<1> QED
  BY <1>1, BoundsAssumption DEF ModuleInv, ToolInv, Def, Versions, next_version

LEMMA ModuleStep ==
    ASSUME ModuleInv, [Next]_vars
    PROVE  ModuleInv'
<1> USE Places, BoundsAssumption DEF ModuleInv
<1>1. ASSUME NEW o \in {"update_api", "freeze_api", "gen"}, NEW R \in Roots, Invoke(o, R)
      PROVE  ModuleInv'
  <2>1. PICK p \in Winners(R) : /\ o = "freeze_api" => def[p].versions < MaxVersion
                                /\ chosen' = p /\ loaded' = def[p].versions
    BY <1>1 DEF Invoke
  <2>0. CURRENT_VERSION \in Defined
    BY NoDefAssumption DEF DiskInv, Def, Defined
  <2>2. p \in Defined /\ (p \in Versions => p = CURRENT_VERSION)
    BY <2>0, <2>1 DEF Winners, Roots
  <2>3. p \in {CURRENT_VERSION} \cup (Label \cap dirs)
    BY <2>2 DEF Defined, DiskInv, Place
  <2>4. DiskInv'
    BY <1>1 DEF Invoke, DiskInv, disk
  <2>5. CURRENT_VERSION \in R => p = CURRENT_VERSION
    BY <2>1 DEF Winners
  <2>6. ToolInv'
    BY <1>1, <2>1, <2>3, <2>5 DEF Invoke, ToolInv, disk
  <2> QED
    BY <2>4, <2>6
<1>2. ASSUME Exit, UNCHANGED disk PROVE ModuleInv'
  BY <1>2 DEF Exit, disk, DiskInv, ToolInv
<1>3. ASSUME NEW given, Validate(given) PROVE ModuleInv'
  <2>1. CASE Exit
    BY <1>2, <1>3, <2>1 DEF Validate
  <2>2. CASE Goto(IF op = "gen" THEN "generate" ELSE "remove_hash")
    BY <1>3, <2>2 DEF Validate, Goto, disk, DiskInv, ToolInv
  <2> QED
    BY <1>3, <2>1, <2>2 DEF Validate
<1>4. CASE Generate
  BY <1>4 DEF Generate, Exit, DiskInv, ToolInv
<1>5. CASE RemoveHash
  BY <1>5 DEF RemoveHash, Goto, DiskInv, ToolInv
<1>6. CASE HashGen
  BY <1>6 DEF HashGen, Goto, DiskInv, ToolInv
<1>7. CASE MakeVersionDir
  <2>1. next_version \in Versions
    BY <1>7, NextIsVersion DEF MakeVersionDir, ToolInv
  <2>2. CASE Exit /\ UNCHANGED dirs
    BY <1>2, <1>7, <2>2 DEF MakeVersionDir, disk
  <2>3. CASE dirs' = dirs \cup {next_version} /\ Goto("copy")
    BY <1>7, <2>1, <2>3 DEF MakeVersionDir, Goto, DiskInv, ToolInv
  <2> QED
    BY <1>7, <2>2, <2>3 DEF MakeVersionDir
<1>8. ASSUME NEW part \in Parts, Copy(part) PROVE ModuleInv'
  <2>1. next_version \in Versions
    BY <1>8, NextIsVersion DEF Copy, ToolInv
  <2>2. /\ files' = [p \in Place |-> files'[p]] /\ hash' = [p \in Place |-> hash'[p]]
        /\ gen' = [p \in Place |-> gen'[p]] /\ def' = [p \in Place |-> def'[p]]
    BY <1>8, <2>1 DEF Copy, DiskInv
  <2>3. \A p \in Place : p # next_version => def'[p] = def[p] /\ gen'[p] = gen[p]
    BY <1>8, <2>1 DEF Copy, DiskInv
  <2>4. def'[next_version] \in Def \cup {NoDef}
    BY <1>8, <2>1 DEF Copy, DiskInv
  <2>5. DiskInv'
    BY <1>8, <2>1, <2>2, <2>3, <2>4 DEF Copy, DiskInv
  <2> QED
    BY <1>8, <2>1, <2>3, <2>5 DEF Copy, ToolInv
<1>9. CASE RemoveDefinition
  <2>1. next_version \in Versions
    BY <1>9, NextIsVersion DEF RemoveDefinition, ToolInv
  <2> QED
    BY <1>9, <2>1 DEF RemoveDefinition, Goto, DiskInv, ToolInv
<1>10. CASE AppendVersion
  BY <1>10 DEF AppendVersion, Goto, DiskInv, ToolInv
<1>11. CASE WriteDefinition
  <2>0. op = "freeze_api" /\ pc # "idle"
    BY <1>11 DEF WriteDefinition, ToolInv
  <2>1. loaded + 1 \in 0 .. MaxVersion /\ chosen \in Place /\ def[chosen] \in Def
    BY <2>0, NextIsVersion DEF ToolInv, DiskInv, next_version, Versions
  <2>2. Definition(def[chosen].version, def[chosen].versions + 1) \in Def
    BY <1>11, <2>1 DEF WriteDefinition, Definition, Def, ToolInv
  <2>3. def' = [def EXCEPT ![chosen] =
                  Definition(def[chosen].version, def[chosen].versions + 1)]
    BY <1>11 DEF WriteDefinition
  <2> QED
    BY <1>11, <2>1, <2>2, <2>3 DEF WriteDefinition, Exit, DiskInv, ToolInv
<1>12. ASSUME NEW d, Edit(d) PROVE ModuleInv'
  BY <1>12 DEF Edit, process, DiskInv, ToolInv
<1>13. CASE DeleteHash
  BY <1>13 DEF DeleteHash, process, DiskInv, ToolInv
<1>14. ASSUME NEW p, RestoreDefinition(p) PROVE ModuleInv'
  BY <1>14 DEF RestoreDefinition, process, DiskInv, ToolInv
<1>15. ASSUME NEW l \in Label, NEW pin \in Unpinned .. MaxOrdinal, NEW h, Release(l, pin, h)
       PROVE  ModuleInv'
  <2>1. Definition(pin, def[CURRENT_VERSION].versions) \in Def
    BY DEF DiskInv, Def, Definition, Unpinned
  <2> QED
    BY <1>15, <2>1 DEF Release, process, DiskInv, ToolInv
<1>16. CASE UNCHANGED vars
  BY <1>16 DEF vars, disk, process, DiskInv, ToolInv
<1> QED
  BY <1>1, <1>2, <1>3, <1>4, <1>5, <1>6, <1>7, <1>8, <1>9, <1>10, <1>11, <1>12, <1>13, <1>14,
     <1>15, <1>16
  DEF Next, Tool, Environment, Skip, Crash

-----------------------------------------------------------------------------
(* Frozen versions and snapshots *)

Kept(p) ==
    /\ files'[p] = files[p] /\ hash'[p] = hash[p]
    /\ def'[p] = def[p] /\ gen'[p] = gen[p]

LEMMA KeepsStep ==
    ASSUME ModuleInv, [Next]_vars, CURRENT_VERSION \in roots,
           NEW p \in 1 .. def[CURRENT_VERSION].versions \cup Label
    PROVE  Kept(p)
<1> USE DEF Kept
<1>0. /\ pc # "idle" /\ chosen = CURRENT_VERSION /\ p # CURRENT_VERSION /\ p \in Place
      /\ loaded = def[CURRENT_VERSION].versions /\ loaded \in 0 .. MaxVersion
  BY Places, BoundsAssumption
  DEF ModuleInv, DiskInv, ToolInv, Def, Place, Versions, CURRENT_VERSION
<1>1. ASSUME op = "freeze_api" PROVE next_version \in Versions /\ next_version # p
  BY <1>0, <1>1, Places, NextIsVersion, BoundsAssumption DEF ModuleInv, next_version
<1>2. CASE UNCHANGED disk
  BY <1>2 DEF disk
<1>3. CASE Generate
  BY <1>0, <1>3, Places DEF Generate, ModuleInv, DiskInv
<1>4. CASE RemoveHash \/ HashGen
  BY <1>0, <1>4, Places DEF RemoveHash, HashGen, ModuleInv, DiskInv
<1>5. ASSUME NEW part \in Parts, Copy(part) PROVE Kept(p)
  BY <1>0, <1>1, <1>5, Places DEF Copy, ModuleInv, DiskInv, ToolInv
<1>6. CASE RemoveDefinition
  BY <1>0, <1>1, <1>6, Places DEF RemoveDefinition, ModuleInv, DiskInv, ToolInv
<1>7. CASE WriteDefinition
  BY <1>0, <1>7, Places DEF WriteDefinition, ModuleInv, DiskInv
<1> QED
  BY <1>0, <1>2, <1>3, <1>4, <1>5, <1>6, <1>7
  DEF Next, Tool, Environment, Invoke, Skip, Validate, MakeVersionDir, AppendVersion, Crash,
      Edit, DeleteHash, RestoreDefinition, Release, disk, vars

\* Given the whole module, no operation changes a version that current registers
\* or a snapshot, whatever crashed before and whatever definitions it left.
THEOREM WholeTreeSafe == Spec => WholeTreeKeepsFrozen
<1>1. ModuleInv /\ [Next]_vars => ModuleInv'
  BY ModuleStep
<1>2. ModuleInv /\ [Next]_vars =>
        [(CURRENT_VERSION \in roots) =>
           \A p \in 1 .. def[CURRENT_VERSION].versions \cup Label :
               /\ files'[p] = files[p] /\ hash'[p] = hash[p]
               /\ def'[p] = def[p] /\ gen'[p] = gen[p]]_vars
  BY KeepsStep DEF Kept
<1> QED
  BY ModuleInit, <1>1, <1>2, PTL DEF Spec, WholeTreeKeepsFrozen

-----------------------------------------------------------------------------
(* Generated sources *)

\* What a step may change of a snapshot.
LEMMA SnapshotStep ==
    ASSUME ModuleInv, [Next]_vars, NEW l \in Label, l \in dirs', ~(Generate /\ chosen = l)
    PROVE  \/ gen'[l] = NoGen
           \/ /\ l \in dirs /\ files'[l] = files[l] /\ hash'[l] = hash[l] /\ gen'[l] = gen[l]
              /\ def'[l].version = def[l].version
<1> USE Places DEF ModuleInv, DiskInv
<1>1. CASE UNCHANGED <<dirs, files, hash, def, gen>>
  BY <1>1
<1>2. CASE Generate
  BY <1>2 DEF Generate
<1>3. CASE RemoveHash \/ HashGen \/ DeleteHash
  BY <1>3 DEF RemoveHash, HashGen, DeleteHash
<1>4. ASSUME op = "freeze_api", pc # "idle" PROVE next_version \in Versions
  BY <1>4, NextIsVersion
<1>5. CASE MakeVersionDir
  BY <1>4, <1>5 DEF MakeVersionDir, ToolInv
<1>6. ASSUME NEW part \in Parts, Copy(part)
      PROVE  /\ l \in dirs /\ files'[l] = files[l] /\ hash'[l] = hash[l]
             /\ gen'[l] = gen[l] /\ def'[l] = def[l]
  BY <1>4, <1>6 DEF Copy, ToolInv
<1>7. CASE RemoveDefinition
  BY <1>4, <1>7 DEF RemoveDefinition, ToolInv
<1>8. CASE WriteDefinition
  <2>1. def'[l] \in {def[l], Definition(def[l].version, def[l].versions + 1)}
    BY <1>8 DEF WriteDefinition
  <2> QED
    BY <1>8, <2>1 DEF WriteDefinition, Definition
<1>9. ASSUME NEW d, Edit(d) PROVE UNCHANGED <<dirs, hash, def, gen>> /\ files'[l] = files[l]
  BY <1>9 DEF Edit
<1>10. ASSUME NEW k \in Label, NEW pin, NEW h, Release(k, pin, h), k # l
       PROVE  /\ l \in dirs /\ files'[l] = files[l] /\ hash'[l] = hash[l]
              /\ gen'[l] = gen[l] /\ def'[l] = def[l]
  BY <1>10 DEF Release
<1>11. ASSUME NEW pin, NEW h, Release(l, pin, h) PROVE gen'[l] = NoGen
  BY <1>11 DEF Release
<1> QED
  BY <1>1, <1>2, <1>3, <1>5, <1>6, <1>7, <1>8, <1>9, <1>10, <1>11
  DEF Next, Tool, Environment, Invoke, Skip, Validate, AppendVersion, Crash,
      RestoreDefinition, disk, vars

LEMMA PinnedStep ==
    ASSUME ModuleInv, PinnedSourcesMatch, [Next]_vars
    PROVE  PinnedSourcesMatch'
<1> SUFFICES ASSUME NEW l \in Label, l \in dirs', def'[l].version # Unpinned,
                    gen'[l] \notin {NoGen, PartialGen}
             PROVE  /\ gen'[l] = Sources(def'[l].version, hash'[l], files'[l])
                    /\ hash'[l] # NoHash
  BY DEF PinnedSourcesMatch
<1>1. CASE ~(Generate /\ chosen = l)
  BY <1>1, SnapshotStep DEF PinnedSourcesMatch
<1>2. CASE Generate /\ chosen = l
  <2>1. UNCHANGED <<dirs, files, hash, def>>
    BY <1>2 DEF Generate
  <2>2. CASE gen'[l] = gen[l]
    BY <2>1, <2>2 DEF PinnedSourcesMatch
  <2>3. CASE gen'[l] # gen[l]
    <3>1. PICK ver \in resolve_emit_version(l) :
            gen'[l] = Sources(ver, hash[l], files[l])
      BY <1>2, <2>3, Places DEF Generate, ModuleInv, DiskInv
    <3>2. ver = def[l].version /\ hash[l] # NoHash
      BY <2>1, <3>1 DEF resolve_emit_version
    <3> QED
      BY <2>1, <3>1, <3>2
  <2> QED
    BY <2>2, <2>3
<1> QED
  BY <1>1, <1>2

\* Sources with a pinned version are those of the snapshot that pins it, with its
\* digest and its API, whatever becomes of current.
THEOREM PinnedAlwaysMatch == Spec => []PinnedSourcesMatch
<1>1. Init => PinnedSourcesMatch
  BY Places DEF Init, PinnedSourcesMatch
<1>2. ModuleInv /\ PinnedSourcesMatch /\ [Next]_vars => (ModuleInv /\ PinnedSourcesMatch)'
  BY ModuleStep, PinnedStep
<1> QED
  BY ModuleInit, <1>1, <1>2, PTL DEF Spec

Matches(g) == g \in {NoGen, PartialGen} \/ g.hash = NoHash \/ g.hash.api = g.api

LEMMA CheckedStep ==
    ASSUME ModuleInv, CheckedInv, [Next]_vars
    PROVE  CheckedInv'
<1>1. CASE pc' # "generate"
  BY <1>1 DEF CheckedInv
<1>2. ASSUME NEW given, Validate(given), pc' = "generate" PROVE CheckedInv'
  <2>1. validate_interface /\ UNCHANGED <<files, hash>>
    BY <1>2 DEF Validate, Exit, disk
  <2>2. check_integrity(next_version) /\ version_dir(next_version) = CURRENT_VERSION
    BY <2>1 DEF validate_interface, api_dumps, version_dir
  <2> QED
    BY <2>1, <2>2 DEF check_integrity, aidl_hash_gen, CheckedInv
<1>3. CASE UNCHANGED <<files, hash, pc>>
  BY <1>3 DEF CheckedInv
<1> QED
  BY <1>1, <1>2, <1>3
  DEF Next, Tool, Environment, Invoke, Skip, Generate, RemoveHash, HashGen, MakeVersionDir,
      Copy, RemoveDefinition, AppendVersion, WriteDefinition, Crash, Edit, DeleteHash,
      RestoreDefinition, Release, Goto, Exit, disk, vars, process

LEMMA DigestStep ==
    ASSUME ModuleInv, CheckedInv, DigestIsOfSources, [Next]_vars
    PROVE  DigestIsOfSources'
<1> USE Places DEF ModuleInv, DiskInv
<1>0. \A p \in {CURRENT_VERSION} \cup Versions : Matches(gen[p])
  BY DEF DigestIsOfSources, Matches
<1> SUFFICES ASSUME NEW p \in {CURRENT_VERSION} \cup Versions
             PROVE  Matches(gen'[p])
  BY DEF DigestIsOfSources, Matches
<1>1. CASE gen' = gen
  BY <1>0, <1>1
<1>2. CASE Generate
  <2>1. CASE chosen # p \/ gen'[p] \in {gen[p], PartialGen}
    BY <1>0, <1>2, <2>1 DEF Generate, Matches
  <2>2. CASE chosen = p /\ gen'[p] \notin {gen[p], PartialGen}
    <3>1. p = CURRENT_VERSION
      BY <1>2, <2>2 DEF Generate, ToolInv
    <3>2. PICK ver : gen'[p] = Sources(ver, hash[p], files[p])
      BY <1>2, <2>2 DEF Generate
    <3>3. hash[p] = NoHash \/ hash[p].api = files[p]
      BY <1>2, <3>1 DEF Generate, CheckedInv
    <3> QED
      BY <3>2, <3>3 DEF Sources, Matches
  <2> QED
    BY <2>1, <2>2
<1>3. ASSUME NEW part \in Parts, Copy(part) PROVE Matches(gen'[p])
  <2>1. next_version \in Versions
    BY <1>3, NextIsVersion DEF Copy, ToolInv
  <2>2. gen'[p] \in {gen[p], gen[CURRENT_VERSION]}
    BY <1>3, <2>1 DEF Copy
  <2> QED
    BY <1>0, <2>2
<1> QED
  BY <1>1, <1>2, <1>3
  DEF Next, Tool, Environment, Invoke, Skip, Validate, RemoveHash, HashGen, MakeVersionDir,
      RemoveDefinition, AppendVersion, WriteDefinition, Crash, Edit, DeleteHash,
      RestoreDefinition, Release, disk, vars

\* Neither current nor a version frozen from it ever holds sources with a digest
\* of another API.
THEOREM DigestAlwaysOfSources == Spec => []DigestIsOfSources
<1> DEFINE Inv == ModuleInv /\ CheckedInv /\ DigestIsOfSources
<1>1. Init => Inv
  BY ModuleInit, Places DEF Init, CheckedInv, DigestIsOfSources
<1>2. Inv /\ [Next]_vars => Inv'
  BY ModuleStep, CheckedStep, DigestStep
<1> QED
  BY <1>1, <1>2, PTL DEF Spec

=============================================================================
