--------------------------- MODULE AidlApiProofs ---------------------------
(***************************************************************************)
(* Proofs about AidlApi and TwoTools, for every set of files and contents, *)
(* every compatibility preorder and every bound on the number of versions. *)
(***************************************************************************)
EXTENDS TwoTools, SequenceTheorems, TLAPS

FreezeLabels == {"check_dev", "dep_check", "mkdir", "copy", "append", "write"}

Committing == {"append", "write"}

\* What a running tool knows: nobody else changes interface.yaml, so what it
\* loaded is what the file says; only freeze_api gets past the rehash, and never
\* beyond the bound.
ProcessInv ==
    /\ pc # "idle" => loaded = versions
    /\ pc # "idle" /\ op = "freeze_api" => versions < MaxVersion
    /\ pc \in {"pre_validate", "rsync"} => op = "update_api"
    /\ pc \in {"remove_hash", "hash_gen"} => op \in {"update_api", "freeze_api"}
    /\ pc \in FreezeLabels => op = "freeze_api"

\* The directory a freeze_api that died left behind holds no file that current
\* does not hold, since update_api deletes nothing.
LeftoverInv ==
    \A v \in Versions : v > versions =>
        Present(files[v]) \subseteq Present(files[CURRENT_VERSION])

\* How far the running freeze_api has come with the copy.
CopyInv ==
    /\ pc \in FreezeLabels =>
         hash[CURRENT_VERSION] = aidl_hash_gen(files[CURRENT_VERSION], versions + 1)
    /\ pc = "write" => has_development = "1"
    /\ pc = "copy" =>
         /\ has_development = "1"
         /\ versions + 1 \in dirs
         /\ \A f \in File \ todo :
              files[versions + 1][f] = files[CURRENT_VERSION][f]
         /\ DotHash \in todo \/ hash[versions + 1] = hash[CURRENT_VERSION]
    /\ pc \in Committing /\ has_development = "1" =>
         /\ versions + 1 \in dirs
         /\ files[versions + 1] = files[CURRENT_VERSION]
         /\ hash[versions + 1] = hash[CURRENT_VERSION]

IntactInv == TypeOK /\ ProcessInv /\ LeftoverInv /\ CopyInv /\ RegisteredIntact

\* What freeze_api found out about current still holds when it registers it.
FreezeInv ==
    versions > 0 =>
      /\ pc \in FreezeLabels \/ (pc \in {"remove_hash", "hash_gen"} /\ op = "freeze_api") =>
           Compatible(files[versions], files[CURRENT_VERSION])
      /\ pc \in FreezeLabels \ {"check_dev"} /\ has_development = "1" =>
           ~Equal(files[versions], files[CURRENT_VERSION])

\* All version directories, registered or left behind, precede current, and a
\* running update_api copies a successor of current.
MonotoneInv ==
    /\ has_frozen_versions \/ pc \in FreezeLabels \cup {"rsync", "remove_hash", "hash_gen"} =>
         CURRENT_VERSION \in dirs
    /\ pc = "copy" => versions + 1 \in dirs
    /\ \A v \in 1 .. MaxVersion :
         /\ v \notin dirs => Present(files[v]) = {}
         /\ Compatible(files[v], files[CURRENT_VERSION])
    /\ pc = "rsync" /\ has_frozen_versions => Compatible(files[CURRENT_VERSION], src)

-----------------------------------------------------------------------------

LEMMA TypeInit == Init => TypeOK /\ ProcessInv
<1> SUFFICES ASSUME Init PROVE TypeOK /\ ProcessInv
  OBVIOUS
<1>1. TypeOK
  <2>1. EmptyDir \in Dir
    BY DEF EmptyDir, Dir
  <2>2. files \in [Versions -> Dir]
    BY <2>1 DEF Init
  <2>3. hash \in [Versions -> Hash \cup {NoHash, EmptyHash}]
    BY DEF Init
  <2>4. gen \in [Versions -> Gen \cup {NoGen, PartialGen}]
    BY DEF Init
  <2>5. torn \in BOOLEAN
    BY Zenon DEF Init
  <2> QED
    BY <2>2, <2>3, <2>4, <2>5, MaxVersionAssumption DEF Init, TypeOK, Labels
<1>2. ProcessInv
  BY DEF Init, ProcessInv, FreezeLabels
<1> QED
  BY <1>1, <1>2

LEMMA HashType ==
    ASSUME TypeOK, pc # "idle", ProcessInv
    PROVE  /\ next_version \in 1 .. MaxVersion + 1
           /\ aidl_hash_gen(files[CURRENT_VERSION], next_version) \in Hash
<1>1. next_version \in 1 .. MaxVersion + 1
  BY MaxVersionAssumption DEF TypeOK, next_version
<1>2. version_for_hashgen(next_version) \in Versions
  BY <1>1, MaxVersionAssumption DEF version_for_hashgen, Versions, CURRENT_VERSION
<1>3. files[CURRENT_VERSION] \in Dir
  BY MaxVersionAssumption DEF TypeOK, Versions, CURRENT_VERSION
<1> QED
  BY <1>1, <1>2, <1>3 DEF aidl_hash_gen, Hash

LEMMA TypeStep == TypeOK /\ ProcessInv /\ [Next]_vars => TypeOK' /\ ProcessInv'
<1> SUFFICES ASSUME TypeOK, ProcessInv, [Next]_vars
             PROVE  TypeOK' /\ ProcessInv'
  OBVIOUS
<1> USE MaxVersionAssumption
<1>0. CURRENT_VERSION \in Versions
  BY DEF Versions, CURRENT_VERSION
<1>1. ASSUME NEW o \in Operations, Invoke(o) PROVE TypeOK' /\ ProcessInv'
  BY <1>1 DEF TypeOK, ProcessInv, Invoke, disk, Labels, FreezeLabels
<1>2. CASE LoadFails
  BY <1>2 DEF TypeOK, ProcessInv, LoadFails, disk, Labels
<1>3. CASE PreValidate
  BY <1>3, <1>0 DEF TypeOK, ProcessInv, PreValidate, Exit, Goto, Present, Labels, FreezeLabels
<1>4. ASSUME NEW f \in File, Rsync(f) PROVE TypeOK' /\ ProcessInv'
  <2>1. files' \in [Versions -> Dir]
    BY <1>4, <1>0 DEF TypeOK, Rsync, Dir
  <2> QED
    BY <2>1, <1>4 DEF TypeOK, ProcessInv, Rsync, Labels
<1>5. CASE RsyncEnd
  BY <1>5 DEF TypeOK, ProcessInv, RsyncEnd, Goto, disk, Labels, FreezeLabels
<1>6. CASE RemoveHash
  BY <1>6, <1>0 DEF TypeOK, ProcessInv, RemoveHash, Goto, Labels, FreezeLabels
<1>7. CASE HashGen
  <2>1. aidl_hash_gen(files[CURRENT_VERSION], next_version) \in Hash
    BY <1>7, HashType DEF HashGen
  <2>2. hash' \in [Versions -> Hash \cup {NoHash, EmptyHash}]
    BY <2>1, <1>7, <1>0 DEF TypeOK, HashGen
  <2> QED
    BY <2>2, <1>7 DEF TypeOK, ProcessInv, HashGen, Goto, Labels, FreezeLabels
<1>8. CASE Validate
  BY <1>8 DEF TypeOK, ProcessInv, Validate, Exit, Goto, disk, Labels, FreezeLabels
<1>9. CASE CheckForDevelopment
  BY <1>9 DEF TypeOK, ProcessInv, CheckForDevelopment, Goto, Labels, FreezeLabels
<1>10. CASE DependenciesCheck
  BY <1>10 DEF TypeOK, ProcessInv, DependenciesCheck, Exit, Goto, disk, Labels, FreezeLabels
<1>11. CASE MakeVersionDir
  <2>1. next_version \in Versions
    BY <1>11 DEF TypeOK, ProcessInv, MakeVersionDir, FreezeLabels, next_version, Versions, CURRENT_VERSION
  <2> QED
    BY <2>1, <1>11 DEF TypeOK, ProcessInv, MakeVersionDir, Goto, Labels, FreezeLabels, Present
<1>12. ASSUME NEW f \in File, CopyFile(f) PROVE TypeOK' /\ ProcessInv'
  <2>1. files[CURRENT_VERSION][f] \in Content \cup {Absent}
    BY <1>0 DEF TypeOK, Dir
  <2>2. files' \in [Versions -> Dir]
    BY <2>1, <1>12, Zenon DEF TypeOK, CopyFile, Dir
  <2> QED
    BY <2>2, <1>12 DEF TypeOK, ProcessInv, CopyFile, Labels
<1>13. CASE CopyHash
  BY <1>13, <1>0, Zenon DEF TypeOK, ProcessInv, CopyHash, Labels
<1>14. CASE CopyEnd
  BY <1>14 DEF TypeOK, ProcessInv, CopyEnd, Goto, disk, Labels, FreezeLabels
<1>15. CASE AppendVersion
  <2>1. torn' \in BOOLEAN
    BY <1>15, Zenon DEF TypeOK, AppendVersion
  <2> QED
    BY <2>1, <1>15 DEF TypeOK, ProcessInv, AppendVersion, Exit, Goto, Labels, FreezeLabels
<1>16. CASE WriteDefinition
  <2>1. torn' \in BOOLEAN
    BY <1>16, Zenon DEF TypeOK, WriteDefinition
  <2> QED
    BY <2>1, <1>16 DEF TypeOK, ProcessInv, WriteDefinition, Exit, Labels, FreezeLabels
<1>17. ASSUME NEW ver \in 0 .. loaded + 2, Generate(ver) PROVE TypeOK' /\ ProcessInv'
  <2>1. gen' \in [Versions -> Gen \cup {NoGen, PartialGen}]
    <3>1. CASE gen' = gen
      BY <3>1 DEF TypeOK
    <3>2. CASE ver \in 1 .. next_version /\ version_dir(ver) \in dirs
      <4>1. version_dir(ver) \in Versions /\ ver \in 1 .. MaxVersion + 1
        BY <3>2 DEF TypeOK, version_dir, next_version, Versions, CURRENT_VERSION
      <4>2. Sources(ver, hash[version_dir(ver)], files[version_dir(ver)]) \in Gen
        BY <4>1 DEF TypeOK, Gen, Sources
      <4>3. gen[version_dir(ver)] \in Gen \cup {NoGen, PartialGen}
        BY <4>1 DEF TypeOK
      <4> QED
        BY <4>1, <4>2, <4>3, <1>17 DEF TypeOK, Generate
    <3> QED
      BY <3>1, <3>2, <1>17 DEF Generate
  <2> QED
    BY <2>1, <1>17 DEF TypeOK, ProcessInv, Generate, Exit, Labels, FreezeLabels
<1>18. CASE Crash
  BY <1>18, <1>0 DEF TypeOK, ProcessInv, Crash, Exit, Labels, FreezeLabels
<1>19. ASSUME NEW f \in File, NEW c \in Content \cup {Absent}, EditSource(f, c)
       PROVE  TypeOK' /\ ProcessInv'
  BY <1>19 DEF TypeOK, ProcessInv, EditSource, Dir
<1>20. CASE RestoreDefinition
  BY <1>20, Zenon DEF TypeOK, ProcessInv, RestoreDefinition
<1>21. CASE UNCHANGED vars
  BY <1>21 DEF TypeOK, ProcessInv, vars, disk
<1> QED
  BY <1>1, <1>2, <1>3, <1>4, <1>5, <1>6, <1>7, <1>8, <1>9, <1>10, <1>11, <1>12, <1>13,
     <1>14, <1>15, <1>16, <1>17, <1>18, <1>19, <1>20, <1>21
  DEF Next, Update, Rehash, Freeze, GenerateSource, Environment

\* The type invariant holds in every reachable state, whatever faults occur.
THEOREM TypeCorrect == Spec => []TypeOK
<1>1. TypeOK /\ ProcessInv /\ [Next]_vars => (TypeOK /\ ProcessInv)'
  BY TypeStep
<1> QED
  BY TypeInit, <1>1, PTL DEF Spec

-----------------------------------------------------------------------------
(* Frozen versions do not change *)

\* The steps that change files, digests or the list of versions.
LEMMA Quiet ==
    ASSUME [Next]_vars
    PROVE  \/ UNCHANGED <<files, hash, versions>>
           \/ \E f \in File : Rsync(f)
           \/ RemoveHash
           \/ HashGen
           \/ \E f \in File : CopyFile(f)
           \/ CopyHash
           \/ WriteDefinition
           \/ Crash
<1> QED
  BY DEF Next, Update, Rehash, Freeze, GenerateSource, Environment, Invoke, LoadFails,
     PreValidate, RsyncEnd, Validate, CheckForDevelopment, DependenciesCheck,
     MakeVersionDir, CopyEnd, AppendVersion, Generate, EditSource, RestoreDefinition,
     vars, disk

FrozenUnchanged ==
    /\ versions' >= versions
    /\ \A v \in 1 .. versions : files'[v] = files[v] /\ hash'[v] = hash[v]

LEMMA FrozenStep ==
    ASSUME TypeOK, ProcessInv, [Next]_vars
    PROVE  FrozenUnchanged
<1> USE MaxVersionAssumption DEF FrozenUnchanged, TypeOK, Versions, CURRENT_VERSION
<1>1. CASE UNCHANGED <<files, hash, versions>>
  BY <1>1
<1>2. ASSUME NEW f \in File, Rsync(f) PROVE FrozenUnchanged
  BY <1>2 DEF Rsync
<1>3. CASE RemoveHash
  BY <1>3 DEF RemoveHash
<1>4. CASE HashGen
  BY <1>4 DEF HashGen
<1>5. ASSUME NEW f \in File, CopyFile(f) PROVE FrozenUnchanged
  BY <1>5 DEF CopyFile, ProcessInv, next_version
<1>6. CASE CopyHash
  BY <1>6 DEF CopyHash, ProcessInv, next_version
<1>7. CASE WriteDefinition
  BY <1>7 DEF WriteDefinition
<1>8. CASE Crash
  BY <1>8 DEF Crash
<1> QED
  BY Quiet, <1>1, <1>2, <1>3, <1>4, <1>5, <1>6, <1>7, <1>8

\* A registered version keeps its files and its .hash, and stays registered,
\* whatever crashes, commands fail or files are saved while the tool runs.
THEOREM FrozenNeverChanges == Spec => FrozenImmutable
<1>1. TypeOK /\ ProcessInv /\ [Next]_vars => (TypeOK /\ ProcessInv)'
  BY TypeStep
<1>2. TypeOK /\ ProcessInv /\ [Next]_vars =>
        [/\ versions' >= versions
         /\ \A v \in 1 .. versions : files'[v] = files[v] /\ hash'[v] = hash[v]]_vars
  BY FrozenStep DEF FrozenUnchanged
<1> QED
  BY TypeInit, <1>1, <1>2, PTL DEF Spec, FrozenImmutable

-----------------------------------------------------------------------------
(* Registered versions are intact *)

LEMMA LeftoverStep ==
    ASSUME TypeOK, ProcessInv, LeftoverInv, [Next]_vars
    PROVE  LeftoverInv'
<1> USE MaxVersionAssumption DEF LeftoverInv, Present, TypeOK, Versions, CURRENT_VERSION
<1>1. CASE UNCHANGED <<files, versions>>
  BY <1>1
<1>2. ASSUME NEW f \in File, Rsync(f) PROVE LeftoverInv'
  BY <1>2 DEF Rsync, Dir
<1>3. ASSUME NEW f \in File, CopyFile(f) PROVE LeftoverInv'
  BY <1>3 DEF CopyFile, Dir, ProcessInv, next_version
<1>4. CASE WriteDefinition
  BY <1>4, SMTT(30) DEF WriteDefinition
<1> QED
  BY Quiet, <1>1, <1>2, <1>3, <1>4 DEF RemoveHash, HashGen, CopyHash, Crash

LEMMA CopyStep ==
    ASSUME "command" \notin Faults, TypeOK, ProcessInv, LeftoverInv, CopyInv, [Next]_vars
    PROVE  CopyInv'
<1> USE MaxVersionAssumption DEF CopyInv, FreezeLabels, Committing
<1>0. /\ CURRENT_VERSION \in Versions /\ CURRENT_VERSION # versions + 1
      /\ pc \in FreezeLabels => versions + 1 \in Versions /\ next_version = versions + 1
  BY DEF TypeOK, ProcessInv, Versions, CURRENT_VERSION, next_version
<1>1. CASE pc' \notin FreezeLabels
  BY <1>1
<1>2. CASE HashGen
  BY <1>2, <1>0 DEF HashGen, Goto, Fault, TypeOK, ProcessInv, next_version
<1>3. CASE CheckForDevelopment
  BY <1>3 DEF CheckForDevelopment, Goto
<1>4. CASE DependenciesCheck
  BY <1>4 DEF DependenciesCheck, Goto, Exit, disk
<1>5. CASE MakeVersionDir
  <2>1. CASE has_development = "1"
    <3>1. hash[CURRENT_VERSION] # NoHash
      <4>1. aidl_hash_gen(files[CURRENT_VERSION], versions + 1) \in Hash
        BY <1>5, <1>0, HashType DEF MakeVersionDir
      <4> QED
        BY <4>1, <1>5, NoHashAssumption DEF MakeVersionDir
    <3>2. \A f \in File \ Present(files[CURRENT_VERSION]) :
            files[versions + 1][f] = files[CURRENT_VERSION][f]
      BY <1>5, <1>0 DEF MakeVersionDir, LeftoverInv, Present, TypeOK
    <3> QED
      BY <2>1, <3>1, <3>2, <1>5, <1>0 DEF MakeVersionDir, Goto, Fault, Present
  <2>2. CASE has_development # "1"
    BY <2>2, <1>5 DEF MakeVersionDir, Goto
  <2> QED
    BY <2>1, <2>2
<1>6. ASSUME NEW f \in File, CopyFile(f) PROVE CopyInv'
  BY <1>6, <1>0 DEF CopyFile, TypeOK, Dir, aidl_hash_gen
<1>7. CASE CopyHash
  BY <1>7, <1>0, DotHashAssumption DEF CopyHash, TypeOK
<1>8. CASE CopyEnd
  <2>1. pc = "copy" /\ todo = {}
    BY <1>8 DEF CopyEnd, Fault
  <2>2. files[versions + 1] = files[CURRENT_VERSION]
    BY <2>1, <1>0 DEF TypeOK, Dir
  <2> QED
    BY <2>1, <2>2, <1>8 DEF CopyEnd, Goto, disk
<1>9. CASE AppendVersion
  BY <1>9 DEF AppendVersion, Goto, Exit, Fault
<1>10. CASE UNCHANGED <<pc, files, hash, versions, dirs, has_development, todo>>
  BY <1>10
<1> QED
  BY <1>1, <1>2, <1>3, <1>4, <1>5, <1>6, <1>7, <1>8, <1>9, <1>10, Zenon
  DEF Next, Update, Rehash, Freeze, GenerateSource, Environment, Invoke, LoadFails,
      PreValidate, Rsync, RsyncEnd, RemoveHash, Validate, WriteDefinition, Generate, Crash,
      EditSource, RestoreDefinition, Goto, Exit, vars, disk

LEMMA RegisteredStep ==
    ASSUME "command" \notin Faults, TypeOK, ProcessInv, CopyInv, RegisteredIntact, [Next]_vars
    PROVE  RegisteredIntact'
<1>1. FrozenUnchanged
  BY FrozenStep, SMTT(30)
<1>2. dirs \subseteq dirs'
  BY Zenon DEF Next, Update, Rehash, Freeze, GenerateSource, Environment, Invoke, LoadFails,
      PreValidate, Rsync, RsyncEnd, RemoveHash, HashGen, Validate, CheckForDevelopment,
      DependenciesCheck, MakeVersionDir, CopyFile, CopyHash, CopyEnd, AppendVersion,
      WriteDefinition, Generate, Crash, EditSource, RestoreDefinition, vars, disk
<1>3. CASE versions' = versions
  BY <1>1, <1>2, <1>3 DEF RegisteredIntact, FrozenUnchanged
<1>4. CASE WriteDefinition
  BY <1>4, <1>1, <1>2, MaxVersionAssumption
  DEF WriteDefinition, Fault, RegisteredIntact, FrozenUnchanged, CopyInv, FreezeLabels,
      Committing, TypeOK
<1> QED
  BY Quiet, <1>3, <1>4 DEF Rsync, RemoveHash, HashGen, CopyFile, CopyHash, Crash

\* Unless a command the tool runs fails unnoticed, every version interface.yaml
\* lists has its directory and a .hash that matches it, also after any number of
\* crashes and of retries over the directory a crashed freeze_api left behind.
THEOREM RegisteredAlwaysIntact ==
    ASSUME "command" \notin Faults
    PROVE  Spec => []RegisteredIntact
<1>1. Init => IntactInv
  BY TypeInit DEF Init, IntactInv, LeftoverInv, CopyInv, RegisteredIntact, FreezeLabels,
     Committing, Present, EmptyDir, Versions, CURRENT_VERSION
<1>2. IntactInv /\ [Next]_vars => IntactInv'
  BY TypeStep, LeftoverStep, CopyStep, RegisteredStep DEF IntactInv
<1>3. IntactInv => RegisteredIntact
  BY DEF IntactInv
<1> QED
  BY <1>1, <1>2, <1>3, PTL DEF Spec

-----------------------------------------------------------------------------
(* The registered versions are a FrozenLog *)

\* A validate_interface that passes has compared the last two dumps.
LEMMA ValidatedCompatible ==
    ASSUME TypeOK, ProcessInv, RegisteredIntact, pc = "validate", versions > 0,
           validate_interface = "ok", next_version \in api_dumps
    PROVE  Compatible(files[versions], files[CURRENT_VERSION])
<1>1. loaded = versions /\ versions \in 1 .. MaxVersion /\ next_version = versions + 1
  BY MaxVersionAssumption DEF TypeOK, ProcessInv, next_version
<1>2. versions \in api_dumps
  BY <1>1, MaxVersionAssumption
  DEF RegisteredIntact, api_dumps, has_frozen_versions, CURRENT_VERSION
<1>3. ~Fails(next_version)
  BY DEF validate_interface
<1>4. check_compatibility(next_version)
  BY <1>3 DEF Fails
<1>5. /\ next_version - 1 = versions
      /\ version_dir(versions) = versions /\ version_dir(next_version) = CURRENT_VERSION
  BY <1>1, SMTT(30) DEF version_dir
<1> QED
  BY <1>2, <1>4, <1>5 DEF check_compatibility

FreezeStepInv == IntactInv /\ FreezeInv

LEMMA FreezeStep ==
    ASSUME "command" \notin Faults, FreezeStepInv, [Next]_vars
    PROVE  FreezeInv'
<1> USE MaxVersionAssumption DEF FreezeStepInv, IntactInv, FreezeInv, FreezeLabels
<1>0. /\ CURRENT_VERSION \in Versions /\ CURRENT_VERSION # versions + 1
      /\ versions \in Versions
  BY DEF TypeOK, Versions, CURRENT_VERSION
<1>1. CASE pc' \notin FreezeLabels \cup {"remove_hash", "hash_gen"} \/ op' = "update_api"
  BY <1>1, TypeStep DEF ProcessInv
<1>2. CASE RemoveHash
  BY <1>2 DEF RemoveHash, Goto
<1>3. CASE HashGen
  BY <1>3 DEF HashGen, Goto, ProcessInv
<1>4. CASE Validate
  <2>1. CASE pc' = "validate" \/ op' # "freeze_api" \/ versions = 0
    BY <2>1, <1>4 DEF Validate, Exit, Goto, disk
  <2>2. CASE pc' = "remove_hash" /\ op = "freeze_api" /\ versions > 0
    <3>1. Compatible(files[versions], files[CURRENT_VERSION])
      BY <2>2, <1>4, ValidatedCompatible DEF Validate, Exit
    <3> QED
      BY <3>1, <2>2, <1>4 DEF Validate, disk
  <2> QED
    BY <2>1, <2>2, <1>4 DEF Validate, Exit, Goto, disk, TypeOK
<1>5. CASE CheckForDevelopment
  <2>1. CASE versions = 0
    BY <2>1, <1>5 DEF CheckForDevelopment
  <2>2. CASE versions > 0
    <3>1. loaded \in api_dumps /\ loaded = versions
      BY <2>2, <1>5 DEF CheckForDevelopment, ProcessInv, TypeOK, RegisteredIntact, api_dumps,
         has_frozen_versions, CURRENT_VERSION
    <3> QED
      BY <3>1, <2>2, <1>5 DEF CheckForDevelopment, Goto, Fault
  <2> QED
    BY <2>1, <2>2 DEF TypeOK
<1>6. CASE DependenciesCheck
  BY <1>6 DEF DependenciesCheck, Goto, Exit, disk
<1>7. CASE MakeVersionDir
  BY <1>7 DEF MakeVersionDir, Goto
<1>8. ASSUME NEW f \in File, CopyFile(f) PROVE FreezeInv'
  <2>1. files'[versions] = files[versions] /\ files'[CURRENT_VERSION] = files[CURRENT_VERSION]
    BY <1>8, <1>0 DEF CopyFile, TypeOK, ProcessInv, next_version
  <2> QED
    BY <2>1, <1>8 DEF CopyFile
<1>9. CASE CopyHash
  BY <1>9 DEF CopyHash
<1>10. CASE CopyEnd
  BY <1>10 DEF CopyEnd, Goto, disk
<1>11. CASE AppendVersion
  BY <1>11 DEF AppendVersion, Goto, Exit
<1>12. CASE UNCHANGED <<pc, op, files, versions, has_development>>
  BY <1>12
<1> QED
  BY <1>1, <1>2, <1>3, <1>4, <1>5, <1>6, <1>7, <1>8, <1>9, <1>10, <1>11, <1>12, Zenon
  DEF Next, Update, Rehash, Freeze, GenerateSource, Environment, Invoke, LoadFails,
      PreValidate, Rsync, RsyncEnd, WriteDefinition, Generate, Crash, EditSource,
      RestoreDefinition, Goto, Exit, ProcessInv, vars, disk

LEMMA AppendToFunction ==
    ASSUME NEW S, NEW n \in Nat, NEW g, \A i \in 1 .. n + 1 : g[i] \in S
    PROVE  [i \in 1 .. n + 1 |-> g[i]] = Append([i \in 1 .. n |-> g[i]], g[n + 1])
<1> DEFINE s == [i \in 1 .. n + 1 |-> g[i]]
           r == [i \in 1 .. n |-> g[i]]
           t == Append(r, g[n + 1])
<1>1. s \in Seq(S) /\ Len(s) = n + 1 /\ \A i \in 1 .. n + 1 : s[i] = g[i]
  OBVIOUS
<1>2. r \in Seq(S) /\ Len(r) = n /\ \A i \in 1 .. n : r[i] = g[i]
  OBVIOUS
<1>3. /\ t \in Seq(S) /\ Len(t) = n + 1
      /\ \A i \in 1 .. n : t[i] = r[i]
      /\ t[n + 1] = g[n + 1]
  <2> HIDE DEF r
  <2> QED
    BY <1>2, AppendProperties
<1>4. \A i \in 1 .. Len(s) : s[i] = t[i]
  <2> HIDE DEF r, s, t
  <2> QED
    BY <1>1, <1>2, <1>3
<1> HIDE DEF s, t
<1>5. s = t
  BY <1>1, <1>3, <1>4, SeqEqual, SMTT(30)
<1> QED
  BY <1>5 DEF s, t

LEMMA LogStep ==
    ASSUME "command" \notin Faults, FreezeStepInv, [Next]_vars
    PROVE  [Log!Next]_([v \in 1 .. versions |-> files[v]])
<1> DEFINE log == [v \in 1 .. versions |-> files[v]]
<1>0. /\ TypeOK /\ ProcessInv /\ CopyInv /\ FreezeInv
      /\ versions \in 0 .. MaxVersion
  BY DEF FreezeStepInv, IntactInv, TypeOK
<1>1. FrozenUnchanged
  BY <1>0, FrozenStep
<1>2. CASE versions' = versions
  <2>1. log' = log
    BY <1>1, <1>2 DEF FrozenUnchanged
  <2> QED
    BY <2>1
<1>3. CASE WriteDefinition
  <2> DEFINE d == files[versions + 1]
  <2>1. /\ versions' = versions + 1 /\ files' = files
        /\ versions < MaxVersion
        /\ d = files[CURRENT_VERSION]
        /\ versions > 0 => Compatible(files[versions], d) /\ ~Equal(files[versions], d)
    BY <1>3, <1>0 DEF WriteDefinition, Fault, CopyInv, FreezeInv, ProcessInv, FreezeLabels,
       Committing
  <2>2. d \in Dir
    BY <2>1, <1>0, MaxVersionAssumption DEF TypeOK, Versions, CURRENT_VERSION
  <2>3. log \in Seq(Dir) /\ Len(log) = versions
    BY <1>0, MaxVersionAssumption DEF TypeOK, Versions, CURRENT_VERSION
  <2>4. log' = Append(log, d)
    <3>1. log' = [v \in 1 .. versions + 1 |-> files[v]]
      BY <2>1
    <3>2. \A v \in 1 .. versions + 1 : files[v] \in Dir
      BY <2>1, <1>0, MaxVersionAssumption DEF TypeOK, Versions, CURRENT_VERSION
    <3>3. versions \in Nat
      BY <1>0, MaxVersionAssumption
    <3>4. [v \in 1 .. versions + 1 |-> files[v]] = Append(log, d)
      BY <3>2, <3>3, AppendToFunction, Zenon
    <3> QED
      BY <3>1, <3>4, Zenon
  <2>5. log # <<>> => Compatible(log[Len(log)], d) /\ ~Equal(log[Len(log)], d)
    BY <2>1, <2>3, <1>0
  <2>6. \E e \in Dir :
          /\ log # <<>> => Compatible(log[Len(log)], e) /\ ~Equal(log[Len(log)], e)
          /\ log' = Append(log, e)
    BY <2>2, <2>4, <2>5, Zenon
  <2>7. Log!Next
    BY <2>6, ZenonT(40) DEF Log!Next, Log!Freeze, Log!Dir, Log!Compatible, Log!Equal, Log!Present,
       Dir, Compatible, Equal, Present
  <2> QED
    BY <2>7
<1> QED
  BY Quiet, <1>2, <1>3 DEF Rsync, RemoveHash, HashGen, CopyFile, CopyHash, Crash

\* Unless a command fails unnoticed, the registered versions behave as a
\* FrozenLog: append-only, each version a compatible successor of the one before
\* it and a different API.
THEOREM RefinesFrozenLog ==
    ASSUME "command" \notin Faults
    PROVE  Spec => ImplementsFrozenLog
<1>1. Init => FreezeStepInv
  BY TypeInit DEF Init, FreezeStepInv, IntactInv, FreezeInv, LeftoverInv, CopyInv,
     RegisteredIntact, FreezeLabels, Committing, Present, EmptyDir, Versions, CURRENT_VERSION
<1>2. FreezeStepInv /\ [Next]_vars => FreezeStepInv'
  <2>1. ASSUME FreezeStepInv, [Next]_vars PROVE FreezeInv'
    BY <2>1, FreezeStep
  <2>2. ASSUME IntactInv, [Next]_vars PROVE IntactInv'
    BY <2>2, TypeStep, LeftoverStep, CopyStep, RegisteredStep DEF IntactInv
  <2> QED
    BY <2>1, <2>2 DEF FreezeStepInv
<1>3. Init => Log!Init
  BY DEF Init, Log!Init
<1>4. FreezeStepInv /\ [Next]_vars => [Log!Next]_([v \in 1 .. versions |-> files[v]])
  BY LogStep
<1> QED
  BY <1>1, <1>2, <1>3, <1>4, PTL DEF Spec, ImplementsFrozenLog, Log!Spec

-----------------------------------------------------------------------------
(* Generated sources match the frozen version they were generated for *)

\* Nothing complete is ever generated for a version that is not yet registered;
\* so registering one cannot make stale sources pass for its own.
GenInv ==
    \A v \in 1 .. MaxVersion :
        \/ gen[v] \in {NoGen, PartialGen}
        \/ v <= versions /\ gen[v] = Sources(v, hash[v], files[v])

LEMMA GenStep ==
    ASSUME TypeOK, ProcessInv, GenInv, [Next]_vars
    PROVE  GenInv'
<1> USE MaxVersionAssumption
<1>0. /\ versions \in 0 .. MaxVersion /\ versions' \in 0 .. MaxVersion
      /\ versions' >= versions
      /\ \A v \in 1 .. versions : files'[v] = files[v] /\ hash'[v] = hash[v]
  BY FrozenStep, TypeStep, SMTT(30) DEF TypeOK, FrozenUnchanged
<1>1. CASE gen' = gen
  BY <1>0, <1>1, SMTT(30) DEF GenInv
<1>2. ASSUME NEW ver \in 0 .. loaded + 2, Generate(ver) PROVE GenInv'
  <2>1. /\ loaded = versions /\ pc = "generate"
        /\ UNCHANGED <<files, hash, versions>>
    BY <1>2, SMTT(30) DEF Generate, ProcessInv
  <2>2. SUFFICES ASSUME gen' # gen, version_dir(ver) # CURRENT_VERSION
                 PROVE  GenInv'
    BY <1>0, <1>1, <1>2, <2>1, SMTT(30) DEF GenInv, Generate, CURRENT_VERSION, TypeOK, Versions
  <2>3. ver \in 1 .. versions /\ version_dir(ver) = ver
    BY <1>0, <1>2, <2>1, <2>2 DEF Generate, version_dir, next_version, CURRENT_VERSION
  <2>4. gen'[ver] \in {PartialGen, gen[ver], Sources(ver, hash[ver], files[ver])}
    BY <1>0, <1>2, <2>2, <2>3, SMTT(30) DEF Generate, TypeOK, Versions, CURRENT_VERSION
  <2>5. \A v \in 1 .. MaxVersion : v # ver => gen'[v] = gen[v]
    BY <1>2, <2>2, <2>3, SMTT(30) DEF Generate, TypeOK, Versions, CURRENT_VERSION
  <2> QED
    BY <2>1, <2>3, <2>4, <2>5 DEF GenInv
<1>3. CASE Crash
  BY <1>0, <1>3 DEF Crash, GenInv, TypeOK, Versions, CURRENT_VERSION
<1> QED
  BY <1>1, <1>2, <1>3, Zenon
  DEF Next, Update, Rehash, Freeze, GenerateSource, Environment, Invoke, LoadFails,
      PreValidate, Rsync, RsyncEnd, RemoveHash, HashGen, Validate, CheckForDevelopment,
      DependenciesCheck, MakeVersionDir, CopyFile, CopyHash, CopyEnd, AppendVersion,
      WriteDefinition, EditSource, RestoreDefinition, vars, disk

LEMMA GenInvSuffices ==
    ASSUME TypeOK, GenInv
    PROVE  GeneratedMatchesFrozen
BY MaxVersionAssumption DEF TypeOK, GenInv, GeneratedMatchesFrozen

\* The sources generated for a registered version carry its number, its digest
\* and its API, whatever crashes, commands fail or files are saved meanwhile.
THEOREM GeneratedAlwaysMatches == Spec => []GeneratedMatchesFrozen
<1> DEFINE Inv == TypeOK /\ ProcessInv /\ GenInv
<1>1. Init => Inv
  BY TypeInit, MaxVersionAssumption DEF Init, GenInv, Versions, CURRENT_VERSION
<1>2. Inv /\ [Next]_vars => Inv'
  BY TypeStep, GenStep
<1>3. Inv => GeneratedMatchesFrozen
  BY GenInvSuffices
<1> QED
  BY <1>1, <1>2, <1>3, PTL DEF Spec

-----------------------------------------------------------------------------
(* current stays a successor of every frozen version *)

LEMMA CompatibleTrans ==
    ASSUME NEW p \in Dir, NEW q \in Dir, NEW r \in Dir, Compatible(p, q), Compatible(q, r)
    PROVE  Compatible(p, r)
BY ExtendsPreorder, Zenon DEF Compatible, Present, Dir

\* Copying one more file of a successor of a directory into it.
LEMMA CompatibleCopy ==
    ASSUME NEW p \in Dir, NEW q \in Dir, NEW f \in File, q[f] # Absent, Compatible(p, q)
    PROVE  /\ [p EXCEPT ![f] = q[f]] \in Dir
           /\ Compatible(p, [p EXCEPT ![f] = q[f]])
           /\ Compatible([p EXCEPT ![f] = q[f]], q)
BY ExtendsPreorder, SMTT(30) DEF Compatible, Present, Dir

LEMMA MonotoneStep ==
    ASSUME "edit" \notin Faults, TypeOK, ProcessInv, MonotoneInv, [Next]_vars
    PROVE  MonotoneInv'
<1> USE MaxVersionAssumption DEF MonotoneInv, FreezeLabels, has_frozen_versions
<1>0. /\ CURRENT_VERSION \in Versions /\ CURRENT_VERSION \notin 1 .. MaxVersion
      /\ \A v \in Versions : v = CURRENT_VERSION \/ v \in 1 .. MaxVersion
      /\ files[CURRENT_VERSION] \in Dir /\ \A v \in 1 .. MaxVersion : files[v] \in Dir
      /\ pc \in FreezeLabels => versions + 1 \in 1 .. MaxVersion /\ next_version = versions + 1
  BY SMTT(30) DEF TypeOK, ProcessInv, Versions, CURRENT_VERSION, next_version
<1>1. CASE PreValidate
  BY <1>1, <1>0, SMTT(30) DEF PreValidate, Exit, Goto, TypeOK
<1>2. ASSUME NEW f \in File, Rsync(f) PROVE MonotoneInv'
  <2>1. CASE src[f] = Absent
    BY <2>1, <1>2 DEF Rsync
  <2>2. CASE src[f] # Absent /\ has_frozen_versions
    <3> DEFINE cur == [files[CURRENT_VERSION] EXCEPT ![f] = src[f]]
    <3>1. /\ files' = [files EXCEPT ![CURRENT_VERSION] = cur]
          /\ pc = "rsync" /\ pc' = "rsync" /\ dirs' = dirs /\ versions' = versions /\ src' = src
      BY <2>2, <1>2 DEF Rsync
    <3>2. Compatible(files[CURRENT_VERSION], src)
      BY <2>2, <3>1, SMTT(30)
    <3>3. /\ cur \in Dir
          /\ Compatible(files[CURRENT_VERSION], cur) /\ Compatible(cur, src)
      BY <3>2, <2>2, <1>0, CompatibleCopy, Zenon DEF TypeOK
    <3>4. \A v \in 1 .. MaxVersion : Compatible(files[v], cur)
      BY <3>3, <1>0, CompatibleTrans
    <3> HIDE DEF cur
    <3> QED
      BY <3>1, <3>3, <3>4, <1>0 DEF TypeOK
  <2>3. CASE src[f] # Absent /\ ~has_frozen_versions
    <3>1. \A v \in 1 .. MaxVersion : Present(files[v]) = {} /\ files'[v] = files[v]
      BY <2>3, <1>2, <1>0 DEF Rsync, TypeOK
    <3> QED
      BY <3>1, <2>3, <1>2, SMTT(30) DEF Rsync, Compatible
  <2> QED
    BY <2>1, <2>2, <2>3, Zenon
<1>3. CASE Validate
  <2>1. pc' \in {"remove_hash", "generate", "idle"}
    BY <1>3, SMTT(30) DEF Validate, Exit, Goto
  <2>2. pc' = "remove_hash" => CURRENT_VERSION \in dirs
    BY <1>3, SMTT(30) DEF Validate, Exit, Goto, api_dumps, next_version, TypeOK
  <2> QED
    BY <2>1, <2>2, <1>3 DEF Validate, disk
<1>4. CASE MakeVersionDir
  BY <1>4, <1>0 DEF MakeVersionDir, Goto
<1>5. ASSUME NEW f \in File, CopyFile(f) PROVE MonotoneInv'
  <2> DEFINE n == versions + 1
             ver == [files[n] EXCEPT ![f] = files[CURRENT_VERSION][f]]
  <2>1. /\ n \in 1 .. MaxVersion /\ n \in dirs
        /\ files' = [files EXCEPT ![n] = ver]
    BY <1>5, <1>0, SMTT(30) DEF CopyFile, TypeOK
  <2>2. Compatible(ver, files[CURRENT_VERSION])
    BY <2>1, <1>0, ExtendsPreorder, SMTT(30) DEF Compatible, Present, Dir
  <2> HIDE DEF n, ver
  <2>3. /\ files'[n] = ver /\ files'[CURRENT_VERSION] = files[CURRENT_VERSION]
        /\ \A v \in 1 .. MaxVersion : v # n => files'[v] = files[v]
    BY <2>1, <1>0, SMTT(30) DEF TypeOK, Versions, CURRENT_VERSION
  <2> QED
    BY <2>1, <2>2, <2>3, <1>5, SMTT(30) DEF CopyFile
<1>6. ASSUME NEW f \in File, NEW c \in Content \cup {Absent}, EditSource(f, c)
      PROVE  MonotoneInv'
  BY <1>6 DEF EditSource, Fault
<1>7. CASE /\ UNCHANGED <<dirs, files>>
           /\ pc' \in FreezeLabels \cup {"remove_hash", "hash_gen"} =>
                pc \in FreezeLabels \cup {"rsync", "remove_hash", "hash_gen"}
           /\ pc' \notin {"copy", "rsync"} \/ UNCHANGED <<pc, versions, src>>
  BY <1>7, SMTT(30)
<1>8. ASSUME ~(\E f \in File : Rsync(f)), ~(\E f \in File : CopyFile(f)),
             ~PreValidate, ~Validate, ~MakeVersionDir,
             ~(\E f \in File, c \in Content \cup {Absent} : EditSource(f, c))
      PROVE  /\ UNCHANGED <<dirs, files>>
             /\ pc' \in FreezeLabels \cup {"remove_hash", "hash_gen"} =>
                  pc \in FreezeLabels \cup {"rsync", "remove_hash", "hash_gen"}
             /\ pc' \notin {"copy", "rsync"} \/ UNCHANGED <<pc, versions, src>>
  BY <1>8, Zenon DEF Next, Update, Rehash, Freeze, GenerateSource, Environment, Invoke, LoadFails,
     RsyncEnd, RemoveHash, HashGen, CheckForDevelopment, DependenciesCheck, CopyHash, CopyEnd,
     AppendVersion, WriteDefinition, Generate, Crash, RestoreDefinition, Goto, Exit, vars, disk
<1> QED
  BY <1>1, <1>2, <1>3, <1>4, <1>5, <1>6, <1>7, <1>8, Zenon

\* Unless a source file is saved while update_api runs, current remains a
\* compatible successor of every registered version, even when commands fail
\* unnoticed and the tool dies with current half copied.
THEOREM CurrentAlwaysCompatible ==
    ASSUME "edit" \notin Faults
    PROVE  Spec => []CurrentCompatible
<1> DEFINE Inv == TypeOK /\ ProcessInv /\ MonotoneInv
<1>1. Init => Inv
  <2>1. Present(EmptyDir) = {}
    BY DEF Present, EmptyDir
  <2>2. Init => \A v \in 1 .. MaxVersion : files[v] = EmptyDir
    BY MaxVersionAssumption DEF Init, Versions, CURRENT_VERSION
  <2> QED
    BY <2>1, <2>2, TypeInit DEF Init, MonotoneInv, has_frozen_versions, FreezeLabels, Compatible
<1>2. Inv /\ [Next]_vars => Inv'
  BY TypeStep, MonotoneStep
<1>3. Inv => CurrentCompatible
  BY MaxVersionAssumption, SMTT(30) DEF MonotoneInv, CurrentCompatible, TypeOK
<1> QED
  BY <1>1, <1>2, <1>3, PTL DEF Spec

-----------------------------------------------------------------------------
(***************************************************************************)
(* TwoTools.  A builder beside it changes none of what the developer's     *)
(* process reads, so the invariants above carry over step by step; and     *)
(* what freeze_api has registered never changes, so what the builder reads *)
(* of it at different times fits together.                                 *)
(***************************************************************************)

\* Every registered version succeeds the one before it.
ChainInv == \A v \in 2 .. versions : Compatible(files[v - 1], files[v])

Consecutive(dumps, n) == \E lo \in 1 .. n + 2, hi \in n .. n + 1 : dumps = lo .. hi

\* What the builder has loaded was, and so is, registered; the dumps it has yet
\* to check are consecutive; and what it read of a frozen version is still there.
BuilderInv ==
    /\ b_loaded \in 0 .. versions
    /\ b_hash \in Hash \cup {NoHash, EmptyHash}
    /\ Consecutive(b_dumps, b_loaded)
    /\ b_pc \in {"idle", "current"} => b_dumps = {}
    /\ b_pc = "versions" => b_dumps \in {{}, {b_next}}
    /\ b_pc = "compatibility" => b_dumps # {}
    /\ b_pc \in {"hash", "compile"} =>
         b_ver \in 1 .. b_next /\ (b_ver <= b_loaded => b_files = Present(files[b_ver]))
    /\ b_pc = "compile" /\ b_ver <= b_loaded => b_hash = hash[b_ver]

SharedInv == TypeOK /\ ProcessInv /\ GenInv /\ BuilderInv

-----------------------------------------------------------------------------

\* Builder steps leave everything but the generated sources to the developer.
LEMMA BuilderLeaves ==
    ASSUME Builder
    PROVE  /\ UNCHANGED <<src, dirs, files, hash, versions, torn, has_development>>
           /\ UNCHANGED process
BY DEF Builder, BLoad, BLookForCurrent, BListVersions, BCheckIntegrity, BCheckCompatibility,
       BListSources, BReadHash, BCompile, BDies, disk

LEMMA NotCurrent ==
    ASSUME TypeOK, BuilderInv, NEW v \in 1 .. b_loaded
    PROVE  /\ v \in 1 .. versions /\ v \in 1 .. MaxVersion /\ v \in Versions
           /\ v # CURRENT_VERSION /\ v # b_next /\ b_dir(v) = v
BY MaxVersionAssumption
DEF TypeOK, BuilderInv, Versions, CURRENT_VERSION, b_next, b_dir

LEMMA FirstDumpIs ==
    ASSUME TypeOK, BuilderInv, b_dumps # {}
    PROVE  /\ FirstDump \in b_dumps
           /\ FirstDump \in 1 .. b_next
           /\ Consecutive(b_dumps \ {FirstDump}, b_loaded)
<1>1. PICK lo \in 1 .. b_loaded + 2, hi \in b_loaded .. b_loaded + 1 : b_dumps = lo .. hi
  BY DEF BuilderInv, Consecutive
<1>2. b_loaded \in Nat /\ lo <= hi
  BY <1>1, MaxVersionAssumption DEF BuilderInv, TypeOK
<1>3. lo \in b_dumps /\ \A w \in b_dumps : lo <= w
  BY <1>1, <1>2
<1>4. FirstDump \in b_dumps /\ \A w \in b_dumps : FirstDump <= w
  BY <1>3, Zenon DEF FirstDump
<1>5. FirstDump = lo
  BY <1>1, <1>2, <1>3, <1>4
<1>6. b_dumps \ {lo} = lo + 1 .. hi /\ lo + 1 \in 1 .. b_loaded + 2
  BY <1>1, <1>2
<1> QED
  BY <1>1, <1>2, <1>4, <1>5, <1>6 DEF b_next, Consecutive

-----------------------------------------------------------------------------
(* What the builder has read stays true *)

LEMMA BuilderInvDeveloper ==
    ASSUME TypeOK, ProcessInv, BuilderInv, [Next]_vars, UNCHANGED builder
    PROVE  BuilderInv'
<1>1. FrozenUnchanged /\ TypeOK'
  BY FrozenStep, TypeStep
<1>2. b_loaded \in 0 .. versions'
  BY <1>1 DEF FrozenUnchanged, BuilderInv, TypeOK
<1>3. ASSUME b_ver \in 1 .. b_next, b_ver <= b_loaded
      PROVE  files'[b_ver] = files[b_ver] /\ hash'[b_ver] = hash[b_ver]
  <2>1. b_ver \in 1 .. versions
    BY <1>3, MaxVersionAssumption DEF BuilderInv, TypeOK, b_next
  <2> QED
    BY <2>1, <1>1 DEF FrozenUnchanged
<1> QED
  BY <1>2, <1>3 DEF BuilderInv, builder, b_next, Present

LEMMA ConsecutiveDumps ==
    ASSUME NEW n \in Nat
    PROVE  /\ Consecutive({}, n) /\ Consecutive({n + 1}, n)
           /\ Consecutive(1 .. n, n) /\ Consecutive({n + 1} \cup 1 .. n, n)
<1>1. /\ {} = n + 1 .. n /\ {n + 1} = n + 1 .. n + 1
      /\ {n + 1} \cup 1 .. n = 1 .. n + 1
  OBVIOUS
<1>2. 1 \in 1 .. n + 2 /\ n + 1 \in 1 .. n + 2 /\ n \in n .. n + 1 /\ n + 1 \in n .. n + 1
  BY SMTT(30)
<1> QED
  BY <1>1, <1>2, Zenon DEF Consecutive

LEMMA BuilderInvBuilder ==
    ASSUME TypeOK, BuilderInv, Builder
    PROVE  BuilderInv'
<1> USE MaxVersionAssumption
<1>0. UNCHANGED <<files, hash, versions>> /\ versions \in Nat /\ b_loaded \in Nat
  BY BuilderLeaves DEF TypeOK, BuilderInv
<1>1. ASSUME NEW c, BExit(c) PROVE BuilderInv'
  <2>1. b_dumps' = {} /\ b_loaded' = 0 /\ b_pc' = "idle" /\ b_hash' = NoHash
    BY <1>1 DEF BExit
  <2>2. Consecutive({}, 0)
    BY ConsecutiveDumps, Zenon
  <2>3. Consecutive(b_dumps, b_loaded)'
    BY <2>1, <2>2, Zenon
  <2> QED
    BY <2>1, <2>3, <1>0 DEF BuilderInv
<1>2. ASSUME NEW ver \in 1 .. MaxVersion + 1, BLoad(ver), b_pc' = "current" PROVE BuilderInv'
  <2>1. b_loaded' = versions /\ b_dumps' = {} /\ b_hash' = b_hash
    BY <1>2 DEF BLoad, BExit, BuilderInv
  <2>2. Consecutive({}, versions)
    BY <1>0, ConsecutiveDumps, Zenon
  <2>3. Consecutive(b_dumps, b_loaded)'
    BY <2>1, <2>2, Zenon
  <2> QED
    BY <2>1, <2>3, <1>0, <1>2 DEF BuilderInv
<1>3. CASE BLookForCurrent
  <2>1. b_dumps' \in {{}, {b_next}} /\ b_pc' = "versions" /\ UNCHANGED <<b_loaded, b_hash>>
    BY <1>3 DEF BLookForCurrent, BGoto
  <2> QED
    BY <2>1, <1>0, ConsecutiveDumps, Zenon DEF BuilderInv, b_next
<1>4. CASE BListVersions /\ b_pc' = "integrity"
  <2>1. UNCHANGED <<b_loaded, b_hash>> /\ b_dumps' \in {b_dumps, b_dumps \cup 1 .. b_loaded}
    BY <1>4 DEF BListVersions, BGoto, BExit
  <2>2. b_dumps \in {{}, {b_loaded + 1}}
    BY <1>4 DEF BListVersions, BuilderInv, b_next
  <2>3. b_dumps' \in {{}, {b_loaded + 1}, 1 .. b_loaded, {b_loaded + 1} \cup 1 .. b_loaded}
    BY <2>1, <2>2, Zenon
  <2> QED
    BY <2>1, <2>3, <1>0, <1>4, ConsecutiveDumps, Zenon DEF BuilderInv
<1>5. CASE BCheckIntegrity /\ b_pc' = "compatibility"
  BY <1>0, <1>5 DEF BCheckIntegrity, BGoto, BExit, BuilderInv
<1>6. CASE BCheckCompatibility /\ b_pc' \in {"sources", "integrity"}
  BY <1>0, <1>6, FirstDumpIs, Zenon DEF BCheckCompatibility, BGoto, BExit, BuilderInv
<1>7. CASE BListSources /\ b_pc' = "hash"
  <2>1. /\ b_ver \in 1 .. b_next /\ b_files' = Present(files[b_dir(b_ver)])
        /\ UNCHANGED <<b_loaded, b_ver, b_dumps, b_hash>>
    BY <1>7, SMTT(30) DEF BListSources, BGoto, BExit
  <2> QED
    BY <2>1, <1>0, <1>7, NotCurrent DEF BuilderInv, b_next, Present
<1>8. CASE BReadHash
  <2>1. /\ b_pc = "hash" /\ b_pc' = "compile" /\ b_hash' = hash[b_dir(b_ver)]
        /\ UNCHANGED <<b_loaded, b_ver, b_dumps, b_files>>
    BY <1>8, SMTT(30) DEF BReadHash, BGoto
  <2>2. b_dir(b_ver) \in Versions
    BY <2>1 DEF BuilderInv, TypeOK, b_next, b_dir, Versions, CURRENT_VERSION
  <2>3. b_hash' \in Hash \cup {NoHash, EmptyHash}
    BY <2>1, <2>2 DEF TypeOK
  <2> QED
    BY <2>1, <2>3, <1>0, NotCurrent DEF BuilderInv, b_next, Present
<1> QED
  BY <1>1, <1>2, <1>3, <1>4, <1>5, <1>6, <1>7, <1>8, Zenon
  DEF Builder, BLoad, BLookForCurrent, BListVersions, BCheckIntegrity, BCheckCompatibility,
      BListSources, BReadHash, BCompile, BDies, BGoto

-----------------------------------------------------------------------------
(* Generated sources, with a builder beside the developer *)

LEMMA SharedInit == Init2 => SharedInv
<1> SUFFICES ASSUME Init2 PROVE SharedInv
  OBVIOUS
<1>1. TypeOK /\ ProcessInv /\ versions = 0
  BY TypeInit DEF Init2, Init
<1>2. GenInv
  BY MaxVersionAssumption DEF Init2, Init, GenInv, Versions, CURRENT_VERSION
<1>3. Consecutive({}, 0)
  BY ConsecutiveDumps, Zenon
<1>4. Consecutive(b_dumps, b_loaded)
  BY <1>3, Zenon DEF Init2
<1> QED
  BY <1>1, <1>2, <1>4 DEF Init2, BuilderInv, SharedInv

LEMMA CompileMatches ==
    ASSUME TypeOK, BuilderInv, GenInv, BCompile
    PROVE  gen' \in [Versions -> Gen \cup {NoGen, PartialGen}] /\ GenInv'
<1> DEFINE d == b_dir(b_ver)
           api == [f \in File |-> IF f \in b_files THEN files[d][f] ELSE Absent]
<1> USE MaxVersionAssumption
<1>0. UNCHANGED <<files, hash, versions>> /\ b_loaded \in 0 .. MaxVersion
  BY DEF BCompile, BuilderInv, TypeOK
<1>1. b_ver \in 1 .. b_loaded + 1 /\ d \in Versions
  BY <1>0, SMTT(30) DEF BCompile, BuilderInv, b_next, b_dir, Versions, CURRENT_VERSION
<1>2. gen' = [gen EXCEPT ![d] = gen'[d]]
  BY <1>1, SMTT(30) DEF BCompile, TypeOK
<1>3. gen'[d] \in {Sources(b_ver, b_hash, api), gen[d], PartialGen}
  BY <1>1, SMTT(30) DEF BCompile, TypeOK
<1>4. ASSUME b_ver <= b_loaded PROVE GenInv'
  <2>1. /\ d = b_ver /\ b_ver \in 1 .. versions
        /\ b_hash = hash[b_ver] /\ b_files = Present(files[b_ver])
    BY <1>0, <1>1, <1>4, NotCurrent DEF BCompile, BuilderInv
  <2>2. files[b_ver] \in Dir
    BY <1>1, <2>1 DEF TypeOK
  <2>3. api = files[b_ver]
    BY <2>1, <2>2 DEF Dir, Present
  <2> HIDE DEF api
  <2>4. gen'[b_ver] \in {Sources(b_ver, hash[b_ver], files[b_ver]), gen[b_ver], PartialGen}
    BY <1>3, <2>1, <2>3, SMTT(30)
  <2> HIDE DEF d
  <2> QED
    BY <1>0, <1>2, <2>1, <2>4, SMTT(30) DEF GenInv, TypeOK, Versions, CURRENT_VERSION
<1>5. ASSUME b_ver = b_loaded + 1 PROVE GenInv'
  <2>1. d = CURRENT_VERSION
    BY <1>5 DEF b_dir, b_next
  <2>2. \A v \in 1 .. MaxVersion : gen'[v] = gen[v]
    BY <1>2, <2>1, SMTT(30) DEF TypeOK, Versions, CURRENT_VERSION
  <2> QED
    BY <1>0, <2>2 DEF GenInv
<1>6. gen' \in [Versions -> Gen \cup {NoGen, PartialGen}]
  <2>1. files[d] \in Dir
    BY <1>1 DEF TypeOK
  <2>2. api \in Dir
    BY <2>1 DEF Dir
  <2>3. b_ver \in 1 .. MaxVersion + 1 /\ b_hash \in Hash \cup {NoHash, EmptyHash}
    BY <1>0, <1>1 DEF BuilderInv
  <2> HIDE DEF d, api
  <2>4. Sources(b_ver, b_hash, api) \in Gen
    BY <2>2, <2>3 DEF Gen, Sources
  <2>5. gen'[d] \in Gen \cup {NoGen, PartialGen}
    BY <1>1, <1>3, <2>4 DEF TypeOK
  <2> QED
    BY <1>1, <1>2, <2>5 DEF TypeOK
<1> QED
  BY <1>0, <1>1, <1>4, <1>5, <1>6

LEMMA SharedStep ==
    ASSUME SharedInv, [Next2]_vars2
    PROVE  SharedInv'
<1> USE DEF SharedInv
<1>1. CASE [Next]_vars /\ UNCHANGED builder
  BY <1>1, TypeStep, GenStep, BuilderInvDeveloper
<1>2. CASE Builder
  <2>1. /\ UNCHANGED <<src, dirs, files, hash, versions, torn, has_development>>
        /\ UNCHANGED <<pc, op, loaded, todo, outcome>>
    BY <1>2, BuilderLeaves, SMTT(30) DEF process
  <2>2. gen' \in [Versions -> Gen \cup {NoGen, PartialGen}] /\ GenInv'
    <3>1. CASE BCompile
      BY <3>1, CompileMatches, SMTT(30)
    <3>2. CASE gen' = gen
      BY <3>2, <2>1, SMTT(30) DEF GenInv, TypeOK
    <3> QED
      BY <3>1, <3>2, <1>2, Zenon
      DEF Builder, BLoad, BLookForCurrent, BListVersions, BCheckIntegrity,
          BCheckCompatibility, BListSources, BReadHash, BDies, disk
  <2>3. TypeOK'
    BY <2>1, <2>2 DEF TypeOK
  <2>4. ProcessInv'
    BY <2>1 DEF ProcessInv
  <2> QED
    BY <2>2, <2>3, <2>4, <1>2, BuilderInvBuilder
<1> QED
  BY <1>1, <1>2 DEF Next2, Developer, vars2

\* A builder that generates sources in the middle of other operations, from a
\* list of versions that may be out of date, still bakes into the sources of a
\* frozen version that version's number, digest and API.
THEOREM GeneratedMatchesBeside == Spec2 => []GeneratedMatchesFrozen
<1>1. SharedInv /\ [Next2]_vars2 => SharedInv'
  BY SharedStep
<1>2. SharedInv => GeneratedMatchesFrozen
  BY GenInvSuffices, SMTT(30) DEF SharedInv
<1> QED
  BY SharedInit, <1>1, <1>2, PTL DEF Spec2

-----------------------------------------------------------------------------
(* Frozen versions never fail the builder's checks *)

BlameInv == SharedInv /\ FreezeStepInv /\ ChainInv

LEMMA ChainStep ==
    ASSUME "command" \notin Faults, FreezeStepInv, ChainInv, [Next]_vars
    PROVE  ChainInv'
<1>0. /\ TypeOK /\ ProcessInv /\ CopyInv /\ FreezeInv
      /\ versions \in 0 .. MaxVersion /\ MaxVersion \in Nat
  BY MaxVersionAssumption DEF FreezeStepInv, IntactInv, TypeOK
<1>1. FrozenUnchanged
  BY <1>0, FrozenStep
<1>2. CASE versions' = versions
  BY <1>0, <1>1, <1>2 DEF FrozenUnchanged, ChainInv
<1>3. CASE WriteDefinition
  <2>1. /\ versions' = versions + 1 /\ files' = files
        /\ files[versions + 1] = files[CURRENT_VERSION]
        /\ versions > 0 => Compatible(files[versions], files[CURRENT_VERSION])
    BY <1>3, <1>0 DEF WriteDefinition, Fault, CopyInv, FreezeInv, FreezeLabels, Committing
  <2> QED
    BY <1>0, <2>1, SMTT(30) DEF ChainInv
<1> QED
  BY Quiet, <1>2, <1>3 DEF Rsync, RemoveHash, HashGen, CopyFile, CopyHash, Crash

LEMMA IntactHash ==
    ASSUME TypeOK, RegisteredIntact, NEW v \in 1 .. versions
    PROVE  hash[v] = aidl_hash_gen(files[v], v) /\ hash[v] # NoHash
<1>1. version_for_hashgen(v) \in Versions /\ files[v] \in Dir
  BY MaxVersionAssumption DEF TypeOK, version_for_hashgen, Versions, CURRENT_VERSION
<1>2. aidl_hash_gen(files[v], v) \in Hash
  BY <1>1, SMTT(30) DEF aidl_hash_gen, Hash
<1> QED
  BY <1>2, NoHashAssumption DEF RegisteredIntact

\* The only blame the builder can lay on a frozen version is one that the
\* invariants exclude.
LEMMA BlameStep ==
    ASSUME TypeOK, RegisteredIntact, ChainInv, BuilderInv, FrozenNeverBlamed, Builder
    PROVE  FrozenNeverBlamed'
<1> USE DEF FrozenNeverBlamed
<1>0. b_loaded \in 0 .. versions /\ versions \in 0 .. MaxVersion /\ MaxVersion \in Nat
  BY MaxVersionAssumption DEF BuilderInv, TypeOK
<1>1. CASE BListVersions
  <2>1. \A v \in 1 .. b_loaded : v \in dirs
    BY <1>0 DEF RegisteredIntact
  <2> QED
    BY <1>1, <2>1 DEF BListVersions, BGoto, BExit
<1>2. ASSUME b_dumps # {}, FirstDump # b_next
      PROVE  /\ FirstDump \in 1 .. versions /\ b_dir(FirstDump) = FirstDump
             /\ FirstDump > 1 => Compatible(files[FirstDump - 1], files[FirstDump])
  <2>1. FirstDump \in 1 .. b_loaded
    BY <1>0, <1>2, FirstDumpIs DEF b_next
  <2>2. FirstDump \in 1 .. versions /\ b_dir(FirstDump) = FirstDump
    BY <2>1, NotCurrent, SMTT(30)
  <2> QED
    BY <1>0, <2>2 DEF ChainInv
<1>3. CASE BCheckIntegrity
  <2>1. SUFFICES ASSUME b_dumps # {}, FirstDump # b_next PROVE FrozenNeverBlamed'
    BY <1>3 DEF BCheckIntegrity, BExit, BGoto, Culprit
  <2>2. /\ b_dir(FirstDump) = FirstDump /\ hash[FirstDump] # NoHash
        /\ hash[FirstDump] = aidl_hash_gen(files[FirstDump], FirstDump)
    BY <1>2, <2>1, IntactHash
  <2> QED
    BY <1>3, <2>2, SMTT(30) DEF BCheckIntegrity, BGoto, BExit
<1>4. CASE BCheckCompatibility
  <2>1. SUFFICES ASSUME FirstDump # b_next PROVE FrozenNeverBlamed'
    BY <1>4 DEF BCheckCompatibility, BExit, BGoto, Culprit
  <2>2. b_dumps # {}
    BY <1>4 DEF BCheckCompatibility, BuilderInv
  <2> QED
    BY <1>2, <1>4, <2>1, <2>2 DEF BCheckCompatibility, BExit, BGoto
<1> QED
  BY <1>1, <1>3, <1>4
  DEF Builder, BLoad, BLookForCurrent, BListSources, BReadHash, BCompile, BDies, BGoto, BExit

\* Unless a command fails unnoticed, a builder that runs beside update_api and
\* freeze_api, at whatever moments it reads the disk and wherever either process
\* has died before, never reports a frozen version as missing, modified, unhashed
\* or incompatible.
THEOREM BuilderNeverBlamesFrozen ==
    ASSUME "command" \notin Faults
    PROVE  Spec2 => []FrozenNeverBlamed
<1> DEFINE Inv == BlameInv /\ FrozenNeverBlamed
<1>1. Init2 => Inv
  BY SharedInit
  DEF Init2, Init, BlameInv, SharedInv, FreezeStepInv, IntactInv, FreezeInv, LeftoverInv,
      CopyInv, RegisteredIntact, FreezeLabels, Committing, Present, EmptyDir, Versions,
      CURRENT_VERSION, ChainInv, FrozenNeverBlamed
<1>2. Inv /\ [Next2]_vars2 => Inv'
  <2> SUFFICES ASSUME Inv, [Next2]_vars2 PROVE Inv'
    OBVIOUS
  <2> USE DEF BlameInv
  <2>1. SharedInv'
    BY SharedStep
  <2>2. CASE [Next]_vars /\ UNCHANGED builder
    <3>1. FreezeInv' /\ ChainInv'
      BY <2>2, FreezeStep, ChainStep
    <3>2. IntactInv'
      BY <2>2, TypeStep, LeftoverStep, CopyStep, RegisteredStep DEF FreezeStepInv, IntactInv
    <3>3. FrozenNeverBlamed'
      BY <2>2 DEF FrozenNeverBlamed, builder
    <3> QED
      BY <2>1, <3>1, <3>2, <3>3 DEF FreezeStepInv
  <2>3. CASE Builder
    <3>1. FrozenNeverBlamed'
      BY <2>3, BlameStep DEF SharedInv, FreezeStepInv, IntactInv
    <3>2. /\ UNCHANGED <<src, dirs, files, hash, versions, torn, has_development>>
          /\ UNCHANGED <<pc, op, loaded, todo, outcome>>
      BY <2>3, BuilderLeaves, SMTT(30) DEF process
    <3>3. LeftoverInv' /\ CopyInv' /\ RegisteredIntact' /\ FreezeInv' /\ ChainInv'
      BY <3>2, ZenonT(40)
      DEF FreezeStepInv, IntactInv, LeftoverInv, CopyInv, RegisteredIntact, FreezeInv, ChainInv
    <3> QED
      BY <2>1, <3>1, <3>3 DEF SharedInv, FreezeStepInv, IntactInv
  <2> QED
    BY <2>2, <2>3 DEF Next2, Developer, vars2
<1> QED
  BY <1>1, <1>2, PTL DEF Spec2

-----------------------------------------------------------------------------
(* Beside a builder, too, the registered versions only grow *)

\* The step that registers a version puts it above all registered ones, not just
\* above the one it was compared with.
LEMMA GrowStep ==
    ASSUME "command" \notin Faults, FreezeStepInv, VersionsGrow, [Next]_vars
    PROVE  VersionsGrow'
<1>0. /\ TypeOK /\ ProcessInv /\ CopyInv /\ FreezeInv
      /\ versions \in 0 .. MaxVersion /\ MaxVersion \in Nat
  BY MaxVersionAssumption DEF FreezeStepInv, IntactInv, TypeOK
<1>1. FrozenUnchanged
  BY <1>0, FrozenStep, SMTT(30)
<1>2. CASE versions' = versions
  BY <1>0, <1>1, <1>2, Zenon DEF FrozenUnchanged, VersionsGrow
<1>3. CASE WriteDefinition
  <2>1. PICK d : d = files[CURRENT_VERSION]
    BY SMTT(30)
  <2>2. /\ versions' = versions + 1 /\ files' = files /\ files[versions + 1] = d
        /\ versions > 0 => Compatible(files[versions], d) /\ ~Equal(files[versions], d)
    BY <1>3, <1>0, <2>1 DEF WriteDefinition, Fault, CopyInv, FreezeInv, FreezeLabels, Committing
  <2>3. d \in Dir /\ \A v \in 1 .. versions : files[v] \in Dir
    BY <1>0, <2>1 DEF TypeOK, Versions, CURRENT_VERSION
  <2>4. ASSUME NEW v \in 1 .. versions
        PROVE  Compatible(files[v], d) /\ ~Compatible(d, files[v])
    <3>1. versions \in 1 .. versions
      BY <1>0
    <3>2. PICK a, b : a = files[v] /\ b = files[versions]
      OBVIOUS
    <3>3. a \in Dir /\ b \in Dir
      BY <2>3, <3>1, <3>2
    <3>4. Compatible(b, d) /\ ~Compatible(d, b)
      BY <1>0, <2>2, <3>1, <3>2 DEF Equal
    <3>5. CASE v = versions
      BY <3>2, <3>4, <3>5
    <3>6. CASE v # versions
      <4>1. Compatible(a, b)
        BY <1>0, <3>1, <3>2, <3>6 DEF VersionsGrow
      <4>2. Compatible(a, d)
        BY <2>3, <3>3, <3>4, <4>1, CompatibleTrans
      <4>3. Compatible(d, a) => Compatible(d, b)
        BY <2>3, <3>3, <4>1, CompatibleTrans
      <4> QED
        BY <3>2, <3>4, <4>2, <4>3
    <3> QED
      BY <3>5, <3>6
  <2>5. ASSUME NEW v \in 1 .. versions + 1, NEW w \in 1 .. versions + 1, v < w
        PROVE  Compatible(files[v], files[w]) /\ ~Compatible(files[w], files[v])
    <3>1. CASE w = versions + 1
      <4>1. v \in 1 .. versions
        BY <1>0, <2>5, <3>1
      <4> QED
        BY <2>2, <2>4, <3>1, <4>1
    <3>2. CASE w # versions + 1
      BY <1>0, <2>5, <3>2, SMTT(30) DEF VersionsGrow
    <3> QED
      BY <3>1, <3>2
  <2> QED
    BY <2>2, <2>5 DEF VersionsGrow
<1> QED
  BY Quiet, <1>2, <1>3, SMTT(30) DEF Rsync, RemoveHash, HashGen, CopyFile, CopyHash, Crash

\* Unless a command fails unnoticed, each registered version extends all earlier
\* ones and is none of them again, also while a builder runs.
GrowthInv == SharedInv /\ FreezeStepInv /\ VersionsGrow

LEMMA GrowthInit == Init2 => GrowthInv
  BY SharedInit
  DEF Init2, Init, GrowthInv, SharedInv, FreezeStepInv, IntactInv, FreezeInv, LeftoverInv,
      CopyInv, RegisteredIntact, FreezeLabels, Committing, Present, EmptyDir, Versions,
      CURRENT_VERSION, VersionsGrow

LEMMA GrowthStep ==
    ASSUME "command" \notin Faults, GrowthInv, [Next2]_vars2
    PROVE  GrowthInv'
<1> USE DEF GrowthInv
<1>1. SharedInv'
  BY SharedStep
<1>2. CASE [Next]_vars /\ UNCHANGED builder
  <2>1. FreezeInv' /\ VersionsGrow'
    BY <1>2, FreezeStep, GrowStep
  <2>2. IntactInv'
    BY <1>2, TypeStep, LeftoverStep, CopyStep, RegisteredStep DEF FreezeStepInv, IntactInv
  <2> QED
    BY <1>1, <2>1, <2>2 DEF FreezeStepInv
<1>3. CASE Builder
  <2>1. /\ UNCHANGED <<src, dirs, files, hash, versions, torn, has_development>>
        /\ UNCHANGED <<pc, op, loaded, todo, outcome>>
    BY <1>3, BuilderLeaves, SMTT(30) DEF process
  <2>2. LeftoverInv' /\ CopyInv' /\ RegisteredIntact' /\ FreezeInv' /\ VersionsGrow'
    BY <2>1, Zenon
    DEF FreezeStepInv, IntactInv, LeftoverInv, CopyInv, RegisteredIntact, FreezeInv, VersionsGrow
  <2> QED
    BY <1>1, <2>2 DEF SharedInv, FreezeStepInv, IntactInv
<1> QED
  BY <1>2, <1>3 DEF Next2, Developer, vars2

\* Unless a command fails unnoticed, a later version can always stand in for an
\* earlier one and never the other way round, however many lie between them, and
\* whatever processes died or ran beside each other: freeze_api compares a version
\* only with the one before it, and that is enough.
THEOREM VersionsAlwaysGrow ==
    ASSUME "command" \notin Faults
    PROVE  Spec2 => []VersionsGrow
<1>1. GrowthInv /\ [Next2]_vars2 => GrowthInv'
  BY GrowthStep
<1>2. GrowthInv => VersionsGrow
  BY DEF GrowthInv
<1> QED
  BY GrowthInit, <1>1, <1>2, PTL DEF Spec2

\* The same for the log: with a builder at work the registered versions behave as
\* a FrozenLog.
THEOREM RefinesFrozenLogBeside ==
    ASSUME "command" \notin Faults
    PROVE  Spec2 => ImplementsFrozenLog
<1>1. GrowthInv /\ [Next2]_vars2 => GrowthInv'
  BY GrowthStep
<1>2. Init2 => Log!Init
  BY DEF Init2, Init, Log!Init
<1>3. ASSUME GrowthInv, [Next2]_vars2
      PROVE  [Log!Next]_([v \in 1 .. versions |-> files[v]])
  <2>1. CASE [Next]_vars
    BY <1>3, <2>1, LogStep DEF GrowthInv
  <2>2. CASE Builder
    BY <2>2, BuilderLeaves
  <2> QED
    BY <1>3, <2>1, <2>2 DEF Next2, Developer, vars2
<1> QED
  BY GrowthInit, <1>1, <1>2, <1>3, PTL DEF Spec2, ImplementsFrozenLog, Log!Spec

\* Whatever fails, neither the developer's process nor a builder changes a
\* registered version or takes it off the list.
THEOREM FrozenNeverChangesBeside == Spec2 => FrozenImmutable
<1>1. SharedInv /\ [Next2]_vars2 => SharedInv'
  BY SharedStep
<1>2. ASSUME SharedInv, [Next2]_vars2
      PROVE  [/\ versions' >= versions
              /\ \A v \in 1 .. versions : files'[v] = files[v] /\ hash'[v] = hash[v]]_vars
  <2>1. CASE [Next]_vars
    BY <1>2, <2>1, FrozenStep, SMTT(30) DEF SharedInv, FrozenUnchanged
  <2>2. CASE Builder
    BY <1>2, <2>2, BuilderLeaves DEF SharedInv, TypeOK
  <2> QED
    BY <1>2, <2>1, <2>2, SMTT(30) DEF Next2, Developer, vars2
<1> QED
  BY SharedInit, <1>1, <1>2, PTL DEF Spec2, FrozenImmutable

=============================================================================
