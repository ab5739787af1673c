---------------------------- MODULE ImportsProofs ----------------------------
(***************************************************************************)
(* What process_imports guarantees for every graph of imports, however     *)
(* deep.  The invariant is about the active calls: an import that a call   *)
(* has dealt with is in api_dependecies by now, or is what the next call   *)
(* resolves; and a call that resolves a frozen version was made for a      *)
(* version that its caller has on record.                                  *)
(***************************************************************************)
EXTENDS Imports, SequenceTheorems, WellFoundedInduction, TLAPS

Version == {Unpinned} \cup Nat

Lists == UNION {[D -> Version] : D \in SUBSET Interface}

FrameSet ==
    {f \in [interface : Interface, version : Version, imports : Lists, todo : SUBSET Interface] :
        f.todo \subseteq DOMAIN f.imports}

CallSet(i) ==
    {c \in [type : {"next", "latest", "frozen"}, version : Nat] :
        c.type = "frozen" => c.version \in 1 .. latest_version(i)}

TypeInv ==
    /\ imports \in [Interface -> Lists] /\ versions_with_info \in [Interface -> Seq(Lists)]
    /\ stack \in Seq(FrameSet)
    /\ op # "none" => target \in Interface /\ calls \in Seq(CallSet(target))
    /\ stack # <<>> => op # "none" /\ calls # <<>>

\* append_version records versions that exist, or 0.
RecordedInv ==
    \A i \in Interface : \A v \in 1 .. latest_version(i) : \A j \in DOMAIN versions_with_info[i][v] :
        versions_with_info[i][v][j] \in 0 .. latest_version(j)

CallInv ==
    \A n \in 1 .. Len(stack) : \A j \in DOMAIN stack[n].imports :
        \/ j \in stack[n].todo \cup DOMAIN api_dependecies
        \/ n < Len(stack) /\ j = stack[n + 1].interface

FrozenInv ==
    stack # <<>> /\ import_ver_type = "frozen" =>
        \A n \in 1 .. Len(stack) :
            /\ \A j \in DOMAIN stack[n].imports : stack[n].imports[j] \in 0 .. latest_version(j)
            /\ n > 1 => /\ stack[n].interface \in DOMAIN stack[n - 1].imports
                        /\ stack[n].version = stack[n - 1].imports[stack[n].interface]

OutcomeInv == op # "none" => outcome = "running"

ResolveInv == TypeInv /\ RecordedInv /\ CallInv /\ FrozenInv /\ OutcomeInv

-----------------------------------------------------------------------------
(* Types *)

LEMMA ListIs ==
    ASSUME NEW l, ImportList(l)
    PROVE  l \in Lists
<1>1. DOMAIN l \in SUBSET Interface /\ l \in [DOMAIN l -> Version]
  BY Zenon DEF ImportList, Version
<1> QED
  BY <1>1, Zenon DEF Lists

LEMMA ListType ==
    ASSUME NEW l \in Lists
    PROVE  DOMAIN l \subseteq Interface /\ \A j \in DOMAIN l : l[j] \in Version
BY Zenon DEF Lists

LEMMA LatestType ==
    ASSUME TypeInv, NEW i \in Interface
    PROVE  /\ latest_version(i) \in Nat /\ next_version(i) \in Nat
           /\ DOMAIN versions_with_info[i] = 1 .. latest_version(i)
           /\ \A v : get_imports(i, v) \in Lists
           /\ \A v \in 1 .. latest_version(i) :
                get_imports(i, v) = versions_with_info[i][v] /\ versions_with_info[i][v] \in Lists
<1>1. versions_with_info[i] \in Seq(Lists) /\ imports[i] \in Lists
  BY Zenon DEF TypeInv
<1>2. latest_version(i) \in Nat /\ next_version(i) \in Nat
      /\ DOMAIN versions_with_info[i] = 1 .. latest_version(i)
  BY <1>1 DEF latest_version, next_version
<1>3. \A v \in 1 .. latest_version(i) : versions_with_info[i][v] \in Lists
  BY <1>1, <1>2
<1> QED
  BY <1>1, <1>2, <1>3, Zenon DEF get_imports

LEMMA FrameIs ==
    ASSUME TypeInv, NEW i \in Interface, NEW v \in Version, NEW d
    PROVE  /\ Frame(i, v, d) \in FrameSet
           /\ Frame(i, v, d).interface = i /\ Frame(i, v, d).version = v
           /\ Frame(i, v, d).imports = get_imports(i, imports_version(i, v, d))
           /\ Frame(i, v, d).todo = DOMAIN Frame(i, v, d).imports
<1>1. PICK l \in Lists : l = get_imports(i, imports_version(i, v, d))
  BY LatestType, Zenon
<1>2. Frame(i, v, d) = [interface |-> i, version |-> v, imports |-> l, todo |-> DOMAIN l]
  BY <1>1, Zenon DEF Frame
<1>3. DOMAIN l \subseteq Interface
  BY ListType, Zenon
<1> QED
  BY <1>1, <1>2, <1>3 DEF FrameSet

LEMMA HeadCall ==
    ASSUME TypeInv, op # "none", calls # <<>>
    PROVE  /\ Head(calls) \in CallSet(target) /\ Tail(calls) \in Seq(CallSet(target))
           /\ import_ver_type \in {"next", "latest", "frozen"} /\ Head(calls).version \in Nat
           /\ import_ver_type = "frozen" => Head(calls).version \in 1 .. latest_version(target)
<1>1. calls \in Seq(CallSet(target))
  BY Zenon DEF TypeInv
<1>2. Head(calls) \in CallSet(target) /\ Tail(calls) \in Seq(CallSet(target))
  BY <1>1
<1> QED
  BY <1>2, Zenon DEF CallSet, import_ver_type

LEMMA GetDependenciesIs ==
    ASSUME TypeInv, NEW i \in Interface, NEW v \in 1 .. next_version(i)
    PROVE  get_dependencies(i, v) \in CallSet(i)
<1>1. latest_version(i) \in Nat /\ next_version(i) = latest_version(i) + 1
  BY LatestType, Zenon DEF next_version
<1> QED
  BY <1>1 DEF get_dependencies, Call, CallSet

LEMMA ValidateIs ==
    ASSUME TypeInv, NEW i \in Interface, NEW h \in BOOLEAN
    PROVE  validate_interface(i, h) \in Seq(CallSet(i))
<1> DEFINE first == [k \in 1 .. latest_version(i) - 1 |-> get_dependencies(i, k + 1)]
           last == IF h /\ latest_version(i) > 0 THEN <<get_dependencies(i, next_version(i))>> ELSE <<>>
<1>1. latest_version(i) \in Nat /\ next_version(i) = latest_version(i) + 1
  BY LatestType, Zenon DEF next_version
<1>2. PICK m \in Nat : 1 .. latest_version(i) - 1 = 1 .. m /\ m < next_version(i)
  <2>1. CASE latest_version(i) = 0
    <3>1. 1 .. latest_version(i) - 1 = 1 .. 0
      BY <2>1
    <3> QED
      BY <1>1, <2>1, <3>1
  <2>2. CASE latest_version(i) > 0
    BY <1>1, <2>2
  <2> QED
    BY <1>1, <2>1, <2>2
<1>3. \A k \in 1 .. m : k + 1 \in 1 .. next_version(i)
  BY <1>1, <1>2
<1>4. \A k \in 1 .. m : get_dependencies(i, k + 1) \in CallSet(i)
  BY <1>3, GetDependenciesIs, Zenon
<1>5. first \in Seq(CallSet(i))
  <2>1. first \in [1 .. m -> CallSet(i)]
    BY <1>2, <1>4, Zenon
  <2> HIDE DEF first
  <2> QED
    BY <2>1, SeqDef, Zenon
<1>6. get_dependencies(i, next_version(i)) \in CallSet(i)
  BY <1>1, GetDependenciesIs
<1>7. last \in Seq(CallSet(i))
  BY <1>6
<1>8. validate_interface(i, h) = first \o last
  BY SMTT(30) DEF validate_interface
<1> HIDE DEF first, last
<1> QED
  BY <1>5, <1>7, <1>8, ConcatProperties, Zenon

-----------------------------------------------------------------------------
(* The stack of calls *)

LEMMA SetLast ==
    ASSUME NEW S, NEW s \in Seq(S), s # <<>>, NEW x \in S
    PROVE  LET r == [s EXCEPT ![Len(s)] = x]
           IN  /\ r \in Seq(S) /\ Len(r) = Len(s) /\ r[Len(s)] = x
               /\ \A n \in 1 .. Len(s) - 1 : r[n] = s[n]
<1> DEFINE r == [s EXCEPT ![Len(s)] = x]
<1>1. PICK m \in Nat \ {0} : m = Len(s) /\ DOMAIN s = 1 .. m /\ s \in [1 .. m -> S]
  BY EmptySeq
<1>2. m \in 1 .. m /\ \A n \in 1 .. m - 1 : n \in 1 .. m /\ n # m
  BY SMTT(30)
<1>3. r \in [1 .. m -> S] /\ r[m] = x /\ \A n \in 1 .. m - 1 : r[n] = s[n]
  BY <1>1, <1>2, Zenon
<1> HIDE DEF r
<1>4. r \in Seq(S) /\ Len(r) = m
  BY <1>3
<1> QED
  BY <1>1, <1>3, <1>4, Zenon DEF r

LEMMA Front ==
    ASSUME NEW S, NEW s \in Seq(S), s # <<>>
    PROVE  LET r == SubSeq(s, 1, Len(s) - 1)
           IN  /\ r \in Seq(S) /\ Len(r) = Len(s) - 1
               /\ \A n \in 1 .. Len(s) - 1 : r[n] = s[n]
<1>1. Len(s) \in Nat \ {0} /\ DOMAIN s = 1 .. Len(s)
  BY EmptySeq
<1> QED
  BY <1>1

\* The innermost call.
LEMMA TopIs ==
    ASSUME TypeInv, stack # <<>>
    PROVE  /\ Len(stack) \in Nat \ {0} /\ Top = stack[Len(stack)] /\ Top \in FrameSet
           /\ stack \in Seq(FrameSet) /\ op # "none" /\ calls # <<>>
<1>1. stack \in Seq(FrameSet) /\ Len(stack) \in Nat \ {0}
  BY EmptySeq, Zenon DEF TypeInv
<1> QED
  BY <1>1 DEF Top, TypeInv

\* What Descend pushes.
LEMMA Pushed ==
    ASSUME ResolveInv, NEW j \in Interface, Descend(j)
    PROVE  \E n \in Nat \ {0}, x \in FrameSet, y \in FrameSet :
             /\ n = Len(stack) /\ stack' \in Seq(FrameSet) /\ Len(stack') = n + 1
             /\ \A m \in 1 .. n - 1 : stack'[m] = stack[m]
             /\ stack'[n] = x /\ stack'[n + 1] = y
             /\ x.interface = Top.interface /\ x.version = Top.version
             /\ x.imports = Top.imports /\ x.todo = Top.todo \ {j}
             /\ y.interface = j /\ y.version = import_version(j, Top.imports[j])
             /\ y.todo = DOMAIN y.imports
             /\ y.imports = get_imports(j, imports_version(j, y.version, n + 1))
             /\ HasVersion(j, imports_version(j, y.version, n + 1))
<1>1. PICK n : n = Len(stack)
  BY Zenon
<1>2. PICK v : v = import_version(j, Top.imports[j])
  BY Zenon
<1>3. /\ stack # <<>> /\ j \in Top.todo /\ HasVersion(j, imports_version(j, v, n + 1))
      /\ stack' = Append([stack EXCEPT ![n].todo = @ \ {j}], Frame(j, v, n + 1))
  BY <1>1, <1>2, Zenon DEF Descend
<1>4. /\ n \in Nat \ {0} /\ Top = stack[n] /\ Top \in FrameSet /\ stack \in Seq(FrameSet)
      /\ op # "none" /\ calls # <<>> /\ TypeInv
  BY <1>1, <1>3, TopIs, Zenon DEF ResolveInv
<1>5. PICK x : x = [Top EXCEPT !.todo = @ \ {j}]
  BY Zenon
<1>6. /\ x \in FrameSet /\ x.interface = Top.interface /\ x.version = Top.version
      /\ x.imports = Top.imports /\ x.todo = Top.todo \ {j}
  BY <1>4, <1>5, Zenon DEF FrameSet
<1>7. PICK s : s = [stack EXCEPT ![n] = x]
  BY Zenon
<1>8. /\ s \in Seq(FrameSet) /\ Len(s) = n /\ s[n] = x /\ \A m \in 1 .. n - 1 : s[m] = stack[m]
  BY <1>1, <1>3, <1>4, <1>6, <1>7, SetLast
<1>9. v \in Version
  <2>1. latest_version(j) \in Nat /\ next_version(j) \in Nat
    BY <1>4, LatestType, Zenon
  <2>2. import_ver_type \in {"next", "latest", "frozen"}
    BY <1>4, HeadCall, Zenon
  <2>3. Top.imports \in Lists /\ j \in DOMAIN Top.imports
    BY <1>3, <1>4, Zenon DEF FrameSet
  <2>4. Top.imports[j] \in Version
    BY <2>3, ListType, Zenon
  <2> QED
    BY <1>2, <2>1, <2>2, <2>4, Zenon DEF import_version, Version
<1>10. PICK y : y = Frame(j, v, n + 1)
  BY Zenon
<1>11. /\ y \in FrameSet /\ y.interface = j /\ y.version = v /\ y.todo = DOMAIN y.imports
       /\ y.imports = get_imports(j, imports_version(j, v, n + 1))
  BY <1>4, <1>9, <1>10, FrameIs
<1>12. stack' = Append(s, y)
  BY <1>3, <1>4, <1>5, <1>7, <1>10, Zenon
<1>13. /\ stack' \in Seq(FrameSet) /\ Len(stack') = n + 1 /\ stack'[n + 1] = y
       /\ \A m \in 1 .. n : stack'[m] = s[m]
  BY <1>4, <1>8, <1>11, <1>12
<1> QED
  BY <1>1, <1>2, <1>3, <1>4, <1>6, <1>8, <1>11, <1>13

-----------------------------------------------------------------------------
(* The steps *)

LEMMA SameVersions ==
    ASSUME UNCHANGED versions_with_info
    PROVE  /\ \A i : latest_version(i)' = latest_version(i) /\ CallSet(i)' = CallSet(i)
           /\ RecordedInv => RecordedInv'
<1>1. \A i : latest_version(i)' = latest_version(i)
  BY Zenon DEF latest_version
<1> QED
  BY <1>1, Zenon DEF CallSet, RecordedInv

\* What a frozen version imports was frozen, or had never been.
LEMMA FrozenImports ==
    ASSUME ResolveInv, NEW i \in Interface, NEW v \in 1 .. latest_version(i)
    PROVE  \A j \in DOMAIN get_imports(i, v) : get_imports(i, v)[j] \in 0 .. latest_version(j)
BY LatestType, Zenon DEF ResolveInv, RecordedInv

LEMMA DescendStep ==
    ASSUME ResolveInv, NEW j \in Interface, Descend(j)
    PROVE  ResolveInv'
<1>1. /\ stack # <<>> /\ j \in Top.todo
      /\ UNCHANGED <<imports, versions_with_info, current, op, target, calls, api_dependecies, outcome>>
  BY Zenon DEF Descend, disk
<1>2. PICK n \in Nat \ {0}, x \in FrameSet, y \in FrameSet :
        /\ n = Len(stack) /\ stack' \in Seq(FrameSet) /\ Len(stack') = n + 1
        /\ \A m \in 1 .. n - 1 : stack'[m] = stack[m]
        /\ stack'[n] = x /\ stack'[n + 1] = y
        /\ x.interface = Top.interface /\ x.version = Top.version
        /\ x.imports = Top.imports /\ x.todo = Top.todo \ {j}
        /\ y.interface = j /\ y.version = import_version(j, Top.imports[j])
        /\ y.todo = DOMAIN y.imports
        /\ y.imports = get_imports(j, imports_version(j, y.version, n + 1))
        /\ HasVersion(j, imports_version(j, y.version, n + 1))
  BY Pushed, Zenon
<1>3. /\ Top = stack[n] /\ Top \in FrameSet /\ op # "none" /\ calls # <<>>
  BY <1>1, <1>2, TopIs, Zenon DEF ResolveInv
<1>4. \A m \in 1 .. n + 1 : m \in 1 .. n - 1 \/ m = n \/ m = n + 1
  BY <1>2
<1>5. \A m \in 1 .. n : stack'[m].interface = stack[m].interface
                        /\ stack'[m].version = stack[m].version /\ stack'[m].imports = stack[m].imports
  <2>1. \A m \in 1 .. n : m \in 1 .. n - 1 \/ m = n
    OBVIOUS
  <2> QED
    BY <1>2, <1>3, <2>1, Zenon
<1>6. TypeInv'
  BY <1>1, <1>2, <1>3, SameVersions, Zenon DEF ResolveInv, TypeInv
<1>7. RecordedInv'
  BY <1>1, SameVersions, Zenon DEF ResolveInv
<1>8. CallInv'
  <2> SUFFICES ASSUME NEW m \in 1 .. n + 1, NEW k \in DOMAIN stack'[m].imports
               PROVE  \/ k \in stack'[m].todo \cup DOMAIN api_dependecies
                      \/ m < n + 1 /\ k = stack'[m + 1].interface
    BY <1>1, <1>2, Zenon DEF CallInv
  <2>1. CASE m \in 1 .. n - 1
    <3>1. m \in 1 .. n /\ m + 1 \in 1 .. n /\ m < n + 1 /\ m < n
      BY <2>1
    <3>2. k \in stack[m].todo \cup DOMAIN api_dependecies \/ k = stack[m + 1].interface
      BY <1>2, <1>5, <3>1, Zenon DEF ResolveInv, CallInv
    <3> QED
      BY <1>2, <1>5, <2>1, <3>1, <3>2, Zenon
  <2>2. CASE m = n
    <3>1. k \in Top.todo \cup DOMAIN api_dependecies
      BY <1>2, <1>3, <2>2 DEF ResolveInv, CallInv
    <3> QED
      BY <1>2, <2>2, <3>1
  <2>3. CASE m = n + 1
    BY <1>2, <2>3, Zenon
  <2> QED
    BY <1>4, <2>1, <2>2, <2>3, Zenon
<1>9. FrozenInv'
  <2> SUFFICES ASSUME import_ver_type = "frozen", NEW m \in 1 .. n + 1
               PROVE  /\ \A k \in DOMAIN stack'[m].imports : stack'[m].imports[k] \in 0 .. latest_version(k)
                      /\ m > 1 => /\ stack'[m].interface \in DOMAIN stack'[m - 1].imports
                                  /\ stack'[m].version = stack'[m - 1].imports[stack'[m].interface]
    BY <1>1, <1>2, SameVersions, Zenon DEF FrozenInv, import_ver_type
  <2>1. \A o \in 1 .. n :
          /\ \A k \in DOMAIN stack[o].imports : stack[o].imports[k] \in 0 .. latest_version(k)
          /\ o > 1 => /\ stack[o].interface \in DOMAIN stack[o - 1].imports
                      /\ stack[o].version = stack[o - 1].imports[stack[o].interface]
    BY <1>1, <1>2, Zenon DEF ResolveInv, FrozenInv
  <2>2. CASE m \in 1 .. n
    <3>1. m > 1 => m - 1 \in 1 .. n
      BY <2>2
    <3> QED
      BY <1>5, <2>1, <2>2, <3>1, Zenon
  <2>3. CASE m = n + 1
    <3>1. n \in 1 .. n /\ m - 1 = n /\ latest_version(j) \in Nat
      BY <2>3, LatestType DEF ResolveInv
    <3>2. y.version = Top.imports[j] /\ imports_version(j, y.version, n + 1) = y.version
      BY <1>2, Zenon DEF import_version, imports_version
    <3>3. j \in DOMAIN Top.imports
      BY <1>1, <1>3, Zenon DEF FrameSet
    <3>4. Top.imports[j] \in 0 .. latest_version(j)
      BY <1>3, <2>1, <3>1, <3>3, Zenon
    <3>5. y.version \in 1 .. latest_version(j)
      BY <1>2, <3>1, <3>2, <3>4 DEF HasVersion
    <3>6. \A k \in DOMAIN y.imports : y.imports[k] \in 0 .. latest_version(k)
      BY <1>2, <3>2, <3>5, FrozenImports
    <3> QED
      BY <1>2, <1>3, <1>5, <2>3, <3>1, <3>2, <3>3, <3>6, ZenonT(40)
  <2> QED
    BY <1>2, <2>2, <2>3, SMTT(30)
<1> QED
  BY <1>1, <1>6, <1>7, <1>8, <1>9, Zenon DEF ResolveInv, OutcomeInv

LEMMA ReturnStep ==
    ASSUME ResolveInv, Return
    PROVE  /\ ResolveInv'
           /\ \A j \in DOMAIN api_dependecies' :
                (j \notin DOMAIN api_dependecies \/ api_dependecies'[j] # api_dependecies[j])
                  => DOMAIN Top.imports \subseteq DOMAIN api_dependecies
<1>1. /\ stack # <<>> /\ Top.todo = {} /\ stack' = SubSeq(stack, 1, Len(stack) - 1)
      /\ UNCHANGED <<imports, versions_with_info, current, op, target, outcome>>
  BY Zenon DEF Return, disk
<1>2. PICK n : n = Len(stack)
  BY Zenon
<1>3. /\ n \in Nat \ {0} /\ Top = stack[n] /\ Top \in FrameSet /\ stack \in Seq(FrameSet)
      /\ op # "none" /\ calls # <<>>
  BY <1>1, <1>2, TopIs, Zenon DEF ResolveInv
<1>4. stack' \in Seq(FrameSet) /\ Len(stack') = n - 1 /\ \A m \in 1 .. n - 1 : stack'[m] = stack[m]
  BY <1>1, <1>2, <1>3, Front, Zenon
<1>5. \A m \in 1 .. n - 1 : m \in 1 .. n /\ (m + 1 = n \/ (m + 1 \in 1 .. n - 1 /\ m < n - 1))
  BY <1>3
<1>6. RecordedInv'
  BY <1>1, SameVersions, Zenon DEF ResolveInv
<1>7. DOMAIN Top.imports \subseteq DOMAIN api_dependecies
  BY <1>1, <1>2, <1>3 DEF ResolveInv, CallInv
<1>8. CASE n = 1
  <2>1. calls' = Tail(calls) /\ UNCHANGED api_dependecies
    BY <1>2, <1>8, Zenon DEF Return
  <2>2. stack' = <<>>
    BY <1>4, <1>8, EmptySeq
  <2>3. calls' \in Seq(CallSet(target)) /\ target \in Interface
    BY <1>3, <2>1, HeadCall, Zenon DEF ResolveInv, TypeInv
  <2>4. TypeInv'
    BY <1>1, <1>4, <2>2, <2>3, SameVersions, Zenon DEF ResolveInv, TypeInv
  <2>5. CallInv' /\ FrozenInv'
    BY <1>4, <1>8, <2>2 DEF CallInv, FrozenInv
  <2> QED
    BY <1>1, <1>6, <1>7, <2>4, <2>5, Zenon DEF ResolveInv, OutcomeInv
<1>9. CASE n # 1
  <2>1. add_dependency(Top.interface, Top.version) /\ UNCHANGED calls
    BY <1>2, <1>9, Zenon DEF Return
  <2>2. DOMAIN api_dependecies' = DOMAIN api_dependecies \cup {Top.interface}
    BY <2>1, Zenon DEF add_dependency
  <2>3. TypeInv'
    BY <1>1, <1>3, <1>4, <2>1, SameVersions, Zenon DEF ResolveInv, TypeInv
  <2>4. CallInv'
    <3> SUFFICES ASSUME NEW m \in 1 .. n - 1, NEW k \in DOMAIN stack[m].imports
                 PROVE  \/ k \in stack[m].todo \cup DOMAIN api_dependecies'
                        \/ m < n - 1 /\ k = stack'[m + 1].interface
      BY <1>4, Zenon DEF CallInv
    <3>1. k \in stack[m].todo \cup DOMAIN api_dependecies \/ k = stack[m + 1].interface
      BY <1>2, <1>5, Zenon DEF ResolveInv, CallInv
    <3> QED
      BY <1>3, <1>4, <1>5, <2>2, <3>1, Zenon
  <2>5. FrozenInv'
    <3> SUFFICES ASSUME import_ver_type = "frozen", NEW m \in 1 .. n - 1
                 PROVE  /\ \A k \in DOMAIN stack[m].imports : stack[m].imports[k] \in 0 .. latest_version(k)
                        /\ m > 1 => /\ stack[m].interface \in DOMAIN stack'[m - 1].imports
                                    /\ stack[m].version = stack'[m - 1].imports[stack[m].interface]
      BY <1>1, <1>4, <2>1, SameVersions, Zenon DEF FrozenInv, import_ver_type
    <3>1. m \in 1 .. Len(stack) /\ (m > 1 => m - 1 \in 1 .. n - 1)
      BY <1>2, <1>3
    <3> QED
      BY <1>1, <1>4, <3>1, Zenon DEF ResolveInv, FrozenInv
  <2> QED
    BY <1>1, <1>6, <1>7, <2>3, <2>4, <2>5, Zenon DEF ResolveInv, OutcomeInv
<1> QED
  BY <1>8, <1>9, Zenon

LEMMA BeginStep ==
    ASSUME ResolveInv, Begin
    PROVE  ResolveInv'
<1>1. PICK v : v = Head(calls).version
  BY Zenon
<1>2. /\ op # "none" /\ calls # <<>> /\ stack = <<>> /\ stack' = <<Frame(target, v, 1)>>
      /\ UNCHANGED <<imports, versions_with_info, current, op, target, calls, outcome>>
  BY <1>1, Zenon DEF Begin, disk
<1>3. /\ target \in Interface /\ v \in Nat
      /\ import_ver_type = "frozen" => v \in 1 .. latest_version(target)
  BY <1>1, <1>2, HeadCall, Zenon DEF ResolveInv, TypeInv
<1>4. PICK f : f = Frame(target, v, 1)
  BY Zenon
<1>5. /\ f \in FrameSet /\ f.todo = DOMAIN f.imports
      /\ f.imports = get_imports(target, imports_version(target, v, 1))
  BY <1>3, <1>4, FrameIs DEF ResolveInv, Version
<1>6. /\ stack' \in Seq(FrameSet) /\ Len(stack') = 1 /\ stack'[1] = f
      /\ \A n \in 1 .. Len(stack') : n = 1
  BY <1>2, <1>4, <1>5
<1>7. TypeInv'
  BY <1>2, <1>6, SameVersions, Zenon DEF ResolveInv, TypeInv
<1>8. CallInv'
  BY <1>5, <1>6, Zenon DEF CallInv
<1>9. FrozenInv'
  <2> SUFFICES ASSUME import_ver_type = "frozen"
               PROVE  \A k \in DOMAIN f.imports : f.imports[k] \in 0 .. latest_version(k)
    BY <1>2, <1>6, SameVersions DEF FrozenInv, import_ver_type
  <2>1. imports_version(target, v, 1) = v
    BY Zenon DEF imports_version
  <2> QED
    BY <1>3, <1>5, <2>1, FrozenImports, Zenon
<1> QED
  BY <1>2, <1>7, <1>8, <1>9, SameVersions, Zenon DEF ResolveInv, OutcomeInv

\* Between the calls nothing is active.
LEMMA IdleStep ==
    ASSUME ResolveInv, stack' = <<>>, UNCHANGED versions_with_info, imports' \in [Interface -> Lists],
           op' # "none" => target' \in Interface /\ calls' \in Seq(CallSet(target')) /\ outcome' = "running"
    PROVE  ResolveInv'
<1>1. stack' \in Seq(FrameSet) /\ Len(stack') = 0
  OBVIOUS
<1>2. TypeInv'
  BY <1>1, SameVersions, Zenon DEF ResolveInv, TypeInv
<1>3. CallInv' /\ FrozenInv' /\ OutcomeInv'
  BY <1>1 DEF CallInv, FrozenInv, OutcomeInv
<1> QED
  BY <1>2, <1>3, SameVersions, Zenon DEF ResolveInv

LEMMA InvokeStep ==
    ASSUME ResolveInv, Invoke
    PROVE  ResolveInv'
<1>1. PICK i \in Interface :
        \/ handle_update_api(i) \/ handle_freeze_api(i) \/ NoCurrent(i)
        \/ \E v : handle_source_gen(i, v)
  BY Zenon DEF Invoke
<1>2. latest_version(i) \in Nat /\ next_version(i) = latest_version(i) + 1 /\ TypeInv
  BY LatestType, Zenon DEF ResolveInv, next_version
<1>3. \A v \in 1 .. next_version(i) :
        get_dependencies(i, v) \in CallSet(i) /\ <<get_dependencies(i, v)>> \in Seq(CallSet(i))
  BY <1>2, GetDependenciesIs
<1>4. next_version(i) \in 1 .. next_version(i)
  BY <1>2
<1>5. validate_interface(i, TRUE) \in Seq(CallSet(i))
  BY <1>2, ValidateIs, Zenon
<1>6. pre_validation(i) \in Seq(CallSet(i)) /\ check_for_development(i) \in Seq(CallSet(i))
  BY <1>3, <1>4 DEF pre_validation, check_for_development
<1>7. <<Call("latest", next_version(i))>> \in Seq(CallSet(i))
  <2>1. Call("latest", next_version(i)) \in CallSet(i)
    BY <1>2 DEF Call, CallSet
  <2> QED
    BY <2>1
<1>8. stack = <<>> \/ op # "none"
  BY Zenon DEF ResolveInv, TypeInv
<1>9. ASSUME NEW o, NEW c \in Seq(CallSet(i)), Running(o, i, c) PROVE ResolveInv'
  <2>1. /\ op = "none" /\ target' = i /\ calls' = c /\ outcome' = "running"
        /\ UNCHANGED <<imports, versions_with_info, stack, api_dependecies>>
    BY <1>9, Zenon DEF Running
  <2>2. target' \in Interface /\ calls' \in Seq(CallSet(target')) /\ imports' \in [Interface -> Lists]
    BY <1>9, <2>1, Zenon DEF ResolveInv, TypeInv
  <2> QED
    BY <1>8, <2>1, <2>2, IdleStep, Zenon
<1>10. CASE handle_update_api(i)
  BY <1>5, <1>6, <1>9, <1>10, ConcatProperties, Zenon DEF handle_update_api
<1>11. CASE handle_freeze_api(i)
  <2>1. validate_interface(i, TRUE) \o check_for_development(i) \in Seq(CallSet(i))
    BY <1>5, <1>6, ConcatProperties, Zenon
  <2>2. validate_interface(i, TRUE) \o check_for_development(i)
          \o <<Call("latest", next_version(i))>> \in Seq(CallSet(i))
    BY <1>7, <2>1, ConcatProperties, Zenon
  <2> QED
    BY <1>9, <1>11, <2>2, Zenon DEF handle_freeze_api
<1>12. ASSUME NEW v, handle_source_gen(i, v) PROVE ResolveInv'
  <2>1. v \in 1 .. next_version(i)
    BY <1>12, Zenon DEF handle_source_gen
  <2>2. validate_interface(i, TRUE) \o <<get_dependencies(i, v)>> \in Seq(CallSet(i))
    BY <1>3, <1>5, <2>1, ConcatProperties, Zenon
  <2> QED
    BY <1>9, <1>12, <2>2, Zenon DEF handle_source_gen
<1>13. CASE NoCurrent(i)
  BY <1>8, <1>13, IdleStep, Zenon DEF NoCurrent, disk, ResolveInv, TypeInv
<1> QED
  BY <1>1, <1>10, <1>11, <1>12, <1>13, Zenon

LEMMA FinishStep ==
    ASSUME ResolveInv, Finish
    PROVE  ResolveInv'
<1>1. /\ op # "none" /\ op' = "none" /\ stack' = <<>> /\ imports' = imports
      /\ append_version(target) \/ UNCHANGED versions_with_info
  BY Zenon DEF Finish, End
<1>2. CASE UNCHANGED versions_with_info
  BY <1>1, <1>2, IdleStep, Zenon DEF ResolveInv, TypeInv
<1>3. CASE append_version(target)
  <2>1. target \in Interface /\ versions_with_info \in [Interface -> Seq(Lists)]
        /\ imports \in [Interface -> Lists]
    BY <1>1, Zenon DEF ResolveInv, TypeInv
  <2>2. PICK l : l = [j \in DOMAIN imports[target] |-> latest_version(j)]
    BY Zenon
  <2>3. DOMAIN imports[target] \subseteq Interface
    BY <2>1, ListType, Zenon
  <2>4. DOMAIN l \subseteq Interface /\ \A j \in DOMAIN l : l[j] = latest_version(j) /\ l[j] \in Nat
    BY <2>2, <2>3, LatestType, Zenon DEF ResolveInv
  <2>5. l \in Lists
    <3>1. l \in [DOMAIN l -> Version]
      BY <2>2, <2>4, Zenon DEF Version
    <3> QED
      BY <2>4, <3>1, Zenon DEF Lists
  <2>6. PICK w : w = versions_with_info[target]
    BY Zenon
  <2>7. w \in Seq(Lists) /\ Len(w) = latest_version(target)
    BY <2>1, <2>6, Zenon DEF latest_version
  <2>8. /\ Append(w, l) \in Seq(Lists) /\ Len(Append(w, l)) = Len(w) + 1 /\ Len(w) \in Nat
        /\ Append(w, l)[Len(w) + 1] = l /\ \A v \in 1 .. Len(w) : Append(w, l)[v] = w[v]
    BY <2>5, <2>7
  <2>9. versions_with_info' = [versions_with_info EXCEPT ![target] = Append(w, l)]
    BY <1>3, <2>2, <2>6, Zenon DEF append_version
  <2>10. /\ versions_with_info' \in [Interface -> Seq(Lists)]
         /\ versions_with_info'[target] = Append(w, l)
         /\ \A i \in Interface \ {target} : versions_with_info'[i] = versions_with_info[i]
    BY <2>1, <2>8, <2>9, Zenon
  <2>11. \A i \in Interface : latest_version(i) \in Nat /\ latest_version(i)' \in Nat
                              /\ latest_version(i)' >= latest_version(i)
    <3> SUFFICES ASSUME NEW i \in Interface
                 PROVE  latest_version(i) \in Nat /\ latest_version(i)' \in Nat
                        /\ latest_version(i)' >= latest_version(i)
      BY Zenon
    <3>1. latest_version(i) \in Nat
      BY LatestType, Zenon DEF ResolveInv
    <3>2. CASE i = target
      BY <2>7, <2>8, <2>10, <3>1, <3>2 DEF latest_version
    <3>3. CASE i # target
      BY <2>10, <3>1, <3>3 DEF latest_version
    <3> QED
      BY <3>2, <3>3, Zenon
  <2>12. RecordedInv'
    <3> SUFFICES ASSUME NEW i \in Interface, NEW v \in 1 .. Len(versions_with_info'[i]),
                        NEW j \in DOMAIN versions_with_info'[i][v]
                 PROVE  versions_with_info'[i][v][j] \in 0 .. latest_version(j)'
      BY Zenon DEF RecordedInv, latest_version
    <3>1. ASSUME v \in 1 .. latest_version(i), versions_with_info'[i][v] = versions_with_info[i][v]
          PROVE  versions_with_info'[i][v][j] \in 0 .. latest_version(j)'
      <4>1. versions_with_info[i][v] \in Lists
        BY <3>1, LatestType, Zenon DEF ResolveInv
      <4>2. j \in Interface
        BY <3>1, <4>1, ListType, Zenon
      <4>3. versions_with_info[i][v][j] \in 0 .. latest_version(j)
        BY <3>1, Zenon DEF ResolveInv, RecordedInv
      <4> QED
        BY <2>11, <3>1, <4>2, <4>3
    <3>2. CASE i # target
      BY <2>10, <3>1, <3>2, Zenon DEF latest_version
    <3>3. CASE i = target /\ v \in 1 .. Len(w)
      BY <2>6, <2>7, <2>8, <2>10, <3>1, <3>3, Zenon
    <3>4. CASE i = target /\ v = Len(w) + 1
      BY <2>4, <2>8, <2>10, <2>11, <3>4
    <3> QED
      BY <2>8, <2>10, <3>2, <3>3, <3>4
  <2>13. stack' \in Seq(FrameSet) /\ Len(stack') = 0
    BY <1>1
  <2>14. TypeInv' /\ CallInv' /\ FrozenInv' /\ OutcomeInv'
    BY <1>1, <2>1, <2>10, <2>13 DEF TypeInv, CallInv, FrozenInv, OutcomeInv
  <2> QED
    BY <2>12, <2>14, Zenon DEF ResolveInv
<1> QED
  BY <1>1, <1>2, <1>3, Zenon

LEMMA InitResolve == Init => ResolveInv
<1> SUFFICES ASSUME Init PROVE ResolveInv
  BY Zenon
<1>1. \A i \in Interface : imports[i] \in Lists
  BY ImportListsAssumption, ListIs, Zenon DEF Init
<1>2. imports \in [Interface -> Lists]
  BY <1>1, Zenon DEF Init
<1>3. /\ versions_with_info = [i \in Interface |-> <<>>] /\ stack = <<>> /\ op = "none"
      /\ stack \in Seq(FrameSet) /\ Len(stack) = 0
  BY DEF Init
<1>4. \A i \in Interface : latest_version(i) = 0
  BY <1>3, Zenon DEF latest_version
<1>5. versions_with_info \in [Interface -> Seq(Lists)]
  BY <1>3
<1> QED
  BY <1>2, <1>3, <1>4, <1>5 DEF ResolveInv, TypeInv, RecordedInv, CallInv, FrozenInv, OutcomeInv

LEMMA NextResolve == ResolveInv /\ [Next]_vars => ResolveInv'
<1> SUFFICES ASSUME ResolveInv, [Next]_vars PROVE ResolveInv'
  BY SMTT(30)
<1>1. CASE NoDirectory \/ CommandFails \/ \E j \in Interface : UnknownVersion(j)
  BY <1>1, IdleStep, Zenon DEF NoDirectory, CommandFails, UnknownVersion, End, ResolveInv, TypeInv
<1>2. ASSUME NEW i \in Interface, NEW l \in ImportLists[i], EditImports(i, l) PROVE ResolveInv'
  <2>1. op = "none" /\ UNCHANGED <<versions_with_info, op, stack>> /\ imports' = [imports EXCEPT ![i] = l]
    BY <1>2, Zenon DEF EditImports
  <2>2. l \in Lists
    BY ImportListsAssumption, ListIs, Zenon
  <2>3. stack = <<>> /\ imports' \in [Interface -> Lists]
    BY <2>1, <2>2, SMTT(30) DEF ResolveInv, TypeInv
  <2> QED
    BY <2>1, <2>3, IdleStep, Zenon
<1>3. CASE UNCHANGED vars
  BY <1>3, SameVersions, Zenon
     DEF vars, disk, ResolveInv, TypeInv, CallInv, FrozenInv, OutcomeInv, import_ver_type
<1> QED
  BY <1>1, <1>2, <1>3, InvokeStep, BeginStep, DescendStep, ReturnStep, FinishStep, Zenon DEF Next, Resolve

-----------------------------------------------------------------------------
(* The theorems *)

LEMMA FirstStep ==
    ASSUME ResolveInv, [Next]_vars, NEW j \in DOMAIN api_dependecies',
           j \notin DOMAIN api_dependecies \/ api_dependecies'[j] # api_dependecies[j]
    PROVE  DOMAIN Top.imports \subseteq DOMAIN api_dependecies
<1>1. ASSUME api_dependecies' = EmptyDict PROVE FALSE
  BY <1>1, Zenon DEF EmptyDict
<1>2. ASSUME UNCHANGED api_dependecies PROVE FALSE
  BY <1>2, Zenon
<1>3. CASE Return
  BY <1>3, ReturnStep, Zenon
<1> QED
  BY <1>1, <1>2, <1>3, Zenon
     DEF Next, vars, Invoke, Resolve, handle_update_api, handle_freeze_api, handle_source_gen, Running,
         NoCurrent, Begin, Descend, UnknownVersion, NoDirectory, CommandFails, Finish, End, EditImports

\* aidl never preprocesses an interface before something it imports, in any
\* graph of imports.
THEOREM ImportsAlwaysFirst == Spec => ImportsFirst
<1>1. ResolveInv /\ [Next]_vars =>
        [\A j \in DOMAIN api_dependecies' :
           (j \notin DOMAIN api_dependecies \/ api_dependecies'[j] # api_dependecies[j])
              => DOMAIN Top.imports \subseteq DOMAIN api_dependecies]_vars
  BY FirstStep, Zenon
<1> QED
  BY <1>1, InitResolve, NextResolve, PTL DEF Spec, ImportsFirst

LEMMA ResolvableStep ==
    ASSUME ResolveInv, [Next]_vars, stack # <<>>, import_ver_type = "frozen",
           outcome' \in {"unknown_version", "no_directory"}
    PROVE  \E n \in DOMAIN stack : \E j \in DOMAIN stack[n].imports : stack[n].imports[j] = 0
<1>1. PICK n : n = Len(stack)
  BY SMTT(30)
<1>2. /\ n \in Nat \ {0} /\ DOMAIN stack = 1 .. n /\ Top = stack[n] /\ Top \in FrameSet
      /\ op # "none" /\ calls # <<>> /\ outcome = "running" /\ TypeInv
  BY <1>1, TopIs DEF ResolveInv, OutcomeInv
<1>3. \A m \in 1 .. n :
        /\ \A j \in DOMAIN stack[m].imports : stack[m].imports[j] \in 0 .. latest_version(j)
        /\ m > 1 => /\ stack[m].interface \in DOMAIN stack[m - 1].imports
                    /\ stack[m].version = stack[m - 1].imports[stack[m].interface]
  BY <1>1, Zenon DEF ResolveInv, FrozenInv
<1>4. ASSUME NEW j \in Interface, UnknownVersion(j)
      PROVE  \E k \in DOMAIN Top.imports : Top.imports[k] = 0
  <2>1. j \in DOMAIN Top.imports /\ ~HasVersion(j, Top.imports[j])
    BY <1>2, <1>4, Zenon DEF UnknownVersion, FrameSet, imports_version, import_version
  <2>2. Top.imports[j] \in 0 .. latest_version(j) /\ latest_version(j) \in Nat
    BY <1>2, <1>3, <2>1, LatestType
  <2> QED
    BY <2>1, <2>2 DEF HasVersion, next_version
<1>5. ASSUME NoDirectory
      PROVE  n - 1 \in 1 .. n /\ \E k \in DOMAIN stack[n - 1].imports : stack[n - 1].imports[k] = 0
  <2>1. n > 1 /\ ~HasDir(Top.interface, Top.version) /\ n - 1 \in 1 .. n /\ n \in 1 .. n
    BY <1>1, <1>2, <1>5 DEF NoDirectory, NeedsAdding
  <2>2. Top.interface \in DOMAIN stack[n - 1].imports
        /\ Top.version = stack[n - 1].imports[Top.interface]
    BY <1>2, <1>3, <2>1, Zenon
  <2>3. Top.version \in 0 .. latest_version(Top.interface) /\ latest_version(Top.interface) \in Nat
    <3>1. Top.interface \in Interface
      BY <1>2, Zenon DEF FrameSet
    <3> QED
      BY <1>2, <1>3, <2>1, <2>2, <3>1, LatestType, Zenon
  <2>4. Top.version = 0
    BY <2>1, <2>3, SMTT(30) DEF HasDir, next_version
  <2> QED
    BY <2>1, <2>2, <2>4, Zenon
<1>6. NoDirectory \/ \E j \in Interface : UnknownVersion(j)
  <2>1. ~Invoke
    BY <1>2, Zenon DEF Invoke, handle_update_api, handle_freeze_api, handle_source_gen, Running, NoCurrent
  <2>2. ~CommandFails /\ ~Finish
    BY Zenon DEF CommandFails, Finish, End
  <2>3. outcome' # outcome
    BY <1>2, Zenon
  <2> QED
    BY <2>1, <2>2, <2>3, Zenon DEF Next, vars, Resolve, Begin, Descend, Return, EditImports
<1> QED
  BY <1>2, <1>4, <1>5, <1>6

\* Every version that was frozen against frozen ones stays resolvable, whatever
\* is edited or frozen later.
THEOREM FrozenAlwaysResolvable == Spec => FrozenStaysResolvable
<1>1. ResolveInv /\ [Next]_vars =>
        [(stack # <<>> /\ import_ver_type = "frozen"
            /\ outcome' \in {"unknown_version", "no_directory"})
           => \E n \in DOMAIN stack : \E j \in DOMAIN stack[n].imports : stack[n].imports[j] = 0]_vars
  BY ResolvableStep, Zenon
<1> QED
  BY <1>1, InitResolve, NextResolve, PTL DEF Spec, FrozenStaysResolvable

-----------------------------------------------------------------------------
(* The versions that occur *)

\* What freeze_api found when it was invoked still holds when it registers the
\* new version, and what is preprocessed has a directory.
VersionInv ==
    /\ imports \in [Interface -> UNION {ImportLists[i] : i \in Interface}]
    /\ current \subseteq Interface
    /\ op \in Operations \cup {"none"} /\ target \in Interface \cup {NoInterface}
    /\ \A i \in Interface : latest_version(i) <= MaxVersion[i]
    /\ op = "freeze_api" => latest_version(target) < MaxVersion[target]
    /\ \A n \in 1 .. Len(stack) : stack[n].version \in Nat
    /\ DOMAIN api_dependecies \subseteq Interface
    /\ \A j \in DOMAIN api_dependecies : api_dependecies[j] \in 1 .. next_version(j)

\* The version of an import is a number: pins that stand for none are resolved.
LEMMA ImportVersionType ==
    ASSUME ResolveInv, stack # <<>>, NEW j \in DOMAIN Top.imports
    PROVE  j \in Interface /\ import_version(j, Top.imports[j]) \in Nat
<1>1. /\ Len(stack) \in 1 .. Len(stack) /\ Top = stack[Len(stack)] /\ Top \in FrameSet
      /\ op # "none" /\ calls # <<>>
  BY TopIs DEF ResolveInv
<1>2. Top.imports \in Lists
  BY <1>1, Zenon DEF FrameSet
<1>3. j \in Interface /\ Top.imports[j] \in Version
  BY <1>2, ListType, Zenon
<1>4. latest_version(j) \in Nat /\ next_version(j) \in Nat
  BY <1>3, LatestType, Zenon DEF ResolveInv
<1>5. import_ver_type \in {"next", "latest", "frozen"}
  BY <1>1, HeadCall, Zenon DEF ResolveInv
<1>6. import_ver_type = "frozen" => Top.imports[j] \in Nat
  BY <1>1, <1>4 DEF ResolveInv, FrozenInv
<1> QED
  BY <1>3, <1>4, <1>5, <1>6, Zenon DEF import_version, Version

LEMMA VersionIdle ==
    ASSUME VersionInv, stack' = <<>>, UNCHANGED versions_with_info,
           imports' \in [Interface -> UNION {ImportLists[i] : i \in Interface}],
           current' \subseteq Interface, op' \in Operations \cup {"none"},
           target' \in Interface \cup {NoInterface},
           op' = "freeze_api" => latest_version(target') < MaxVersion[target'],
           api_dependecies' \in {api_dependecies, EmptyDict}
    PROVE  VersionInv'
<1>1. Len(stack') = 0
  BY Zenon
<1>2. \A i : latest_version(i)' = latest_version(i) /\ next_version(i)' = next_version(i)
  BY Zenon DEF latest_version, next_version
<1>3. DOMAIN EmptyDict = {}
  BY Zenon DEF EmptyDict
<1>4. op' = "freeze_api" => latest_version(target)' < MaxVersion[target']
  BY Zenon DEF latest_version
<1>5. /\ DOMAIN api_dependecies' \subseteq Interface
      /\ \A j \in DOMAIN api_dependecies' : api_dependecies'[j] \in 1 .. next_version(j)
  BY <1>3, SMTT(30) DEF VersionInv
<1> QED
  BY <1>1, <1>2, <1>4, <1>5 DEF VersionInv

LEMMA VersionDescend ==
    ASSUME ResolveInv, VersionInv, NEW j \in Interface, Descend(j)
    PROVE  VersionInv'
<1>1. /\ stack # <<>> /\ j \in Top.todo
      /\ UNCHANGED <<imports, versions_with_info, current, op, target, calls, api_dependecies, outcome>>
  BY Zenon DEF Descend, disk
<1>2. PICK n \in Nat \ {0}, x \in FrameSet, y \in FrameSet :
        /\ n = Len(stack) /\ Len(stack') = n + 1
        /\ \A m \in 1 .. n - 1 : stack'[m] = stack[m]
        /\ stack'[n] = x /\ stack'[n + 1] = y /\ x.version = Top.version
        /\ y.version = import_version(j, Top.imports[j])
  BY Pushed
<1>3. Top = stack[n] /\ n \in 1 .. n /\ j \in DOMAIN Top.imports
  BY <1>1, <1>2, TopIs, SMTT(30) DEF ResolveInv, FrameSet
<1>4. x.version \in Nat /\ y.version \in Nat
  BY <1>1, <1>2, <1>3, ImportVersionType, Zenon DEF VersionInv
<1>5. \A m \in 1 .. n + 1 : (m \in 1 .. n - 1 /\ m \in 1 .. n) \/ m = n \/ m = n + 1
  BY <1>2
<1>6. \A m \in 1 .. Len(stack') : stack'[m].version \in Nat
  BY <1>2, <1>4, <1>5, Zenon DEF VersionInv
<1> QED
  BY <1>1, <1>6, Zenon DEF VersionInv, latest_version, next_version

LEMMA VersionReturn ==
    ASSUME ResolveInv, VersionInv, Return
    PROVE  VersionInv'
<1>1. /\ stack # <<>> /\ Top.todo = {} /\ stack' = SubSeq(stack, 1, Len(stack) - 1)
      /\ UNCHANGED <<imports, versions_with_info, current, op, target, outcome>>
  BY Zenon DEF Return, disk
<1>2. PICK n : n = Len(stack)
  BY Zenon
<1>3. /\ n \in Nat \ {0} /\ n \in 1 .. n /\ Top = stack[n] /\ Top \in FrameSet /\ stack \in Seq(FrameSet)
  BY <1>1, <1>2, TopIs DEF ResolveInv
<1>4. Len(stack') = n - 1 /\ \A m \in 1 .. n - 1 : stack'[m] = stack[m] /\ m \in 1 .. n
  BY <1>1, <1>2, <1>3, Front
<1>5. \A m \in 1 .. Len(stack') : stack'[m].version \in Nat
  BY <1>2, <1>4, Zenon DEF VersionInv
<1>6. PICK i, v : i = Top.interface /\ v = Top.version
  BY Zenon
<1>7. i \in Interface /\ v \in Nat /\ latest_version(i) \in Nat /\ next_version(i) = latest_version(i) + 1
  <2>1. i \in Interface /\ v \in Nat
    BY <1>2, <1>3, <1>6, Zenon DEF FrameSet, VersionInv
  <2> QED
    BY <2>1, LatestType, Zenon DEF ResolveInv, next_version
<1>8. UNCHANGED api_dependecies \/ add_dependency(i, v)
  BY <1>6, Zenon DEF Return
<1>9. HasDir(i, v) => v \in 1 .. next_version(i)
  BY <1>7 DEF HasDir
<1>10. /\ DOMAIN api_dependecies' \subseteq Interface
       /\ \A j \in DOMAIN api_dependecies' : api_dependecies'[j] \in 1 .. next_version(j)
  BY <1>7, <1>8, <1>9, Zenon DEF add_dependency, VersionInv
<1> QED
  BY <1>1, <1>5, <1>10, Zenon DEF VersionInv, latest_version, next_version

LEMMA VersionFinish ==
    ASSUME ResolveInv, VersionInv, Finish
    PROVE  VersionInv'
<1>1. /\ op # "none" /\ op' = "none" /\ target' = NoInterface /\ stack' = <<>>
      /\ api_dependecies' = EmptyDict /\ UNCHANGED <<imports, current>>
      /\ (op = "freeze_api" /\ append_version(target)) \/ UNCHANGED versions_with_info
  BY SMTT(30) DEF Finish, End
<1>2. CASE UNCHANGED versions_with_info
  BY <1>1, <1>2, VersionIdle, SMTT(30) DEF VersionInv
<1>3. CASE op = "freeze_api" /\ append_version(target)
  <2>1. target \in Interface /\ versions_with_info \in [Interface -> Seq(Lists)]
    BY <1>1, Zenon DEF ResolveInv, TypeInv
  <2>2. PICK l : versions_with_info' = [versions_with_info EXCEPT ![target] = Append(@, l)]
    BY <1>3, Zenon DEF append_version
  <2>3. /\ Len(versions_with_info'[target]) = latest_version(target) + 1
        /\ \A i \in Interface \ {target} : versions_with_info'[i] = versions_with_info[i]
    BY <2>1, <2>2 DEF latest_version
  <2>4. \A i \in Interface : latest_version(i) \in Nat /\ MaxVersion[i] \in Nat
    BY LatestType, ImportListsAssumption, Zenon DEF ResolveInv
  <2>5. ASSUME NEW i \in Interface PROVE latest_version(i)' <= MaxVersion[i]
    <3>1. CASE i = target
      BY <1>3, <2>1, <2>3, <2>4, <3>1 DEF VersionInv, latest_version
    <3>2. CASE i # target
      BY <2>3, <3>2, SMTT(30) DEF VersionInv, latest_version
    <3> QED
      BY <3>1, <3>2, Zenon
  <2>6. DOMAIN api_dependecies' = {} /\ Len(stack') = 0
    BY <1>1, Zenon DEF EmptyDict
  <2> QED
    BY <1>1, <2>5, <2>6 DEF VersionInv
<1> QED
  BY <1>1, <1>2, <1>3, Zenon

LEMMA VersionInvoke ==
    ASSUME ResolveInv, VersionInv, Invoke
    PROVE  VersionInv'
<1>1. stack = <<>> \/ op # "none"
  BY Zenon DEF ResolveInv, TypeInv
<1>2. ASSUME NEW i \in Interface, NEW o \in Operations, NEW c, Running(o, i, c), current' \subseteq Interface,
             o = "freeze_api" => latest_version(i) < MaxVersion[i]
      PROVE  VersionInv'
  <2>1. /\ op = "none" /\ op' = o /\ target' = i
        /\ UNCHANGED <<imports, versions_with_info, stack, api_dependecies>>
    BY <1>2, Zenon DEF Running
  <2>2. stack' = <<>> /\ imports' \in [Interface -> UNION {ImportLists[k] : k \in Interface}]
    BY <1>1, <2>1, SMTT(30) DEF VersionInv
  <2> QED
    BY <1>2, <2>1, <2>2, VersionIdle, Zenon
<1>3. ASSUME NEW i \in Interface, NoCurrent(i) PROVE VersionInv'
  BY <1>1, <1>3, VersionIdle, Zenon DEF NoCurrent, disk, VersionInv
<1>4. ASSUME NEW i \in Interface, "update_api" \in Operations, handle_update_api(i) PROVE VersionInv'
  <2>1. current' \subseteq Interface
    BY <1>4, Zenon DEF handle_update_api, VersionInv
  <2> QED
    BY <1>2, <1>4, <2>1, Zenon DEF handle_update_api
<1>5. ASSUME NEW i \in Interface, "freeze_api" \in Operations, handle_freeze_api(i) PROVE VersionInv'
  <2>1. current' \subseteq Interface /\ latest_version(i) < MaxVersion[i]
    BY <1>5, Zenon DEF handle_freeze_api, VersionInv
  <2> QED
    BY <1>2, <1>5, <2>1, Zenon DEF handle_freeze_api
<1>6. ASSUME NEW i \in Interface, NEW v, "generate_source" \in Operations, handle_source_gen(i, v)
      PROVE  VersionInv'
  <2>1. current' \subseteq Interface
    BY <1>6, Zenon DEF handle_source_gen, VersionInv
  <2> QED
    BY <1>2, <1>6, <2>1, Zenon DEF handle_source_gen
<1> QED
  BY <1>3, <1>4, <1>5, <1>6, Zenon DEF Invoke

LEMMA VersionInit == Init => VersionInv
<1> SUFFICES ASSUME Init PROVE VersionInv
  BY Zenon
<1>1. \A i \in Interface : latest_version(i) = 0 /\ MaxVersion[i] \in Nat
  BY ImportListsAssumption, Zenon DEF Init, latest_version
<1>2. Len(stack) = 0 /\ DOMAIN api_dependecies = {}
  BY Zenon DEF Init, EmptyDict
<1> QED
  BY <1>1, <1>2 DEF Init, VersionInv

LEMMA VersionNext == ResolveInv /\ VersionInv /\ [Next]_vars => VersionInv'
<1> SUFFICES ASSUME ResolveInv, VersionInv, [Next]_vars PROVE VersionInv'
  BY SMTT(30)
<1>1. CASE NoDirectory \/ CommandFails \/ \E j \in Interface : UnknownVersion(j)
  BY <1>1, VersionIdle, SMTT(30) DEF NoDirectory, CommandFails, UnknownVersion, End, VersionInv
<1>2. ASSUME NEW i \in Interface, NEW l \in ImportLists[i], EditImports(i, l) PROVE VersionInv'
  <2>1. /\ op = "none" /\ imports' = [imports EXCEPT ![i] = l]
        /\ UNCHANGED <<versions_with_info, current, op, target, stack, api_dependecies>>
    BY <1>2, Zenon DEF EditImports
  <2>2. stack' = <<>> /\ imports' \in [Interface -> UNION {ImportLists[k] : k \in Interface}]
    BY <2>1, SMTT(30) DEF VersionInv, ResolveInv, TypeInv
  <2> QED
    BY <2>1, <2>2, VersionIdle, ZenonT(40) DEF VersionInv
<1>3. CASE UNCHANGED vars
  BY <1>3, Zenon DEF vars, disk, VersionInv, latest_version, next_version
<1>4. CASE Begin
  <2>1. PICK f \in FrameSet : f.version \in Nat /\ stack' = <<f>>
    <3>1. op # "none" /\ calls # <<>> /\ stack' = <<Frame(target, Head(calls).version, 1)>>
      BY <1>4, Zenon DEF Begin
    <3>2. target \in Interface /\ Head(calls).version \in Nat
      BY <3>1, HeadCall, Zenon DEF ResolveInv, TypeInv
    <3> QED
      BY <3>1, <3>2, FrameIs DEF ResolveInv, Version
  <2>2. \A n \in 1 .. Len(stack') : stack'[n].version \in Nat
    BY <2>1
  <2>3. DOMAIN api_dependecies' = {}
    BY <1>4, Zenon DEF Begin, EmptyDict
  <2> QED
    BY <1>4, <2>2, <2>3, SMTT(30) DEF Begin, disk, VersionInv, latest_version
<1> QED
  BY <1>1, <1>2, <1>3, <1>4, VersionInvoke, VersionDescend, VersionReturn, VersionFinish, Zenon DEF Next, Resolve

\* Every variable stays in its type: no version is recorded or preprocessed
\* that was never frozen and is not in development.
THEOREM TypeCorrect == Spec => []TypeOK
<1>1. ResolveInv /\ VersionInv => TypeOK
  <2> SUFFICES ASSUME ResolveInv, VersionInv PROVE TypeOK
    BY Zenon
  <2>1. \A i \in Interface : /\ 0 .. latest_version(i) \subseteq 0 .. MaxVersion[i]
                              /\ 1 .. next_version(i) \subseteq 1 .. MaxVersion[i] + 1
    <3> SUFFICES ASSUME NEW i \in Interface
                 PROVE  /\ 0 .. latest_version(i) \subseteq 0 .. MaxVersion[i]
                        /\ 1 .. next_version(i) \subseteq 1 .. MaxVersion[i] + 1
      BY SMTT(30)
    <3>1. latest_version(i) \in Nat /\ MaxVersion[i] \in Nat /\ latest_version(i) <= MaxVersion[i]
      BY LatestType, ImportListsAssumption, Zenon DEF ResolveInv, VersionInv
    <3> QED
      BY <3>1 DEF next_version
  <2>2. \A i \in Interface : \A v \in 1 .. latest_version(i) : \A j \in DOMAIN versions_with_info[i][v] :
          j \in Interface /\ versions_with_info[i][v][j] \in 0 .. latest_version(j)
    BY LatestType, ListType, Zenon DEF ResolveInv, RecordedInv
  <2>3. \A i \in Interface : \A v \in 1 .. latest_version(i) : \A j \in DOMAIN versions_with_info[i][v] :
          j \in Interface /\ versions_with_info[i][v][j] \in 0 .. MaxVersion[j]
    BY <2>1, <2>2, Zenon
  <2>4. \A j \in DOMAIN api_dependecies : j \in Interface /\ api_dependecies[j] \in 1 .. MaxVersion[j] + 1
    BY <2>1, Zenon DEF VersionInv
  <2>5. stack \in Seq(FrameSet) /\ DOMAIN stack = 1 .. Len(stack)
    BY DEF ResolveInv, TypeInv
  <2>6. \A n \in DOMAIN stack : /\ stack[n].interface \in Interface /\ stack[n].version \in Nat
                                /\ stack[n].todo \subseteq DOMAIN stack[n].imports
    BY <2>5 DEF VersionInv, FrameSet
  <2> QED
    BY <2>3, <2>4, <2>6, Zenon DEF TypeOK, VersionInv
<1> QED
  BY <1>1, InitResolve, NextResolve, VersionInit, VersionNext, PTL DEF Spec

-----------------------------------------------------------------------------
(* What a call has met so far *)

\* The active calls are a path of imports that starts at the target.
ChainInv ==
    stack # <<>> =>
        /\ stack[1].interface = target /\ stack[1].version = Head(calls).version
        /\ \A n \in 1 .. Len(stack) :
             stack[n].imports = get_imports(stack[n].interface,
                                            imports_version(stack[n].interface, stack[n].version, n))
        /\ \A n \in 1 .. Len(stack) : n > 1 =>
             /\ stack[n].interface \in DOMAIN stack[n - 1].imports
             /\ stack[n].version = import_version(stack[n].interface,
                                                  stack[n - 1].imports[stack[n].interface])

\* S is what was met so far: it is closed under imports but for what the active
\* calls have yet to do, it is no more than what the target imports, and the
\* newest version in it of each interface is the one in api_dependecies.
Met(S) ==
    /\ S \subseteq Interface \X Nat
    /\ \A p \in S : p[1] \in DOMAIN api_dependecies /\ p[2] <= api_dependecies[p[1]]
    /\ \A j \in DOMAIN api_dependecies : <<j, api_dependecies[j]>> \in S
    /\ Closed(S)
    /\ \A n \in 1 .. Len(stack) : \A j \in DOMAIN stack[n].imports :
         \/ j \in stack[n].todo
         \/ n < Len(stack) /\ j = stack[n + 1].interface
         \/ <<j, import_version(j, stack[n].imports[j])>> \in S
    /\ \A T : Direct(target, Head(calls).version, 1) \subseteq T /\ Closed(T) =>
         /\ S \subseteq T
         /\ \A n \in 1 .. Len(stack) : n > 1 => <<stack[n].interface, stack[n].version>> \in T

NewestInv == ChainInv /\ (stack # <<>> => \E S : Met(S))

LEMMA SameResolution ==
    ASSUME UNCHANGED <<imports, versions_with_info, calls>>
    PROVE  /\ import_ver_type' = import_ver_type
           /\ \A i, v : get_imports(i, v)' = get_imports(i, v)
           /\ \A i, v, d : imports_version(i, v, d)' = imports_version(i, v, d)
           /\ \A i, v : import_version(i, v)' = import_version(i, v)
           /\ \A i, v, d : Direct(i, v, d)' = Direct(i, v, d)
           /\ \A S : Closed(S)' <=> Closed(S)
<1>1. import_ver_type' = import_ver_type
  BY Zenon DEF import_ver_type
<1>2. \A i : latest_version(i)' = latest_version(i) /\ next_version(i)' = next_version(i)
  BY Zenon DEF latest_version, next_version
<1>3. \A i, v : get_imports(i, v)' = get_imports(i, v)
  BY <1>2, Zenon DEF get_imports
<1>4. \A i, v, d : imports_version(i, v, d)' = imports_version(i, v, d)
  BY <1>1, <1>2, Zenon DEF imports_version
<1>5. \A i, v : import_version(i, v)' = import_version(i, v)
  BY <1>1, <1>2, ZenonT(40) DEF import_version
<1>6. \A i, v, d : Direct(i, v, d)' = Direct(i, v, d)
  BY <1>3, <1>4, <1>5, Zenon DEF Direct
<1> QED
  BY <1>1, <1>3, <1>4, <1>5, <1>6, Zenon DEF Closed

\* A step of the resolution: what has to be shown of the new stack and of the new
\* api_dependecies, since the definitions stay as they are.
LEMMA ChainNext ==
    ASSUME NEW n, n = Len(stack'), UNCHANGED <<imports, versions_with_info, calls, target>>,
           stack'[1].interface = target, stack'[1].version = Head(calls).version,
           \A m \in 1 .. n :
               stack'[m].imports = get_imports(stack'[m].interface,
                                               imports_version(stack'[m].interface, stack'[m].version, m)),
           \A m \in 1 .. n : m > 1 =>
               /\ stack'[m].interface \in DOMAIN stack'[m - 1].imports
               /\ stack'[m].version = import_version(stack'[m].interface,
                                                     stack'[m - 1].imports[stack'[m].interface])
    PROVE  ChainInv'
<1>1. /\ \A i, v : get_imports(i, v)' = get_imports(i, v)
      /\ \A i, v, d : imports_version(i, v, d)' = imports_version(i, v, d)
      /\ \A i, v : import_version(i, v)' = import_version(i, v)
  BY SameResolution, Zenon
<1>2. target' = target /\ calls' = calls
  BY Zenon
<1> QED
  BY <1>1, <1>2, SMTT(40) DEF ChainInv

LEMMA MetNext ==
    ASSUME NEW S, NEW n, n = Len(stack'), UNCHANGED <<imports, versions_with_info, calls, target>>,
           S \subseteq Interface \X Nat,
           \A p \in S : p[1] \in DOMAIN api_dependecies' /\ p[2] <= api_dependecies'[p[1]],
           \A j \in DOMAIN api_dependecies' : <<j, api_dependecies'[j]>> \in S,
           Closed(S),
           \A m \in 1 .. n : \A k \in DOMAIN stack'[m].imports :
               \/ k \in stack'[m].todo
               \/ m < n /\ k = stack'[m + 1].interface
               \/ <<k, import_version(k, stack'[m].imports[k])>> \in S,
           \A T : Direct(target, Head(calls).version, 1) \subseteq T /\ Closed(T) =>
               /\ S \subseteq T
               /\ \A m \in 1 .. n : m > 1 => <<stack'[m].interface, stack'[m].version>> \in T
    PROVE  Met(S)'
<1>1. /\ \A i, v : import_version(i, v)' = import_version(i, v)
      /\ \A i, v, d : Direct(i, v, d)' = Direct(i, v, d)
      /\ \A T : Closed(T)' <=> Closed(T)
  BY SameResolution, Zenon
<1>2. target' = target /\ calls' = calls
  BY Zenon
<1> QED
  BY <1>1, <1>2, SMTT(40) DEF Met

\* Below the first call the depth makes no difference.
LEMMA DirectIs ==
    ASSUME ChainInv, NEW n \in 1 .. Len(stack), Len(stack) \in Nat, stack # <<>>
    PROVE  /\ n = 1 => Direct(target, Head(calls).version, 1)
                         = {<<j, import_version(j, stack[n].imports[j])>> : j \in DOMAIN stack[n].imports}
           /\ n > 1 => Direct(stack[n].interface, stack[n].version, 2)
                         = {<<j, import_version(j, stack[n].imports[j])>> : j \in DOMAIN stack[n].imports}
<1>1. stack[n].imports = get_imports(stack[n].interface,
                                     imports_version(stack[n].interface, stack[n].version, n))
  BY Zenon DEF ChainInv
<1>2. n > 1 => imports_version(stack[n].interface, stack[n].version, n)
                 = imports_version(stack[n].interface, stack[n].version, 2)
  BY DEF imports_version
<1> QED
  BY <1>1, <1>2, SMTT(30) DEF ChainInv, Direct

LEMMA NewestBegin ==
    ASSUME ResolveInv, Begin
    PROVE  NewestInv'
<1>1. PICK v : v = Head(calls).version
  BY Zenon
<1>2. /\ op # "none" /\ calls # <<>> /\ stack' = <<Frame(target, v, 1)>> /\ api_dependecies' = EmptyDict
      /\ UNCHANGED <<imports, versions_with_info, target, calls>>
  BY <1>1, Zenon DEF Begin, disk
<1>3. target \in Interface /\ v \in Nat
  BY <1>1, <1>2, HeadCall, Zenon DEF ResolveInv, TypeInv
<1>4. PICK f : f = Frame(target, v, 1)
  BY Zenon
<1>5. /\ f.interface = target /\ f.version = v /\ f.todo = DOMAIN f.imports
      /\ f.imports = get_imports(target, imports_version(target, v, 1))
  BY <1>3, <1>4, FrameIs DEF ResolveInv, Version
<1>6. Len(stack') = 1 /\ stack'[1] = f /\ \A n \in 1 .. Len(stack') : n = 1
  BY <1>2, <1>4, SMTT(30)
<1>7. ChainInv'
  BY <1>1, <1>2, <1>5, <1>6, SameResolution, SMTT(30) DEF ChainInv
<1>8. Met({})'
  <2>1. DOMAIN api_dependecies' = {}
    BY <1>2, Zenon DEF EmptyDict
  <2>2. Closed({})'
    BY Zenon DEF Closed
  <2> QED
    BY <1>5, <1>6, <2>1, <2>2 DEF Met
<1> QED
  BY <1>7, <1>8, SMTT(30) DEF NewestInv

LEMMA NewestDescend ==
    ASSUME ResolveInv, NewestInv, NEW j \in Interface, Descend(j)
    PROVE  NewestInv'
<1>1. /\ stack # <<>> /\ j \in Top.todo
      /\ UNCHANGED <<imports, versions_with_info, current, op, target, calls, api_dependecies, outcome>>
  BY Zenon DEF Descend, disk
<1>2. PICK n \in Nat \ {0}, x \in FrameSet, y \in FrameSet :
        /\ n = Len(stack) /\ stack' \in Seq(FrameSet) /\ Len(stack') = n + 1
        /\ \A m \in 1 .. n - 1 : stack'[m] = stack[m]
        /\ stack'[n] = x /\ stack'[n + 1] = y
        /\ x.interface = Top.interface /\ x.version = Top.version
        /\ x.imports = Top.imports /\ x.todo = Top.todo \ {j}
        /\ y.interface = j /\ y.version = import_version(j, Top.imports[j])
        /\ y.todo = DOMAIN y.imports
        /\ y.imports = get_imports(j, imports_version(j, y.version, n + 1))
        /\ HasVersion(j, imports_version(j, y.version, n + 1))
  BY Pushed, Zenon
<1>3. /\ Top = stack[n] /\ n \in 1 .. n /\ j \in DOMAIN Top.imports
  BY <1>1, <1>2, TopIs DEF ResolveInv, FrameSet
<1>4. \A m \in 1 .. n : stack'[m].interface = stack[m].interface
                        /\ stack'[m].version = stack[m].version /\ stack'[m].imports = stack[m].imports
  <2>1. \A m \in 1 .. n : m \in 1 .. n - 1 \/ m = n
    BY SMTT(30)
  <2> QED
    BY <1>2, <1>3, <2>1, Zenon
<1>5. \A m \in 1 .. n + 1 : /\ m \in 1 .. n \/ m = n + 1
                            /\ m > 1 => m - 1 \in 1 .. n
  BY <1>2, SMTT(30)
<1>6. stack' # <<>>
  BY <1>2, SMTT(30)
<1>7. ChainInv'
  <2>1. 1 \in 1 .. n
    OBVIOUS
  <2>2. stack'[1].interface = target' /\ stack'[1].version = Head(calls').version
    BY <1>1, <1>4, <2>1, Zenon DEF NewestInv, ChainInv
  <2>3. ASSUME NEW m \in 1 .. n + 1
        PROVE  stack'[m].imports = get_imports(stack'[m].interface,
                 imports_version(stack'[m].interface, stack'[m].version, m))
    BY <1>1, <1>2, <1>4, <1>5, ZenonT(40) DEF NewestInv, ChainInv
  <2>4. ASSUME NEW m \in 1 .. n + 1, m > 1
        PROVE  /\ stack'[m].interface \in DOMAIN stack'[m - 1].imports
               /\ stack'[m].version = import_version(stack'[m].interface,
                                                     stack'[m - 1].imports[stack'[m].interface])
    <3>1. m - 1 \in 1 .. n
      BY <1>5, <2>4, SMTT(30)
    <3>2. CASE m \in 1 .. n
      BY <1>1, <1>2, <1>4, <2>4, <3>1, <3>2, ZenonT(40) DEF NewestInv, ChainInv
    <3>3. CASE m = n + 1
      <4>1. m - 1 = n
        BY <3>3
      <4> QED
        BY <1>2, <1>3, <3>3, <4>1, Zenon
    <3> QED
      BY <1>5, <3>2, <3>3, Zenon
  <2> QED
    BY <1>1, <1>2, <2>2, <2>3, <2>4, ChainNext, Zenon
<1>8. PICK S : Met(S)
  BY <1>1, SMTT(30) DEF NewestInv
<1>9. ASSUME NEW T, Direct(target, Head(calls).version, 1) \subseteq T, Closed(T)
      PROVE  \A m \in 1 .. n + 1 : m > 1 => <<stack'[m].interface, stack'[m].version>> \in T
  <2>1. \A m \in 1 .. n : m > 1 => <<stack[m].interface, stack[m].version>> \in T
    BY <1>2, <1>8, <1>9, Zenon DEF Met
  <2>2. {<<k, import_version(k, Top.imports[k])>> : k \in DOMAIN Top.imports} \subseteq T
    <3>1. CASE n = 1
      <4>1. ChainInv /\ n \in 1 .. Len(stack) /\ Len(stack) \in Nat
        BY <1>2, <1>3, Zenon DEF NewestInv
      <4>2. Direct(target, Head(calls).version, 1)
              = {<<k, import_version(k, stack[n].imports[k])>> : k \in DOMAIN stack[n].imports}
        BY <1>1, <3>1, <4>1, DirectIs, Zenon
      <4> QED
        BY <1>3, <1>9, <4>2, Zenon
    <3>2. CASE n > 1
      <4>1. Direct(Top.interface, Top.version, 2) \subseteq T
        BY <1>3, <1>9, <2>1, <3>2, ZenonT(40) DEF Closed
      <4> QED
        BY <1>1, <1>2, <1>3, <3>2, <4>1, DirectIs, SMTT(30) DEF NewestInv
    <3> QED
      BY <3>1, <3>2, SMTT(30)
  <2>3. <<j, y.version>> \in T
    BY <1>2, <1>3, <2>2, ZenonT(40)
  <2> QED
    BY <1>2, <1>4, <1>5, <2>1, <2>3, Zenon
<1>10. ASSUME NEW m \in 1 .. n + 1, NEW k \in DOMAIN stack'[m].imports
       PROVE  \/ k \in stack'[m].todo
              \/ m < n + 1 /\ k = stack'[m + 1].interface
              \/ <<k, import_version(k, stack'[m].imports[k])>> \in S
  <2>1. CASE m = n + 1
    <3>1. stack'[m] = y
      BY <1>2, <2>1, Zenon
    <3> QED
      BY <1>2, <1>10, <3>1, Zenon
  <2>2. CASE m = n
    <3>1. k \in Top.todo \/ <<k, import_version(k, Top.imports[k])>> \in S
      BY <1>2, <1>3, <1>8, <1>10, <2>2 DEF Met
    <3> QED
      <4>1. stack'[m] = x /\ stack'[m + 1] = y /\ m < n + 1
        BY <1>2, <2>2
      <4> QED
        BY <1>2, <3>1, <4>1, Zenon
  <2>3. CASE m \in 1 .. n - 1
    <3>1. m \in 1 .. n /\ m + 1 \in 1 .. n /\ m < n /\ m < n + 1
      BY <2>3, SMTT(30)
    <3>2. \/ k \in stack[m].todo \/ k = stack[m + 1].interface
          \/ <<k, import_version(k, stack[m].imports[k])>> \in S
      BY <1>2, <1>8, <1>10, <2>3, <3>1, SMTT(30) DEF Met
    <3> QED
      BY <1>2, <1>4, <2>3, <3>1, <3>2, Zenon
  <2> QED
    BY <2>1, <2>2, <2>3, SMTT(30)
<1>11. Met(S)'
  <2>1. /\ S \subseteq Interface \X Nat
        /\ \A p \in S : p[1] \in DOMAIN api_dependecies' /\ p[2] <= api_dependecies'[p[1]]
        /\ \A k \in DOMAIN api_dependecies' : <<k, api_dependecies'[k]>> \in S
        /\ Closed(S)
    BY <1>1, <1>8, Zenon DEF Met
  <2>2. ASSUME NEW T, Direct(target, Head(calls).version, 1) \subseteq T, Closed(T)
        PROVE  S \subseteq T
    BY <1>8, <2>2, Zenon DEF Met
  <2>3. \A T : Direct(target, Head(calls).version, 1) \subseteq T /\ Closed(T) =>
          /\ S \subseteq T
          /\ \A m \in 1 .. n + 1 : m > 1 => <<stack'[m].interface, stack'[m].version>> \in T
    BY <1>9, <2>2, Zenon
  <2>4. n + 1 = Len(stack')
    BY <1>2, Zenon
  <2>5. \A m \in 1 .. n + 1 : \A k \in DOMAIN stack'[m].imports :
          \/ k \in stack'[m].todo
          \/ m < n + 1 /\ k = stack'[m + 1].interface
          \/ <<k, import_version(k, stack'[m].imports[k])>> \in S
    BY <1>10, Zenon
  <2> QED
    BY <1>1, <2>1, <2>3, <2>4, <2>5, MetNext, ZenonT(40)
<1> QED
  BY <1>7, <1>11, SMTT(30) DEF NewestInv

LEMMA NewestReturn ==
    ASSUME ResolveInv, VersionInv, NewestInv, Return
    PROVE  NewestInv'
<1>1. /\ stack # <<>> /\ Top.todo = {} /\ stack' = SubSeq(stack, 1, Len(stack) - 1)
      /\ UNCHANGED <<imports, versions_with_info, current, op, target, outcome>>
  BY Zenon DEF Return, disk
<1>2. PICK n : n = Len(stack)
  BY Zenon
<1>3. /\ n \in Nat \ {0} /\ n \in 1 .. n /\ Top = stack[n] /\ Top \in FrameSet /\ stack \in Seq(FrameSet)
  BY <1>1, <1>2, TopIs DEF ResolveInv
<1>4. stack' \in Seq(FrameSet) /\ Len(stack') = n - 1 /\ \A m \in 1 .. n - 1 : stack'[m] = stack[m]
  BY <1>1, <1>2, <1>3, Front, SMTT(30)
<1>5. CASE n = 1
  <2>1. stack' = <<>>
    BY <1>4, <1>5, EmptySeq
  <2> QED
    BY <2>1, Zenon DEF NewestInv, ChainInv
<1>6. CASE n > 1
  <2>1. PICK i, v : i = Top.interface /\ v = Top.version
    BY SMTT(30)
  <2>2. i \in Interface /\ v \in Nat
    BY <1>2, <1>3, <2>1, Zenon DEF FrameSet, VersionInv
  <2>3. add_dependency(i, v) /\ UNCHANGED calls
    BY <1>2, <1>6, <2>1 DEF Return
  <2>4. \A m \in 1 .. n - 1 : m \in 1 .. n /\ m + 1 \in 1 .. n /\ (m > 1 => m - 1 \in 1 .. n - 1)
                              /\ (m + 1 = n \/ (m < n - 1 /\ m + 1 \in 1 .. n - 1))
    BY <1>3
  <2>5. 1 \in 1 .. n - 1 /\ n - 1 \in 1 .. n - 1
    BY <1>3, <1>6, SMTT(30)
  <2>6. ChainInv'
    BY <1>1, <1>2, <1>4, <2>3, <2>4, <2>5, SameResolution DEF NewestInv, ChainInv
  <2>7. PICK S : Met(S)
    BY <1>1, Zenon DEF NewestInv
  <2>8. PICK R : R = S \cup {<<i, v>>}
    BY Zenon
  <2>9. \A j \in DOMAIN api_dependecies : api_dependecies[j] \in Nat
    BY LatestType DEF VersionInv, ResolveInv
  <2>10. /\ i \in DOMAIN api_dependecies' /\ v <= api_dependecies'[i]
         /\ \A j \in DOMAIN api_dependecies :
              j \in DOMAIN api_dependecies' /\ api_dependecies[j] <= api_dependecies'[j]
         /\ \A j \in DOMAIN api_dependecies' :
              \/ j \in DOMAIN api_dependecies /\ api_dependecies'[j] = api_dependecies[j]
              \/ j = i /\ api_dependecies'[j] = v
    BY <2>2, <2>3, <2>9 DEF add_dependency
  <2>11. \A p \in R : p[1] \in DOMAIN api_dependecies' /\ p[2] <= api_dependecies'[p[1]]
    <3> SUFFICES ASSUME NEW p \in R
                 PROVE  p[1] \in DOMAIN api_dependecies' /\ p[2] <= api_dependecies'[p[1]]
      BY Zenon
    <3>1. CASE p = <<i, v>>
      BY <2>10, <3>1, Zenon
    <3>2. CASE p \in S
      <4>1. /\ p[2] \in Nat /\ p[1] \in DOMAIN api_dependecies /\ p[2] <= api_dependecies[p[1]]
        BY <2>7, <3>2, Zenon DEF Met
      <4>2. /\ p[1] \in DOMAIN api_dependecies' /\ api_dependecies[p[1]] <= api_dependecies'[p[1]]
            /\ api_dependecies'[p[1]] \in Nat
        BY <2>2, <2>9, <2>10, <4>1, SMTT(30)
      <4> QED
        BY <2>9, <4>1, <4>2
    <3> QED
      BY <2>8, <3>1, <3>2, Zenon
  <2>12. \A j \in DOMAIN api_dependecies' : <<j, api_dependecies'[j]>> \in R
    BY <2>7, <2>8, <2>10, Zenon DEF Met
  <2>13. Direct(i, v, 2) \subseteq S
    <3>1. \A k \in DOMAIN Top.imports : <<k, import_version(k, Top.imports[k])>> \in S
      BY <1>1, <1>2, <1>3, <2>7, SMTT(30) DEF Met
    <3>2. Direct(i, v, 2) = {<<k, import_version(k, Top.imports[k])>> : k \in DOMAIN Top.imports}
      BY <1>1, <1>2, <1>3, <1>6, <2>1, DirectIs, Zenon DEF NewestInv
    <3> QED
      BY <3>1, <3>2, SMTT(30)
  <2>14. Closed(R)
    <3>1. \A p \in S : Direct(p[1], p[2], 2) \subseteq S
      BY <2>7, SMTT(30) DEF Met, Closed
    <3> QED
      BY <2>8, <2>13, <3>1, SMTT(30) DEF Closed
  <2>15. ASSUME NEW m \in 1 .. n - 1, NEW k \in DOMAIN stack[m].imports
         PROVE  \/ k \in stack[m].todo
                \/ m < n - 1 /\ k = stack'[m + 1].interface
                \/ <<k, import_version(k, stack[m].imports[k])>> \in R
    <3>1. \/ k \in stack[m].todo \/ k = stack[m + 1].interface
          \/ <<k, import_version(k, stack[m].imports[k])>> \in S
      BY <1>2, <2>4, <2>7, <2>15, SMTT(30) DEF Met
    <3>2. CASE m + 1 = n /\ k = stack[m + 1].interface
      <4>1. v = import_version(i, stack[n - 1].imports[i]) /\ n - 1 = m /\ k = i
        BY <1>1, <1>2, <1>3, <1>6, <2>1, <3>2, SMTT(30) DEF NewestInv, ChainInv
      <4> QED
        BY <2>8, <4>1, SMTT(30)
    <3> QED
      BY <1>4, <2>4, <2>8, <3>1, <3>2, SMTT(30)
  <2>16. ASSUME NEW T, Direct(target, Head(calls).version, 1) \subseteq T, Closed(T)
         PROVE  R \subseteq T /\ \A m \in 1 .. n - 1 : m > 1 => <<stack[m].interface, stack[m].version>> \in T
    <3>1. S \subseteq T /\ \A m \in 1 .. n : m > 1 => <<stack[m].interface, stack[m].version>> \in T
      BY <1>2, <2>7, <2>16, SMTT(30) DEF Met
    <3> QED
      BY <1>3, <1>6, <2>1, <2>4, <2>8, <3>1, SMTT(30)
  <2>17. R \subseteq Interface \X Nat
    BY <2>2, <2>7, <2>8, SMTT(30) DEF Met
  <2>18. Met(R)'
    <3>1. n - 1 = Len(stack') /\ UNCHANGED <<imports, versions_with_info, calls, target>>
      BY <1>1, <1>4, <2>3, Zenon
    <3>2. \A m \in 1 .. n - 1 : \A k \in DOMAIN stack'[m].imports :
            \/ k \in stack'[m].todo
            \/ m < n - 1 /\ k = stack'[m + 1].interface
            \/ <<k, import_version(k, stack'[m].imports[k])>> \in R
      BY <1>4, <2>15, Zenon
    <3>3. \A T : Direct(target, Head(calls).version, 1) \subseteq T /\ Closed(T) =>
            /\ R \subseteq T
            /\ \A m \in 1 .. n - 1 : m > 1 => <<stack'[m].interface, stack'[m].version>> \in T
      BY <1>4, <2>16, Zenon
    <3> QED
      BY <2>11, <2>12, <2>14, <2>17, <3>1, <3>2, <3>3, MetNext, ZenonT(40)
  <2> QED
    BY <2>6, <2>18, Zenon DEF NewestInv
<1> QED
  BY <1>3, <1>5, <1>6

LEMMA NewestNext == ResolveInv /\ VersionInv /\ NewestInv /\ [Next]_vars => NewestInv'
<1> SUFFICES ASSUME ResolveInv, VersionInv, NewestInv, [Next]_vars PROVE NewestInv'
  BY Zenon
<1>1. ASSUME stack' = <<>> PROVE NewestInv'
  BY <1>1, Zenon DEF NewestInv, ChainInv
<1>2. stack = <<>> \/ op # "none"
  BY Zenon DEF ResolveInv, TypeInv
<1>3. CASE Invoke \/ \E i \in Interface : \E l \in ImportLists[i] : EditImports(i, l)
  <2>1. op = "none" /\ UNCHANGED stack
    BY <1>3, ZenonT(40) DEF Invoke, handle_update_api, handle_freeze_api, handle_source_gen, Running, NoCurrent, EditImports
  <2> QED
    BY <1>1, <1>2, <2>1, SMTT(30)
<1>4. CASE NoDirectory \/ CommandFails \/ Finish \/ \E j \in Interface : UnknownVersion(j)
  BY <1>1, <1>4, Zenon DEF NoDirectory, CommandFails, UnknownVersion, Finish, End
<1>5. CASE UNCHANGED vars
  <2>1. /\ UNCHANGED <<imports, versions_with_info, calls>>
        /\ UNCHANGED <<stack, target, api_dependecies>>
    BY <1>5, Zenon DEF vars, disk
  <2>2. ChainInv'
    <3>1. CASE stack = <<>>
      BY <2>1, <3>1, Zenon DEF ChainInv
    <3>2. CASE stack # <<>>
      <4>1. ChainInv
        BY Zenon DEF NewestInv
      <4>2. PICK n : n = Len(stack')
        BY Zenon
      <4> QED
        BY <2>1, <3>2, <4>1, <4>2, ChainNext, ZenonT(40) DEF ChainInv
    <3> QED
      BY <3>1, <3>2, Zenon
  <2>3. ASSUME NEW S, Met(S) PROVE Met(S)'
    BY <2>1, <2>3, SameResolution DEF Met
  <2> QED
    BY <2>1, <2>2, <2>3, Zenon DEF NewestInv
<1> QED
  BY <1>3, <1>4, <1>5, NewestBegin, NewestDescend, NewestReturn, Zenon DEF Next, Resolve

\* process_imports gives each interface that is imported, directly or not, the
\* newest version in which it is met, in any graph of imports and in any order.
THEOREM AlwaysNewest == Spec => []ResolvesToNewest
<1>1. ResolveInv /\ VersionInv /\ NewestInv => ResolvesToNewest
  <2> SUFFICES ASSUME ResolveInv, VersionInv, NewestInv, Resolved
               PROVE  \E S \in SUBSET UNION {{j} \X (0 .. api_dependecies[j]) : j \in DOMAIN api_dependecies} :
                         /\ Reachable(S, target, Head(calls).version)
                         /\ \A j \in DOMAIN api_dependecies : <<j, api_dependecies[j]>> \in S
    BY SMTT(30) DEF ResolvesToNewest
  <2>1. Len(stack) = 1 /\ Top.todo = {} /\ stack # <<>> /\ Top = stack[1]
    BY DEF Resolved, Top
  <2>2. PICK S : Met(S)
    BY <2>1, Zenon DEF NewestInv
  <2>3. 1 \in 1 .. Len(stack)
    BY <2>1
  <2>4. \A j \in DOMAIN stack[1].imports : <<j, import_version(j, stack[1].imports[j])>> \in S
    BY <2>1, <2>2, <2>3, SMTT(30) DEF Met
  <2>5. Direct(target, Head(calls).version, 1) \subseteq S
    BY <2>1, <2>3, <2>4, DirectIs, SMTT(30) DEF NewestInv
  <2>6. Reachable(S, target, Head(calls).version)
    BY <2>2, <2>5, Zenon DEF Met, Reachable
  <2>7. ASSUME NEW p \in S
        PROVE  p \in UNION {{j} \X (0 .. api_dependecies[j]) : j \in DOMAIN api_dependecies}
    <3>1. p = <<p[1], p[2]>> /\ p[2] \in Nat /\ p[1] \in DOMAIN api_dependecies /\ p[2] <= api_dependecies[p[1]]
      BY <2>2, <2>7 DEF Met
    <3>2. api_dependecies[p[1]] \in Nat
      BY <3>1, LatestType DEF VersionInv, ResolveInv
    <3>3. p \in {p[1]} \X (0 .. api_dependecies[p[1]])
      BY <3>1, <3>2, SMTT(30)
    <3> QED
      BY <3>1, <3>3, Zenon
  <2> QED
    BY <2>2, <2>6, <2>7, SMTT(30) DEF Met
<1>2. Init => NewestInv
  BY Zenon DEF Init, NewestInv, ChainInv
<1> QED
  BY <1>1, <1>2, InitResolve, NextResolve, VersionInit, VersionNext, NewestNext, PTL DEF Spec

-----------------------------------------------------------------------------
(* Resolving a frozen version *)

\* Whatever is preprocessed for a frozen version is itself frozen.
FrozenApiInv ==
    stack # <<>> /\ import_ver_type = "frozen" =>
        \A j \in DOMAIN api_dependecies : api_dependecies[j] \in 1 .. latest_version(j)

LEMMA FrozenApiReturn ==
    ASSUME ResolveInv, VersionInv, FrozenApiInv, Return
    PROVE  FrozenApiInv'
<1> SUFFICES ASSUME stack' # <<>>, import_ver_type' = "frozen"
             PROVE  \A j \in DOMAIN api_dependecies' : api_dependecies'[j] \in 1 .. latest_version(j)'
  BY Zenon DEF FrozenApiInv
<1>1. /\ stack # <<>> /\ stack' = SubSeq(stack, 1, Len(stack) - 1) /\ UNCHANGED versions_with_info
  BY Zenon DEF Return, disk
<1>2. PICK n : n = Len(stack)
  BY Zenon
<1>3. /\ n \in Nat \ {0} /\ n \in 1 .. n /\ Top = stack[n] /\ Top \in FrameSet /\ stack \in Seq(FrameSet)
  BY <1>1, <1>2, TopIs DEF ResolveInv
<1>4. n > 1
  <2>1. Len(stack') = n - 1 /\ stack' \in Seq(FrameSet)
    BY <1>1, <1>2, <1>3, Front, Zenon
  <2> QED
    BY <1>3, <2>1, EmptySeq
<1>5. PICK i, v : i = Top.interface /\ v = Top.version
  BY Zenon
<1>6. add_dependency(i, v) /\ UNCHANGED calls
  BY <1>2, <1>4, <1>5 DEF Return
<1>7. import_ver_type = "frozen"
  BY <1>6, Zenon DEF import_ver_type
<1>8. i \in Interface /\ latest_version(i) \in Nat /\ next_version(i) = latest_version(i) + 1
  <2>1. i \in Interface
    BY <1>3, <1>5, Zenon DEF FrameSet
  <2> QED
    BY <2>1, LatestType, Zenon DEF ResolveInv, next_version
<1>9. v \in 0 .. latest_version(i)
  <2>1. n - 1 \in 1 .. n
    BY <1>3, <1>4
  <2> QED
    BY <1>1, <1>2, <1>3, <1>4, <1>5, <1>7, <2>1, Zenon DEF ResolveInv, FrozenInv
<1>10. HasDir(i, v) => v \in 1 .. latest_version(i)
  BY <1>8, <1>9 DEF HasDir
<1>11. \A j \in DOMAIN api_dependecies' : api_dependecies'[j] \in 1 .. latest_version(j)
  BY <1>1, <1>6, <1>7, <1>10, SMTT(30) DEF add_dependency, FrozenApiInv
<1> QED
  BY <1>1, <1>11, Zenon DEF latest_version

LEMMA FrozenApiNext == ResolveInv /\ VersionInv /\ FrozenApiInv /\ [Next]_vars => FrozenApiInv'
<1> SUFFICES ASSUME ResolveInv, VersionInv, FrozenApiInv, [Next]_vars PROVE FrozenApiInv'
  BY Zenon
<1>1. ASSUME stack' = <<>> PROVE FrozenApiInv'
  BY <1>1, SMTT(30) DEF FrozenApiInv
<1>2. stack = <<>> \/ op # "none"
  BY Zenon DEF ResolveInv, TypeInv
<1>3. CASE Invoke \/ \E i \in Interface : \E l \in ImportLists[i] : EditImports(i, l)
  <2>1. op = "none" /\ UNCHANGED stack
    BY <1>3, Zenon DEF Invoke, handle_update_api, handle_freeze_api, handle_source_gen, Running, NoCurrent, EditImports
  <2> QED
    BY <1>1, <1>2, <2>1, Zenon
<1>4. CASE NoDirectory \/ CommandFails \/ Finish \/ \E j \in Interface : UnknownVersion(j)
  BY <1>1, <1>4, Zenon DEF NoDirectory, CommandFails, UnknownVersion, Finish, End
<1>5. CASE UNCHANGED vars
  BY <1>5, Zenon DEF vars, disk, FrozenApiInv, import_ver_type, latest_version
<1>6. CASE Begin
  <2>1. DOMAIN api_dependecies' = {}
    BY <1>6, Zenon DEF Begin, EmptyDict
  <2> QED
    BY <2>1, Zenon DEF FrozenApiInv
<1>7. ASSUME NEW j \in Interface, Descend(j) PROVE FrozenApiInv'
  BY <1>7, Zenon DEF Descend, disk, FrozenApiInv, import_ver_type, latest_version
<1> QED
  BY <1>3, <1>4, <1>5, <1>6, <1>7, FrozenApiReturn, Zenon DEF Next, Resolve

\* Whatever developers do, aidl is given for a frozen version everything that
\* the version, and each version it is given, was frozen against.
THEOREM FrozenAlwaysClosed == Spec => []FrozenClosed
<1>1. ResolveInv /\ VersionInv /\ NewestInv /\ FrozenApiInv => FrozenClosed
  <2> SUFFICES ASSUME ResolveInv, VersionInv, NewestInv, FrozenApiInv, Resolved, import_ver_type = "frozen",
                      NEW p \in {<<target, Head(calls).version>>}
                                  \cup {<<j, api_dependecies[j]>> : j \in DOMAIN api_dependecies},
                      NEW k \in DOMAIN versions_with_info[p[1]][p[2]]
               PROVE  /\ k \in DOMAIN api_dependecies
                      /\ api_dependecies[k] >= versions_with_info[p[1]][p[2]][k]
    BY Zenon DEF FrozenClosed
  <2>1. Len(stack) = 1 /\ Top.todo = {} /\ stack # <<>> /\ Top = stack[1] /\ 1 \in 1 .. Len(stack)
    BY DEF Resolved, Top
  <2>2. op # "none" /\ calls # <<>> /\ target \in Interface
    BY <2>1, Zenon DEF ResolveInv, TypeInv
  <2>3. PICK S : Met(S)
    BY <2>1, SMTT(30) DEF NewestInv
  <2>4. p[1] \in Interface /\ p[2] \in 1 .. latest_version(p[1])
    BY <2>1, <2>2, HeadCall DEF FrozenApiInv, VersionInv, ResolveInv
  <2>5. \A d : Direct(p[1], p[2], d) =
          {<<j, versions_with_info[p[1]][p[2]][j]>> : j \in DOMAIN versions_with_info[p[1]][p[2]]}
    BY <2>4, LatestType, SMTT(30) DEF Direct, imports_version, import_version, ResolveInv
  <2>6. \E d : Direct(p[1], p[2], d) \subseteq S
    <3>1. CASE p = <<target, Head(calls).version>>
      <4>1. \A j \in DOMAIN stack[1].imports : <<j, import_version(j, stack[1].imports[j])>> \in S
        BY <2>1, <2>3, SMTT(30) DEF Met
      <4> QED
        BY <2>1, <3>1, <4>1, DirectIs, SMTT(30) DEF NewestInv
    <3>2. CASE p \in {<<j, api_dependecies[j]>> : j \in DOMAIN api_dependecies}
      BY <2>3, <3>2, Zenon DEF Met, Closed
    <3> QED
      BY <3>1, <3>2, SMTT(30)
  <2>7. PICK w : w = versions_with_info[p[1]][p[2]][k]
    BY Zenon
  <2>8. <<k, w>> \in S
    BY <2>5, <2>6, <2>7, SMTT(30)
  <2>9. k \in DOMAIN api_dependecies /\ w \in Nat /\ w <= api_dependecies[k]
    BY <2>3, <2>8, SMTT(30) DEF Met
  <2>10. api_dependecies[k] \in Nat
    BY <2>9, LatestType, SMTT(30) DEF VersionInv, ResolveInv
  <2> QED
    BY <2>7, <2>9, <2>10, Zenon
<1>2. Init => NewestInv /\ FrozenApiInv
  BY Zenon DEF Init, NewestInv, ChainInv, FrozenApiInv
<1> QED
  BY <1>1, <1>2, InitResolve, NextResolve, VersionInit, VersionNext, NewestNext, FrozenApiNext, PTL DEF Spec

-----------------------------------------------------------------------------
(* What freeze_api records *)

\* The version that the dependency check met j in is the one on record now.
CheckedAgainst(j) ==
    imports[target][j] = Unpinned /\ latest_version(j) > 0 /\ NoEarlyPin(j)
        => j \in DOMAIN api_dependecies /\ api_dependecies[j] = latest_version(j)

\* The last dependency call of freeze_api is the one for the latest versions,
\* and its result stays until the version is registered.
CheckedInv ==
    op = "freeze_api" =>
        /\ calls # <<>> => calls[Len(calls)] = Call("latest", next_version(target))
        /\ calls = <<>> => \A j \in DOMAIN imports[target] : CheckedAgainst(j)

LEMMA LastOfTail ==
    ASSUME NEW S, NEW s \in Seq(S), s # <<>>, Tail(s) # <<>>
    PROVE  Tail(s)[Len(Tail(s))] = s[Len(s)]
<1>1. Len(s) \in Nat \ {0} /\ Tail(s) \in Seq(S) /\ Len(Tail(s)) = Len(s) - 1
      /\ \A i \in 1 .. Len(Tail(s)) : Tail(s)[i] = s[i + 1]
  BY HeadTailProperties, EmptySeq, Zenon
<1>2. Len(Tail(s)) \in Nat \ {0}
  BY <1>1, EmptySeq, Zenon
<1>3. Len(Tail(s)) \in 1 .. Len(Tail(s)) /\ Len(Tail(s)) + 1 = Len(s)
  BY <1>1, <1>2
<1> QED
  BY <1>1, <1>3, Zenon

LEMMA LastOfConcat ==
    ASSUME NEW S, NEW s \in Seq(S), NEW e \in S
    PROVE  LET r == s \o <<e>> IN r # <<>> /\ r[Len(r)] = e
<1>1. <<e>> \in Seq(S) /\ Len(<<e>>) = 1 /\ <<e>>[1] = e /\ Len(s) \in Nat
  OBVIOUS
<1>2. Len(s \o <<e>>) = Len(s) + 1 /\ (s \o <<e>>)[Len(s) + 1] = e
  <2>1. Len(s) + 1 \in 1 .. Len(s) + Len(<<e>>) /\ ~(Len(s) + 1 <= Len(s)) /\ Len(s) + 1 - Len(s) = 1
    BY <1>1
  <2> QED
    BY <1>1, <2>1, ConcatProperties
<1>3. Len(<<>>) = 0
  BY Zenon
<1> QED
  BY <1>1, <1>2, <1>3

\* In the check for the latest versions, nothing that is met asks for more of j
\* than the latest version.
LEMMA MetLatest ==
    ASSUME ResolveInv, op # "none", calls # <<>>, import_ver_type = "latest",
           NEW j \in Interface, latest_version(j) > 0, NoEarlyPin(j)
    PROVE  \E T : /\ Direct(target, Head(calls).version, 1) \subseteq T /\ Closed(T)
                  /\ \A v : <<j, v>> \in T => v <= latest_version(j)
<1>1. PICK T : T = {p \in Interface \X Nat : p[1] = j => p[2] <= latest_version(j)}
  BY ZenonT(40)
<1>2. latest_version(j) \in Nat
  BY LatestType, Zenon DEF ResolveInv
<1>3. ASSUME NEW i \in Interface, NEW v, NEW d, NEW k \in DOMAIN get_imports(i, imports_version(i, v, d))
      PROVE  <<k, import_version(k, get_imports(i, imports_version(i, v, d))[k])>> \in T
  <2>1. PICK pin : pin = get_imports(i, imports_version(i, v, d))[k]
    BY Zenon
  <2>2. get_imports(i, imports_version(i, v, d)) \in Lists
    BY LatestType, Zenon DEF ResolveInv
  <2>3. k \in Interface /\ pin \in Version
    BY <1>3, <2>1, <2>2, ListType, SMTT(30)
  <2>4. latest_version(k) \in Nat /\ next_version(k) \in Nat
    BY <2>3, LatestType, Zenon DEF ResolveInv
  <2>5. import_version(k, pin) \in Nat
    BY <2>3, <2>4, Zenon DEF import_version, Version
  <2>6. ASSUME k = j PROVE import_version(k, pin) <= latest_version(j)
    <3>1. CASE pin = Unpinned
      BY <1>2, <2>6, <3>1, SMTT(30) DEF import_version
    <3>2. CASE pin # Unpinned
      <4>1. import_version(k, pin) = pin /\ pin \in Nat
        BY <2>3, <3>2, SMTT(30) DEF import_version, Version
      <4>2. CASE get_imports(i, imports_version(i, v, d)) = imports[i]
        BY <1>3, <2>1, <2>6, <3>2, <4>1, <4>2, SMTT(30) DEF NoEarlyPin
      <4>3. CASE imports_version(i, v, d) \in 1 .. latest_version(i)
        <5>1. pin \in 0 .. latest_version(j)
          BY <1>3, <2>1, <2>6, <4>3, FrozenImports, SMTT(30)
        <5> QED
          BY <1>2, <4>1, <5>1
      <4> QED
        BY <4>2, <4>3, Zenon DEF get_imports
    <3> QED
      BY <3>1, <3>2, Zenon
  <2> QED
    BY <1>1, <2>1, <2>3, <2>5, <2>6, Zenon
<1>4. ASSUME NEW i \in Interface, NEW v, NEW d PROVE Direct(i, v, d) \subseteq T
  BY <1>3, Zenon DEF Direct
<1>5. Closed(T)
  BY <1>1, <1>4, Zenon DEF Closed
<1>6. Direct(target, Head(calls).version, 1) \subseteq T
  BY <1>4, Zenon DEF ResolveInv, TypeInv
<1>7. \A v : <<j, v>> \in T => v <= latest_version(j)
  BY <1>1, Zenon
<1> QED
  BY <1>5, <1>6, <1>7, Zenon

\* When the check for the latest versions is done.
LEMMA CheckedAtReturn ==
    ASSUME ResolveInv, VersionInv, NewestInv, Resolved, import_ver_type = "latest",
           Head(calls).version = next_version(target), NEW j \in DOMAIN imports[target]
    PROVE  CheckedAgainst(j)
<1> SUFFICES ASSUME imports[target][j] = Unpinned, latest_version(j) > 0, NoEarlyPin(j)
             PROVE  j \in DOMAIN api_dependecies /\ api_dependecies[j] = latest_version(j)
  BY Zenon DEF CheckedAgainst
<1>1. Len(stack) = 1 /\ Top.todo = {} /\ stack # <<>> /\ Top = stack[1] /\ 1 \in 1 .. Len(stack)
  BY SMTT(30) DEF Resolved, Top
<1>2. op # "none" /\ calls # <<>> /\ target \in Interface
  BY <1>1, Zenon DEF ResolveInv, TypeInv
<1>3. imports[target] \in Lists
  BY <1>2, SMTT(30) DEF ResolveInv, TypeInv
<1>4. j \in Interface /\ latest_version(j) \in Nat
  BY <1>3, ListType, LatestType, SMTT(30) DEF ResolveInv
<1>5. PICK S : Met(S)
  BY <1>1, SMTT(30) DEF NewestInv
<1>6. PICK T : /\ Direct(target, Head(calls).version, 1) \subseteq T /\ Closed(T)
               /\ \A v : <<j, v>> \in T => v <= latest_version(j)
  BY <1>2, <1>4, MetLatest, SMTT(30)
<1>7. S \subseteq T
  BY <1>5, <1>6, SMTT(30) DEF Met
<1>8. stack[1].imports = imports[target]
  <2>1. stack[1].imports = get_imports(target, imports_version(target, next_version(target), 1))
    BY <1>1, Zenon DEF NewestInv, ChainInv
  <2>2. imports_version(target, next_version(target), 1) = latest_version(target) + 1
    BY SMTT(30) DEF imports_version, next_version
  <2>3. latest_version(target) \in Nat
    BY <1>2, LatestType, Zenon DEF ResolveInv
  <2> QED
    BY <2>1, <2>2, <2>3, SMTT(30) DEF get_imports
<1>9. <<j, latest_version(j)>> \in S
  <2>1. <<j, import_version(j, stack[1].imports[j])>> \in S
    BY <1>1, <1>5, <1>8, SMTT(30) DEF Met
  <2> QED
    BY <1>4, <1>8, <2>1, SMTT(30) DEF import_version
<1>10. j \in DOMAIN api_dependecies /\ latest_version(j) <= api_dependecies[j]
       /\ api_dependecies[j] <= latest_version(j)
  BY <1>5, <1>6, <1>7, <1>9, Zenon DEF Met
<1>11. api_dependecies[j] \in Nat
  BY <1>10, LatestType DEF VersionInv, ResolveInv
<1> QED
  BY <1>4, <1>10, <1>11, SMTT(30)

LEMMA CheckedReturn ==
    ASSUME ResolveInv, VersionInv, NewestInv, CheckedInv, Return
    PROVE  CheckedInv'
<1> SUFFICES ASSUME op = "freeze_api"
             PROVE  /\ calls' # <<>> => calls'[Len(calls')] = Call("latest", next_version(target))
                    /\ calls' = <<>> => \A j \in DOMAIN imports[target] : CheckedAgainst(j)'
  BY Zenon DEF CheckedInv, Return, disk, next_version, latest_version
<1>1. /\ stack # <<>> /\ Top.todo = {} /\ UNCHANGED <<imports, versions_with_info, target>>
  BY Zenon DEF Return, disk
<1>2. calls # <<>> /\ calls \in Seq(CallSet(target))
  BY <1>1, Zenon DEF ResolveInv, TypeInv
<1>3. CASE Len(stack) # 1
  <2>1. UNCHANGED calls
    BY <1>3, Zenon DEF Return
  <2> QED
    BY <1>2, <2>1, Zenon DEF CheckedInv
<1>4. CASE Len(stack) = 1
  <2>1. calls' = Tail(calls) /\ UNCHANGED api_dependecies
    BY <1>4, Zenon DEF Return
  <2>2. calls[Len(calls)] = Call("latest", next_version(target))
    BY <1>2, Zenon DEF CheckedInv
  <2>3. calls' # <<>> => calls'[Len(calls')] = Call("latest", next_version(target))
    BY <1>2, <2>1, <2>2, LastOfTail, SMTT(30)
  <2>4. ASSUME calls' = <<>>, NEW j \in DOMAIN imports[target] PROVE CheckedAgainst(j)'
    <3>1. Len(calls) = 1
      <4>1. Len(Tail(calls)) = Len(calls) - 1 /\ Len(calls) \in Nat
        BY <1>2, HeadTailProperties
      <4>2. Len(<<>>) = 0
        BY Zenon
      <4>3. Len(Tail(calls)) = 0
        BY <2>1, <2>4, <4>2, Zenon
      <4> QED
        BY <4>1, <4>3
    <3>2. Head(calls) = Call("latest", next_version(target))
      BY <1>2, <2>2, <3>1
    <3>3. import_ver_type = "latest" /\ Head(calls).version = next_version(target)
      BY <3>2 DEF Call, import_ver_type
    <3>4. CheckedAgainst(j)
      BY <1>1, <1>4, <2>4, <3>3, CheckedAtReturn, SMTT(30) DEF Resolved
    <3> QED
      BY <1>1, <2>1, <3>4, Zenon DEF CheckedAgainst, NoEarlyPin, latest_version
  <2> QED
    BY <2>3, <2>4, Zenon
<1> QED
  BY <1>3, <1>4, Zenon

LEMMA CheckedFreeze ==
    ASSUME ResolveInv, NEW i \in Interface, handle_freeze_api(i)
    PROVE  CheckedInv'
<1>1. latest_version(i) \in Nat /\ next_version(i) = latest_version(i) + 1 /\ TypeInv
  BY LatestType, Zenon DEF ResolveInv, next_version
<1>2. next_version(i) \in 1 .. next_version(i)
  BY <1>1
<1>3. get_dependencies(i, next_version(i)) \in CallSet(i)
  BY <1>1, <1>2, GetDependenciesIs, Zenon
<1>4. check_for_development(i) \in Seq(CallSet(i)) /\ validate_interface(i, TRUE) \in Seq(CallSet(i))
  <2>1. check_for_development(i) \in Seq(CallSet(i))
    BY <1>3 DEF check_for_development
  <2>2. validate_interface(i, TRUE) \in Seq(CallSet(i))
    BY <1>1, ValidateIs, Zenon
  <2> QED
    BY <2>1, <2>2, Zenon
<1>5. PICK s : s = validate_interface(i, TRUE) \o check_for_development(i)
  BY Zenon
<1>6. s \in Seq(CallSet(i))
  BY <1>4, <1>5, ConcatProperties, Zenon
<1>7. PICK e : e = Call("latest", next_version(i))
  BY Zenon
<1>8. e \in CallSet(i)
  BY <1>1, <1>7 DEF Call, CallSet
<1>9. /\ calls' = s \o <<e>> /\ target' = i /\ UNCHANGED versions_with_info
  BY <1>5, <1>7, Zenon DEF handle_freeze_api, Running
<1>10. calls' # <<>> /\ calls'[Len(calls')] = e
  BY <1>6, <1>8, <1>9, LastOfConcat, Zenon
<1>11. next_version(target)' = next_version(i)
  BY <1>9, SMTT(30) DEF next_version, latest_version
<1> QED
  BY <1>7, <1>10, <1>11, Zenon DEF CheckedInv, Call

LEMMA CheckedNext == ResolveInv /\ VersionInv /\ NewestInv /\ CheckedInv /\ [Next]_vars => CheckedInv'
<1> SUFFICES ASSUME ResolveInv, VersionInv, NewestInv, CheckedInv, [Next]_vars PROVE CheckedInv'
  BY Zenon
<1>1. ASSUME op' # "freeze_api" PROVE CheckedInv'
  BY <1>1, SMTT(30) DEF CheckedInv
<1>2. CASE NoDirectory \/ CommandFails \/ Finish \/ \E j \in Interface : UnknownVersion(j)
  BY <1>1, <1>2, Zenon DEF NoDirectory, CommandFails, UnknownVersion, Finish, End
<1>3. ASSUME NEW i \in Interface,
             \/ handle_update_api(i) \/ NoCurrent(i) \/ \E v : handle_source_gen(i, v)
             \/ \E l : EditImports(i, l)
      PROVE  CheckedInv'
  BY <1>1, <1>3, Zenon DEF handle_update_api, handle_source_gen, Running, NoCurrent, EditImports
<1>4. CASE Begin \/ \E j \in Interface : Descend(j)
  <2>1. /\ calls # <<>> /\ UNCHANGED <<imports, versions_with_info, op, target, calls>>
    BY <1>4, Zenon DEF Begin, Descend, disk, ResolveInv, TypeInv
  <2> QED
    BY <2>1, Zenon DEF CheckedInv, next_version, latest_version, Call
<1>5. CASE UNCHANGED vars
  BY <1>5, Zenon DEF vars, disk, CheckedInv, CheckedAgainst, NoEarlyPin, next_version, latest_version, Call
<1> QED
  BY <1>2, <1>3, <1>4, <1>5, CheckedReturn, CheckedFreeze, Zenon DEF Next, Resolve, Invoke

LEMMA RecordStep ==
    ASSUME ResolveInv, CheckedInv, [Next]_vars, NEW i \in Interface, NEW j \in DOMAIN imports[i],
           latest_version(i)' > latest_version(i),
           imports[i][j] = Unpinned, latest_version(j) > 0, NoEarlyPin(j)
    PROVE  /\ j \in DOMAIN api_dependecies
           /\ versions_with_info'[i][next_version(i)][j] = api_dependecies[j]
<1>1. latest_version(i) \in Nat /\ ~(latest_version(i) > latest_version(i))
  BY LatestType DEF ResolveInv
<1>2. ~UNCHANGED versions_with_info
  BY <1>1, SMTT(30) DEF latest_version
<1>3. Finish
  BY <1>2, ZenonT(40) DEF Next, vars, disk, Invoke, Resolve, handle_update_api, handle_freeze_api, handle_source_gen,
              Running, NoCurrent, Begin, Descend, Return, UnknownVersion, NoDirectory, CommandFails, EditImports
<1>4. op = "freeze_api" /\ calls = <<>> /\ append_version(target)
  BY <1>2, <1>3, Zenon DEF Finish
<1>5. target \in Interface /\ versions_with_info \in [Interface -> Seq(Lists)]
  BY <1>4, SMTT(30) DEF ResolveInv, TypeInv
<1>6. PICK l : l = [k \in DOMAIN imports[target] |-> latest_version(k)]
  BY Zenon
<1>7. versions_with_info' = [versions_with_info EXCEPT ![target] = Append(@, l)]
  BY <1>4, <1>6, Zenon DEF append_version
<1>8. i = target
  BY <1>1, <1>5, <1>7, Zenon DEF latest_version
<1>9. versions_with_info'[i][next_version(i)] = l
  <2>1. PICK w \in Seq(Lists) : w = versions_with_info[i]
    BY <1>5, Zenon
  <2>2. versions_with_info'[i] = Append(w, l) /\ next_version(i) = Len(w) + 1
    BY <1>5, <1>7, <1>8, <2>1, SMTT(30) DEF next_version, latest_version
  <2> QED
    BY <2>1, <2>2
<1>10. j \in DOMAIN api_dependecies /\ api_dependecies[j] = latest_version(j)
  BY <1>4, <1>8, Zenon DEF CheckedInv, CheckedAgainst
<1> QED
  BY <1>6, <1>8, <1>9, <1>10, Zenon

\* freeze_api registers, for an import without a pin, the very version that its
\* dependency check was made with, in any graph of imports.
THEOREM RecordsWhatItChecked == Spec => RecordsWhatWasChecked
<1>1. ResolveInv /\ CheckedInv /\ [Next]_vars =>
        [\A i \in Interface : \A j \in DOMAIN imports[i] :
           (/\ latest_version(i)' > latest_version(i)
            /\ imports[i][j] = Unpinned /\ latest_version(j) > 0 /\ NoEarlyPin(j))
             => /\ j \in DOMAIN api_dependecies
                /\ versions_with_info'[i][next_version(i)][j] = api_dependecies[j]]_vars
  BY RecordStep, SMTT(30)
<1>2. Init => NewestInv /\ CheckedInv
  BY Zenon DEF Init, NewestInv, ChainInv, CheckedInv
<1> QED
  BY <1>1, <1>2, InitResolve, NextResolve, VersionInit, VersionNext, NewestNext, CheckedNext, PTL
     DEF Spec, RecordsWhatWasChecked

-----------------------------------------------------------------------------
(* The recursion does not run in circles *)

\* What falls from each number to the next falls over any distance.
LEMMA Falling ==
    ASSUME NEW n \in Nat, NEW t, \A k \in 1 .. n : t[k] \in Nat, \A k \in 2 .. n : t[k] < t[k - 1],
           NEW a \in 1 .. n, NEW b \in 1 .. n, a < b
    PROVE  t[b] < t[a]
<1> DEFINE T == {k \in a + 1 .. n : ~(t[k] < t[a])}
<1> SUFFICES ASSUME T # {} PROVE FALSE
  OBVIOUS
<1>1. T \subseteq Nat
  OBVIOUS
<1>2. PICK x \in T : \A y \in T : ~(<<y, x>> \in OpToRel(<, Nat))
  <2> HIDE DEF T
  <2> QED
    BY <1>1, NatLessThanWellFounded, WFMin, Zenon
<1>3. \A y \in T : ~(y < x)
  BY <1>1, <1>2, Zenon DEF OpToRel
<1>4. x \in a + 1 .. n /\ ~(t[x] < t[a]) /\ x \in 2 .. n /\ x - 1 \in 1 .. n /\ t[x] < t[x - 1]
  OBVIOUS
<1>5. x - 1 \notin T
  BY <1>3, <1>4
<1>6. x - 1 = a \/ t[x - 1] < t[a]
  BY <1>4, <1>5
<1> QED
  BY <1>4, <1>6

LEMMA Appended ==
    ASSUME NEW S, NEW w \in Seq(S), NEW l \in S
    PROVE  /\ Len(Append(w, l)) = Len(w) + 1 /\ Append(w, l)[Len(w) + 1] = l
           /\ \A v \in 1 .. Len(w) : Append(w, l)[v] = w[v]
OBVIOUS

\* r tells when a version was frozen, and N is now: after the versions that it has
\* on record.
FrozenAfter(r, N) ==
    /\ N \in Nat /\ r \in [Interface -> [Nat -> Nat]]
    /\ \A i \in Interface : \A v \in 1 .. latest_version(i) :
         /\ r[i][v] < N
         /\ \A j \in DOMAIN versions_with_info[i][v] :
              versions_with_info[i][v][j] # 0 => r[j][versions_with_info[i][v][j]] < r[i][v]

OrderInv == \E r, N : FrozenAfter(r, N)

\* A resolution of a frozen version only meets frozen versions.
MetFrozenInv ==
    stack # <<>> /\ import_ver_type = "frozen" =>
        \A n \in 1 .. Len(stack) : stack[n].version \in 1 .. latest_version(stack[n].interface)

LEMMA OrderFinish ==
    ASSUME ResolveInv, OrderInv, Finish
    PROVE  OrderInv'
<1>1. op # "none" /\ (append_version(target) \/ UNCHANGED versions_with_info)
  BY Zenon DEF Finish
<1>2. PICK r, N : FrozenAfter(r, N)
  BY Zenon DEF OrderInv
<1>3. N \in Nat /\ r \in [Interface -> [Nat -> Nat]]
  BY <1>2, Zenon DEF FrozenAfter
<1>4. CASE UNCHANGED versions_with_info
  <2>1. FrozenAfter(r, N)'
    BY <1>2, <1>4, Zenon DEF FrozenAfter, latest_version
  <2> QED
    BY <2>1, SMTT(30) DEF OrderInv
<1>5. CASE append_version(target)
  <2>1. PICK w, l, k : /\ w = versions_with_info[target] /\ k = Len(w)
                       /\ l = [j \in DOMAIN imports[target] |-> latest_version(j)]
    BY Zenon
  <2>2. /\ target \in Interface /\ TypeInv /\ RecordedInv /\ k = latest_version(target)
        /\ versions_with_info \in [Interface -> Seq(Lists)] /\ imports \in [Interface -> Lists]
    BY <1>1, <2>1, Zenon DEF ResolveInv, TypeInv, latest_version
  <2>3. DOMAIN l \subseteq Interface /\ \A j \in DOMAIN l : l[j] = latest_version(j)
    BY <2>1, <2>2, ListType, Zenon
  <2>4. w \in Seq(Lists) /\ k \in Nat
    BY <2>1, <2>2, LatestType, SMTT(30)
  <2>5. /\ versions_with_info' = [versions_with_info EXCEPT ![target] = Append(w, l)]
        /\ versions_with_info'[target] = Append(w, l)
        /\ \A i \in Interface \ {target} : versions_with_info'[i] = versions_with_info[i]
    BY <1>5, <2>1, <2>2, Zenon DEF append_version
  <2>6. l \in Lists
    <3>1. \A j \in DOMAIN l : l[j] \in Version
      BY <2>2, <2>3, LatestType, SMTT(30) DEF Version
    <3>2. l \in [DOMAIN l -> Version]
      BY <2>1, <3>1, SMTT(30)
    <3> QED
      BY <2>3, <3>2, Zenon DEF Lists
  <2>7. /\ Len(Append(w, l)) = k + 1 /\ Append(w, l)[k + 1] = l
        /\ \A v \in 1 .. k : Append(w, l)[v] = w[v]
    BY <2>1, <2>4, <2>6, Appended, SMTT(30)
  <2>8. /\ \A i \in Interface : i = target => latest_version(i)' = k + 1
        /\ \A i \in Interface \ {target} : latest_version(i)' = latest_version(i)
    BY <2>5, <2>7, Zenon DEF latest_version
  <2>9. PICK q : q = [r EXCEPT ![target] = [r[target] EXCEPT ![k + 1] = N]]
    BY Zenon
  <2>10. /\ q \in [Interface -> [Nat -> Nat]] /\ q[target][k + 1] = N
         /\ \A i \in Interface : \A v \in 1 .. latest_version(i) : q[i][v] = r[i][v]
    <3>1. /\ q \in [Interface -> [Nat -> Nat]] /\ q[target] = [r[target] EXCEPT ![k + 1] = N]
          /\ \A i \in Interface \ {target} : q[i] = r[i]
      BY <1>3, <2>2, <2>4, <2>9, ZenonT(40)
    <3>2. k + 1 \in Nat /\ \A v \in 1 .. k : v \in Nat /\ v # k + 1
      BY <2>4
    <3>3. r[target] \in [Nat -> Nat]
      BY <1>3, <2>2, Zenon
    <3>4. q[target][k + 1] = N /\ \A v \in 1 .. k : q[target][v] = r[target][v]
      BY <3>1, <3>2, <3>3, Zenon
    <3> QED
      BY <2>2, <3>1, <3>4, Zenon
  <2>11. ASSUME NEW i \in Interface, NEW v \in 1 .. latest_version(i)
         PROVE  /\ q[i][v] < N
                /\ \A j \in DOMAIN versions_with_info[i][v] :
                     versions_with_info[i][v][j] # 0 => q[j][versions_with_info[i][v][j]] < q[i][v]
    <3>1. versions_with_info[i][v] \in Lists
      BY <2>2, LatestType, Zenon
    <3>2. \A j \in DOMAIN versions_with_info[i][v] :
            j \in Interface /\ versions_with_info[i][v][j] \in 0 .. latest_version(j)
      BY <2>2, <3>1, ListType, Zenon DEF RecordedInv
    <3>3. \A j \in DOMAIN versions_with_info[i][v] : latest_version(j) \in Nat
      BY <2>2, <3>2, LatestType, SMTT(30)
    <3>4. \A j \in DOMAIN versions_with_info[i][v] : versions_with_info[i][v][j] # 0 =>
            versions_with_info[i][v][j] \in 1 .. latest_version(j)
      BY <3>2, <3>3, SMTT(30)
    <3> QED
      BY <1>2, <2>10, <3>2, <3>4, ZenonT(40) DEF FrozenAfter
  <2>12. ASSUME NEW j \in DOMAIN l, l[j] # 0 PROVE q[j][l[j]] < N
    <3>1. j \in Interface /\ l[j] = latest_version(j) /\ latest_version(j) \in Nat
      BY <2>2, <2>3, LatestType, SMTT(30)
    <3>2. l[j] \in 1 .. latest_version(j)
      BY <2>12, <3>1, SMTT(30)
    <3> QED
      BY <2>11, <3>1, <3>2, SMTT(30)
  <2>13. ASSUME NEW i \in Interface, NEW v \in 1 .. latest_version(i)'
         PROVE  /\ q[i][v] < N + 1
                /\ \A j \in DOMAIN versions_with_info'[i][v] :
                     versions_with_info'[i][v][j] # 0 => q[j][versions_with_info'[i][v][j]] < q[i][v]
    <3>1. ASSUME v \in 1 .. latest_version(i), versions_with_info'[i][v] = versions_with_info[i][v]
          PROVE  /\ q[i][v] < N + 1
                 /\ \A j \in DOMAIN versions_with_info'[i][v] :
                      versions_with_info'[i][v][j] # 0 => q[j][versions_with_info'[i][v][j]] < q[i][v]
      <4>1. q[i] \in [Nat -> Nat] /\ v \in Nat /\ q[i][v] < N
        BY <2>10, <2>11, <3>1
      <4>2. q[i][v] < N + 1
        BY <1>3, <4>1, SMTT(30)
      <4> QED
        BY <2>11, <3>1, <4>2, SMTT(30)
    <3>2. CASE i # target
      BY <2>5, <2>8, <3>1, <3>2, SMTT(30)
    <3>3. CASE i = target /\ v \in 1 .. k
      BY <2>1, <2>2, <2>5, <2>7, <3>1, <3>3, ZenonT(40)
    <3>4. CASE i = target /\ v = k + 1
      <4>1. q[i][v] = N /\ versions_with_info'[i][v] = l
        BY <2>5, <2>7, <2>10, <3>4, Zenon
      <4>2. N < N + 1
        BY <1>3
      <4> QED
        BY <2>12, <4>1, <4>2, SMTT(30)
    <3>5. i = target => v \in 1 .. k \/ v = k + 1
      BY <2>4, <2>8
    <3> QED
      BY <3>2, <3>3, <3>4, <3>5, SMTT(30)
  <2>14. PICK M : M = N + 1
    BY SMTT(30)
  <2>15. FrozenAfter(q, M)'
    BY <1>3, <2>10, <2>13, <2>14, SMTT(30) DEF FrozenAfter
  <2> QED
    BY <2>15, Zenon DEF OrderInv
<1> QED
  BY <1>1, <1>4, <1>5, Zenon

LEMMA OrderNext == ResolveInv /\ OrderInv /\ [Next]_vars => OrderInv'
<1> SUFFICES ASSUME ResolveInv, OrderInv, [Next]_vars PROVE OrderInv'
  BY Zenon
<1>1. CASE UNCHANGED versions_with_info
  <2>1. PICK r, N : FrozenAfter(r, N)
    BY SMTT(30) DEF OrderInv
  <2>2. FrozenAfter(r, N)'
    BY <1>1, <2>1, Zenon DEF FrozenAfter, latest_version
  <2> QED
    BY <2>2, Zenon DEF OrderInv
<1> QED
  BY <1>1, OrderFinish, Zenon
  DEF Next, Invoke, handle_update_api, handle_freeze_api, handle_source_gen, Running, NoCurrent,
      Resolve, Begin, Return, Descend, UnknownVersion, NoDirectory, CommandFails, EditImports,
      vars, disk

LEMMA MetFrozenDescend ==
    ASSUME ResolveInv, MetFrozenInv, NEW j \in Interface, Descend(j)
    PROVE  MetFrozenInv'
<1> SUFFICES ASSUME import_ver_type = "frozen"
             PROVE  \A m \in 1 .. Len(stack') : stack'[m].version \in 1 .. latest_version(stack'[m].interface)
  BY Zenon DEF Descend, disk, MetFrozenInv, import_ver_type, latest_version
<1>1. stack # <<>> /\ j \in Top.todo
  BY SMTT(30) DEF Descend
<1>2. PICK n \in Nat \ {0}, x \in FrameSet, y \in FrameSet :
        /\ n = Len(stack) /\ stack' \in Seq(FrameSet) /\ Len(stack') = n + 1
        /\ \A m \in 1 .. n - 1 : stack'[m] = stack[m]
        /\ stack'[n] = x /\ stack'[n + 1] = y
        /\ x.interface = Top.interface /\ x.version = Top.version
        /\ y.interface = j /\ y.version = import_version(j, Top.imports[j])
        /\ HasVersion(j, imports_version(j, y.version, n + 1))
  BY Pushed, SMTT(30)
<1>3. Top = stack[n] /\ Top \in FrameSet /\ j \in DOMAIN Top.imports /\ n \in 1 .. Len(stack)
  BY <1>1, <1>2, TopIs DEF ResolveInv, FrameSet
<1>4. y.version = Top.imports[j] /\ y.version \in 1 .. next_version(j)
  BY <1>2, SMTT(30) DEF import_version, imports_version, HasVersion
<1>5. Top.imports[j] \in 0 .. latest_version(j)
  BY <1>1, <1>3, SMTT(30) DEF ResolveInv, FrozenInv
<1>6. latest_version(j) \in Nat /\ next_version(j) = latest_version(j) + 1
  BY LatestType, SMTT(30) DEF ResolveInv, next_version
<1>7. y.version \in 1 .. latest_version(y.interface)
  BY <1>2, <1>4, <1>5, <1>6, SMTT(30)
<1>8. \A m \in 1 .. n : stack[m].version \in 1 .. latest_version(stack[m].interface)
  BY <1>1, <1>2, SMTT(30) DEF MetFrozenInv
<1>9. \A m \in 1 .. n + 1 : m \in 1 .. n - 1 \/ m = n \/ m = n + 1
  BY <1>2, SMTT(30)
<1>10. n \in 1 .. n /\ \A m \in 1 .. n - 1 : m \in 1 .. n
  BY <1>2, SMTT(30)
<1> QED
  BY <1>2, <1>3, <1>7, <1>8, <1>9, <1>10, ZenonT(40)

LEMMA MetFrozenReturn ==
    ASSUME ResolveInv, MetFrozenInv, Return
    PROVE  MetFrozenInv'
<1> SUFFICES ASSUME stack' # <<>> PROVE MetFrozenInv'
  BY Zenon DEF MetFrozenInv
<1>1. PICK n : n = Len(stack)
  BY Zenon
<1>2. stack # <<>> /\ stack' = SubSeq(stack, 1, n - 1) /\ UNCHANGED versions_with_info
  BY <1>1, Zenon DEF Return, disk
<1>3. n \in Nat \ {0} /\ stack \in Seq(FrameSet)
  BY <1>1, <1>2, TopIs, Zenon DEF ResolveInv
<1>4. Len(stack') = n - 1 /\ \A m \in 1 .. n - 1 : stack'[m] = stack[m] /\ m \in 1 .. n
  BY <1>1, <1>2, <1>3, Front
<1>5. n # 1
  BY <1>2, <1>3
<1>6. UNCHANGED calls
  BY <1>1, <1>5, SMTT(30) DEF Return
<1> QED
  BY <1>1, <1>2, <1>4, <1>6, Zenon DEF MetFrozenInv, import_ver_type, latest_version

LEMMA MetFrozenNext == ResolveInv /\ MetFrozenInv /\ [Next]_vars => MetFrozenInv'
<1> SUFFICES ASSUME ResolveInv, MetFrozenInv, [Next]_vars PROVE MetFrozenInv'
  BY Zenon
<1>1. ASSUME stack' = <<>> PROVE MetFrozenInv'
  BY <1>1, Zenon DEF MetFrozenInv
<1>2. stack = <<>> \/ op # "none"
  BY Zenon DEF ResolveInv, TypeInv
<1>3. CASE Invoke \/ \E i \in Interface : \E l \in ImportLists[i] : EditImports(i, l)
  <2>1. op = "none" /\ UNCHANGED stack
    BY <1>3, Zenon DEF Invoke, handle_update_api, handle_freeze_api, handle_source_gen, Running, NoCurrent, EditImports
  <2> QED
    BY <1>1, <1>2, <2>1, SMTT(30)
<1>4. CASE NoDirectory \/ CommandFails \/ Finish \/ \E j \in Interface : UnknownVersion(j)
  BY <1>1, <1>4, Zenon DEF NoDirectory, CommandFails, UnknownVersion, Finish, End
<1>5. CASE UNCHANGED vars
  BY <1>5, Zenon DEF vars, disk, MetFrozenInv, import_ver_type, latest_version
<1>6. CASE Begin
  <2>1. /\ op # "none" /\ calls # <<>> /\ stack' = <<Frame(target, Head(calls).version, 1)>>
        /\ UNCHANGED <<versions_with_info, calls>> /\ target \in Interface
    BY <1>6, Zenon DEF Begin, disk, ResolveInv, TypeInv
  <2>2. PICK f : f = Frame(target, Head(calls).version, 1)
    BY Zenon
  <2>3. Head(calls).version \in Nat
        /\ (import_ver_type = "frozen" => Head(calls).version \in 1 .. latest_version(target))
    BY <2>1, HeadCall, SMTT(30) DEF ResolveInv
  <2>4. f.interface = target /\ f.version = Head(calls).version
    BY <2>2, Zenon DEF Frame
  <2>5. Len(stack') = 1 /\ stack'[1] = f
    BY <2>1, <2>2, Zenon
  <2>6. \A m \in 1 .. Len(stack') : stack'[m] = f
    BY <2>5
  <2> QED
    BY <2>1, <2>3, <2>4, <2>6, SMTT(30) DEF MetFrozenInv, import_ver_type, latest_version
<1> QED
  BY <1>3, <1>4, <1>5, <1>6, MetFrozenDescend, MetFrozenReturn, SMTT(30) DEF Next, Resolve

\* The versions on record are not circular: of any frozen versions, one has none
\* of them on record.  append_version freezes a version against versions that
\* exist, and a frozen version keeps its record, so that what was frozen can be
\* resolved whatever its interface imports today.
RecordNotCircular ==
    \A S \in SUBSET (Interface \X Nat) :
        S # {} /\ (\A p \in S : p[2] \in 1 .. latest_version(p[1])) =>
            \E p \in S : \A j \in DOMAIN versions_with_info[p[1]][p[2]] :
                            <<j, versions_with_info[p[1]][p[2]][j]>> \notin S

\* The calls of process_imports for a frozen version are for different versions.
FrozenNeverRepeats ==
    stack # <<>> /\ import_ver_type = "frozen" =>
        \A m, n \in 1 .. Len(stack) :
            stack[m].interface = stack[n].interface /\ stack[m].version = stack[n].version => m = n

\* The calls of process_imports are for different interfaces.
NeverRepeats == \A m, n \in 1 .. Len(stack) : stack[m].interface = stack[n].interface => m = n

LEMMA OrderNotCircular ==
    ASSUME ResolveInv, OrderInv
    PROVE  RecordNotCircular
<1> SUFFICES ASSUME NEW S \in SUBSET (Interface \X Nat), S # {},
                    \A p \in S : p[2] \in 1 .. latest_version(p[1])
             PROVE  \E p \in S : \A j \in DOMAIN versions_with_info[p[1]][p[2]] :
                                    <<j, versions_with_info[p[1]][p[2]][j]>> \notin S
  BY Zenon DEF RecordNotCircular
<1>1. PICK r, N : FrozenAfter(r, N)
  BY Zenon DEF OrderInv
<1> DEFINE T == {r[p[1]][p[2]] : p \in S}
<1>2. T \subseteq Nat /\ T # {}
  <2>1. \A p \in S : p[1] \in Interface /\ p[2] \in Nat
    BY Zenon
  <2>2. \A p \in S : r[p[1]] \in [Nat -> Nat]
    BY <1>1, <2>1, Zenon DEF FrozenAfter
  <2> QED
    BY <2>1, <2>2, Zenon
<1>3. PICK x \in T : \A y \in T : ~(<<y, x>> \in OpToRel(<, Nat))
  <2> HIDE DEF T
  <2> QED
    BY <1>2, NatLessThanWellFounded, WFMin, Zenon
<1>4. \A y \in T : ~(y < x)
  BY <1>2, <1>3, Zenon DEF OpToRel
<1>5. PICK p \in S : r[p[1]][p[2]] = x
  BY Zenon
<1>6. ASSUME NEW j \in DOMAIN versions_with_info[p[1]][p[2]], <<j, versions_with_info[p[1]][p[2]][j]>> \in S
      PROVE  FALSE
  <2>1. PICK w : w = versions_with_info[p[1]][p[2]][j]
    BY SMTT(30)
  <2>2. <<j, w>> \in S /\ w \in 1 .. latest_version(j) /\ w # 0
    BY <1>6, <2>1, LatestType, SMTT(30) DEF ResolveInv
  <2>3. r[j][w] \in T
    BY <2>2, SMTT(30)
  <2>4. r[j][w] < x
    BY <1>1, <1>5, <2>1, <2>2, Zenon DEF FrozenAfter
  <2> QED
    BY <1>4, <2>3, <2>4, Zenon
<1> QED
  BY <1>6, Zenon

LEMMA OrderNoRepeat ==
    ASSUME ResolveInv, ChainInv, OrderInv, MetFrozenInv
    PROVE  FrozenNeverRepeats
<1> SUFFICES ASSUME stack # <<>>, import_ver_type = "frozen", NEW a \in 1 .. Len(stack), NEW b \in 1 .. Len(stack),
                    stack[a].interface = stack[b].interface, stack[a].version = stack[b].version, a # b
             PROVE  FALSE
  BY Zenon DEF FrozenNeverRepeats
<1>1. PICK r, N : FrozenAfter(r, N)
  BY Zenon DEF OrderInv
<1>2. PICK t : t = [k \in 1 .. Len(stack) |-> r[stack[k].interface][stack[k].version]]
  BY Zenon
<1>3. PICK n \in Nat : n = Len(stack)
  BY TopIs, Zenon DEF ResolveInv
<1>4. \A k \in 1 .. n : /\ stack[k] \in FrameSet /\ stack[k].interface \in Interface
                        /\ stack[k].version \in 1 .. latest_version(stack[k].interface)
  BY <1>3 DEF ResolveInv, TypeInv, FrameSet, MetFrozenInv
<1>5. \A k \in 1 .. n : t[k] \in Nat
  <2>1. r \in [Interface -> [Nat -> Nat]]
    BY <1>1, Zenon DEF FrozenAfter
  <2>2. \A k \in 1 .. n : r[stack[k].interface] \in [Nat -> Nat]
    BY <1>4, <2>1, Zenon
  <2>3. \A k \in 1 .. n : stack[k].version \in Nat
    BY <1>4
  <2> QED
    BY <1>2, <1>3, <2>2, <2>3, Zenon
<1>6. ASSUME NEW k \in 2 .. n PROVE t[k] < t[k - 1]
  <2>1. PICK m \in 1 .. n : m = k - 1
    BY <1>3
  <2>2. k \in 1 .. n /\ k > 1
    BY <1>3, SMTT(30)
  <2>3. /\ stack[k].interface \in DOMAIN stack[m].imports
        /\ stack[k].version = stack[m].imports[stack[k].interface]
    BY <1>3, <2>1, <2>2, SMTT(30) DEF ResolveInv, FrozenInv
  <2>4. stack[m].imports = versions_with_info[stack[m].interface][stack[m].version]
    <3>1. stack[m].imports = get_imports(stack[m].interface,
                                         imports_version(stack[m].interface, stack[m].version, m))
      BY <1>3, <2>1, Zenon DEF ChainInv
    <3>2. imports_version(stack[m].interface, stack[m].version, m) = stack[m].version
      BY Zenon DEF imports_version
    <3> QED
      BY <1>4, <2>1, <3>1, <3>2, SMTT(30) DEF get_imports
  <2>5. PICK i \in Interface : i = stack[m].interface
    BY <1>4, <2>1, Zenon
  <2>6. PICK v \in 1 .. latest_version(i) : v = stack[m].version
    BY <1>4, <2>1, <2>5, Zenon
  <2>7. PICK j : j = stack[k].interface
    BY Zenon
  <2>8. PICK w : w = stack[k].version
    BY SMTT(30)
  <2>9. j \in DOMAIN versions_with_info[i][v] /\ w = versions_with_info[i][v][j]
    BY <2>3, <2>4, <2>5, <2>6, <2>7, <2>8, Zenon
  <2>10. w # 0
    BY <1>4, <2>2, <2>8, SMTT(30)
  <2>11. r[j][w] < r[i][v]
    BY <1>1, <2>9, <2>10, Zenon DEF FrozenAfter
  <2> QED
    BY <1>2, <1>3, <2>1, <2>2, <2>5, <2>6, <2>7, <2>8, <2>11, Zenon
<1>7. ~(t[a] < t[a]) /\ t[a] = t[b] /\ a \in Nat /\ b \in Nat
  BY <1>2, <1>3, <1>5
<1>8. a < b => t[b] < t[a]
  BY <1>3, <1>5, <1>6, Falling, Zenon
<1>9. b < a => t[a] < t[b]
  BY <1>3, <1>5, <1>6, Falling, Zenon
<1> QED
  BY <1>7, <1>8, <1>9

LEMMA OrderInit == Init => OrderInv
<1> SUFFICES ASSUME Init PROVE OrderInv
  BY Zenon
<1>1. PICK r : r = [i \in Interface |-> [v \in Nat |-> 0]]
  BY Zenon
<1>2. \A i \in Interface : latest_version(i) = 0
  BY Zenon DEF Init, latest_version
<1>3. FrozenAfter(r, 0)
  BY <1>1, <1>2 DEF FrozenAfter
<1> QED
  BY <1>3, Zenon DEF OrderInv

\* Nothing frozen is circular, although the imports of the versions in development
\* may become so, and although developers may turn an import around after freezing.
THEOREM RecordNeverCircular == Spec => []RecordNotCircular
BY InitResolve, NextResolve, OrderInit, OrderNext, OrderNotCircular, PTL DEF Spec

\* process_imports, called for a frozen version, never meets a version that it is
\* still dealing with: what generate_source and the compatibility checks ask of a
\* frozen version has no endless recursion, in any graph of imports.
THEOREM FrozenNeverLoops == Spec => []FrozenNeverRepeats
<1>1. Init => NewestInv /\ MetFrozenInv
  BY Zenon DEF Init, NewestInv, ChainInv, MetFrozenInv
<1>2. ResolveInv /\ NewestInv /\ OrderInv /\ MetFrozenInv => FrozenNeverRepeats
  BY OrderNoRepeat, SMTT(30) DEF NewestInv
<1> QED
  BY <1>1, <1>2, InitResolve, NextResolve, VersionInit, VersionNext, NewestNext,
     OrderInit, OrderNext, MetFrozenNext, PTL DEF Spec
-----------------------------------------------------------------------------
(* Imports that follow an order *)

\* No version ever imports an interface of its own level or a higher one.
LevelInv(level) ==
    \A i \in Interface :
        /\ \A j \in DOMAIN imports[i] : level[j] < level[i]
        /\ \A v \in 1 .. latest_version(i) : \A j \in DOMAIN versions_with_info[i][v] : level[j] < level[i]

Levels(level) ==
    /\ level \in [Interface -> Nat]
    /\ \A i \in Interface : \A l \in ImportLists[i] : \A j \in DOMAIN l : level[j] < level[i]

LEMMA LevelFinish ==
    ASSUME NEW level, Levels(level), ResolveInv, LevelInv(level), append_version(target), op # "none",
           UNCHANGED imports
    PROVE  LevelInv(level)'
<1>1. /\ target \in Interface /\ TypeInv
      /\ versions_with_info \in [Interface -> Seq(Lists)] /\ imports \in [Interface -> Lists]
  BY Zenon DEF ResolveInv, TypeInv
<1>2. PICK w, l, k : /\ w = versions_with_info[target] /\ k = Len(w)
                     /\ l = [j \in DOMAIN imports[target] |-> latest_version(j)]
  BY Zenon
<1>3. w \in Seq(Lists) /\ k \in Nat /\ k = latest_version(target)
  BY <1>1, <1>2, LatestType, Zenon DEF latest_version
<1>4. /\ versions_with_info'[target] = Append(w, l)
      /\ \A i \in Interface \ {target} : versions_with_info'[i] = versions_with_info[i]
  BY <1>1, <1>2, Zenon DEF append_version
<1>5. DOMAIN l = DOMAIN imports[target]
  BY <1>2, Zenon
<1>6. l \in Lists
  <2>1. DOMAIN l \subseteq Interface /\ \A j \in DOMAIN l : l[j] = latest_version(j)
    BY <1>1, <1>2, ListType, Zenon
  <2>2. \A j \in DOMAIN l : l[j] \in Version
    BY <1>1, <2>1, LatestType, Zenon DEF Version
  <2>3. l \in [DOMAIN l -> Version]
    BY <1>2, <2>2, SMTT(30)
  <2> QED
    BY <2>1, <2>3, Zenon DEF Lists
<1>7. /\ Len(Append(w, l)) = k + 1 /\ Append(w, l)[k + 1] = l
      /\ \A v \in 1 .. k : Append(w, l)[v] = w[v]
  <2>1. /\ Len(Append(w, l)) = Len(w) + 1 /\ Append(w, l)[Len(w) + 1] = l
        /\ \A v \in 1 .. Len(w) : Append(w, l)[v] = w[v]
    BY <1>3, <1>6, Appended, SMTT(30)
  <2>2. k = Len(w)
    BY <1>2, Zenon
  <2> QED
    BY <2>1, <2>2, Zenon
<1>8. ASSUME NEW i \in Interface, NEW v \in 1 .. latest_version(i)',
             NEW j \in DOMAIN versions_with_info'[i][v]
      PROVE  level[j] < level[i]
  <2>1. CASE i # target
    BY <1>4, <2>1, Zenon DEF LevelInv, latest_version
  <2>2. CASE i = target
    <3>1. v \in 1 .. k + 1 /\ versions_with_info'[i][v] = Append(w, l)[v]
      BY <1>4, <1>7, <2>2, SMTT(30) DEF latest_version
    <3>2. CASE v = k + 1
      <4>1. j \in DOMAIN imports[i]
        BY <1>5, <1>7, <2>2, <3>1, <3>2, Zenon
      <4> QED
        BY <4>1, SMTT(30) DEF LevelInv
    <3>3. CASE v \in 1 .. k
      <4>1. j \in DOMAIN versions_with_info[i][v] /\ v \in 1 .. latest_version(i)
        BY <1>2, <1>3, <1>7, <2>2, <3>1, <3>3, SMTT(30)
      <4> QED
        BY <4>1, Zenon DEF LevelInv
    <3> QED
      BY <1>3, <3>1, <3>2, <3>3, SMTT(30)
  <2> QED
    BY <2>1, <2>2, Zenon
<1> QED
  BY <1>8, Zenon DEF LevelInv

LEMMA LevelNext ==
    ASSUME NEW level, Levels(level), ResolveInv, LevelInv(level), [Next]_vars
    PROVE  LevelInv(level)'
<1>1. CASE UNCHANGED <<imports, versions_with_info>>
  BY <1>1, SMTT(30) DEF LevelInv, latest_version
<1>2. ASSUME NEW i \in Interface, NEW l \in ImportLists[i], EditImports(i, l)
      PROVE  LevelInv(level)'
  <2>1. /\ imports' = [imports EXCEPT ![i] = l] /\ UNCHANGED versions_with_info
        /\ imports \in [Interface -> Lists]
    BY <1>2, SMTT(30) DEF EditImports, ResolveInv, TypeInv
  <2>2. \A k \in Interface : \A j \in DOMAIN imports'[k] : level[j] < level[k]
    BY <2>1, Zenon DEF LevelInv, Levels
  <2> QED
    BY <2>1, <2>2, Zenon DEF LevelInv, latest_version
<1>3. CASE Finish
  <2>1. /\ op # "none" /\ UNCHANGED imports
        /\ append_version(target) \/ UNCHANGED versions_with_info
    BY <1>3, Zenon DEF Finish, End
  <2> QED
    BY <1>1, <2>1, LevelFinish, Zenon
<1> QED
  BY <1>1, <1>2, <1>3, ZenonT(40)
  DEF Next, Invoke, handle_update_api, handle_freeze_api, handle_source_gen, Running, NoCurrent,
      Resolve, Begin, Return, Descend, UnknownVersion, NoDirectory, CommandFails, End, vars, disk

LEMMA LevelNoRepeat ==
    ASSUME NEW level, Levels(level), ResolveInv, ChainInv, LevelInv(level)
    PROVE  NeverRepeats
<1> SUFFICES ASSUME NEW a \in 1 .. Len(stack), NEW b \in 1 .. Len(stack),
                    stack[a].interface = stack[b].interface, a # b
             PROVE  FALSE
  BY Zenon DEF NeverRepeats
<1>1. PICK t : t = [k \in 1 .. Len(stack) |-> level[stack[k].interface]]
  BY Zenon
<1>2. PICK n \in Nat : n = Len(stack)
  BY DEF ResolveInv, TypeInv
<1>3. stack # <<>> /\ \A k \in 1 .. n : stack[k].interface \in Interface
  <2>1. stack \in Seq(FrameSet)
    BY Zenon DEF ResolveInv, TypeInv
  <2>2. stack # <<>> /\ \A k \in 1 .. n : stack[k] \in FrameSet
    BY <1>2, <2>1
  <2>3. \A f \in FrameSet : f.interface \in Interface
    BY DEF FrameSet
  <2> QED
    BY <2>2, <2>3, Zenon
<1>4. \A k \in 1 .. n : t[k] \in Nat
  BY <1>1, <1>2, <1>3, Zenon DEF Levels
<1>5. ASSUME NEW k \in 2 .. n PROVE t[k] < t[k - 1]
  <2>1. PICK m \in 1 .. n : m = k - 1
    BY <1>2
  <2>2. k \in 1 .. n /\ k > 1
    BY <1>2
  <2>3. PICK i \in Interface : i = stack[m].interface
    BY <1>3, Zenon
  <2>4. PICK v : v = imports_version(i, stack[m].version, m)
    BY Zenon
  <2>5. stack[k].interface \in DOMAIN get_imports(i, v)
    BY <1>2, <1>3, <2>1, <2>2, <2>3, <2>4, Zenon DEF ChainInv
  <2>6. level[stack[k].interface] < level[i]
    BY <2>5, SMTT(30) DEF get_imports, LevelInv
  <2> QED
    BY <1>1, <1>2, <2>1, <2>2, <2>3, <2>6, SMTT(30)
<1>6. ~(t[a] < t[a]) /\ t[a] = t[b] /\ a \in Nat /\ b \in Nat
  BY <1>1, <1>2, <1>4
<1>7. a < b => t[b] < t[a]
  BY <1>2, <1>4, <1>5, Falling, Zenon
<1>8. b < a => t[a] < t[b]
  BY <1>2, <1>4, <1>5, Falling, Zenon
<1> QED
  BY <1>6, <1>7, <1>8

\* When interfaces only ever import interfaces of a lower level, process_imports
\* never meets an interface that it is still dealing with, in any operation.  That
\* imports are not circular at any one moment is not enough: freeze_api mixes what
\* is on record with what is imported now.
THEOREM OrderedNeverLoops ==
    ASSUME NEW CONSTANT level, Levels(level)
    PROVE  Spec => []NeverRepeats
<1>1. Init => LevelInv(level) /\ NewestInv
  <2> SUFFICES ASSUME Init PROVE LevelInv(level) /\ NewestInv
    BY SMTT(30)
  <2>1. NewestInv
    BY Zenon DEF Init, NewestInv, ChainInv
  <2>2. \A i \in Interface : latest_version(i) = 0 /\ imports[i] \in ImportLists[i]
    BY Zenon DEF Init, latest_version
  <2> QED
    BY <2>1, <2>2 DEF LevelInv, Levels
<1>2. ResolveInv /\ LevelInv(level) /\ [Next]_vars => LevelInv(level)'
  BY LevelNext, Zenon
<1>3. ResolveInv /\ NewestInv /\ LevelInv(level) => NeverRepeats
  BY LevelNoRepeat, Zenon DEF NewestInv
<1> QED
  BY <1>1, <1>2, <1>3, InitResolve, NextResolve, VersionInit, VersionNext, NewestNext, PTL DEF Spec

=============================================================================
