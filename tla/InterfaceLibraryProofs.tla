----------------------- MODULE InterfaceLibraryProofs -----------------------
(***************************************************************************)
(* What host/CMakeLists.inc guarantees for every list of libraries and     *)
(* every request, with failures between any two steps.  The invariant is   *)
(* about the active calls of AddInterfaceLibrary: a dependency that a call *)
(* has dealt with is a target by now, or is what the next call adds; only  *)
(* the innermost call generates, and what it has generated is right.       *)
(***************************************************************************)
EXTENDS InterfaceLibrary, SequenceTheorems, TLAPS

FrameSet ==
    [target : Target, deps : SUBSET Target, stage : {"dependencies", "generate"},
     files : SUBSET Type]

TypeInv ==
    /\ aidl \in [Target -> Tree] /\ gen \in [Target -> Tree]
    /\ DOMAIN added \subseteq Target /\ stack \in Seq(FrameSet) /\ requested \subseteq Target
    /\ outcome # "running" => stack = <<>>

CallInv ==
    \A i \in 1 .. Len(stack) :
        /\ \A d \in Deps[stack[i].target] :
             d \in DOMAIN added \cup stack[i].deps \/ (i < Len(stack) /\ d = stack[i + 1].target)
        /\ stack[i].stage = "generate" => i = Len(stack) /\ stack[i].deps = {}

SourceInv ==
    \A i \in 1 .. Len(stack) : stack[i].stage = "generate" =>
        /\ stack[i].files \subseteq Present(aidl[stack[i].target])
        /\ IsCurrent(stack[i].target) =>
             \A ty \in Present(aidl[stack[i].target]) \ stack[i].files :
                 gen[stack[i].target][ty] = aidl[stack[i].target][ty]
        /\ ~IsCurrent(stack[i].target) => stack[i].files \cap Present(gen[stack[i].target]) = {}

LibraryInv == TypeInv /\ CallInv /\ SourceInv /\ DependenciesAdded /\ CurrentFresh

-----------------------------------------------------------------------------
(* The stack of calls *)

LEMMA SetLast ==
    ASSUME NEW S, NEW s \in Seq(S), s # <<>>, NEW x \in S
    PROVE  LET r == [s EXCEPT ![Len(s)] = x]
           IN  /\ r \in Seq(S) /\ Len(r) = Len(s) /\ r # <<>> /\ r[Len(s)] = x
               /\ \A i \in 1 .. Len(s) - 1 : r[i] = s[i]
<1> DEFINE r == [s EXCEPT ![Len(s)] = x]
<1>1. Len(s) \in Nat \ {0} /\ DOMAIN s = 1 .. Len(s) /\ s \in [1 .. Len(s) -> S]
  BY EmptySeq
<1>2. r \in [1 .. Len(s) -> S]
  BY <1>1
<1>3. r[Len(s)] = x /\ \A i \in 1 .. Len(s) - 1 : r[i] = s[i]
  <2>1. PICK n \in Nat \ {0} : n = Len(s) /\ DOMAIN s = 1 .. n
    BY <1>1
  <2>2. n \in 1 .. n /\ \A i \in 1 .. n - 1 : i \in 1 .. n /\ i # n
    OBVIOUS
  <2> QED
    BY <2>1, <2>2
<1> HIDE DEF r
<1>4. r \in Seq(S) /\ Len(r) = Len(s)
  BY <1>1, <1>2
<1>5. r # <<>>
  BY <1>1, <1>4
<1> QED
  BY <1>3, <1>4, <1>5 DEF r

LEMMA Front ==
    ASSUME NEW S, NEW s \in Seq(S), s # <<>>
    PROVE  LET r == SubSeq(s, 1, Len(s) - 1)
           IN  /\ r \in Seq(S) /\ Len(r) = Len(s) - 1
               /\ \A i \in 1 .. Len(s) - 1 : r[i] = s[i]
<1>1. Len(s) \in Nat \ {0} /\ DOMAIN s = 1 .. Len(s)
  BY EmptySeq
<1> QED
  BY <1>1

\* The innermost call.
LEMMA TopIs ==
    ASSUME TypeInv, stack # <<>>
    PROVE  /\ Len(stack) \in Nat \ {0} /\ Top = stack[Len(stack)] /\ Top \in FrameSet
           /\ outcome = "running"
<1>1. stack \in Seq(FrameSet) /\ Len(stack) \in Nat \ {0}
  BY EmptySeq DEF TypeInv
<1> QED
  BY <1>1 DEF Top, TypeInv

LEMMA FrameType ==
    ASSUME NEW f \in FrameSet
    PROVE  /\ f.target \in Target /\ f.deps \subseteq Target /\ f.files \subseteq Type
           /\ f.stage \in {"dependencies", "generate"}
           /\ \A d : [f EXCEPT !.deps = @ \ {d}] \in FrameSet
           /\ \A d : [f EXCEPT !.files = @ \ {d}] \in FrameSet
           /\ \A F \in SUBSET Type : [f EXCEPT !.stage = "generate", !.files = F] \in FrameSet
BY DEF FrameSet

LEMMA NewFrame ==
    ASSUME NEW d \in Target
    PROVE  Frame(d) \in FrameSet
BY TargetAssumption DEF Frame, FrameSet

-----------------------------------------------------------------------------
(* The steps *)

LEMMA InitLibrary == Init => LibraryInv
<1> SUFFICES ASSUME Init PROVE LibraryInv
  OBVIOUS
<1>1. aidl \in [Target -> Tree]
  BY TargetAssumption DEF Init
<1>2. gen \in [Target -> Tree]
  BY TargetAssumption DEF Init, Tree
<1>3. DOMAIN added = {} /\ requested = {} /\ stack = <<>> /\ stack \in Seq(FrameSet) /\ Len(stack) = 0
  BY DEF Init, NoTargets
<1>4. TypeInv
  BY <1>1, <1>2, <1>3 DEF TypeInv
<1> QED
  BY <1>3, <1>4 DEF LibraryInv, CallInv, SourceInv, DependenciesAdded, CurrentFresh

LEMMA CallStep ==
    ASSUME LibraryInv, NEW d \in Target, AddDependency(d)
    PROVE  LibraryInv'
<1> DEFINE x == [Top EXCEPT !.deps = @ \ {d}]
           rest == SetTop(x)
<1>1. /\ stack # <<>> /\ Top.stage = "dependencies" /\ d \in Top.deps
      /\ stack' = IF d \in DOMAIN added THEN rest ELSE Append(rest, Frame(d))
      /\ UNCHANGED <<aidl, gen, added, requested, request, outcome>>
  BY DEF AddDependency
<1>2. PICK n : n = Len(stack)
  OBVIOUS
<1>3. n \in Nat \ {0} /\ Top = stack[n] /\ Top \in FrameSet /\ stack \in Seq(FrameSet)
      /\ outcome = "running"
  BY <1>1, <1>2, TopIs DEF LibraryInv, TypeInv
<1>4. /\ x \in FrameSet /\ x.target = Top.target /\ x.stage = "dependencies"
      /\ x.deps = Top.deps \ {d}
  BY <1>1, <1>3, FrameType DEF FrameSet
<1>5. /\ rest \in Seq(FrameSet) /\ Len(rest) = n /\ rest[n] = x
      /\ \A i \in 1 .. n - 1 : rest[i] = stack[i]
  <2> HIDE DEF x
  <2>1. rest = [stack EXCEPT ![Len(stack)] = x]
    BY DEF SetTop
  <2> HIDE DEF rest
  <2> QED
    BY <1>1, <1>2, <1>3, <1>4, <2>1, SetLast
<1>6. /\ Frame(d) \in FrameSet /\ Frame(d).target = d /\ Frame(d).deps = Deps[d]
      /\ Frame(d).stage = "dependencies"
  BY NewFrame DEF Frame
<1>7. /\ stack' \in Seq(FrameSet) /\ Len(stack') \in {n, n + 1} /\ stack'[n] = x
      /\ \A i \in 1 .. n - 1 : stack'[i] = stack[i]
      /\ Len(stack') = n => d \in DOMAIN added
      /\ Len(stack') = n + 1 => stack'[n + 1] = Frame(d)
  <2> HIDE DEF rest, x
  <2>1. CASE d \in DOMAIN added
    BY <1>1, <1>3, <1>5, <2>1
  <2>2. CASE d \notin DOMAIN added
    <3>1. stack' = Append(rest, Frame(d))
      BY <1>1, <2>2
    <3> QED
      BY <1>3, <1>5, <1>6, <3>1
  <2> QED
    BY <2>1, <2>2
<1> HIDE DEF x, rest
<1>8. TypeInv'
  BY <1>1, <1>3, <1>7 DEF LibraryInv, TypeInv
<1>9. \A i \in 1 .. Len(stack') : i \in 1 .. n - 1 \/ i = n \/ (i = n + 1 /\ Len(stack') = n + 1)
  BY <1>3, <1>7
<1>10. \A i \in 1 .. n - 1 : i < Len(stack') /\ stack'[i + 1].target = stack[i + 1].target
  <2> SUFFICES ASSUME NEW i \in 1 .. n - 1
               PROVE  i < Len(stack') /\ stack'[i + 1].target = stack[i + 1].target
    OBVIOUS
  <2>1. CASE i + 1 = n
    BY <1>3, <1>4, <1>7, <2>1
  <2>2. CASE i + 1 \in 1 .. n - 1
    BY <1>3, <1>7, <2>2
  <2> QED
    BY <1>3, <2>1, <2>2
<1>11. CallInv'
  <2> SUFFICES ASSUME NEW i \in 1 .. Len(stack')
               PROVE  /\ \A e \in Deps[stack'[i].target] :
                           \/ e \in DOMAIN added \cup stack'[i].deps
                           \/ i < Len(stack') /\ e = stack'[i + 1].target
                      /\ stack'[i].stage = "generate" => i = Len(stack') /\ stack'[i].deps = {}
    BY <1>1 DEF CallInv
  <2>1. CASE i \in 1 .. n - 1
    <3>1. stack'[i] = stack[i] /\ i < Len(stack') /\ stack'[i + 1].target = stack[i + 1].target
      BY <1>7, <1>10, <2>1
    <3>2. i \in 1 .. Len(stack) /\ i < Len(stack) /\ i # Len(stack)
      BY <1>2, <1>3, <2>1
    <3>3. /\ \A e \in Deps[stack[i].target] :
               e \in DOMAIN added \cup stack[i].deps \/ e = stack[i + 1].target
          /\ stack[i].stage # "generate"
      BY <3>2 DEF LibraryInv, CallInv
    <3> QED
      BY <3>1, <3>3
  <2>2. CASE i = n
    <3>1. \A e \in Deps[Top.target] : e \in DOMAIN added \cup Top.deps
      BY <1>2, <1>3 DEF LibraryInv, CallInv
    <3>2. d \in DOMAIN added \/ (n < Len(stack') /\ d = stack'[n + 1].target)
      BY <1>3, <1>6, <1>7
    <3> QED
      BY <1>4, <1>7, <2>2, <3>1, <3>2
  <2>3. CASE i = n + 1 /\ Len(stack') = n + 1
    BY <1>6, <1>7, <2>3
  <2> QED
    BY <1>9, <2>1, <2>2, <2>3
<1>12. \A i \in 1 .. Len(stack') : stack'[i].stage # "generate"
  <2>1. \A i \in 1 .. n - 1 : stack[i].stage # "generate"
    BY <1>2, <1>3 DEF LibraryInv, CallInv
  <2> QED
    BY <1>4, <1>6, <1>7, <1>9, <2>1
<1>13. SourceInv'
  BY <1>12 DEF SourceInv
<1>14. (DependenciesAdded /\ CurrentFresh)'
  BY <1>1 DEF LibraryInv, DependenciesAdded, CurrentFresh
<1> QED
  BY <1>8, <1>11, <1>13, <1>14 DEF LibraryInv

\* add_library is the end of a call whose dependencies are all targets.
LEMMA AddStep ==
    ASSUME LibraryInv, stack # <<>>, Top.deps = {}, AddLibrary,
           IsCurrent(Top.target) => \A ty \in Present(aidl[Top.target]) :
                                       gen[Top.target][ty] = aidl[Top.target][ty],
           UNCHANGED <<aidl, gen, requested, outcome>>
    PROVE  LibraryInv'
<1>1. PICK n : n = Len(stack)
  OBVIOUS
<1>2. PICK t : t = Top.target
  OBVIOUS
<1>3. n \in Nat \ {0} /\ Top = stack[n] /\ Top \in FrameSet /\ stack \in Seq(FrameSet)
      /\ outcome = "running"
  BY <1>1, TopIs DEF LibraryInv, TypeInv
<1>4. t \in Target /\ t = stack[n].target /\ stack[n].deps = {}
  BY <1>2, <1>3, FrameType
<1>5. stack' \in Seq(FrameSet) /\ Len(stack') = n - 1 /\ \A i \in 1 .. n - 1 : stack'[i] = stack[i]
  BY <1>1, <1>3, Front DEF AddLibrary, Pop
<1>6. /\ DOMAIN added' = DOMAIN added \cup {t} /\ added'[t] = gen[t]
      /\ \A u \in DOMAIN added \ {t} : added'[u] = added[u]
  BY <1>2 DEF AddLibrary
<1>7. TypeInv'
  BY <1>3, <1>4, <1>5, <1>6 DEF LibraryInv, TypeInv
<1>8. \A i \in 1 .. n :
        /\ \A d \in Deps[stack[i].target] :
             d \in DOMAIN added \cup stack[i].deps \/ (i < n /\ d = stack[i + 1].target)
        /\ stack[i].stage = "generate" => i = n /\ stack[i].deps = {}
  BY <1>1 DEF LibraryInv, CallInv
<1>9. \A i \in 1 .. n - 1 : i \in 1 .. n /\ i # n /\ (i + 1 = n \/ (i + 1 \in 1 .. n - 1 /\ i < n - 1))
  BY <1>3
<1>10. CallInv'
  <2> SUFFICES ASSUME NEW i \in 1 .. n - 1
               PROVE  /\ \A d \in Deps[stack'[i].target] :
                           \/ d \in DOMAIN added' \cup stack'[i].deps
                           \/ i < Len(stack') /\ d = stack'[i + 1].target
                      /\ stack'[i].stage # "generate"
    BY <1>5 DEF CallInv
  <2>1. CASE i + 1 = n
    BY <1>4, <1>5, <1>6, <1>8, <1>9, <2>1
  <2>2. CASE i + 1 \in 1 .. n - 1 /\ i < n - 1
    BY <1>5, <1>6, <1>8, <1>9, <2>2
  <2> QED
    BY <1>9, <2>1, <2>2
<1>11. SourceInv'
  BY <1>5, <1>8, <1>9 DEF SourceInv
<1>12. DependenciesAdded'
  <2>1. Deps[t] \subseteq DOMAIN added
    BY <1>3, <1>4, <1>8
  <2> QED
    BY <1>6, <2>1 DEF LibraryInv, DependenciesAdded
<1>13. CurrentFresh'
  <2> SUFFICES ASSUME NEW u \in DOMAIN added', IsCurrent(u), NEW ty \in Present(aidl[u])
               PROVE  added'[u][ty] = aidl[u][ty]
    BY DEF CurrentFresh
  <2>1. CASE u = t
    BY <1>2, <1>6, <2>1
  <2>2. CASE u # t
    BY <1>6, <2>2 DEF LibraryInv, CurrentFresh
  <2> QED
    BY <2>1, <2>2
<1> QED
  BY <1>7, <1>10, <1>11, <1>12, <1>13 DEF LibraryInv

\* The innermost call goes on with other files or at another stage.
LEMMA TopStep ==
    ASSUME LibraryInv, stack # <<>>, Top.deps = {},
           NEW F \in SUBSET Type, NEW x \in FrameSet, stack' = SetTop(x),
           x.target = Top.target, x.deps = {}, x.stage = "generate", x.files = F,
           F \subseteq Present(aidl[Top.target]),
           IsCurrent(Top.target) => \A ty \in Present(aidl[Top.target]) \ F :
                                       gen'[Top.target][ty] = aidl[Top.target][ty],
           ~IsCurrent(Top.target) => F \cap Present(gen'[Top.target]) = {},
           gen' \in [Target -> Tree], UNCHANGED <<aidl, added, requested, outcome>>
    PROVE  LibraryInv'
<1>1. PICK n : n = Len(stack)
  OBVIOUS
<1>2. PICK t : t = Top.target
  OBVIOUS
<1>3. n \in Nat \ {0} /\ Top = stack[n] /\ stack \in Seq(FrameSet) /\ outcome = "running"
  BY <1>1, TopIs DEF LibraryInv, TypeInv
<1>4. /\ stack' \in Seq(FrameSet) /\ Len(stack') = n /\ stack'[n] = x
      /\ \A i \in 1 .. n - 1 : stack'[i] = stack[i]
  <2>1. stack' = [stack EXCEPT ![Len(stack)] = x]
    BY DEF SetTop
  <2> QED
    BY <1>1, <1>3, <2>1, SetLast
<1>5. TypeInv'
  BY <1>3, <1>4 DEF LibraryInv, TypeInv
<1>6. \A i \in 1 .. n :
        /\ \A d \in Deps[stack[i].target] :
             d \in DOMAIN added \cup stack[i].deps \/ (i < n /\ d = stack[i + 1].target)
        /\ stack[i].stage = "generate" => i = n /\ stack[i].deps = {}
  BY <1>1 DEF LibraryInv, CallInv
<1>7. \A i \in 1 .. n : i = n \/ (i \in 1 .. n - 1 /\ i < n /\ i # n /\ i + 1 \in 1 .. n)
  BY <1>3
<1>8. \A i \in 1 .. n : stack'[i].target = stack[i].target
  BY <1>3, <1>4, <1>7
<1>9. CallInv'
  <2> SUFFICES ASSUME NEW i \in 1 .. n
               PROVE  /\ \A d \in Deps[stack'[i].target] :
                           d \in DOMAIN added \cup stack'[i].deps \/ (i < n /\ d = stack'[i + 1].target)
                      /\ stack'[i].stage = "generate" => i = n /\ stack'[i].deps = {}
    BY <1>4 DEF CallInv
  <2>1. CASE i = n
    BY <1>3, <1>4, <1>6, <2>1
  <2>2. CASE i \in 1 .. n - 1 /\ i < n /\ i # n /\ i + 1 \in 1 .. n
    BY <1>4, <1>6, <1>8, <2>2
  <2> QED
    BY <1>7, <2>1, <2>2
<1>10. SourceInv'
  <2> SUFFICES ASSUME NEW i \in 1 .. n, stack'[i].stage = "generate"
               PROVE  /\ stack'[i].files \subseteq Present(aidl[stack'[i].target])
                      /\ IsCurrent(stack'[i].target) =>
                           \A ty \in Present(aidl[stack'[i].target]) \ stack'[i].files :
                               gen'[stack'[i].target][ty] = aidl[stack'[i].target][ty]
                      /\ ~IsCurrent(stack'[i].target) =>
                           stack'[i].files \cap Present(gen'[stack'[i].target]) = {}
    BY <1>4 DEF SourceInv, IsCurrent, Present
  <2>1. i = n
    BY <1>4, <1>6, <1>7
  <2> QED
    BY <1>4, <2>1
<1>11. (DependenciesAdded /\ CurrentFresh)'
  BY DEF LibraryInv, DependenciesAdded, CurrentFresh
<1> QED
  BY <1>5, <1>9, <1>10, <1>11 DEF LibraryInv

\* Generation writes one file of the innermost call.
LEMMA WriteEffect ==
    ASSUME LibraryInv, NEW ty \in Type, WriteSource(ty)
    PROVE  /\ Top.target \in Target /\ Top.deps = {} /\ Top.files \subseteq Present(aidl[Top.target])
           /\ gen' \in [Target -> Tree]
           /\ gen'[Top.target][ty] = aidl[Top.target][ty]
           /\ \A u \in Type \ {ty} : gen'[Top.target][u] = gen[Top.target][u]
           /\ \A t \in Target \ {Top.target} : gen'[t] = gen[t]
           /\ IsCurrent(Top.target) => \A u \in Present(aidl[Top.target]) \ Top.files :
                                          gen[Top.target][u] = aidl[Top.target][u]
           /\ ~IsCurrent(Top.target) => Top.files \cap Present(gen[Top.target]) = {}
<1>1. PICK t : t = Top.target
  OBVIOUS
<1>2. /\ stack # <<>> /\ Top.stage = "generate" /\ ty \in Top.files
      /\ gen' = [gen EXCEPT ![t][ty] = aidl[t][ty]]
  BY <1>1 DEF WriteSource
<1>3. Len(stack) \in Nat \ {0} /\ Top = stack[Len(stack)] /\ Top \in FrameSet
  BY <1>2, TopIs DEF LibraryInv
<1>4. t \in Target
  BY <1>1, <1>3, FrameType
<1>5. aidl[t] \in Tree /\ gen[t] \in Tree /\ gen \in [Target -> Tree]
  BY <1>4 DEF LibraryInv, TypeInv
<1>6. PICK g : g = [gen[t] EXCEPT ![ty] = aidl[t][ty]]
  OBVIOUS
<1>7. g \in Tree /\ g[ty] = aidl[t][ty] /\ \A u \in Type \ {ty} : g[u] = gen[t][u]
  BY <1>5, <1>6 DEF Tree
<1>8. gen' = [gen EXCEPT ![t] = g]
  BY <1>2, <1>6
<1>9. gen' \in [Target -> Tree] /\ gen'[t] = g /\ \A u \in Target \ {t} : gen'[u] = gen[u]
  BY <1>4, <1>5, <1>7, <1>8
<1>10. Top.deps = {}
  BY <1>2, <1>3 DEF LibraryInv, CallInv
<1>11. /\ Top.files \subseteq Present(aidl[Top.target])
       /\ IsCurrent(Top.target) => \A u \in Present(aidl[Top.target]) \ Top.files :
                                          gen[Top.target][u] = aidl[Top.target][u]
       /\ ~IsCurrent(Top.target) => Top.files \cap Present(gen[Top.target]) = {}
  BY <1>2, <1>3 DEF LibraryInv, SourceInv
<1> QED
  BY <1>1, <1>4, <1>7, <1>9, <1>10, <1>11

LEMMA WriteStep ==
    ASSUME LibraryInv, NEW ty \in Type, WriteSource(ty)
    PROVE  LibraryInv'
<1>1. PICK t : t = Top.target
  OBVIOUS
<1>2. PICK F : F = Top.files \ {ty}
  OBVIOUS
<1>3. PICK x : x = [Top EXCEPT !.files = @ \ {ty}]
  OBVIOUS
<1>4. /\ stack # <<>> /\ Top.stage = "generate" /\ stack' = SetTop(x)
      /\ UNCHANGED <<aidl, added, requested, outcome>>
  BY <1>3 DEF WriteSource
<1>5. Top \in FrameSet
  BY <1>4, TopIs DEF LibraryInv
<1>6. x \in FrameSet /\ x.target = t /\ x.deps = Top.deps /\ x.stage = "generate" /\ x.files = F
  <2>1. x \in FrameSet
    BY <1>3, <1>5, FrameType
  <2> QED
    BY <1>1, <1>2, <1>3, <1>4, <1>5, <2>1 DEF FrameSet
<1>7. F \in SUBSET Type /\ F \subseteq Present(aidl[t]) /\ Top.deps = {} /\ gen' \in [Target -> Tree]
  BY <1>1, <1>2, WriteEffect DEF Present
<1>8. IsCurrent(t) => \A u \in Present(aidl[t]) \ F : gen'[t][u] = aidl[t][u]
  BY <1>1, <1>2, WriteEffect DEF Present
<1>9. ~IsCurrent(t) => F \cap Present(gen'[t]) = {}
  BY <1>1, <1>2, WriteEffect DEF Present
<1> QED
  BY <1>1, <1>4, <1>6, <1>7, <1>8, <1>9, TopStep

LEMMA GenerateStep ==
    ASSUME LibraryInv, GenerateSource
    PROVE  LibraryInv'
<1>1. PICK t : t = Top.target
  OBVIOUS
<1>2. PICK F : F = Present(aidl[t])
  OBVIOUS
<1>3. PICK x : x = [Top EXCEPT !.stage = "generate", !.files = F]
  OBVIOUS
<1>4. /\ stack # <<>> /\ Top.deps = {} /\ stack' = SetTop(x) /\ Regenerate(t)
      /\ UNCHANGED <<aidl, gen, added, requested, outcome>>
  BY <1>1, <1>2, <1>3 DEF GenerateSource
<1>5. Top \in FrameSet /\ F \in SUBSET Type
  BY <1>2, <1>4, TopIs DEF LibraryInv, Present
<1>6. x \in FrameSet /\ x.target = t /\ x.deps = {} /\ x.stage = "generate" /\ x.files = F
  <2>1. x \in FrameSet
    BY <1>3, <1>5, FrameType
  <2> QED
    BY <1>1, <1>3, <1>4, <1>5, <2>1 DEF FrameSet
<1>7. ~IsCurrent(t) => F \cap Present(gen'[t]) = {}
  BY <1>4 DEF Regenerate
<1>8. gen' \in [Target -> Tree]
  BY <1>4 DEF LibraryInv, TypeInv
<1> QED
  BY <1>1, <1>2, <1>4, <1>5, <1>6, <1>7, <1>8, TopStep

\* A run starts or ends without calls.
LEMMA EmptyStep ==
    ASSUME LibraryInv, stack' = <<>>, aidl' \in [Target -> Tree], UNCHANGED gen,
           requested' \subseteq Target,
           added' = NoTargets \/ UNCHANGED <<aidl, added>>
    PROVE  LibraryInv'
<1>1. stack' \in Seq(FrameSet) /\ Len(stack') = 0
  OBVIOUS
<1>2. (CallInv /\ SourceInv)'
  BY <1>1 DEF CallInv, SourceInv
<1>3. CASE added' = NoTargets
  <2>1. DOMAIN added' = {}
    BY <1>3 DEF NoTargets
  <2> QED
    BY <1>1, <1>2, <2>1 DEF LibraryInv, TypeInv, DependenciesAdded, CurrentFresh
<1>4. CASE UNCHANGED <<aidl, added>>
  BY <1>1, <1>2, <1>4 DEF LibraryInv, TypeInv, DependenciesAdded, CurrentFresh
<1> QED
  BY <1>3, <1>4

LEMMA RequestStep ==
    ASSUME LibraryInv, NEW t \in Target, AddRequested(t)
    PROVE  LibraryInv'
<1>1. /\ outcome = "running" /\ stack = <<>> /\ requested' = requested \ {t}
      /\ stack' = IF t \in DOMAIN added THEN <<>> ELSE <<Frame(t)>>
      /\ UNCHANGED <<aidl, gen, added, request, outcome>>
  BY DEF AddRequested
<1>2. CASE stack' = <<>>
  BY <1>1, <1>2, EmptyStep DEF LibraryInv, TypeInv
<1>3. CASE stack' = <<Frame(t)>>
  <2>1. /\ Frame(t) \in FrameSet /\ Frame(t).target = t /\ Frame(t).deps = Deps[t]
        /\ Frame(t).stage = "dependencies"
    BY NewFrame DEF Frame
  <2>2. stack' \in Seq(FrameSet) /\ Len(stack') = 1 /\ stack'[1] = Frame(t)
    BY <1>3, <2>1
  <2>3. \A i \in 1 .. Len(stack') : i = 1
    BY <2>2
  <2>4. TypeInv'
    BY <1>1, <2>2 DEF LibraryInv, TypeInv
  <2>5. (CallInv /\ SourceInv)'
    BY <2>1, <2>2, <2>3 DEF CallInv, SourceInv
  <2>6. (DependenciesAdded /\ CurrentFresh)'
    BY <1>1 DEF LibraryInv, DependenciesAdded, CurrentFresh
  <2> QED
    BY <2>4, <2>5, <2>6 DEF LibraryInv
<1> QED
  BY <1>1, <1>2, <1>3

LEMMA NextLibrary == LibraryInv /\ [Next]_vars => LibraryInv'
<1> SUFFICES ASSUME LibraryInv, [Next]_vars PROVE LibraryInv'
  OBVIOUS
<1>1. ASSUME NEW r \in Selection, Configure(r) PROVE LibraryInv'
  <2>1. stack = <<>> /\ aidl \in [Target -> Tree]
    BY <1>1 DEF Configure, LibraryInv, TypeInv
  <2>2. requested' \subseteq Target
    BY <1>1 DEF Configure, Selected
  <2> QED
    BY <1>1, <2>1, <2>2, EmptyStep DEF Configure
<1>2. CASE Reuse
  <2>1. /\ stack # <<>> /\ Top.deps = {} /\ AddLibrary /\ ~IsCurrent(Top.target)
        /\ UNCHANGED <<aidl, gen, requested, outcome>>
    BY <1>2 DEF Reuse, Regenerate
  <2> QED
    BY <2>1, AddStep
<1>3. CASE Generated
  <2>1. /\ stack # <<>> /\ Top.stage = "generate" /\ Top.files = {} /\ AddLibrary
        /\ UNCHANGED <<aidl, gen, requested, outcome>>
    BY <1>3 DEF Generated
  <2>2. Len(stack) \in Nat \ {0} /\ Top = stack[Len(stack)]
    BY <2>1, TopIs DEF LibraryInv
  <2>3. Top.deps = {}
    BY <2>1, <2>2 DEF LibraryInv, CallInv
  <2>4. IsCurrent(Top.target) => \A ty \in Present(aidl[Top.target]) :
                                    gen[Top.target][ty] = aidl[Top.target][ty]
    BY <2>1, <2>2 DEF LibraryInv, SourceInv
  <2> QED
    BY <2>1, <2>3, <2>4, AddStep
<1>4. CASE GenerateRefused \/ Fails
  BY <1>4, EmptyStep DEF GenerateRefused, Fails, Fatal, LibraryInv, TypeInv
<1>5. CASE Done
  BY <1>5, EmptyStep DEF Done, LibraryInv, TypeInv
<1>6. ASSUME NEW t \in Target, NEW ty \in Type, NEW c \in Content \cup {Absent}, Edit(t, ty, c)
      PROVE  LibraryInv'
  <2>1. stack = <<>> /\ requested \subseteq Target /\ aidl \in [Target -> Tree]
    BY <1>6 DEF Edit, LibraryInv, TypeInv
  <2>2. aidl' = [aidl EXCEPT ![t] = [aidl[t] EXCEPT ![ty] = c]]
    BY <1>6 DEF Edit
  <2>3. [aidl[t] EXCEPT ![ty] = c] \in Tree
    BY <2>1 DEF Tree
  <2>4. aidl' \in [Target -> Tree]
    BY <2>1, <2>2, <2>3
  <2> QED
    BY <1>6, <2>1, <2>4, EmptyStep DEF Edit
<1>7. CASE UNCHANGED vars
  BY <1>7 DEF vars, LibraryInv, TypeInv, CallInv, SourceInv, DependenciesAdded, CurrentFresh
<1> QED
  BY <1>1, <1>2, <1>3, <1>4, <1>5, <1>6, <1>7, RequestStep, CallStep, GenerateStep, WriteStep
     DEF Next, AddInterfaceLibrary

-----------------------------------------------------------------------------
(* The theorems *)

\* For every list of libraries, cyclic ones included, a library becomes a target
\* only after all that it depends on.
THEOREM DependenciesAlwaysAdded == Spec => []DependenciesAdded
<1>1. LibraryInv => DependenciesAdded
  BY DEF LibraryInv
<1> QED
  BY <1>1, InitLibrary, NextLibrary, PTL DEF Spec

\* A library in development is never built from older sources of its types,
\* wherever earlier runs were cut off.
THEOREM CurrentAlwaysFresh == Spec => []CurrentFresh
<1>1. LibraryInv => CurrentFresh
  BY DEF LibraryInv
<1> QED
  BY <1>1, InitLibrary, NextLibrary, PTL DEF Spec

\* No run touches the complete sources of a frozen version.
THEOREM FrozenSourcesAlwaysKept == Spec => FrozenSourcesKept
<1>1. ASSUME LibraryInv, [Next]_vars, NEW t \in Target, ~IsCurrent(t),
             Present(gen[t]) = Present(aidl[t])
      PROVE  gen'[t] = gen[t]
  <2>1. ASSUME NEW ty \in Type, WriteSource(ty) PROVE gen'[t] = gen[t]
    <3>1. ty \in Top.files
      BY <2>1 DEF WriteSource
    <3>2. t # Top.target
      BY <1>1, <2>1, <3>1, WriteEffect
    <3> QED
      BY <1>1, <2>1, <3>2, WriteEffect
  <2>2. CASE UNCHANGED gen
    BY <2>2
  <2> QED
    BY <1>1, <2>1, <2>2
       DEF Next, AddInterfaceLibrary, vars, Configure, AddRequested, AddDependency, Reuse, GenerateSource,
           GenerateRefused, Generated, Done, Fails, Edit
<1>2. LibraryInv /\ [Next]_vars =>
        [\A t \in Target : ~IsCurrent(t) /\ Present(gen[t]) = Present(aidl[t]) => gen'[t] = gen[t]]_vars
  BY <1>1
<1> QED
  BY <1>2, InitLibrary, NextLibrary, PTL DEF Spec, FrozenSourcesKept

-----------------------------------------------------------------------------
(* Dependencies that follow an order *)

\* Every library depends only on libraries of a lower level.
Levels(level) ==
    /\ level \in [Target -> Nat]
    /\ \A t \in Target : \A d \in Deps[t] : level[d] < level[t]

\* Each active call is for a library of a lower level than the calls around it,
\* and has yet to add its library.
FallInv(level) ==
    /\ \A i \in 1 .. Len(stack) :
         stack[i].deps \subseteq Deps[stack[i].target] /\ stack[i].target \notin DOMAIN added
    /\ \A i, j \in 1 .. Len(stack) : i < j => level[stack[j].target] < level[stack[i].target]

LEMMA FallOnce ==
    ASSUME NEW level, Levels(level), TypeInv, FallInv(level)
    PROVE  AddedOnce
<1>1. Len(stack) \in Nat /\ \A i \in 1 .. Len(stack) : level[stack[i].target] \in Nat
  <2>1. Len(stack) \in Nat /\ \A i \in 1 .. Len(stack) : stack[i] \in FrameSet
    BY DEF TypeInv
  <2>2. \A f \in FrameSet : f.target \in Target
    BY DEF FrameSet
  <2> QED
    BY <2>1, <2>2 DEF Levels
<1>2. ASSUME NEW i \in 1 .. Len(stack), NEW j \in 1 .. Len(stack), i # j
      PROVE  stack[i].target # stack[j].target
  <2>1. i < j \/ j < i
    BY <1>1, <1>2
  <2>2. level[stack[j].target] < level[stack[i].target] \/ level[stack[i].target] < level[stack[j].target]
    BY <2>1 DEF FallInv
  <2> QED
    BY <1>1, <2>2
<1> QED
  BY <1>2 DEF AddedOnce, FallInv

\* Without calls there is nothing to say.
LEMMA FallEmpty ==
    ASSUME NEW level, stack' = <<>>
    PROVE  FallInv(level)'
<1>1. \A i : i \notin 1 .. Len(stack')
  OBVIOUS
<1> QED
  BY <1>1 DEF FallInv

LEMMA FallRequest ==
    ASSUME NEW level, NEW t \in Target, AddRequested(t)
    PROVE  FallInv(level)'
<1>1. CASE t \in DOMAIN added
  BY <1>1, FallEmpty DEF AddRequested
<1>2. CASE t \notin DOMAIN added
  <2>1. stack' = <<Frame(t)>> /\ added' = added
    BY <1>2 DEF AddRequested
  <2>2. Frame(t).target = t /\ Frame(t).deps = Deps[t]
    BY DEF Frame
  <2>3. Len(stack') = 1 /\ stack'[1] = Frame(t)
    BY <2>1
  <2>4. \A i \in 1 .. Len(stack') : i = 1
    BY <2>3
  <2>5. \A i, j \in 1 .. Len(stack') : ~(i < j)
    BY <2>4
  <2> QED
    BY <1>2, <2>1, <2>2, <2>3, <2>4, <2>5 DEF FallInv
<1> QED
  BY <1>1, <1>2

LEMMA FallCall ==
    ASSUME NEW level, Levels(level), TypeInv, FallInv(level), NEW d \in Target, AddDependency(d)
    PROVE  FallInv(level)'
<1>1. PICK n : n = Len(stack)
  OBVIOUS
<1>2. PICK x : x = [Top EXCEPT !.deps = @ \ {d}]
  OBVIOUS
<1>3. PICK rest : rest = [stack EXCEPT ![Len(stack)] = x]
  OBVIOUS
<1>4. /\ stack # <<>> /\ d \in Top.deps /\ added' = added
      /\ stack' = IF d \in DOMAIN added THEN rest ELSE Append(rest, Frame(d))
  BY <1>2, <1>3 DEF AddDependency, SetTop
<1>5. n \in Nat \ {0} /\ Top = stack[n] /\ Top \in FrameSet /\ stack \in Seq(FrameSet)
  BY <1>1, <1>4, TopIs DEF TypeInv
<1>6. x \in FrameSet /\ x.target = Top.target /\ x.deps = Top.deps \ {d}
  BY <1>2, <1>5, FrameType DEF FrameSet
<1>7. /\ rest \in Seq(FrameSet) /\ Len(rest) = n /\ rest[n] = x
      /\ \A i \in 1 .. n - 1 : rest[i] = stack[i]
  BY <1>1, <1>3, <1>4, <1>5, <1>6, SetLast
<1>8. /\ \A i \in 1 .. n : stack[i].deps \subseteq Deps[stack[i].target] /\ stack[i].target \notin DOMAIN added
      /\ \A i, j \in 1 .. n : i < j => level[stack[j].target] < level[stack[i].target]
  BY <1>1 DEF FallInv
<1>9. \A i \in 1 .. n : i = n \/ i \in 1 .. n - 1
  BY <1>5
<1>10. \A i \in 1 .. n : rest[i].target = stack[i].target /\ rest[i].deps \subseteq Deps[rest[i].target]
  BY <1>5, <1>6, <1>7, <1>8, <1>9
<1>11. CASE d \in DOMAIN added
  <2>1. stack' = rest
    BY <1>4, <1>11
  <2> QED
    BY <1>4, <1>7, <1>8, <1>10, <2>1 DEF FallInv
<1>12. CASE d \notin DOMAIN added
  <2>1. Frame(d) \in FrameSet /\ Frame(d).target = d /\ Frame(d).deps = Deps[d]
    BY NewFrame DEF Frame
  <2>2. stack' = Append(rest, Frame(d))
    BY <1>4, <1>12
  <2>3. /\ Len(stack') = n + 1 /\ stack'[n + 1] = Frame(d)
        /\ \A i \in 1 .. n : stack'[i] = rest[i]
    BY <1>5, <1>7, <2>1, <2>2
  <2>4. \A i \in 1 .. n + 1 : i = n + 1 \/ i \in 1 .. n
    BY <1>5
  <2>5. \A i \in 1 .. n : level[d] < level[stack[i].target]
    <3> SUFFICES ASSUME NEW i \in 1 .. n PROVE level[d] < level[stack[i].target]
      OBVIOUS
    <3>1. n \in 1 .. n /\ (i = n \/ i < n)
      BY <1>5
    <3>2. Top.target \in Target /\ d \in Deps[Top.target]
      BY <1>4, <1>5, <1>8, <3>1, FrameType
    <3>3. stack[i].target \in Target
      <4>1. stack[i] \in FrameSet
        BY <1>1, <1>5
      <4> QED
        BY <4>1 DEF FrameSet
    <3>4. level[d] \in Nat /\ level[Top.target] \in Nat /\ level[stack[i].target] \in Nat
      BY <3>2, <3>3 DEF Levels
    <3>5. level[d] < level[Top.target]
      BY <3>2 DEF Levels
    <3>6. level[Top.target] = level[stack[i].target] \/ level[Top.target] < level[stack[i].target]
      BY <1>5, <1>8, <3>1
    <3> QED
      BY <3>4, <3>5, <3>6
  <2>6. \A i \in 1 .. n + 1 : stack'[i].deps \subseteq Deps[stack'[i].target] /\ stack'[i].target \notin DOMAIN added'
    BY <1>4, <1>8, <1>10, <1>12, <2>1, <2>3, <2>4
  <2>7. ASSUME NEW i \in 1 .. n + 1, NEW j \in 1 .. n + 1, i < j
        PROVE  level[stack'[j].target] < level[stack'[i].target]
    <3>1. i \in 1 .. n
      BY <1>5, <2>7
    <3>2. stack'[i].target = stack[i].target
      BY <1>10, <2>3, <3>1
    <3>3. CASE j = n + 1
      BY <2>1, <2>3, <2>5, <3>1, <3>2, <3>3
    <3>4. CASE j \in 1 .. n
      BY <1>8, <1>10, <2>3, <2>7, <3>1, <3>2, <3>4
    <3> QED
      BY <2>4, <3>3, <3>4
  <2> QED
    BY <2>3, <2>6, <2>7 DEF FallInv
<1> QED
  BY <1>11, <1>12

\* The innermost call goes on with the same library.
LEMMA FallTop ==
    ASSUME NEW level, TypeInv, FallInv(level), stack # <<>>, NEW x \in FrameSet,
           x.target = Top.target, x.deps = Top.deps, stack' = SetTop(x), UNCHANGED added
    PROVE  FallInv(level)'
<1>1. PICK n : n = Len(stack)
  OBVIOUS
<1>2. n \in Nat \ {0} /\ Top = stack[n] /\ stack \in Seq(FrameSet)
  BY <1>1, TopIs DEF TypeInv
<1>3. Len(stack') = n /\ stack'[n] = x /\ \A i \in 1 .. n - 1 : stack'[i] = stack[i]
  <2>1. stack' = [stack EXCEPT ![Len(stack)] = x]
    BY DEF SetTop
  <2> QED
    BY <1>1, <1>2, <2>1, SetLast
<1>4. \A i \in 1 .. n : i = n \/ i \in 1 .. n - 1
  BY <1>2
<1>5. \A i \in 1 .. n : stack'[i].target = stack[i].target /\ stack'[i].deps = stack[i].deps
  BY <1>2, <1>3, <1>4
<1>6. /\ \A i \in 1 .. n : stack[i].deps \subseteq Deps[stack[i].target] /\ stack[i].target \notin DOMAIN added
      /\ \A i, j \in 1 .. n : i < j => level[stack[j].target] < level[stack[i].target]
  BY <1>1 DEF FallInv
<1> QED
  BY <1>3, <1>5, <1>6 DEF FallInv

\* The innermost call returns; the library it has added is of a lower level than
\* those of the calls that are left.
LEMMA FallAdd ==
    ASSUME NEW level, Levels(level), TypeInv, FallInv(level), stack # <<>>, AddLibrary
    PROVE  FallInv(level)'
<1>1. PICK n : n = Len(stack)
  OBVIOUS
<1>2. n \in Nat \ {0} /\ Top = stack[n] /\ stack \in Seq(FrameSet)
  BY <1>1, TopIs DEF TypeInv
<1>3. Len(stack') = n - 1 /\ \A i \in 1 .. n - 1 : stack'[i] = stack[i]
  BY <1>1, <1>2, Front DEF AddLibrary, Pop
<1>4. DOMAIN added' = DOMAIN added \cup {Top.target}
  BY DEF AddLibrary
<1>5. \A i \in 1 .. n - 1 : i \in 1 .. n /\ i # n
  BY <1>2
<1>6. AddedOnce
  BY FallOnce
<1>7. \A i \in 1 .. n - 1 : stack[i].target \notin DOMAIN added'
  BY <1>1, <1>2, <1>4, <1>5, <1>6 DEF AddedOnce
<1> QED
  BY <1>1, <1>3, <1>5, <1>7 DEF FallInv

LEMMA FallNext ==
    ASSUME NEW level, Levels(level), TypeInv, FallInv(level), [Next]_vars
    PROVE  FallInv(level)'
<1>1. CASE Done \/ GenerateRefused \/ Fails
  BY <1>1, FallEmpty DEF Done, GenerateRefused, Fails, Fatal
<1>2. CASE \/ \E r \in Selection : Configure(r)
           \/ \E t \in Target, ty \in Type, c \in Content \cup {Absent} : Edit(t, ty, c)
  BY <1>2, FallEmpty DEF Configure, Edit, TypeInv
<1>3. CASE Reuse \/ Generated
  BY <1>3, FallAdd DEF Reuse, Generated
<1>4. CASE GenerateSource
  <2>1. PICK x : x = [Top EXCEPT !.stage = "generate", !.files = Present(aidl[Top.target])]
    OBVIOUS
  <2>2. stack # <<>> /\ stack' = SetTop(x) /\ UNCHANGED added
    BY <1>4, <2>1 DEF GenerateSource
  <2>3. Top \in FrameSet
    BY <2>2, TopIs
  <2>4. x \in FrameSet
    BY <2>1, <2>3, FrameType DEF Present
  <2>5. x.target = Top.target /\ x.deps = Top.deps
    BY <2>1, <2>3 DEF FrameSet
  <2> QED
    BY <2>2, <2>4, <2>5, FallTop
<1>5. ASSUME NEW ty \in Type, WriteSource(ty)
      PROVE  FallInv(level)'
  <2>1. PICK x : x = [Top EXCEPT !.files = @ \ {ty}]
    OBVIOUS
  <2>2. stack # <<>> /\ stack' = SetTop(x) /\ UNCHANGED added
    BY <1>5, <2>1 DEF WriteSource
  <2>3. Top \in FrameSet
    BY <2>2, TopIs
  <2>4. x \in FrameSet
    BY <2>1, <2>3, FrameType
  <2>5. x.target = Top.target /\ x.deps = Top.deps
    BY <2>1, <2>3 DEF FrameSet
  <2> QED
    BY <2>2, <2>4, <2>5, FallTop
<1>6. CASE UNCHANGED vars
  BY <1>6 DEF vars, FallInv
<1> QED
  BY <1>1, <1>2, <1>3, <1>4, <1>5, <1>6, FallRequest, FallCall DEF Next, AddInterfaceLibrary

\* When the dependencies of the libraries are not circular, AddInterfaceLibrary is
\* never called for a library that it is still dealing with, and so the recursion
\* cannot go round, and no library is added twice, which CMake would refuse.
THEOREM AlwaysAddedOnce ==
    ASSUME NEW CONSTANT level, Levels(level)
    PROVE  Spec => []AddedOnce
<1>1. Init => FallInv(level)
  BY DEF Init, FallInv
<1>2. LibraryInv /\ FallInv(level) /\ [Next]_vars => FallInv(level)'
  BY FallNext DEF LibraryInv
<1>3. LibraryInv /\ FallInv(level) => AddedOnce
  BY FallOnce DEF LibraryInv
<1> QED
  BY <1>1, <1>2, <1>3, InitLibrary, NextLibrary, PTL DEF Spec

=============================================================================
