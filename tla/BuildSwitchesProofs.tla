------------------------ MODULE BuildSwitchesProofs ------------------------
(***************************************************************************)
(* The switches of a build, for all the values that may be given to them:  *)
(* a result that is not an error is what CMakeLists.txt decides for the    *)
(* cache as it is, and the script leads to what cmake decides on its own.  *)
(***************************************************************************)
EXTENDS BuildSwitches, TLAPS

\* The last accepted run was decided from what the cache holds now.
DecidedInv == result # Rejected => result = Configured(cache, ToolchainBits(flags))

LEMMA BitsAre == \A f : ToolchainBits(f) \in {32, 64}
BY DEF ToolchainBits

\* CMakeLists.txt accepts only switches that agree with each other.
LEMMA AcceptedAgrees ==
    ASSUME NEW s, NEW bits \in {32, 64}, Configured(s, bits) # Rejected
    PROVE  LET r == Configured(s, bits)
           IN  /\ s.TARGET_BITNESS \in {Unset, r.bitness}
               /\ legacy_bitness(s) \in {Unset, r.bitness}
               /\ s.BINDER_PROTOCOL \in {Unset, r.protocol}
               /\ legacy_says(s) \in {Unset, r.protocol}
               /\ r.protocol = 7 => bits = 32
<1> DEFINE lb == legacy_bitness(s)
           ls == legacy_says(s)
           bitness == FirstSet(s.TARGET_BITNESS, lb, bits)
           protocol == FirstSet(s.BINDER_PROTOCOL, ls, 8)
<1>1. /\ ~Disagree(s.TARGET_BITNESS, lb) /\ ~Disagree(s.BINDER_PROTOCOL, ls)
      /\ ~(protocol = 7 /\ bits = 64)
      /\ Configured(s, bits) = [bitness |-> bitness, protocol |-> protocol]
  BY DEF Configured
<1>2. Configured(s, bits).bitness = bitness /\ Configured(s, bits).protocol = protocol
  BY <1>1
<1> HIDE DEF lb, ls
<1>3. s.TARGET_BITNESS \in {Unset, bitness} /\ lb \in {Unset, bitness}
  BY <1>1 DEF Disagree, FirstSet
<1>4. s.BINDER_PROTOCOL \in {Unset, protocol} /\ ls \in {Unset, protocol}
  BY <1>1 DEF Disagree, FirstSet
<1> QED
  BY <1>1, <1>2, <1>3, <1>4 DEF lb, ls

LEMMA InitDecided == Init => DecidedInv
BY DEF Init, DecidedInv

LEMMA NextDecided == DecidedInv /\ [Next]_vars => DecidedInv'
<1> SUFFICES ASSUME DecidedInv, [Next]_vars PROVE DecidedInv'
  OBVIOUS
<1>1. ASSUME NEW D, NEW U, NEW f, Cmake(D, U, f) PROVE DecidedInv'
  BY <1>1 DEF Cmake, DecidedInv
<1>2. ASSUME NEW s \in Switches, NEW f \in Flags, Configure(s, f) PROVE DecidedInv'
  BY <1>1, <1>2 DEF Configure
<1>3. ASSUME NEW s \in Switches, NEW f \in Flags, Script(s, f) PROVE DecidedInv'
  <2>1. PICK size \in {ToolchainBits(f), Unset} :
           \/ result' = Rejected
           \/ Cmake(ScriptSwitches(s, size), Cleared, f)
    BY <1>3 DEF Script
  <2>2. CASE result' = Rejected
    BY <2>2 DEF DecidedInv
  <2> QED
    BY <1>1, <2>1, <2>2
<1>4. CASE Clean
  BY <1>4 DEF Clean, DecidedInv
<1>5. CASE UNCHANGED vars
  BY <1>5 DEF vars, DecidedInv
<1> QED
  BY <1>2, <1>3, <1>4, <1>5 DEF Next

LEMMA DecidedAgrees == DecidedInv => SwitchesAgree /\ Protocol7Is32Bit
<1> SUFFICES ASSUME DecidedInv, result # Rejected
             PROVE  SwitchesAgree /\ Protocol7Is32Bit
  BY DEF SwitchesAgree, Protocol7Is32Bit
<1>1. result = Configured(cache, ToolchainBits(flags)) /\ ToolchainBits(flags) \in {32, 64}
  BY BitsAre DEF DecidedInv
<1> QED
  BY <1>1, AcceptedAgrees DEF SwitchesAgree, Protocol7Is32Bit

\* No accepted build contradicts a switch, given or left in the cache.
THEOREM SwitchesAlwaysAgree == Spec => []SwitchesAgree
BY InitDecided, NextDecided, DecidedAgrees, PTL DEF Spec

\* Protocol 7 is never built from 64-bit objects.
THEOREM Protocol7Always32Bit == Spec => []Protocol7Is32Bit
BY InitDecided, NextDecided, DecidedAgrees, PTL DEF Spec

-----------------------------------------------------------------------------
(* The script and cmake *)

Result(bitness, protocol) == [bitness |-> bitness, protocol |-> protocol]

\* CMakeLists.txt on the two switches and what the deprecated ones say.
Refuses(tb, lb, bp, ls, bits) ==
    \/ Disagree(tb, lb) \/ FirstSet(tb, lb, bits) # bits
    \/ Disagree(bp, ls) \/ FirstSet(bp, ls, 8) \notin {7, 8}
    \/ FirstSet(bp, ls, 8) = 7 /\ bits = 64

Decided(tb, lb, bp, ls, bits) ==
    IF Refuses(tb, lb, bp, ls, bits) THEN Rejected
    ELSE Result(FirstSet(tb, lb, bits), FirstSet(bp, ls, 8))

LEMMA ConfiguredIs ==
    ASSUME NEW s, NEW bits
    PROVE  Configured(s, bits) =
             IF BothLegacy(s) THEN Rejected
             ELSE Decided(s.TARGET_BITNESS, legacy_bitness(s), s.BINDER_PROTOCOL, legacy_says(s), bits)
<1> DEFINE refuses == Refuses(s.TARGET_BITNESS, legacy_bitness(s), s.BINDER_PROTOCOL,
                              legacy_says(s), bits)
<1>1. CASE BothLegacy(s)
  BY <1>1 DEF Configured
<1>2. CASE ~BothLegacy(s) /\ refuses
  BY <1>2, Zenon DEF Configured, Decided, Refuses
<1>3. CASE ~BothLegacy(s) /\ ~refuses
  BY <1>3, Zenon DEF Configured, Decided, Refuses, Result
<1> QED
  BY <1>1, <1>2, <1>3

\* What the switches say, and what the probe found.
Given(tb, lb, bp, ls, bits, size) ==
    /\ tb \in Nat \cup {Unset} /\ lb \in {32, 64, Unset}
    /\ bp \in Nat \cup {Unset} /\ ls \in {7, 8, Unset}
    /\ bits \in {32, 64} /\ size \in {bits, Unset}

ScriptRefuses(tb, lb, bp, ls, size) ==
    \/ Disagree(tb, lb) \/ tb \notin {32, 64, Unset}
    \/ Disagree(bp, ls) \/ bp \notin {7, 8, Unset}
    \/ FirstSet(tb, lb, size) = 64 /\ size = 32

\* What the script gets past, cmake decides as it would have without the script.
LEMMA PassedOn ==
    ASSUME NEW tb, NEW lb, NEW bp, NEW ls, NEW bits, NEW size,
           Given(tb, lb, bp, ls, bits, size), ~Disagree(tb, lb), ~Disagree(bp, ls)
    PROVE  Decided(FirstSet(tb, lb, size), Unset, FirstSet(bp, ls, Unset), Unset, bits)
             = Decided(tb, lb, bp, ls, bits)
<1>1. FirstSet(FirstSet(tb, lb, size), Unset, bits) = FirstSet(tb, lb, bits)
  BY SwitchesAssumption DEF FirstSet, Given
<1>2. FirstSet(FirstSet(bp, ls, Unset), Unset, 8) = FirstSet(bp, ls, 8)
  BY DEF FirstSet
<1>3. ~Disagree(FirstSet(tb, lb, size), Unset) /\ ~Disagree(FirstSet(bp, ls, Unset), Unset)
  BY DEF Disagree
<1>4. Refuses(FirstSet(tb, lb, size), Unset, FirstSet(bp, ls, Unset), Unset, bits)
        <=> Refuses(tb, lb, bp, ls, bits)
  BY <1>1, <1>2, <1>3, Zenon DEF Refuses
<1> QED
  BY <1>1, <1>2, <1>4, Zenon DEF Decided

\* What the script refuses, cmake refuses too.
LEMMA RefusedToo ==
    ASSUME NEW tb, NEW lb, NEW bp, NEW ls, NEW bits, NEW size,
           Given(tb, lb, bp, ls, bits, size), ScriptRefuses(tb, lb, bp, ls, size)
    PROVE  Decided(tb, lb, bp, ls, bits) = Rejected
<1>1. CASE Disagree(tb, lb) \/ Disagree(bp, ls)
  BY <1>1, Zenon DEF Decided, Refuses
<1>2. CASE tb \notin {32, 64, Unset}
  <2>1. FirstSet(tb, lb, bits) # bits
    BY <1>2 DEF FirstSet, Given
  <2> QED
    BY <2>1, Zenon DEF Decided, Refuses
<1>3. CASE bp \notin {7, 8, Unset}
  <2>1. FirstSet(bp, ls, 8) \notin {7, 8}
    BY <1>3 DEF FirstSet, Given
  <2> QED
    BY <2>1, Zenon DEF Decided, Refuses
<1>4. CASE FirstSet(tb, lb, size) = 64 /\ size = 32
  <2>1. FirstSet(tb, lb, bits) # bits
    BY <1>4, SwitchesAssumption DEF Given
  <2> QED
    BY <2>1, Zenon DEF Decided, Refuses
<1> QED
  BY <1>1, <1>2, <1>3, <1>4, Zenon DEF ScriptRefuses

LEMMA ScriptDecides ==
    ASSUME NEW s \in Switches, NEW f \in Flags, Script(s, f)
    PROVE  result' = Configured(s, ToolchainBits(f))
<1> DEFINE bits == ToolchainBits(f)
<1>1. PICK size \in {bits, Unset} :
         \/ ScriptRejects(s, size) /\ result' = Rejected
         \/ ~ScriptRejects(s, size) /\ Cmake(ScriptSwitches(s, size), Cleared, f)
  BY DEF Script
<1>2. Given(s.TARGET_BITNESS, legacy_bitness(s), s.BINDER_PROTOCOL, legacy_says(s), bits, size)
  <2>1. bits \in {32, 64}
    BY BitsAre
  <2> HIDE DEF bits
  <2> QED
    BY <2>1, SwitchesAssumption DEF Given, Switches, legacy_bitness, legacy_says
<1> HIDE DEF bits
<1>4. CASE ScriptRejects(s, size) /\ result' = Rejected
  <2>1. CASE BothLegacy(s)
    BY <1>4, <2>1, ConfiguredIs
  <2>2. CASE ~BothLegacy(s)
    <3>1. ScriptRefuses(s.TARGET_BITNESS, legacy_bitness(s), s.BINDER_PROTOCOL, legacy_says(s), size)
      BY <1>4, <2>2, Zenon DEF ScriptRejects, ScriptRefuses
    <3> QED
      BY <1>2, <1>4, <2>2, <3>1, RefusedToo, ConfiguredIs DEF bits
  <2> QED
    BY <2>1, <2>2
<1>5. CASE ~ScriptRejects(s, size) /\ Cmake(ScriptSwitches(s, size), Cleared, f)
  <2> DEFINE t == ScriptSwitches(s, size)
  <2>1. /\ ~BothLegacy(s) /\ ~Disagree(s.TARGET_BITNESS, legacy_bitness(s))
        /\ ~Disagree(s.BINDER_PROTOCOL, legacy_says(s))
    BY <1>5 DEF ScriptRejects
  <2>2. /\ t.TARGET_BITNESS = FirstSet(s.TARGET_BITNESS, legacy_bitness(s), size)
        /\ t.BINDER_PROTOCOL = FirstSet(s.BINDER_PROTOCOL, legacy_says(s), Unset)
        /\ DOMAIN t = Cleared
        /\ t.TARGET_LIB32_VERSION = Unset /\ t.TARGET_LIB64_VERSION = Unset
        /\ t.BINDER_IPC_32BIT = Unset
    BY DEF ScriptSwitches, Cleared
  <2>3. result' = Configured(cache', bits)
        /\ cache' = [n \in DOMAIN t |-> IF t[n] # Unset THEN t[n]
                       ELSE IF n \in Cleared \/ cache = NoDir THEN Unset ELSE cache[n]]
    BY <1>5 DEF Cmake, bits
  <2> HIDE DEF t
  <2>4. \A n \in Cleared : cache'[n] = t[n]
    BY <2>2, <2>3
  <2>5. /\ cache'.TARGET_BITNESS = t.TARGET_BITNESS /\ cache'.BINDER_PROTOCOL = t.BINDER_PROTOCOL
        /\ cache'.TARGET_LIB32_VERSION = Unset /\ cache'.TARGET_LIB64_VERSION = Unset
        /\ cache'.BINDER_IPC_32BIT = Unset
    BY <2>2, <2>4 DEF Cleared
  <2>6. legacy_bitness(cache') = Unset /\ legacy_says(cache') = Unset /\ ~BothLegacy(cache')
    BY <2>5, SwitchesAssumption DEF legacy_bitness, legacy_says, BothLegacy
  <2>7. Configured(cache', bits) =
          Decided(FirstSet(s.TARGET_BITNESS, legacy_bitness(s), size), Unset,
                  FirstSet(s.BINDER_PROTOCOL, legacy_says(s), Unset), Unset, bits)
    <3>1. PICK c : c = cache'
      OBVIOUS
    <3> QED
      BY <2>2, <2>5, <2>6, <3>1, ConfiguredIs
  <2>8. Configured(s, bits) = Decided(s.TARGET_BITNESS, legacy_bitness(s),
                                      s.BINDER_PROTOCOL, legacy_says(s), bits)
    BY <2>1, ConfiguredIs
  <2>9. Decided(FirstSet(s.TARGET_BITNESS, legacy_bitness(s), size), Unset,
                FirstSet(s.BINDER_PROTOCOL, legacy_says(s), Unset), Unset, bits)
          = Decided(s.TARGET_BITNESS, legacy_bitness(s), s.BINDER_PROTOCOL, legacy_says(s), bits)
    BY <1>2, <2>1, PassedOn
  <2> QED
    BY <2>3, <2>7, <2>8, <2>9 DEF bits
<1> QED
  BY <1>1, <1>4, <1>5

\* Whatever the cache holds, the script leads to what cmake decides for the same
\* switches in a new directory.
THEOREM ScriptAlwaysFreshCmake == Spec => []ScriptIsFreshCmake
<1>1. Init => ScriptIsFreshCmake
  BY DEF Init, ScriptIsFreshCmake
<1>2. ScriptIsFreshCmake /\ [Next]_vars => ScriptIsFreshCmake'
  <2> SUFFICES ASSUME ScriptIsFreshCmake, [Next]_vars PROVE ScriptIsFreshCmake'
    OBVIOUS
  <2>1. ASSUME NEW s \in Switches, NEW f \in Flags, Script(s, f) PROVE ScriptIsFreshCmake'
    BY <2>1, ScriptDecides DEF Script, ScriptIsFreshCmake
  <2>2. ASSUME NEW s \in Switches, NEW f \in Flags, Configure(s, f) PROVE ScriptIsFreshCmake'
    BY <2>2 DEF Configure, ScriptIsFreshCmake
  <2>3. CASE Clean \/ UNCHANGED vars
    BY <2>3 DEF Clean, vars, ScriptIsFreshCmake
  <2> QED
    BY <2>1, <2>2, <2>3 DEF Next
<1> QED
  BY <1>1, <1>2, PTL DEF Spec

=============================================================================
