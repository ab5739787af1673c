--------------------------- MODULE BuildSwitches ---------------------------
(***************************************************************************)
(* The target bitness and the binder wire protocol of a build: how         *)
(* CMakeLists.txt resolves the two switches and their three deprecated     *)
(* spellings, what build-linux-binder-aidl.sh passes to it, and what the   *)
(* cache of a build directory that is used again adds.                     *)
(*                                                                         *)
(* Switches are a record; Unset is a switch that is not given.  A build    *)
(* directory is used with the compiler flags it was first configured with: *)
(* CMake measures the pointer size only then.                              *)
(***************************************************************************)
EXTENDS Integers

CONSTANTS
    Unset,
    Rejected,    \* configuring ended with an error
    NoDir,       \* there is no build directory
    Bitness,     \* the values given to TARGET_BITNESS
    Protocol,    \* the values given to BINDER_PROTOCOL
    Flags        \* compiler flags that decide the bitness, or Unset

Boolean == {"ON", "OFF", Unset}

Switches ==
    [TARGET_BITNESS : Bitness \cup {Unset}, BINDER_PROTOCOL : Protocol \cup {Unset},
     TARGET_LIB32_VERSION : Boolean, TARGET_LIB64_VERSION : Boolean,
     BINDER_IPC_32BIT : Boolean]

ASSUME SwitchesAssumption ==
    /\ Bitness \subseteq Nat /\ Protocol \subseteq Nat /\ Unset \notin Nat \cup {"ON", "OFF"}
    /\ Flags \subseteq {"-m32", Unset}

VARIABLES
    cache,    \* the switches in CMakeCache.txt, or NoDir
    flags,    \* CMAKE_C_FLAGS in it
    result,   \* how the last run ended
    fresh     \* how cmake would have ended a run of the script in a new directory

vars == <<cache, flags, result, fresh>>

\* A multilib compiler on a 64-bit host.
ToolchainBits(f) == IF f = "-m32" THEN 32 ELSE 64

-----------------------------------------------------------------------------
(* CMakeLists.txt *)

BothLegacy(s) == s.TARGET_LIB32_VERSION = "ON" /\ s.TARGET_LIB64_VERSION = "ON"

legacy_bitness(s) ==
    IF s.TARGET_LIB64_VERSION = "ON" \/ s.TARGET_LIB32_VERSION = "OFF" THEN 64
    ELSE IF s.TARGET_LIB32_VERSION = "ON" THEN 32 ELSE Unset

legacy_says(s) ==
    IF s.BINDER_IPC_32BIT = "ON" THEN 7 ELSE IF s.BINDER_IPC_32BIT = "OFF" THEN 8 ELSE Unset

\* Variant: the new name wins.
Disagree_NewWins(new, legacy) == FALSE

Disagree(new, legacy) == new # Unset /\ legacy # Unset /\ new # legacy

FirstSet(new, legacy, default) ==
    IF new # Unset THEN new ELSE IF legacy # Unset THEN legacy ELSE default

\* Variant: without the check against the toolchain.
Configured_Unguarded(s, bits) ==
    LET bitness  == FirstSet(s.TARGET_BITNESS, legacy_bitness(s), bits)
        protocol == FirstSet(s.BINDER_PROTOCOL, legacy_says(s), 8)
    IN  IF \/ BothLegacy(s)
           \/ Disagree(s.TARGET_BITNESS, legacy_bitness(s)) \/ bitness # bits
           \/ Disagree(s.BINDER_PROTOCOL, legacy_says(s)) \/ protocol \notin {7, 8}
        THEN Rejected
        ELSE [bitness |-> bitness, protocol |-> protocol]

\* What a configure run with these switches decides, for a toolchain of the
\* given bitness.
Configured(s, bits) ==
    LET bitness  == FirstSet(s.TARGET_BITNESS, legacy_bitness(s), bits)
        protocol == FirstSet(s.BINDER_PROTOCOL, legacy_says(s), 8)
    IN  IF \/ BothLegacy(s)
           \/ Disagree(s.TARGET_BITNESS, legacy_bitness(s)) \/ bitness # bits
           \/ Disagree(s.BINDER_PROTOCOL, legacy_says(s)) \/ protocol \notin {7, 8}
           \/ protocol = 7 /\ bits = 64
        THEN Rejected
        ELSE [bitness |-> bitness, protocol |-> protocol]

\* cmake: -D writes a cache entry, -U removes one, and what is neither given nor
\* removed stays; the cache is saved also when configuring fails.
Cmake(D, U, f) ==
    /\ cache' = [n \in DOMAIN D |->
                    IF D[n] # Unset THEN D[n]
                    ELSE IF n \in U \/ cache = NoDir THEN Unset ELSE cache[n]]
    /\ flags' = f
    /\ result' = Configured(cache', ToolchainBits(f))

UsableFlags(f) == cache = NoDir \/ f = flags

\* A developer, or a recipe, runs cmake directly.
Configure(s, f) ==
    /\ UsableFlags(f)
    /\ Cmake(s, {}, f)
    /\ fresh' = Unset

-----------------------------------------------------------------------------
(* build-linux-binder-aidl.sh *)

\* The checks of the script itself, before and after the probe.
ScriptRejects(s, size) ==
    \/ BothLegacy(s)
    \/ Disagree(s.TARGET_BITNESS, legacy_bitness(s))
    \/ s.TARGET_BITNESS \notin {32, 64, Unset}
    \/ Disagree(s.BINDER_PROTOCOL, legacy_says(s))
    \/ s.BINDER_PROTOCOL \notin {7, 8, Unset}
    \/ /\ FirstSet(s.TARGET_BITNESS, legacy_bitness(s), size) = 64 /\ size = 32
       /\ s.BINDER_PROTOCOL = Unset /\ legacy_says(s) = Unset

\* What it goes on with; size is what the probe found, or Unset.
ScriptSwitches(s, size) ==
    [TARGET_BITNESS |-> FirstSet(s.TARGET_BITNESS, legacy_bitness(s), size),
     BINDER_PROTOCOL |-> FirstSet(s.BINDER_PROTOCOL, legacy_says(s), Unset),
     TARGET_LIB32_VERSION |-> Unset, TARGET_LIB64_VERSION |-> Unset,
     BINDER_IPC_32BIT |-> Unset]

\* Variant: leaves the deprecated spellings in the cache.
Cleared_NotLegacy == {"TARGET_BITNESS", "BINDER_PROTOCOL"}

Cleared ==
    {"TARGET_BITNESS", "BINDER_PROTOCOL",
     "TARGET_LIB32_VERSION", "TARGET_LIB64_VERSION", "BINDER_IPC_32BIT"}

\* The script rejects, or runs cmake; the probe may fail.
Script(s, f) ==
    /\ UsableFlags(f)
    /\ \E size \in {ToolchainBits(f), Unset} :
         \/ /\ ScriptRejects(s, size)
            /\ result' = Rejected /\ UNCHANGED <<cache, flags>>
         \/ /\ ~ScriptRejects(s, size)
            /\ Cmake(ScriptSwitches(s, size), Cleared, f)
    /\ fresh' = Configured(s, ToolchainBits(f))

\* "clean"; "force" is this and then the script.
Clean ==
    /\ cache # NoDir
    /\ cache' = NoDir /\ flags' = Unset
    /\ result' = Rejected /\ fresh' = Unset

-----------------------------------------------------------------------------

Init ==
    /\ cache = NoDir /\ flags = Unset /\ result = Rejected /\ fresh = Unset

Next ==
    \/ \E s \in Switches, f \in Flags : Configure(s, f) \/ Script(s, f)
    \/ Clean

Spec == Init /\ [][Next]_vars

-----------------------------------------------------------------------------
(* Properties *)

\* The result of a run agrees with every switch that is given, and with every
\* one left in the cache by an earlier run: nobody believes two things.
SwitchesAgree ==
    result # Rejected =>
        /\ cache.TARGET_BITNESS \in {Unset, result.bitness}
        /\ legacy_bitness(cache) \in {Unset, result.bitness}
        /\ cache.BINDER_PROTOCOL \in {Unset, result.protocol}
        /\ legacy_says(cache) \in {Unset, result.protocol}

\* Whatever was configured in the build directory before, the script accepts
\* exactly what cmake accepts in a fresh one, with the same result: "a value
\* cached from an earlier run [...] cannot silently stick", and neither is the
\* script laxer or stricter than CMakeLists.txt.
ScriptIsFreshCmake ==
    fresh # Unset => result = fresh

\* Protocol 7 is built only from 32-bit objects.
Protocol7Is32Bit ==
    (result # Rejected /\ result.protocol = 7) => ToolchainBits(flags) = 32

============================================================================
