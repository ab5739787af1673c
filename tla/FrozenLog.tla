----------------------------- MODULE FrozenLog -----------------------------
(***************************************************************************)
(* What the versioned interface promises its clients: a log of API         *)
(* versions to which a version is only ever added at the end, where it     *)
(* extends the version before it and is not the same API again.            *)
(***************************************************************************)
EXTENDS ApiDirs, Sequences, Naturals

VARIABLE log

Init == log = <<>>

Freeze(d) ==
    /\ log # <<>> => /\ Compatible(log[Len(log)], d)
                     /\ ~Equal(log[Len(log)], d)
    /\ log' = Append(log, d)

Next == \E d \in Dir : Freeze(d)

Spec == Init /\ [][Next]_log

=============================================================================
