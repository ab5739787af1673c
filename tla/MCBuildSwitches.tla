-------------------------- MODULE MCBuildSwitches --------------------------
(* 48 and 9 stand for every value that is neither 32 nor 64, 7 nor 8. *)
EXTENDS BuildSwitches

MCBitness == {32, 64, 48}

MCProtocol == {7, 8, 9}

=============================================================================
