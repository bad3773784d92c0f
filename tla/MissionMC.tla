------------------------------ MODULE MissionMC ------------------------------
(***************************************************************************)
(* Values for the constants of Mission that a .cfg cannot write.           *)
(***************************************************************************)
EXTENDS Mission, TLC

CONSTANTS k1, k2, k3

MCSlots   == {k1, k2, k3}
MCBatches == {{k1, k2}, {k3}}
MCConfirmedBatches == {{k3}}

InvocationSymmetry == Permutations(Invocations)
=============================================================================
