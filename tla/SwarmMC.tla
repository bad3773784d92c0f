------------------------------- MODULE SwarmMC -------------------------------
(***************************************************************************)
(* Values for the constants of Swarm that a .cfg cannot write.             *)
(***************************************************************************)
EXTENDS Swarm

MCPatches == <<"p1", "p2", "p3">>
MCTasks == {"recon", "taint", "exploit", "verify", "report"} \cup PatchTasks
MCRoles == (MCTasks \ PatchTasks) \cup {"patch"}
=============================================================================
