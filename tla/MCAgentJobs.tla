---------------------------- MODULE MCAgentJobs ----------------------------
(***************************************************************************)
(* Instances of AgentJobs for TLC.  Jobs and process ids are               *)
(* interchangeable, which the safety runs use as symmetry.                 *)
(***************************************************************************)
EXTENDS AgentJobs, TLC

Symmetry == Permutations(Jobs) \cup Permutations(Pids)

=============================================================================
