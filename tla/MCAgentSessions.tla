-------------------------- MODULE MCAgentSessions --------------------------
(***************************************************************************)
(* Instances of AgentSessions for TLC: every session is in the same shard, *)
(* the case in which requests for one session disturb another.             *)
(***************************************************************************)
EXTENDS AgentSessions

OneShard == [s \in Sessions |-> CHOOSE shard \in Shards : TRUE]

=============================================================================
