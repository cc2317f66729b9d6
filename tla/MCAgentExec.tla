---------------------------- MODULE MCAgentExec ----------------------------
(***************************************************************************)
(* An instance of AgentExec for TLC: the agent starts with one permit and     *)
(* every address allowed; a reload asks for two and shuts the client out.    *)
(***************************************************************************)
EXTENDS AgentExec, TLC

OnePermit == [execs |-> 1, jobs |-> 1, open |-> TRUE]
TwoPermits == [execs |-> 2, jobs |-> 1, open |-> FALSE]

StartConfigs == {OnePermit}
TwoConfigs == {OnePermit, TwoPermits}

=============================================================================
