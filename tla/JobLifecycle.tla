---------------------------- MODULE JobLifecycle ----------------------------
(***************************************************************************)
(* What a client of the agent may rely on about background jobs: the       *)
(* statuses GET /job/:id can show, one after the other, and when a job may *)
(* stop being listed.  AgentJobs is shown to implement it.                 *)
(*                                                                         *)
(* The outcome of a job is recorded once.  It replaces a Killed status,    *)
(* and a kill replaces a recorded outcome: both are what the code does.    *)
(***************************************************************************)
EXTENDS FiniteSets

CONSTANT Jobs

VARIABLES
  phase,      \* the status each job shows, or "absent" before it starts
  listed,     \* the jobs GET /jobs lists
  concluded   \* the jobs whose outcome has been recorded

abstractVars == <<phase, listed, concluded>>

Outcomes == {"finished", "failed"}

LifecycleInit ==
  /\ phase = [j \in Jobs |-> "absent"]
  /\ listed = {}
  /\ concluded = {}

Start(j) ==
  /\ phase[j] = "absent"
  /\ phase' = [phase EXCEPT ![j] = "running"]
  /\ listed' = listed \cup {j}
  /\ UNCHANGED concluded

RecordOutcome(j) ==
  /\ phase[j] \in {"running", "killed"}
  /\ j \notin concluded
  /\ \E o \in Outcomes : phase' = [phase EXCEPT ![j] = o]
  /\ concluded' = concluded \cup {j}
  /\ UNCHANGED listed

Kill(j) ==
  /\ j \in listed
  /\ phase' = [phase EXCEPT ![j] = "killed"]
  /\ UNCHANGED <<listed, concluded>>

Forget(j) ==
  /\ j \in listed
  /\ phase[j] # "running"
  /\ listed' = listed \ {j}
  /\ UNCHANGED <<phase, concluded>>

LifecycleNext ==
  \E j \in Jobs : Start(j) \/ RecordOutcome(j) \/ Kill(j) \/ Forget(j)

LifecycleSpec == LifecycleInit /\ [][LifecycleNext]_abstractVars

=============================================================================
