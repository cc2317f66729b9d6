---------------------------- MODULE AgentConfig ----------------------------
(***************************************************************************)
(* The part of the agent's configuration that can change while it runs      *)
(* (agent/src/config.rs, the SIGHUP task of agent/src/main.rs).  An operator *)
(* edits agent.json and sends SIGHUP; the task reads the file and replaces   *)
(* the configuration that the handlers read.                                *)
(***************************************************************************)
EXTENDS Naturals

CONSTANTS
  Configs,    (* configurations an operator may write *)
  AtStart,    (* those the agent may be started with *)
  CliJobs,    (* the value of --max-jobs, or 0 if it is not given *)
  Unreadable  (* what a reload finds in a file it cannot parse *)

ConfigValues == [execs : Nat, jobs : Nat, open : BOOLEAN]

ASSUME ConfigsAssumption ==
  /\ AtStart \subseteq Configs /\ Configs \subseteq ConfigValues
  /\ CliJobs \in Nat
  /\ Unreadable \notin Configs

VARIABLES
  file,       (* agent.json *)
  hot,        (* Config::hot *)
  pending,    (* a SIGHUP that the task has not taken yet; several count as one *)
  loaded      (* what a reload has read and not yet put into force *)

configVars == <<file, hot, pending, loaded>>

ConfigTypeOK ==
  /\ file \in Configs \union {Unreadable}
  /\ hot \in ConfigValues
  /\ pending \in BOOLEAN
  /\ loaded \in Configs \union {Unreadable}

(* Config::resolve: what the command line gives wins over the file. *)
Resolve(conf) == IF CliJobs = 0 THEN conf ELSE [conf EXCEPT !.jobs = CliJobs]

(* The file the agent starts with, in a form that a reload can parse, or without *)
(* allowed_ips, which has a default in FileConfig but none in HotConfig.          *)
ConfigInit ==
  \E conf \in AtStart :
    /\ hot = Resolve(conf)
    /\ file \in {conf, Unreadable}
    /\ pending = FALSE /\ loaded = Unreadable

(* The operator's editor empties the file before it writes, or leaves a mistake. *)
Truncate ==
  /\ file # Unreadable
  /\ file' = Unreadable
  /\ UNCHANGED <<hot, pending, loaded>>

(* The file is complete. *)
Write ==
  /\ file = Unreadable
  /\ file' \in Configs
  /\ UNCHANGED <<hot, pending, loaded>>

(* The operator sends SIGHUP. *)
Hangup ==
  /\ ~pending
  /\ pending' = TRUE
  /\ UNCHANGED <<file, hot, loaded>>

(* The task takes the signal, and Config::reload reads and parses the file; if  *)
(* it cannot, nothing changes.                                                   *)
ReadFile ==
  /\ pending /\ loaded = Unreadable
  /\ pending' = FALSE /\ loaded' = file
  /\ UNCHANGED <<file, hot>>

(* Mutant of Store: a signal that came during the reload is lost. *)
X_Store ==
  /\ loaded # Unreadable
  /\ hot' = loaded /\ loaded' = Unreadable
  /\ pending' = FALSE
  /\ UNCHANGED file

(* Config::reload replaces the whole configuration by the values of the file.  *)
Store ==
  /\ loaded # Unreadable
  /\ hot' = loaded /\ loaded' = Unreadable
  /\ UNCHANGED <<file, pending>>

ConfigNext == Truncate \/ Write \/ Hangup \/ ReadFile \/ Store

=============================================================================
