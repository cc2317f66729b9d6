----------------------------- MODULE JobReplies -----------------------------
(***************************************************************************)
(* AgentJobs with a client of GET /job/:id (get_job_status in              *)
(* crates/agent/src/routes/job.rs).  The handler reads the status, the     *)
(* exit code and the end time of a job one after the other, each under its *)
(* own lock, while run_job and kill_job write them.                        *)
(***************************************************************************)
EXTENDS AgentJobs

VARIABLE reply   \* the status request in flight or last answered

replyVars == <<vars, reply>>

NoReply == [step |-> "none", id |-> NULL, status |-> "running",
            exitCode |-> NULL, finishedAt |-> NULL]

RepliesInit == Init /\ reply = NoReply

ReadStatus(j) ==
  /\ j \in store
  /\ reply.step \in {"none", "answered"}
  /\ reply' = [NoReply EXCEPT !.step = "status", !.id = j, !.status = job[j].status]
  /\ UNCHANGED vars

ReadExitCode ==
  /\ reply.step = "status"
  /\ reply' = [reply EXCEPT !.step = "exitCode", !.exitCode = job[reply.id].exitCode]
  /\ UNCHANGED vars

(* Mutant of ReadFinishedAt: the status is read last. *)
ReadFinishedAt_StatusLast ==
  /\ reply.step = "exitCode"
  /\ reply' = [reply EXCEPT !.step = "answered", !.finishedAt = job[reply.id].finishedAt,
                            !.status = job[reply.id].status]
  /\ UNCHANGED vars

ReadFinishedAt ==
  /\ reply.step = "exitCode"
  /\ reply' = [reply EXCEPT !.step = "answered", !.finishedAt = job[reply.id].finishedAt]
  /\ UNCHANGED vars

RepliesNext ==
  \/ Next /\ UNCHANGED reply
  \/ \E j \in Jobs : ReadStatus(j)
  \/ ReadExitCode
  \/ ReadFinishedAt

RepliesSpec == RepliesInit /\ [][RepliesNext]_replyVars

RepliesFairSpec == RepliesSpec /\ Fairness

-----------------------------------------------------------------------------

(* A status reply is never torn: one that says finished carries exit code 0 *)
(* and the end time; one that says failed carries another exit code, and the *)
(* end time, unless the process could not be spawned: such a job has no exit *)
(* code, and shows failed before it has an end time.  get_job_status reads   *)
(* the status first, run_job writes it after the other two, and a kill in    *)
(* between rewrites the status only.                                         *)
ReplyNotTorn ==
  reply.step = "answered" =>
    /\ reply.status = "finished" => reply.exitCode = 0 /\ reply.finishedAt # NULL
    /\ reply.status = "failed" =>
         \/ reply.exitCode \notin {0, NULL} /\ reply.finishedAt # NULL
         \/ reply.exitCode = NULL /\ proc[reply.id].state = "none"

=============================================================================
