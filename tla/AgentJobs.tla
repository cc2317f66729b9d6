------------------------------ MODULE AgentJobs ------------------------------
(***************************************************************************)
(* The background jobs of the agent: the job store, the handlers that      *)
(* start and kill jobs, the task that runs each job, the task that keeps   *)
(* the jobs_running gauge, and the task that evicts old jobs               *)
(* (crates/agent/src/jobs.rs, routes/job.rs, metrics.rs).                  *)
(*                                                                         *)
(* Handlers and tasks run on several worker threads.  The fields of a job  *)
(* have a lock each, so every access to a field is a step of its own; the  *)
(* order of a task's steps is its program counter.  A step with no await   *)
(* and no shared access is merged with its neighbour.                      *)
(*                                                                         *)
(* Output text is left out (StreamBuffer models it): of a stream only      *)
(* whether its reader task is still running matters here.                  *)
(***************************************************************************)
EXTENDS Integers, FiniteSets

CONSTANTS
  Jobs,      \* job ids: each names one POST /job/start request as well
  Pids,      \* process ids of the operating system
  NULL,      \* an unset Option field
  MaxJobs,   \* max_jobs of the configuration
  Workers,   \* worker threads of the runtime
  Keep,      \* how long a finished job is kept (7200 s in the code)
  Unix,      \* TRUE for the cfg(unix) build, FALSE for the other
  MaxKills,  \* bound of the model: kill requests in one behaviour
  MaxTime    \* bound of the model: clock values

ASSUME JobsAssumption ==
  /\ IsFiniteSet(Jobs)
  /\ MaxJobs \in Nat
  /\ Workers \in Nat \ {0}
  /\ Keep \in Nat \ {0}
  /\ Unix \in BOOLEAN
  /\ MaxKills \in Nat
  /\ MaxTime \in Nat
  /\ NULL \notin Pids \cup Int

VARIABLES
  store,      \* JobStore: the ids in the DashMap
  job,        \* the shared fields of each Job
  handler,    \* where the start request of each job is
  run,        \* where run_job is, for each job
  open,       \* the streams of each job whose reader task still runs
  childHeld,  \* the jobs whose child_handle holds the Child
  proc,       \* the operating system's view of each job's process
  watcher,    \* where the task that decrements jobs_running is
  killer,     \* for each job, the kill requests that have set its status
  killing,    \* the jobs whose Child a kill request awaits
  timers,     \* for each job, the pending tasks that send SIGKILL
  metrics,    \* the job counters of Metrics
  kills,      \* number of kill requests so far
  killed,     \* history: the jobs kill_job was called for
  missed,     \* history: the jobs whose last kill reached no process
  signalled,  \* history: the jobs whose process kill_job sent a signal
  now         \* Utc::now(), in units much longer than 5 s

vars == <<store, job, handler, run, open, childHeld, proc, watcher, killer,
          killing, timers, metrics, kills, killed, missed, signalled, now>>

startVars == <<store, handler, metrics, watcher>>
killVars  == <<killer, killing, timers, kills, killed, missed, signalled>>
runVars   == <<run, open, childHeld>>

Streams == {"stdout", "stderr"}

Statuses == {"running", "finished", "failed", "killed"}

(* Where run_job can be:                                                    *)
(*   none     the job does not exist yet      exited   wait returned        *)
(*   queued   before spawn                    noChild  the child was gone   *)
(*   unstamped  spawn failed, status set      stamp    exit_code is set     *)
(*   spawned  before the pid is recorded      conclude finished_at is set   *)
(*   piped    before the child is stored      notify   status is set        *)
(*   reading  waiting for both readers        ended    waiters notified     *)
(*   waiting  in child.wait()                                               *)
RunSteps == {"none", "queued", "unstamped", "spawned", "piped", "reading",
             "waiting", "exited", "noChild", "stamp", "conclude", "notify", "ended"}

Times == 0..MaxTime

(* The exit codes a command returns; NULL stands for death by a signal. *)
Codes == {0, 1}

NoJob == [status |-> "running", pid |-> NULL, exitCode |-> NULL,
          startedAt |-> 0, finishedAt |-> NULL]

NoProc == [state |-> "none", pid |-> NULL, code |-> NULL]

(* Job::is_done *)
IsDone(j) == job[j].status \in {"finished", "failed", "killed"}

-----------------------------------------------------------------------------

Init ==
  /\ store = {}
  /\ job = [j \in Jobs |-> NoJob]
  /\ handler = [j \in Jobs |-> "idle"]
  /\ run = [j \in Jobs |-> "none"]
  /\ open = [j \in Jobs |-> {}]
  /\ childHeld = {}
  /\ proc = [j \in Jobs |-> NoProc]
  /\ watcher = [j \in Jobs |-> "none"]
  /\ killer = [j \in Jobs |-> 0]
  /\ killing = {}
  /\ timers = [j \in Jobs |-> 0]
  /\ metrics = [rejected |-> 0, started |-> 0, running |-> 0]
  /\ kills = 0
  /\ killed = {}
  /\ missed = {}
  /\ signalled = {}
  /\ now = 0

-----------------------------------------------------------------------------
(* post_job_start.  The handler never suspends between the capacity check   *)
(* and its reply, so it keeps its worker thread; the other workers run.     *)

Starting == {j \in Jobs : handler[j] \in {"admitted", "inserted"}}

AtCapacity == Cardinality(store) >= MaxJobs

RejectStart(j) ==
  /\ handler[j] = "idle"
  /\ Cardinality(Starting) < Workers
  /\ AtCapacity
  /\ handler' = [handler EXCEPT ![j] = "rejected"]
  /\ metrics' = [metrics EXCEPT !.rejected = @ + 1]
  /\ UNCHANGED <<store, watcher, job, runVars, proc, killVars, now>>

(* Mutant of AdmitStart: an await after the check gives the worker up. *)
AdmitStart_Yields(j) ==
  /\ handler[j] = "idle"
  /\ ~AtCapacity
  /\ handler' = [handler EXCEPT ![j] = "admitted"]
  /\ UNCHANGED <<store, metrics, watcher, job, runVars, proc, killVars, now>>

AdmitStart(j) ==
  /\ handler[j] = "idle"
  /\ Cardinality(Starting) < Workers
  /\ ~AtCapacity
  /\ handler' = [handler EXCEPT ![j] = "admitted"]
  /\ UNCHANGED <<store, metrics, watcher, job, runVars, proc, killVars, now>>

(* start_job: Job::new, the insertion, and the spawn of run_job. *)
StartJob(j) ==
  /\ handler[j] = "admitted"
  /\ handler' = [handler EXCEPT ![j] = "inserted"]
  /\ job' = [job EXCEPT ![j].startedAt = now]
  /\ store' = store \cup {j}
  /\ run' = [run EXCEPT ![j] = "queued"]
  /\ UNCHANGED <<metrics, watcher, open, childHeld, proc, killVars, now>>

(* The rest of the handler: inc_jobs_started, and the spawn of the task     *)
(* that will wait for done_notify.                                          *)
ReplyStarted(j) ==
  /\ handler[j] = "inserted"
  /\ handler' = [handler EXCEPT ![j] = "replied"]
  /\ metrics' = [metrics EXCEPT !.started = @ + 1, !.running = @ + 1]
  /\ watcher' = [watcher EXCEPT ![j] = "spawned"]
  /\ UNCHANGED <<store, job, runVars, proc, killVars, now>>

(* The watcher task's first poll: only now does it listen to done_notify. *)
WatcherListens(j) ==
  /\ watcher[j] = "spawned"
  /\ watcher' = [watcher EXCEPT ![j] = "listening"]
  /\ UNCHANGED <<store, handler, metrics, job, runVars, proc, killVars, now>>

(* dec_jobs_running *)
WatcherDecrements(j) ==
  /\ watcher[j] = "woken"
  /\ watcher' = [watcher EXCEPT ![j] = "done"]
  /\ metrics' = [metrics EXCEPT !.running = @ - 1]
  /\ UNCHANGED <<store, handler, job, runVars, proc, killVars, now>>

-----------------------------------------------------------------------------
(* run_job *)

(* The process ids in use: a process keeps its id until it is waited for. *)
UsedPids == {proc[k].pid : k \in {k \in Jobs : proc[k].state \in {"alive", "zombie"}}}

(* cmd.spawn() fails; the status is written first. *)
SpawnFails(j) ==
  /\ run[j] = "queued"
  /\ run' = [run EXCEPT ![j] = "unstamped"]
  /\ job' = [job EXCEPT ![j].status = "failed"]
  /\ UNCHANGED <<startVars, open, childHeld, proc, killVars, now>>

StampFailedSpawn(j) ==
  /\ run[j] = "unstamped"
  /\ run' = [run EXCEPT ![j] = "notify"]
  /\ job' = [job EXCEPT ![j].finishedAt = now]
  /\ UNCHANGED <<startVars, open, childHeld, proc, killVars, now>>

SpawnSucceeds(j, p) ==
  /\ run[j] = "queued"
  /\ p \notin UsedPids
  /\ run' = [run EXCEPT ![j] = "spawned"]
  /\ proc' = [proc EXCEPT ![j] = [state |-> "alive", pid |-> p, code |-> NULL]]
  /\ UNCHANGED <<startVars, job, open, childHeld, killVars, now>>

(* Mutant of RecordPid: a fresh Job is stored in place of the old one. *)
RecordPid_Resets(j) ==
  /\ run[j] = "spawned"
  /\ run' = [run EXCEPT ![j] = "piped"]
  /\ job' = [job EXCEPT ![j] = [NoJob EXCEPT !.pid = proc[j].pid, !.startedAt = job[j].startedAt]]
  /\ UNCHANGED <<startVars, open, childHeld, proc, killVars, now>>

RecordPid(j) ==
  /\ run[j] = "spawned"
  /\ run' = [run EXCEPT ![j] = "piped"]
  /\ job' = [job EXCEPT ![j].pid = proc[j].pid]
  /\ UNCHANGED <<startVars, open, childHeld, proc, killVars, now>>

(* The reader tasks are spawned and the Child is stored. *)
StoreChild(j) ==
  /\ run[j] = "piped"
  /\ run' = [run EXCEPT ![j] = "reading"]
  /\ open' = [open EXCEPT ![j] = Streams]
  /\ childHeld' = childHeld \cup {j}
  /\ UNCHANGED <<startVars, job, proc, killVars, now>>

(* A reader task ends: the last holder of the pipe closed it, or a line was *)
(* not UTF-8.  Either may happen while the process lives, and a descendant  *)
(* that inherited the pipe may keep it open when the process is dead.       *)
StreamEnds(j, s) ==
  /\ s \in open[j]
  /\ open' = [open EXCEPT ![j] = @ \ {s}]
  /\ UNCHANGED <<startVars, job, run, childHeld, proc, killVars, now>>

(* Mutant of TakeChild: only the reader of stdout is awaited. *)
TakeChild_OneReader(j) ==
  /\ run[j] = "reading"
  /\ "stdout" \notin open[j]
  /\ run' = [run EXCEPT ![j] = IF j \in childHeld THEN "waiting" ELSE "noChild"]
  /\ childHeld' = childHeld \ {j}
  /\ UNCHANGED <<startVars, job, open, proc, killVars, now>>

(* Both readers have ended: take the Child, if it is still there. *)
TakeChild(j) ==
  /\ run[j] = "reading"
  /\ open[j] = {}
  /\ run' = [run EXCEPT ![j] = IF j \in childHeld THEN "waiting" ELSE "noChild"]
  /\ childHeld' = childHeld \ {j}
  /\ UNCHANGED <<startVars, job, open, proc, killVars, now>>

(* Mutant of WaitChild: the task gives up on a job that was killed. *)
WaitChild_NotIfKilled(j) ==
  /\ run[j] = "waiting"
  /\ proc[j].state = "zombie"
  /\ job[j].status # "killed"
  /\ run' = [run EXCEPT ![j] = "exited"]
  /\ proc' = [proc EXCEPT ![j].state = "reaped"]
  /\ UNCHANGED <<startVars, job, open, childHeld, killVars, now>>

(* child.wait() returns; the process id is free again. *)
WaitChild(j) ==
  /\ run[j] = "waiting"
  /\ proc[j].state = "zombie"
  /\ run' = [run EXCEPT ![j] = "exited"]
  /\ proc' = [proc EXCEPT ![j].state = "reaped"]
  /\ UNCHANGED <<startVars, job, open, childHeld, killVars, now>>

(* exit_status.and_then(|s| s.code()).unwrap_or(-1) *)
ExitCodeOf(j) ==
  IF run[j] = "exited" /\ proc[j].code # NULL THEN proc[j].code ELSE -1

WriteExitCode(j) ==
  /\ run[j] \in {"exited", "noChild"}
  /\ run' = [run EXCEPT ![j] = "stamp"]
  /\ job' = [job EXCEPT ![j].exitCode = ExitCodeOf(j)]
  /\ UNCHANGED <<startVars, open, childHeld, proc, killVars, now>>

StampFinished(j) ==
  /\ run[j] = "stamp"
  /\ run' = [run EXCEPT ![j] = "conclude"]
  /\ job' = [job EXCEPT ![j].finishedAt = now]
  /\ UNCHANGED <<startVars, open, childHeld, proc, killVars, now>>

(* final_status, written whatever the status was. *)
Conclude(j) ==
  /\ run[j] = "conclude"
  /\ run' = [run EXCEPT ![j] = "notify"]
  /\ job' = [job EXCEPT ![j].status = IF job[j].exitCode = 0 THEN "finished" ELSE "failed"]
  /\ UNCHANGED <<startVars, open, childHeld, proc, killVars, now>>

(* notify_waiters wakes who is listening now and is not remembered. *)
NotifyWaiters(j) ==
  /\ run[j] = "notify"
  /\ run' = [run EXCEPT ![j] = "ended"]
  /\ watcher' = [watcher EXCEPT ![j] = IF @ = "listening" THEN "woken" ELSE @]
  /\ UNCHANGED <<store, handler, metrics, job, open, childHeld, proc, killVars, now>>

-----------------------------------------------------------------------------
(* post_job_kill and kill_job *)

(* Mutant of KillMark: a killed job's waiters are notified at once. *)
KillMark_Notifies(j) ==
  /\ j \in store
  /\ kills < MaxKills
  /\ killer' = [killer EXCEPT ![j] = @ + 1]
  /\ job' = [job EXCEPT ![j].status = "killed"]
  /\ watcher' = [watcher EXCEPT ![j] = IF @ = "listening" THEN "woken" ELSE @]
  /\ kills' = kills + 1
  /\ killed' = killed \cup {j}
  /\ UNCHANGED <<store, handler, metrics, runVars, proc, killing, timers, missed,
                 signalled, now>>

(* The first write of kill_job.  The handler keeps its read guard on the     *)
(* DashMap until its end; guards are shared, so kills of one job may overlap. *)
KillMark(j) ==
  /\ j \in store
  /\ kills < MaxKills
  /\ killer' = [killer EXCEPT ![j] = @ + 1]
  /\ job' = [job EXCEPT ![j].status = "killed"]
  /\ kills' = kills + 1
  /\ killed' = killed \cup {j}
  /\ UNCHANGED <<startVars, runVars, proc, killing, timers, missed, signalled, now>>

(* Mutant of Holders: kill(-1), which reaches every process. *)
Holders_Everyone(p) == {k \in Jobs : proc[k].state = "alive"}

(* The jobs whose live process has the id p: kill(2) reaches no other. *)
Holders(p) == {k \in Jobs : proc[k].state = "alive" /\ proc[k].pid = p}

(* What becomes of the processes in "dead" when a signal ends them. *)
Ended(dead) == [k \in Jobs |-> IF k \in dead
                                 THEN [proc[k] EXCEPT !.state = "zombie", !.code = NULL]
                                 ELSE proc[k]]

(* cfg(unix), no pid recorded yet: nothing is sent. *)
KillFindsNoPid(j) ==
  /\ Unix
  /\ killer[j] > 0
  /\ job[j].pid = NULL
  /\ killer' = [killer EXCEPT ![j] = @ - 1]
  /\ missed' = missed \cup {j}
  /\ UNCHANGED <<startVars, job, runVars, proc, killing, timers, kills, killed,
                 signalled, now>>

(* Mutant of KillTerminates: SIGTERM only, no task sends SIGKILL. *)
KillTerminates_Once(j) ==
  /\ Unix
  /\ killer[j] > 0
  /\ job[j].pid # NULL
  /\ killer' = [killer EXCEPT ![j] = @ - 1]
  /\ missed' = missed \ {j}
  /\ signalled' = signalled \cup Holders(job[j].pid)
  /\ \E dead \in SUBSET Holders(job[j].pid) : proc' = Ended(dead)
  /\ UNCHANGED <<startVars, job, runVars, killing, timers, kills, killed, now>>

(* cfg(unix): SIGTERM, which a process may survive, and the spawn of the    *)
(* task that sleeps 5 s and sends SIGKILL.                                  *)
KillTerminates(j) ==
  /\ Unix
  /\ killer[j] > 0
  /\ job[j].pid # NULL
  /\ killer' = [killer EXCEPT ![j] = @ - 1]
  /\ timers' = [timers EXCEPT ![j] = @ + 1]
  /\ missed' = missed \ {j}
  /\ signalled' = signalled \cup Holders(job[j].pid)
  /\ \E dead \in SUBSET Holders(job[j].pid) : proc' = Ended(dead)
  /\ UNCHANGED <<startVars, job, runVars, killing, kills, killed, now>>

(* Mutant of SendSigkill: SIGTERM is sent a second time instead. *)
SendSigkill_Term(j) ==
  /\ timers[j] > 0
  /\ timers' = [timers EXCEPT ![j] = @ - 1]
  /\ signalled' = signalled \cup Holders(job[j].pid)
  /\ \E dead \in SUBSET Holders(job[j].pid) : proc' = Ended(dead)
  /\ UNCHANGED <<startVars, job, runVars, killer, killing, kills, killed, missed, now>>

(* The 5 s are over.  The signal goes to the id, whoever has it by now. *)
SendSigkill(j) ==
  /\ timers[j] > 0
  /\ timers' = [timers EXCEPT ![j] = @ - 1]
  /\ signalled' = signalled \cup Holders(job[j].pid)
  /\ proc' = Ended(Holders(job[j].pid))
  /\ UNCHANGED <<startVars, job, runVars, killer, killing, kills, killed, missed, now>>

(* cfg(not(unix)): take the Child, if it is there, and start child.kill(),  *)
(* which ends a process that still lives.                                   *)
KillTakesChild(j) ==
  /\ ~Unix
  /\ killer[j] > 0
  /\ j \in childHeld
  /\ killer' = [killer EXCEPT ![j] = @ - 1]
  /\ childHeld' = childHeld \ {j}
  /\ killing' = killing \cup {j}
  /\ missed' = missed \ {j}
  /\ signalled' = signalled \cup {j}
  /\ proc' = Ended({j} \cap {k \in Jobs : proc[k].state = "alive"})
  /\ UNCHANGED <<startVars, job, run, open, timers, kills, killed, now>>

(* child.kill() may fail, for want of a right: the error is ignored, the    *)
(* Child dropped, and its process lives on.                                 *)
KillFails(j) ==
  /\ ~Unix
  /\ killer[j] > 0
  /\ j \in childHeld
  /\ proc[j].state = "alive"
  /\ killer' = [killer EXCEPT ![j] = @ - 1]
  /\ childHeld' = childHeld \ {j}
  /\ missed' = missed \cup {j}
  /\ UNCHANGED <<startVars, job, run, open, proc, killing, timers, kills, killed,
                 signalled, now>>

(* The await of child.kill() is over, or its handler was dropped with the   *)
(* connection: either way nothing holds the dead process any more.          *)
KillReturns(j) ==
  /\ j \in killing
  /\ killing' = killing \ {j}
  /\ proc' = [proc EXCEPT ![j].state = "reaped"]
  /\ UNCHANGED <<startVars, job, runVars, killer, timers, kills, killed, missed,
                 signalled, now>>

KillFindsNoChild(j) ==
  /\ ~Unix
  /\ killer[j] > 0
  /\ j \notin childHeld
  /\ killer' = [killer EXCEPT ![j] = @ - 1]
  /\ missed' = missed \cup {j}
  /\ UNCHANGED <<startVars, job, runVars, proc, killing, timers, kills, killed,
                 signalled, now>>

-----------------------------------------------------------------------------
(* The eviction task *)

(* finished_at.unwrap_or(started_at) *)
EvictionStamp(j) == IF job[j].finishedAt = NULL THEN job[j].startedAt ELSE job[j].finishedAt

(* Mutant of Expired: the is_done check is dropped. *)
Expired_AnyStatus(j) == now - EvictionStamp(j) >= Keep

(* What retain removes.  Statuses never become Running again, so the check  *)
(* of the status and the later read of finished_at are one step here.       *)
Expired(j) == IsDone(j) /\ now - EvictionStamp(j) >= Keep

(* retain, for one entry: it waits for the guards that kill requests hold. *)
Evict(j) ==
  /\ j \in store
  /\ killer[j] = 0
  /\ j \notin killing
  /\ Expired(j)
  /\ store' = store \ {j}
  /\ UNCHANGED <<handler, metrics, watcher, job, runVars, proc, killVars, now>>

-----------------------------------------------------------------------------
(* The environment *)

(* The process of a job ends by itself, with an exit code or by a signal    *)
(* from elsewhere.                                                          *)
ProcessEnds(j) ==
  /\ proc[j].state = "alive"
  /\ \E c \in Codes \cup {NULL} : proc' = [proc EXCEPT ![j].state = "zombie", ![j].code = c]
  /\ UNCHANGED <<startVars, job, runVars, killVars, now>>

Tick ==
  /\ now < MaxTime
  /\ now' = now + 1
  /\ UNCHANGED <<startVars, job, runVars, proc, killVars>>

-----------------------------------------------------------------------------

Handle(j) == RejectStart(j) \/ AdmitStart(j) \/ StartJob(j) \/ ReplyStarted(j)

Watch(j) == WatcherListens(j) \/ WatcherDecrements(j)

RunJob(j) ==
  \/ SpawnFails(j) \/ StampFailedSpawn(j)
  \/ \E p \in Pids : SpawnSucceeds(j, p)
  \/ RecordPid(j) \/ StoreChild(j) \/ TakeChild(j) \/ WaitChild(j)
  \/ WriteExitCode(j) \/ StampFinished(j) \/ Conclude(j) \/ NotifyWaiters(j)

KillJob(j) ==
  \/ KillFindsNoPid(j) \/ KillTerminates(j)
  \/ KillTakesChild(j) \/ KillFails(j) \/ KillReturns(j) \/ KillFindsNoChild(j)

Next ==
  \/ \E j \in Jobs :
       \/ Handle(j) \/ Watch(j) \/ RunJob(j)
       \/ KillMark(j) \/ KillJob(j) \/ SendSigkill(j)
       \/ Evict(j) \/ ProcessEnds(j)
       \/ \E s \in Streams : StreamEnds(j, s)
  \/ Tick

Spec == Init /\ [][Next]_vars

(***************************************************************************)
(* The runtime polls every ready task again and again, so each task and    *)
(* each admitted handler keeps moving, and time goes on.  Nothing is       *)
(* assumed of the commands: a process may run for ever and a stream may    *)
(* stay open for ever.                                                     *)
(***************************************************************************)
Fairness ==
  /\ \A j \in Jobs :
       /\ WF_vars(StartJob(j) \/ ReplyStarted(j))
       /\ WF_vars(Watch(j))
       /\ WF_vars(RunJob(j))
       /\ WF_vars(KillJob(j))
       /\ WF_vars(SendSigkill(j))
       /\ WF_vars(Evict(j))
  /\ WF_vars(Tick)

FairSpec == Spec /\ Fairness

-----------------------------------------------------------------------------
(* Properties *)

JobRecords ==
  [status : Statuses, pid : Pids \cup {NULL}, exitCode : Codes \cup {-1, NULL},
   startedAt : Nat, finishedAt : Nat \cup {NULL}]

Processes ==
  [state : {"none", "alive", "zombie", "reaped"}, pid : Pids \cup {NULL},
   code : Codes \cup {NULL}]

(* The type invariant: every field of every Job, every task's position.     *)
TypeOK ==
  /\ store \subseteq Jobs
  /\ job \in [Jobs -> JobRecords]
  /\ handler \in [Jobs -> {"idle", "admitted", "inserted", "replied", "rejected"}]
  /\ run \in [Jobs -> RunSteps]
  /\ open \in [Jobs -> SUBSET Streams]
  /\ childHeld \subseteq Jobs
  /\ proc \in [Jobs -> Processes]
  /\ watcher \in [Jobs -> {"none", "spawned", "listening", "woken", "done"}]
  /\ killer \in [Jobs -> Nat]
  /\ killing \subseteq Jobs
  /\ timers \in [Jobs -> Nat]
  /\ metrics \in [rejected : Nat, started : Nat, running : Int]
  /\ kills \in Nat
  /\ killed \subseteq Jobs
  /\ missed \subseteq Jobs
  /\ signalled \subseteq Jobs
  /\ now \in Nat

(* A job shown as finished really is over: its process returned 0 and was   *)
(* waited for, both readers have ended, so no log line will be added, and   *)
(* exit_code and finished_at are set.  A job whose exit code is 0 is never  *)
(* shown as failed.  This is the order of the writes of run_job, which the  *)
(* kills, status reads and evictions in between must not disturb.           *)
OutcomeIsReal ==
  \A j \in Jobs :
    /\ job[j].status = "finished" =>
         /\ proc[j].state = "reaped" /\ proc[j].code = 0
         /\ open[j] = {}
         /\ job[j].exitCode = 0
         /\ job[j].finishedAt # NULL
    /\ job[j].status = "failed" => job[j].exitCode # 0

(* The store can exceed max_jobs only by the starts that passed the check   *)
(* of post_job_start side by side, at most one per other worker thread.     *)
OvershootBounded ==
  Cardinality(store) + Cardinality({j \in Jobs : handler[j] = "admitted"})
    <= MaxJobs + Workers - 1

(* The jobs_running gauge never shows fewer jobs than there are: each job   *)
(* that was counted and whose run_job is not over is still in it.           *)
GaugeNeverLow ==
  Cardinality({j \in Jobs : handler[j] = "replied" /\ run[j] # "ended"})
    <= metrics.running

(* A process is out of reach only if a kill has failed to reach it.  When   *)
(* the eviction task has dropped a job, its process, if it ever had one, was *)
(* waited for; or else the job was killed and its process is dead, or will  *)
(* be when SIGKILL is sent, or the last kill found no pid, found no Child   *)
(* (run_job had taken it, or had not stored it yet) or failed.              *)
OrphansExplained ==
  \A j \in Jobs :
    (run[j] # "none" /\ j \notin store) =>
      \/ proc[j].state \in {"none", "reaped"}
      \/ j \in killed /\ (proc[j].state # "alive" \/ timers[j] > 0 \/ j \in missed)

(* A signal of kill_job reaches the process of a job nobody killed only if  *)
(* a killed job's own process was waited for and its id given out again.    *)
SignalsExplained ==
  \A j \in signalled :
    \/ j \in killed
    \/ \E k \in killed : proc[k].state = "reaped" /\ proc[k].pid = proc[j].pid

(* A client sees of each job what JobLifecycle promises: the outcome is     *)
(* recorded once, kills are the only other change of the status, and a      *)
(* running job is never dropped from the list.                              *)
Phase == [j \in Jobs |-> IF run[j] = "none" THEN "absent" ELSE job[j].status]

Concluded == {j \in Jobs : run[j] \in {"unstamped", "notify", "ended"}}

Lifecycle == INSTANCE JobLifecycle WITH
               phase <- Phase, listed <- store, concluded <- Concluded

RefinesLifecycle == Lifecycle!LifecycleSpec

(* Once kill_job has sent SIGTERM, the process ends: SIGKILL follows, and   *)
(* the id still names that process for as long as it lives.                 *)
KillReachesProcess == \A j \in Jobs : timers[j] > 0 ~> proc[j].state # "alive"

(* When the process of a job is dead and both its streams have ended,       *)
(* run_job records the outcome and leaves, whatever kills come meanwhile.   *)
OutcomeRecorded ==
  \A j \in Jobs :
    (run[j] = "reading" /\ open[j] = {} /\ proc[j].state # "alive") ~> run[j] = "ended"

=============================================================================
