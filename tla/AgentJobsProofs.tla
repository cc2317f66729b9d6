-------------------------- MODULE AgentJobsProofs --------------------------
(***************************************************************************)
(* What TLAPS proves of AgentJobs and JobReplies, for any number of jobs,  *)
(* process ids and worker threads, any limit, any clock and either         *)
(* platform.                                                               *)
(***************************************************************************)
EXTENDS JobReplies, FiniteSetTheorems, TLAPS

(***************************************************************************)
(* Type correctness                                                        *)
(***************************************************************************)

LEMMA InitTypes == Init => TypeOK
  BY JobsAssumption DEF Init, TypeOK, JobRecords, Processes, Statuses, Streams, Codes,
     NoJob, NoProc, RunSteps

(* Assigning a field of a job a value of its type keeps the jobs typed. *)
LEMMA JobFields ==
  ASSUME job \in [Jobs -> JobRecords], NEW j \in Jobs
  PROVE  /\ \A x \in Statuses : [job EXCEPT ![j].status = x] \in [Jobs -> JobRecords]
         /\ \A x \in Pids \cup {NULL} : [job EXCEPT ![j].pid = x] \in [Jobs -> JobRecords]
         /\ \A x \in Codes \cup {-1, NULL} : [job EXCEPT ![j].exitCode = x] \in [Jobs -> JobRecords]
         /\ \A x \in Nat : [job EXCEPT ![j].startedAt = x] \in [Jobs -> JobRecords]
         /\ \A x \in Nat : [job EXCEPT ![j].finishedAt = x] \in [Jobs -> JobRecords]
<1>1. \A r \in JobRecords :
        /\ \A x \in Statuses : [r EXCEPT !.status = x] \in JobRecords
        /\ \A x \in Pids \cup {NULL} : [r EXCEPT !.pid = x] \in JobRecords
        /\ \A x \in Codes \cup {-1, NULL} : [r EXCEPT !.exitCode = x] \in JobRecords
        /\ \A x \in Nat : [r EXCEPT !.startedAt = x] \in JobRecords
        /\ \A x \in Nat : [r EXCEPT !.finishedAt = x] \in JobRecords
  BY DEF JobRecords
<1>2. job[j] \in JobRecords
  OBVIOUS
<1> QED
  BY <1>1, <1>2

(* So does ending or reaping a process. *)
LEMMA ProcFields ==
  \A r \in Processes, x \in {"zombie", "reaped"}, c \in Codes \cup {NULL} :
     /\ [r EXCEPT !.state = x] \in Processes
     /\ [r EXCEPT !.state = x, !.code = c] \in Processes
  BY DEF Processes

LEMMA NextTypes ==
  ASSUME TypeOK, [Next]_vars
  PROVE  TypeOK'
<1> USE DEF TypeOK, startVars, killVars, runVars
<1>1. ASSUME NEW j \in Jobs, Handle(j) PROVE TypeOK'
  <2>1. CASE RejectStart(j)
    BY <2>1 DEF RejectStart
  <2>2. CASE AdmitStart(j)
    BY <2>2 DEF AdmitStart
  <2>3. CASE StartJob(j)
    <3>1. job' \in [Jobs -> JobRecords]
      BY <2>3, JobFields DEF StartJob
    <3> QED
      BY <2>3, <3>1 DEF StartJob, RunSteps
  <2>4. CASE ReplyStarted(j)
    <3>1. metrics' = [metrics EXCEPT !.started = metrics.started + 1,
                                     !.running = metrics.running + 1]
      BY <2>4 DEF ReplyStarted
    <3>2. metrics.started + 1 \in Nat /\ metrics.running + 1 \in Int
      OBVIOUS
    <3>3. metrics' \in [rejected : Nat, started : Nat, running : Int]
      BY <3>1, <3>2
    <3>4. handler' \in [Jobs -> {"idle", "admitted", "inserted", "replied", "rejected"}]
      BY <2>4 DEF ReplyStarted
    <3>5. watcher' \in [Jobs -> {"none", "spawned", "listening", "woken", "done"}]
      BY <2>4 DEF ReplyStarted
    <3> QED
      BY <2>4, <3>3, <3>4, <3>5 DEF ReplyStarted
  <2> QED
    BY <1>1, <2>1, <2>2, <2>3, <2>4 DEF Handle
<1>2. ASSUME NEW j \in Jobs, Watch(j) PROVE TypeOK'
  <2>1. CASE WatcherListens(j)
    BY <2>1 DEF WatcherListens
  <2>2. CASE WatcherDecrements(j)
    BY <2>2 DEF WatcherDecrements
  <2> QED
    BY <1>2, <2>1, <2>2 DEF Watch
<1>3. ASSUME NEW j \in Jobs, RunJob(j) PROVE TypeOK'
  <2>1. CASE SpawnFails(j)
    <3>1. job' \in [Jobs -> JobRecords]
      BY <2>1, JobFields DEF SpawnFails, Statuses
    <3> QED
      BY <2>1, <3>1 DEF SpawnFails, RunSteps
  <2>2. CASE StampFailedSpawn(j)
    <3>1. job' \in [Jobs -> JobRecords]
      BY <2>2, JobFields DEF StampFailedSpawn
    <3> QED
      BY <2>2, <3>1 DEF StampFailedSpawn, RunSteps
  <2>3. ASSUME NEW p \in Pids, SpawnSucceeds(j, p) PROVE TypeOK'
    BY <2>3 DEF SpawnSucceeds, Processes, RunSteps
  <2>4. CASE RecordPid(j)
    <3>1. proc[j].pid \in Pids \cup {NULL}
      BY DEF Processes
    <3>2. job' \in [Jobs -> JobRecords]
      BY <2>4, <3>1, JobFields DEF RecordPid
    <3> QED
      BY <2>4, <3>2 DEF RecordPid, RunSteps
  <2>5. CASE StoreChild(j)
    BY <2>5 DEF StoreChild, RunSteps
  <2>6. CASE TakeChild(j)
    BY <2>6 DEF TakeChild, RunSteps
  <2>7. CASE WaitChild(j)
    BY <2>7 DEF WaitChild, Processes, RunSteps
  <2>8. CASE WriteExitCode(j)
    <3>1. proc[j].code \in Codes \cup {NULL}
      BY DEF Processes
    <3>2. ExitCodeOf(j) \in Codes \cup {-1, NULL}
      BY <3>1 DEF ExitCodeOf
    <3>3. job' \in [Jobs -> JobRecords]
      BY <2>8, <3>2, JobFields DEF WriteExitCode
    <3> QED
      BY <2>8, <3>3 DEF WriteExitCode, RunSteps
  <2>9. CASE StampFinished(j)
    <3>1. job' \in [Jobs -> JobRecords]
      BY <2>9, JobFields DEF StampFinished
    <3> QED
      BY <2>9, <3>1 DEF StampFinished, RunSteps
  <2>10. CASE Conclude(j)
    <3>1. job' \in [Jobs -> JobRecords]
      BY <2>10, JobFields DEF Conclude, Statuses
    <3> QED
      BY <2>10, <3>1 DEF Conclude, RunSteps
  <2>11. CASE NotifyWaiters(j)
    BY <2>11 DEF NotifyWaiters, RunSteps
  <2> QED
    BY <1>3, <2>1, <2>2, <2>3, <2>4, <2>5, <2>6, <2>7, <2>8, <2>9, <2>10, <2>11 DEF RunJob
<1>4. ASSUME NEW j \in Jobs, KillMark(j) PROVE TypeOK'
  <2>1. job' \in [Jobs -> JobRecords]
    BY <1>4, JobFields DEF KillMark, Statuses
  <2> QED
    BY <1>4, <2>1 DEF KillMark
<1>5. ASSUME NEW dead \in SUBSET Jobs PROVE Ended(dead) \in [Jobs -> Processes]
  BY DEF Ended, Processes
<1>6. \A p : Holders(p) \in SUBSET Jobs
  BY DEF Holders
<1>7. ASSUME NEW j \in Jobs, KillJob(j) PROVE TypeOK'
  <2>0. /\ [killer EXCEPT ![j] = killer[j] + 1] \in [Jobs -> Nat]
        /\ killer[j] > 0 => [killer EXCEPT ![j] = killer[j] - 1] \in [Jobs -> Nat]
    OBVIOUS
  <2>1. CASE KillFindsNoPid(j)
    BY <2>0, <2>1 DEF KillFindsNoPid
  <2>2. CASE KillTerminates(j)
    <3>1. proc' \in [Jobs -> Processes] /\ signalled' \subseteq Jobs
      BY <1>5, <1>6, <2>2 DEF KillTerminates
    <3>2. timers' \in [Jobs -> Nat] /\ killer' \in [Jobs -> Nat]
      BY <2>0, <2>2 DEF KillTerminates
    <3> QED
      BY <2>2, <3>1, <3>2 DEF KillTerminates
  <2>3. CASE KillTakesChild(j)
    <3>1. proc' \in [Jobs -> Processes]
      BY <1>5, <2>3 DEF KillTakesChild
    <3>2. killer' \in [Jobs -> Nat] /\ childHeld' \subseteq Jobs /\ signalled' \subseteq Jobs
      BY <2>0, <2>3 DEF KillTakesChild
    <3> QED
      BY <2>3, <3>1, <3>2 DEF KillTakesChild
  <2>4. CASE KillFails(j)
    BY <2>0, <2>4 DEF KillFails
  <2>5. CASE KillReturns(j)
    <3>1. proc' \in [Jobs -> Processes]
      BY <2>5, ProcFields DEF KillReturns
    <3> QED
      BY <2>5, <3>1 DEF KillReturns
  <2>6. CASE KillFindsNoChild(j)
    BY <2>0, <2>6 DEF KillFindsNoChild
  <2> QED
    BY <1>7, <2>1, <2>2, <2>3, <2>4, <2>5, <2>6 DEF KillJob
<1>8. ASSUME NEW j \in Jobs, SendSigkill(j) PROVE TypeOK'
  <2>1. proc' \in [Jobs -> Processes] /\ signalled' \subseteq Jobs
    BY <1>5, <1>6, <1>8 DEF SendSigkill
  <2> QED
    BY <1>8, <2>1 DEF SendSigkill
<1>9. ASSUME NEW j \in Jobs, Evict(j) PROVE TypeOK'
  BY <1>9 DEF Evict
<1>10. ASSUME NEW j \in Jobs, ProcessEnds(j) PROVE TypeOK'
  <2>1. PICK c \in Codes \cup {NULL} :
          proc' = [proc EXCEPT ![j] = [proc[j] EXCEPT !.state = "zombie", !.code = c]]
    BY <1>10 DEF ProcessEnds
  <2>2. [proc[j] EXCEPT !.state = "zombie", !.code = c] \in Processes
    BY ProcFields
  <2>3. proc' \in [Jobs -> Processes]
    BY <2>1, <2>2
  <2> QED
    BY <1>10, <2>3 DEF ProcessEnds
<1>11. ASSUME NEW j \in Jobs, NEW s \in Streams, StreamEnds(j, s) PROVE TypeOK'
  BY <1>11 DEF StreamEnds
<1>12. CASE Tick
  BY <1>12 DEF Tick
<1>13. CASE UNCHANGED vars
  BY <1>13 DEF vars
<1> QED
  BY <1>1, <1>2, <1>3, <1>4, <1>7, <1>8, <1>9, <1>10, <1>11, <1>12, <1>13 DEF Next

(* Every variable of the agent's jobs keeps its type. *)
THEOREM JobTypes == Spec => []TypeOK
  BY InitTypes, NextTypes, PTL DEF Spec

(***************************************************************************)
(* The outcome of a job, and the processes of dropped jobs                 *)
(***************************************************************************)

(* A job exists exactly from the moment its start request inserted it. *)
RequestInv(j) ==
  /\ run[j] = "none" <=> handler[j] \in {"idle", "admitted", "rejected"}
  /\ run[j] = "none" => j \notin store /\ job[j].status = "running"

(* Where run_job is fixes what it has done with the process, unless a kill  *)
(* took the Child away from it.                                             *)
ProcessInv(j) ==
  /\ run[j] \in {"none", "queued", "unstamped"} => proc[j].state = "none"
  /\ run[j] \in {"spawned", "piped", "reading", "waiting"} => proc[j].state # "none"
  /\ run[j] = "exited" => proc[j].state = "reaped"
  /\ run[j] \in {"stamp", "conclude"} => proc[j].state = "reaped" \/ j \in killed
  /\ run[j] \in {"notify", "ended"} => proc[j].state \in {"none", "reaped"} \/ j \in killed
  /\ run[j] = "noChild" \/ (run[j] = "reading" /\ j \notin childHeld) => j \in killed
  /\ j \in childHeld => run[j] = "reading"
  /\ open[j] # {} => run[j] = "reading"

(* Kills are under way only for killed jobs, and a Child that is awaited is *)
(* that of a process that has ended.                                        *)
KillInv(j) ==
  /\ killer[j] > 0 \/ timers[j] > 0 => j \in killed
  /\ j \in killing => proc[j].state \in {"zombie", "reaped"}

(* ... and which fields it has written. *)
FieldInv(j) ==
  /\ job[j].exitCode # NULL => run[j] \in {"stamp", "conclude", "notify", "ended"}
  /\ run[j] \in {"stamp", "conclude"} => job[j].exitCode # NULL
  /\ run[j] \in {"unstamped", "notify", "ended"} /\ job[j].exitCode = NULL =>
       proc[j].state = "none"
  /\ run[j] \in {"conclude", "notify", "ended"} => job[j].finishedAt # NULL
  /\ job[j].exitCode = 0 => proc[j].state = "reaped" /\ proc[j].code = 0

(* What a status says. *)
StatusInv(j) ==
  /\ job[j].status = "finished" => job[j].exitCode = 0 /\ run[j] \in {"notify", "ended"}
  /\ job[j].status = "failed" =>
       job[j].exitCode # 0 /\ run[j] \in {"unstamped", "notify", "ended"}
  /\ job[j].status = "killed" => j \in killed

(* A job leaves the store only when no kill of it is under way and, unless  *)
(* it was killed, when run_job has recorded its outcome.                    *)
DroppedInv(j) ==
  run[j] # "none" /\ j \notin store =>
    /\ killer[j] = 0
    /\ j \in killed \/ run[j] \in {"unstamped", "notify", "ended"}

JobInv(j) ==
  /\ RequestInv(j) /\ ProcessInv(j) /\ KillInv(j)
  /\ FieldInv(j) /\ StatusInv(j) /\ DroppedInv(j)

OutcomeInv == TypeOK /\ \A j \in Jobs : JobInv(j)

LEMMA InitOutcome == Init => OutcomeInv
<1> SUFFICES ASSUME Init PROVE \A j \in Jobs : JobInv(j)
  BY InitTypes DEF OutcomeInv
<1> QED
  BY JobsAssumption DEF Init, JobInv, RequestInv, ProcessInv, KillInv, FieldInv, StatusInv, DroppedInv,
     NoJob, NoProc

(* The steps of the start request and of the watcher. *)
LEMMA HandlerOutcome ==
  ASSUME OutcomeInv, NEW j \in Jobs, Handle(j) \/ Watch(j), NEW k \in Jobs
  PROVE  JobInv(k)'
<1> USE DEF OutcomeInv, TypeOK, JobInv, RequestInv, ProcessInv, KillInv, FieldInv, StatusInv, DroppedInv,
            startVars, killVars, runVars
<1>1. CASE RejectStart(j)
  BY <1>1 DEF RejectStart
<1>2. CASE AdmitStart(j)
  BY <1>2 DEF AdmitStart
<1>3. CASE StartJob(j)
  <2>1. CASE k = j
    BY <1>3, <2>1 DEF StartJob, JobRecords
  <2>2. CASE k # j
    BY <1>3, <2>2 DEF StartJob
  <2> QED
    BY <2>1, <2>2
<1>4. CASE ReplyStarted(j)
  BY <1>4 DEF ReplyStarted
<1>5. CASE WatcherListens(j)
  BY <1>5 DEF WatcherListens
<1>6. CASE WatcherDecrements(j)
  BY <1>6 DEF WatcherDecrements
<1> QED
  BY <1>1, <1>2, <1>3, <1>4, <1>5, <1>6 DEF Handle, Watch

(* The state JobInv(k) is about. *)
LEMMA OutcomeFrame ==
  ASSUME NEW k \in Jobs, JobInv(k),
         job'[k] = job[k], run'[k] = run[k], handler'[k] = handler[k],
         open'[k] = open[k], proc'[k] = proc[k],
         killer'[k] = killer[k], timers'[k] = timers[k],
         k \in killing' <=> k \in killing,
         k \in childHeld' <=> k \in childHeld,
         k \in store' <=> k \in store,
         k \in killed' <=> k \in killed
  PROVE  JobInv(k)'
  BY DEF JobInv, RequestInv, ProcessInv, KillInv, FieldInv, StatusInv, DroppedInv

(* The steps of run_job, first for the job the step belongs to. *)
LEMMA RunOutcome ==
  ASSUME OutcomeInv, NEW j \in Jobs, RunJob(j), NEW k \in Jobs
  PROVE  JobInv(k)'
<1>1. CASE k # j
  <2>1. /\ job'[k] = job[k] /\ run'[k] = run[k] /\ handler'[k] = handler[k]
        /\ open'[k] = open[k] /\ proc'[k] = proc[k]
        /\ k \in childHeld' <=> k \in childHeld
        /\ UNCHANGED <<store, killed, killer, timers, killing>>
    BY <1>1 DEF RunJob, OutcomeInv, TypeOK, startVars, killVars, SpawnFails, StampFailedSpawn,
       SpawnSucceeds, RecordPid, StoreChild, TakeChild, WaitChild, WriteExitCode,
       StampFinished, Conclude, NotifyWaiters
  <2> QED
    BY <2>1, OutcomeFrame DEF OutcomeInv
<1>2. CASE k = j
  <2> USE <1>2 DEF OutcomeInv, TypeOK, JobInv, RequestInv, ProcessInv, KillInv, FieldInv, StatusInv,
                   DroppedInv, startVars, killVars, runVars
  <2>1. CASE SpawnFails(j)
    <3>1. job[j].exitCode # 0
      BY <2>1 DEF SpawnFails
    <3> QED
      BY <2>1, <3>1 DEF SpawnFails, JobRecords
  <2>2. CASE StampFailedSpawn(j)
    <3>1. now # NULL
      BY JobsAssumption
    <3> QED
      BY <2>2, <3>1 DEF StampFailedSpawn, JobRecords
  <2>3. CASE RecordPid(j)
    BY <2>3 DEF RecordPid, JobRecords
  <2>4. CASE StoreChild(j)
    BY <2>4 DEF StoreChild
  <2>5. CASE TakeChild(j)
    BY <2>5 DEF TakeChild
  <2>6. CASE WaitChild(j)
    BY <2>6 DEF WaitChild, Processes
  <2>7. CASE WriteExitCode(j)
    <3> DEFINE c == ExitCodeOf(j)
    <3>1. /\ c # NULL /\ c \in Codes \cup {-1}
          /\ c = 0 => run[j] = "exited" /\ proc[j].code = 0
      BY JobsAssumption DEF ExitCodeOf, Processes, Codes
    <3>2. /\ run[j] \in {"exited", "noChild"} /\ run' = [run EXCEPT ![j] = "stamp"]
          /\ job' = [job EXCEPT ![j].exitCode = c]
          /\ UNCHANGED <<startVars, open, childHeld, proc, killVars, now>>
      BY <2>7 DEF WriteExitCode
    <3> HIDE DEF c
    <3>3. /\ job'[j].exitCode = c /\ job'[j].status = job[j].status
          /\ job'[j].pid = job[j].pid /\ job'[j].finishedAt = job[j].finishedAt
          /\ run'[j] = "stamp"
      BY <3>2 DEF JobRecords
    <3>4. RequestInv(j)'
      BY <3>2, <3>3
    <3>5. ProcessInv(j)'
      BY <3>2, <3>3
    <3>6. KillInv(j)'
      BY <3>2, <3>3
    <3>7. FieldInv(j)'
      BY <3>1, <3>2, <3>3
    <3>8. StatusInv(j)'
      BY <3>1, <3>2, <3>3
    <3>9. DroppedInv(j)'
      BY <3>2, <3>3
    <3> QED
      BY <3>4, <3>5, <3>6, <3>7, <3>8, <3>9
  <2>8. CASE StampFinished(j)
    <3>1. now # NULL
      BY JobsAssumption
    <3> QED
      BY <2>8, <3>1 DEF StampFinished, JobRecords
  <2>9. CASE Conclude(j)
    BY <2>9 DEF Conclude, JobRecords
  <2>10. CASE NotifyWaiters(j)
    BY <2>10 DEF NotifyWaiters
  <2>11. ASSUME NEW p \in Pids, SpawnSucceeds(j, p) PROVE JobInv(j)'
    BY <2>11 DEF SpawnSucceeds, Processes
  <2> QED
    BY <2>1, <2>2, <2>3, <2>4, <2>5, <2>6, <2>7, <2>8, <2>9, <2>10, <2>11 DEF RunJob
<1> QED
  BY <1>1, <1>2

(* What a signal does to a process: it ends some of those that are alive.   *)
LEMMA EndedProcesses ==
  ASSUME TypeOK, NEW p, NEW dead \in SUBSET Holders(p), NEW k \in Jobs
  PROVE  \/ Ended(dead)[k] = proc[k]
         \/ /\ proc[k].state = "alive" /\ proc[k].pid = p
            /\ Ended(dead)[k].state = "zombie"
            /\ Ended(dead)[k].pid = p
<1>1. CASE k \in dead
  BY <1>1 DEF Ended, Holders, TypeOK, Processes
<1>2. CASE k \notin dead
  BY <1>2 DEF Ended
<1> QED
  BY <1>1, <1>2

(* Ending a live process does not disturb the invariant: a job whose        *)
(* process is alive has recorded no outcome.                                *)
LEMMA SignalOutcome ==
  ASSUME OutcomeInv, NEW k \in Jobs, NEW p, NEW dead \in SUBSET Holders(p),
         proc' = Ended(dead), KillInv(k)', DroppedInv(k)',
         UNCHANGED <<job, run, handler, open, childHeld, store, killed>>
  PROVE  JobInv(k)'
<1>1. CASE Ended(dead)[k] = proc[k]
  BY <1>1 DEF OutcomeInv, JobInv, RequestInv, ProcessInv, FieldInv, StatusInv
<1>2. CASE proc[k].state = "alive" /\ Ended(dead)[k].state = "zombie"
  BY <1>2 DEF OutcomeInv, JobInv, RequestInv, ProcessInv, KillInv, FieldInv, StatusInv, DroppedInv
<1> QED
  BY <1>1, <1>2, EndedProcesses DEF OutcomeInv

LEMMA KillOutcome ==
  ASSUME OutcomeInv, NEW j \in Jobs, KillMark(j) \/ KillJob(j) \/ SendSigkill(j), NEW k \in Jobs
  PROVE  JobInv(k)'
<1> USE DEF startVars, killVars, runVars
<1>0. TypeOK /\ JobInv(j) /\ JobInv(k)
  BY DEF OutcomeInv
<1>1. CASE KillMark(j)
  <2>1. CASE k # j
    BY <1>1, <2>1, OutcomeFrame DEF KillMark, OutcomeInv, TypeOK
  <2>2. CASE k = j
    BY <1>0, <1>1, <2>2 DEF KillMark, TypeOK, JobRecords, JobInv, RequestInv, ProcessInv,
       KillInv, FieldInv, StatusInv, DroppedInv
  <2> QED
    BY <2>1, <2>2
<1>2. CASE KillFindsNoPid(j) \/ KillFindsNoChild(j)
  <2>1. /\ UNCHANGED <<job, run, handler, open, proc, childHeld, store, killed, timers, killing>>
        /\ killer[j] > 0 /\ killer' = [killer EXCEPT ![j] = killer[j] - 1]
    BY <1>2 DEF KillFindsNoPid, KillFindsNoChild
  <2>2. CASE k # j
    BY <1>0, <2>1, <2>2, OutcomeFrame DEF TypeOK
  <2>3. CASE k = j
    BY <1>0, <2>1, <2>3 DEF TypeOK, JobInv, RequestInv, ProcessInv, KillInv, FieldInv, StatusInv,
       DroppedInv
  <2> QED
    BY <2>2, <2>3
<1>3. CASE KillTerminates(j) \/ SendSigkill(j)
  <2>1. PICK dead \in SUBSET Holders(job[j].pid) : proc' = Ended(dead)
    BY <1>3 DEF KillTerminates, SendSigkill
  <2>2. UNCHANGED <<job, run, handler, open, childHeld, store, killed, killing>>
    BY <1>3 DEF KillTerminates, SendSigkill
  <2>3. killer'[k] \in Nat /\ (killer'[k] > 0 => killer[k] > 0) /\ (killer[k] = 0 => killer'[k] = 0)
    BY <1>0, <1>3 DEF KillTerminates, SendSigkill, TypeOK
  <2>4. timers'[k] > 0 => timers[k] > 0 \/ killer[k] > 0
    BY <1>0, <1>3 DEF KillTerminates, SendSigkill, TypeOK
  <2>5. KillInv(k)'
    <3>1. proc'[k] = proc[k] \/ proc'[k].state = "zombie"
      BY <1>0, <2>1, EndedProcesses
    <3> QED
      BY <1>0, <2>2, <2>3, <2>4, <3>1 DEF JobInv, KillInv
  <2>6. DroppedInv(k)'
    BY <1>0, <2>2, <2>3 DEF JobInv, DroppedInv
  <2> QED
    BY <2>1, <2>2, <2>5, <2>6, SignalOutcome
<1>4. CASE KillTakesChild(j)
  <2>1. /\ UNCHANGED <<job, run, handler, open, store, killed, timers>>
        /\ killer[j] > 0 /\ killer' = [killer EXCEPT ![j] = killer[j] - 1]
        /\ childHeld' = childHeld \ {j} /\ killing' = killing \cup {j}
        /\ j \in childHeld
        /\ proc' = Ended({j} \cap {l \in Jobs : proc[l].state = "alive"})
    BY <1>4 DEF KillTakesChild
  <2>2. CASE k # j
    <3>1. proc'[k] = proc[k]
      BY <2>1, <2>2 DEF Ended
    <3> QED
      BY <1>0, <2>1, <2>2, <3>1, OutcomeFrame DEF TypeOK
  <2>3. CASE k = j
    <3>1. run[j] = "reading" /\ proc[j].state # "none"
      BY <1>0, <2>1 DEF JobInv, ProcessInv
    <3>2. proc'[j].state \in {"zombie", "reaped"}
      <4>1. CASE proc[j].state = "alive"
        BY <1>0, <2>1, <4>1 DEF Ended, TypeOK, Processes
      <4>2. CASE proc[j].state # "alive"
        BY <1>0, <2>1, <3>1, <4>2 DEF Ended, TypeOK, Processes
      <4> QED
        BY <4>1, <4>2
    <3>3. job[j].exitCode = NULL /\ j \in killed /\ job[j].status \notin {"finished", "failed"}
      BY <1>0, <2>1, <3>1, JobsAssumption DEF JobInv, KillInv, FieldInv, StatusInv
    <3>4. killer'[j] \in Nat /\ (killer[j] = 0 => killer'[j] = 0)
      BY <1>0, <2>1 DEF TypeOK
    <3> QED
      BY <1>0, <2>1, <2>3, <3>1, <3>2, <3>3, <3>4, JobsAssumption
         DEF JobInv, RequestInv, ProcessInv, KillInv, FieldInv, StatusInv, DroppedInv
  <2> QED
    BY <2>2, <2>3
<1>5. CASE KillFails(j)
  <2>1. /\ UNCHANGED <<job, run, handler, open, proc, store, killed, timers, killing>>
        /\ killer[j] > 0 /\ killer' = [killer EXCEPT ![j] = killer[j] - 1]
        /\ childHeld' = childHeld \ {j}
    BY <1>5 DEF KillFails
  <2>2. CASE k # j
    BY <1>0, <2>1, <2>2, OutcomeFrame DEF TypeOK
  <2>3. CASE k = j
    BY <1>0, <2>1, <2>3 DEF TypeOK, JobInv, RequestInv, ProcessInv, KillInv, FieldInv, StatusInv,
       DroppedInv
  <2> QED
    BY <2>2, <2>3
<1>6. CASE KillReturns(j)
  <2>1. /\ UNCHANGED <<job, run, handler, open, childHeld, store, killed, timers, killer>>
        /\ j \in killing /\ killing' = killing \ {j}
        /\ proc' = [proc EXCEPT ![j].state = "reaped"]
    BY <1>6 DEF KillReturns
  <2>2. CASE k # j
    BY <1>0, <2>1, <2>2, OutcomeFrame DEF TypeOK
  <2>3. CASE k = j
    <3>1. proc[j].state \in {"zombie", "reaped"} /\ proc'[j].state = "reaped"
          /\ proc'[j].code = proc[j].code
      BY <1>0, <2>1 DEF TypeOK, Processes, JobInv, KillInv
    <3> QED
      BY <1>0, <2>1, <2>3, <3>1 DEF JobInv, RequestInv, ProcessInv, KillInv, FieldInv, StatusInv,
         DroppedInv
  <2> QED
    BY <2>2, <2>3
<1> QED
  BY <1>1, <1>2, <1>3, <1>4, <1>5, <1>6 DEF KillJob

(* The eviction task, the commands and the clock. *)
LEMMA OtherOutcome ==
  ASSUME OutcomeInv, NEW k \in Jobs,
         \/ \E j \in Jobs : Evict(j) \/ ProcessEnds(j) \/ \E s \in Streams : StreamEnds(j, s)
         \/ Tick
  PROVE  JobInv(k)'
<1> USE DEF startVars, killVars, runVars
<1>1. ASSUME NEW j \in Jobs, Evict(j) PROVE JobInv(k)'
  <2>1. CASE k # j
    BY <1>1, <2>1, OutcomeFrame DEF Evict, OutcomeInv
  <2>2. CASE k = j
    BY <1>1, <2>2 DEF Evict, Expired, IsDone, OutcomeInv, JobInv, RequestInv, ProcessInv,
       KillInv, FieldInv, StatusInv, DroppedInv
  <2> QED
    BY <2>1, <2>2
<1>2. ASSUME NEW j \in Jobs, ProcessEnds(j) PROVE JobInv(k)'
  <2>1. CASE k # j
    BY <1>2, <2>1, OutcomeFrame DEF ProcessEnds, OutcomeInv, TypeOK
  <2>2. CASE k = j
    <3>1. proc'[j].state = "zombie"
      BY <1>2 DEF ProcessEnds, OutcomeInv, TypeOK, Processes
    <3> QED
      BY <1>2, <2>2, <3>1 DEF ProcessEnds, OutcomeInv, JobInv, RequestInv, ProcessInv, KillInv, FieldInv,
         StatusInv, DroppedInv
  <2> QED
    BY <2>1, <2>2
<1>3. ASSUME NEW j \in Jobs, NEW s \in Streams, StreamEnds(j, s) PROVE JobInv(k)'
  BY <1>3 DEF StreamEnds, OutcomeInv, TypeOK, JobInv, RequestInv, ProcessInv, KillInv, FieldInv,
     StatusInv, DroppedInv
<1>4. CASE Tick
  BY <1>4, OutcomeFrame DEF Tick, OutcomeInv
<1> QED
  BY <1>1, <1>2, <1>3, <1>4

LEMMA NextOutcome == OutcomeInv /\ [Next]_vars => OutcomeInv'
<1> SUFFICES ASSUME OutcomeInv, [Next]_vars, NEW k \in Jobs PROVE JobInv(k)'
  BY NextTypes DEF OutcomeInv
<1>1. CASE UNCHANGED vars
  BY <1>1, OutcomeFrame DEF vars, OutcomeInv
<1>2. CASE Next
  BY <1>2, HandlerOutcome, RunOutcome, KillOutcome, OtherOutcome DEF Next
<1> QED
  BY <1>1, <1>2

(* The invariant of the outcomes holds in every state. *)
THEOREM OutcomeInvariant == Spec => []OutcomeInv
  BY InitOutcome, NextOutcome, PTL DEF Spec

(* A job shown as finished has ended with exit code 0, was waited for and    *)
(* gets no log line any more; a job whose exit code is 0 is never shown as       *)
(* failed: whatever the kills, signals and evictions around run_job.         *)
THEOREM OutcomesAreReal == Spec => []OutcomeIsReal
<1>1. OutcomeInv => OutcomeIsReal
  BY DEF OutcomeInv, OutcomeIsReal, JobInv, ProcessInv, KillInv, FieldInv, StatusInv
<1> QED
  BY <1>1, OutcomeInvariant, PTL

(***************************************************************************)
(* Who the signals of kill_job reach                                       *)
(***************************************************************************)

(* The pid of a job is that of its own process. *)
Named(j) ==
  /\ proc[j].state # "none" => proc[j].pid \in Pids
  /\ job[j].pid # NULL => job[j].pid = proc[j].pid /\ proc[j].state # "none"

(* A process that was not waited for has its id for itself. *)
Distinct(j, k) ==
  j # k /\ {proc[j].state, proc[k].state} \subseteq {"alive", "zombie"} =>
    proc[j].pid # proc[k].pid

Explained(j) ==
  j \in signalled =>
    \/ j \in killed
    \/ /\ proc[j].state # "none"
       /\ \E k \in killed : proc[k].state = "reaped" /\ proc[k].pid = proc[j].pid

SignalInv ==
  /\ OutcomeInv
  /\ \A j \in Jobs : Named(j) /\ Explained(j)
  /\ \A j, k \in Jobs : Distinct(j, k)

(* A process keeps its id, and a process that was waited for stays so. *)
Advances(k) ==
  /\ proc'[k].pid = proc[k].pid
  /\ \/ proc'[k].state = proc[k].state
     \/ proc[k].state \in {"alive", "zombie"} /\ proc'[k].state \in {"zombie", "reaped"}

LEMMA InitSignals == Init => SignalInv
<1> SUFFICES ASSUME Init
             PROVE  /\ \A j \in Jobs : Named(j) /\ Explained(j)
                    /\ \A j, k \in Jobs : Distinct(j, k)
  BY InitOutcome DEF SignalInv
<1> QED
  BY DEF Init, Named, Explained, Distinct, NoProc, NoJob

(* Steps that only advance processes keep their ids apart, and keep what    *)
(* explains the signals sent before.                                        *)
LEMMA AdvancesKeep ==
  ASSUME SignalInv, killed \subseteq killed', killed' \subseteq Jobs,
         \A k \in Jobs : Advances(k)
  PROVE  /\ \A j, k \in Jobs : Distinct(j, k)'
         /\ \A j \in Jobs : (j \in signalled' => j \in signalled \cup killed) => Explained(j)'
         /\ \A j \in Jobs : proc'[j].state # "none" <=> proc[j].state # "none"
  BY DEF SignalInv, OutcomeInv, TypeOK, Advances, Distinct, Explained

(* What a signal to the recorded id of a killed job reaches is explained.   *)
LEMMA HoldersExplained ==
  ASSUME SignalInv, NEW j \in killed, NEW h \in Holders(job[j].pid)
  PROVE  /\ h \in Jobs /\ proc[h].state = "alive" /\ proc[h].pid = job[j].pid
         /\ h # j => proc[j].state = "reaped" /\ proc[j].pid = proc[h].pid
<1>1. h \in Jobs /\ proc[h].state = "alive" /\ proc[h].pid = job[j].pid
  BY DEF Holders
<1>2. j \in Jobs /\ proc[j].state \in {"none", "alive", "zombie", "reaped"}
  BY DEF SignalInv, OutcomeInv, TypeOK, Processes
<1>3. job[j].pid # NULL
  BY <1>1, JobsAssumption DEF SignalInv, Named
<1>4. proc[j].state # "none" /\ proc[j].pid = proc[h].pid
  BY <1>1, <1>2, <1>3 DEF SignalInv, Named
<1>5. h # j => ~(proc[j].state \in {"alive", "zombie"})
  BY <1>1, <1>2, <1>4 DEF SignalInv, Distinct
<1> QED
  BY <1>1, <1>2, <1>4, <1>5

(* A step that sends a signal to the id of a killed job, or none at all.    *)
LEMMA SignalSteps ==
  ASSUME SignalInv, NEW j \in killed, NEW dead \in SUBSET Holders(job[j].pid),
         proc' = Ended(dead), signalled' = signalled \cup Holders(job[j].pid),
         UNCHANGED <<job, run, killed>>
  PROVE  /\ \A k \in Jobs : Named(k)' /\ Explained(k)'
         /\ \A k, l \in Jobs : Distinct(k, l)'
<1>1. \A k \in Jobs : Advances(k)
  BY EndedProcesses DEF SignalInv, OutcomeInv, Advances
<1>2. \A k \in Jobs : proc'[k].pid = proc[k].pid
  BY <1>1 DEF Advances
<1>3. killed \subseteq Jobs
  BY DEF SignalInv, OutcomeInv, TypeOK
<1>4. /\ \A k, l \in Jobs : Distinct(k, l)'
      /\ \A k \in Jobs : proc'[k].state # "none" <=> proc[k].state # "none"
  BY <1>1, <1>3, AdvancesKeep
<1>5. \A k \in Jobs : Named(k)'
  BY <1>2, <1>4 DEF SignalInv, Named
<1>6. ASSUME NEW k \in Jobs PROVE Explained(k)'
  <2>1. CASE k \in Holders(job[j].pid) /\ k # j
    <3>1. proc[k].state = "alive" /\ proc[j].state = "reaped" /\ proc[j].pid = proc[k].pid
      BY <2>1, HoldersExplained
    <3>2. proc'[j].state = "reaped" /\ proc'[j].pid = proc'[k].pid /\ proc'[k].state # "none"
      BY <1>1, <1>3, <1>4, <3>1 DEF Advances
    <3> QED
      BY <3>2 DEF Explained
  <2>2. CASE k \notin Holders(job[j].pid) \/ k = j
    <3>1. k \in signalled' => k \in signalled \cup killed
      BY <2>2
    <3> QED
      BY <1>1, <1>3, <3>1, AdvancesKeep
  <2> QED
    BY <2>1, <2>2
<1> QED
  BY <1>4, <1>5, <1>6

LEMMA NextSignals == SignalInv /\ [Next]_vars => SignalInv'
<1> SUFFICES ASSUME SignalInv, [Next]_vars
             PROVE  /\ \A k \in Jobs : Named(k)' /\ Explained(k)'
                    /\ \A k, l \in Jobs : Distinct(k, l)'
  BY NextOutcome DEF SignalInv
<1> DEFINE Kept == /\ \A k \in Jobs : Named(k)' /\ Explained(k)'
                   /\ \A k, l \in Jobs : Distinct(k, l)'
<1> USE DEF startVars, killVars, runVars
<1>0. /\ TypeOK /\ killed \subseteq Jobs
      /\ \A k \in Jobs : JobInv(k) /\ Named(k) /\ Explained(k)
  BY DEF SignalInv, OutcomeInv, TypeOK
(* Steps that touch neither a process nor a pid. *)
<1>1. ASSUME UNCHANGED <<proc, signalled>>, killed \subseteq killed', killed' \subseteq Jobs,
             \A k \in Jobs : job'[k].pid = job[k].pid
      PROVE  Kept
  <2>1. \A k \in Jobs : Advances(k)
    BY <1>1 DEF Advances
  <2>2. /\ \A k, l \in Jobs : Distinct(k, l)'
        /\ \A k \in Jobs : Explained(k)'
    BY <1>1, <2>1, AdvancesKeep
  <2>3. \A k \in Jobs : Named(k)'
    BY <1>0, <1>1 DEF Named
  <2> QED
    BY <2>2, <2>3
(* Steps that only advance processes and touch no pid. *)
<1>2. ASSUME UNCHANGED killed, \A k \in Jobs : job'[k].pid = job[k].pid,
             signalled' \subseteq signalled \cup killed, \A k \in Jobs : Advances(k)
      PROVE  Kept
  <2>1. /\ \A k, l \in Jobs : Distinct(k, l)'
        /\ \A k \in Jobs : Explained(k)'
        /\ \A k \in Jobs : proc'[k].state # "none" <=> proc[k].state # "none"
    BY <1>0, <1>2, AdvancesKeep
  <2>2. \A k \in Jobs : Named(k)'
    BY <1>0, <1>2, <2>1 DEF Named, Advances
  <2> QED
    BY <2>1, <2>2
<1>3. ASSUME NEW j \in Jobs, Handle(j) \/ Watch(j) PROVE Kept
  <2>1. /\ UNCHANGED <<proc, signalled, killed>>
        /\ \A k \in Jobs : job'[k].pid = job[k].pid
    BY <1>0, <1>3 DEF Handle, Watch, RejectStart, AdmitStart, StartJob, ReplyStarted,
       WatcherListens, WatcherDecrements, TypeOK, JobRecords
  <2> QED
    BY <1>0, <1>1, <2>1
<1>4. ASSUME NEW j \in Jobs, RunJob(j) PROVE Kept
  <2>1. CASE \/ SpawnFails(j) \/ StampFailedSpawn(j) \/ TakeChild(j) \/ StoreChild(j)
             \/ WriteExitCode(j) \/ StampFinished(j) \/ Conclude(j) \/ NotifyWaiters(j)
    <3>1. UNCHANGED <<proc, signalled, killed>>
      BY <2>1 DEF SpawnFails, StampFailedSpawn, TakeChild, StoreChild, WriteExitCode,
         StampFinished, Conclude, NotifyWaiters
    <3>2. \A k \in Jobs : job'[k].pid = job[k].pid
      <4>1. CASE TakeChild(j) \/ StoreChild(j) \/ NotifyWaiters(j)
        BY <4>1 DEF TakeChild, StoreChild, NotifyWaiters
      <4>2. CASE SpawnFails(j) \/ Conclude(j)
        <5>1. PICK x : job' = [job EXCEPT ![j].status = x]
          BY <4>2 DEF SpawnFails, Conclude
        <5> QED
          BY <1>0, <5>1 DEF TypeOK, JobRecords
      <4>3. CASE StampFailedSpawn(j) \/ StampFinished(j)
        <5>1. PICK x : job' = [job EXCEPT ![j].finishedAt = x]
          BY <4>3 DEF StampFailedSpawn, StampFinished
        <5> QED
          BY <1>0, <5>1 DEF TypeOK, JobRecords
      <4>4. CASE WriteExitCode(j)
        BY <1>0, <4>4 DEF WriteExitCode, TypeOK, JobRecords
      <4> QED
        BY <2>1, <4>1, <4>2, <4>3, <4>4
    <3> QED
      BY <1>0, <1>1, <3>1, <3>2
  <2>2. CASE RecordPid(j)
    <3>1. /\ UNCHANGED <<proc, signalled, killed>>
          /\ run[j] = "spawned" /\ proc[j].state # "none"
          /\ job' = [job EXCEPT ![j].pid = proc[j].pid]
      BY <1>0, <2>2 DEF RecordPid, JobInv, ProcessInv
    <3>2. \A k \in Jobs : Named(k)'
      BY <1>0, <3>1 DEF Named, TypeOK, JobRecords
    <3>3. \A k \in Jobs : Advances(k)
      BY <3>1 DEF Advances
    <3>4. /\ \A k, l \in Jobs : Distinct(k, l)'
          /\ \A k \in Jobs : Explained(k)'
      BY <1>0, <3>1, <3>3, AdvancesKeep
    <3> QED
      BY <3>2, <3>4
  <2>3. CASE WaitChild(j)
    <3>1. /\ UNCHANGED <<job, signalled, killed>>
          /\ proc[j].state = "zombie" /\ proc' = [proc EXCEPT ![j].state = "reaped"]
      BY <2>3 DEF WaitChild
    <3>2. \A k \in Jobs : Advances(k)
      BY <1>0, <3>1 DEF Advances, TypeOK, Processes
    <3> QED
      BY <1>2, <3>1, <3>2
  <2>4. ASSUME NEW p \in Pids, SpawnSucceeds(j, p) PROVE Kept
    <3>1. /\ UNCHANGED <<job, signalled, killed>>
          /\ run[j] = "queued" /\ proc[j].state = "none"
          /\ proc' = [proc EXCEPT ![j] = [state |-> "alive", pid |-> p, code |-> NULL]]
          /\ p \notin UsedPids
      BY <1>0, <2>4 DEF SpawnSucceeds, JobInv, ProcessInv
    <3>2. /\ proc'[j].state = "alive" /\ proc'[j].pid = p
          /\ \A k \in Jobs : k # j => proc'[k] = proc[k]
      BY <1>0, <3>1 DEF TypeOK
    <3>3. \A k \in Jobs : Named(k)'
      BY <1>0, <3>1, <3>2 DEF Named
    <3>4. \A k \in Jobs : proc[k].state \in {"alive", "zombie"} => proc[k].pid # p
      BY <3>1 DEF UsedPids
    <3>5. \A k, l \in Jobs : Distinct(k, l)'
      BY <3>2, <3>4 DEF SignalInv, Distinct
    <3>6. \A k \in Jobs : Explained(k)'
      BY <1>0, <3>1, <3>2 DEF Explained
    <3> QED
      BY <3>3, <3>5, <3>6
  <2> QED
    BY <1>4, <2>1, <2>2, <2>3, <2>4 DEF RunJob
<1>5. ASSUME NEW j \in Jobs, KillMark(j) PROVE Kept
  <2>1. UNCHANGED <<proc, signalled>> /\ killed' = killed \cup {j}
    BY <1>5 DEF KillMark
  <2>2. \A k \in Jobs : job'[k].pid = job[k].pid
    BY <1>0, <1>5 DEF KillMark, TypeOK, JobRecords
  <2> QED
    BY <1>0, <1>1, <2>1, <2>2
<1>6. ASSUME NEW j \in Jobs, KillJob(j) PROVE Kept
  <2>1. CASE KillFindsNoPid(j) \/ KillFindsNoChild(j) \/ KillFails(j)
    <3>1. UNCHANGED <<proc, signalled, killed, job>>
      BY <2>1 DEF KillFindsNoPid, KillFindsNoChild, KillFails
    <3> QED
      BY <1>0, <1>1, <3>1
  <2>2. CASE KillTerminates(j)
    <3>1. PICK dead \in SUBSET Holders(job[j].pid) : proc' = Ended(dead)
      BY <2>2 DEF KillTerminates
    <3>2. signalled' = signalled \cup Holders(job[j].pid) /\ UNCHANGED <<job, run, killed>>
      BY <2>2 DEF KillTerminates
    <3>3. j \in killed
      BY <1>0, <2>2 DEF KillTerminates, JobInv, KillInv
    <3> QED
      BY <3>1, <3>2, <3>3, SignalSteps
  <2>3. CASE KillTakesChild(j)
    <3>1. /\ UNCHANGED <<job, killed>> /\ signalled' = signalled \cup {j}
          /\ j \in killed
          /\ proc' = Ended({j} \cap {k \in Jobs : proc[k].state = "alive"})
      BY <1>0, <2>3 DEF KillTakesChild, JobInv, KillInv
    <3>2. {j} \cap {k \in Jobs : proc[k].state = "alive"} \subseteq Holders(proc[j].pid)
      BY DEF Holders
    <3>3. \A k \in Jobs : Advances(k)
      BY <1>0, <3>1, <3>2, EndedProcesses DEF Advances
    <3> QED
      BY <1>2, <3>1, <3>3
  <2>4. CASE KillReturns(j)
    <3>1. /\ UNCHANGED <<job, signalled, killed>>
          /\ proc[j].state \in {"zombie", "reaped"}
          /\ proc' = [proc EXCEPT ![j].state = "reaped"]
      BY <1>0, <2>4 DEF KillReturns, JobInv, KillInv
    <3>2. \A k \in Jobs : Advances(k)
      BY <1>0, <3>1 DEF Advances, TypeOK, Processes
    <3> QED
      BY <1>2, <3>1, <3>2
  <2> QED
    BY <1>6, <2>1, <2>2, <2>3, <2>4 DEF KillJob
<1>7. ASSUME NEW j \in Jobs, SendSigkill(j) PROVE Kept
  <2>1. /\ j \in killed /\ proc' = Ended(Holders(job[j].pid))
        /\ signalled' = signalled \cup Holders(job[j].pid)
        /\ UNCHANGED <<job, run, killed>>
    BY <1>0, <1>7 DEF SendSigkill, JobInv, KillInv
  <2> QED
    BY <2>1, SignalSteps
<1>8. ASSUME NEW j \in Jobs, ProcessEnds(j) PROVE Kept
  <2>1. PICK c : /\ proc' = [proc EXCEPT ![j].state = "zombie", ![j].code = c]
                 /\ proc[j].state = "alive"
                 /\ UNCHANGED <<job, signalled, killed>>
    BY <1>8 DEF ProcessEnds
  <2>2. \A k \in Jobs : Advances(k)
    BY <1>0, <2>1 DEF Advances, TypeOK, Processes
  <2> QED
    BY <1>2, <2>1, <2>2
<1>9. CASE Tick \/ UNCHANGED vars \/ \E j \in Jobs : Evict(j) \/ \E s \in Streams : StreamEnds(j, s)
  <2>1. UNCHANGED <<proc, signalled, killed, job>>
    BY <1>9 DEF Tick, vars, Evict, StreamEnds
  <2> QED
    BY <1>0, <1>1, <2>1
<1> QED
  BY <1>3, <1>4, <1>5, <1>6, <1>7, <1>8, <1>9 DEF Next

(* A signal reaches the process of a job that nobody killed only under an   *)
(* id that was given out again, for any number of jobs, kills and ids.      *)
THEOREM SignalsAreExplained == Spec => []SignalsExplained
<1>1. SignalInv => SignalsExplained
  BY DEF SignalInv, OutcomeInv, TypeOK, Explained, SignalsExplained
<1> QED
  BY <1>1, InitSignals, NextSignals, PTL DEF Spec

(***************************************************************************)
(* The processes of dropped jobs                                           *)
(***************************************************************************)

(* A kill that is over has left a process that lives, or that is still to   *)
(* be spawned, only if SIGKILL is to come or the kill reached nothing.      *)
Reached(j) ==
  /\ timers[j] > 0 => job[j].pid # NULL
  /\ j \in killed /\ killer[j] = 0 /\ proc[j].state \in {"none", "alive"} =>
       timers[j] > 0 \/ j \in missed

OrphanInv == SignalInv /\ \A j \in Jobs : Reached(j)

(* The state Reached(k) is about. *)
LEMMA ReachedFrame ==
  ASSUME NEW k \in Jobs, Reached(k),
         timers'[k] = timers[k], killer'[k] = killer[k],
         job[k].pid # NULL => job'[k].pid # NULL,
         proc'[k].state \in {"none", "alive"} => proc[k].state \in {"none", "alive"},
         k \in killed' <=> k \in killed, k \in missed => k \in missed'
  PROVE  Reached(k)'
  BY DEF Reached

LEMMA NextReached ==
  ASSUME OrphanInv, [Next]_vars, NEW k \in Jobs
  PROVE  Reached(k)'
<1> USE DEF startVars, killVars, runVars
<1>0. /\ TypeOK /\ Reached(k) /\ SignalInv
      /\ \A j \in Jobs : JobInv(j) /\ Named(j)
  BY DEF OrphanInv, SignalInv, OutcomeInv
<1>1. ASSUME NEW j \in Jobs, Handle(j) \/ Watch(j) PROVE Reached(k)'
  <2>1. UNCHANGED <<proc, killed, timers, killer, missed>> /\ job'[k].pid = job[k].pid
    BY <1>0, <1>1 DEF Handle, Watch, RejectStart, AdmitStart, StartJob, ReplyStarted,
       WatcherListens, WatcherDecrements, TypeOK, JobRecords
  <2> QED
    BY <1>0, <2>1, ReachedFrame
<1>2. ASSUME NEW j \in Jobs, RunJob(j) PROVE Reached(k)'
  <2>1. UNCHANGED <<killed, timers, killer, missed>>
    BY <1>2 DEF RunJob, SpawnFails, StampFailedSpawn, SpawnSucceeds, RecordPid, StoreChild,
       TakeChild, WaitChild, WriteExitCode, StampFinished, Conclude, NotifyWaiters
  <2>2. job[k].pid # NULL => job'[k].pid # NULL
    <3>1. CASE \/ SpawnFails(j) \/ StampFailedSpawn(j) \/ WriteExitCode(j) \/ StampFinished(j)
               \/ Conclude(j)
      <4>1. CASE SpawnFails(j) \/ Conclude(j)
        <5>1. PICK x : job' = [job EXCEPT ![j].status = x]
          BY <4>1 DEF SpawnFails, Conclude
        <5> QED
          BY <1>0, <5>1 DEF TypeOK, JobRecords
      <4>2. CASE StampFailedSpawn(j) \/ StampFinished(j)
        <5>1. PICK x : job' = [job EXCEPT ![j].finishedAt = x]
          BY <4>2 DEF StampFailedSpawn, StampFinished
        <5> QED
          BY <1>0, <5>1 DEF TypeOK, JobRecords
      <4>3. CASE WriteExitCode(j)
        BY <1>0, <4>3 DEF WriteExitCode, TypeOK, JobRecords
      <4> QED
        BY <3>1, <4>1, <4>2, <4>3
    <3>2. CASE RecordPid(j)
      <4>1. proc[j].pid # NULL
        BY <1>0, <3>2, JobsAssumption DEF RecordPid, JobInv, ProcessInv, Named
      <4> QED
        BY <1>0, <3>2, <4>1 DEF RecordPid, TypeOK, JobRecords
    <3>3. CASE \/ \E p \in Pids : SpawnSucceeds(j, p)
               \/ StoreChild(j) \/ TakeChild(j) \/ WaitChild(j) \/ NotifyWaiters(j)
      BY <3>3 DEF SpawnSucceeds, StoreChild, TakeChild, WaitChild, NotifyWaiters
    <3> QED
      BY <1>2, <3>1, <3>2, <3>3 DEF RunJob
  <2>3. proc'[k].state \in {"none", "alive"} => proc[k].state \in {"none", "alive"}
    <3>1. ASSUME NEW p \in Pids, SpawnSucceeds(j, p)
          PROVE  proc'[k].state \in {"none", "alive"} => proc[k].state \in {"none", "alive"}
      <4>1. proc[j].state = "none" /\ \A l \in Jobs : l # j => proc'[l] = proc[l]
        BY <1>0, <3>1 DEF SpawnSucceeds, JobInv, ProcessInv, TypeOK
      <4> QED
        BY <4>1
    <3>2. CASE WaitChild(j)
      BY <1>0, <3>2 DEF WaitChild, TypeOK, Processes
    <3>3. CASE \/ SpawnFails(j) \/ StampFailedSpawn(j) \/ RecordPid(j) \/ StoreChild(j)
               \/ TakeChild(j) \/ WriteExitCode(j) \/ StampFinished(j) \/ Conclude(j)
               \/ NotifyWaiters(j)
      BY <3>3 DEF SpawnFails, StampFailedSpawn, RecordPid, StoreChild, TakeChild, WriteExitCode,
         StampFinished, Conclude, NotifyWaiters
    <3> QED
      BY <1>2, <3>1, <3>2, <3>3 DEF RunJob
  <2> QED
    BY <1>0, <2>1, <2>2, <2>3, ReachedFrame
<1>3. ASSUME NEW j \in Jobs, KillMark(j) PROVE Reached(k)'
  <2>1. /\ UNCHANGED <<proc, timers, missed>> /\ job'[k].pid = job[k].pid
        /\ killed' = killed \cup {j}
        /\ killer' = [killer EXCEPT ![j] = killer[j] + 1]
    BY <1>0, <1>3 DEF KillMark, TypeOK, JobRecords
  <2>2. killer'[j] # 0 /\ (k # j => killer'[k] = killer[k])
    BY <1>0, <2>1 DEF TypeOK
  <2> QED
    BY <1>0, <2>1, <2>2 DEF Reached
<1>4. ASSUME NEW j \in Jobs, KillJob(j), k # j PROVE Reached(k)'
  <2>1. /\ timers'[k] = timers[k] /\ killer'[k] = killer[k] /\ job' = job /\ killed' = killed
        /\ k \in missed => k \in missed'
    BY <1>0, <1>4 DEF KillJob, KillFindsNoPid, KillTerminates, KillTakesChild, KillFails,
       KillReturns, KillFindsNoChild, TypeOK
  <2>2. proc'[k].state \in {"none", "alive"} => proc[k].state \in {"none", "alive"}
    <3>1. CASE KillFindsNoPid(j) \/ KillFindsNoChild(j) \/ KillFails(j)
      BY <3>1 DEF KillFindsNoPid, KillFindsNoChild, KillFails
    <3>2. CASE KillTerminates(j)
      <4>1. PICK dead \in SUBSET Holders(job[j].pid) : proc' = Ended(dead)
        BY <3>2 DEF KillTerminates
      <4> QED
        BY <1>0, <4>1, EndedProcesses
    <3>3. CASE KillTakesChild(j)
      BY <1>4, <3>3 DEF KillTakesChild, Ended
    <3>4. CASE KillReturns(j)
      BY <1>0, <1>4, <3>4 DEF KillReturns, TypeOK
    <3> QED
      BY <1>4, <3>1, <3>2, <3>3, <3>4 DEF KillJob
  <2> QED
    BY <1>0, <2>1, <2>2, ReachedFrame
<1>5. CASE KillFindsNoPid(k) \/ KillFindsNoChild(k) \/ KillFails(k)
  <2>1. k \in missed' /\ UNCHANGED <<job, timers>>
    BY <1>5 DEF KillFindsNoPid, KillFindsNoChild, KillFails
  <2> QED
    BY <1>0, <2>1 DEF Reached
<1>6. CASE KillTerminates(k)
  <2>1. timers'[k] > 0 /\ job[k].pid # NULL /\ job' = job
    BY <1>0, <1>6 DEF KillTerminates, TypeOK
  <2> QED
    BY <2>1 DEF Reached
<1>7. CASE KillTakesChild(k) \/ KillReturns(k)
  <2>1. UNCHANGED <<job, timers>>
    BY <1>7 DEF KillTakesChild, KillReturns
  <2>2. proc'[k].state \in {"zombie", "reaped"}
    <3>1. CASE KillTakesChild(k)
      <4>1. proc[k].state # "none"
        BY <1>0, <3>1 DEF KillTakesChild, JobInv, ProcessInv
      <4>2. proc' = Ended({k} \cap {l \in Jobs : proc[l].state = "alive"})
        BY <3>1 DEF KillTakesChild
      <4>3. CASE proc[k].state = "alive"
        BY <1>0, <4>2, <4>3 DEF Ended, TypeOK, Processes
      <4>4. CASE proc[k].state # "alive"
        BY <1>0, <4>1, <4>2, <4>4 DEF Ended, TypeOK, Processes
      <4> QED
        BY <4>3, <4>4
    <3>2. CASE KillReturns(k)
      BY <1>0, <3>2 DEF KillReturns, TypeOK, Processes
    <3> QED
      BY <1>7, <3>1, <3>2
  <2> QED
    BY <1>0, <2>1, <2>2 DEF Reached
<1>8. ASSUME NEW j \in Jobs, SendSigkill(j) PROVE Reached(k)'
  <2>1. /\ proc' = Ended(Holders(job[j].pid)) /\ UNCHANGED <<job, killed, killer, missed>>
        /\ timers[j] > 0 /\ timers' = [timers EXCEPT ![j] = timers[j] - 1]
    BY <1>8 DEF SendSigkill
  <2>2. proc'[k].state \in {"none", "alive"} => proc[k].state \in {"none", "alive"}
    BY <1>0, <2>1, EndedProcesses
  <2>3. CASE k # j
    BY <1>0, <2>1, <2>2, <2>3, ReachedFrame DEF TypeOK
  <2>4. CASE k = j
    <3>1. job[k].pid # NULL /\ job[k].pid = proc[k].pid /\ proc[k].state # "none"
      BY <1>0, <2>1, <2>4 DEF Reached, Named
    <3>2. proc'[k].state \notin {"none", "alive"}
      <4>1. CASE proc[k].state = "alive"
        BY <1>0, <2>1, <2>4, <3>1, <4>1 DEF Ended, Holders, TypeOK, Processes
      <4>2. CASE proc[k].state # "alive"
        BY <2>2, <3>1, <4>2, <2>1, <2>4 DEF Ended, Holders
      <4> QED
        BY <4>1, <4>2
    <3> QED
      BY <2>1, <3>1, <3>2 DEF Reached
  <2> QED
    BY <2>3, <2>4
<1>9. ASSUME NEW j \in Jobs, ProcessEnds(j) PROVE Reached(k)'
  <2>1. /\ UNCHANGED <<job, killed, killer, missed, timers>>
        /\ \E c : proc' = [proc EXCEPT ![j].state = "zombie", ![j].code = c]
    BY <1>9 DEF ProcessEnds
  <2>2. proc'[k].state \in {"none", "alive"} => proc[k].state \in {"none", "alive"}
    BY <1>0, <2>1 DEF TypeOK, Processes
  <2> QED
    BY <1>0, <2>1, <2>2, ReachedFrame
<1>10. CASE Tick \/ UNCHANGED vars \/ \E j \in Jobs : Evict(j) \/ \E s \in Streams : StreamEnds(j, s)
  <2>1. UNCHANGED <<proc, job, killed, killer, missed, timers>>
    BY <1>10 DEF Tick, vars, Evict, StreamEnds
  <2> QED
    BY <1>0, <2>1, ReachedFrame
<1>11. ASSUME NEW j \in Jobs, KillJob(j) PROVE Reached(k)'
  BY <1>4, <1>5, <1>6, <1>7, <1>11 DEF KillJob
<1> QED
  BY <1>1, <1>2, <1>3, <1>8, <1>9, <1>10, <1>11 DEF Next

(* When the eviction task has dropped a job, its process was waited for or   *)
(* is dead, unless a kill of the job reached nothing or SIGKILL is to come:  *)
(* for any number of kills, one after the other or side by side.             *)
THEOREM OrphansAreExplained == Spec => []OrphansExplained
<1>1. Init => OrphanInv
  <2> SUFFICES ASSUME Init PROVE \A j \in Jobs : Reached(j)
    BY InitSignals DEF OrphanInv
  <2> QED
    BY DEF Init, Reached
<1>2. OrphanInv /\ [Next]_vars => OrphanInv'
  <2> SUFFICES ASSUME OrphanInv, [Next]_vars PROVE OrphanInv'
    OBVIOUS
  <2>1. SignalInv'
    BY NextSignals DEF OrphanInv
  <2> QED
    BY <2>1, NextReached DEF OrphanInv
<1>3. OrphanInv => OrphansExplained
  <2> SUFFICES ASSUME OrphanInv, NEW j \in Jobs, run[j] # "none", j \notin store
               PROVE  \/ proc[j].state \in {"none", "reaped"}
                      \/ j \in killed /\ (proc[j].state # "alive" \/ timers[j] > 0 \/ j \in missed)
    BY DEF OrphansExplained
  <2>1. JobInv(j) /\ Reached(j)
    BY DEF OrphanInv, SignalInv, OutcomeInv
  <2>2. CASE j \in killed
    BY <2>1, <2>2 DEF JobInv, DroppedInv, Reached
  <2>3. CASE j \notin killed
    BY <2>1, <2>3 DEF JobInv, DroppedInv, ProcessInv
  <2> QED
    BY <2>2, <2>3
<1> QED
  BY <1>1, <1>2, <1>3, PTL DEF Spec

(***************************************************************************)
(* Counts: how far the job store may go over max_jobs, and what the         *)
(* jobs_running gauge is worth                                             *)
(***************************************************************************)

Admitted == {j \in Jobs : handler[j] = "admitted"}

LEMMA FiniteCounts ==
  ASSUME TypeOK
  PROVE  /\ IsFiniteSet(store) /\ Cardinality(store) \in Nat
         /\ IsFiniteSet(Admitted) /\ Cardinality(Admitted) \in Nat
         /\ IsFiniteSet(Starting) /\ Cardinality(Starting) \in Nat
         /\ Cardinality(Admitted) <= Cardinality(Starting)
<1>1. IsFiniteSet(store)
  BY JobsAssumption, FS_Subset DEF TypeOK
<1>2. Starting \in SUBSET Jobs /\ Admitted \in SUBSET Starting
  BY DEF Starting, Admitted
<1>3. IsFiniteSet(Starting)
  BY <1>2, JobsAssumption, FS_Subset
<1>4. IsFiniteSet(Admitted) /\ Cardinality(Admitted) <= Cardinality(Starting)
  BY <1>2, <1>3, FS_Subset
<1> QED
  BY <1>1, <1>3, <1>4, FS_CardinalityType

LEMMA InitOvershoot == Init => OvershootBounded
<1> SUFFICES ASSUME Init PROVE OvershootBounded
  OBVIOUS
<1>1. store = {} /\ Admitted = {}
  BY DEF Init, Admitted
<1>2. Cardinality(store) = 0 /\ Cardinality(Admitted) = 0
  BY <1>1, FS_EmptySet
<1>3. MaxJobs + Workers - 1 >= 0
  BY JobsAssumption
<1> QED
  BY <1>2, <1>3 DEF OvershootBounded, Admitted

LEMMA NextOvershoot ==
  ASSUME TypeOK, TypeOK', OvershootBounded, [Next]_vars
  PROVE  OvershootBounded'
<1> USE JobsAssumption, FiniteCounts
<1> DEFINE Bound == MaxJobs + Workers - 1
<1>1. Cardinality(store) + Cardinality(Admitted) <= Bound
  BY DEF OvershootBounded, Admitted
<1>2. SUFFICES Cardinality(store') + Cardinality(Admitted') <= Bound
  BY DEF OvershootBounded, Admitted
<1>3. CASE store' = store /\ Admitted' = Admitted
  BY <1>1, <1>3
<1>4. ASSUME NEW j \in Jobs, AdmitStart(j)
      PROVE  Cardinality(store') + Cardinality(Admitted') <= Bound
  <2>1. store' = store /\ Admitted' = Admitted \cup {j} /\ j \notin Admitted
    BY <1>4 DEF AdmitStart, Admitted, TypeOK
  <2>2. Cardinality(Admitted') = Cardinality(Admitted) + 1
    BY <2>1, FS_AddElement
  <2>3. Cardinality(store) <= MaxJobs - 1 /\ Cardinality(Admitted) <= Workers - 1
    BY <1>4 DEF AdmitStart, AtCapacity
  <2> QED
    BY <2>1, <2>2, <2>3
<1>5. ASSUME NEW j \in Jobs, StartJob(j)
      PROVE  Cardinality(store') + Cardinality(Admitted') <= Bound
  <2>1. store' = store \cup {j} /\ Admitted' = Admitted \ {j} /\ j \in Admitted
    BY <1>5 DEF StartJob, Admitted, TypeOK
  <2>2. Cardinality(store') <= Cardinality(store) + 1 /\ Cardinality(store') \in Nat
    <3>1. Cardinality(store \cup {j}) = IF j \in store THEN Cardinality(store)
                                       ELSE Cardinality(store) + 1
      BY FS_AddElement
    <3> QED
      BY <2>1, <3>1
  <2>3. Cardinality(Admitted') = Cardinality(Admitted) - 1
    BY <2>1, FS_RemoveElement
  <2> QED
    BY <1>1, <2>2, <2>3
<1>6. ASSUME NEW j \in Jobs, Evict(j)
      PROVE  Cardinality(store') + Cardinality(Admitted') <= Bound
  <2>1. store' = store \ {j} /\ Admitted' = Admitted
    BY <1>6 DEF Evict, Admitted
  <2>2. Cardinality(store') <= Cardinality(store) /\ Cardinality(store') \in Nat
    <3>1. /\ IsFiniteSet(store \ {j})
          /\ Cardinality(store \ {j}) = IF j \in store THEN Cardinality(store) - 1
                                        ELSE Cardinality(store)
      BY FS_RemoveElement
    <3>2. Cardinality(store \ {j}) \in Nat
      BY <3>1, FS_CardinalityType
    <3> QED
      BY <2>1, <3>1, <3>2
  <2> QED
    BY <1>1, <2>1, <2>2
<1>7. ASSUME NEW j \in Jobs, RejectStart(j) \/ ReplyStarted(j)
      PROVE  store' = store /\ Admitted' = Admitted
  BY <1>7 DEF RejectStart, ReplyStarted, Admitted, TypeOK
<1>8. ASSUME NEW j \in Jobs,
             \/ Watch(j) \/ RunJob(j) \/ KillMark(j) \/ KillJob(j) \/ SendSigkill(j)
             \/ ProcessEnds(j) \/ \E s \in Streams : StreamEnds(j, s)
      PROVE  store' = store /\ handler' = handler
  BY <1>8 DEF Watch, WatcherListens, WatcherDecrements, RunJob, SpawnFails, StampFailedSpawn,
     SpawnSucceeds, RecordPid, StoreChild, TakeChild, WaitChild, WriteExitCode, StampFinished,
     Conclude, NotifyWaiters, KillMark, KillJob, KillFindsNoPid, KillTerminates,
     KillTakesChild, KillFails, KillReturns, KillFindsNoChild, SendSigkill, ProcessEnds,
     StreamEnds, startVars
<1>9. CASE Tick \/ UNCHANGED vars
  BY <1>3, <1>9 DEF Tick, vars, startVars, Admitted
<1>10. ASSUME store' = store /\ handler' = handler PROVE store' = store /\ Admitted' = Admitted
  BY <1>10 DEF Admitted
<1> QED
  BY <1>3, <1>4, <1>5, <1>6, <1>7, <1>8, <1>9, <1>10 DEF Next, Handle

(* post_job_start lets the store grow past max_jobs by the handlers that     *)
(* passed the check side by side and by no more: with W worker threads the   *)
(* store never holds more than max_jobs + W - 1 jobs.                        *)
THEOREM OvershootIsBounded == Spec => []OvershootBounded
<1>1. TypeOK /\ TypeOK' /\ OvershootBounded /\ [Next]_vars => OvershootBounded'
  BY NextOvershoot
<1> QED
  BY <1>1, InitOvershoot, JobTypes, PTL DEF Spec

-----------------------------------------------------------------------------

(* The jobs the jobs_running gauge counts. *)
Gauged == {j \in Jobs : watcher[j] \in {"spawned", "listening", "woken"}}

(* A watcher exists from the reply on, and is woken only by the end of      *)
(* run_job.                                                                 *)
WatcherInv(j) ==
  /\ handler[j] = "replied" => watcher[j] # "none"
  /\ handler[j] # "replied" => watcher[j] = "none"
  /\ watcher[j] \in {"woken", "done"} => run[j] = "ended"

GaugeInv ==
  /\ OutcomeInv
  /\ \A j \in Jobs : WatcherInv(j)
  /\ metrics.running = Cardinality(Gauged)

LEMMA FiniteGauge == IsFiniteSet(Gauged) /\ Cardinality(Gauged) \in Nat
<1>1. IsFiniteSet(Gauged)
  BY JobsAssumption, FS_Subset DEF Gauged
<1> QED
  BY <1>1, FS_CardinalityType

LEMMA InitGauge == Init => GaugeInv
<1> SUFFICES ASSUME Init PROVE GaugeInv
  OBVIOUS
<1>1. Gauged = {}
  BY DEF Init, Gauged
<1>2. metrics.running = Cardinality(Gauged)
  BY <1>1, FS_EmptySet DEF Init
<1>3. \A j \in Jobs : WatcherInv(j)
  BY DEF Init, WatcherInv
<1> QED
  BY <1>2, <1>3, InitOutcome DEF GaugeInv

LEMMA NextWatcher ==
  ASSUME GaugeInv, [Next]_vars, NEW k \in Jobs
  PROVE  WatcherInv(k)'
<1> USE DEF GaugeInv, OutcomeInv, JobInv, RequestInv, WatcherInv, TypeOK,
            startVars, killVars, runVars
<1>1. ASSUME NEW j \in Jobs, Handle(j) PROVE WatcherInv(k)'
  BY <1>1 DEF Handle, RejectStart, AdmitStart, StartJob, ReplyStarted
<1>2. ASSUME NEW j \in Jobs, Watch(j) PROVE WatcherInv(k)'
  BY <1>2 DEF Watch, WatcherListens, WatcherDecrements
<1>3. ASSUME NEW j \in Jobs, NotifyWaiters(j) PROVE WatcherInv(k)'
  BY <1>3 DEF NotifyWaiters
<1>4. ASSUME NEW j \in Jobs, RunJob(j), ~NotifyWaiters(j) PROVE WatcherInv(k)'
  <2>1. /\ handler' = handler /\ watcher' = watcher
        /\ run[j] # "ended" /\ \A i \in Jobs : i # j => run'[i] = run[i]
    BY <1>4 DEF RunJob, SpawnFails, StampFailedSpawn, SpawnSucceeds, RecordPid, StoreChild,
       TakeChild, WaitChild, WriteExitCode, StampFinished, Conclude
  <2> QED
    BY <2>1
<1>5. ASSUME UNCHANGED <<handler, watcher, run>> PROVE WatcherInv(k)'
  BY <1>5
<1>6. ASSUME NEW j \in Jobs, KillMark(j) \/ KillJob(j) \/ SendSigkill(j) PROVE WatcherInv(k)'
  BY <1>5, <1>6 DEF KillMark, KillJob, KillFindsNoPid, KillTerminates, KillTakesChild,
     KillFails, KillReturns, KillFindsNoChild, SendSigkill
<1>7. ASSUME NEW j \in Jobs, Evict(j) \/ ProcessEnds(j) \/ \E s \in Streams : StreamEnds(j, s)
      PROVE WatcherInv(k)'
  BY <1>5, <1>7 DEF Evict, ProcessEnds, StreamEnds
<1>8. CASE Tick \/ UNCHANGED vars
  BY <1>5, <1>8 DEF Tick, vars
<1> QED
  BY <1>1, <1>2, <1>3, <1>4, <1>6, <1>7, <1>8 DEF Next

LEMMA NextGauge ==
  ASSUME GaugeInv, [Next]_vars
  PROVE  metrics'.running = Cardinality(Gauged')
<1> USE FiniteGauge
<1>1. metrics.running = Cardinality(Gauged) /\ metrics \in [rejected : Nat, started : Nat, running : Int]
  BY DEF GaugeInv, OutcomeInv, TypeOK
<1>2. ASSUME Gauged' = Gauged, metrics'.running = metrics.running
      PROVE  metrics'.running = Cardinality(Gauged')
  BY <1>1, <1>2
<1>3. ASSUME NEW j \in Jobs, ReplyStarted(j)
      PROVE  metrics'.running = Cardinality(Gauged')
  <2>1. j \notin Gauged /\ Gauged' = Gauged \cup {j}
    BY <1>3 DEF ReplyStarted, Gauged, GaugeInv, OutcomeInv, TypeOK, WatcherInv
  <2>2. metrics'.running = metrics.running + 1
    BY <1>1, <1>3 DEF ReplyStarted
  <2>3. Cardinality(Gauged \cup {j}) = Cardinality(Gauged) + 1
    BY <2>1, FS_AddElement
  <2> QED
    BY <1>1, <2>1, <2>2, <2>3
<1>4. ASSUME NEW j \in Jobs, WatcherDecrements(j)
      PROVE  metrics'.running = Cardinality(Gauged')
  <2>1. j \in Gauged /\ Gauged' = Gauged \ {j}
    BY <1>4 DEF WatcherDecrements, Gauged, GaugeInv, OutcomeInv, TypeOK
  <2>2. metrics'.running = metrics.running - 1
    BY <1>1, <1>4 DEF WatcherDecrements
  <2>3. Cardinality(Gauged \ {j}) = Cardinality(Gauged) - 1
    BY <2>1, FS_RemoveElement
  <2> QED
    BY <1>1, <2>1, <2>2, <2>3
<1>5. ASSUME NEW j \in Jobs, WatcherListens(j) \/ NotifyWaiters(j)
      PROVE  Gauged' = Gauged /\ metrics' = metrics
  BY <1>5 DEF WatcherListens, NotifyWaiters, Gauged, GaugeInv, OutcomeInv, TypeOK
<1>6. ASSUME NEW j \in Jobs, RejectStart(j) PROVE Gauged' = Gauged /\ metrics'.running = metrics.running
  BY <1>1, <1>6 DEF RejectStart, Gauged
<1>7. ASSUME watcher' = watcher, metrics' = metrics PROVE metrics'.running = Cardinality(Gauged')
  BY <1>1, <1>7 DEF Gauged
<1>8. ASSUME NEW j \in Jobs,
             \/ AdmitStart(j) \/ StartJob(j) \/ (RunJob(j) /\ ~NotifyWaiters(j))
             \/ KillMark(j) \/ KillJob(j) \/ SendSigkill(j) \/ Evict(j)
             \/ ProcessEnds(j) \/ \E s \in Streams : StreamEnds(j, s)
      PROVE  watcher' = watcher /\ metrics' = metrics
  BY <1>8 DEF AdmitStart, StartJob, RunJob, SpawnFails, StampFailedSpawn, SpawnSucceeds,
     RecordPid, StoreChild, TakeChild, WaitChild, WriteExitCode, StampFinished, Conclude,
     KillMark, KillJob, KillFindsNoPid, KillTerminates, KillTakesChild, KillFails, KillReturns, KillFindsNoChild,
     SendSigkill, Evict, ProcessEnds, StreamEnds, startVars
<1>9. CASE Tick \/ UNCHANGED vars
  BY <1>7, <1>9 DEF Tick, vars, startVars
<1> QED
  BY <1>2, <1>3, <1>4, <1>5, <1>6, <1>7, <1>8, <1>9 DEF Next, Handle, Watch

LEMMA GaugeIsUpperBound == GaugeInv => GaugeNeverLow
<1> SUFFICES ASSUME GaugeInv PROVE GaugeNeverLow
  OBVIOUS
<1>1. {j \in Jobs : handler[j] = "replied" /\ run[j] # "ended"} \in SUBSET Gauged
  BY DEF GaugeInv, OutcomeInv, TypeOK, WatcherInv, Gauged
<1> QED
  BY <1>1, FiniteGauge, FS_Subset DEF GaugeInv, GaugeNeverLow

(* The jobs_running gauge never shows fewer jobs than were counted in and    *)
(* still run, so it never wraps below zero either.                           *)
THEOREM GaugeIsNeverLow == Spec => []GaugeNeverLow
<1>1. GaugeInv /\ [Next]_vars => GaugeInv'
  <2> SUFFICES ASSUME GaugeInv, [Next]_vars PROVE GaugeInv'
    OBVIOUS
  <2>1. OutcomeInv'
    BY NextOutcome DEF GaugeInv
  <2> QED
    BY <2>1, NextWatcher, NextGauge DEF GaugeInv
<1>2. GaugeInv => GaugeNeverLow
  BY GaugeIsUpperBound
<1> QED
  BY <1>1, <1>2, InitGauge, PTL DEF Spec

(***************************************************************************)
(* AgentJobs implements JobLifecycle: its initial states map to initial    *)
(* states, and each of its steps to a lifecycle step or to none            *)
(***************************************************************************)

(* What a client can see of the jobs. *)
Seen == <<Phase, store, Concluded>>

LEMMA InitMaps == Init => Lifecycle!LifecycleInit
  BY DEF Init, Lifecycle!LifecycleInit, Phase, Concluded

(* A step that keeps the statuses, the list, and the border between "no     *)
(* outcome yet" and "outcome recorded" is invisible.                        *)
LEMMA Invisible ==
  ASSUME store' = store,
         \A k \in Jobs : job'[k].status = job[k].status,
         \A k \in Jobs : run'[k] = "none" <=> run[k] = "none",
         \A k \in Jobs : run'[k] \in {"unstamped", "notify", "ended"} <=>
                           run[k] \in {"unstamped", "notify", "ended"}
  PROVE  UNCHANGED Seen
<1>1. Phase' = Phase
  BY DEF Phase
<1>2. Concluded' = Concluded
  BY DEF Concluded
<1> QED
  BY <1>1, <1>2 DEF Seen

LEMMA StartMaps ==
  ASSUME OutcomeInv, NEW j \in Jobs, StartJob(j)
  PROVE  Lifecycle!Start(j)
<1> USE DEF OutcomeInv, TypeOK, JobInv, RequestInv, StartJob
<1>1. run[j] = "none" /\ job[j].status = "running" /\ job'[j].status = "running"
  BY DEF JobRecords
<1>2. Phase[j] = "absent" /\ Phase' = [Phase EXCEPT ![j] = "running"]
  BY <1>1 DEF Phase
<1>3. Concluded' = Concluded
  BY <1>1 DEF Concluded
<1> QED
  BY <1>2, <1>3 DEF Lifecycle!Start

(* The two ways in which run_job records an outcome. *)
LEMMA OutcomeMaps ==
  ASSUME OutcomeInv, NEW j \in Jobs, SpawnFails(j) \/ Conclude(j)
  PROVE  Lifecycle!RecordOutcome(j)
<1> USE DEF OutcomeInv, TypeOK, JobInv, SpawnFails, Conclude, startVars, killVars
<1>1. /\ run[j] \in {"queued", "conclude"}
      /\ run' = [run EXCEPT ![j] = IF SpawnFails(j) THEN "unstamped" ELSE "notify"]
  OBVIOUS
<1>2. PICK o \in {"finished", "failed"} : job' = [job EXCEPT ![j].status = o]
  OBVIOUS
<1>3. job'[j].status = o /\ \A k \in Jobs : k # j => job'[k] = job[k]
  BY <1>2 DEF JobRecords
<1>4. Phase[j] \in {"running", "killed"} /\ j \notin Concluded
  BY <1>1 DEF Phase, Concluded, StatusInv, JobRecords, Statuses
<1>5. Phase' = [Phase EXCEPT ![j] = o]
  BY <1>1, <1>3 DEF Phase
<1>6. Concluded' = Concluded \cup {j}
  BY <1>1 DEF Concluded
<1> QED
  BY <1>4, <1>5, <1>6 DEF Lifecycle!RecordOutcome, Lifecycle!Outcomes

LEMMA KillMaps ==
  ASSUME OutcomeInv, NEW j \in Jobs, KillMark(j)
  PROVE  Lifecycle!Kill(j)
<1> USE DEF OutcomeInv, TypeOK, JobInv, RequestInv, KillMark, startVars, runVars
<1>1. run[j] # "none" /\ job'[j].status = "killed" /\ \A k \in Jobs : k # j => job'[k] = job[k]
  BY DEF JobRecords
<1>2. Phase' = [Phase EXCEPT ![j] = "killed"]
  <2>1. \A k \in Jobs : Phase'[k] = IF k = j THEN "killed" ELSE Phase[k]
    BY <1>1 DEF Phase
  <2>2. Phase \in [Jobs -> Statuses \cup {"absent"}] /\ Phase' = [k \in Jobs |-> Phase'[k]]
    BY DEF Phase, JobRecords
  <2> QED
    BY <2>1, <2>2
<1> QED
  BY <1>2 DEF Lifecycle!Kill, Concluded

LEMMA EvictMaps ==
  ASSUME OutcomeInv, NEW j \in Jobs, Evict(j)
  PROVE  Lifecycle!Forget(j)
<1> USE DEF OutcomeInv, TypeOK, JobInv, RequestInv, Evict, runVars
<1>1. Phase[j] # "running"
  BY DEF Phase, Expired, IsDone
<1> QED
  BY <1>1 DEF Lifecycle!Forget, Phase, Concluded

(* Every other step is invisible. *)
LEMMA RunStutters ==
  ASSUME OutcomeInv, NEW j \in Jobs, RunJob(j), ~SpawnFails(j), ~Conclude(j)
  PROVE  UNCHANGED Seen
<1> USE DEF OutcomeInv, TypeOK, JobRecords, startVars, killVars
<1>1. store' = store /\ \A k \in Jobs : job'[k].status = job[k].status
  <2>1. store' = store
    BY DEF RunJob, StampFailedSpawn, SpawnSucceeds, RecordPid, StoreChild, TakeChild, WaitChild,
       WriteExitCode, StampFinished, NotifyWaiters
  <2>2. CASE StampFailedSpawn(j) \/ StampFinished(j)
    <3>1. PICK x : job' = [job EXCEPT ![j].finishedAt = x]
      BY <2>2 DEF StampFailedSpawn, StampFinished
    <3> QED
      BY <2>1, <3>1
  <2>3. CASE RecordPid(j)
    BY <2>1, <2>3 DEF RecordPid
  <2>4. CASE WriteExitCode(j)
    BY <2>1, <2>4 DEF WriteExitCode
  <2>5. CASE \/ \E p \in Pids : SpawnSucceeds(j, p)
             \/ StoreChild(j) \/ TakeChild(j) \/ WaitChild(j) \/ NotifyWaiters(j)
    <3>1. UNCHANGED job
      BY <2>5 DEF SpawnSucceeds, StoreChild, TakeChild, WaitChild, NotifyWaiters
    <3> QED
      BY <2>1, <3>1
  <2> QED
    BY <2>2, <2>3, <2>4, <2>5 DEF RunJob
<1>2. \A k \in Jobs : run'[k] = "none" <=> run[k] = "none"
  BY DEF RunJob, StampFailedSpawn, SpawnSucceeds, RecordPid, StoreChild, TakeChild, WaitChild,
     WriteExitCode, StampFinished, NotifyWaiters
<1>3. \A k \in Jobs : run'[k] \in {"unstamped", "notify", "ended"} <=>
                        run[k] \in {"unstamped", "notify", "ended"}
  BY DEF RunJob, StampFailedSpawn, SpawnSucceeds, RecordPid, StoreChild, TakeChild, WaitChild,
     WriteExitCode, StampFinished, NotifyWaiters
<1> QED
  BY <1>1, <1>2, <1>3, Invisible

LEMMA OthersStutter ==
  ASSUME NEW j \in Jobs,
         \/ RejectStart(j) \/ AdmitStart(j) \/ ReplyStarted(j) \/ Watch(j)
         \/ KillJob(j) \/ SendSigkill(j) \/ ProcessEnds(j)
         \/ \E s \in Streams : StreamEnds(j, s)
  PROVE  UNCHANGED Seen
<1>1. UNCHANGED <<store, job, run>>
  BY DEF RejectStart, AdmitStart, ReplyStarted, Watch, WatcherListens, WatcherDecrements,
     KillJob, KillFindsNoPid, KillTerminates, KillTakesChild, KillFails, KillReturns, KillFindsNoChild, SendSigkill,
     ProcessEnds, StreamEnds, startVars, runVars
<1> QED
  BY <1>1, Invisible

LEMMA NextMaps == OutcomeInv /\ [Next]_vars => [Lifecycle!LifecycleNext]_Seen
<1> SUFFICES ASSUME OutcomeInv, [Next]_vars PROVE Lifecycle!LifecycleNext \/ UNCHANGED Seen
  OBVIOUS
<1>1. ASSUME NEW j \in Jobs, Handle(j) PROVE Lifecycle!LifecycleNext \/ UNCHANGED Seen
  BY <1>1, StartMaps, OthersStutter DEF Handle, Lifecycle!LifecycleNext
<1>2. ASSUME NEW j \in Jobs, RunJob(j) PROVE Lifecycle!LifecycleNext \/ UNCHANGED Seen
  BY <1>2, OutcomeMaps, RunStutters DEF Lifecycle!LifecycleNext
<1>3. ASSUME NEW j \in Jobs, KillMark(j) \/ Evict(j)
      PROVE  Lifecycle!LifecycleNext \/ UNCHANGED Seen
  BY <1>3, KillMaps, EvictMaps DEF Lifecycle!LifecycleNext
<1>4. ASSUME NEW j \in Jobs,
             \/ Watch(j) \/ KillJob(j) \/ SendSigkill(j) \/ ProcessEnds(j)
             \/ \E s \in Streams : StreamEnds(j, s)
      PROVE  UNCHANGED Seen
  BY <1>4, OthersStutter
<1>5. CASE Tick \/ UNCHANGED vars
  <2>1. UNCHANGED <<store, job, run>>
    BY <1>5 DEF Tick, vars, startVars, runVars
  <2> QED
    BY <2>1, Invisible
<1> QED
  BY <1>1, <1>2, <1>3, <1>4, <1>5 DEF Next

(* What clients see of the agent's jobs is a behaviour of JobLifecycle: an   *)
(* outcome is recorded once, only kills change a status otherwise, and no    *)
(* running job is ever dropped from the list.                                *)
THEOREM ImplementsLifecycle == Spec => RefinesLifecycle
<1>1. [Lifecycle!LifecycleNext]_Seen => [Lifecycle!LifecycleNext]_(Lifecycle!abstractVars)
  BY DEF Seen, Lifecycle!abstractVars
<1>2. OutcomeInv /\ [Next]_vars => [Lifecycle!LifecycleNext]_(Lifecycle!abstractVars)
  BY <1>1, NextMaps
<1> QED
  BY <1>2, InitMaps, OutcomeInvariant, PTL DEF Spec, RefinesLifecycle, Lifecycle!LifecycleSpec

(***************************************************************************)
(* Status replies, read field by field while the job moves on              *)
(***************************************************************************)

(* The places of run_job from which it writes no exit code any more.        *)
Settled == {"unstamped", "notify", "ended"}

(* What a reply has said of a job's outcome remains true of the job, and the *)
(* fields read since agree with it.                                         *)
ReplyInv ==
  /\ reply.step \in {"none", "status", "exitCode", "answered"}
  /\ reply.step # "none" => reply.id \in Jobs
  /\ reply.step # "none" /\ reply.status = "finished" =>
       /\ run[reply.id] \in Settled
       /\ job[reply.id].exitCode = 0 /\ job[reply.id].finishedAt # NULL
       /\ reply.step # "status" => reply.exitCode = 0
       /\ reply.step = "answered" => reply.finishedAt # NULL
  /\ reply.step # "none" /\ reply.status = "failed" =>
       /\ run[reply.id] \in Settled
       /\ job[reply.id].exitCode # 0
       /\ reply.step # "status" => reply.exitCode = job[reply.id].exitCode
       /\ reply.step = "answered" /\ reply.exitCode # NULL => reply.finishedAt # NULL

(* A settled job keeps its exit code, and an end time once it has one.       *)
LEMMA SettledStays ==
  ASSUME OutcomeInv, [Next]_vars, NEW j \in Jobs, run[j] \in Settled
  PROVE  /\ run'[j] \in Settled
         /\ job'[j].exitCode = job[j].exitCode
         /\ job[j].finishedAt # NULL => job'[j].finishedAt # NULL
<1> USE DEF Settled, OutcomeInv, TypeOK, JobInv, RequestInv, JobRecords, startVars, killVars, runVars
<1>1. ASSUME NEW k \in Jobs, Handle(k) PROVE UNCHANGED run[j] /\ UNCHANGED job[j]
  BY <1>1 DEF Handle, RejectStart, AdmitStart, StartJob, ReplyStarted
<1>2. ASSUME NEW k \in Jobs, RunJob(k), k # j PROVE UNCHANGED run[j] /\ UNCHANGED job[j]
  BY <1>2 DEF RunJob, SpawnFails, StampFailedSpawn, SpawnSucceeds, RecordPid, StoreChild,
     TakeChild, WaitChild, WriteExitCode, StampFinished, Conclude, NotifyWaiters
<1>3. ASSUME RunJob(j) PROVE StampFailedSpawn(j) \/ NotifyWaiters(j)
  BY <1>3 DEF RunJob, SpawnFails, SpawnSucceeds, RecordPid, StoreChild,
     TakeChild, WaitChild, WriteExitCode, StampFinished, Conclude
<1>4. CASE StampFailedSpawn(j)
  BY <1>4, JobsAssumption DEF StampFailedSpawn
<1>5. CASE NotifyWaiters(j)
  BY <1>5 DEF NotifyWaiters
<1>6. ASSUME NEW k \in Jobs, KillMark(k)
      PROVE  /\ UNCHANGED run[j] /\ job'[j].exitCode = job[j].exitCode
             /\ job'[j].finishedAt = job[j].finishedAt
  BY <1>6 DEF KillMark
<1>7. ASSUME NEW k \in Jobs,
             \/ Watch(k) \/ KillJob(k) \/ SendSigkill(k) \/ Evict(k) \/ ProcessEnds(k)
             \/ \E s \in Streams : StreamEnds(k, s)
      PROVE  UNCHANGED run[j] /\ UNCHANGED job[j]
  BY <1>7 DEF Watch, WatcherListens, WatcherDecrements, KillJob, KillFindsNoPid, KillTerminates,
     KillTakesChild, KillFails, KillReturns, KillFindsNoChild, SendSigkill, Evict, ProcessEnds, StreamEnds
<1>8. CASE Tick \/ UNCHANGED vars
  BY <1>8 DEF Tick, vars
<1> QED
  BY <1>1, <1>2, <1>3, <1>4, <1>5, <1>6, <1>7, <1>8 DEF Next

LEMMA NextReply ==
  ASSUME OutcomeInv, ReplyInv, [RepliesNext]_replyVars
  PROVE  ReplyInv'
<1> USE DEF OutcomeInv, JobInv, FieldInv, StatusInv
<1>1. CASE [Next]_vars /\ UNCHANGED reply
  BY <1>1, SettledStays DEF ReplyInv
<1>2. ASSUME NEW j \in Jobs, ReadStatus(j) PROVE ReplyInv'
  BY <1>2, JobsAssumption DEF ReadStatus, ReplyInv, NoReply, vars, Settled
<1>3. CASE ReadExitCode
  BY <1>3 DEF ReadExitCode, ReplyInv, vars
<1>4. CASE ReadFinishedAt
  <2> DEFINE e == job[reply.id].finishedAt
  <2>1. /\ reply.step = "exitCode" /\ UNCHANGED vars
        /\ reply' = [reply EXCEPT !.step = "answered", !.finishedAt = e]
    BY <1>4 DEF ReadFinishedAt
  <2>2. reply.id \in Jobs /\ JobInv(reply.id)
    BY <2>1 DEF ReplyInv
  <2>3. run[reply.id] \in Settled /\ job[reply.id].exitCode # NULL => e # NULL
    BY <2>2 DEF Settled
  <2> QED
    BY <2>1, <2>3 DEF ReplyInv, vars
<1> QED
  BY <1>1, <1>2, <1>3, <1>4 DEF RepliesNext, replyVars

(* Reading takes no step of the jobs: what holds of them holds with readers. *)
LEMMA ReadersOnlyRead == RepliesSpec => Spec
<1>1. [RepliesNext]_replyVars => [Next]_vars
  BY DEF RepliesNext, replyVars, ReadStatus, ReadExitCode, ReadFinishedAt
<1> QED
  BY <1>1, PTL DEF RepliesSpec, RepliesInit, Spec

(* A status reply is never torn, whatever run_job, kills and evictions do    *)
(* between its three reads: "finished" comes with exit code 0 and an end     *)
(* time, "failed" with another exit code and an end time, unless the process *)
(* could not be spawned (get_job_status).                                    *)
THEOREM RepliesAreNotTorn == RepliesSpec => []ReplyNotTorn
<1>1. RepliesInit => ReplyInv
  BY DEF RepliesInit, ReplyInv, NoReply
<1>2. OutcomeInv /\ ReplyInv => ReplyNotTorn
  BY DEF OutcomeInv, JobInv, FieldInv, ReplyInv, ReplyNotTorn, Settled
<1>3. RepliesSpec => []OutcomeInv
  BY ReadersOnlyRead, OutcomeInvariant, PTL
<1> QED
  BY <1>1, <1>2, <1>3, NextReply, PTL DEF RepliesSpec

=============================================================================
