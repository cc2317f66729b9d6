# A TLA+ verification of remote-mcp

remote-mcp lets an MCP client run commands on remote machines. It has two
programs. The **agent** (`crates/agent`) is an HTTP daemon on each machine: it
runs commands and background jobs, keeps PTY sessions, edits files and reports
on the system. The **MCP server** (`crates/mcp-server`) keeps a registry of
machines, sends tool calls to their agents (or over SSH), guards each machine
with a circuit breaker and watches it with a heartbeat.

This directory holds TLA+ models of the parts with state and concurrency, TLC
configurations that check them on small instances, and TLAPS proofs of the
main safety properties for every value of the constants. `PROJECT.json` lists
the runs, the theorems and, for every definition, the source lines it stands
for.

## 1. Inventory

| Component | State | Operations | Hard behaviour | Model |
|---|---|---|---|---|
| Job output buffers (`jobs.rs` 25-86, `routes/job.rs` 93-135) | a queue of lines per stream, a counter of dropped bytes | push, tail, log request | two limits at once, tail and counter read under different locks | `StreamBuffer` |
| Background jobs (`jobs.rs` 89-295, `routes/job.rs`, `metrics.rs`) | job store, per-field locks of a job, `Child`, reader tasks, gauge | start, status, kill, list, run_job, eviction | the fields of a job are written one at a time by three tasks, check-then-insert, pids reused, lost notifications | `AgentJobs`, `JobReplies`, `JobLifecycle` |
| Circuit breakers and dispatch (`transport/mod.rs`, `tools/exec.rs`, `tools/machine.rs`) | state and failure times per machine | check, record_success, record_failure, every tool call | outcomes recorded by spawned tasks, late and reordered; window boundaries | `CircuitBreaker`, `Dispatch` |
| Heartbeat (`heartbeat.rs`) | the interval and its list of machines | list, ping, record | works on a stale list, races tool calls and removals | `Dispatch` |
| Machine registry (`db.rs`) | rows in SQLite | add, remove, get, update_heartbeat | updates of rows that are gone | `Dispatch` |
| PTY sessions (`sessions.rs`, `routes/session.rs`, `metrics.rs`) | session store with a lock per shard, reader and writer of a session, `last_active`, gauge | open, exec, close, idle check, read_until_sentinel | a map guard held across an await, worker threads blocked on it, reader threads that outlive their exec, reads that end anywhere, a gauge two tasks change | `AgentSessions`, `SessionShell` |
| Command execution (`routes/exec.rs`, `exec_agent`, `run_server`) | exec semaphore, timers of both sides, shells | exec with a timeout, lost connection, shutdown | a command outlives its permit; two timers race; the limit is fixed at the start | `AgentExec` |
| Agent configuration (`config.rs`) | hot configuration behind a lock, `agent.json` | resolve, reload on SIGHUP | a half-written file, signals during a reload, limits that are not read again | `AgentConfig` |
| File editing (`routes/file.rs`) | files | write, str-replace, insert, delete-lines, patch | read, change and write back without a lock; line numbers at the edges; writes that are cut | `AgentFiles` |
| Filesystem API (`routes/fs.rs`) | names | cp, mv, rm, find, and single system calls | a walk while names move; the edges of a glob | `AgentFiles` (the first four) |
| Tool table and dispatch (`main.rs`, `tools/mod.rs`) | none | 86 tools: schema, arm, answer | an argument passes four tables under names that are only strings | `ToolSchemas`, `ToolCalls` |
| MCP tools and fleet (`tools/*.rs`) | none | one request, or one for each machine | which failures an answer tells; partial failure of a fleet | `ToolRequests`, `ToolCalls` |
| Routes of the agent (`routes/*.rs`) | none beyond the above | about 80 handlers | what a handler refuses, and how it tells a failure | `AgentRoutes`, `ToolCalls` |
| HTTP client (`transport/agent.rs`) | a shared client | signed_get, signed_post, upload | timeouts, replies that are lost | `ToolCalls`, `AgentExec` |
| SSH transport (`transport/ssh.rs`) | a pool that is made anew for each command | connect, exec, collect output | the end of the output and the exit status come in any order, or not at all | `ToolCalls` (without the pool) |
| Request authentication (both `auth.rs`) | none | sign, verify | the order of the checks | one bit in `ToolCalls` |
| Audit log (`audit.rs`) | log file and its rotations | record, rotate | never run (section 8) | not modelled |
| Windows UI (`routes/ui.rs`, `tools/ui.rs`) | the desktop | 15 requests | two handlers share one mouse | requests only |
| Installation scripts | none | copy, register | none | not modelled |

### How the components interact

A tool call enters `McpService::dispatch_tool`, which reads the machine's row
from the registry and calls `dispatch_exec` or the agent's HTTP client.
`dispatch_exec` asks the machine's breaker, contacts the machine, and spawns a
task that records the outcome. The heartbeat does the same every 30 seconds
for every machine with an agent, and also writes the registry. On the agent, a
handler runs on one of the worker threads of the runtime; handlers, the tasks
they spawn, and the background reapers share the stores (`DashMap`), the
metrics (atomics) and the fields of a job or session (a lock each). The
operating system is the other actor: processes end when they like, and their
ids are used again.

The two programs share no types. The name of a tool leads to an arm of
`dispatch_tool`, the arm to a function in `tools/*.rs`, that to a path and
parameters, and these to a route and an extractor of the agent; each link is a
string that the compiler does not check.

### What makes each component correct

* **Buffers**: bounded; the newest lines are the ones kept; a log reply is a
  contiguous tail; no loss goes unreported but those that blank lines cause.
* **Jobs**: an outcome shown to a client is real; a process out of reach is one
  that a kill has missed; kills reach the job they name as long as its process id
  is its own; the capacity is exceeded by a known amount at most; the gauge does
  not run low; a job whose process and streams are over records its outcome.
* **Dispatch**: a circuit opens only on real, recent failures of that machine;
  a refused caller gets through when told; no machine is shut out for ever; a
  healthy machine recovers; a machine shown online did answer, at the time shown; a
  removed machine stays removed.
* **Sessions**: a session in use is not removed; one no longer used is; an
  exec whose line is written ends; the gauge errs in one known way only; an exec finds the
  end of its output however the terminal cuts it, unless another one took it.
* **Commands**: no permit is lost or given back twice; more shells than permits
  are alive only if some were given up; the client does not give up first; a
  reload takes effect; commands do not keep a shutdown from ending.
* **Files**: an edit that meets no other does what it says; a file at rest holds all
  of the text that was last meant for it, unless a failed, cut or overlapping write, or a
  text read from such a file, spoilt it, and the next lone write heals it; a walk misses
  no name that fits.
* **Tool calls**: what is reported as done was done, and once; the arguments
  given reach the handler; the two programs agree on requests; an error of a
  fleet hides no work; a call ends.

## 2. Modules

### `StreamBuffer`

`StreamBuffer::push`, `tail` and `get_job_logs`. A line is its number in the
stream and its length, which may be 0. `Push` is the whole method: when the buffer is full it
adds the length of the *new* line to `bytes_dropped`, removes one *old* line,
and stores the new one. `ReadTail` and `ReadDropped` are the two accesses of
the handler, under different locks, so pushes come in between. `blanks`, a history
variable, counts the blank lines: one that comes to a full buffer pushes out an old
line and adds nothing to the counter.

### `AgentJobs`

One action per access to shared state of `post_job_start`, `run_job`,
`kill_job`, the watcher task of `post_job_start` and the eviction task. The
order of a task's accesses is its program counter (`handler`, `run`,
`watcher`, `killer`). A kill handler holds only a shared guard of the store, so
kills of one job overlap and `killer` counts them; without signals a handler that got
the `Child` awaits its end (`killing`), and a kill may fail (`KillFails`), which the
code ignores. `missed` is a history variable: the jobs whose last kill reached
nothing. The environment is the operating system: processes that
end with any exit code or by a signal, streams that stay open after the
process is dead (a descendant inherited the pipe) or end before it, and
process ids that are used again once a process was waited for. `Unix` selects
between the two builds of `kill_job`. A start handler contains no await, so at
most `Workers` of them run side by side.

`JobReplies` extends it with a client of `GET /job/:id`, whose handler reads
three fields under three locks. `JobLifecycle` is the abstract specification
of one job as a client sees it: absent, then running, then an outcome that is
recorded once; a kill may change the status at any time; a running job is
never dropped. `AgentJobs` implements it under the mapping `phase <- status`,
`listed <- store`, `concluded <- "run_job has written the outcome"`.

### `CircuitBreaker`, `Dispatch`

`CircuitBreaker` is the breaker of one machine as data, with pure operators
for `record_failure`, `record_success` and `is_open`. Instants are ages in
ticks; ages stop at the window, beyond which the code tells none apart.
`Dispatch` composes one breaker per machine with the registry, the tool calls
and the heartbeat. A call is two steps, check and answer; `Record` spawns the
recording task and `ApplySuccess`/`ApplyFailure` run it, later and in any
order. `exec` stands for the tools that go through `dispatch_exec`;
`machine_test` also writes the registry, in a step of its own after the call has
returned (`WriteTest`), for it reads the clock then; `job_start` checks but does not
record, `job_status` does neither. A machine whose transport `dispatch_exec` does not
know (it is not in `routed`) gets an error and no record (`NoTransport`). `well` is
whether a machine answers `/health` with success: one that does not may be down, slow,
or answer with an error status, and may run commands all the same. `answered`,
`strikes`, `hint` and `lag` are history variables that no action reads.

### `AgentSessions`, `SessionShell`

`AgentSessions` is the store with everybody who uses it. An exec holds a read
guard on its session's shard from `ExecStarts` to its end, since
`post_session_exec` keeps the `DashMap` reference across its await; while it writes
its command line (until `ExecWrites` or `ExecWriteFails`) it also keeps its worker
thread, for as long as the shell does not read or another exec has the writer; `Guarded` derives this from the execs in flight. `Insert`, `Remove`
and `Reap` need the shard for themselves and keep their worker thread while
they wait, so `WorkerFree` is part of every step that needs a thread. `idle` is
the age of `last_active`, which an exec sets when it starts and when it is
answered, not when it times out. `reaped` is a history variable.

`SessionShell` is one session from the inside: `Session::exec` writes a line,
`read_until_sentinel` runs in a thread per exec that reads chunks under the
lock of the reader, and the shell and the terminal are the environment. Only
sentinels are kept of the output, in two halves so that a read may end within
one. `AgentSessions` leaves the shell out and lets an awaited exec be answered
at any time, which covers what `SessionShell` does.

### `AgentConfig`, `AgentExec`

`AgentConfig` is the hot configuration, the file it comes from, an operator who
writes the file in two steps (`Truncate`, `Write`) and sends SIGHUP, and the
task that reads the file (`ReadFile`) and then stores the result (`Store`).
Signals that come before the task looks count as one. `AgentExec` extends it
with the handler of `POST /exec`, the client in `exec_agent` that waits for it,
and the shutdown of `run_server`. A request is denied, rejected for want of a
permit, or starts a shell; the shell ends by itself (`ShellEnds`) and the
handler ends by its output, by its timeout or by being dropped when the client
is gone. In the last two cases the permit is free and the shell lives on: nothing
kills it. The same happens when its output cannot be read (`SpawnFails`). The server
stops when no connection is in use: `busy` stands for all those that are not a command
under way, requests of other routes, some of which run commands with no timeout, and
replies that are being written. Nothing is said of what comes after. `Tick` moves both timers; it waits for timers that are due, so a timer
fires at its time.

### `AgentFiles`

Names lead to inodes and inodes hold texts. An edit is `ReadToEdit`, then
`OpenForWriting` (which empties the file), then `WriteOut`; it may be refused with
404 at any time, for a file may be unreadable or not UTF-8, and a replacement with 422.
A patch (`StartPatch`) may be refused too, with 500 or 422, or else writes beside the
file and renames; its diff is one replacement, and a file is read at one moment. A copy opens both files and then reads. A write may fail half way, the agent may crash between two
steps, and a handler is dropped when its client goes away. A text is a sequence of
characters (`Chars`, with `TextsAssumption` that all texts of an instance are
made of them): in the runs letters and line ends, long enough for every boundary of `Inserted`, `Deleted`,
`Replaced` and `GlobMatch`, which are the pure parts of the handlers; the
definition they are compared with is `Means` and `Fits`. History variables: `alone`,
an edit whose file no other request has changed; `meant`, the text last meant for an
inode; `spoilt`, the inodes that a failed, cut or overlapping write or a text read from
a file that was not whole may have damaged; `partial`, the requests that hold such a
text; `stayed`, the names that were there during a walk.

### `ToolSchemas`, `ToolRequests`, `AgentRoutes`, `ToolCalls`

The first three are the tables of the two programs, one row a tool or a route:
the arguments a schema requires and allows and those an arm of `dispatch_tool`
reads; the path and parameters a tool sends and what it makes of an exit code;
the parameters an extractor refuses to miss and how a handler tells a failure: by an
error status, in the body, or not at all (`"silent"`, as for `/job/start`, which answers
before the spawn, and `/job/:id/kill`, which answers 200 also when it found no process).
`ToolCalls` is one call of any tool over these tables: the way is chosen (`Begin`),
the request is refused for the first reason in the order of the code (`Refusal`)
or handled (`Handle`), the reply is read, lost or too late (`ReadReply`, `Fail`,
`CutOff`), or the command runs over SSH, where exit status and end of output come
in either order (`SshExit`, `SshStatus`, `SshReturn`). A fleet tool has one leg for
each machine. Three assumptions say what the tables have in common, row by row:
`ChangesAreTold`, `RoutesAreMet` and `ArgumentsAreSent`. TLC evaluates them on the
whole tables.

## 3. Runs

| Run | Question | Instance |
|---|---|---|
| `buffer` | are log replies real tails of the newest lines, and which loss do they hide? | 3 lines or 4 bytes, lines of length 0, 1 and 3, 6 pushes |
| `jobs` | do outcomes, gauge and processes stay truthful under every interleaving, `kill_job` and `run_job` competing for the `Child`; is the life cycle implemented? | 2 jobs, 2 pids, 1 place, 1 worker, 2 kills, 2 clock values, the build without signals |
| `job_signals` | how far can starts side by side exceed the capacity, and whom does a signal reach? | 3 jobs, 2 pids, 1 place, 2 workers, 1 kill, the build with signals |
| `job_replies` | can a status reply be torn, do kills and outcomes happen, does a kill miss its process? | 1 job, 2 kills, signals, fair scheduling |
| `dispatch` | do circuits open only on recent failures of their own machine, is the hint sufficient, is the registry truthful; does every circuit let calls through again, and does a healthy machine recover? | 1 machine, 1 call in flight, threshold 3, window 4 ticks, open for 2, 1 unapplied outcome, a test waits 1 tick |
| `sessions` | is a session safe while in use, does everything that waits for a shard go on, is the gauge explained? | 2 sessions in one shard, 2 execs, 1 close, 6 workers, idle limit 2 |
| `session_shell` | does a reader find its sentinel in whatever pieces it comes, and miss it only if another took part of it? | 2 execs of one session |
| `exec` | do permits balance, are extra shells explained, who times out first, does a reload take effect, and do commands keep a shutdown from ending? | 2 requests, 1 permit, a reload to 2 that shuts the client out |
| `files` | what do concurrent requests, crashes and cut writes leave in a file, and what does a walk find? | any 2 of 23 requests on 2 names |
| `tools` | does an answer say what was done, once, with the arguments that were given, and does it come? | every tool, every choice of arguments, transports, failures; 2 machines |

The violation runs show where the code does something else than a comment, a
test or the documentation says:

| Run | Said | Done |
|---|---|---|
| `sessions_stall` | sessions.rs:118 "Session exec timed out after {}s" | a close and the idle check, both waiting for the shard that an exec has guarded, block every worker thread; with two workers no timer fires any more, and the exec never ends (with one worker either alone is enough) |
| `tool_contract` | README.md:318 "Branch, ahead/behind, staged, unstaged, untracked counts." and, of `env_get`, README.md:288 "Get all variables or a specific key." | on a machine with an agent every git tool is refused, for it sends `workdir` where the agent asks for `path`, and every env tool, for the agent has no such route |

Other disagreements met while modelling, which the models show in their
actions but for which no run is kept: `run_job` overwrites the status of a
killed job when its process ends (jobs.rs:262 "Set status to killed"); two
starts may pass the capacity check side by side (config.rs:100 "Max concurrent
jobs"; `OvershootBounded` says by how many); recording tasks may apply the
failures around a success one after the other (transport/mod.rs:220 "After
success, two more failures should NOT open"); a success recorded while a
circuit is open closes it at once (README.md:536); a full buffer drops its
oldest line, not the new one (README.md:553), may pass the byte limit when a long line enters
for a short one, and counts nothing for a line that a blank one pushes out
(README.md:553 "so Claude knows if output was lost"; `LossReported` says how many
losses that can hide); a kill is answered with 200 although it sent no signal, because the
pid was not recorded yet, the `Child` was gone, or the kill failed
(`OrphansExplained`); a start is answered before the spawn, which may fail; a job whose
spawn failed is shown failed before it has an end time; the delayed SIGKILL goes to a pid
that may belong to another job (`SignalsExplained` says exactly when); a
killed job that has not ended is evicted two hours after its *start*; the
capacity check counts jobs that are over; there is no half-open state;
a machine that was not tried, its circuit being open, is marked unreachable by
`machine_test`; of the job tools only `job_start` asks the breaker; a failed ping
moves `last_seen`; the wait told to a refused caller is rounded down by up to a second
(`HintSuffices` holds with that second added).

Of jobs and sessions: the watcher of a job listens from its first poll on, so a
job that ends before is never subtracted from the gauge (routes/job.rs:46 "Track
when job finishes"; `GaugeNeverLow` is the half that holds); the code of
`session_exec` is 0 in any case, for `echo 'EXIT:$?'` is quoted, and the echo of
the command line may end the exec before the command has run (README.md:239
"Output includes exit code.").

Of tool calls: an upload is signed over its content and not over the body it
sends, so the agent refuses each one; contents between 2 and 64 MB are refused by
the extractors although the middleware admits them; `agent+ssh` never falls back to
SSH (README.md:190); an argument the schema requires and the client leaves out
becomes an empty string; the cursor of `log_tail` (README.md:278) and `follow` of
`docker_logs` (README.md:308) reach no handler; environment variables are not kept by
the MCP server (README.md:283) but asked of the agent; `file_read` is cut at another
size than README.md:226 says; a connection that is lost before the exit
status counts as exit code 0; connecting over SSH has no timeout; a fleet call
starts all its machines at once (README.md:326 says ten) and reports no exit
code.

Of the agent: `max_concurrent_execs` does not change with a reload (README.md:504
ff.: hot-reloadable), for it sizes a semaphore once; a reload drops the overrides of the
command line; a file without one of its fields is an error (config.rs:12 "a partial file is valid"); the shutdown
waits without limit (main.rs:238 "max 30s"), and docker, git, systemctl and patch run
with no timeout; `file_str_replace` replaces the first of several matches (README.md:227
"Errors if 0 or 2+ matches found"), so `Means` says what a replacement means only where
there is one place for it; two edits of one file at a time lose one of them, and two
writes may leave a mixture; a command may ask for an hour
(README.md:212 "Max 120s"); `fs_find` knows no regular expressions (README.md:249); a
copy of a file to itself empties it; insert and delete-lines lose the final
line end; the glob `ab*ba` finds `aba`, so `FindMissesNothing` is the direction that
holds.

## 4. Bounds

Each bound of a model is a named constant.

* `StreamBuffer`: 6 pushes fill a buffer of 3 lines and turn it over once;
  4 bytes against lines of 0, 1 and 3 let either limit bite first, and a blank line
  push out any other.
* `AgentJobs`: each run has what its properties need. `jobs`: two jobs, so that one
  waits for the place of the other, and two kills, of one job or of two, so that
  they compete for the `Child` with each other and with `run_job`; one worker, for two starts side by side
  do not matter there. `job_signals`: two workers, so that two starts pass the check
  together and two processes live, and a third start that must find no room; one kill is
  one delayed SIGKILL, which finds its id given out again or not; the clock stands still
  (`MaxTime = 0`) and nothing is evicted, which would only make room. `job_replies`: the
  liveness properties and the reply are of one job; others share only process ids
  with it, and a signal for them can only end its process. Two clock values with
  `Keep = 1` reach "not yet" and "expired". The theorems cover any number of each.
* `Dispatch`: the threshold keeps its real value, 3. `Window = 2 * OpenFor`
  and `Period = OpenFor` as in the code (60, 30 and 30 s). `Second = 2` ticks
  makes the rounding of `as_secs` visible. `Remembered = Threshold` is enough:
  only "at least Threshold" is ever asked. `MaxPending = 1` is a bound
  for the tool calls; the outcome of a ping comes on top, so two outcomes are
  unapplied at once and are applied in either order. `MaxLag = 1`: a `machine_test` that
  was answered is resumed before or after the next tick. The tools that record nothing
  (`job_start`, `job_status`) are in the model and not in the instance. Machines do not
  interact except through the one heartbeat task, so one machine shows each property;
  the theorems cover any number.
* `AgentSessions`: all sessions in one shard, where they disturb each other. 6
  workers are one more than can be kept at once: by two opens, a close and the idle
  check that wait for the shard, and an exec that writes while another one is to be timed
  out. `SessionShell`: a thread
  can be robbed by one other; two execs overlap, follow each other, or time
  out.
* `AgentExec`: one permit and two requests make both rejection and an overrun
  happen; `busy` stands for any number of other connections; timeouts 0 and 2 lie on
  the two sides of `Cap = 1`; `Grace = 1` and `Floor = 2` let either decide how long the client waits (`Patience`).
* `AgentFiles`: every pair of requests, for two is what it takes to meet (the
  theorems cover any number, and any texts); a file is read at one moment; line
  numbers 0, 1, inside, last and past the end, and an end before the start.
* `ToolCalls`: the tables are complete. A leg does not depend on the others except
  for the order of uploads, which two machines show (`MaxLegs = 2`); three sizes lie
  on the sides of the two limits.

## 5. Fairness

Fairness is weak fairness per task, on the code's own steps only: the runtime
polls every ready task again and again, timers fire, and a call ends by answer
or timeout. Nothing is assumed of commands (a process may run for ever, a pipe
may stay open for ever), of machines, or of clients. `KillReachesProcess` needs
only the timer of the SIGKILL task; `OutcomeRecorded` starts where the process
is dead *and* both streams have ended, for `run_job` waits for both.
`AgentSessions` assumes that a handler which has begun goes on when a thread
and the shard are free, that timeouts and the interval fire if a worker is
free to run them, and that time passes. Nothing is assumed of writes to a shell, which
may block for ever: `ExecEnds` begins where the line is written, and `EventuallyReaped`
has the premise that each write ends (`WritesEnd`), for a write that does not keeps the
shard. In `SessionShell` some reader gets the
lock, never a particular one: a `std::sync::Mutex` is not fair.

`AgentExec` assumes that timers fire, that the clock and the task that takes
signals go on, and that the server notices that no connection is in use; nothing of
shells, of messages, of other requests or of replies. `DrainEnds` has the premise that
the other requests end and replies get written (`OthersEnd`), which the code does
not see to. `ToolCalls` assumes that a
leg begins, that the timeout of a client fires, except while it connects over SSH
where it has none, and that an answer whose legs are done is made.

## 6. Proofs

Proved with TLAPS for every value of the constants (assumptions: the named
ASSUME of each module, nothing else):

* **`StreamBufferProofs`**: `TypeOK`, `LineBound`, `NewestKept`,
  `ReplyIsTail`, `LossReported`. The invariant that carries the last one says
  that the number of lost lines is at most the drop counter and the blank lines
  together, for a push that drops a line adds at least one to either, and that a reply
  whose tail is taken remembers a loss no greater than the present one.
* **`AgentJobsProofs`**: `TypeOK`, `OutcomeIsReal`, `OrphansExplained`, `SignalsExplained`,
  `OvershootBounded`, `GaugeNeverLow`. `OutcomeIsReal` is not inductive: a status is
  written last, so the invariant says at each program counter of `run_job` what is
  already true of the process, the streams, the exit code and the end time, and that
  statuses other than running imply that `run_job` has written them or a kill has.
  `OrphansExplained` adds that once every kill of a job has gone on from its
  first write and its process is not dead, either SIGKILL is to come or the last kill
  missed (`Reached`), and that a job is evicted only when none is before that.
  `SignalsExplained` adds who holds a process id: signals are on the way only for
  killed jobs, a recorded pid is that of the job's own process, and two processes
  that were not waited for have different ids. So the id of a killed job reaches
  another process only if its own was waited for, and that stays true.
  `OvershootBounded` and `GaugeNeverLow` count: the first is inductive, given the
  types (a start that is admitted sees room in the store and at most `Workers - 1`
  other starts); the second needs that the gauge is the number of watchers that have
  not decremented yet, and that a watcher is woken only by the end of its `run_job`.
  `ReplyNotTorn`, of `JobReplies`: what a reply has said of an outcome stays true of
  the job, because `run_job` writes the status after the exit code (and, unless the spawn
  failed, after the end time) and from there on (`Settled`) no exit code any more; the
  fields read later then agree with it. `ImplementsLifecycle`: `AgentJobs` implements `JobLifecycle`;
  initial states map to initial states, and every step to a step or a stutter.
* **`DispatchProofs`**: `TypeOK`, `OpenIsEarned`, `OnlineWasSeen`, `HintSuffices`,
  `TripsInWindow`, `RemovedStaysRemoved`. `OpenIsEarned` rests on "the failures in the breaker and those still to be
  applied are together at most the strikes"; `OnlineWasSeen` rests on a fact about the tests that were answered and have their row
  still to write: the last answer of the machine is no older than that of the test,
  whose age becomes the lag of the row.
  `HintSuffices` rests on "while a circuit refuses, what is left of the wait that was
  told, and a second, is at least what is left of the open duration".
  `TripsInWindow` needs that failures are listed newest first: only then does taking
  as many of the first as there are in the window keep exactly those. An action
  property, `RemovedStaysRemoved` follows from the types, writer by writer.
* **`AgentSessionsProofs`**: `TypeOK`, `InUseStays`, `GaugeNeverLow`,
  `DriftIsReaped`. `InUseStays` is inductive given the types. The gauge needs
  two more facts: an id is inserted once, and the gauge plus the opens not yet
  counted is the number of sessions in the store or reaped plus the closes not
  yet counted.

* **`SessionShellProofs`**: `TypeOK`, `MissedOnlyIfRobbed`, for any number of execs.
  The invariant says where a sentinel can be: while a thread reads on it is not in
  what the thread has read; once the command has ended it is in what the thread has
  read or will read next, unless another thread took a half of it. Each read only
  moves pieces from the stream to one output, so it leaves that concatenation as it
  is for the reader, and takes a sentinel from another only whole or by robbing it.

* **`AgentExecProofs`**: `TypeOK`, `PermitsBalance`, `OverrunExplained`,
  `OutwaitsAgent`. The second rests on the first and on "a request whose
  shell lives is running, or else was given up, by a timeout, a lost client or an error",
  and counts; the last needs that while both timers run, the client's
  is ahead of the agent's by the grace less the time spent on the way, and that
  the time the agent grants is at most the one the client has asked for.

* **`AgentFilesProofs`**: `FilesAreWhole`, `EditsHaveTheirEffect`,
  `FindMissesNothing`. The first is not inductive: the invariant says
  besides that a request which has opened nothing has an unused inode, and that the
  handler of a file that is not spoilt is alone with it, and the file is still as empty
  as it made it. What the edits compute plays no part, so that theorem holds for any of
  them.

  The other two are about what is computed, for all texts. The induction theorems
  of the library take an operator, which no installed prover can instantiate, so
  the module has its own induction principle, about *sets* of numbers, from the
  well-foundedness of `<` on `Nat`, and from it that a recursive function and a fold
  satisfy their equations. With these: cutting a text into lines and joining them
  again gives the text back; `Inserted`, `Deleted` and `Replaced` are what `Means`
  says (`InsertMeans`, `DeleteMeans`, `ReplaceMeans`), at every line number, and for a
  replacement wherever there is one place for it; the
  greedy matcher `GlobMatch` accepts every name that `Fits` (`GlobFinds`: at each
  piece of the pattern it is no further on than any way to fit is). The
  invariant of the edits (`EditInv`) says that a request is where its kind of edit
  can be, that a replacement under way has found its old text, and that a handler
  which is alone still has its file open under its name, empty. That of the walks
  (`WalkInv`) says that what fits and was there all along is found or still ahead.

* **`ToolCallsProofs`**: `OkMeansDone`, `NeverTwice`, `FleetErrorIsClean`,
  `ContractHolds`, `ArgumentsArrive`. The
  invariant says of each leg that nothing is known of an operation before it was
  carried out (so no answer comes early), that an exit code was read only from a
  channel whose command has ended, that only known machines are reached, and that an
  answer is what the legs still are. For the last two it says that a call has all
  its required arguments and none unknown, that a refusal for route or shape was
  right, and that a handler runs only for a request that was accepted; the lemmas
  are that leaving optional arguments out cannot make a request unacceptable, and
  that an accepted request carries every argument given. What the rows of the
  tables say is taken from `ChangesAreTold`, `RoutesAreMet` and `ArgumentsAreSent`:
  they have no parameter, TLC evaluates them on the whole tables at each run, and
  the prover, for which the tables are too large to expand, takes them from there.

The type invariants, `LineBound` and `GaugeNeverLow` of `AgentSessions` are proved
and not listed in the runs.

Every invariant and every action property of the passing runs is proved. Only
model-checked is what is temporal under fairness, out of the prover's reach:
`KillReachesProcess`, `OutcomeRecorded`, `NeverShutOut`, `Recovers`, `ExecEnds`,
`EventuallyReaped`, `SentinelFound`, `HangupTakesEffect`, `DrainEnds` and
`CallsEnd`.

## 7. What could follow

A composition of `Dispatch` with `AgentExec`, in
which what a call reports to the breaker comes from the command it ran;
directories in `AgentFiles`, with the recursive copy and removal.

## 8. Not modelled, and why

* What the programs print. The routes for processes, services, docker, git, logs and
  system information, and the tools that use them, run one program and shape its
  output; their requests and how they tell failure are modelled, the text is not.
* The calls into the Windows API: what they do to the desktop is outside this code.
* The audit log. README.md:480 says "Every tool call is logged", but records are
  made by `ToolContext::invoke`, which nothing calls; the log and its rotation do
  not run.
* The pool of SSH connections. `exec_ssh` makes a new pool for each command, and
  nothing calls `create_pool_store`, so a connection is never used again.
* Cryptography, HTTP, SQLite and the runtime are libraries; the models take from
  them what the code relies on. Whether a request is admitted is one bit.
* `bytes_total` and `StreamBuffer::all` have no reader; the hourly refresh of
  capabilities has no effect on what is modelled; `machine_connect` parses a link
  and then does what `machine_add` does; the maintenance of the database,
  `agent init`, `cmd_init` and the installation scripts write files once and stop.
* Each build of `kill_job` is run for part of the properties: the one without
  signals (`jobs`) for outcomes, gauge and life cycle, the one with signals
  (`job_signals`, `job_replies`) for capacity, signals, replies and liveness. Lost
  processes are looked at in both, and the theorems about jobs hold of both.
