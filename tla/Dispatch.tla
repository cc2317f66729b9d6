------------------------------ MODULE Dispatch ------------------------------
(***************************************************************************)
(* The MCP server's view of its machines: the registry, the circuit        *)
(* breaker of each machine, the tool calls that consult and feed it, and   *)
(* the heartbeat task (crates/mcp-server/src/transport/mod.rs,             *)
(* heartbeat.rs, db.rs, tools/exec.rs, tools/machine.rs).                  *)
(*                                                                         *)
(* A call is two steps, the check and the answer, with the network in      *)
(* between.  The outcome of a call is recorded by a spawned task, which    *)
(* the runtime may run later and in any order.  Commands and their output  *)
(* are left out: of an answer only whether it is Ok matters here.          *)
(***************************************************************************)
EXTENDS CircuitBreaker

CONSTANTS
  Machines,    \* machine ids; a removed id is never used again
  Pinged,      \* the machines with an agent_url
  Calls,       \* tool calls in flight at a time
  Tools,       \* the kinds of call
  Period,      \* heartbeat interval (30 s)
  PingTimeout, \* timeout of the heartbeat's client (5 s)
  Second,      \* ticks in a second
  Horizon,     \* how far back last_seen is told apart
  MaxDue,      \* bound of the model: timer ticks the heartbeat may be behind
  MaxPending,  \* bound of the model: calls recorded and not yet applied
  MaxLag,      \* bound of the model: ticks a machine_test waits for the runtime
  NULL         \* an unset value

ToolKinds == {"exec", "machine_test", "job_start", "job_status"}

ASSUME DispatchAssumption ==
  /\ Pinged \subseteq Machines
  /\ Tools \subseteq ToolKinds
  /\ Period \in Nat \ {0}
  /\ PingTimeout \in Nat
  /\ Second \in Nat \ {0}
  /\ Horizon \in Nat
  /\ PingTimeout <= Horizon
  /\ MaxDue \in Nat \ {0}
  /\ MaxPending \in Nat
  /\ MaxLag \in Nat
  /\ NULL \notin Machines \cup Int

VARIABLES
  breaker,   \* CircuitBreakers: the breaker of each machine
  pending,   \* the spawned tasks that will record an outcome
  registry,  \* the rows of the machines table: status and age of last_seen
  routed,    \* the machines whose transport column dispatch_exec knows
  well,      \* the machines that answer GET /health with success, in time
  call,      \* the tool calls
  beat,      \* the heartbeat task
  answered,  \* history: ticks since each machine answered, or was added
  strikes,   \* history: failures observed since the last success recorded, capped
  hint,      \* history: ticks until the wait told to a refused caller is over
  lag        \* history: ticks between the answer a row rests on and its last_seen

vars == <<breaker, pending, registry, routed, well, call, beat, answered, strikes,
          hint, lag>>

Outcomes == {"success", "failure"}

Statuses == {"absent", "unknown", "online", "unreachable", "removed"}

Registered(m) == registry[m].status \in {"unknown", "online", "unreachable"}

(* Where a call is; one that is "ok" also has the age of its answer.        *)
Steps == {"none", "sent", "ok", "failed"}

NoCall == [step |-> "none", tool |-> NULL, machine |-> NULL, age |-> 0]

(* The history counts no further than the property tells apart. *)
UpToThreshold(n) == IF n < Threshold THEN n ELSE Threshold

Init ==
  /\ breaker = [m \in Machines |-> NewBreaker]
  /\ pending = [m \in Machines |-> [o \in Outcomes |-> 0]]
  /\ registry = [m \in Machines |-> [status |-> "absent", seen |-> NULL]]
  /\ routed = {}
  /\ well = Machines
  /\ call = [c \in Calls |-> NoCall]
  /\ beat = [wait |-> Period, due |-> 1, todo |-> {}, pinging |-> NULL, readAge |-> 0]
  /\ answered = [m \in Machines |-> 0]
  /\ strikes = [m \in Machines |-> 0]
  /\ hint = [m \in Machines |-> NULL]
  /\ lag = [m \in Machines |-> 0]

-----------------------------------------------------------------------------
(* The registry.                                                            *)

(* Mutant of UpdateHeartbeat: the row is inserted when it is missing. *)
UpdateHeartbeat_Upsert(m, status, age) ==
  registry' = [registry EXCEPT ![m] = [status |-> status, seen |-> age]]

(* Db::update_heartbeat: a row that is gone is not updated. *)
UpdateHeartbeat(m, status, age) ==
  IF Registered(m)
  THEN registry' = [registry EXCEPT ![m] = [status |-> status, seen |-> age]]
  ELSE UNCHANGED registry

(* machine_add: the transport is whatever text the caller gives. *)
MachineAdd(m) ==
  /\ registry[m].status = "absent"
  /\ registry' = [registry EXCEPT ![m].status = "unknown"]
  /\ routed' \in {routed, routed \cup {m}}
  /\ answered' = [answered EXCEPT ![m] = 0]
  /\ UNCHANGED <<breaker, pending, well, call, beat, strikes, hint, lag>>

(* machine_remove: the breaker of the machine stays behind; no caller is    *)
(* told of it any more.                                                     *)
MachineRemove(m) ==
  /\ Registered(m)
  /\ registry' = [registry EXCEPT ![m] = [status |-> "removed", seen |-> NULL]]
  /\ routed' = routed \ {m}
  /\ lag' = [lag EXCEPT ![m] = 0]
  /\ hint' = [hint EXCEPT ![m] = NULL]
  /\ answered' = [answered EXCEPT ![m] = 0]
  /\ UNCHANGED <<breaker, pending, well, call, beat, strikes>>

-----------------------------------------------------------------------------
(* CircuitBreakers: recording is a task of its own.                         *)

Unapplied(m) == pending[m]["success"] + pending[m]["failure"]

(* record_success, record_failure: the task is spawned. *)
Record(m, outcome) == pending' = [pending EXCEPT ![m][outcome] = @ + 1]

(* History: a failure is observed. *)
Strike(m) ==
  strikes' = [strikes EXCEPT ![m] = UpToThreshold(@ + 1)]

ApplySuccess(m) ==
  /\ pending[m]["success"] > 0
  /\ pending' = [pending EXCEPT ![m]["success"] = @ - 1]
  /\ breaker' = [breaker EXCEPT ![m] = RecordSuccess(@)]
  /\ strikes' = [strikes EXCEPT ![m] = UpToThreshold(pending[m]["failure"])]
  /\ UNCHANGED <<registry, routed, well, call, beat, answered, hint, lag>>

ApplyFailure(m) ==
  /\ pending[m]["failure"] > 0
  /\ pending' = [pending EXCEPT ![m]["failure"] = @ - 1]
  /\ breaker' = [breaker EXCEPT ![m] = RecordFailure(@)]
  /\ hint' = [hint EXCEPT ![m] = NULL]
  /\ UNCHANGED <<registry, routed, well, call, beat, answered, strikes, lag>>

-----------------------------------------------------------------------------
(* Tool calls.  exec stands for every tool that goes through dispatch_exec, *)
(* job_status for every tool that sends its request without a check.        *)

Checked == {"exec", "machine_test", "job_start"}

(* The tools that go through dispatch_exec. *)
Recorded == {"exec", "machine_test"}

Idle(c) == call[c] = NoCall

(* is_open reports whole seconds. *)
RetryAfter(m) == Remaining(breaker[m]) \div Second

(* The call returns to its tool: machine_test has a row to write, the other *)
(* tools are done.                                                          *)
Return(c, m, tool, step) ==
  call' = [call EXCEPT ![c] =
             IF tool = "machine_test"
             THEN [step |-> step, tool |-> tool, machine |-> m, age |-> 0]
             ELSE NoCall]

(* Mutant of Refuse: a refusal counts as a failure of the machine. *)
Refuse_Recorded(c, m, tool) ==
  /\ Idle(c)
  /\ Registered(m)
  /\ tool \in Checked
  /\ IsOpen(breaker[m])
  /\ Unapplied(m) < MaxPending
  /\ Record(m, "failure")
  /\ hint' = [hint EXCEPT ![m] = Second * RetryAfter(m) + Second]
  /\ Return(c, m, tool, "failed")
  /\ UNCHANGED <<breaker, registry, routed, well, beat, answered, strikes, lag>>

(* CircuitBreakers::check fails: CircuitOpen is returned at once.  The      *)
(* history allows the caller to wait a second more than it was told.        *)
Refuse(c, m, tool) ==
  /\ Idle(c)
  /\ Registered(m)
  /\ tool \in Checked
  /\ IsOpen(breaker[m])
  /\ hint' = [hint EXCEPT ![m] = Second * RetryAfter(m) + Second]
  /\ Return(c, m, tool, "failed")
  /\ UNCHANGED <<breaker, pending, registry, routed, well, beat, answered, strikes, lag>>

(* The call passes the check, if its tool makes one, and is sent. *)
Contact(c, m, tool) ==
  /\ Idle(c)
  /\ Registered(m)
  /\ tool \in Checked => ~IsOpen(breaker[m])
  /\ tool \in Recorded => m \in routed
  /\ call' = [call EXCEPT ![c] = [step |-> "sent", tool |-> tool, machine |-> m, age |-> 0]]
  /\ UNCHANGED <<breaker, pending, registry, routed, well, beat, answered, strikes, hint, lag>>

(* dispatch_exec knows no such transport: Err, and nothing is recorded. *)
NoTransport(c, m, tool) ==
  /\ Idle(c)
  /\ Registered(m)
  /\ tool \in Recorded
  /\ ~IsOpen(breaker[m])
  /\ m \notin routed
  /\ Return(c, m, tool, "failed")
  /\ UNCHANGED <<breaker, pending, registry, routed, well, beat, answered, strikes, hint, lag>>

(* exec_agent or exec_ssh returns Ok: a machine that fails its health       *)
(* checks may run commands all the same.                                    *)
AnswerOk(c) ==
  LET m == call[c].machine
      tool == call[c].tool
  IN  /\ call[c].step = "sent"
      /\ answered' = [answered EXCEPT ![m] = 0]
      /\ IF tool \in Recorded
         THEN Unapplied(m) < MaxPending /\ Record(m, "success")
         ELSE UNCHANGED pending
      /\ Return(c, m, tool, "ok")
      /\ UNCHANGED <<breaker, registry, routed, well, beat, strikes, hint, lag>>

(* It returns Err: no connection, a timeout, or an error status, which a    *)
(* machine that is well may send too.                                       *)
AnswerErr(c) ==
  LET m == call[c].machine
      tool == call[c].tool
  IN  /\ call[c].step = "sent"
      /\ IF tool \in Recorded
         THEN Unapplied(m) < MaxPending /\ Record(m, "failure") /\ Strike(m)
         ELSE UNCHANGED <<pending, strikes>>
      /\ Return(c, m, tool, "failed")
      /\ UNCHANGED <<breaker, registry, routed, well, beat, answered, hint, lag>>

(* machine_test goes on: it reads the clock, after the answer, and writes   *)
(* the row, with nothing to wait for in between.  A machine it could not    *)
(* try, because its circuit was open, is marked unreachable as well.        *)
WriteTest(c) ==
  LET m == call[c].machine
  IN  /\ call[c].step \in {"ok", "failed"}
      /\ UpdateHeartbeat(m, IF call[c].step = "ok" THEN "online" ELSE "unreachable", 0)
      /\ lag' = [lag EXCEPT ![m] = IF Registered(m) THEN call[c].age ELSE 0]
      /\ call' = [call EXCEPT ![c] = NoCall]
      /\ UNCHANGED <<breaker, pending, routed, well, beat, answered, strikes, hint>>

-----------------------------------------------------------------------------
(* The heartbeat.                                                           *)

(* A tick of the interval: the machines are listed. *)
HeartbeatList ==
  /\ beat.due > 0
  /\ beat.todo = {}
  /\ beat.pinging = NULL
  /\ beat' = [beat EXCEPT !.due = @ - 1, !.todo = {m \in Pinged : Registered(m)}]
  /\ UNCHANGED <<breaker, pending, registry, routed, well, call, answered, strikes, hint, lag>>

(* The clock is read and GET /health is sent. *)
HeartbeatSend(m) ==
  /\ beat.pinging = NULL
  /\ m \in beat.todo
  /\ beat' = [beat EXCEPT !.todo = @ \ {m}, !.pinging = m, !.readAge = 0]
  /\ UNCHANGED <<breaker, pending, registry, routed, well, call, answered, strikes, hint, lag>>

(* Mutant of HeartbeatOk: a healthy machine does not clear its failures. *)
HeartbeatOk_NotRecorded ==
  LET m == beat.pinging
  IN  /\ m # NULL
      /\ m \in well
      /\ Unapplied(m) <= MaxPending
      /\ answered' = [answered EXCEPT ![m] = 0]
      /\ UpdateHeartbeat(m, "online", beat.readAge)
      /\ lag' = [lag EXCEPT ![m] = 0]
      /\ beat' = [beat EXCEPT !.pinging = NULL, !.readAge = 0]
      /\ UNCHANGED <<breaker, pending, routed, well, call, strikes, hint>>

(* The ping succeeds; the time read before it becomes last_seen. *)
HeartbeatOk ==
  LET m == beat.pinging
  IN  /\ m # NULL
      /\ m \in well
      /\ Unapplied(m) <= MaxPending
      /\ answered' = [answered EXCEPT ![m] = 0]
      /\ UpdateHeartbeat(m, "online", beat.readAge)
      /\ Record(m, "success")
      /\ lag' = [lag EXCEPT ![m] = 0]
      /\ beat' = [beat EXCEPT !.pinging = NULL, !.readAge = 0]
      /\ UNCHANGED <<breaker, routed, well, call, strikes, hint>>

(* Mutant of HeartbeatFails: the status is left at online. *)
HeartbeatFails_StaysOnline ==
  LET m == beat.pinging
  IN  /\ m # NULL
      /\ m \notin well
      /\ Unapplied(m) <= MaxPending
      /\ UpdateHeartbeat(m, registry[m].status, beat.readAge)
      /\ Record(m, "failure")
      /\ Strike(m)
      /\ lag' = [lag EXCEPT ![m] = 0]
      /\ beat' = [beat EXCEPT !.pinging = NULL, !.readAge = 0]
      /\ UNCHANGED <<breaker, routed, well, call, answered, hint>>

(* The ping fails, times out, or is answered with an error status;          *)
(* last_seen is written here too.                                           *)
HeartbeatFails ==
  LET m == beat.pinging
  IN  /\ m # NULL
      /\ m \notin well
      /\ Unapplied(m) <= MaxPending
      /\ UpdateHeartbeat(m, "unreachable", beat.readAge)
      /\ Record(m, "failure")
      /\ Strike(m)
      /\ lag' = [lag EXCEPT ![m] = 0]
      /\ beat' = [beat EXCEPT !.pinging = NULL, !.readAge = 0]
      /\ UNCHANGED <<breaker, routed, well, call, answered, hint>>

-----------------------------------------------------------------------------
(* The world: machines fail and recover, time passes.                       *)

Sickens(m) ==
  /\ m \in well
  /\ well' = well \ {m}
  /\ UNCHANGED <<breaker, pending, registry, routed, call, beat, answered, strikes, hint, lag>>

Heals(m) ==
  /\ m \notin well
  /\ well' = well \cup {m}
  /\ UNCHANGED <<breaker, pending, registry, routed, call, beat, answered, strikes, hint, lag>>

Later(age) == IF age \in Nat /\ age < Horizon THEN age + 1 ELSE age

Sooner(wait) == IF wait \in Nat /\ wait > 0 THEN wait - 1 ELSE wait

(* A call as old as it is, a tick later. *)
Waited(k) == IF k.step = "ok" THEN [k EXCEPT !.age = @ + 1] ELSE k

(* One tick of every clock.  A ping does not outlast its timeout, and an    *)
(* answered test is resumed within MaxLag ticks; the interval catches up    *)
(* with the ticks it missed.                                                *)
Tick ==
  /\ beat.pinging # NULL => beat.readAge < PingTimeout
  /\ \A c \in Calls : call[c].step = "ok" => call[c].age < MaxLag
  /\ breaker' = [m \in Machines |-> Aged(breaker[m])]
  /\ registry' = [m \in Machines |-> [registry[m] EXCEPT !.seen = Later(@)]]
  /\ answered' = [m \in Machines |-> Later(answered[m])]
  /\ hint' = [m \in Machines |-> Sooner(hint[m])]
  /\ beat' = [beat EXCEPT !.wait = IF @ > 1 THEN @ - 1 ELSE Period,
                          !.due = IF beat.wait = 1 /\ @ < MaxDue THEN @ + 1 ELSE @,
                          !.readAge = IF beat.pinging # NULL THEN @ + 1 ELSE @]
  /\ call' = [c \in Calls |-> Waited(call[c])]
  /\ UNCHANGED <<pending, routed, well, strikes, lag>>

-----------------------------------------------------------------------------

Registry == \E m \in Machines : MachineAdd(m) \/ MachineRemove(m)

Breakers == \E m \in Machines : ApplySuccess(m) \/ ApplyFailure(m)

ToolCall(c) ==
  \/ \E m \in Machines, tool \in Tools :
       Refuse(c, m, tool) \/ Contact(c, m, tool) \/ NoTransport(c, m, tool)
  \/ AnswerOk(c)
  \/ AnswerErr(c)
  \/ WriteTest(c)

Heartbeat ==
  \/ HeartbeatList
  \/ \E m \in Machines : HeartbeatSend(m)
  \/ HeartbeatOk
  \/ HeartbeatFails

World == \E m \in Machines : Sickens(m) \/ Heals(m)

Next ==
  \/ Registry
  \/ Breakers
  \/ \E c \in Calls : ToolCall(c)
  \/ Heartbeat
  \/ World
  \/ Tick

Spec == Init /\ [][Next]_vars

(* The runtime runs every task; a call is answered or times out; time goes  *)
(* on.  Nothing is assumed of machines, of their owner, or of new calls.    *)
Fairness ==
  /\ \A m \in Machines : WF_vars(ApplySuccess(m)) /\ WF_vars(ApplyFailure(m))
  /\ \A c \in Calls : WF_vars(AnswerOk(c) \/ AnswerErr(c)) /\ WF_vars(WriteTest(c))
  /\ WF_vars(Heartbeat)
  /\ WF_vars(Tick)

FairSpec == Spec /\ Fairness

-----------------------------------------------------------------------------
(* Properties of the code.                                                  *)

TypeOK ==
  /\ breaker \in [Machines -> [state : CircuitStates, openedAt : Ages, failures : Seq(Ages)]]
  /\ \A m \in Machines : Len(breaker[m].failures) <= Remembered
  /\ pending \in [Machines -> [Outcomes -> 0..(MaxPending + 1)]]
  /\ registry \in [Machines -> [status : Statuses, seen : (0..Horizon) \cup {NULL}]]
  /\ routed \subseteq Machines
  /\ well \subseteq Machines
  /\ call \in [Calls -> [step : Steps \ {"none"}, tool : Tools, machine : Machines,
                         age : 0..MaxLag] \cup {NoCall}]
  /\ beat \in [wait : 1..Period, due : 0..MaxDue, todo : SUBSET Machines,
               pinging : Machines \cup {NULL}, readAge : 0..PingTimeout]
  /\ answered \in [Machines -> 0..Horizon]
  /\ strikes \in [Machines -> 0..Threshold]
  /\ hint \in [Machines -> (0..(OpenFor + Second)) \cup {NULL}]
  /\ lag \in [Machines -> 0..MaxLag]

(* A circuit is open only after Threshold contacts of that very machine     *)
(* failed since its last recorded success, however the recording tasks are  *)
(* delayed or reordered: nothing but failed contacts shuts a machine out    *)
(* (dispatch_exec, start_heartbeat, record_failure, record_success).        *)
OpenIsEarned ==
  \A m \in Machines : breaker[m].state = "Open" => strikes[m] >= Threshold

(* A circuit that opens, or opens again, does so on Threshold failures that *)
(* are all within the window (retain before push in record_failure).        *)
TripsInWindow ==
  \A m \in Machines :
    breaker[m].state = "Open" /\ breaker[m].openedAt = 0 =>
      Cardinality({i \in DOMAIN breaker[m].failures :
                     breaker[m].failures[i] < Window}) >= Threshold

(* A machine the registry shows online did answer, and not before the       *)
(* last_seen shown with it, but for the time a machine_test was kept waiting *)
(* between its answer and its own reading of the clock.  Rows of pings and   *)
(* tests under way at once overwrite each other in any order: the heartbeat  *)
(* reads the clock before it pings, machine_test after its answer.           *)
OnlineWasSeen ==
  \A m \in Machines :
    registry[m].status = "online" => answered[m] <= registry[m].seen + lag[m]

(* A caller that was refused and waits a second longer than it was told is  *)
(* let through, unless a failure was recorded in the meantime (is_open).    *)
HintSuffices == \A m \in Machines : hint[m] = 0 => ~IsOpen(breaker[m])

(* The heartbeat works on a list it made before its pings: a machine        *)
(* removed since then is not brought back (update_heartbeat is an UPDATE).  *)
RemovedStaysRemoved ==
  [][\A m \in Machines : registry[m].status = "removed" => registry'[m].status = "removed"]_vars

(* No machine, not even one that is down, is shut out for good: the         *)
(* circuit lets calls through again and again, although every heartbeat of  *)
(* a machine that is down may start the open duration again.                *)
NeverShutOut == \A m \in Machines : []<>~IsOpen(breaker[m])

(* A machine that stays registered and answers GET /health well has its     *)
(* circuit closed again and again by the heartbeat, even if every command   *)
(* sent to it fails.                                                        *)
Recovers ==
  \A m \in Pinged :
    <>[](m \in well /\ Registered(m)) => []<>(breaker[m].state = "Closed")

=============================================================================
