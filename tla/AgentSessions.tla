--------------------------- MODULE AgentSessions ---------------------------
(***************************************************************************)
(* The PTY sessions of the agent: the session store, the handlers that     *)
(* open, use and close sessions, the task that drops idle ones, and the    *)
(* sessions_open gauge (crates/agent/src/sessions.rs, routes/session.rs,   *)
(* metrics.rs).                                                            *)
(*                                                                         *)
(* The store is a DashMap: a lock per shard.  An exec keeps a read guard   *)
(* on its session's shard while it writes its command line and awaits the  *)
(* output; opening, closing and the idle check need the shard for          *)
(* themselves and block their worker thread until they have it.  What a    *)
(* shell prints is left out (SessionShell models it): an awaited exec may  *)
(* be answered at any time.                                                *)
(***************************************************************************)
EXTENDS Integers, FiniteSets

CONSTANTS
  Sessions,  \* session ids: each names one POST /session request as well
  Execs,     \* POST /session/:id/exec requests
  Closes,    \* DELETE /session/:id requests
  Shards,    \* shards of the DashMap
  ShardOf,   \* the shard of each session id
  Workers,   \* worker threads of the runtime
  IdleLimit, \* idle time after which a session is dropped (1800 s)
  NULL       \* no session

ASSUME SessionsAssumption ==
  /\ IsFiniteSet(Sessions)
  /\ IsFiniteSet(Closes)
  /\ IsFiniteSet(Shards)
  /\ ShardOf \in [Sessions -> Shards]
  /\ Workers \in Nat \ {0}
  /\ IdleLimit \in Nat \ {0}
  /\ NULL \notin Sessions

VARIABLES
  store,    \* SessionStore: the ids in the DashMap
  idle,     \* time since last_active of each session, up to IdleLimit
  opener,   \* where the handler that opens each session is
  exec,     \* the exec requests
  closer,   \* the close requests
  reaper,   \* the shards the idle check has still to visit; {} when it sleeps
  gauge,    \* sessions_open
  reaped    \* history: the sessions dropped by the idle check

vars == <<store, idle, opener, exec, closer, reaper, gauge, reaped>>

NoSession == [pc |-> "idle", session |-> NULL]

Init ==
  /\ store = {}
  /\ idle = [s \in Sessions |-> 0]
  /\ opener = [s \in Sessions |-> "idle"]
  /\ exec = [e \in Execs |-> NoSession]
  /\ closer = [c \in Closes |-> NoSession]
  /\ reaper = {}
  /\ gauge = 0
  /\ reaped = {}

-----------------------------------------------------------------------------
(* Locks and worker threads.                                                *)

InFlight(s) == \E e \in Execs : exec[e].pc \in {"writing", "waiting"} /\ exec[e].session = s

(* Mutant of Guarded: the exec clones the Arc and lets go of the guard. *)
Guarded_Never(shard) == FALSE

(* Some exec has a read guard on the shard. *)
Guarded(shard) == \E s \in Sessions : InFlight(s) /\ ShardOf[s] = shard

(* Handlers without an await, and the idle check, keep their worker thread  *)
(* from their first step to their last; an exec does while it writes.       *)
OnWorker ==
  Cardinality({s \in Sessions : opener[s] \in {"spawned", "inserted"}})
    + Cardinality({c \in Closes : closer[c].pc \in {"removing", "removed"}})
    + Cardinality({e \in Execs : exec[e].pc = "writing"})
    + (IF reaper = {} THEN 0 ELSE 1)

WorkerFree == OnWorker < Workers

-----------------------------------------------------------------------------
(* post_session_open                                                        *)

(* Session::open fails; nothing is left behind. *)
OpenFails(s) ==
  /\ opener[s] = "idle"
  /\ WorkerFree
  /\ opener' = [opener EXCEPT ![s] = "replied"]
  /\ UNCHANGED <<store, idle, exec, closer, reaper, gauge, reaped>>

(* Session::open: the shell is spawned and last_active set. *)
OpenShell(s) ==
  /\ opener[s] = "idle"
  /\ WorkerFree
  /\ opener' = [opener EXCEPT ![s] = "spawned"]
  /\ idle' = [idle EXCEPT ![s] = 0]
  /\ UNCHANGED <<store, exec, closer, reaper, gauge, reaped>>

(* sessions.insert, once no exec holds a guard on the shard. *)
Insert(s) ==
  /\ opener[s] = "spawned"
  /\ ~Guarded(ShardOf[s])
  /\ opener' = [opener EXCEPT ![s] = "inserted"]
  /\ store' = store \cup {s}
  /\ UNCHANGED <<idle, exec, closer, reaper, gauge, reaped>>

(* inc_sessions, and the reply. *)
CountOpen(s) ==
  /\ opener[s] = "inserted"
  /\ opener' = [opener EXCEPT ![s] = "replied"]
  /\ gauge' = gauge + 1
  /\ UNCHANGED <<store, idle, exec, closer, reaper, reaped>>

-----------------------------------------------------------------------------
(* post_session_exec                                                        *)

(* The session is found and guarded, and last_active set. *)
ExecStarts(e, s) ==
  /\ exec[e].pc = "idle"
  /\ WorkerFree
  /\ s \in store
  /\ exec' = [exec EXCEPT ![e] = [pc |-> "writing", session |-> s]]
  /\ idle' = [idle EXCEPT ![s] = 0]
  /\ UNCHANGED <<store, opener, closer, reaper, gauge, reaped>>

(* The command line is written, once the shell has read enough for it to    *)
(* fit and no other exec holds the writer; the reader thread is spawned and *)
(* the handler awaits it.                                                   *)
ExecWrites(e) ==
  /\ exec[e].pc = "writing"
  /\ exec' = [exec EXCEPT ![e].pc = "waiting"]
  /\ UNCHANGED <<store, idle, opener, closer, reaper, gauge, reaped>>

(* The command line cannot be written: an error is returned at once. *)
ExecWriteFails(e) ==
  /\ exec[e].pc = "writing"
  /\ exec' = [exec EXCEPT ![e].pc = "replied"]
  /\ UNCHANGED <<store, idle, opener, closer, reaper, gauge, reaped>>

(* The reader has found the end of the output: last_active is set again.    *)
ExecAnswers(e) ==
  /\ exec[e].pc = "waiting"
  /\ WorkerFree
  /\ exec' = [exec EXCEPT ![e].pc = "replied"]
  /\ idle' = [idle EXCEPT ![exec[e].session] = 0]
  /\ UNCHANGED <<store, opener, closer, reaper, gauge, reaped>>

(* Mutant of ExecGivesUp: no timeout, and the client is patient. *)
ExecGivesUp_Never(e) == FALSE

(* The timeout passes, or the client goes away and the future is dropped:   *)
(* last_active stays as it was when the exec began.                         *)
ExecGivesUp(e) ==
  /\ exec[e].pc = "waiting"
  /\ WorkerFree
  /\ exec' = [exec EXCEPT ![e].pc = "replied"]
  /\ UNCHANGED <<store, idle, opener, closer, reaper, gauge, reaped>>

-----------------------------------------------------------------------------
(* delete_session                                                           *)

CloseArrives(c, s) ==
  /\ closer[c].pc = "idle"
  /\ WorkerFree
  /\ closer' = [closer EXCEPT ![c] = [pc |-> "removing", session |-> s]]
  /\ UNCHANGED <<store, idle, opener, exec, reaper, gauge, reaped>>

(* sessions.remove, once no exec holds a guard on the shard. *)
Remove(c) ==
  LET s == closer[c].session
  IN  /\ closer[c].pc = "removing"
      /\ ~Guarded(ShardOf[s])
      /\ closer' = [closer EXCEPT ![c].pc = IF s \in store THEN "removed" ELSE "replied"]
      /\ store' = store \ {s}
      /\ UNCHANGED <<idle, opener, exec, reaper, gauge, reaped>>

(* dec_sessions, and the reply. *)
CountClose(c) ==
  /\ closer[c].pc = "removed"
  /\ closer' = [closer EXCEPT ![c].pc = "replied"]
  /\ gauge' = gauge - 1
  /\ UNCHANGED <<store, idle, opener, exec, reaper, reaped>>

-----------------------------------------------------------------------------
(* start_idle_reaper                                                        *)

(* A tick of the interval: retain begins. *)
ReaperWakes ==
  /\ reaper = {}
  /\ WorkerFree
  /\ reaper' = Shards
  /\ UNCHANGED <<store, idle, opener, exec, closer, gauge, reaped>>

(* Mutant of Expired: "idle > 1800". *)
Expired_Later(s) == idle[s] > IdleLimit

Expired(s) == idle[s] >= IdleLimit

(* Mutant of Reap: the gauge follows, also for the sessions that stay. *)
Reap_CountsShard(shard) ==
  LET here == {s \in store : ShardOf[s] = shard}
  IN  /\ shard \in reaper
      /\ ~Guarded(shard)
      /\ store' = store \ {s \in here : Expired(s)}
      /\ gauge' = gauge - Cardinality(here)
      /\ reaped' = reaped \cup {s \in here : Expired(s)}
      /\ reaper' = reaper \ {shard}
      /\ UNCHANGED <<idle, opener, exec, closer>>

(* retain on one shard, once no exec holds a guard on it.  The gauge is     *)
(* left alone.                                                              *)
Reap(shard) ==
  LET gone == {s \in store : ShardOf[s] = shard /\ Expired(s)}
  IN  /\ shard \in reaper
      /\ ~Guarded(shard)
      /\ store' = store \ gone
      /\ reaped' = reaped \cup gone
      /\ reaper' = reaper \ {shard}
      /\ UNCHANGED <<idle, opener, exec, closer, gauge>>

-----------------------------------------------------------------------------

(* Time passes for the sessions there are.                                  *)
Aging == {s \in Sessions : (s \in store \/ opener[s] = "spawned") /\ idle[s] < IdleLimit}

Tick ==
  /\ Aging # {}
  /\ idle' = [s \in Sessions |-> IF s \in Aging THEN idle[s] + 1 ELSE idle[s]]
  /\ UNCHANGED <<store, opener, exec, closer, reaper, gauge, reaped>>

Open(s) == OpenFails(s) \/ OpenShell(s) \/ Insert(s) \/ CountOpen(s)

Exec(e) ==
  \/ \E s \in Sessions : ExecStarts(e, s)
  \/ ExecWrites(e)
  \/ ExecWriteFails(e)
  \/ ExecAnswers(e)
  \/ ExecGivesUp(e)

Close(c) ==
  \/ \E s \in Sessions : CloseArrives(c, s)
  \/ Remove(c)
  \/ CountClose(c)

Reaper == ReaperWakes \/ \E shard \in Shards : Reap(shard)

Next ==
  \/ \E s \in Sessions : Open(s)
  \/ \E e \in Execs : Exec(e)
  \/ \E c \in Closes : Close(c)
  \/ Reaper
  \/ Tick

Spec == Init /\ [][Next]_vars

(* A handler that has started goes on when it can, an awaited exec times    *)
(* out at the latest, the interval ticks and time passes.  Nothing is       *)
(* assumed of shells and clients: a write may block for ever.               *)
Fairness ==
  /\ \A s \in Sessions : WF_vars(Insert(s) \/ CountOpen(s))
  /\ \A e \in Execs : WF_vars(ExecGivesUp(e))
  /\ \A c \in Closes : WF_vars(Remove(c) \/ CountClose(c))
  /\ WF_vars(ReaperWakes)
  /\ \A shard \in Shards : WF_vars(Reap(shard))
  /\ WF_vars(Tick)

FairSpec == Spec /\ Fairness

-----------------------------------------------------------------------------
(* Properties of the code.                                                  *)

(* The type invariant. *)
TypeOK ==
  /\ store \subseteq Sessions
  /\ idle \in [Sessions -> 0..IdleLimit]
  /\ opener \in [Sessions -> {"idle", "spawned", "inserted", "replied"}]
  /\ exec \in [Execs -> [pc : {"writing", "waiting", "replied"}, session : Sessions] \cup {NoSession}]
  /\ closer \in [Closes -> [pc : {"removing", "removed", "replied"}, session : Sessions]
                             \cup {NoSession}]
  /\ reaper \subseteq Shards
  /\ gauge \in -Cardinality(Sessions)..Cardinality(Sessions) + Cardinality(Closes)
  /\ reaped \subseteq Sessions

(* No session goes away under an exec: neither a close nor the idle check   *)
(* removes a session while an exec of it writes its line or awaits output,  *)
(* however long that takes (the guard post_session_exec holds across the    *)
(* await).                                                                  *)
InUseStays == \A s \in Sessions : InFlight(s) => s \in store

(* The gauge is never too low: it counts every session of the store but     *)
(* those whose open handler has still to count them.  The converse fails:   *)
(* sessions dropped by the idle check stay counted for ever.                *)
GaugeNeverLow ==
  Cardinality(store) <= gauge + Cardinality({s \in Sessions : opener[s] = "inserted"})

(* The gauge is too high by the sessions the idle check dropped, and by     *)
(* nothing else once the handlers are done (post_session_open,              *)
(* delete_session, start_idle_reaper).                                      *)
DriftIsReaped ==
  (\A s \in Sessions : opener[s] # "inserted") /\ (\A c \in Closes : closer[c].pc # "removed")
    => gauge = Cardinality(store) + Cardinality(reaped)

(* A session exec whose line is written ends, in time or by its timeout, as *)
(* long as there are more worker threads than requests that wait for a      *)
(* shard or for a shell to read.                                            *)
ExecEnds == \A e \in Execs : exec[e].pc = "waiting" ~> exec[e].pc = "replied"

(* No session stays for ever, provided no write to a shell blocks for ever: *)
(* requests cease at some time (Execs is finite), and what is no longer     *)
(* used is dropped (start_idle_reaper).                                     *)
WritesEnd == \A e \in Execs : []<>(exec[e].pc # "writing")

EventuallyReaped == WritesEnd => \A s \in Sessions : s \in store ~> s \notin store

=============================================================================
