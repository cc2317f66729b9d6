----------------------------- MODULE AgentExec -----------------------------
(***************************************************************************)
(* Commands run by POST /exec (agent/src/routes/exec.rs), with the client   *)
(* that waits for them (mcp-server/src/transport/agent.rs, exec_agent), the  *)
(* configuration they are run under and the shutdown of the server           *)
(* (agent/src/main.rs, run_server).                                          *)
(*                                                                         *)
(* Time is a count of units.  Delay of the network, the life of a command    *)
(* and the loss of a connection are free; the two timers, of the agent and   *)
(* of the client, fire when they are due.  Connections of other routes matter *)
(* only to the shutdown, and one stands for all of them.                     *)
(***************************************************************************)
EXTENDS AgentConfig, FiniteSets

CONSTANTS
  Reqs,        (* requests *)
  Timeouts,    (* values of timeout_secs *)
  Cap,         (* the largest timeout the agent grants, 3600 s *)
  Grace,       (* what the client adds to the timeout, 10 s *)
  Floor        (* the least time the client waits, 30 s *)

ASSUME ExecAssumption ==
  /\ IsFiniteSet(Reqs)
  /\ Timeouts \subseteq Nat
  /\ Cap \in Nat /\ Grace \in Nat /\ Floor \in Nat

VARIABLES
  limit,       (* size of exec_semaphore, set when the server starts *)
  permits,     (* permits left in exec_semaphore *)
  client,      (* exec_agent, for each request *)
  handler,     (* post_exec, for each request *)
  patience,    (* time until the client gives up *)
  left,        (* time until the agent gives up: first timeout_secs, then what is left of it *)
  transit,     (* time spent on the way to the agent and back, up to Grace *)
  shells,      (* requests whose shell is alive *)
  busy,        (* while the server drains: a connection is in use, other than for a
                  command that runs *)
  server       (* "up", "draining" after SIGTERM, "down" *)

execVars == <<limit, permits, client, handler, patience, left, transit, shells, busy, server>>
vars == <<file, hot, pending, loaded, limit, permits, client, handler, patience, left,
          transit, shells, busy, server>>

Replies == {"done", "error", "timeout", "refused"}

TypeOK ==
  /\ ConfigTypeOK
  /\ limit \in Nat /\ permits \in Nat
  /\ client \in [Reqs -> {"idle", "waiting", "answered", "gone"}]
  /\ handler \in [Reqs -> {"none", "coming", "running", "dropped"} \union Replies]
  /\ patience \in [Reqs -> Nat] /\ left \in [Reqs -> Nat] /\ transit \in [Reqs -> 0..Grace]
  /\ shells \subseteq Reqs /\ busy \in BOOLEAN
  /\ server \in {"up", "draining", "down"}

Zero == [r \in Reqs |-> 0]

Init ==
  /\ ConfigInit
  /\ limit = hot.execs /\ permits = limit
  /\ client = [r \in Reqs |-> "idle"] /\ handler = [r \in Reqs |-> "none"]
  /\ patience = Zero /\ left = Zero /\ transit = Zero
  /\ shells = {} /\ busy = FALSE /\ server = "up"

----------------------------------------------------------------------------
AtLeast(a, b) == IF a < b THEN b ELSE a
AtMost(a, b) == IF a < b THEN a ELSE b

Running == {r \in Reqs : handler[r] = "running"}

(* The requests and replies that are under way. *)
Travelling ==
  {r \in Reqs : client[r] = "waiting" /\ handler[r] \in {"coming"} \union Replies}

(* Mutant of Patience: the client waits for the timeout of the command. *)
X_Patience(t) == t

(* How long the client waits for a command with a timeout. *)
Patience(t) == AtLeast(t + Grace, Floor)

(* exec_agent sends the request. *)
Send(r) ==
  /\ client[r] = "idle"
  /\ client' = [client EXCEPT ![r] = "waiting"]
  /\ handler' = [handler EXCEPT ![r] = "coming"]
  /\ \E t \in Timeouts :
       left' = [left EXCEPT ![r] = t] /\ patience' = [patience EXCEPT ![r] = Patience(t)]
  /\ UNCHANGED <<configVars, limit, permits, transit, shells, busy, server>>

(* A handler ends, and its reply is to be written. *)
Ends(r, how) ==
  /\ handler' = [handler EXCEPT ![r] = how]
  /\ left' = [left EXCEPT ![r] = 0]
  /\ busy' \in {busy, busy \/ server = "draining"}

(* A request arrives, while the server drains only on a connection it has        *)
(* accepted before; the middleware looks at the addresses that the configuration *)
(* of this moment allows.                                                        *)
Arrives(r) ==
  /\ server = "up" \/ busy
  /\ handler[r] = "coming" /\ client[r] = "waiting"

(* The middleware refuses it. *)
Deny(r) ==
  /\ Arrives(r) /\ ~hot.open
  /\ Ends(r, "refused")
  /\ UNCHANGED <<configVars, limit, permits, client, patience, transit, shells, server>>

(* post_exec finds no permit. *)
Reject(r) ==
  /\ Arrives(r) /\ hot.open
  /\ permits = 0
  /\ Ends(r, "refused")
  /\ UNCHANGED <<configVars, limit, permits, client, patience, transit, shells, server>>

(* Mutant of Start: the permit is given back as soon as the shell runs. *)
X_Start(r) ==
  /\ Arrives(r) /\ hot.open
  /\ permits > 0
  /\ handler' = [handler EXCEPT ![r] = "running"]
  /\ left' = [left EXCEPT ![r] = AtMost(@, Cap)]
  /\ shells' = shells \union {r}
  /\ UNCHANGED <<configVars, limit, permits, client, patience, transit, busy, server>>

(* post_exec takes a permit and starts the shell. *)
Start(r) ==
  /\ Arrives(r) /\ hot.open
  /\ permits > 0
  /\ permits' = permits - 1
  /\ handler' = [handler EXCEPT ![r] = "running"]
  /\ left' = [left EXCEPT ![r] = AtMost(@, Cap)]
  /\ shells' = shells \union {r}
  /\ UNCHANGED <<configVars, limit, client, patience, transit, busy, server>>

(* A handler that held a permit gives it back when it ends. *)
Returns(r, how) ==
  /\ Ends(r, how)
  /\ permits' = permits + 1

(* The shell cannot be started, or its output cannot be read: then it lives on. *)
SpawnFails(r) ==
  /\ r \in Running
  /\ Returns(r, "error")
  /\ shells' \in {shells, shells \ {r}}
  /\ UNCHANGED <<configVars, limit, client, patience, transit, server>>

(* The shell of a request ends. *)
ShellEnds(r) ==
  /\ r \in shells
  /\ shells' = shells \ {r}
  /\ UNCHANGED <<configVars, limit, permits, client, handler, patience, left, transit, busy,
                 server>>

(* post_exec has the output: the reply is 200, with the exit code. *)
Collect(r) ==
  /\ r \in Running \ shells
  /\ Returns(r, "done")
  /\ UNCHANGED <<configVars, limit, client, patience, transit, shells, server>>

(* Mutant of TimeOut: the permit stays with the shell. *)
X_TimeOut(r) ==
  /\ r \in Running /\ left[r] = 0
  /\ Ends(r, "timeout")
  /\ permits' = IF r \in shells THEN permits ELSE permits + 1
  /\ UNCHANGED <<configVars, limit, client, patience, transit, shells, server>>

(* The timeout of the command: its future is dropped and the permit with it,    *)
(* the shell is not killed.                                                     *)
TimeOut(r) ==
  /\ r \in Running /\ left[r] = 0
  /\ Returns(r, "timeout")
  /\ UNCHANGED <<configVars, limit, client, patience, transit, shells, server>>

(* The client is gone: the server drops the handler, and its permit; again the   *)
(* shell is not killed.                                                          *)
Disconnect(r) ==
  /\ client[r] = "gone"
  /\ handler[r] \in {"coming", "running"}
  /\ handler' = [handler EXCEPT ![r] = "dropped"] /\ left' = [left EXCEPT ![r] = 0]
  /\ permits' = IF r \in Running THEN permits + 1 ELSE permits
  /\ transit' = [transit EXCEPT ![r] = 0]
  /\ UNCHANGED <<configVars, limit, client, patience, shells, busy, server>>

(* The client gets the reply, after which nothing depends on what it was unless  *)
(* the shell of the request is still alive.                                       *)
Answered(r) ==
  /\ client[r] = "waiting" /\ handler[r] \in Replies
  /\ client' = [client EXCEPT ![r] = "answered"]
  /\ handler' = IF r \in shells THEN handler ELSE [handler EXCEPT ![r] = "none"]
  /\ patience' = [patience EXCEPT ![r] = 0] /\ transit' = [transit EXCEPT ![r] = 0]
  /\ UNCHANGED <<configVars, limit, permits, left, shells, busy, server>>

(* The client stops waiting. *)
GiveUp(r) ==
  /\ client[r] = "waiting" /\ patience[r] = 0
  /\ client' = [client EXCEPT ![r] = "gone"]
  /\ UNCHANGED <<configVars, limit, permits, handler, patience, left, transit, shells, busy,
                 server>>

(* A unit of time; no timer that is due is passed over. *)
Tick ==
  /\ \A r \in Reqs : /\ r \in Running => left[r] > 0
                     /\ client[r] = "waiting" => patience[r] > 0
  /\ \E r \in Reqs : r \in Running \/ client[r] = "waiting"
  /\ left' = [r \in Reqs |-> IF r \in Running THEN left[r] - 1 ELSE left[r]]
  /\ patience' = [r \in Reqs |-> IF client[r] = "waiting" THEN patience[r] - 1 ELSE patience[r]]
  /\ transit' = [r \in Reqs |-> IF r \in Travelling THEN AtMost(transit[r] + 1, Grace)
                                                     ELSE transit[r]]
  /\ UNCHANGED <<configVars, limit, permits, client, handler, shells, busy, server>>

(* SIGTERM: no connection is accepted any more, those in use are waited for:     *)
(* requests of other routes, of which docker, git, systemctl and patch run with   *)
(* no timeout, requests that have not come in full, replies that are not written. *)
Terminate ==
  /\ server = "up"
  /\ server' = "draining"
  /\ busy' \in BOOLEAN
  /\ UNCHANGED <<configVars, limit, permits, client, handler, patience, left, transit, shells>>

(* The other requests have ended, their replies are written. *)
OthersDone ==
  /\ busy
  /\ busy' = FALSE
  /\ UNCHANGED <<configVars, limit, permits, client, handler, patience, left, transit, shells,
                 server>>

(* Mutant of Stop: the server also waits for the shells it has left behind. *)
X_Stop ==
  /\ server = "draining"
  /\ Running = {} /\ ~busy /\ shells = {}
  /\ server' = "down"
  /\ UNCHANGED <<configVars, limit, permits, client, handler, patience, left, transit, shells,
                 busy>>

(* run_server returns when no connection is in use; the log's "max 30s" is no   *)
(* limit.                                                                       *)
Stop ==
  /\ server = "draining"
  /\ Running = {} /\ ~busy
  /\ server' = "down"
  /\ UNCHANGED <<configVars, limit, permits, client, handler, patience, left, transit, shells,
                 busy>>

ExecStep(r) ==
  \/ Send(r) \/ Deny(r) \/ Reject(r) \/ Start(r) \/ SpawnFails(r) \/ ShellEnds(r)
  \/ Collect(r) \/ TimeOut(r) \/ Disconnect(r) \/ Answered(r) \/ GiveUp(r)

(* What happens while the agent runs; nothing is said of what comes after.      *)
Next ==
  /\ server # "down"
  /\ \/ ConfigNext /\ UNCHANGED execVars
     \/ Tick \/ Terminate \/ OthersDone \/ Stop
     \/ \E r \in Reqs : ExecStep(r)

Spec == Init /\ [][Next]_vars

(* While the agent runs, timers fire, the clock goes on, the task of the signal *)
(* runs when it can, and the server notices that no connection is in use.  No   *)
(* shell, no other request and no write of a reply has to end, and no message   *)
(* has to arrive.                                                               *)
Fairness ==
  /\ WF_vars(server # "down" /\ (ReadFile \/ Store) /\ UNCHANGED execVars)
  /\ WF_vars(server # "down" /\ Tick)
  /\ WF_vars(server # "down" /\ \E r \in Reqs : TimeOut(r) \/ GiveUp(r))
  /\ WF_vars(Stop)

FairSpec == Spec /\ Fairness

----------------------------------------------------------------------------
(* Every permit is either free or with a handler that runs: none is lost and    *)
(* none is given back twice, whichever of the output, the timeout and the loss   *)
(* of the connection comes first, and whatever a reload does to max_concurrent_ *)
(* execs, which only counts when the server starts.                              *)
PermitsBalance == permits + Cardinality(Running) = limit

(* More shells than max_concurrent_execs are alive only because some of them     *)
(* were left behind: by a timeout, by a client that went away, or by an output   *)
(* that could not be read.                                                       *)
OverrunExplained ==
  Cardinality(shells) > limit =>
    \E r \in shells : handler[r] \in {"timeout", "dropped", "error"}

(* The client outwaits the agent: it gives up on a command that was started only *)
(* if the request and the reply together took Grace or more, so that a command   *)
(* that takes too long is reported as a timeout of the command.                  *)
OutwaitsAgent ==
  \A r \in Reqs :
    client[r] = "gone" /\ handler[r] \in {"running", "done", "error", "timeout"} =>
      transit[r] = Grace

(* A SIGHUP sent when the file holds a configuration makes it the one that the  *)
(* handlers read (Config::hot), unless the file is edited again or the agent     *)
(* stops, also when it arrives while an earlier one is being served.  What was   *)
(* made from the configuration at the start, such as exec_semaphore, stays.      *)
HangupTakesEffect ==
  \A conf \in Configs :
    pending /\ file = conf ~> hot = conf \/ file # conf \/ server = "down"

(* Commands do not keep a server from stopping, whether their shells end or not: *)
(* once told to stop it does, provided the requests of other routes end and the  *)
(* replies get written.                                                          *)
OthersEnd == []<>~busy

DrainEnds == OthersEnd => (server = "draining" ~> server = "down")

=============================================================================
