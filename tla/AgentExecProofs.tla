-------------------------- MODULE AgentExecProofs --------------------------
(***************************************************************************)
(* What TLAPS proves of AgentExec, for any number of requests, any timeouts  *)
(* and any configurations an operator may write.                             *)
(***************************************************************************)
EXTENDS AgentExec, FiniteSetTheorems, TLAPS

(***************************************************************************)
(* Type correctness                                                        *)
(***************************************************************************)

(* A configuration with the job limit of the command line is a configuration. *)
LEMMA ResolveType ==
  ASSUME NEW conf \in ConfigValues PROVE Resolve(conf) \in ConfigValues
  BY ConfigsAssumption DEF Resolve, ConfigValues

(* The types hold at first.                                                 *)
LEMMA InitTypes == Init => TypeOK
<1> SUFFICES ASSUME Init PROVE TypeOK
  OBVIOUS
<1>1. ConfigTypeOK
  BY ResolveType, ConfigsAssumption DEF Init, ConfigInit, ConfigTypeOK
<1>2. limit \in Nat
  BY <1>1 DEF Init, ConfigTypeOK, ConfigValues
<1>3. busy \in BOOLEAN /\ server \in {"up", "draining", "down"}
  BY DEF Init
<1>4. 0 \in 0..Grace /\ shells \subseteq Reqs
  BY ExecAssumption DEF Init
<1> QED
  BY <1>1, <1>2, <1>3, <1>4 DEF Init, TypeOK, Zero

(* Edits, signals and reloads keep the types of the configuration.          *)
LEMMA ConfigTypes ==
  ASSUME ConfigTypeOK, [ConfigNext]_configVars PROVE ConfigTypeOK'
  BY ConfigsAssumption DEF ConfigTypeOK, ConfigNext, configVars, Truncate, Write, Hangup,
     ReadFile, Store

(* Arithmetic of the timers. *)
LEMMA Timers ==
  /\ \A t \in Timeouts : t \in Nat /\ Patience(t) \in Nat
  /\ \A a \in Nat, b \in Nat : AtMost(a, b) \in Nat /\ AtMost(a, b) <= b /\ AtMost(a, b) <= a
  BY ExecAssumption DEF Patience, AtLeast, AtMost

(* The steps of a request keep the types, and leave the configuration alone.     *)
LEMMA StepTypes ==
  ASSUME TypeOK, NEW r \in Reqs, ExecStep(r)
  PROVE  TypeOK'
<1> USE DEF TypeOK, Replies
<1>0. ConfigTypeOK' \/ UNCHANGED configVars
  BY DEF ExecStep, Send, Deny, Reject, Start, SpawnFails, ShellEnds, Collect, TimeOut,
     Disconnect, Answered, GiveUp
<1>1. ConfigTypeOK'
  BY <1>0, ConfigTypes DEF configVars
<1>b. busy' \in BOOLEAN
  BY DEF ExecStep, Send, Deny, Reject, Start, SpawnFails, ShellEnds, Collect, TimeOut,
     Disconnect, Answered, GiveUp, Returns, Ends
<1>2. CASE Send(r)
  <2>1. PICK t \in Timeouts : /\ left' = [left EXCEPT ![r] = t]
                              /\ patience' = [patience EXCEPT ![r] = Patience(t)]
    BY <1>2 DEF Send
  <2>2. left' \in [Reqs -> Nat] /\ patience' \in [Reqs -> Nat]
    BY <2>1, Timers
  <2> QED
    BY <1>1, <1>2, <2>2 DEF Send
<1>3. CASE Deny(r)
  BY <1>1, <1>b, <1>3 DEF Deny, Ends
<1>4. CASE Reject(r)
  BY <1>1, <1>b, <1>4 DEF Reject, Ends
<1>5. CASE Start(r)
  BY <1>1, <1>b, <1>5, ExecAssumption DEF Start, AtMost
<1>6. CASE SpawnFails(r)
  BY <1>1, <1>b, <1>6 DEF SpawnFails, Returns, Ends
<1>7. CASE ShellEnds(r)
  BY <1>1, <1>b, <1>7 DEF ShellEnds
<1>8. CASE Collect(r)
  BY <1>1, <1>b, <1>8 DEF Collect, Returns, Ends
<1>9. CASE TimeOut(r)
  BY <1>1, <1>b, <1>9 DEF TimeOut, Returns, Ends
<1>10. CASE Disconnect(r)
  BY <1>1, <1>b, <1>10, ExecAssumption DEF Disconnect, Ends
<1>11. CASE Answered(r)
  BY <1>1, <1>b, <1>11, ExecAssumption DEF Answered
<1>12. CASE GiveUp(r)
  BY <1>1, <1>b, <1>12 DEF GiveUp
<1> QED
  BY <1>2, <1>3, <1>4, <1>5, <1>6, <1>7, <1>8, <1>9, <1>10, <1>11, <1>12 DEF ExecStep

(* The clock keeps the types.                                               *)
LEMMA TickTypes ==
  ASSUME TypeOK, Tick PROVE TypeOK'
<1> USE DEF TypeOK
<1>1. left' \in [Reqs -> Nat] /\ patience' \in [Reqs -> Nat]
  BY DEF Tick, Running
<1>2. transit' \in [Reqs -> 0..Grace]
  BY ExecAssumption DEF Tick, AtMost
<1>3. ConfigTypeOK'
  BY ConfigTypes DEF Tick, configVars
<1> QED
  BY <1>1, <1>2, <1>3 DEF Tick

(* Every step keeps the types.                                              *)
LEMMA NextTypes ==
  ASSUME TypeOK, [Next]_vars PROVE TypeOK'
<1>1. CASE ConfigNext /\ UNCHANGED execVars
  BY <1>1, ConfigTypes DEF TypeOK, execVars
<1>2. CASE Tick
  BY <1>2, TickTypes
<1>3. CASE Terminate \/ OthersDone \/ Stop
  BY <1>3, ConfigTypes DEF Terminate, OthersDone, Stop, TypeOK, configVars
<1>4. CASE \E r \in Reqs : ExecStep(r)
  BY <1>4, StepTypes
<1>5. CASE UNCHANGED vars
  BY <1>5, ConfigTypes DEF vars, TypeOK, configVars
<1> QED
  BY <1>1, <1>2, <1>3, <1>4, <1>5 DEF Next

(* Requests, timers, permits and the configuration keep their types.            *)
THEOREM ExecTypes == Spec => []TypeOK
  BY InitTypes, NextTypes, PTL DEF Spec

(***************************************************************************)
(* Shells                                                                  *)
(***************************************************************************)

(* A live shell belongs to a handler that waits for it or was cut off from it,   *)
(* and a request that was not sent has no handler.                               *)
ShellsHaveHandlers ==
  /\ \A r \in shells : handler[r] \in {"running", "timeout", "dropped", "error"}
  /\ \A r \in Reqs : client[r] = "idle" => handler[r] = "none"

(* Every step keeps ShellsHaveHandlers.                                     *)
LEMMA ShellsStep ==
  ASSUME TypeOK, ShellsHaveHandlers, [Next]_vars PROVE ShellsHaveHandlers'
<1> USE DEF ShellsHaveHandlers, TypeOK
<1>1. CASE ConfigNext /\ UNCHANGED execVars
  BY <1>1 DEF execVars
<1>2. CASE Tick \/ Terminate \/ OthersDone \/ Stop
  BY <1>2 DEF Tick, Terminate, OthersDone, Stop
<1>3. ASSUME NEW r \in Reqs, ExecStep(r) PROVE ShellsHaveHandlers'
  <2>1. CASE Send(r)
    BY <2>1 DEF Send
  <2>2. CASE Deny(r) \/ Reject(r)
    BY <2>2 DEF Deny, Reject, Arrives, Ends
  <2>3. CASE Start(r)
    BY <2>3 DEF Start, Arrives
  <2>4. CASE SpawnFails(r) \/ Collect(r) \/ TimeOut(r)
    BY <2>4 DEF SpawnFails, Collect, TimeOut, Returns, Ends, Running
  <2>5. CASE ShellEnds(r) \/ GiveUp(r)
    BY <2>5 DEF ShellEnds, GiveUp
  <2>6. CASE Disconnect(r)
    BY <2>6 DEF Disconnect, Ends
  <2>7. CASE Answered(r)
    BY <2>7 DEF Answered
  <2> QED
    BY <1>3, <2>1, <2>2, <2>3, <2>4, <2>5, <2>6, <2>7 DEF ExecStep
<1>4. CASE UNCHANGED vars
  BY <1>4 DEF vars
<1> QED
  BY <1>1, <1>2, <1>3, <1>4 DEF Next

(* ShellsHaveHandlers holds in every state.                                     *)
LEMMA HandlersOfShells == Spec => []ShellsHaveHandlers
<1>1. Init => ShellsHaveHandlers
  BY DEF Init, ShellsHaveHandlers
<1>2. TypeOK /\ ShellsHaveHandlers /\ [Next]_vars => ShellsHaveHandlers'
  BY ShellsStep
<1> QED
  BY <1>1, <1>2, ExecTypes, PTL DEF Spec

(***************************************************************************)
(* Permits                                                                 *)
(***************************************************************************)

(* Sets of requests are finite.                                             *)
LEMMA SubsetFinite ==
  ASSUME NEW S, S \subseteq Reqs PROVE IsFiniteSet(S) /\ Cardinality(S) \in Nat
  BY ExecAssumption, FS_Subset, FS_CardinalityType

(* A handler that starts to run, or ends, changes the number by one.            *)
LEMMA OneMore ==
  ASSUME TypeOK, NEW r \in Reqs, r \notin Running, NEW h, h = "running",
         handler' = [handler EXCEPT ![r] = h]
  PROVE  Cardinality(Running') = Cardinality(Running) + 1
<1>1. Running' = Running \union {r}
  BY DEF Running, TypeOK
<1> QED
  BY <1>1, SubsetFinite, FS_AddElement DEF Running

(* The other direction: a handler that ends makes the number smaller by one. *)
LEMMA OneLess ==
  ASSUME TypeOK, NEW r \in Running, NEW h, h # "running",
         handler' = [handler EXCEPT ![r] = h]
  PROVE  Cardinality(Running') = Cardinality(Running) - 1
<1>1. Running' = Running \ {r}
  BY DEF Running, TypeOK
<1> QED
  BY <1>1, SubsetFinite, FS_RemoveElement DEF Running

(* Every step keeps the balance of the permits.                             *)
LEMMA PermitsStep ==
  ASSUME TypeOK, ShellsHaveHandlers, PermitsBalance, [Next]_vars PROVE PermitsBalance'
<1>0. limit \in Nat /\ permits \in Nat /\ Cardinality(Running) \in Nat
  BY SubsetFinite DEF TypeOK, Running
<1> USE DEF PermitsBalance
<1>1. ASSUME UNCHANGED <<limit, permits>>, Running' = Running PROVE PermitsBalance'
  BY <1>1
<1>2. CASE ConfigNext /\ UNCHANGED execVars
  BY <1>1, <1>2 DEF execVars, Running
<1>3. CASE Tick \/ Terminate \/ OthersDone \/ Stop
  BY <1>1, <1>3 DEF Tick, Terminate, OthersDone, Stop, Running
<1>4. ASSUME NEW r \in Reqs, ExecStep(r) PROVE PermitsBalance'
  <2>1. CASE Send(r) \/ ShellEnds(r) \/ GiveUp(r)
    <3>1. UNCHANGED <<limit, permits>>
      BY <2>1 DEF Send, ShellEnds, GiveUp
    <3>2. handler' = handler \/ handler' = [handler EXCEPT ![r] = "coming"]
      BY <2>1 DEF Send, ShellEnds, GiveUp
    <3>3. r \in Running => handler' = handler
      BY <2>1 DEF Send, ShellEnds, GiveUp, Running, ShellsHaveHandlers
    <3>4. Running' = Running
      BY <3>2, <3>3 DEF Running, TypeOK
    <3> QED
      BY <1>1, <3>1, <3>4
  <2>2. CASE Deny(r) \/ Reject(r) \/ Answered(r)
    <3>1. UNCHANGED <<limit, permits>> /\ handler[r] # "running"
      BY <2>2 DEF Deny, Reject, Answered, Arrives, Replies
    <3>2. \E h : h # "running" /\ (handler' = handler \/ handler' = [handler EXCEPT ![r] = h])
      BY <2>2 DEF Deny, Reject, Answered, Ends
    <3>3. Running' = Running
      BY <3>1, <3>2 DEF Running, TypeOK
    <3> QED
      BY <1>1, <3>1, <3>3
  <2>3. CASE Start(r)
    <3>1. r \notin Running /\ handler' = [handler EXCEPT ![r] = "running"]
      BY <2>3 DEF Start, Arrives, Running
    <3>2. Cardinality(Running') = Cardinality(Running) + 1
      BY <3>1, OneMore
    <3>3. permits' = permits - 1 /\ limit' = limit
      BY <2>3 DEF Start
    <3> QED
      BY <1>0, <3>2, <3>3
  <2>4. ASSUME r \in Running, NEW h, h # "running", handler' = [handler EXCEPT ![r] = h],
               permits' = permits + 1, limit' = limit
        PROVE  PermitsBalance'
    <3>1. Cardinality(Running') = Cardinality(Running) - 1
      BY <2>4, OneLess
    <3> QED
      BY <1>0, <2>4, <3>1
  <2>5. CASE SpawnFails(r)
    BY <2>4, <2>5 DEF SpawnFails, Returns, Ends
  <2>6. CASE Collect(r)
    BY <2>4, <2>6 DEF Collect, Returns, Ends
  <2>7. CASE TimeOut(r)
    BY <2>4, <2>7 DEF TimeOut, Returns, Ends
  <2>8. CASE Disconnect(r)
    <3>1. handler' = [handler EXCEPT ![r] = "dropped"] /\ limit' = limit
      BY <2>8 DEF Disconnect, Ends
    <3>2. CASE r \in Running
      BY <2>4, <2>8, <3>1, <3>2 DEF Disconnect
    <3>3. CASE r \notin Running
      <4>1. permits' = permits
        BY <2>8, <3>3 DEF Disconnect
      <4>2. Running' = Running
        BY <3>1, <3>3 DEF Running, TypeOK
      <4> QED
        BY <1>1, <3>1, <4>1, <4>2
    <3> QED
      BY <3>2, <3>3
  <2> QED
    BY <1>4, <2>1, <2>2, <2>3, <2>5, <2>6, <2>7, <2>8 DEF ExecStep
<1>5. CASE UNCHANGED vars
  BY <1>1, <1>5 DEF vars, Running
<1> QED
  BY <1>2, <1>3, <1>4, <1>5 DEF Next

(* No permit of exec_semaphore is lost or given back twice.                     *)
THEOREM PermitsAreBalanced == Spec => []PermitsBalance
<1>1. Init => PermitsBalance
  <2> SUFFICES ASSUME Init PROVE PermitsBalance
    OBVIOUS
  <2>1. Running = {} /\ limit \in Nat
    BY InitTypes DEF Init, Running, TypeOK
  <2> QED
    BY <2>1, FS_EmptySet DEF Init, PermitsBalance
<1>2. TypeOK /\ ShellsHaveHandlers /\ PermitsBalance /\ [Next]_vars => PermitsBalance'
  BY PermitsStep
<1> QED
  BY <1>1, <1>2, ExecTypes, HandlersOfShells, PTL DEF Spec

(***************************************************************************)
(* More shells than permits                                                *)
(***************************************************************************)

(* Without shells that were left behind, every shell has a handler that runs and *)
(* holds a permit.                                                               *)
LEMMA ShellsWithinLimit ==
  ASSUME TypeOK, PermitsBalance, ShellsHaveHandlers PROVE OverrunExplained
<1> SUFFICES ASSUME \A r \in shells : handler[r] \notin {"timeout", "dropped", "error"}
             PROVE  ~(Cardinality(shells) > limit)
  BY DEF OverrunExplained
<1>1. shells \subseteq Running
  BY DEF ShellsHaveHandlers, Running, TypeOK
<1>2. Cardinality(shells) <= Cardinality(Running)
  BY <1>1, SubsetFinite, FS_Subset DEF Running
<1>3. Cardinality(shells) \in Nat /\ Cardinality(Running) \in Nat
  BY SubsetFinite DEF TypeOK, Running
<1> QED
  BY <1>2, <1>3 DEF PermitsBalance, TypeOK

(* More shells than permits are explained by those that nobody waits for.       *)
THEOREM OverrunIsExplained == Spec => []OverrunExplained
<1>1. TypeOK /\ PermitsBalance /\ ShellsHaveHandlers => OverrunExplained
  BY ShellsWithinLimit
<1> QED
  BY <1>1, ExecTypes, HandlersOfShells, PermitsAreBalanced, PTL

(***************************************************************************)
(* Timers                                                                  *)
(***************************************************************************)

(* Until a request and its reply have been under way for Grace, the client has   *)
(* at least the rest of Grace more left than the agent.                          *)
ClientLasts ==
  \A r \in Reqs :
    handler[r] \in {"coming", "running", "done", "error", "timeout"} /\ client[r] = "waiting" =>
      transit[r] = Grace \/ patience[r] + transit[r] >= left[r] + Grace

NothingOnTheWay == \A r \in Reqs : client[r] = "idle" => transit[r] = 0

TimersInv == ClientLasts /\ OutwaitsAgent /\ NothingOnTheWay

(* The clock moves both timers alike, and the way costs at most Grace.      *)
LEMMA TickTimers ==
  ASSUME TypeOK, TimersInv, Tick PROVE TimersInv'
<1> USE DEF TypeOK, TimersInv
<1>1. NothingOnTheWay'
  BY DEF Tick, NothingOnTheWay, Travelling
<1>2. OutwaitsAgent'
  BY DEF Tick, OutwaitsAgent, Travelling
<1>3. ClientLasts'
  <2> SUFFICES ASSUME NEW r \in Reqs, client[r] = "waiting",
                      handler[r] \in {"coming", "running", "done", "error", "timeout"}
               PROVE  transit'[r] = Grace \/ patience'[r] + transit'[r] >= left'[r] + Grace
    BY DEF Tick, ClientLasts
  <2>1. /\ patience[r] \in Nat /\ left[r] \in Nat /\ transit[r] \in 0..Grace /\ Grace \in Nat
        /\ transit[r] = Grace \/ patience[r] + transit[r] >= left[r] + Grace
    BY ExecAssumption DEF ClientLasts
  <2>2. patience[r] > 0 /\ patience'[r] = patience[r] - 1
    BY DEF Tick
  <2>3. CASE handler[r] = "running"
    <3>1. left[r] > 0 /\ left'[r] = left[r] - 1 /\ transit'[r] = transit[r]
      BY <2>3 DEF Tick, Running, Travelling, Replies
    <3> QED
      BY <2>1, <2>2, <3>1
  <2>4. CASE handler[r] # "running"
    <3>1. left'[r] = left[r] /\ transit'[r] = AtMost(transit[r] + 1, Grace)
      BY <2>4 DEF Tick, Running, Travelling, Replies
    <3> QED
      BY <2>1, <2>2, <3>1 DEF AtMost
  <2> QED
    BY <2>3, <2>4
<1> QED
  BY <1>1, <1>2, <1>3

(* The steps of a request keep the timers in order.                         *)
LEMMA StepTimers ==
  ASSUME TypeOK, TimersInv, NEW r \in Reqs, ExecStep(r) PROVE TimersInv'
<1> USE DEF TypeOK, TimersInv, ClientLasts, OutwaitsAgent, NothingOnTheWay
<1>1. CASE Send(r)
  <2>1. PICK t \in Timeouts : /\ left' = [left EXCEPT ![r] = t]
                              /\ patience' = [patience EXCEPT ![r] = Patience(t)]
    BY <1>1 DEF Send
  <2>2. t \in Nat /\ Patience(t) \in Nat /\ Patience(t) >= t + Grace
    BY ExecAssumption DEF Patience, AtLeast
  <2> QED
    BY <1>1, <2>1, <2>2 DEF Send
<1>2. CASE Deny(r) \/ Reject(r)
  BY <1>2 DEF Deny, Reject, Ends, Arrives
<1>3. CASE Start(r)
  <2>1. left'[r] \in Nat /\ left'[r] <= left[r]
    BY <1>3, Timers, ExecAssumption DEF Start
  <2>2. patience[r] \in Nat /\ transit[r] \in Nat /\ left[r] \in Nat /\ Grace \in Nat
    BY ExecAssumption
  <2> QED
    BY <1>3, <2>1, <2>2 DEF Start, Arrives
<1>4. CASE SpawnFails(r) \/ Collect(r) \/ TimeOut(r)
  <2>1. /\ r \in Running
        /\ \E h \in {"done", "error", "timeout"} : handler' = [handler EXCEPT ![r] = h]
        /\ left' = [left EXCEPT ![r] = 0]
        /\ UNCHANGED <<client, patience, transit>>
    BY <1>4 DEF SpawnFails, Collect, TimeOut, Returns, Ends
  <2>2. patience[r] \in Nat /\ transit[r] \in Nat /\ left[r] \in Nat /\ Grace \in Nat
    BY ExecAssumption
  <2> QED
    BY <2>1, <2>2 DEF Running
<1>5. CASE ShellEnds(r)
  BY <1>5 DEF ShellEnds
<1>6. CASE Disconnect(r)
  BY <1>6 DEF Disconnect, Ends
<1>7. CASE Answered(r)
  BY <1>7 DEF Answered
<1>8. CASE GiveUp(r)
  <2>1. patience[r] = 0 /\ transit[r] \in 0..Grace /\ left[r] \in Nat /\ Grace \in Nat
    BY <1>8, ExecAssumption DEF GiveUp
  <2> QED
    BY <1>8, <2>1 DEF GiveUp
<1> QED
  BY <1>1, <1>2, <1>3, <1>4, <1>5, <1>6, <1>7, <1>8 DEF ExecStep

(* Every step keeps the timers in order.                                    *)
LEMMA TimersStep ==
  ASSUME TypeOK, TimersInv, [Next]_vars PROVE TimersInv'
<1> USE DEF TimersInv, ClientLasts, OutwaitsAgent, NothingOnTheWay
<1>1. CASE ConfigNext /\ UNCHANGED execVars
  BY <1>1 DEF execVars
<1>2. CASE Tick
  BY <1>2, TickTimers
<1>3. CASE Terminate \/ OthersDone \/ Stop
  BY <1>3 DEF Terminate, OthersDone, Stop
<1>4. CASE \E r \in Reqs : ExecStep(r)
  BY <1>4, StepTimers
<1>5. CASE UNCHANGED vars
  BY <1>5 DEF vars
<1> QED
  BY <1>1, <1>2, <1>3, <1>4, <1>5 DEF Next

(* A client gives up on a command that was started only if the network took     *)
(* Grace, whatever the timeout asked for and the cap of the agent.               *)
THEOREM ClientOutwaitsAgent == Spec => []OutwaitsAgent
<1>1. Init => TimersInv
  BY DEF Init, TimersInv, ClientLasts, OutwaitsAgent, NothingOnTheWay, Zero
<1>2. TypeOK /\ TimersInv /\ [Next]_vars => TimersInv'
  BY TimersStep
<1>3. TimersInv => OutwaitsAgent
  BY DEF TimersInv
<1> QED
  BY <1>1, <1>2, <1>3, ExecTypes, PTL DEF Spec

=============================================================================
