----------------------------- MODULE ToolCalls -----------------------------
(***************************************************************************)
(* One call of a tool, from the MCP client to the machines and back: the    *)
(* choice of the transport (mcp-server/src/tools/*.rs, transport/mod.rs),   *)
(* the signed request to an agent (transport/agent.rs, agent/src/auth.rs,   *)
(* the handlers of routes/*.rs) or the command over SSH (transport/ssh.rs),  *)
(* and the answer.  A call of a fleet tool has a leg for each machine        *)
(* (tools/fleet.rs), any other call has one leg.                            *)
(*                                                                         *)
(* Ways a call can fail that are modelled: a machine that is not known, an  *)
(* open circuit, a request refused by the agent, an operation that fails, a  *)
(* request or a reply that is lost, a client that stops waiting, a handler   *)
(* that is dropped when its connection closes, an SSH channel that closes    *)
(* at any point, an answer that cannot be cut to the output limit.          *)
(***************************************************************************)
EXTENDS Naturals, Sequences, FiniteSets, ToolSchemas, ToolRequests, AgentRoutes

CONSTANTS
  Transports,   (* the values of the column `transport' of a machine *)
  MaxLegs       (* bound: machines in a call of a fleet tool *)

ASSUME LegsAssumption == MaxLegs \in Nat \ {0}

VARIABLES
  call,      (* the tool, the arguments given and the size of the content *)
  machines,  (* the machine of each leg, as the registry has it *)
  legs,      (* the state of each leg *)
  answer     (* "none", or what the MCP client gets: "ok", "error", "panic" *)

vars == <<call, machines, legs, answer>>

----------------------------------------------------------------------------
(* The tools that reach a machine. *)
Calls == DOMAIN Requests

FleetTools == {"fleet_exec", "fleet_ls", "fleet_upload"}

(* Tools that run a command by the transport of the machine, agent or not. *)
DispatchTools == {"exec", "machine_test", "fleet_exec", "fleet_ls"}

(* Tools whose content can be large. *)
ContentTools == {"file_write", "file_str_replace", "file_patch", "file_insert",
                 "file_upload", "fleet_upload"}

(* Sizes of a request's body: up to 2 MB, the limit of the extractors of axum; *)
(* up to MAX_BODY_BYTES, 64 MB; larger.                                        *)
Sizes(tool) == IF tool \in ContentTools THEN {"small", "over2MB", "over64MB"} ELSE {"small"}

(* A machine: known to the registry or not, its transport, whether it has an   *)
(* agent_url, and whether that agent admits this server: the address is        *)
(* allowed, the token is right and the clocks agree to MAX_TIMESTAMP_SKEW_SECS. *)
Machine == [known : BOOLEAN, transport : Transports, url : BOOLEAN, admits : BOOLEAN]

(* Answers that go through paginate, which cuts at OUTPUT_LIMIT bytes. *)
Paginated(tool, via) ==
  \/ tool \in {"exec", "fleet_exec", "fleet_ls", "file_read", "session_exec", "job_logs"}
  \/ /\ via = "ssh"
     /\ tool \in {"docker_logs", "docker_exec", "docker_inspect", "docker_images", "fs_ls",
                  "fs_find", "fs_tree", "git_diff", "log_tail", "log_grep", "ps_list",
                  "ps_tree", "service_list", "service_logs", "net_ports", "net_interfaces"}

(* A leg: what its client does, how it reaches the machine, what goes on at     *)
(* the far end, the status of the reply, how often the operation was carried    *)
(* out and whether it did what was asked, the exit code read from the channel,  *)
(* and what the far end of an SSH channel has still to deliver.                 *)
NewLeg == [client |-> "new", via |-> "none", far |-> "none", status |-> "none",
           ran |-> 0, worked |-> FALSE, code |-> "none", unread |-> {}]

Leg == [client : {"new", "waiting", "ok", "error"}, via : {"none", "agent", "ssh"},
        far : {"none", "wire", "running", "replied", "over"},
        status : {"none", "200", "500", "unknown", "denied", "large", "shape"},
        ran : 0..2, worked : BOOLEAN, code : {"none", "zero", "nonzero"},
        unread : SUBSET {"status", "eof"}]

TypeOK ==
  /\ call \in [tool : Calls, given : SUBSET UNION {Reads(t) : t \in Calls},
               size : {"small", "over2MB", "over64MB"}]
  /\ machines \in Seq(Machine)
  /\ legs \in [DOMAIN machines -> Leg]
  /\ answer \in {"none", "ok", "error", "panic"}

Init ==
  /\ \E tool \in Calls :
       /\ \E given \in SUBSET Schemas[tool].takes, size \in Sizes(tool) :
            call = [tool |-> tool, given |-> Schemas[tool].needs \union given, size |-> size]
       /\ \E n \in IF tool \in FleetTools THEN 1..MaxLegs ELSE {1} : machines \in [1..n -> Machine]
  /\ \A i \in DOMAIN machines :
       /\ machines[i].admits => machines[i].url
       /\ ~machines[i].known => ~machines[i].url /\ machines[i].transport = "ssh"
  /\ legs = [i \in DOMAIN machines |-> NewLeg]
  /\ answer = "none"

----------------------------------------------------------------------------
Tool == call.tool
Done(i) == legs[i].client \in {"ok", "error"}

(* dispatch_exec: the transport decides, whatever else the machine has. *)
ByTransport(m) ==
  CASE m.transport = "ssh" -> "ssh"
    [] m.transport \in {"agent", "agent+ssh"} /\ m.url -> "agent"
    [] OTHER -> "nowhere"

(* How a tool reaches a machine: those that are not a plain command go to the *)
(* agent of a machine that has one, and are a command on any other.           *)
Way(tool, m) ==
  IF ~m.known THEN "nowhere"
  ELSE IF tool \in DispatchTools THEN ByTransport(m)
  ELSE IF m.url THEN "agent"
  ELSE CASE Requests[tool].code = "agent" -> "nowhere"
         [] Requests[tool].code = "nothing" -> "here"
         [] OTHER -> ByTransport(m)

(* Calls that ask the circuit of the machine first. *)
AsksCircuit(tool, m) == tool \in DispatchTools \union {"job_start"} \/ ~m.url

(* The legs of an upload run one after the other, the others all at once. *)
MayBegin(i) == Tool = "fleet_upload" => \A j \in 1..(i - 1) : Done(j)

(* A leg begins: it fails at once, or its request is on the way. *)
Begin(i) ==
  /\ legs[i].client = "new"
  /\ MayBegin(i)
  /\ \E open \in {FALSE, AsksCircuit(Tool, machines[i])} :
       LET way == Way(Tool, machines[i])
       IN legs' = [legs EXCEPT ![i] =
            CASE way = "nowhere" \/ open -> [@ EXCEPT !.client = "error"]
              [] way = "here" /\ ~open -> [@ EXCEPT !.client = "ok"]
              [] OTHER -> [@ EXCEPT !.client = "waiting", !.via = way, !.far = "wire"]]
  /\ UNCHANGED <<call, machines, answer>>

----------------------------------------------------------------------------
(* The parameters of the request that carry a value. *)
Sent(tool, given) ==
  LET params == Requests[tool].params
      filled == Arms[tool].text \union Arms[tool].number \union {Fixed}
  IN {p \in DOMAIN params : params[p] \in (given \intersect Reads(tool)) \union filled}

(* The first reason for which the agent refuses a request, in the order of the *)
(* code: no such route, which the middleware of the routes does not see; the   *)
(* address or the time; a body over 64 MB; the signature, which an upload      *)
(* computes over the content and not over the multipart body it sends; a body  *)
(* over 2 MB; a parameter the extractor misses.  "none" if there is no reason. *)
Refusal(tool, given, size, m) ==
  LET request == Requests[tool]
  IN IF request.path \notin DOMAIN Routes THEN "unknown"
     ELSE IF ~m.admits THEN "denied"
     ELSE IF size = "over64MB" THEN "large"
     ELSE IF request.path = "/file/upload" THEN "denied"
     ELSE IF size = "over2MB" THEN "large"
     ELSE IF ~Accepts(request.path, request.method, Sent(tool, given)) THEN "shape"
     ELSE "none"

(* A request arrives at the agent: it is refused, or its handler starts. *)
Receive(i) ==
  /\ legs[i].via = "agent" /\ legs[i].far = "wire"
  /\ LET refusal == Refusal(Tool, call.given, call.size, machines[i])
     IN legs' = [legs EXCEPT ![i] =
          IF refusal = "none" THEN [@ EXCEPT !.far = "running"]
                              ELSE [@ EXCEPT !.far = "replied", !.status = refusal]]
  /\ UNCHANGED <<call, machines, answer>>

(* The statuses with which a handler may answer an operation that failed. *)
FailureStatus(fails) == IF fails = "status" THEN {"500"} ELSE {"200", "500"}

(* The operation is carried out and the reply is on its way. *)
Replied(l, works, status) ==
  [l EXCEPT !.far = "replied", !.ran = @ + 1, !.worked = works, !.status = status]

(* The handler ends and replies. *)
Handle(i) ==
  /\ legs[i].via = "agent" /\ legs[i].far = "running"
  /\ \E works \in BOOLEAN :
     \E status \in IF works THEN {"200"} ELSE FailureStatus(Routes[Requests[Tool].path].fails) :
       legs' = [legs EXCEPT ![i] = Replied(@, works, status)]
  /\ UNCHANGED <<call, machines, answer>>

(* The client reads the reply: any status but a success is an error. *)
ReadReply(i) ==
  /\ legs[i].via = "agent" /\ legs[i].far = "replied" /\ legs[i].client = "waiting"
  /\ legs' = [legs EXCEPT ![i].client = IF legs[i].status = "200" THEN "ok" ELSE "error"]
  /\ UNCHANGED <<call, machines, answer>>

(* Mutant of Fail: a machine with both transports is tried again over SSH. *)
X_FailOver(i) ==
  /\ legs[i].client = "waiting"
  /\ legs' = [legs EXCEPT ![i] =
       IF machines[i].transport = "agent+ssh" /\ @.via = "agent"
       THEN [@ EXCEPT !.via = "ssh", !.far = "wire"]
       ELSE [@ EXCEPT !.client = "error"]]
  /\ UNCHANGED <<call, machines, answer>>

(* Mutant of Fail: requests to an agent have no timeout. *)
X_FailNever(i) ==
  /\ legs[i].client = "waiting" /\ legs[i].via = "ssh"
  /\ legs' = [legs EXCEPT ![i].client = "error"]
  /\ UNCHANGED <<call, machines, answer>>

(* The client stops waiting, at its timeout or because the connection is lost; *)
(* there is no second attempt and no other transport.  The timeout of an SSH    *)
(* command starts when the command does.                                       *)
Fail(i) ==
  /\ legs[i].client = "waiting"
  /\ legs' = [legs EXCEPT ![i].client = "error"]
  /\ UNCHANGED <<call, machines, answer>>

(* The far end stops, having carried the operation out `ran' times more. *)
Stopped(l, ran, works) ==
  [l EXCEPT !.far = "over", !.ran = @ + ran, !.worked = works]

(* What is still going on at the far end of a leg whose client is gone ends:   *)
(* the request never arrives, the handler is dropped, the command is killed    *)
(* with its channel, before or after it did its work.                          *)
CutOff(i) ==
  /\ Done(i) /\ legs[i].far \in {"wire", "running"}
  /\ \E ran \in {0} \union (IF legs[i].far = "running" THEN {1} ELSE {}), works \in BOOLEAN :
       /\ works => ran = 1
       /\ legs' = [legs EXCEPT ![i] = Stopped(@, ran, works)]
  /\ UNCHANGED <<call, machines, answer>>

----------------------------------------------------------------------------
(* SshPool::exec: connected, authenticated, the command is started. *)
SshStart(i) ==
  /\ legs[i].via = "ssh" /\ legs[i].far = "wire" /\ legs[i].client = "waiting"
  /\ legs' = [legs EXCEPT ![i].far = "running"]
  /\ UNCHANGED <<call, machines, answer>>

(* The command has ended; nothing of its end was read yet. *)
Exited(l, works) ==
  [l EXCEPT !.far = "replied", !.ran = @ + 1, !.worked = works, !.unread = {"status", "eof"}]

(* The command ends: its exit status and the end of its output are sent, in     *)
(* the order the server likes.                                                  *)
SshExit(i) ==
  /\ legs[i].via = "ssh" /\ legs[i].far = "running"
  /\ \E works \in BOOLEAN : legs' = [legs EXCEPT ![i] = Exited(@, works)]
  /\ UNCHANGED <<call, machines, answer>>

(* The exit status was read from the channel. *)
StatusRead(l) ==
  [l EXCEPT !.code = IF l.worked THEN "zero" ELSE "nonzero", !.unread = @ \ {"status"}]

(* collect_channel_output reads the exit status. *)
SshStatus(i) ==
  /\ "status" \in legs[i].unread /\ legs[i].client = "waiting"
  /\ legs' = [legs EXCEPT ![i] = StatusRead(@)]
  /\ UNCHANGED <<call, machines, answer>>

(* Mutant of CodeResult: the exit code is not looked at. *)
X_CodeResult(tool, code) == "ok"

(* What a tool makes of the code it got; no code at all counts as 0. *)
CodeResult(tool, code) ==
  IF Requests[tool].code = "checked" /\ code = "nonzero" THEN "error" ELSE "ok"

(* collect_channel_output returns: at the end of the output, or because the     *)
(* channel is closed, which it does not tell apart.                             *)
SshReturn(i) ==
  /\ legs[i].via = "ssh" /\ legs[i].client = "waiting"
  /\ legs[i].far \in {"running", "replied"}
  /\ legs' = [legs EXCEPT ![i].client = CodeResult(Tool, legs[i].code)]
  /\ UNCHANGED <<call, machines, answer>>

----------------------------------------------------------------------------
Known == {i \in DOMAIN machines : machines[i].known}

(* Mutant of Result: the error of one machine is the answer of the fleet. *)
X_Result ==
  IF \E i \in DOMAIN legs : legs[i].client = "error" THEN "error" ELSE "ok"

(* A fleet tool reports an error only if it has no machine; what became of the  *)
(* legs is in the text.                                                         *)
Result ==
  IF Tool \in FleetTools THEN (IF Known = {} THEN "error" ELSE "ok") ELSE legs[1].client

(* The call is answered.  An answer longer than OUTPUT_LIMIT is cut at that      *)
(* byte; if the byte is inside a character the cut panics, and nobody answers.  *)
Answer ==
  /\ answer = "none"
  /\ \A i \in DOMAIN legs : Done(i)
  /\ \E splits \in {FALSE, Result = "ok" /\ \E i \in DOMAIN legs : Paginated(Tool, legs[i].via)} :
       answer' = IF splits THEN "panic" ELSE Result
  /\ UNCHANGED <<call, machines, legs>>

LegStep(i) ==
  \/ Begin(i) \/ Receive(i) \/ Handle(i) \/ ReadReply(i) \/ Fail(i) \/ CutOff(i)
  \/ SshStart(i) \/ SshExit(i) \/ SshStatus(i) \/ SshReturn(i)

Next == Answer \/ \E i \in DOMAIN legs : LegStep(i)

Spec == Init /\ [][Next]_vars

(* The runtime runs what is ready: a leg begins, a finished call is answered.    *)
(* A client stops waiting at its timeout, except one that is connecting over     *)
(* SSH, which has none.  Nothing obliges an agent or a command to end.           *)
Fairness ==
  /\ WF_vars(Answer)
  /\ \A i \in 1..MaxLegs :
       /\ WF_vars(i \in DOMAIN legs /\ Begin(i))
       /\ WF_vars(i \in DOMAIN legs /\ ~(legs[i].via = "ssh" /\ legs[i].far = "wire") /\ Fail(i))

FairSpec == Spec /\ Fairness

----------------------------------------------------------------------------
(* Tools that change a machine and whose answer says only that it was done.  *)
(* job_start and job_kill are not among them: their Ok says that a job is     *)
(* listed, or is shown as killed, and not that a command was spawned or        *)
(* signalled.                                                                *)
ChangingTools ==
  {"file_write", "file_str_replace", "file_patch", "file_insert", "file_delete_lines",
   "file_upload", "session_open", "session_close", "fs_mkdir", "fs_rm", "fs_mv", "fs_cp",
   "ps_kill", "service_start", "service_stop", "service_restart", "service_enable",
   "service_disable", "env_set", "env_load", "docker_start", "docker_stop",
   "docker_restart", "ui_focus", "ui_click", "ui_move", "ui_type", "ui_key", "ui_scroll",
   "ui_click_element", "ui_set_value"}

(* What the tables say of these tools: each has a request; a command it runs  *)
(* over SSH has its exit code checked; and the handler of its route, if there  *)
(* is one, answers a failed operation with an error status.                   *)
ASSUME ChangesAreTold ==
  \A tool \in ChangingTools :
    /\ tool \in Calls
    /\ Requests[tool].code \in {"agent", "checked"}
    /\ Requests[tool].path \in DOMAIN Routes => Routes[Requests[tool].path].fails = "status"

(* Tools that were written against another agent. *)
Outdated == {"git_status", "git_log", "git_diff", "git_pull", "git_checkout",
             "env_get", "env_set", "env_unset", "env_load", "env_clear"}

(* What the tables say of the other tools: the path and the method are those of *)
(* a route, and each parameter that the route needs carries an argument the     *)
(* tool always has, or something the tool fills in.                             *)
ASSUME RoutesAreMet ==
  \A tool \in Calls \ Outdated :
    LET request == Requests[tool]
    IN /\ request.path \in DOMAIN Routes
       /\ request.method = Routes[request.path].method
       /\ \A p \in Routes[request.path].needs :
            /\ p \in DOMAIN request.params
            /\ request.params[p] \in Arms[tool].text \union Arms[tool].number \union {Fixed}

(* Arguments that an agent does not get. *)
Dropped == UsedHere \union {<<"log_tail", "cursor">>, <<"docker_logs", "follow">>}

(* What the tables say of the arguments of a tool whose request has all that its *)
(* route needs: the tool reads each of them, and sends it as a parameter that    *)
(* the route knows.                                                             *)
ASSUME ArgumentsAreSent ==
  \A tool \in Calls :
    LET route == Routes[Requests[tool].path]
        params == Requests[tool].params
    IN Requests[tool].path \in DOMAIN Routes /\ route.needs \subseteq DOMAIN params =>
         \A a \in Schemas[tool].needs \union Schemas[tool].takes :
           \/ <<tool, a>> \in Dropped
           \/ /\ a \in Arms[tool].text \union Arms[tool].number \union Arms[tool].maybe
              /\ \E p \in DOMAIN params \intersect (route.needs \union route.uses) : params[p] = a

(* An Ok answer of a tool that changes a machine means that the change was made, *)
(* whatever was lost on the way; but for a command over SSH whose channel ended  *)
(* before its exit status was read, which counts as ended with code 0.           *)
OkMeansDone ==
  answer = "ok" /\ Tool \in ChangingTools =>
    legs[1].worked \/ (legs[1].via = "ssh" /\ legs[1].code = "none")

(* However a call fails, and whatever its machine has besides, the operation is  *)
(* carried out at most once on each machine.                                     *)
NeverTwice == \A i \in DOMAIN legs : legs[i].ran <= 1

(* A call with every argument its schema requires is not refused by an agent     *)
(* for its route or its shape: the MCP server and the agent, which share no       *)
(* types, agree.  They do not for git and for the environment (see                *)
(* ToolsMatchRoutes).                                                             *)
ContractHolds ==
  \A i \in DOMAIN legs :
    legs[i].status \in {"unknown", "shape"} => Tool \in Outdated

(* What the tools promise: no tool that is listed is refused for its shape.      *)
ToolsMatchRoutes == \A i \in DOMAIN legs : legs[i].status \notin {"unknown", "shape"}

(* When a handler runs, every argument the client gave has reached it, under the *)
(* name it has there; but for the cursor of log_tail and `follow' of docker_logs. *)
ArgumentsArrive ==
  \A i \in DOMAIN legs :
    legs[i].via = "agent" /\ legs[i].far = "running" =>
      LET route == Routes[Requests[Tool].path]
      IN \A a \in call.given :
           \/ <<Tool, a>> \in Dropped
           \/ \E p \in Sent(Tool, call.given) \intersect (route.needs \union route.uses) :
                Requests[Tool].params[p] = a

(* An error from a fleet tool means that it did nothing, on any machine.         *)
FleetErrorIsClean ==
  answer = "error" /\ Tool \in FleetTools => \A i \in DOMAIN legs : legs[i].ran = 0

(* A call none of whose legs hangs in connecting over SSH ends: a lost reply, a  *)
(* handler or a command that never ends, do not keep it waiting.                 *)
CallsEnd ==
  (\A i \in DOMAIN legs : legs[i].client # "new" /\ ~(legs[i].via = "ssh" /\ legs[i].far = "wire"))
    ~> answer # "none"

=============================================================================
