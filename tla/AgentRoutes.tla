---------------------------- MODULE AgentRoutes ----------------------------
(***************************************************************************)
(* The routes of the agent (agent/src/routes/mod.rs) and, for each, what    *)
(* its handler asks of a request and how it reports that the operation      *)
(* failed.  A route is named by its method and its path; the parameters in  *)
(* a path, in the query and in a JSON body are one set.                     *)
(***************************************************************************)
EXTENDS TLC

(* A handler: the parameters without which the extractor refuses the        *)
(* request, those it also uses, and how it answers an operation that failed *)
(* on the machine: with an error "status"; with 200 and the failure in the  *)
(* "body"; or "silent", with 200 and nothing that tells.                    *)
Route(method, needs, uses, fails) ==
  [method |-> method, needs |-> needs, uses |-> uses, fails |-> fails]

(* A handler whose operation fails with an error status. *)
Get(needs, uses) == Route("GET", needs, uses, "status")
Post(needs, uses) == Route("POST", needs, uses, "status")

(* routes/exec.rs, job.rs: a command that ran and failed answers 200 with    *)
(* its exit code.  A start answers before the command is spawned, and a kill *)
(* answers 200 whether or not there was a process to signal.                 *)
ExecRoutes ==
  "/exec"         :> Route("POST", {"command"}, {"workdir", "timeout_secs", "env"}, "body") @@
  "/job/start"    :> Route("POST", {"command"}, {"workdir"}, "silent") @@
  "/job/:id"      :> Get({"id"}, {}) @@
  "/job/:id/logs" :> Get({"id"}, {"tail", "stream"}) @@
  "/job/:id/kill" :> Route("POST", {"id"}, {}, "silent") @@
  "/jobs"         :> Get({}, {})

(* routes/file.rs; the parts of an upload are read one by one, and a part    *)
(* that is missing is an error status too.                                   *)
FileRoutes ==
  "/file/upload"       :> Post({"file", "path"}, {}) @@
  "/file/download"     :> Get({"path"}, {}) @@
  "/file/write"        :> Post({"path", "content"}, {"mode"}) @@
  "/file/read"         :> Get({"path"}, {}) @@
  "/file/str-replace"  :> Post({"path", "old_str", "new_str"}, {}) @@
  "/file/patch"        :> Post({"path", "unified_diff"}, {}) @@
  "/file/insert"       :> Post({"path", "line", "content"}, {}) @@
  "/file/delete-lines" :> Post({"path", "start_line", "end_line"}, {})

(* routes/fs.rs: a directory that cannot be read is an empty result of find  *)
(* and an empty tree.                                                        *)
FsRoutes ==
  "/fs/ls"    :> Get({"path"}, {"all"}) @@
  "/fs/stat"  :> Get({"path"}, {}) @@
  "/fs/find"  :> Route("POST", {"path"}, {"pattern", "file_type", "max_depth"}, "silent") @@
  "/fs/tree"  :> Route("GET", {"path"}, {"depth"}, "silent") @@
  "/fs/mkdir" :> Post({"path"}, {"parents"}) @@
  "/fs/rm"    :> Route("DELETE", {"path"}, {"recursive"}, "status") @@
  "/fs/mv"    :> Post({"src", "dst"}, {}) @@
  "/fs/cp"    :> Post({"src", "dst"}, {"recursive"})

(* routes/process.rs: a process that is not there has an empty tree. *)
ProcessRoutes ==
  "/process/list" :> Route("GET", {}, {"filter"}, "silent") @@
  "/process/kill" :> Post({"pid"}, {"signal"}) @@
  "/process/tree" :> Route("GET", {}, {"pid"}, "silent")

(* routes/service.rs: systemctl status exits with a code for a unit that is  *)
(* not running, so its failure is part of the answer; the exit code of       *)
(* journalctl is not looked at.                                              *)
ServiceRoutes ==
  "/service/list"          :> Get({}, {}) @@
  "/service/:name/status"  :> Route("GET", {"name"}, {}, "body") @@
  "/service/:name/start"   :> Post({"name"}, {}) @@
  "/service/:name/stop"    :> Post({"name"}, {}) @@
  "/service/:name/restart" :> Post({"name"}, {}) @@
  "/service/:name/enable"  :> Post({"name"}, {}) @@
  "/service/:name/disable" :> Post({"name"}, {}) @@
  "/service/:name/logs"    :> Route("GET", {"name"}, {"tail"}, "silent")

(* routes/logs.rs: the cursor of a tail is accepted and not used. *)
LogRoutes ==
  "/log/tail" :> Get({"path"}, {"tail"}) @@
  "/log/grep" :> Get({"path", "pattern"}, {"context"})

(* routes/sysinfo.rs: a ping without an answer is 200 with success false; the *)
(* exit code of ss is not looked at.                                          *)
SysinfoRoutes ==
  "/sysinfo"            :> Route("GET", {}, {}, "silent") @@
  "/sysinfo/disk"       :> Route("GET", {}, {"path"}, "silent") @@
  "/sysinfo/ports"      :> Route("GET", {}, {}, "silent") @@
  "/sysinfo/ping"       :> Route("POST", {"target"}, {"count"}, "body") @@
  "/sysinfo/interfaces" :> Route("GET", {}, {}, "silent")

(* routes/session.rs. *)
SessionRoutes ==
  "/session"          :> Post({}, {"workdir", "shell"}) @@
  "/session/:id/exec" :> Route("POST", {"id", "command"}, {"timeout_secs"}, "body") @@
  "/session/:id"      :> Route("DELETE", {"id"}, {}, "status") @@
  "/sessions"         :> Get({}, {})

(* routes/docker.rs: a command that ran in a container and failed answers     *)
(* 200 with its exit code.                                                    *)
DockerRoutes ==
  "/docker/ps"                 :> Get({}, {"all"}) @@
  "/docker/:container/logs"    :> Get({"container"}, {"tail"}) @@
  "/docker/:container/exec"    :> Route("POST", {"container", "command"}, {}, "body") @@
  "/docker/:container/start"   :> Post({"container"}, {}) @@
  "/docker/:container/stop"    :> Post({"container"}, {}) @@
  "/docker/:container/restart" :> Post({"container"}, {}) @@
  "/docker/:container/inspect" :> Get({"container"}, {}) @@
  "/docker/images"             :> Get({}, {})

(* routes/git.rs. *)
GitRoutes ==
  "/git/status"   :> Get({"path"}, {}) @@
  "/git/log"      :> Get({"path"}, {"n"}) @@
  "/git/diff"     :> Get({"path"}, {"staged"}) @@
  "/git/pull"     :> Post({"path"}, {}) @@
  "/git/checkout" :> Post({"path", "branch_or_commit"}, {})

(* routes/ui.rs: input to the screen. *)
UiInputRoutes ==
  "/ui/windows" :> Get({}, {}) @@
  "/ui/tree"    :> Get({}, {"window", "depth"}) @@
  "/ui/focus"   :> Post({"window"}, {}) @@
  "/ui/click"   :> Post({"x", "y"}, {"button"}) @@
  "/ui/move"    :> Post({"x", "y"}, {}) @@
  "/ui/type"    :> Post({"text"}, {}) @@
  "/ui/key"     :> Post({"key"}, {}) @@
  "/ui/scroll"  :> Post({"x", "y"}, {"direction", "amount"})

(* routes/ui.rs: elements found by name, and pictures of the screen. *)
UiElementRoutes ==
  "/ui/element"       :> Get({}, {"window", "name", "automation_id"}) @@
  "/ui/click-element" :> Post({}, {"window", "name", "automation_id"}) @@
  "/ui/get-value"     :> Get({}, {"window", "name", "automation_id"}) @@
  "/ui/set-value"     :> Post({"value"}, {"window", "name", "automation_id"}) @@
  "/ui/screenshot"    :> Get({}, {"window"}) @@
  "/ui/describe"      :> Get({}, {"window", "depth"}) @@
  "/ui/ocr"           :> Get({}, {"window"})

(* build_router. *)
Routes ==
  ExecRoutes @@ FileRoutes @@ FsRoutes @@ ProcessRoutes @@ ServiceRoutes @@ LogRoutes
    @@ SysinfoRoutes @@ SessionRoutes @@ DockerRoutes @@ GitRoutes @@ UiInputRoutes
    @@ UiElementRoutes

(* Mutant of Accepts: a parameter that may be absent is not declared optional. *)
X_Accepts(path, method, params) ==
  /\ path \in DOMAIN Routes
  /\ method = Routes[path].method
  /\ Routes[path].needs \union Routes[path].uses \subseteq params

(* A request that the router and the extractors of a handler let through. *)
Accepts(path, method, params) ==
  /\ path \in DOMAIN Routes
  /\ method = Routes[path].method
  /\ Routes[path].needs \subseteq params

=============================================================================
