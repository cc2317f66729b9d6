---------------------------- MODULE ToolRequests ----------------------------
(***************************************************************************)
(* What the MCP server does for a tool (mcp-server/src/tools/*.rs): the     *)
(* request it sends to the agent of the machine, and what it makes of the   *)
(* exit code when the machine is reached over SSH.                          *)
(***************************************************************************)
EXTENDS TLC

(* A request: `params' maps each parameter sent to the argument it carries;  *)
(* `code' says what becomes of a command's exit code: "checked", an error    *)
(* unless it is 0; "shown" in the text of an Ok answer; "dropped"; or        *)
(* "agent", for the tools that need an agent and run no command.             *)
Request(method, path, params, code) ==
  [method |-> method, path |-> path, params |-> params, code |-> code]

(* Parameters that have the name of the argument they carry. *)
Same(args) == [a \in args |-> a]

(* What a parameter carries that the tool fills in by itself. *)
Fixed == "fixed"

(* tools/exec.rs: the working directory of exec is written into the command, *)
(* which dispatch_exec sends by the transport of the machine.                *)
ExecRequests ==
  [exec       |-> Request("POST", "/exec", Same({"command", "timeout_secs"}), "shown"),
   job_start  |-> Request("POST", "/job/start", Same({"command", "workdir"}), "agent"),
   job_status |-> Request("GET", "/job/:id", [id |-> "job_id"], "agent"),
   job_logs   |-> Request("GET", "/job/:id/logs",
                    [id |-> "job_id"] @@ Same({"tail", "stream"}), "agent"),
   job_kill   |-> Request("POST", "/job/:id/kill", [id |-> "job_id"], "agent"),
   job_list   |-> Request("GET", "/jobs", Same({}), "agent")]

(* Arguments that the MCP server uses and does not send as a parameter: the   *)
(* directory of exec, in its command line, the file a download fills, and the  *)
(* machine of a test.                                                          *)
UsedHere ==
  {<<"exec", "workdir">>, <<"file_download", "local_path">>, <<"machine_test", "id">>}

(* tools/file.rs. *)
FileRequests ==
  [file_write |-> Request("POST", "/file/write", Same({"path", "content", "mode"}), "checked"),
   file_read  |-> Request("GET", "/file/read", Same({"path"}), "checked"),
   file_str_replace |-> Request("POST", "/file/str-replace",
                          Same({"path", "old_str", "new_str"}), "checked"),
   file_patch |-> Request("POST", "/file/patch", Same({"path", "unified_diff"}), "checked"),
   file_insert |-> Request("POST", "/file/insert", Same({"path", "line", "content"}), "checked"),
   file_delete_lines |-> Request("POST", "/file/delete-lines",
                           Same({"path", "start_line", "end_line"}), "checked"),
   file_upload |-> Request("POST", "/file/upload",
                     [file |-> "local_path", path |-> "remote_path"], "agent"),
   file_download |-> Request("GET", "/file/download", [path |-> "remote_path"], "agent")]

(* tools/session.rs. *)
SessionRequests ==
  [session_open  |-> Request("POST", "/session", Same({"workdir", "shell"}), "agent"),
   session_exec  |-> Request("POST", "/session/:id/exec",
                       [id |-> "session_id"] @@ Same({"command", "timeout_secs"}), "agent"),
   session_close |-> Request("DELETE", "/session/:id", [id |-> "session_id"], "agent"),
   session_list  |-> Request("GET", "/sessions", Same({}), "agent")]

(* tools/fs.rs. *)
FsRequests ==
  [fs_ls    |-> Request("GET", "/fs/ls", Same({"path", "all"}), "dropped"),
   fs_stat  |-> Request("GET", "/fs/stat", Same({"path"}), "dropped"),
   fs_find  |-> Request("POST", "/fs/find",
                  Same({"path", "pattern", "file_type", "max_depth"}), "dropped"),
   fs_tree  |-> Request("GET", "/fs/tree", [path |-> "path", depth |-> "max_depth"], "dropped"),
   fs_mkdir |-> Request("POST", "/fs/mkdir", Same({"path", "parents"}), "checked"),
   fs_rm    |-> Request("DELETE", "/fs/rm", Same({"path", "recursive"}), "checked"),
   fs_mv    |-> Request("POST", "/fs/mv", Same({"src", "dst"}), "checked"),
   fs_cp    |-> Request("POST", "/fs/cp", Same({"src", "dst", "recursive"}), "checked")]

(* tools/process.rs. *)
ProcessRequests ==
  [ps_list |-> Request("GET", "/process/list", Same({"filter"}), "dropped"),
   ps_kill |-> Request("POST", "/process/kill", Same({"pid", "signal"}), "checked"),
   ps_tree |-> Request("GET", "/process/tree", Same({"pid"}), "dropped")]

(* tools/service.rs. *)
ServiceRequests ==
  LET Action(path) == Request("POST", path, [name |-> "service"], "checked")
  IN [service_list    |-> Request("GET", "/service/list", Same({}), "dropped"),
      service_status  |-> Request("GET", "/service/:name/status", [name |-> "service"], "dropped"),
      service_start   |-> Action("/service/:name/start"),
      service_stop    |-> Action("/service/:name/stop"),
      service_restart |-> Action("/service/:name/restart"),
      service_enable  |-> Action("/service/:name/enable"),
      service_disable |-> Action("/service/:name/disable"),
      service_logs    |-> Request("GET", "/service/:name/logs",
                            [name |-> "service", tail |-> "tail"], "dropped")]

(* tools/logs.rs. *)
LogRequests ==
  [log_tail |-> Request("GET", "/log/tail", Same({"path", "tail", "cursor"}), "dropped"),
   log_grep |-> Request("GET", "/log/grep", Same({"path", "pattern", "context"}), "dropped")]

(* tools/sysinfo.rs. *)
SysinfoRequests ==
  [sys_info   |-> Request("GET", "/sysinfo", Same({}), "dropped"),
   disk_usage |-> Request("GET", "/sysinfo/disk", Same({"path"}), "dropped"),
   net_ports  |-> Request("GET", "/sysinfo/ports", Same({}), "dropped"),
   net_ping   |-> Request("POST", "/sysinfo/ping", Same({"target", "count"}), "dropped"),
   net_interfaces |-> Request("GET", "/sysinfo/interfaces", Same({}), "dropped")]

(* tools/env.rs; env_clear runs nothing over SSH and answers Ok. *)
EnvRequests ==
  [env_get   |-> Request("GET", "/env/get", Same({"key"}), "dropped"),
   env_set   |-> Request("POST", "/env/set", Same({"key", "value", "scope"}), "checked"),
   env_unset |-> Request("POST", "/env/unset", Same({"key"}), "shown"),
   env_load  |-> Request("POST", "/env/load", Same({"path"}), "checked"),
   env_clear |-> Request("POST", "/env/clear", Same({"scope"}), "nothing")]

(* tools/docker.rs; docker_logs does not pass `follow' on. *)
DockerRequests ==
  LET Action(path) == Request("POST", path, Same({"container"}), "checked")
  IN [docker_ps      |-> Request("GET", "/docker/ps", Same({"all"}), "dropped"),
      docker_logs    |-> Request("GET", "/docker/:container/logs",
                           Same({"container", "tail"}), "dropped"),
      docker_exec    |-> Request("POST", "/docker/:container/exec",
                           Same({"container", "command"}), "dropped"),
      docker_start   |-> Action("/docker/:container/start"),
      docker_stop    |-> Action("/docker/:container/stop"),
      docker_restart |-> Action("/docker/:container/restart"),
      docker_inspect |-> Request("GET", "/docker/:container/inspect",
                           Same({"container"}), "dropped"),
      docker_images  |-> Request("GET", "/docker/images", Same({}), "dropped")]

(* tools/git.rs. *)
GitRequests ==
  [git_status   |-> Request("GET", "/git/status", Same({"workdir"}), "dropped"),
   git_log      |-> Request("GET", "/git/log", Same({"workdir", "n"}), "dropped"),
   git_diff     |-> Request("GET", "/git/diff", Same({"workdir", "target"}), "dropped"),
   git_pull     |-> Request("POST", "/git/pull", Same({"workdir", "remote", "branch"}), "dropped"),
   git_checkout |-> Request("POST", "/git/checkout",
                      Same({"workdir", "branch", "create"}), "dropped")]

(* tools/ui.rs: input. *)
UiInputRequests ==
  [ui_windows  |-> Request("GET", "/ui/windows", Same({}), "agent"),
   ui_tree     |-> Request("GET", "/ui/tree", Same({"window", "depth"}), "agent"),
   ui_focus    |-> Request("POST", "/ui/focus", Same({"window"}), "agent"),
   ui_click    |-> Request("POST", "/ui/click", Same({"x", "y", "button"}), "agent"),
   ui_move     |-> Request("POST", "/ui/move", Same({"x", "y"}), "agent"),
   ui_type     |-> Request("POST", "/ui/type", Same({"text"}), "agent"),
   ui_key      |-> Request("POST", "/ui/key", Same({"key"}), "agent"),
   ui_scroll   |-> Request("POST", "/ui/scroll",
                     Same({"x", "y", "direction", "amount"}), "agent")]

(* tools/ui.rs: elements and pictures. *)
UiElementRequests ==
  LET Found(method, path) ==
        Request(method, path, Same({"window", "name", "automation_id"}), "agent")
  IN [ui_find_element  |-> Found("GET", "/ui/element"),
      ui_click_element |-> Found("POST", "/ui/click-element"),
      ui_get_value     |-> Found("GET", "/ui/get-value"),
      ui_set_value     |-> Request("POST", "/ui/set-value",
                             Same({"window", "name", "automation_id", "value"}), "agent"),
      ui_describe      |-> Request("GET", "/ui/describe", Same({"window", "depth"}), "agent"),
      ui_ocr           |-> Request("GET", "/ui/ocr", Same({"window"}), "agent"),
      ui_screenshot    |-> Request("GET", "/ui/screenshot", Same({"window"}), "agent")]

(* machine_test and the fleet: a command for each machine, by dispatch_exec; *)
(* an upload for each machine that has an agent.                             *)
FleetRequests ==
  [machine_test |-> Request("POST", "/exec", [command |-> Fixed], "shown"),
   fleet_exec   |-> Request("POST", "/exec", Same({"command", "timeout_secs"}), "dropped"),
   fleet_ls     |-> Request("POST", "/exec", [command |-> "path"], "dropped"),
   fleet_upload |-> Request("POST", "/file/upload",
                      [file |-> "local_path", path |-> "remote_path"], "agent")]

(* The requests of all tools that reach a machine. *)
Requests ==
  ExecRequests @@ FileRequests @@ SessionRequests @@ FsRequests @@ ProcessRequests
    @@ ServiceRequests @@ LogRequests @@ SysinfoRequests @@ EnvRequests @@ DockerRequests
    @@ GitRequests @@ UiInputRequests @@ UiElementRequests @@ FleetRequests

=============================================================================
