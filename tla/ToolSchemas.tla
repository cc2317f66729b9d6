---------------------------- MODULE ToolSchemas ----------------------------
(***************************************************************************)
(* What the MCP server tells a client about its tools, and what it reads   *)
(* of a call (mcp-server/src/main.rs, tools/mod.rs): the schema of every    *)
(* tool, the arm of dispatch_tool that serves it, and the tools listed.     *)
(*                                                                         *)
(* machine_id, an argument of every tool but machine_* and fleet_*, is not  *)
(* in the rows: the machine of a call is a parameter of its own.            *)
(***************************************************************************)
EXTENDS TLC

(* A schema: the arguments the client must give, and those it may give. *)
Schema(needs, takes) == [needs |-> needs, takes |-> takes]

(* Tools with no argument but the machine. *)
NoArgs == Schema({}, {})

(* Tools of the registry. *)
MachineSchemas ==
  [machine_add     |-> Schema({"label", "host"},
                         {"port", "os", "transport", "ssh_user", "ssh_key_path",
                          "ssh_password", "agent_url", "agent_token"}),
   machine_list    |-> NoArgs,
   machine_remove  |-> Schema({"id"}, {}),
   machine_test    |-> Schema({"id"}, {}),
   machine_connect |-> Schema({"uri"}, {})]

(* Commands and background jobs. *)
ExecSchemas ==
  [exec       |-> Schema({"command"}, {"workdir", "timeout_secs"}),
   job_start  |-> Schema({"command"}, {"workdir"}),
   job_status |-> Schema({"job_id"}, {}),
   job_logs   |-> Schema({"job_id"}, {"tail", "stream"}),
   job_kill   |-> Schema({"job_id"}, {}),
   job_list   |-> NoArgs]

(* File editing and transfer. *)
FileSchemas ==
  [file_write        |-> Schema({"path", "content"}, {"mode"}),
   file_read         |-> Schema({"path"}, {}),
   file_str_replace  |-> Schema({"path", "old_str", "new_str"}, {}),
   file_patch        |-> Schema({"path", "unified_diff"}, {}),
   file_insert       |-> Schema({"path", "line", "content"}, {}),
   file_delete_lines |-> Schema({"path", "start_line", "end_line"}, {}),
   file_upload       |-> Schema({"local_path", "remote_path"}, {}),
   file_download     |-> Schema({"remote_path", "local_path"}, {})]

(* Terminal sessions. *)
SessionSchemas ==
  [session_open  |-> Schema({}, {"workdir", "shell"}),
   session_exec  |-> Schema({"session_id", "command"}, {"timeout_secs"}),
   session_close |-> Schema({"session_id"}, {}),
   session_list  |-> NoArgs]

(* The file system. *)
FsSchemas ==
  [fs_ls    |-> Schema({"path"}, {"all"}),
   fs_stat  |-> Schema({"path"}, {}),
   fs_find  |-> Schema({"path"}, {"pattern", "file_type", "max_depth"}),
   fs_tree  |-> Schema({"path"}, {"max_depth"}),
   fs_mkdir |-> Schema({"path"}, {"parents"}),
   fs_rm    |-> Schema({"path"}, {"recursive"}),
   fs_mv    |-> Schema({"src", "dst"}, {}),
   fs_cp    |-> Schema({"src", "dst"}, {"recursive"})]

(* Processes and services. *)
ServiceSchemas ==
  [ps_list |-> Schema({}, {"filter"}),
   ps_kill |-> Schema({"pid"}, {"signal"}),
   ps_tree |-> Schema({}, {"pid"}),
   service_list |-> NoArgs]
  @@ [s \in {"service_status", "service_start", "service_stop", "service_restart",
             "service_enable", "service_disable"} |-> Schema({"service"}, {})]
  @@ [service_logs |-> Schema({"service"}, {"tail"})]

(* Logs, the state of the system, the environment. *)
SystemSchemas ==
  [log_tail   |-> Schema({"path"}, {"tail", "cursor"}),
   log_grep   |-> Schema({"path", "pattern"}, {"context"}),
   sys_info   |-> NoArgs,
   disk_usage |-> Schema({}, {"path"}),
   net_ports  |-> NoArgs,
   net_ping   |-> Schema({"target"}, {"count"}),
   net_interfaces |-> NoArgs,
   env_get    |-> Schema({}, {"key"}),
   env_set    |-> Schema({"key", "value"}, {"scope"}),
   env_unset  |-> Schema({"key"}, {}),
   env_load   |-> Schema({"path"}, {}),
   env_clear  |-> Schema({}, {"scope"})]

(* Several machines at once: machine_ids stands for the machines. *)
FleetSchemas ==
  [fleet_exec   |-> Schema({"command"}, {"timeout_secs"}),
   fleet_ls     |-> Schema({"path"}, {}),
   fleet_upload |-> Schema({"local_path", "remote_path"}, {})]

(* Containers. *)
DockerSchemas ==
  [docker_ps   |-> Schema({}, {"all"}),
   docker_logs |-> Schema({"container"}, {"tail", "follow"}),
   docker_exec |-> Schema({"container", "command"}, {}),
   docker_images |-> NoArgs]
  @@ [d \in {"docker_start", "docker_stop", "docker_restart", "docker_inspect"}
        |-> Schema({"container"}, {})]

(* Repositories. *)
GitSchemas ==
  [git_status   |-> Schema({"workdir"}, {}),
   git_log      |-> Schema({"workdir"}, {"n"}),
   git_diff     |-> Schema({"workdir"}, {"target"}),
   git_pull     |-> Schema({"workdir"}, {"remote", "branch"}),
   git_checkout |-> Schema({"workdir", "branch"}, {"create"})]

(* The three arguments that name an element of a window. *)
Element == {"window", "name", "automation_id"}

(* Windows: what is on the screen and what a mouse or a keyboard does. *)
UiInputSchemas ==
  [ui_describe |-> Schema({}, {"window", "depth"}),
   ui_windows  |-> NoArgs,
   ui_tree     |-> Schema({}, {"window", "depth"}),
   ui_focus    |-> Schema({"window"}, {}),
   ui_click    |-> Schema({"x", "y"}, {"button"}),
   ui_move     |-> Schema({"x", "y"}, {}),
   ui_type     |-> Schema({"text"}, {}),
   ui_key      |-> Schema({"key"}, {}),
   ui_scroll   |-> Schema({"x", "y"}, {"direction", "amount"})]

(* Windows: elements found by name, and pictures of the screen. *)
UiElementSchemas ==
  [ui_find_element  |-> Schema({}, Element),
   ui_click_element |-> Schema({}, Element),
   ui_get_value     |-> Schema({}, Element),
   ui_set_value     |-> Schema({"value"}, Element),
   ui_screenshot    |-> Schema({}, {"window"}),
   ui_ocr           |-> Schema({}, {"window"})]

(* all_tool_definitions. *)
Schemas ==
  MachineSchemas @@ ExecSchemas @@ FileSchemas @@ SessionSchemas @@ FsSchemas
    @@ ServiceSchemas @@ SystemSchemas @@ FleetSchemas @@ DockerSchemas
    @@ GitSchemas @@ UiInputSchemas @@ UiElementSchemas

Tools == DOMAIN Schemas

(* What an arm of dispatch_tool reads of the arguments: `text' with get_str!,  *)
(* an empty string when it is missing; `number' with a default of its own,    *)
(* 0 or 1; `maybe' with get_opt_str! and its like, nothing when it is missing. *)
(* No arm refuses a call for an argument that its schema requires.            *)
Arm(text, number, maybe) == [text |-> text, number |-> number, maybe |-> maybe]

(* Arms that read strings only. *)
Text(args) == Arm(args, {}, {})

(* The registry. *)
MachineArms ==
  [machine_add     |-> Arm({"label", "host"}, {},
                         {"port", "os", "transport", "ssh_user", "ssh_key_path",
                          "ssh_password", "agent_url", "agent_token"}),
   machine_list    |-> Text({}),
   machine_connect |-> Text({"uri"})]
  @@ [t \in {"machine_remove", "machine_test"} |-> Text({"id"})]

(* Commands and jobs. *)
ExecArms ==
  [exec      |-> Arm({"command"}, {}, {"workdir", "timeout_secs"}),
   job_start |-> Arm({"command"}, {}, {"workdir"}),
   job_logs  |-> Arm({"job_id"}, {}, {"tail", "stream"}),
   job_list  |-> Text({})]
  @@ [t \in {"job_status", "job_kill"} |-> Text({"job_id"})]

(* Files. *)
FileArms ==
  [file_write        |-> Arm({"path", "content"}, {}, {"mode"}),
   file_read         |-> Text({"path"}),
   file_str_replace  |-> Text({"path", "old_str", "new_str"}),
   file_patch        |-> Text({"path", "unified_diff"}),
   file_insert       |-> Arm({"path", "content"}, {"line"}, {}),
   file_delete_lines |-> Arm({"path"}, {"start_line", "end_line"}, {})]
  @@ [t \in {"file_upload", "file_download"} |-> Text({"local_path", "remote_path"})]

(* Sessions. *)
SessionArms ==
  [session_open  |-> Arm({}, {}, {"workdir", "shell"}),
   session_exec  |-> Arm({"session_id", "command"}, {}, {"timeout_secs"}),
   session_close |-> Text({"session_id"}),
   session_list  |-> Text({})]

(* The file system. *)
FsArms ==
  [fs_ls    |-> Arm({"path"}, {}, {"all"}),
   fs_stat  |-> Text({"path"}),
   fs_find  |-> Arm({"path"}, {}, {"pattern", "file_type", "max_depth"}),
   fs_tree  |-> Arm({"path"}, {}, {"max_depth"}),
   fs_mkdir |-> Arm({"path"}, {}, {"parents"}),
   fs_rm    |-> Arm({"path"}, {}, {"recursive"}),
   fs_mv    |-> Text({"src", "dst"}),
   fs_cp    |-> Arm({"src", "dst"}, {}, {"recursive"})]

(* Processes and services. *)
ServiceArms ==
  [ps_list |-> Arm({}, {}, {"filter"}),
   ps_kill |-> Arm({}, {"pid"}, {"signal"}),
   ps_tree |-> Arm({}, {}, {"pid"}),
   service_list |-> Text({}),
   service_logs |-> Arm({"service"}, {}, {"tail"})]
  @@ [s \in {"service_status", "service_start", "service_stop", "service_restart",
             "service_enable", "service_disable"} |-> Text({"service"})]

(* Logs, system, environment. *)
SystemArms ==
  [log_tail   |-> Arm({"path"}, {}, {"tail", "cursor"}),
   log_grep   |-> Arm({"path", "pattern"}, {}, {"context"}),
   disk_usage |-> Arm({}, {}, {"path"}),
   net_ping   |-> Arm({"target"}, {}, {"count"}),
   env_get    |-> Arm({}, {}, {"key"}),
   env_set    |-> Arm({"key", "value"}, {}, {"scope"}),
   env_unset  |-> Text({"key"}),
   env_load   |-> Text({"path"}),
   env_clear  |-> Arm({}, {}, {"scope"})]
  @@ [t \in {"sys_info", "net_ports", "net_interfaces"} |-> Text({})]

(* Fleets, containers, repositories. *)
FleetDockerGitArms ==
  [fleet_exec   |-> Arm({"command"}, {}, {"timeout_secs"}),
   fleet_ls     |-> Text({"path"}),
   fleet_upload |-> Text({"local_path", "remote_path"}),
   docker_ps    |-> Arm({}, {}, {"all"}),
   docker_logs  |-> Arm({"container"}, {}, {"tail", "follow"}),
   docker_exec  |-> Text({"container", "command"}),
   docker_images |-> Text({}),
   git_status   |-> Text({"workdir"}),
   git_log      |-> Arm({"workdir"}, {}, {"n"}),
   git_diff     |-> Arm({"workdir"}, {}, {"target"}),
   git_pull     |-> Arm({"workdir"}, {}, {"remote", "branch"}),
   git_checkout |-> Arm({"workdir", "branch"}, {}, {"create"})]
  @@ [d \in {"docker_start", "docker_stop", "docker_restart", "docker_inspect"}
        |-> Text({"container"})]

(* Windows. *)
UiArms ==
  [ui_windows  |-> Text({}),
   ui_focus    |-> Text({"window"}),
   ui_click    |-> Arm({}, {"x", "y"}, {"button"}),
   ui_move     |-> Arm({}, {"x", "y"}, {}),
   ui_type     |-> Text({"text"}),
   ui_key      |-> Text({"key"}),
   ui_scroll   |-> Arm({}, {"x", "y"}, {"direction", "amount"}),
   ui_set_value |-> Arm({"value"}, {}, Element)]
  @@ [t \in {"ui_describe", "ui_tree"} |-> Arm({}, {}, {"window", "depth"})]
  @@ [t \in {"ui_find_element", "ui_click_element", "ui_get_value"} |-> Arm({}, {}, Element)]
  @@ [t \in {"ui_screenshot", "ui_ocr"} |-> Arm({}, {}, {"window"})]

(* dispatch_tool. *)
Arms ==
  MachineArms @@ ExecArms @@ FileArms @@ SessionArms @@ FsArms @@ ServiceArms
    @@ SystemArms @@ FleetDockerGitArms @@ UiArms

(* Mutant of Reads: an arm that forgets the arguments that may be missing. *)
X_Reads(tool) == Arms[tool].text \union Arms[tool].number

(* Every argument the arm of a tool reads. *)
Reads(tool) == Arms[tool].text \union Arms[tool].number \union Arms[tool].maybe

=============================================================================
