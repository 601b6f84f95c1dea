----------------------------- MODULE McpTools ------------------------------
(***************************************************************************)
(* The tools of the MCP adapter (nits-mcp/src/tools.rs): their names, the  *)
(* class a call is dispatched by inside the worker, the behaviour the host *)
(* schedules it by, and the contract a worker advertises.                 *)
(***************************************************************************)
EXTENDS Naturals, Sequences

CONSTANTS
    Names,          \* agent names
    Contexts        \* configured daemons

QueryCall == {"list_workspaces", "list_reviews", "get_review", "get_checkpoint_delta",
              "get_diff", "get_file", "list_comments"}

MutatingCall == {"fetch_review", "ensure_directory_review", "update_review_target",
                 "create_review", "update_review", "add_comment", "suggest", "reply",
                 "resolve", "defer", "request_review", "record_checkpoint"}

ContextCall == {"list_contexts", "use_context"}

SessionCall == {"get_session_identity", "set_session_identity"}

ManagementCall == {"get_daemon_status", "restart_daemon"}

ToolName == QueryCall \cup MutatingCall \cup ContextCall \cup SessionCall \cup ManagementCall
                \cup {"subscribe_events"}

(* JSON-RPC methods that are not tools, and a name no tool has.            *)
Method == {"initialize", "ping", "tools/list"}

Tools == ToolName \cup Method \cup {"unknown"}

(* ToolCall::classify: what the worker does with a call.                   *)
Classify(tool) ==
    CASE tool \in ManagementCall -> "Management"
      [] tool \in QueryCall -> "Query"
      [] tool \in MutatingCall -> "Mutating"
      [] tool \in ContextCall -> "Context"
      [] tool \in SessionCall -> "Session"
      [] tool = "subscribe_events" -> "EventWait"
      [] OTHER -> "Unknown"

ToolBehavior == {"Read", "Mutation", "Session", "Wait", "Status", "Upgrade"}

(* ToolName::behavior: how the host schedules it.                          *)
Behavior(tool) ==
    CASE tool = "get_daemon_status" -> "Status"
      [] tool = "restart_daemon" -> "Upgrade"
      [] tool \in {"use_context", "set_session_identity"} -> "Session"
      [] tool = "subscribe_events" -> "Wait"
      [] tool \in MutatingCall -> "Mutation"
      [] OTHER -> "Read"

(* What a worker advertises before it serves.                              *)
Contracts == [t \in ToolName |-> Behavior(t)]

(* The host accepts a contract that names each tool once and keeps the two *)
(* management tools under their own names.                                 *)
ValidateContract(contracts) ==
    /\ \A i, j \in DOMAIN contracts : contracts[i].name = contracts[j].name => i = j
    /\ \A i \in DOMAIN contracts :
          /\ contracts[i].name # ""
          /\ contracts[i].behavior = "Status" => contracts[i].name = "get_daemon_status"
          /\ contracts[i].behavior = "Upgrade" => contracts[i].name = "restart_daemon"
    /\ \E i \in DOMAIN contracts :
          contracts[i] = [name |-> "get_daemon_status", behavior |-> "Status"]
    /\ \E i \in DOMAIN contracts :
          contracts[i] = [name |-> "restart_daemon", behavior |-> "Upgrade"]

(* The arguments the session distinguishes: a name, a context, a cursor    *)
(* (live, bare, or named by the context that issued it).                   *)
EventStart == {"Live", "Bare"} \cup Contexts

ToolArgs(tool) ==
    CASE tool \in {"initialize", "set_session_identity"} -> Names
      [] tool = "use_context" -> Contexts
      [] tool = "subscribe_events" -> EventStart
      [] OTHER -> {""}

=============================================================================
