----------------------------- MODULE MCMcpHost ------------------------------
(* Instances of McpHost for TLC.                                            *)
EXTENDS McpHost

Call(tool, arg) == [tool |-> tool, arg |-> arg]

CONSTANTS n1, n2, c1, c2

(* Clients that change the session around a restart, mutate around one, wait *)
(* across one, and ask before they have introduced themselves.              *)
MCMenus ==
    LET restart == Call("restart_daemon", "") IN
    {{Call("use_context", c2), Call("subscribe_events", "Bare"), restart},
     {Call("set_session_identity", n2), Call("create_review", ""), restart},
     {Call("initialize", n2), Call("get_daemon_status", ""), restart}}

(* The worker advertises what the host accepts, whatever tool was added; and a *)
(* contract with a management tool left out, or under a read's behaviour, is   *)
(* refused.                                                                    *)
Advertised(tools, behaviors) ==
    {[i \in 1..Len(tools) |-> [name |-> tools[i], behavior |-> behaviors[tools[i]]]]}

ASSUME ContractAccepted ==
    LET served == <<"get_daemon_status", "restart_daemon", "get_diff", "reply">> IN
    /\ \A c \in Advertised(served, Contracts) : ValidateContract(c)
    /\ \A c \in Advertised(Tail(served), Contracts) \cup Advertised(<<"reply">> \o served \o <<"reply">>, Contracts)
            \cup Advertised(served, [Contracts EXCEPT !["restart_daemon"] = "Read"])
            \cup Advertised(served, [Contracts EXCEPT !["reply"] = "Status"]) : ~ValidateContract(c)

=============================================================================
