----------------------------- MODULE MCReviews -----------------------------
(* Instances of Reviews for TLC.                                            *)
EXTENDS Reviews

MCGit == "k1" :> [tree |-> 1, head |-> 1, branch |-> 1] @@ "k2" :> [tree |-> 1, head |-> 1, branch |-> 1]

Commit(n) == [source |-> "Commit", tree |-> n, head |-> n]
Worktree(n, head) == [source |-> "WorkingTree", tree |-> n, head |-> head]

Show(p) == p :> [base |-> "Head", head |-> "WorkingTree"]
Shown(p, n) == p :> [base |-> Commit(1), head |-> Worktree(n, 1)]

Workspace == <<Event("WorkspaceCreated", NoReview, [ws |-> "w1"]),
               Event("RepoAttached", NoReview, [ws |-> "w1", repo |-> "p1", checkout |-> "k1"])>>

Review(rv) == <<Event("ReviewCreated", rv, [ws |-> "w1", targets |-> Show("p1")]),
                Event("ReviewTargetsResolved", rv, [resolved |-> Shown("p1", 1)])>>

Comment(c, intent) ==
    Event("CommentCreated", "v1", [comment |-> c, thread |-> c, by |-> "human", intent |-> intent,
                                   repo |-> "p1", at |-> 1, state |-> "Live"])

Quiet == [schema |-> CURRENT, reader |-> "off", scope |-> [type |-> "All", id |-> "-"],
          follow |-> FALSE, pos |-> StartNow]

(* Discussions on a review whose checkout is edited.                        *)
Discussion ==
    [log |-> Workspace \o Review("v1") \o <<Comment("c1", "Finding"), Comment("c2", "Suggestion")>>,
     budget |-> 3,
     menu |->
        {[op |-> "Reply", rv |-> "v1", thread |-> "c1", comment |-> "c3", by |-> "agent", intent |-> "Finding", size |-> 1],
         [op |-> "Reply", rv |-> "v1", thread |-> "c4", comment |-> "c5", by |-> "human", intent |-> "Finding", size |-> 1],
         [op |-> "AddComment", rv |-> "v1", comment |-> "c4", by |-> "agent", intent |-> "Informational", repo |-> NoRepo, size |-> 1],
         [op |-> "EditComment", rv |-> "v1", comment |-> "c1", by |-> "human"],
         [op |-> "DeleteComment", rv |-> "v1", comment |-> "c1", by |-> "human"],
         [op |-> "Dispose", rv |-> "v1", thread |-> "c1", kind |-> "ThreadDeferred"],
         [op |-> "Dispose", rv |-> "v1", thread |-> "c1", kind |-> "ThreadResolved"],
         [op |-> "Dispose", rv |-> "v1", thread |-> "c1", kind |-> "ThreadUnresolved"],
         [op |-> "ApplySuggestion", rv |-> "v1", comment |-> "c2"],
         [op |-> "MarkViewed", rv |-> "v1", repo |-> "p1", by |-> "human"],
         [op |-> "UnmarkViewed", rv |-> "v1", repo |-> "p1", by |-> "human"],
         [op |-> "Refresh", rv |-> "v1", repo |-> "p1"],
         [op |-> "edit", checkout |-> "k1"], [op |-> "revert", checkout |-> "k1"]}] @@ Quiet

(* Rounds of review: two reviews of one checkout.                           *)
Rounds ==
    [log |-> Workspace \o Review("v1") \o Review("v2"),
     budget |-> 3,
     menu |->
        {[op |-> "RequestReview", rv |-> "v1", agent |-> "agent"]}
        \cup {[op |-> "RecordCheckpoint", rv |-> "v1", by |-> "agent", answers |-> n,
               resolved |-> Shown("p1", t)] : n \in {0, 7}, t \in 1..2}
        \cup {[op |-> "ResolveTargets", rv |-> "v2"],
              [op |-> "UpdateReview", rv |-> "v1", status |-> "Archived"],
              [op |-> "UpdateReview", rv |-> "v1", status |-> "Open"],
              [op |-> "UpdateReviewTarget", rv |-> "v1", repo |-> "p1",
               target |-> [base |-> "Head", head |-> "Branch"]],
              [op |-> "FetchReview", rv |-> "v1", repo |-> "p1", to |-> 2],
              [op |-> "DeleteReview", rv |-> "v2"],
              [op |-> "edit", checkout |-> "k1"], [op |-> "commit", checkout |-> "k1"],
              [op |-> "branch", checkout |-> "k1", to |-> 0]}] @@ Quiet

(* Workspaces that attach and detach checkouts which come and go.           *)
Repositories ==
    [log |-> <<>>, budget |-> 5,
     menu |->
        {[op |-> "CreateWorkspace", ws |-> w] : w \in {"w1", "w2"}}
        \cup {[op |-> "AttachRepo", ws |-> w, repo |-> "p1", checkout |-> k] : w \in {"w1", "w2"}, k \in {"k1", "k2"}}
        \cup {[op |-> "AttachRepo", ws |-> "w1", repo |-> "p2", checkout |-> "k1"],
              [op |-> "DetachRepo", ws |-> "w1", repo |-> "p1"],
              [op |-> "CreateReview", ws |-> "w1", rv |-> "v2", targets |-> Show("p1")],
              [op |-> "EnsureDirectoryReview", ws |-> "w2", repo |-> "p1", checkout |-> "k1",
               rv |-> "v1", head |-> "WorkingTree"],
              [op |-> "RenameWorkspace", ws |-> "w1"],
              [op |-> "unmount", checkout |-> "k1"], [op |-> "mount", checkout |-> "k1"]}] @@ Quiet

(* A reader of the log while it grows.                                      *)
ReaderOf(scope, follow, pos) ==
    [log |-> Workspace \o Review("v1") \o Review("v2"), schema |-> CURRENT,
     budget |-> 2, reader |-> "ask", scope |-> scope, follow |-> follow, pos |-> pos,
     menu |->
        {[op |-> "AddComment", rv |-> "v1", comment |-> c, by |-> "human", intent |-> "Finding",
          repo |-> NoRepo, size |-> IF c = "c1" THEN 3 ELSE 1] : c \in {"c1", "c2"}}
        \cup {[op |-> "AddComment", rv |-> "v1", comment |-> "c5", by |-> "human", intent |-> "Finding",
               repo |-> NoRepo, size |-> 5],
              [op |-> "DeleteReview", rv |-> "v1"],
              [op |-> "RequestReview", rv |-> "v2", agent |-> "agent"]}]

Readers ==
    {ReaderOf([type |-> t[1], id |-> t[2]], f, p) :
        t \in {<<"All", "-">>, <<"Workspace", "w1">>, <<"Review", "v2">>, <<"AwaitingAgent", "agent">>},
        f \in BOOLEAN, p \in {StartNow, StartAfter(3), StartAfter(8)}}

(* Stores of earlier releases.                                              *)
OldLog(s, f, r, c) ==
    Workspace \o Review("v1")
        \o <<[Comment("c1", "Finding") EXCEPT !.form = c],
             Event("ReviewRequested", "v1", [agent |-> "agent", resolved |-> NoRow, form |-> r,
                    compared |-> [checkpoint |-> 0, outcome |-> "Unknown"]]),
             Event("FileViewed", "v1", [repo |-> "p1", content |-> 1, form |-> f])>>

Old ==
    UNION {{[log |-> OldLog(WrittenUnder(s), f, r, c), schema |-> s, budget |-> 1,
             menu |-> {[op |-> "EditComment", rv |-> "v1", comment |-> "c1", by |-> "human"]}] @@ Quiet :
                f \in FormsAt("FileViewed", WrittenUnder(s)),
                r \in FormsAt("ReviewRequested", WrittenUnder(s)),
                c \in FormsAt("CommentCreated", WrittenUnder(s))} :
            s \in {Unstamped, 1, 3, 4, 5, 6, 7, 8, 9, 10}}

MCStores == {Discussion, Rounds, Repositories} \cup Readers \cup Old

=============================================================================
