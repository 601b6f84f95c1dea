---------------------------- MODULE MCNavigation ----------------------------
EXTENDS Navigation

Row(base, head) == [base |-> base, head |-> head, hunk |-> FALSE, gap |-> FALSE]
HunkAt == [base |-> 0, head |-> 0, hunk |-> TRUE, gap |-> FALSE]
GapAt == [base |-> 0, head |-> 0, hunk |-> FALSE, gap |-> TRUE]

\* A text file with a hidden run, a submodule, a short text file.
MCRowsOf ==
  1 :> << <<HunkAt, Row(1, 1), Row(2, 0), GapAt, Row(6, 5)>>,
          <<HunkAt, Row(1, 1), Row(2, 0), Row(3, 2), Row(4, 3), Row(5, 4), Row(6, 5)>> >>
  @@ 2 :> <<>>
  @@ 3 :> << <<HunkAt, Row(0, 1), HunkAt, Row(0, 9)>> >>
MCDirOf == 1 :> 1 @@ 2 :> Root @@ 3 :> 1

Thread(id, file, side, line) == [id |-> id, file |-> file, side |-> side, line |-> line, comments |-> 2, mine |-> TRUE, status |-> "Open"]

Menu == [files |-> <<1, 3, 2>>, cached |-> {1, 2, 3}, threads |-> <<Thread(1, 3, "Head", 9), Thread(2, 1, "Base", 2)>>, requests |-> 0,
         commits |-> 1, commands |-> {}, keys |-> {}, clicks |-> {}, scrolls |-> {}, configs |-> {}, lists |-> {},
         discussions |-> {}, homes |-> {}, steps |-> 6]

Walk == [Menu EXCEPT !.commands = {"MoveDown", "MoveUp", "NextHunk", "PrevHunk", "NextComment", "PrevComment", "ToggleFileCollapse",
                                   "ToggleViewed", "Open", "GoBottom", "PageUp"},
                     !.cached = {1, 3}, !.scrolls = {2}, !.steps = 5]
Panels == [Menu EXCEPT !.commands = {"NextPanel", "FocusTree", "FocusDiff", "Open", "MoveDown", "CollapseParent", "CollapseAll",
                                     "Back", "NextFile", "PrevFile", "FocusCommits", "GoTop", "FileSearch"}, !.steps = 4]
Drafts == [Menu EXCEPT !.commands = {"Comment", "ReviewFinding", "VisualMode", "MoveDown", "ToggleHelp", "Back", "FocusThreads",
                                     "Reply", "DeferFinding", "ActionPalette"},
                       !.clicks = {Act("DraftDiscarded"), SetFocusTo(TreeFocus)},
                       !.discussions = {<<Thread(2, 1, "Base", 2)>>}, !.steps = 6]
Talk == [Menu EXCEPT !.commands = {"FocusThreads", "NextReply", "PrevReply", "Delete", "ToggleResolved", "Open", "MoveDown",
                                   "FocusRequests", "NextPanel", "TabConversation", "TabFiles", "NextComment", "CommentOnFile"},
                     !.requests = 1, !.steps = 4]
Scopes == [Menu EXCEPT !.commands = {"ScopeAll", "ScopeByCommit", "ScopeWorktree", "NextHunk", "PrevHunk", "FocusCommits",
                                     "MoveDown", "Open", "TabConversation"}, !.lists = {<<1, 2>>, <<3>>}, !.steps = 6]
Gaps == [Menu EXCEPT !.commands = {"ExpandContext", "ExpandDown", "ExpandUp", "MoveDown", "VisualMode", "SideBase", "SideHead",
                                   "Open", "Comment", "NextFile"},
                     !.lists = {<<1, 3>>, <<3, 2>>}, !.steps = 6]
Homes == [Menu EXCEPT !.commands = {"GoHome", "MoveDown", "MoveUp", "Open", "NewReview", "Back", "ReviewFinding", "ContentSearch"},
                      !.homes = {<<"r2", "r1">>, <<>>}, !.lists = {<<1, 2>>}, !.steps = 6]
Keys == [Menu EXCEPT !.keys = {"g", "e", "c", "j", "esc", "z", "x"},
                     !.configs = {<<[command |-> "MoveDown", mode |-> "Normal", seqs |-> << <<"z", "x">> >>]>>,
                                  <<[command |-> "Submit", mode |-> "Normal", seqs |-> <<>>]>>},
                     !.commands = {"ToggleHelp"}, !.steps = 4]
MCNavMenus ==
  {Walk, Panels, Drafts, Talk, Scopes, Gaps, Homes, Keys}
=============================================================================
