------------------------------- MODULE Keymap -------------------------------
(***************************************************************************)
(* The keyboard table (crates/nits-client-core, keymap.rs): which command  *)
(* a sequence of chords means in a context, the built-in bindings, and the *)
(* user's configuration over them.  A chord is a name; a binding is a      *)
(* context, its chords and a command, kept in table order.                 *)
(***************************************************************************)
EXTENDS Integers, Sequences, SequencesExt

Contexts == {"Global", "ReviewList", "Tree", "Diff", "Thread", "Requests", "Composer", "CommitStepper", "Help"}
Modes == {"Normal", "Insert", "Visual"}
Leader == "space"

Bind(context, keys, command) == [context |-> context, keys |-> keys, command |-> command]
\* The same bindings in one context: pairs of a sequence and a command.
Bound(context, pairs) == [i \in DOMAIN pairs |-> Bind(context, pairs[i][1], pairs[i][2])]

\* What every list has; the composer and the help panel are not lists.
Motions == << << <<"j">>, "MoveDown">>, << <<"k">>, "MoveUp">>, << <<"down">>, "MoveDown">>, << <<"up">>, "MoveUp">>,
              << <<"g", "g">>, "GoTop">>, << <<"G">>, "GoBottom">>, << <<"enter">>, "Open">> >>

GlobalTable == Bound("Global",
  << << <<"?">>, "ToggleHelp">>, << <<"tab">>, "NextPanel">>, << <<"t">>, "FileSearch">>, << <<"ctrl+p">>, "FileSearch">>,
     << <<"meta+p">>, "FileSearch">>, << <<"F">>, "ContentSearch">>, << <<":">>, "ActionPalette">>,
     << <<"1">>, "TabFiles">>, << <<"2">>, "TabConversation">>, << <<"3">>, "TabBrowse">>,
     << <<"g", "b">>, "BrowseRevision">>, << <<"g", "B">>, "ResetBrowse">>, << <<"g", "]">>, "NextBrowseRepo">>,
     << <<"g", "[">>, "PrevBrowseRepo">>, << <<"s">>, "ToggleLayout">>, << <<"w">>, "ToggleWhitespace">>,
     << <<"g", "f">>, "NextFile">>, << <<"g", "F">>, "PrevFile">>, << <<"g", "e">>, "FocusTree">>,
     << <<"g", "d">>, "FocusDiff">>, << <<"g", "t">>, "FocusThreads">>, << <<"g", "r">>, "FocusRequests">>,
     << <<"g", "m">>, "FocusCommits">>, << <<Leader, "a">>, "ScopeAll">>, << <<Leader, "c">>, "ScopeByCommit">>,
     << <<Leader, "w">>, "ScopeWorktree">>, << <<Leader, "s">>, "ToggleLayout">>, << <<Leader, "h">>, "ToggleWhitespace">>,
     << <<Leader, "b">>, "ToggleSidebar">>, << <<Leader, "C">>, "Commits">>, << <<Leader, "i">>, "InformationalNote">>,
     << <<Leader, "k">>, "CheckCurrent">>, << <<Leader, "d">>, "CheckpointDelta">>, << <<Leader, "f">>, "ReviewFinding">>,
     << <<"esc">>, "Back">>, << <<"g", "D">>, "InspectDaemon">>, << <<"g", "U">>, "UpgradeDaemon">>,
     << <<"ctrl+shift+c">>, "Connect">>, << <<"ctrl+shift+d">>, "Disconnect">>, << <<"g", "W">>, "GoHome">> >>)

ListTables ==
  Bound("ReviewList", Motions \o << << <<"R">>, "Refresh">>, << <<"y">>, "CopyCheckout">>, << <<"N">>, "NewReview">> >>)
  \o Bound("Tree", Motions \o
    << << <<"v">>, "ToggleViewed">>, << <<"]", "f">>, "NextFile">>, << <<"[", "f">>, "PrevFile">>, << <<"n">>, "NextHunk">>,
       << <<"p">>, "PrevHunk">>, << <<"c">>, "Comment">>, << <<"y">>, "CopyPath">>, << <<"C">>, "CollapseParent">>,
       << <<"z">>, "CollapseAll">> >>)
  \o Bound("Requests", Motions \o << << <<"v">>, "CheckRequested">> >>)

DiffTable == Bound("Diff", Motions \o
  << << <<"ctrl+d">>, "PageDown">>, << <<"ctrl+u">>, "PageUp">>, << <<"pagedown">>, "PageDown">>, << <<"pageup">>, "PageUp">>,
     << <<"n">>, "NextHunk">>, << <<"p">>, "PrevHunk">>, << <<"]", "f">>, "NextFile">>, << <<"[", "f">>, "PrevFile">>,
     << <<"]", "c">>, "NextComment">>, << <<"[", "c">>, "PrevComment">>, << <<"c">>, "Comment">>, << <<"v">>, "ToggleViewed">>,
     << <<"y">>, "CopyPath">>, << <<"x">>, "ExpandContext">>, << <<"C">>, "ToggleFileCollapse">>, << <<"X">>, "ExpandFile">>,
     << <<"V">>, "VisualMode">>, << <<"z", "u">>, "ExpandUp">>, << <<"z", "d">>, "ExpandDown">>,
     << <<"z", "c">>, "CommentOnFile">>, << <<"h">>, "SideBase">>, << <<"l">>, "SideHead">>, << <<"left">>, "SideBase">>,
     << <<"right">>, "SideHead">>, << <<"z", "z">>, "CenterView">>, << <<"z", "t">>, "ViewTop">>, << <<"z", "b">>, "ViewBottom">> >>)

PanelTables ==
  Bound("Thread", Motions \o
    << << <<"y">>, "CopyReference">>, << <<"]">>, "NextReply">>, << <<"[">>, "PrevReply">>, << <<"r">>, "Reply">>,
       << <<"x">>, "ToggleResolved">>, << <<"D">>, "DeferFinding">>, << <<"d">>, "Delete">>, << <<"a">>, "ApplySuggestion">>,
       << <<"v">>, "PreviewSuggestion">> >>)
  \o Bound("Composer", << << <<"ctrl+enter">>, "Submit">>, << <<"alt+a">>, "AddReviewTarget">>,
       << <<"alt+d">>, "RemoveReviewTarget">>, << <<"alt+r">>, "ReconnectReviewCreation">>, << <<"esc">>, "Back">> >>)
  \o Bound("CommitStepper", Motions \o << << <<"n">>, "NextHunk">>, << <<"p">>, "PrevHunk">> >>)
  \o Bound("Help", << << <<"j">>, "MoveDown">>, << <<"k">>, "MoveUp">>, << <<"?">>, "ToggleHelp">>, << <<"esc">>, "Back">> >>)

DefaultTable == GlobalTable \o ListTables \o DiffTable \o PanelTables

Applicable(table, context) == SelectSeq(table, LAMBDA b : b.context \in {context, "Global"})
Exact(table, context, pressed) == SelectSeq(table, LAMBDA b : b.context = context /\ b.keys = pressed)

Waits == [found |-> "Prefix", command |-> "None"]
Unbound == [found |-> "None", command |-> "None"]
FoundCommand(bindings) == [found |-> "Command", command |-> bindings[1].command]

\* A binding of the context itself shadows a Global one with the same keys.
Lookup(table, context, pressed) ==
  CASE Exact(table, context, pressed) # <<>>  -> FoundCommand(Exact(table, context, pressed))
    [] Exact(table, "Global", pressed) # <<>> -> FoundCommand(Exact(table, "Global", pressed))
    [] \E b \in Range(Applicable(table, context)) : IsStrictPrefix(pressed, b.keys) -> Waits
    [] OTHER -> Unbound

ModesOf(command) ==
  CASE command \in {"Submit", "AddReviewTarget", "RemoveReviewTarget", "ReconnectReviewCreation"} -> {"Insert"}
    [] command = "Back" -> Modes
    [] command \in {"MoveDown", "MoveUp", "PageDown", "PageUp", "GoTop", "GoBottom", "Comment", "ReviewFinding",
                    "InformationalNote", "VisualMode"} -> {"Normal", "Visual"}
    [] OTHER -> {"Normal"}

InMode(mode, context) ==
  CASE mode = "Insert" -> context = "Composer"
    [] mode = "Normal" -> context # "Composer"
    [] mode = "Visual" -> context = "Diff"

\* A configured action replaces its bindings in the mode, in every context they were in.
Configure(table, entry) ==
  LET mine(b) == b.command = entry.command /\ InMode(entry.mode, b.context)
      before == FoldLeft(LAMBDA cs, b : IF b.context \in Range(cs) THEN cs ELSE Append(cs, b.context), <<>>, SelectSeq(table, mine))
      contexts == IF before # <<>> THEN before ELSE <<IF entry.mode = "Insert" THEN "Composer" ELSE "Global">>
      rows(keys) == [i \in DOMAIN contexts |-> Bind(contexts[i], keys, entry.command)]
  IN SelectSeq(table, LAMBDA b : ~mine(b)) \o FlattenSeq([i \in DOMAIN entry.seqs |-> rows(entry.seqs[i])])

\* Anything that cannot be applied rejects the whole configuration.
ConfigOK(config) == \A entry \in Range(config) : entry.mode \in ModesOf(entry.command)
WithConfig(config) == FoldLeft(Configure, DefaultTable, config)
=============================================================================
