----------------------------- MODULE Navigation -----------------------------
(***************************************************************************)
(* Where the user is and what a command means there (crates/               *)
(* nits-client-core, focus.rs, explorer.rs, home.rs and the navigation     *)
(* actions of lib.rs): the focus over the lists on screen, the stacked     *)
(* files as one document, Visual selections, the panels that take the keys *)
(* and give them back, and the chords on their way to a command.           *)
(*                                                                         *)
(* A file is a number, its row the line it shows on each side (0 for no    *)
(* cell).  Opening a gap re-renders a file at its next level.  Rows, like  *)
(* the code's, count from 0.  Browse and recorded originals are not here.  *)
(***************************************************************************)
EXTENDS Keymap, FiniteSets, TLC

CONSTANTS
  RowsOf,        \* [file -> the rows of each level]; <<>> for a submodule
  DirOf,         \* [file -> its directory], Root for none
  PageRows,      \* PAGE_ROWS
  NavMenus       \* bounds: the commands, keys and arrivals of a run, and how many

NavFiles == DOMAIN RowsOf
NoFile == 0
Root == 0

\* DiffScope: a commit is its position in the stepper, 0 the newest.
Worktree == -1
AllChanges == -2
Committed == -3
Requested == -4
Submodules == {f \in NavFiles : RowsOf[f] = <<>>}

At(place, index, side) == [at |-> place, index |-> index, side |-> side]
InList(place, index) == At(place, index, "Head")
HomeFocus == InList("ReviewList", 0)
TreeFocus == InList("Tree", 0)
ComposerFocus == InList("Composer", 0)
HelpFocus == InList("Help", 0)
NoFocus == InList("None", 0)
NoAnchor == [row |-> -1, side |-> "Head"]
NoRealign == [file |-> NoFile, level |-> 0, side |-> "Head", line |-> 0, row |-> 0]

Least(a, b) == IF a < b THEN a ELSE b
Most(a, b) == IF a > b THEN a ELSE b

\* Action: an intent of the user, alone or with what it is about.
Act(type) == [type |-> type]
NoAction == Act("Nothing")
AtEdge == Act("AtEdge")
SetFocusTo(f) == [type |-> "SetFocus", focus |-> f]
OpenAt(file, row, side) == [type |-> "OpenFileAt", file |-> file, row |-> row, side |-> side]
ActOn(type, x) == [type |-> type, on |-> x]

VARIABLES
  nav,       \* the view and the navigation state of the core
  ran,       \* history: the last command, and whether it was accepted
  keysLeft   \* what remains of the chosen menu

navVars == <<nav, ran, keysLeft>>

NavInit ==
  /\ keysLeft \in NavMenus
  /\ ran = [command |-> "None", ok |-> TRUE]
  /\ nav = [review |-> TRUE, tab |-> "FilesChanged", files |-> keysLeft.files, open |-> keysLeft.files[1], first |-> 0,
            last |-> PageRows - 1, level |-> [f \in NavFiles |-> 0], cached |-> {<<f, 0>> : f \in keysLeft.cached},
            folds |-> [f \in NavFiles |-> "default"], viewed |-> {}, threads |-> keysLeft.threads,
            requests |-> 0, steps |-> keysLeft.commits, scope |-> AllChanges,
            collapsed |-> {}, overlays |-> {}, reply |-> 0, draft |-> FALSE, creating |-> FALSE,
            expanded |-> FALSE, reviews |-> <<"r1">>, rows |-> <<"workspace", "r1">>, asked |-> FALSE, byCommit |-> FALSE,
            focus |-> At("Diff", 0, "Head"), focusReturn |-> NoFocus, helpReturn |-> NoFocus, visual |-> NoAnchor,
            realign |-> NoRealign, chords |-> <<>>, keymap |-> <<>>,
            origin |-> NoFocus]    \* history: the focus when the draft was opened

-----------------------------------------------------------------------------
(* What is on screen.                                                      *)

Render(n, f) == <<f, n.level[f]>>
HasHeader(n, f) == f # NoFile /\ Render(n, f) \in n.cached
NavRows(n, f) == IF HasHeader(n, f) /\ f \notin Submodules THEN RowsOf[f][n.level[f] + 1] ELSE <<>>
Total(n, f) == Len(NavRows(n, f))
RowAt(n, f, row) == NavRows(n, f)[row + 1]
LineOn(row, side) == IF side = "Base" THEN row.base ELSE row.head
Other(side) == IF side = "Base" THEN "Head" ELSE "Base"

\* diff_view of the open file, and whether a row of it is in the window.
DiffShown(n) == n.review /\ HasHeader(n, n.open)
InWindow(n, row) ==
  LET last == Least(n.last, Total(n, n.open) - 1)
  IN DiffShown(n) /\ row \in Least(n.first, last)..last

\* A file folds when it is viewed, until the user says otherwise; without a header it has no section.
Collapsed(n, f) ==
  /\ HasHeader(n, f)
  /\ n.folds[f] = "folded" \/ (n.folds[f] = "default" /\ f \in n.viewed)

\* The explorer: the repository, then directories before files, each when its parent is expanded.
Leaves(n, dir) ==
  LET files == SelectSeq(n.files, LAMBDA f : DirOf[f] = dir)
  IN [i \in DOMAIN files |-> [kind |-> "file", id |-> files[i]]]
Folder(n, dir, children) == <<[kind |-> "dir", id |-> dir]>> \o (IF dir \in n.collapsed THEN <<>> ELSE children)
Explorer(n) ==
  LET dirs == SetToSortSeq({DirOf[f] : f \in Range(n.files)} \ {Root}, LAMBDA a, b : a < b)
      folders == [i \in DOMAIN dirs |-> Folder(n, dirs[i], Leaves(n, dirs[i]))]
  IN Folder(n, Root, FlattenSeq(folders) \o Leaves(n, Root))
VisibleNodes(n) == IF n.review /\ n.files # <<>> THEN Explorer(n) ELSE <<>>

HomeRows(n) == <<"workspace">> \o (IF n.expanded THEN <<"repository">> ELSE <<>>) \o n.reviews

\* Selectable rows of the stepper: all changes, the commits, the working tree.
StepperRows(n) == IF n.steps < 0 THEN 0 ELSE n.steps + 2

Extent(n, place) ==
  CASE place = "ReviewList" -> Len(n.rows)
    [] place = "Tree" -> Len(VisibleNodes(n))
    [] place = "Diff" -> IF DiffShown(n) THEN Total(n, n.open) ELSE 0
    [] place = "Thread" -> Len(n.threads)
    [] place = "Requests" -> n.requests
    [] place = "CommitStepper" -> StepperRows(n)
    [] OTHER -> 0

Lists == {"ReviewList", "Tree", "Thread", "Requests", "CommitStepper"}
Indexed(f) == f.at \in Lists \cup {"Diff"}
WithIndex(f, i) == [f EXCEPT !.index = i]
SideOf(f) == IF f.at = "Diff" THEN f.side ELSE "Head"

\* A row keeps the side asked for when it has a cell there, else takes the one it has.
SettledSide(n, row, side) ==
  IF InWindow(n, row) /\ LineOn(RowAt(n, n.open, row), side) = 0 /\ LineOn(RowAt(n, n.open, row), Other(side)) # 0
  THEN Other(side) ELSE side

\* The creation form has the screen while no review is open.
Creating(n) == n.creating /\ ~n.review

Fallback(n) == IF n.review THEN TreeFocus ELSE HomeFocus

Clamp(n, f) ==
  LET size == Extent(n, f.at)
      row == IF size = 0 THEN 0 ELSE Least(f.index, size - 1)
  IN CASE f.at = "Help" -> f
       [] f.at = "Composer" -> IF n.draft \/ Creating(n) THEN f ELSE Fallback(n)
       [] f.at = "Diff" -> IF DiffShown(n) THEN At("Diff", row, SettledSide(n, row, f.side))
                           ELSE IF n.review /\ n.open # NoFile THEN f ELSE Fallback(n)
       [] OTHER -> IF size > 0 THEN WithIndex(f, row)
                   ELSE IF f.at = "ReviewList" \/ (f.at = "Tree" /\ n.review) THEN WithIndex(f, 0) ELSE Fallback(n)

TargetFile(n, f) ==
  CASE f.at = "Diff" -> IF DiffShown(n) THEN n.open ELSE NoFile
    [] f.at = "Tree" /\ f.index < Len(VisibleNodes(n)) ->
         LET node == VisibleNodes(n)[f.index + 1] IN IF node.kind = "file" THEN node.id ELSE NoFile
    [] f.at = "Thread" /\ f.index < Len(n.threads) -> n.threads[f.index + 1].file
    [] OTHER -> NoFile

InVisual(n) == n.visual # NoAnchor /\ n.focus.at = "Diff"
PositionOf(n, f) == IF f \in Range(n.files) THEN CHOOSE i \in DOMAIN n.files : n.files[i] = f ELSE 0

-----------------------------------------------------------------------------
(* What a command means (focus.rs, resolve).                               *)

\* Move by delta within the focused list.
Step(n, delta) ==
  LET size == Extent(n, n.focus.at)
      next == Most(0, Least(n.focus.index + delta, size - 1))
  IN IF ~Indexed(n.focus) \/ size = 0 THEN NoAction
     ELSE IF next = n.focus.index THEN AtEdge ELSE SetFocusTo(Clamp(n, WithIndex(n.focus, next)))

Jump(n, toEnd) ==
  LET size == Extent(n, n.focus.at)
      target == IF toEnd THEN size - 1 ELSE 0
  IN IF ~Indexed(n.focus) \/ size = 0 THEN NoAction
     ELSE IF n.focus.index = target THEN AtEdge ELSE SetFocusTo(Clamp(n, WithIndex(n.focus, target)))

\* Mutant of LandingRow: a file is always entered at its first row.
LandingFirst(n, f, forward) == 0

\* The row a motion lands on in the file it walks into: its last one going backward.
LandingRow(n, f, forward) == IF forward \/ Collapsed(n, f) THEN 0 ELSE Most(Total(n, f), 1) - 1

AdjacentFile(n, forward) ==
  LET i == PositionOf(n, n.open) + (IF forward THEN 1 ELSE -1)
  IN IF ~n.review \/ PositionOf(n, n.open) = 0 THEN NoAction
     ELSE IF i \notin DOMAIN n.files THEN AtEdge
     ELSE OpenAt(n.files[i], LandingRow(n, n.files[i], forward), SideOf(n.focus))

\* The stack is one document: the edges of a file continue into the next, a folded one is one stop.
MoveLine(n, forward) ==
  LET step == Step(n, IF forward THEN 1 ELSE -1)
  IN CASE n.focus.at # "Diff" \/ InVisual(n) -> step
       [] Collapsed(n, n.open) -> AdjacentFile(n, forward)
       [] OTHER -> IF step = AtEdge THEN AdjacentFile(n, forward) ELSE step

\* In by-commit scope the hunk commands step commits; 0 is the newest, the count the working tree.
StepCommits(n, forward) ==
  LET worktree == n.scope = Worktree
      at == n.scope
  IN IF n.steps < 0 THEN NoAction
     ELSE IF forward THEN (IF worktree THEN AtEdge ELSE IF at = 0 THEN ActOn("StepCommit", Worktree) ELSE ActOn("StepCommit", at - 1))
     ELSE IF worktree THEN (IF n.steps > 0 THEN ActOn("StepCommit", 0) ELSE AtEdge)
     ELSE IF at + 1 < n.steps THEN ActOn("StepCommit", at + 1) ELSE AtEdge

\* One stop per hunk, and one per thread: the row its card hangs under.
Anchors(n, f, row) ==
  {t \in Range(n.threads) : t.file = f /\ t.line # 0 /\ LineOn(RowAt(n, f, row), t.side) = t.line}
Wanted(n, f, row, what) == IF what = "hunk" THEN RowAt(n, f, row).hunk ELSE Anchors(n, f, row) # {}
StopsIn(n, f, what) == {r \in 0..Total(n, f) - 1 : Wanted(n, f, r, what)}
First(S, forward) == CHOOSE r \in S : \A s \in S : IF forward THEN r <= s ELSE r >= s

FindStop(n, forward, what) ==
  LET cur == PositionOf(n, n.open)
      ahead(i) == IF forward THEN i > cur ELSE i < cur
      here == IF Collapsed(n, n.open) THEN {}
              ELSE {r \in StopsIn(n, n.open, what) : IF forward THEN r > n.focus.index ELSE r < n.focus.index}
      files == {i \in DOMAIN n.files : ahead(i) /\ (Collapsed(n, n.files[i]) \/ StopsIn(n, n.files[i], what) # {})}
      f == n.files[First(files, forward)]
  IN IF n.focus.at # "Diff" \/ ~DiffShown(n) THEN NoAction
     ELSE IF here # {} THEN SetFocusTo(Clamp(n, At("Diff", First(here, forward), n.focus.side)))
     ELSE IF cur = 0 \/ files = {} THEN AtEdge
     ELSE OpenAt(f, IF Collapsed(n, f) THEN 0 ELSE First(StopsIn(n, f, what), forward), n.focus.side)

NextStop(n, forward, what) ==
  IF what = "hunk" /\ n.review /\ n.scope >= Worktree THEN StepCommits(n, forward)
  ELSE FindStop(n, forward, what)

NextFile(n, forward) ==
  LET cur == PositionOf(n, n.open)
      i == IF cur = 0 THEN (IF forward THEN 1 ELSE Len(n.files)) ELSE IF forward THEN cur + 1 ELSE cur - 1
  IN IF ~n.review \/ n.files = <<>> THEN NoAction
     ELSE IF i \notin DOMAIN n.files THEN AtEdge ELSE OpenAt(n.files[i], 0, SideOf(n.focus))

OpenHomeRow(n) ==
  LET row == n.rows[n.focus.index + 1]
  IN IF n.focus.index >= Len(n.rows) THEN NoAction
     ELSE CASE row = "workspace" -> Act("ToggleWorkspace") [] row = "repository" -> Act("SelectWorkspace")
            [] OTHER -> Act("OpenReview")

OpenNode(n) ==
  LET node == VisibleNodes(n)[n.focus.index + 1]
  IN IF n.focus.index >= Len(VisibleNodes(n)) THEN NoAction
     ELSE IF node.kind = "dir" THEN ActOn("ToggleDir", node.id)
     ELSE OpenAt(node.id, IF DiffShown(n) /\ n.open = node.id THEN Least(n.first, Most(Total(n, n.open), 1) - 1) ELSE 0, "Head")

\* On a row: unfold, open the hidden run, or go to the thread on the focused half first.
OpenRow(n) ==
  LET row == n.focus.index
      on == {t \in Range(n.threads) : t.file = n.open /\ t.line # 0
               /\ LET at == LineOn(RowAt(n, n.open, row), t.side) IN at # 0 /\ at = t.line}
      mine == {t \in on : t.side = n.focus.side}
      thread == First({i \in DOMAIN n.threads : n.threads[i] \in (IF mine # {} THEN mine ELSE on)}, TRUE)
  IN IF ~DiffShown(n) THEN NoAction
     ELSE IF Collapsed(n, n.open) THEN ActOn("ToggleFileCollapse", n.open)
     ELSE IF ~InWindow(n, row) THEN NoAction
     ELSE IF RowAt(n, n.open, row).gap THEN ActOn("ExpandGap", n.open)
     ELSE IF on = {} THEN NoAction ELSE SetFocusTo(InList("Thread", thread - 1))

\* A thread opens at the line it ends on, taken for a row.
OpenThread(n) ==
  LET t == n.threads[n.focus.index + 1]
      row == IF t.line = 0 THEN 0 ELSE t.line - 1
  IN IF n.focus.index >= Len(n.threads) \/ t.file = NoFile THEN NoAction
     ELSE IF DiffShown(n) /\ n.open = t.file THEN SetFocusTo(Clamp(n, At("Diff", row, t.side)))
     ELSE OpenAt(t.file, row, t.side)

OpenStep(n) ==
  LET i == n.focus.index
  IN IF n.steps < 0 \/ i > n.steps + 1 THEN NoAction
     ELSE ActOn("SetScope", IF i = 0 THEN AllChanges ELSE IF i <= n.steps THEN i - 1 ELSE Worktree)

Open(n) ==
  CASE n.focus.at = "ReviewList" -> OpenHomeRow(n)
    [] n.focus.at = "Tree" -> OpenNode(n)
    [] n.focus.at = "Diff" -> OpenRow(n)
    [] n.focus.at = "Requests" -> IF n.focus.index < n.requests THEN ActOn("SetScope", Requested) ELSE NoAction
    [] n.focus.at = "Thread" -> OpenThread(n)
    [] n.focus.at = "CommitStepper" -> OpenStep(n)
    [] OTHER -> NoAction

\* Whatever is on top goes first.
Back(n) ==
  CASE n.focus = HelpFocus -> Act("ToggleHelp")
    [] "palette" \in n.overlays -> ActOn("ActionPalette", FALSE)
    [] "content" \in n.overlays -> ActOn("ContentSearch", FALSE)
    [] Creating(n) -> Act("CancelNewReview")
    [] n.focus = ComposerFocus -> Act("DraftDiscarded")
    [] InVisual(n) -> Act("LeaveVisual")
    [] n.review /\ "files" \in n.overlays -> ActOn("FileSearch", FALSE)
    [] n.focus.at = "Diff" -> Act("CloseFile")
    [] n.focus.at = "Tree" -> IF n.review THEN Act("CloseReview") ELSE NoAction
    [] n.focus.at = "ReviewList" -> NoAction
    [] OTHER -> SetFocusTo(TreeFocus)

NextPanel(n) ==
  LET list(place) == SetFocusTo(Clamp(n, InList(place, 0)))
      after == IF n.requests > 0 THEN list("Requests") ELSE IF n.threads # <<>> THEN list("Thread") ELSE NoAction
  IN CASE ~n.review -> NoAction
       [] n.focus.at = "Tree" -> IF DiffShown(n) THEN SetFocusTo(Clamp(n, At("Diff", 0, "Head"))) ELSE after
       [] n.focus.at = "Diff" -> IF after = NoAction THEN list("Tree") ELSE after
       [] n.focus.at = "Requests" /\ n.threads # <<>> -> list("Thread")
       [] OTHER -> list("Tree")

ToggleViewed(n) ==
  LET f == TargetFile(n, n.focus)
  IN IF f = NoFile \/ f \notin Range(n.files) THEN NoAction ELSE ActOn("MarkViewed", f)

\* A selection keeps the side it started on; a row with no cell there gives no line.
Comment(n) ==
  LET lo == Least(n.visual.row, n.focus.index)
      hi == Most(n.visual.row, n.focus.index)
      chosen == {LineOn(RowAt(n, n.open, r), n.visual.side) : r \in {x \in lo..hi : x < Total(n, n.open)}} \ {0}
      line == LineOn(RowAt(n, n.open, n.focus.index), n.focus.side)
  IN CASE InVisual(n) -> IF ~DiffShown(n) \/ chosen = {} THEN NoAction ELSE Act("DraftOpened")
       [] ~n.review \/ n.focus.at = "Composer" -> NoAction
       [] n.focus.at = "Diff" -> IF InWindow(n, n.focus.index) /\ line # 0 THEN Act("DraftOpened") ELSE NoAction
       [] n.focus.at = "Tree" -> IF TargetFile(n, n.focus) # NoFile THEN Act("DraftOpened") ELSE NoAction
       [] OTHER -> Act("DraftOpened")
CommentOnFile(n) == IF TargetFile(n, n.focus) # NoFile THEN Act("DraftOpened") ELSE NoAction
ReviewComment(n) == IF n.review THEN Act("DraftOpened") ELSE NoAction

OnThread(n) == n.focus.at = "Thread" /\ n.focus.index < Len(n.threads)
Focused(n) == n.threads[n.focus.index + 1]

ThreadCommand(n, command) ==
  CASE ~OnThread(n) -> NoAction
    [] command = "Reply" -> Act("ReplyOpened")
    [] command = "Delete" -> IF Focused(n).mine THEN ActOn("DeleteComment", Focused(n).id) ELSE NoAction
    [] command = "DeferFinding" -> IF Focused(n).status = "Open" THEN Act("ReplyOpened") ELSE NoAction
    [] command = "ToggleResolved" -> IF Focused(n).status = "Informational" THEN NoAction
                                     ELSE ActOn("ToggleResolved", Focused(n).id)
    [] command = "NextReply" -> ActOn("FocusComment", Least(n.reply + 1, Focused(n).comments - 1))
    [] command = "PrevReply" -> ActOn("FocusComment", Most(n.reply - 1, 0))

Overlay(n, type, what, toggles) ==
  IF what # "palette" /\ ~n.review THEN NoAction ELSE ActOn(type, ~(toggles /\ what \in n.overlays))

OnFile(n, type) == IF TargetFile(n, n.focus) = NoFile THEN NoAction ELSE ActOn(type, TargetFile(n, n.focus))
FocusPanel(n, place) ==
  CASE place = "Tree" -> IF n.review THEN SetFocusTo(TreeFocus) ELSE NoAction
    [] place = "Diff" -> IF DiffShown(n) THEN SetFocusTo(Clamp(n, At("Diff", n.first, SideOf(n.focus)))) ELSE NoAction
    [] OTHER -> IF Extent(n, place) > 0 THEN SetFocusTo(InList(place, 0)) ELSE NoAction

ChooseSide(n, want) ==
  CASE InVisual(n) \/ n.focus.at # "Diff" \/ ~InWindow(n, n.focus.index) -> NoAction
    [] n.focus.side = want \/ LineOn(RowAt(n, n.open, n.focus.index), want) = 0 -> AtEdge
    [] OTHER -> SetFocusTo([n.focus EXCEPT !.side = want])

\* Whether a hidden run lies above or below the cursor, from the header's table of gaps.
ExpandGapNear(n, up) ==
  IF n.focus.at # "Diff" \/ ~DiffShown(n) THEN NoAction
  ELSE IF \E r \in 0..Total(n, n.open) - 1 : RowAt(n, n.open, r).gap /\ (IF up THEN r <= n.focus.index ELSE r >= n.focus.index)
       THEN ActOn("ExpandGap", n.open) ELSE AtEdge

VisualMode(n) ==
  CASE InVisual(n) -> Act("LeaveVisual")
    [] n.focus.at = "Diff" /\ InWindow(n, n.focus.index) ->
         IF LineOn(RowAt(n, n.open, n.focus.index), n.focus.side) # 0 THEN Act("EnterVisual") ELSE NoAction
    [] OTHER -> NoAction

Resolve(n, command) ==
  CASE command = "MoveDown" -> MoveLine(n, TRUE)
    [] command = "MoveUp" -> MoveLine(n, FALSE)
    [] command = "PageDown" -> Step(n, PageRows)
    [] command = "PageUp" -> Step(n, -PageRows)
    [] command \in {"GoTop", "GoBottom"} -> Jump(n, command = "GoBottom")
    [] command \in {"NextHunk", "PrevHunk"} -> NextStop(n, command = "NextHunk", "hunk")
    [] command \in {"NextComment", "PrevComment"} -> NextStop(n, command = "NextComment", "comment")
    [] command \in {"NextFile", "PrevFile"} -> NextFile(n, command = "NextFile")
    [] command = "Open" -> Open(n)
    [] command = "Back" -> Back(n)
    [] command = "NextPanel" -> NextPanel(n)
    [] command = "ToggleViewed" -> ToggleViewed(n)
    [] command = "Comment" -> Comment(n)
    [] command = "CommentOnFile" -> CommentOnFile(n)
    [] command \in {"ReviewFinding", "InformationalNote"} -> ReviewComment(n)
    [] command \in {"Reply", "Delete", "DeferFinding", "ToggleResolved", "NextReply", "PrevReply"} -> ThreadCommand(n, command)
    [] command = "FileSearch" -> Overlay(n, command, "files", TRUE)
    [] command = "ContentSearch" -> Overlay(n, command, "content", FALSE)
    [] command = "ActionPalette" -> Overlay(n, command, "palette", TRUE)
    [] command \in {"ToggleHelp", "CollapseAll", "GoHome"} -> Act(command)
    [] command = "CollapseParent" -> IF n.focus.at = "Tree" THEN Act(command) ELSE NoAction
    [] command = "ToggleFileCollapse" -> OnFile(n, command)
    [] command = "ExpandFile" -> OnFile(n, "ExpandContext")
    [] command = "ExpandContext" ->
         IF n.focus.at = "Diff" /\ DiffShown(n) THEN ActOn(command, n.open) ELSE NoAction
    [] command \in {"ExpandUp", "ExpandDown"} -> ExpandGapNear(n, command = "ExpandUp")
    [] command = "FocusTree" -> FocusPanel(n, "Tree")
    [] command = "FocusDiff" -> FocusPanel(n, "Diff")
    [] command = "FocusThreads" -> FocusPanel(n, "Thread")
    [] command = "FocusRequests" -> FocusPanel(n, "Requests")
    [] command = "FocusCommits" -> FocusPanel(n, "CommitStepper")
    [] command = "SideBase" -> ChooseSide(n, "Base")
    [] command = "SideHead" -> ChooseSide(n, "Head")
    [] command = "VisualMode" -> VisualMode(n)
    [] command \in {"CenterView", "ViewTop", "ViewBottom"} -> IF n.focus.at = "Diff" THEN Act("ScrollView") ELSE NoAction
    [] command = "TabFiles" -> ActOn("SetTab", "FilesChanged")
    [] command = "TabConversation" -> ActOn("SetTab", "Conversation")
    [] command = "NewReview" -> Act("StartReview")
    [] command = "ScopeAll" -> IF n.review THEN ActOn("SetScope", AllChanges) ELSE NoAction
    [] command = "ScopeByCommit" -> IF n.review THEN Act("ByCommit") ELSE NoAction
    [] command = "ScopeWorktree" ->
         IF n.review THEN ActOn("SetScope", IF n.scope = Committed THEN AllChanges ELSE Committed) ELSE NoAction

-----------------------------------------------------------------------------
(* What an action changes (lib.rs, user).                                  *)

Done(n) == [ok |-> TRUE, nav |-> n]
Refused(n) == [ok |-> FALSE, nav |-> n]
When(condition, n, changed) == IF condition THEN Done(changed) ELSE Refused(n)

\* A newly opened file takes the keys, unless a modal panel has them.
Viewport(n, f, first) ==
  LET opened == [n EXCEPT !.open = f, !.first = first, !.last = first + PageRows - 1]
  IN IF ~n.review \/ f \notin Range(n.files) THEN Refused(n)
     ELSE IF n.open = f \/ n.focus \in {ComposerFocus, HelpFocus} THEN Done(opened)
     ELSE Done([opened EXCEPT !.focus = At("Diff", first, "Head")])

Around(row) == Most(row - PageRows \div 2, 0)

\* A focused row outside the viewport scrolls the viewport.
SetFocus(n, f) ==
  LET focused == [n EXCEPT !.focus = f, !.reply = 0, !.tab = IF f.at = "Requests" THEN "Conversation" ELSE n.tab]
  IN IF Clamp(n, f) # f THEN Refused(n)
     ELSE IF f.at = "Diff" /\ n.review /\ n.open # NoFile /\ f.index \notin n.first..n.last
          THEN Viewport(focused, n.open, Around(f.index)) ELSE Done(focused)

OpenFileAt(n, a) ==
  LET shown == Viewport(n, a.file, Around(a.row))
  IN IF shown.ok THEN Done([shown.nav EXCEPT !.focus = At("Diff", a.row, a.side)]) ELSE Refused(n)

CloseFile(n) == When(n.review /\ n.open # NoFile, n, [n EXCEPT !.visual = NoAnchor, !.open = NoFile])

WithoutReview(n) ==
  [n EXCEPT !.review = FALSE, !.files = <<>>, !.open = NoFile, !.scope = AllChanges, !.level = [f \in NavFiles |-> 0],
            !.threads = <<>>, !.requests = 0, !.steps = -1, !.draft = FALSE, !.reply = 0, !.visual = NoAnchor,
            !.focusReturn = NoFocus, !.helpReturn = NoFocus, !.byCommit = FALSE, !.overlays = @ \ {"palette", "content"}]

GoHome(n) == Done([(IF n.review THEN WithoutReview(n) ELSE n) EXCEPT !.focus = HomeFocus])
NewReview(n) == Done([(IF n.review THEN WithoutReview(n) ELSE n) EXCEPT !.focus = ComposerFocus, !.creating = TRUE])

\* The focused directory if it is open, else the parent of the focused row; the focus goes to it.
CollapseParent(n) ==
  LET node == VisibleNodes(n)[n.focus.index + 1]
      dir == CASE node.kind = "file" -> DirOf[node.id] [] node.id \in n.collapsed -> Root [] OTHER -> node.id
      row == CHOOSE i \in DOMAIN VisibleNodes(n) : VisibleNodes(n)[i] = [kind |-> "dir", id |-> dir]
  IN IF ~n.review THEN Refused(n)
     ELSE IF n.focus.at # "Tree" \/ n.focus.index >= Len(VisibleNodes(n)) THEN Done(n)
     ELSE Done([n EXCEPT !.collapsed = @ \cup {dir}, !.focus = InList("Tree", row - 1)])

CollapseAll(n) ==
  When(n.review, n, [n EXCEPT !.collapsed = @ \cup {DirOf[f] : f \in Range(n.files)} \cup (IF n.files = <<>> THEN {} ELSE {Root}),
                           !.focus = IF n.focus.at = "Tree" THEN TreeFocus ELSE @])

Toggled(S, x) == IF x \in S THEN S \ {x} ELSE S \cup {x}

\* The row the cursor keeps when a file is rendered anew, until the new rows arrive.
RealignFor(n, f, level) ==
  LET row == n.focus.index
      onLine == n.focus.at = "Diff" /\ n.open = f /\ InWindow(n, row) /\ LineOn(RowAt(n, f, row), n.focus.side) # 0
  IN IF onLine THEN [file |-> f, level |-> level, side |-> n.focus.side, line |-> LineOn(RowAt(n, f, row), n.focus.side), row |-> row]
     ELSE IF n.realign.file = f /\ n.realign.level = n.level[f] THEN [n.realign EXCEPT !.level = level]
     ELSE NoRealign

Expand(n, f) ==
  LET next == n.level[f] + 1
  IN IF ~n.review \/ f \notin Range(n.files) THEN Refused(n)
     ELSE IF f \in Submodules \/ next >= Len(RowsOf[f]) THEN Done(n)
     ELSE Done([n EXCEPT !.level[f] = next, !.realign = RealignFor(n, f, next)])

\* A modal panel remembers where it was opened from; Help may cover a composer that has one.
Enter(n, f) == [n EXCEPT !.focusReturn = IF @ = NoFocus THEN n.focus ELSE @, !.focus = f]
Leave(n) == [n EXCEPT !.focus = IF n.focusReturn = NoFocus THEN @ ELSE n.focusReturn, !.focusReturn = NoFocus]

\* Mutant of ToggleHelp: help and composer share one place to return to.
ToggleHelpSharing(n) == Done(IF n.focus = HelpFocus THEN Leave(n) ELSE Enter(n, HelpFocus))

ToggleHelp(n) ==
  Done(IF n.helpReturn # NoFocus THEN [n EXCEPT !.focus = n.helpReturn, !.helpReturn = NoFocus]
       ELSE [n EXCEPT !.helpReturn = n.focus, !.focus = HelpFocus])

OpenDraft(n, keepsSelection) ==
  When(n.review /\ ~n.draft, n,
       [Enter(n, ComposerFocus) EXCEPT !.draft = TRUE, !.origin = n.focus, !.visual = IF keepsSelection THEN @ ELSE NoAnchor])
\* A comment to lines or to a file ends the selection it was made from; a reply does not.
DraftOpened(n) == OpenDraft(n, FALSE)
ReplyOpened(n) == OpenDraft(n, TRUE)
CloseDraft(n) == When(n.review /\ n.draft, n, Leave([n EXCEPT !.draft = FALSE, !.visual = NoAnchor]))

EnterVisual(n) ==
  When(n.review /\ n.focus.at = "Diff" /\ ~(DiffShown(n) /\ n.open \in Submodules), n,
       [n EXCEPT !.visual = [row |-> n.focus.index, side |-> n.focus.side]])

\* Another scope empties the file list until the daemon answers.
ToScope(n, scope) == IF n.scope = scope THEN n ELSE [n EXCEPT !.scope = scope, !.files = <<>>, !.open = NoFile]

SetTab(n, tab) ==
  LET turned == [n EXCEPT !.tab = tab,
                          !.focus = IF @.at = "Requests" /\ tab # "Conversation" THEN Clamp(n, At("Diff", 0, "Head")) ELSE @]
      shown == Viewport([turned EXCEPT !.visual = NoAnchor], n.open, 0)
  IN IF n.tab = tab THEN n
     ELSE IF tab = "Conversation" \/ ~n.review \/ n.open = NoFile THEN turned
     ELSE IF shown.ok THEN shown.nav ELSE [shown.nav EXCEPT !.open = NoFile]

\* In by-commit scope the cursor of the stepper is the diff.
StepCommit(n, step) ==
  When(n.steps >= 0 /\ step < n.steps, n, IF n.review /\ n.scope >= Worktree THEN ToScope(n, step) ELSE n)

FocusComment(n, reply) == Done([n EXCEPT !.tab = "Conversation", !.reply = reply])
DeleteComment(n, id) == Done([n EXCEPT !.threads = SelectSeq(@, LAMBDA t : t.id # id)])
ToggleResolved(n, id) ==
  Done([n EXCEPT !.threads = [i \in DOMAIN @ |-> IF @[i].id # id THEN @[i]
                                               ELSE [@[i] EXCEPT !.status = IF @ = "Open" THEN "Resolved" ELSE "Open"]]])

ToggleWorkspace(n) == Done([n EXCEPT !.expanded = ~@])
ToggleDir(n, dir) == When(n.review, n, [n EXCEPT !.collapsed = Toggled(@, dir)])
ToggleFileCollapse(n, f) ==
  LET folded == n.folds[f] = "folded" \/ Collapsed(n, f)
  IN When(n.review, n, [n EXCEPT !.folds[f] = IF folded THEN "unfolded" ELSE "folded"])
MarkViewed(n, f) == When(n.review /\ f \in Range(n.files), n, [n EXCEPT !.viewed = Toggled(@, f)])
LeaveVisual(n) == When(n.visual # NoAnchor, n, [n EXCEPT !.visual = NoAnchor])

Showing(n, what, open) == [n EXCEPT !.overlays = IF open THEN @ \cup {what} ELSE @ \ {what}]
FileSearch(n, open) == When(n.review, n, Showing(n, "files", open))
SearchContent(n, open) == When(n.review, n, Showing(n, "content", open))
ActionPalette(n, open) == Done(Showing(n, "palette", open))

\* By-commit scope waits for the commits it steps through.
SetScopeTo(n, scope) == When(n.review, n, ToScope(SetTab(n, "FilesChanged"), scope))
ToByCommit(n) == IF n.review /\ n.steps < 0 THEN Done([n EXCEPT !.byCommit = TRUE]) ELSE SetScopeTo(n, Worktree)

Perform(n, a) ==
  CASE a.type \in {"Nothing", "AtEdge"} -> Refused(n)
    [] a.type = "SetFocus" -> SetFocus(n, a.focus)
    [] a.type = "OpenFileAt" -> OpenFileAt(n, a)
    [] a.type = "CloseFile" -> CloseFile(n)
    [] a.type = "CloseReview" -> When(n.review, n, WithoutReview(n))
    [] a.type = "GoHome" -> GoHome(n)
    [] a.type = "StartReview" -> NewReview(n)
    [] a.type = "CancelNewReview" -> Done([n EXCEPT !.creating = FALSE])
    [] a.type = "OpenReview" -> Done([n EXCEPT !.asked = TRUE])
    [] a.type = "ToggleWorkspace" -> ToggleWorkspace(n)
    [] a.type = "SelectWorkspace" -> Done([n EXCEPT !.focus = HomeFocus])
    [] a.type = "ToggleDir" -> ToggleDir(n, a.on)
    [] a.type = "CollapseParent" -> CollapseParent(n)
    [] a.type = "CollapseAll" -> CollapseAll(n)
    [] a.type = "ToggleFileCollapse" -> ToggleFileCollapse(n, a.on)
    [] a.type \in {"ExpandGap", "ExpandContext"} -> Expand(n, a.on)
    [] a.type = "MarkViewed" -> MarkViewed(n, a.on)
    [] a.type = "DraftOpened" -> DraftOpened(n)
    [] a.type = "ReplyOpened" -> ReplyOpened(n)
    [] a.type = "DraftDiscarded" -> CloseDraft(n)
    [] a.type = "ToggleHelp" -> ToggleHelp(n)
    [] a.type = "EnterVisual" -> EnterVisual(n)
    [] a.type = "LeaveVisual" -> LeaveVisual(n)
    [] a.type = "FileSearch" -> FileSearch(n, a.on)
    [] a.type = "ContentSearch" -> SearchContent(n, a.on)
    [] a.type = "ActionPalette" -> ActionPalette(n, a.on)
    [] a.type = "ScrollView" -> When(n.focus.at = "Diff", n, n)
    [] a.type = "SetTab" -> Done(SetTab(n, a.on))
    [] a.type = "StepCommit" -> StepCommit(n, a.on)
    [] a.type = "SetScope" -> SetScopeTo(n, a.on)
    [] a.type = "ByCommit" -> ToByCommit(n)
    [] a.type = "FocusComment" -> FocusComment(n, a.on)
    [] a.type = "DeleteComment" -> DeleteComment(n, a.on)
    [] a.type = "ToggleResolved" -> ToggleResolved(n, a.on)

-----------------------------------------------------------------------------
(* What the core recomputes after every input (derive).                    *)

\* The home cursor stays on its row while the lists around it change.
KeepsRow(n) ==
  LET row == n.rows[n.focus.index + 1]
      rows == HomeRows(n)
      moved == n.focus.at = "ReviewList" /\ n.focus.index < Len(n.rows) /\ rows # n.rows
      index == IF row \in Range(rows) THEN (CHOOSE i \in DOMAIN rows : rows[i] = row) - 1 ELSE 0
  IN [n EXCEPT !.rows = rows, !.focus = IF moved THEN InList("ReviewList", index) ELSE @]

\* The rows a realigned cursor waited for are here: it and the viewport shift to its line.
Realigned(n) ==
  LET want == n.realign
      found == {r \in 0..Total(n, n.open) - 1 : LineOn(RowAt(n, n.open, r), want.side) = want.line}
      delta == First(found, TRUE) - want.row
      shift(row) == Most(row + delta, 0)
  IN IF ~n.review \/ n.open = NoFile \/ want.file # n.open \/ want.level # n.level[n.open] \/ found = {} THEN n
     ELSE [n EXCEPT !.realign = NoRealign, !.first = shift(@), !.last = shift(@),
                    !.focus = IF @.at = "Diff" THEN WithIndex(@, shift(@.index)) ELSE @]

Derive(n) ==
  LET settled == Realigned(KeepsRow(n))
  IN [settled EXCEPT !.focus = Clamp(settled, @),
                     !.visual = IF DiffShown(settled) /\ settled.open \in Submodules THEN NoAnchor ELSE @]

-----------------------------------------------------------------------------
(* Inputs.                                                                 *)

\* An error changes nothing and derives nothing.
Handle(command, result) ==
  /\ nav' = IF result.ok THEN Derive(result.nav) ELSE result.nav
  /\ ran' = [command |-> command, ok |-> result.ok]
  /\ keysLeft.steps > 0
  /\ keysLeft' = [keysLeft EXCEPT !.steps = @ - 1]

RunCommand == \E command \in keysLeft.commands : Handle(command, Perform(nav, Resolve(nav, command)))

\* The chosen keys are kept as configured.
Table(n) == IF n.keymap = <<>> THEN DefaultTable ELSE WithConfig(n.keymap)
Meaning(n, key) == Lookup(Table(n), n.focus.at, Append(n.chords, key))

\* A key continues a sequence, completes a command, or ends the sequence.
KeyResult(n, key) ==
  LET pressed == Append(n.chords, key)
      found == Meaning(n, key)
      cleared == [n EXCEPT !.chords = <<>>]
  IN CASE found = Waits -> Done([n EXCEPT !.chords = pressed])
       [] found = Unbound -> When(n.focus = ComposerFocus \/ n.chords # <<>>, n, cleared)
       [] OTHER -> Perform(cleared, Resolve(cleared, found.command))

Key == \E key \in keysLeft.keys :
  Handle(Meaning(nav, key).command, KeyResult(nav, key))

\* What a host or a click may send without a command.
HostAction == \E a \in keysLeft.clicks : Handle(a.type, Perform(nav, a))
HostScroll == \E first \in keysLeft.scrolls : Handle("Viewport", Viewport(nav, nav.open, first))

\* The chosen keys, unless they cannot be applied.
KeymapStored == \E config \in keysLeft.configs :
  Handle("Stored", Done([nav EXCEPT !.keymap = IF ConfigOK(config) THEN config ELSE @]))

-----------------------------------------------------------------------------
(* Arrivals.                                                               *)

Arrive(n) == Handle("Arrival", Done(n))

\* The first file opens when none is; a focused thread keeps the keys.
OpenFirst(n) ==
  LET shown == Viewport(n, n.files[1], 0).nav
  IN IF ~n.review \/ n.open # NoFile \/ n.files = <<>> THEN n
     ELSE IF n.focus.at = "Thread" THEN [shown EXCEPT !.focus = n.focus] ELSE shown

\* A file list arrives at the default context: an expanded open file is not in it.
ListArrives == \E files \in keysLeft.lists :
  LET kept == nav.open \in Range(files) /\ nav.level[nav.open] = 0
  IN /\ nav.review
     /\ Arrive(OpenFirst([nav EXCEPT !.files = files, !.level = [f \in NavFiles |-> 0], !.open = IF kept THEN @ ELSE NoFile]))

RenderArrives == \E f \in Range(nav.files) :
  /\ Render(nav, f) \notin nav.cached
  /\ Arrive([nav EXCEPT !.cached = @ \cup {Render(nav, f)}])

ThreadsArrive == \E threads \in keysLeft.discussions : nav.review /\ Arrive([nav EXCEPT !.threads = threads])
RequestArrives == nav.review /\ nav.requests < keysLeft.requests /\ Arrive([nav EXCEPT !.requests = @ + 1])
ReviewsArrive == \E reviews \in keysLeft.homes : Arrive([nav EXCEPT !.reviews = reviews])

\* The snapshot of the review asked for; its file list follows.
ReviewArrives ==
  /\ nav.asked
  /\ Arrive([WithoutReview(nav) EXCEPT !.review = TRUE, !.asked = FALSE, !.focus = TreeFocus,
                                !.threads = keysLeft.threads])

\* Its commits, or another time: by-commit scope was waiting for them.
CommitsArrive ==
  LET listed == [nav EXCEPT !.steps = keysLeft.commits, !.byCommit = FALSE]
  IN /\ nav.review /\ nav.steps < 0
     /\ Arrive(IF nav.byCommit THEN ToScope(listed, Worktree) ELSE listed)

NavNext ==
  \/ RunCommand \/ Key \/ HostAction \/ HostScroll \/ KeymapStored
  \/ ListArrives \/ RenderArrives \/ ThreadsArrive \/ RequestArrives \/ ReviewsArrive \/ ReviewArrives \/ CommitsArrive

-----------------------------------------------------------------------------
(* What the user relies on.                                                *)

\* The document of the stacked view: the rows of each file in turn; a folded
\* file, and one whose rows are not here, is one stop.  What a command stops at.
Wants(n, f, row, command) ==
  \/ command \in {"MoveDown", "MoveUp"} \/ Collapsed(n, f)
  \/ row < Total(n, f) /\ Wanted(n, f, row, IF command \in {"NextHunk", "PrevHunk"} THEN "hunk" ELSE "comment")
StopsFor(n, command) ==
  UNION {LET f == n.files[i]
             rows == IF Collapsed(n, f) THEN 1 ELSE Most(Total(n, f), 1)
         IN {<<i, row>> : row \in {r \in 0..rows - 1 : Wants(n, f, r, command)}} : i \in DOMAIN n.files}
Place(n) == <<PositionOf(n, n.open), IF Collapsed(n, n.open) THEN 0 ELSE n.focus.index>>
Precedes(a, b) == a[1] < b[1] \/ (a[1] = b[1] /\ a[2] < b[2])

Forward == {"MoveDown", "NextHunk", "NextComment"}
Backward == {"MoveUp", "PrevHunk", "PrevComment"}
InDocument(n) == n.focus.at = "Diff" /\ DiffShown(n) /\ ~InVisual(n) /\ n.open \in Range(n.files)
Stepping(n, command) == command \in {"NextHunk", "PrevHunk"} /\ n.scope >= Worktree

\* A motion in the diff goes to the nearest stop of its kind in the whole document, files
\* folded, not loaded and without rows included, and leaves it in the window (focus.rs,
\* MoveDown to PrevComment; lib.rs, OpenFileAt and SetFocus).
MotionStep ==
  LET command == ran'.command
      here == Place(nav)
      ahead(a, b) == IF command \in Forward THEN Precedes(a, b) ELSE Precedes(b, a)
      stops == {stop \in StopsFor(nav, command) : ahead(here, stop)}
  IN (command \in Forward \cup Backward /\ ran'.ok /\ InDocument(nav) /\ ~Stepping(nav, command) /\ keysLeft # keysLeft')
     => /\ Place(nav') \in stops
        /\ ~\E stop \in stops : ahead(stop, Place(nav'))
        /\ nav'.focus.at = "Diff"
        /\ nav'.focus.index \in nav'.first..nav'.last
MotionsWalkTheDocument == [][MotionStep]_navVars

\* When a composer closes and its review stays open, the keys go back to where they were
\* when it opened, or the nearest place left of it, whatever panel covered it meanwhile
\* (lib.rs, enter, leave and ToggleHelp).
ReturnStep ==
  (nav.draft /\ ~nav'.draft /\ nav.review /\ nav'.review /\ nav'.scope = nav.scope /\ ran'.command # "Arrival")
  => nav'.focus = Clamp(nav', nav.origin)
ReturnsToOrigin == [][ReturnStep]_navVars

NavSpec == NavInit /\ [][NavNext]_navVars
=============================================================================
