------------------------- MODULE SuggestionFile -------------------------
(***************************************************************************)
(* Applying a suggestion: nits-review-core/src/suggestion_file.rs          *)
(* (WorkingFile::replace and its private Staging directory) and the caller *)
(* Core::apply_suggestion in comments.rs, beside an editor that saves,     *)
(* removes, re-modes and moves the same file at any moment.                *)
(*                                                                         *)
(* The replacement never locks the checkout.  It opens the file without    *)
(* following links and compares it with the blob the suggestion was made   *)
(* on; stages the patched bytes in a directory of its own inside the Git   *)
(* metadata; CLAIMS whatever file has the name by a no-replace rename into *)
(* the staging directory; checks that the claimed file is the one it       *)
(* opened; INSTALLS the patched file, again without replacing; and only    *)
(* then unlinks the claimed original.  Every failure after the claim tries *)
(* to put the original back and otherwise leaves it in the staging         *)
(* directory, as a crash does.  The event SuggestionApplied is appended    *)
(* last.                                                                   *)
(*                                                                         *)
(* One action per system call (or run of calls between which nothing the   *)
(* others can see changes); the editor's actions interleave everywhere.    *)
(* A crash is a process crash: the order of fsyncs is not modelled.        *)
(***************************************************************************)
EXTENDS Naturals

CONSTANTS
    Suggestions,    \* the suggestions on this one path
    Contents,       \* what a file may hold
    Before,         \* Before[s]: the bytes of the blob suggestion s is anchored to
    After,          \* After[s]: those bytes with the patch of s applied
    MaxFile,        \* bound: files ever created
    MaxDir,         \* bound: directories that ever stand at the parent's path
    MaxAttempt,     \* bound: staging directories ever created
    MaxEdit         \* bound: steps of the editor

ASSUME SuggestionAssumption ==
    /\ MaxFile \in Nat \ {0}
    /\ MaxDir \in Nat \ {0}
    /\ MaxAttempt \in Nat
    /\ MaxEdit \in Nat
    /\ Contents # {}
    /\ Before \in [Suggestions -> Contents]
    /\ After \in [Suggestions -> Contents]

File == 1..MaxFile          \* inode numbers
NoFile == 0                 \* ENOENT
Name == 0..MaxFile          \* what a directory entry may refer to
Dir == 1..MaxDir
Attempt == 1..MaxAttempt

(* What fstat says of a file: its permission bits, or that it has more      *)
(* than one link (or is no regular file), which makes it ineligible.        *)
Meta == {"plain", "exec", "linked"}

VARIABLES
    bytes,      \* [File -> Contents]
    meta,       \* [File -> Meta]
    fresh,      \* the next unused file; the files below it exist or existed
    dir,        \* [Dir -> Name]: the file at the suggestion's name in each directory
    here,       \* the directory that stands at the parent's path now
    original,   \* [Attempt -> Name]: the entry "original" of each staging directory
    proposed,   \* [Attempt -> Name]: its entry "proposed"
    staged,     \* the staging directories that exist
    attempt,    \* the number of staging directories created so far
    pc,         \* the next step of apply_suggestion; "idle" between two applications
    job,        \* the application's locals: suggestion, parent, opened file, its mode
    receipts,   \* the suggestions with a SuggestionApplied event
    fd,         \* the file the editor has open, or NoFile
    edits,      \* steps the editor has taken
    late,       \* ghost: files written through fd when they had no name in the checkout
    left,       \* ghost: [Dir -> Name], the file that should be found in each directory
    crashed,    \* ghost: the attempts a crash cut short
    placed      \* ghost: the attempts whose patched file was installed

editorVars == <<fd, edits, late, left>>
diskVars == <<bytes, meta, fresh, dir, here>>
stageVars == <<original, proposed, staged, attempt>>
vars == <<bytes, meta, fresh, dir, here, original, proposed, staged, attempt,
          pc, job, receipts, fd, edits, late, left, crashed, placed>>

Steps == {"idle", "read", "verify", "current", "stage", "claim", "check",
          "reverify", "install", "unverify", "restore", "installed", "unlink",
          "drop", "append"}

(* The steps during which the local `stage` is alive.                       *)
Staging == {"claim", "check", "reverify", "install", "unverify", "restore",
            "installed", "unlink", "drop"}

Job == [s : Suggestions, parent : Dir, file : File, mode : Meta, ok : BOOLEAN]

Init ==
    /\ \E c \in Contents : bytes = [i \in File |-> c]
    /\ meta = [i \in File |-> "plain"]
    /\ fresh = 2
    /\ dir = [d \in Dir |-> IF d = 1 THEN 1 ELSE NoFile]
    /\ here = 1
    /\ original = [a \in Attempt |-> NoFile]
    /\ proposed = [a \in Attempt |-> NoFile]
    /\ staged = {}
    /\ attempt = 0
    /\ pc = "idle"
    /\ job \in [s : Suggestions, parent : {1}, file : {1}, mode : {"plain"},
                ok : {FALSE}]
    /\ receipts = {}
    /\ fd = NoFile
    /\ edits = 0
    /\ late = {}
    /\ left = dir
    /\ crashed = {}
    /\ placed = {}

-----------------------------------------------------------------------------
(* The application.                                                         *)

Goto(step) ==
    /\ pc' = step
    /\ UNCHANGED <<receipts, crashed, placed>>

(* The exit of replace_with: the value it returns and the drop of `stage`.  *)
Exit(ok) ==
    /\ pc' = "drop"
    /\ job' = [s |-> job.s, parent |-> job.parent, file |-> job.file,
               mode |-> job.mode, ok |-> ok]
    /\ UNCHANGED <<receipts, crashed, placed>>

(* WorkingFile::open succeeds on a regular, singly linked file only.        *)
Openable ==
    /\ dir[here] # NoFile
    /\ meta[dir[here]] # "linked"

(* apply_suggestion refuses a suggestion with a receipt, then opens the     *)
(* file (WorkingFile::open): whatever regular, singly linked file has the   *)
(* name now, under the directory that stands at the parent's path now.      *)
(* Any other case returns an error and changes nothing.                     *)
Open(s) ==
    /\ pc = "idle"
    /\ s \notin receipts
    /\ Openable
    /\ job' = [s |-> s, parent |-> here, file |-> dir[here],
               mode |-> meta[dir[here]], ok |-> FALSE]
    /\ Goto("read")
    /\ UNCHANGED <<diskVars, stageVars, editorVars>>

(* file.read() against the blob the suggestion is anchored to.              *)
Read ==
    /\ pc = "read"
    /\ Goto(IF bytes[job.file] = Before[job.s] THEN "verify" ELSE "idle")
    /\ UNCHANGED <<diskVars, stageVars, editorVars, job>>

(* verify_parent: the path still leads to the directory that was opened.    *)
ParentUnchanged == here = job.parent

(* Mutant of IsReviewed: equal bytes are taken for the same file.           *)
IsReviewedByBytes(i) ==
    /\ meta[i] # "linked"
    /\ bytes[i] = Before[job.s]

(* What verify_current and the check of the claimed file have in common:    *)
(* file i is the one opened, with its link count, mode and expected bytes.  *)
IsReviewed(i) ==
    /\ i = job.file
    /\ meta[i] = job.mode
    /\ meta[i] # "linked"
    /\ bytes[i] = Before[job.s]

Verify ==
    /\ pc = "verify"
    /\ Goto(IF ParentUnchanged THEN "current" ELSE "idle")
    /\ UNCHANGED <<diskVars, stageVars, editorVars, job>>

VerifyCurrent ==
    /\ pc = "current"
    /\ LET i == dir[job.parent]
       IN  Goto(IF i # NoFile /\ IsReviewed(i) THEN "stage" ELSE "idle")
    /\ UNCHANGED <<diskVars, stageVars, editorVars, job>>

(* Staging::create: a directory with the patched bytes, under the mode the  *)
(* opened file had.                                                         *)
Stage ==
    /\ pc = "stage"
    /\ attempt < MaxAttempt
    /\ fresh \in File
    /\ attempt' = attempt + 1
    /\ staged' = staged \cup {attempt + 1}
    /\ bytes' = [bytes EXCEPT ![fresh] = After[job.s]]
    /\ meta' = [meta EXCEPT ![fresh] = job.mode]
    /\ proposed' = [proposed EXCEPT ![attempt + 1] = fresh]
    /\ fresh' = fresh + 1
    /\ Goto("claim")
    /\ UNCHANGED <<dir, here, original, editorVars, job>>

(* Staging::create fails: the temporary directory removes itself.           *)
StageFails ==
    /\ pc = "stage"
    /\ Goto("idle")
    /\ UNCHANGED <<diskVars, stageVars, editorVars, job>>

(* The claim takes whatever file has the name; without one it fails.        *)
Claim ==
    /\ pc = "claim"
    /\ dir[job.parent] # NoFile
    /\ original' = [original EXCEPT ![attempt] = dir[job.parent]]
    /\ dir' = [dir EXCEPT ![job.parent] = NoFile]
    /\ Goto("check")
    /\ UNCHANGED <<bytes, meta, fresh, here, proposed, staged, attempt,
                   editorVars, job>>

ClaimFails ==
    /\ pc = "claim"
    /\ Exit(FALSE)
    /\ UNCHANGED <<diskVars, stageVars, editorVars>>

(* The claimed file must be the reviewed one.                               *)
Check ==
    /\ pc = "check"
    /\ IsReviewed(original[attempt])
    /\ Goto("reverify")
    /\ UNCHANGED <<diskVars, stageVars, editorVars, job>>

(* It is not, or a system call on the way (sync, open, read) failed.        *)
CheckFails ==
    /\ pc = "check"
    /\ Goto("unverify")
    /\ UNCHANGED <<diskVars, stageVars, editorVars, job>>

Reverify ==
    /\ pc = "reverify"
    /\ Goto(IF ParentUnchanged THEN "install" ELSE "unverify")
    /\ UNCHANGED <<diskVars, stageVars, editorVars, job>>

(* Mutant of Install: an ordinary rename, which replaces.                   *)
InstallReplacing ==
    /\ pc = "install"
    /\ dir' = [dir EXCEPT ![job.parent] = proposed[attempt]]
    /\ proposed' = [proposed EXCEPT ![attempt] = NoFile]
    /\ left' = [left EXCEPT ![job.parent] = proposed[attempt]]
    /\ placed' = placed \cup {attempt}
    /\ pc' = "installed"
    /\ UNCHANGED <<bytes, meta, fresh, here, original, staged, attempt, fd, edits,
                   late, job, receipts, crashed>>

(* The no-replace rename of the patched file to the checkout's name.        *)
Install ==
    /\ pc = "install"
    /\ dir[job.parent] = NoFile
    /\ dir' = [dir EXCEPT ![job.parent] = proposed[attempt]]
    /\ proposed' = [proposed EXCEPT ![attempt] = NoFile]
    /\ left' = [left EXCEPT ![job.parent] = proposed[attempt]]
    /\ placed' = placed \cup {attempt}
    /\ pc' = "installed"
    /\ UNCHANGED <<bytes, meta, fresh, here, original, staged, attempt, fd, edits,
                   late, job, receipts, crashed>>

(* Another file has taken the name, or the rename failed.                   *)
InstallFails ==
    /\ pc = "install"
    /\ Goto("unverify")
    /\ UNCHANGED <<diskVars, stageVars, editorVars, job>>

(* The error path after a claim restores the original only under an         *)
(* unchanged parent and without replacing anything; otherwise the staging   *)
(* directory keeps both files (recovery_error).                             *)
Unverify ==
    /\ pc = "unverify"
    /\ \/ /\ ParentUnchanged
          /\ Goto("restore")
          /\ UNCHANGED job
       \/ /\ ~ ParentUnchanged
          /\ Exit(FALSE)
    /\ UNCHANGED <<diskVars, stageVars, editorVars>>

Restore ==
    /\ pc = "restore"
    /\ dir[job.parent] = NoFile
    /\ dir' = [dir EXCEPT ![job.parent] = original[attempt]]
    /\ original' = [original EXCEPT ![attempt] = NoFile]
    /\ left' = [left EXCEPT ![job.parent] = original[attempt]]
    /\ Exit(FALSE)
    /\ UNCHANGED <<bytes, meta, fresh, here, proposed, staged, attempt, fd, edits,
                   late>>

RestoreFails ==
    /\ pc = "restore"
    /\ Exit(FALSE)
    /\ UNCHANGED <<diskVars, stageVars, editorVars>>

(* After the installation both directories are synced; a failure keeps the  *)
(* original as evidence.                                                    *)
Installed ==
    /\ pc = "installed"
    /\ \/ /\ Goto("unlink")
          /\ UNCHANGED job
       \/ Exit(FALSE)
    /\ UNCHANGED <<diskVars, stageVars, editorVars>>

(* The replaced original loses its last name.  The final sync may fail,     *)
(* which returns an error for a replacement that is complete.               *)
Unlink ==
    /\ pc = "unlink"
    /\ original' = [original EXCEPT ![attempt] = NoFile]
    /\ \E ok \in BOOLEAN : Exit(ok)
    /\ UNCHANGED <<diskVars, proposed, staged, attempt, editorVars>>

UnlinkFails ==
    /\ pc = "unlink"
    /\ Exit(FALSE)
    /\ UNCHANGED <<diskVars, stageVars, editorVars>>

(* Mutant of Drop: the ordinary destructor of a temporary directory.        *)
DropAlways ==
    /\ pc = "drop"
    /\ staged' = staged \ {attempt}
    /\ proposed' = [proposed EXCEPT ![attempt] = NoFile]
    /\ Goto(IF job.ok THEN "append" ELSE "idle")
    /\ UNCHANGED <<diskVars, original, attempt, editorVars, job>>

(* Drop for Staging: a directory with an `original` in it is left alone.    *)
Drop ==
    /\ pc = "drop"
    /\ \/ /\ original[attempt] # NoFile
          /\ UNCHANGED <<proposed, staged>>
       \/ /\ original[attempt] = NoFile
          /\ staged' = staged \ {attempt}
          /\ proposed' = [proposed EXCEPT ![attempt] = NoFile]
    /\ Goto(IF job.ok THEN "append" ELSE "idle")
    /\ UNCHANGED <<diskVars, original, attempt, editorVars, job>>

(* The event is appended after everything; the store may refuse it.         *)
AppendApplied ==
    /\ pc = "append"
    /\ pc' = "idle"
    /\ receipts' \in {receipts, receipts \cup {job.s}}
    /\ UNCHANGED <<diskVars, stageVars, editorVars, job, crashed, placed>>

(* A panic unwinds through Drop, whatever step it interrupts.               *)
Unwind ==
    /\ pc \in Staging \ {"drop"}
    /\ Exit(FALSE)
    /\ UNCHANGED <<diskVars, stageVars, editorVars>>

(* The process dies; what is on disk stays.  The next daemon starts idle.   *)
Crash ==
    /\ pc # "idle"
    /\ pc' = "idle"
    /\ crashed' = IF pc \in Staging THEN crashed \cup {attempt} ELSE crashed
    /\ UNCHANGED <<diskVars, stageVars, editorVars, job, receipts, placed>>

-----------------------------------------------------------------------------
(* The editor: any other program that works on the checkout.                *)

programVars == <<original, proposed, staged, attempt, pc, job, receipts, crashed,
                 placed>>

Edit ==
    /\ edits < MaxEdit
    /\ edits' = edits + 1
    /\ UNCHANGED programVars

(* A save by rename, which also creates a file that is not there.           *)
Save(c) ==
    /\ Edit
    /\ fresh \in File
    /\ bytes' = [bytes EXCEPT ![fresh] = c]
    /\ meta' = [meta EXCEPT ![fresh] = "plain"]
    /\ dir' = [dir EXCEPT ![here] = fresh]
    /\ fresh' = fresh + 1
    /\ left' = [left EXCEPT ![here] = fresh]
    /\ UNCHANGED <<here, fd, late>>

Remove ==
    /\ Edit
    /\ dir[here] # NoFile
    /\ dir' = [dir EXCEPT ![here] = NoFile]
    /\ left' = [left EXCEPT ![here] = NoFile]
    /\ UNCHANGED <<bytes, meta, fresh, here, fd, late>>

(* chmod, or a second hard link.                                            *)
SetMeta(m) ==
    /\ Edit
    /\ dir[here] # NoFile
    /\ meta' = [meta EXCEPT ![dir[here]] = m]
    /\ UNCHANGED <<bytes, fresh, dir, here, fd, late, left>>

(* A save in place is an open followed by a write, which may come much      *)
(* later, when the file has lost its name.                                  *)
OpenFile ==
    /\ Edit
    /\ dir[here] # NoFile
    /\ fd' = dir[here]
    /\ UNCHANGED <<diskVars, late, left>>

WriteFile(c) ==
    /\ Edit
    /\ fd # NoFile
    /\ bytes' = [bytes EXCEPT ![fd] = c]
    /\ late' = IF \E d \in Dir : dir[d] = fd THEN late ELSE late \cup {fd}
    /\ UNCHANGED <<meta, fresh, dir, here, fd, left>>

(* The parent (or the checkout) is renamed away and another directory       *)
(* stands at its path.                                                      *)
MoveParent(d) ==
    /\ Edit
    /\ d # here
    /\ here' = d
    /\ UNCHANGED <<bytes, meta, fresh, dir, fd, late, left>>

-----------------------------------------------------------------------------

Apply ==
    \/ \E s \in Suggestions : Open(s)
    \/ Read \/ Verify \/ VerifyCurrent \/ Stage \/ StageFails
    \/ Claim \/ ClaimFails \/ Check \/ CheckFails \/ Reverify
    \/ Install \/ InstallFails \/ Unverify \/ Restore \/ RestoreFails
    \/ Installed \/ Unlink \/ UnlinkFails \/ Drop \/ AppendApplied
    \/ Unwind

Editor ==
    \/ \E c \in Contents : Save(c) \/ WriteFile(c)
    \/ \E m \in Meta : SetMeta(m)
    \/ Remove \/ OpenFile
    \/ \E d \in Dir : MoveParent(d)

Next == Apply \/ Crash \/ Editor

Spec == Init /\ [][Next]_vars

-----------------------------------------------------------------------------
(* Properties.                                                              *)

(* The state stays within its types.                                        *)
SuggestionTypeOK ==
    /\ bytes \in [File -> Contents]
    /\ meta \in [File -> Meta]
    /\ fresh \in 2..(MaxFile + 1)
    /\ dir \in [Dir -> Name]
    /\ here \in Dir
    /\ original \in [Attempt -> Name]
    /\ proposed \in [Attempt -> Name]
    /\ staged \subseteq 1..attempt
    /\ attempt \in 0..MaxAttempt
    /\ pc \in Steps
    /\ job \in Job
    /\ receipts \subseteq Suggestions
    /\ fd \in Name
    /\ edits \in 0..MaxEdit
    /\ late \subseteq File
    /\ left \in [Dir -> Name]
    /\ crashed \subseteq 1..attempt
    /\ placed \subseteq 1..attempt

(* A file that somebody can still reach: by the suggestion's name in one of *)
(* the directories, or in a staging directory that exists.                  *)
Reachable(i) ==
    \/ \E d \in Dir : dir[d] = i
    \/ \E a \in staged : original[a] = i \/ proposed[a] = i

KeepsBytesStep ==
    pc' # pc =>
      \A i \in File :
         (Reachable(i) /\ ~ Reachable(i)') =>
             \/ pc = "drop" /\ i = proposed[attempt]
             \/ /\ pc = "unlink"
                /\ proposed[attempt] = NoFile
                /\ i = job.file
                /\ bytes[i] = Before[job.s] \/ i \in late

(* No step of the application, successful, failed, unwinding or crashing,   *)
(* takes the last name from a file, except from its own patched copy before *)
(* that is installed, and, once it is, from a file that still holds the     *)
(* bytes the suggestion was made on.  (Bytes written through a descriptor   *)
(* the editor opened before the claim are outside the promise.)             *)
KeepsBytes == [][KeepsBytesStep]_vars

(* The file a directory should have (the one the editor last left there, or *)
(* the patched file once it was installed) is there, or else is the         *)
(* `original` of a staging directory that exists, even after any number of  *)
(* failures and crashes: the interval without the file can be repaired.     *)
AbsentIsRecoverable ==
    \A d \in Dir :
        \/ dir[d] = left[d]
        \/ \E a \in staged : original[a] = left[d]

ReplacesReviewedStep ==
    \A a \in staged, d \in Dir :
      (proposed[a] # NoFile /\ dir'[d] = proposed[a]) =>
         /\ original[a] = job.file
         /\ meta[job.file] = meta[proposed[a]]
         /\ bytes[job.file] = Before[job.s] \/ job.file \in late

(* The patched file is put in the place of the file that was opened and     *)
(* compared, with that file's mode, and in the place of no other: a file    *)
(* saved meanwhile is never taken for it, even when its bytes are equal.    *)
ReplacesReviewed == [][ReplacesReviewedStep]_vars

ReceiptIsFinalStep ==
    /\ (pc = "install" /\ pc' = "installed") => job.s \notin receipts
    /\ \A s \in receipts' \ receipts :
         s = job.s /\ attempt \in placed /\ attempt \notin staged

(* A receipt is the last word on a suggestion: its patch is never put into  *)
(* the checkout again, however often the bytes return to the original ones, *)
(* and the receipt comes from an attempt whose patch was installed and whose *)
(* staging directory is gone.                                               *)
ReceiptIsFinal == [][ReceiptIsFinalStep]_vars

(* What an application leaves behind in the Git metadata is evidence: a     *)
(* staging directory outlives its attempt only while it holds an original,  *)
(* or because the process died.                                             *)
LeftoverIsEvidence ==
    pc = "idle" => \A a \in staged : original[a] # NoFile \/ a \in crashed

-----------------------------------------------------------------------------
(* The inductive invariant behind these properties.                         *)

(* The names that exist: three kinds of directory entry.                    *)
FilesExist ==
    /\ \A d \in Dir : dir[d] < fresh /\ left[d] < fresh
    /\ \A a \in Attempt : original[a] < fresh /\ proposed[a] < fresh

(* No file has two names, and a patched file is in a directory only once    *)
(* it was installed.                                                        *)
OneName ==
    /\ \A d, e \in Dir : dir[d] = dir[e] /\ dir[d] # NoFile => d = e
    /\ \A d, e \in Dir : left[d] = left[e] /\ left[d] # NoFile => d = e
    /\ \A a, b \in Attempt : original[a] = original[b] /\ original[a] # NoFile => a = b
    /\ \A a, b \in Attempt : proposed[a] = proposed[b] /\ proposed[a] # NoFile => a = b
    /\ \A d \in Dir, a \in Attempt :
          /\ dir[d] = original[a] => dir[d] = NoFile
          /\ dir[d] = proposed[a] => dir[d] = NoFile
          /\ left[d] = proposed[a] => left[d] = NoFile
    /\ \A a, b \in Attempt : original[a] = proposed[b] => original[a] = NoFile

(* Only staging directories that exist have entries.                        *)
NoStrayEntry ==
    \A a \in Attempt \ staged : original[a] = NoFile /\ proposed[a] = NoFile

(* A directory has the file it should have or none.                         *)
NothingForeign == \A d \in Dir : dir[d] # NoFile => dir[d] = left[d]

HoldsOriginal == {"check", "reverify", "install", "unverify", "restore",
                  "installed", "unlink"}
HoldsProposed == {"claim", "check", "reverify", "install"}
Reviewed == {"reverify", "install", "installed", "unlink"}

(* The staging directory at each step of the application.                   *)
StageShape ==
    /\ pc \in Staging => attempt \in staged
    /\ pc = "claim" => original[attempt] = NoFile
    /\ pc \in HoldsOriginal =>
          /\ original[attempt] # NoFile
          /\ \A d \in Dir \ {job.parent} : left[d] # original[attempt]
    /\ pc \in HoldsProposed =>
          /\ proposed[attempt] # NoFile
          /\ meta[proposed[attempt]] = job.mode
    /\ pc \in {"installed", "unlink"} =>
          /\ proposed[attempt] = NoFile
          /\ left[job.parent] # original[attempt]
    /\ pc = "drop" /\ job.ok => original[attempt] = NoFile /\ proposed[attempt] = NoFile
    /\ pc = "append" => attempt \notin staged
    /\ pc \in {"installed", "unlink", "append"} \/ (pc = "drop" /\ job.ok) =>
          attempt \in placed

(* Between the check and the unlink the claimed file is the reviewed one.   *)
ClaimedIsReviewed ==
    pc \in Reviewed =>
        /\ original[attempt] = job.file
        /\ meta[job.file] = job.mode
        /\ bytes[job.file] = Before[job.s] \/ job.file \in late

NotYetReceipted == pc # "idle" => job.s \notin receipts

EveryStageExplained ==
    \A a \in staged :
        original[a] # NoFile \/ a \in crashed \/ (a = attempt /\ pc \in Staging)

(* Every file has at most one name, the staging directory has the entries   *)
(* each step of replace_with counts on, and the claimed file stays the      *)
(* reviewed one until it is unlinked.                                       *)
SuggestionInv ==
    /\ SuggestionTypeOK
    /\ FilesExist
    /\ OneName
    /\ NoStrayEntry
    /\ NothingForeign
    /\ StageShape
    /\ ClaimedIsReviewed
    /\ NotYetReceipted
    /\ EveryStageExplained
    /\ AbsentIsRecoverable

=============================================================================
