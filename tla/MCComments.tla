----------------------------- MODULE MCComments -----------------------------
(***************************************************************************)
(* The two things that happen to a comment after it is written: the tree   *)
(* moves under its anchor (Reanchor), and its suggestion is applied to the *)
(* checkout (SuggestionFile).  They share no state - an application reads  *)
(* the file and not the anchor - so a behaviour runs one of them and the   *)
(* other keeps still.                                                      *)
(***************************************************************************)
EXTENDS Reanchor, SuggestionFile

(* a and a2 have the anchored lines in common, x has lost them; Git takes   *)
(* a and x, but not a2 and x, for versions of one file.                     *)
MCMaps == {<<"a", "a2">>, <<"a2", "a">>}
MCSimilar == {<<b, b>> : b \in Blobs} \cup {<<"a", "x">>, <<"x", "a">>, <<"a", "a2">>, <<"a2", "a">>}
MCFirstTree == [p \in Paths |-> IF p = "p" THEN "a" ELSE NoBlob]

(* The suggestions s1 and s2 undo one another's edit.                       *)
MCBefore == [s \in Suggestions |-> IF s = "s2" THEN "b" ELSE "a"]
MCAfter == [s \in Suggestions |-> IF s = "s1" THEN "b" ELSE "a"]

-----------------------------------------------------------------------------
VARIABLE part   \* the part that runs

CommentsInit ==
  /\ part \in {"anchors", "suggestion"}
  /\ ReanchorInit
  /\ Init /\ (part = "anchors" => bytes[1] = "a" /\ job.s = "s1")

CommentsNext ==
  \/ part = "anchors" /\ ReanchorNext /\ UNCHANGED <<part, vars>>
  \/ part = "suggestion" /\ Next /\ UNCHANGED <<part, reanchorVars>>

CommentsSpec == CommentsInit /\ [][CommentsNext]_<<part, reanchorVars, vars>>

=============================================================================
