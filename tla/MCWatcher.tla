----------------------------- MODULE MCWatcher -----------------------------
(* Instances of Watcher for TLC.                                            *)
EXTENDS Watcher

CONSTANTS r1

(* Every review shows the working tree of the one repository.               *)
MCOneRepo == [v \in Reviews |-> {r1}]

=============================================================================
