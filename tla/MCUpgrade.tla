----------------------------- MODULE MCUpgrade -----------------------------
(* Instances of Upgrade for TLC.  Build 1 is serving and requests select    *)
(* build 2, a newer release, protocol and schema; launchers start build 3,  *)
(* which equals 2 in these and has other bytes.                             *)
EXTENDS Upgrade

Generation(b) == IF b = 1 THEN 1 ELSE 2
MCRelease == [b \in Builds |-> Generation(b)]
MCSchema == [b \in Builds |-> Generation(b)]
MCProtocol == [b \in Builds |-> Generation(b)]

MCBuild == [p \in Procs |-> IF p = First THEN 1 ELSE IF p \in Requests THEN 2 ELSE 3]

=============================================================================
