---- MODULE MCRestart ----
(* The instance of Restart for TLC; Restart.cfg gives the constants.         *)
EXTENDS Restart
====
