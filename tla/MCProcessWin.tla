---------------------------- MODULE MCProcessWin ----------------------------
(* ProcessWin for TLC: two reads, which is one after a restart.             *)
EXTENDS ProcessWin
=============================================================================
