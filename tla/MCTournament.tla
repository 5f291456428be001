---------------------------- MODULE MCTournament ----------------------------
(* Small tournaments for TLC: two rounds of two games between two engines.  *)
EXTENDS Tournament
=============================================================================
