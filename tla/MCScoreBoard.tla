---------------------------- MODULE MCScoreBoard ----------------------------
(* Instances of ScoreBoard for TLC: pairs of games with swapped colours,    *)
(* single games whose colours alternate by round, and pairs without a swap. *)
EXTENDS ScoreBoard

MCRounds == 0..(4 \div GamesPerRound - 1)
=============================================================================
