----------------------------- MODULE PgnReader -----------------------------
(***************************************************************************)
(* pgn::PgnReader (pgn/pgn_reader.cpp): the opening a game of a PGN file   *)
(* gives.  A game is its FEN and its moves; san says whether parseSan       *)
(* knows the move on the board it is made on, over whether the game is     *)
(* over after it.  The side to move the reader stores with an opening is   *)
(* read nowhere and left out.                                              *)
(***************************************************************************)
EXTENDS Integers, Sequences, FiniteSetsExt

\* early_stop_: the move that cannot be read or that ends the game, and what follows, is not kept.
StopsAt(moves) == Min({i \in DOMAIN moves : ~moves[i].san \/ moves[i].over} \cup {Len(moves) + 1})

\* move() and endPgn(): the moves before that, and no more than the limit (-1: no limit).
PgnOpening(game, plies_limit) ==
    LET kept == StopsAt(game.moves) - 1
    IN  [fen |-> game.fen,
         moves |-> [i \in 1..(IF plies_limit = -1 THEN kept ELSE Min({kept, plies_limit})) |-> game.moves[i].move]]

\* getOpenings()
getOpenings(games, plies_limit) == [k \in DOMAIN games |-> PgnOpening(games[k], plies_limit)]
=============================================================================
