------------------------------ MODULE MCMatch ------------------------------
(* Match for TLC: one configuration for each kind of adjudication and each  *)
(* kind of clock, all with maxmoves, so that every game is finite.          *)
EXTENDS Match

CP(n) == [score |-> n, type |-> "CP"]
Mate(n) == [score |-> n, type |-> "MATE"]

NoResign == [enabled |-> FALSE, move_count |-> 1, score |-> 0, twosided |-> FALSE]
NoDraw == [enabled |-> FALSE, move_count |-> 1, score |-> 0, move_number |-> 0]
NoLimits == [increment |-> 0, fixed_time |-> 0, time |-> 0, moves |-> 0, timemargin |-> 0]
Both(l) == [color \in Colors |-> l]

Plain(moves) ==
    [resign |-> NoResign, draw |-> NoDraw, maxmoves |-> [enabled |-> TRUE, move_count |-> moves],
     fen |-> [stm |-> "white", startpos |-> TRUE], book |-> 0, frc |-> FALSE, min |-> FALSE,
     limits |-> Both(NoLimits), fullmove |-> 1, evaluations |-> {NoEvaluation}, times |-> {0}, zeroes |-> {FALSE}]

Resign(count, twosided, score) ==
    [Plain(2) EXCEPT !.resign = [enabled |-> TRUE, move_count |-> count, score |-> score, twosided |-> twosided],
                     !.evaluations = {CP(-2), CP(-1), CP(2), Mate(-1)}]

Draw(count, number) ==
    [Plain(3) EXCEPT !.draw = [enabled |-> TRUE, move_count |-> count, score |-> 1, move_number |-> number],
                     !.evaluations = {CP(-1), CP(2)}, !.zeroes = BOOLEAN]

Timed(moves, increment, margin) ==
    [Plain(3) EXCEPT !.limits = Both([NoLimits EXCEPT !.time = 3, !.moves = moves, !.increment = increment, !.timemargin = margin]),
                     !.times = {0, 3, 5}]

\* Black has no increment, so that the two clocks differ.
Uneven == [Timed(0, 1, 1) EXCEPT !.limits["black"].increment = 0]

Fixed == [Plain(2) EXCEPT !.limits = Both([NoLimits EXCEPT !.fixed_time = 2, !.timemargin = 1]), !.times = 0..4]

\* No moves are asked for, of a player who resigns, of a draw, or of a game.
NoMoves(count) == [Draw(count, 2) EXCEPT !.maxmoves.move_count = 1]

\* From a position with either side to move; and from the first one, with and without moves of a book.
Position(stm) == [stm |-> stm, startpos |-> FALSE]
FromEither(c) == {[c EXCEPT !.fen = Position(stm)] : stm \in Colors}

MCConfigs ==
    UNION {FromEither(c) : c \in {Resign(2, FALSE, 2), Resign(1, TRUE, 2), Draw(2, 0), Draw(1, 2),
                                  Uneven, Timed(2, 0, 0), Fixed}} \cup
    {Resign(0, FALSE, 2), Resign(-1, TRUE, 0), Resign(2, FALSE, 0), NoMoves(0), NoMoves(-1), Plain(0), Plain(-1)} \cup
    {[Fixed EXCEPT !.book = 3, !.frc = TRUE], [Plain(2) EXCEPT !.book = 2, !.min = TRUE],
     [Plain(2) EXCEPT !.fen = Position("black"), !.book = 1]}
=============================================================================
