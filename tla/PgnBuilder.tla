----------------------------- MODULE PgnBuilder -----------------------------
(***************************************************************************)
(* What the files keep of a game: pgn::PgnBuilder and epd::EpdBuilder over *)
(* MatchData.  A game has a variant, the fen before the opening (its side  *)
(* to move, and whether it is the normal first position), the moves (which *)
(* of them are legal, and which of the book), and the result, termination  *)
(* and reason.  A move in the text has its place in the game, its number,  *)
(* its notation and its comments.  Headers that only name the game, and    *)
(* the line breaks, are left out.                                          *)
(***************************************************************************)
EXTENDS Integers, Sequences, FiniteSetsExt

\* getResultFromMatch
getResultFromMatch(result) ==
    CASE result["white"] = "WIN" -> "1-0"
      [] result["black"] = "WIN" -> "0-1"
      [] result["white"] = "DRAW" -> "1/2-1/2"
      [] OTHER -> "*"

convertMatchTermination ==
    [NORMAL |-> "normal", ADJUDICATION |-> "adjudication", DISCONNECT |-> "abandoned", TIMEOUT |-> "time forfeit",
     ILLEGAL_MOVE |-> "illegal move", INTERRUPT |-> "unterminated", None |-> ""]

\* addHeader: what is written under which condition.
Headers(game, min) ==
    LET value == [Result |-> getResultFromMatch(game.result), FEN |-> game.fen, Variant |-> "Chess960",
                  PlyCount |-> Len(game.moves), Termination |-> convertMatchTermination[game.termination]]
        added == [Result |-> TRUE, FEN |-> game.frc \/ ~game.fen.startpos, Variant |-> game.frc,
                  PlyCount |-> ~min, Termination |-> ~min /\ value.Termination # ""]
    IN  [name \in {n \in DOMAIN value : added[n]} |-> value[name]]

\* Faulty variant of move_number: it begins at 1 whoever is to move.
move_numberFromOne(game, i) == i

\* move_number when the i-th move is added: half-moves, with one more if black moves first.
move_number(game, i) == i + (IF game.fen.stm = "black" THEN 1 ELSE 0)

\* addMove: only the last move of the game gets the reason, unless it is of the book.
addMove(game, min, i) ==
    LET move == game.moves[i]
        dots == IF i = 1 /\ game.fen.stm = "black" THEN 3 ELSE 1
    IN  [ply |-> i,
         number |-> IF dots = 3 \/ move_number(game, i) % 2 = 1
                    THEN [full |-> (move_number(game, i) + 1) \div 2, dots |-> dots]
                    ELSE [full |-> 0, dots |-> 0],
         notation |-> IF move.legal THEN "san" ELSE "as sent",
         comment |-> CASE min -> << >>
                       [] ~min /\ move.book -> <<"book">>
                       [] OTHER -> <<"score">> \o (IF i = Len(game.moves) THEN <<game.reason>> ELSE << >>)]

\* The first illegal move of a game, or one more than it has.
FirstIllegal(moves) == Min({i \in DOMAIN moves : ~moves[i].legal} \cup {Len(moves) + 1})

\* PgnBuilder: the loop ends after an illegal move.
Pgn(game, min) ==
    [headers |-> Headers(game, min),
     text |-> [i \in 1..Min({FirstIllegal(game.moves), Len(game.moves)}) |-> addMove(game, min, i)],
     marker |-> getResultFromMatch(game.result)]

\* EpdBuilder: the position after the moves before an illegal one.
Epd(game) == [fen |-> game.fen, plies |-> FirstIllegal(game.moves) - 1]
=============================================================================
