------------------------------- MODULE Match -------------------------------
(***************************************************************************)
(* One game between two engines (matchmaking/match): the order of checks in *)
(* Match::start and playMove, the clocks, the adjudication trackers, and    *)
(* the verdict.  The board is what the code asks of it: whose move it is,   *)
(* the number of full moves, whether the last move was a capture or a pawn  *)
(* move, and a game end that may come at any time.  What the engines answer *)
(* is chosen step by step; UciEngine says how they come to it.              *)
(***************************************************************************)
EXTENDS TimeControl, PgnBuilder, PgnReader, Sequences, FiniteSets, SequencesExt, Folds

CONSTANTS Configs   \* the configurations: resign, draw and maxmoves adjudication, the limits of each player,
                    \* the opening (its fen, and how many moves the book plays on it), the variant, pgn.min,
                    \* the full move number after the opening, and the inputs: the evaluations, the times of
                    \* moves, and whether moves may be captures or pawn moves

Colors == {"white", "black"}
Other(color) == IF color = "white" THEN "black" ELSE "white"

Evaluation == [score : Int, type : {"CP", "MATE", "ERR"}]
NoEvaluation == [score |-> 0, type |-> "ERR"]

ASSUME MatchAssumption ==
    \A c \in Configs :
        /\ c.limits \in [Colors -> LimitSet]
        /\ c.fen \in [stm : Colors, startpos : BOOLEAN] /\ c.book \in Nat /\ c.fullmove \in Nat \ {0}
        /\ c.frc \in BOOLEAN /\ c.min \in BOOLEAN
        /\ c.evaluations \subseteq Evaluation /\ c.times \subseteq Nat /\ c.zeroes \subseteq BOOLEAN
        /\ c.resign.move_count \in Int /\ c.resign.score \in Nat
        /\ c.draw.move_count \in Int /\ c.draw.score \in Nat /\ c.draw.move_number \in Nat
        /\ c.maxmoves.move_count \in Int
        /\ c.fen.stm = "black" => ~c.fen.startpos
        /\ \A color \in Colors : c.limits[color].fixed_time # 0 => c.limits[color].time + c.limits[color].increment = 0

VARIABLES config,     \* config::TournamentConfig, and config_.limit.tc of the engines
          pc,         \* where Match::start is
          turn,       \* board_.sideToMove()
          fullmove,   \* board_.fullMoveNumber()
          clock,      \* time_control_ of each player
          output,     \* the evaluation in each engine's output_: lastScore and lastScoreType
          draw_moves, resign_moves, max_moves,   \* the trackers; resign_moves: both, and each colour
          result,     \* result of each player
          termination, reason, crash,            \* data_, crash_or_disconnect_
          stop,       \* atomic::stop
          played      \* history: the moves made, each with its player, evaluation, time, and whether it zeroes

trackers == <<draw_moves, resign_moves, max_moves>>
data == <<result, termination, reason, crash>>
vars == <<config, pc, turn, fullmove, clock, output, trackers, data, stop, played>>

Abs(n) == IF n < 0 THEN -n ELSE n

\* What the code calls us is the player to move, and them the one who moved last.
us == turn
them == Other(turn)

-----------------------------------------------------------------------------
(* The trackers.                                                           *)

\* DrawTracker::update
DrawUpdate(e, zeroes) ==
    LET before == IF zeroes THEN 0 ELSE draw_moves IN
    IF config.draw.move_count <= 0 THEN before
    ELSE IF Abs(e.score) <= config.draw.score /\ e.type = "CP" THEN before + 1 ELSE 0

\* Faulty variant of adjudicatable: the moves of one player are enough.
adjudicatableHalf == fullmove - 1 >= config.draw.move_number /\ draw_moves >= config.draw.move_count

\* DrawTracker::adjudicatable(board_.fullMoveNumber() - 1)
adjudicatable == fullmove - 1 >= config.draw.move_number /\ draw_moves >= config.draw.move_count * 2

\* A score that counts for resignation, of either side, or of the loser alone.
Decided(e) == e.type = "MATE" \/ (e.type = "CP" /\ Abs(e.score) >= config.resign.score)
Lost(e) == (e.type = "CP" /\ e.score <= -config.resign.score) \/ (e.type = "MATE" /\ e.score < 0)

\* Faulty variant of ResignUpdate: a better score does not reset the count.
ResignUpdateNoReset(e, mover) ==
    IF config.resign.twosided
    THEN [resign_moves EXCEPT !.both = IF Decided(e) THEN @ + 1 ELSE @]
    ELSE [resign_moves EXCEPT ![mover] = IF Lost(e) THEN @ + 1 ELSE @]

\* ResignTracker::update
ResignUpdate(e, mover) ==
    IF config.resign.twosided
    THEN [resign_moves EXCEPT !.both = IF Decided(e) THEN @ + 1 ELSE 0]
    ELSE [resign_moves EXCEPT ![mover] = IF Lost(e) THEN @ + 1 ELSE 0]

\* ResignTracker::resignable
resignable ==
    IF config.resign.twosided
    THEN resign_moves["both"] >= config.resign.move_count * 2
    ELSE \E color \in Colors : resign_moves[color] >= config.resign.move_count

\* MaxMovesTracker::maxmovesreached
maxmovesreached == max_moves >= config.maxmoves.move_count * 2

-----------------------------------------------------------------------------
(* Match::start and playMove.                                              *)

\* The game is over with this verdict.
End(loser, kind, why) ==
    /\ pc' = "over"
    /\ result' = IF loser = "none" THEN [color \in Colors |-> "DRAW"]
                 ELSE [color \in Colors |-> IF color = loser THEN "LOSE" ELSE "WIN"]
    /\ termination' = kind
    /\ reason' = why
    /\ UNCHANGED <<config, turn, fullmove, stop>>

\* An engine does not start: the tournament stops, and there is no verdict.
StartFails ==
    /\ pc = "start"
    /\ pc' = "over"
    /\ stop' = TRUE
    /\ UNCHANGED <<config, turn, fullmove, clock, output, trackers, data, played>>

\* Both engines start, or the flag is set after the first.
Started ==
    /\ pc = "start"
    /\ \/ pc' = "loop"
       \/ stop /\ pc' = "over"
    /\ UNCHANGED <<config, turn, fullmove, clock, output, trackers, data, stop, played>>

\* The loop: the stop flag is looked at before each move.
Interrupt ==
    /\ pc = "loop"
    /\ stop
    /\ pc' = "over"
    /\ termination' = "INTERRUPT"
    /\ UNCHANGED <<config, turn, fullmove, clock, output, trackers, result, reason, crash, stop, played>>

Continue ==
    /\ pc = "loop"
    /\ ~stop
    /\ pc' = "play"
    /\ UNCHANGED <<config, turn, fullmove, clock, output, trackers, data, stop, played>>

\* isGameOver: the player to move is mated, and the reason names the other; or the game is drawn.
GameOver ==
    /\ pc = "play"
    /\ \/ End(us, "NORMAL", [color |-> them, message |-> "mates"])
       \/ End("none", "NORMAL", [color |-> "none", message |-> "draw"])
    /\ UNCHANGED <<clock, output, trackers, crash, played>>

\* adjudicate(them, us): the player who moved last resigns.
Resigns == config.resign.enabled /\ resignable /\ output[them].score < 0
Draws == (config.draw.enabled /\ adjudicatable) \/ (config.maxmoves.enabled /\ maxmovesreached)

\* Faulty variant of AdjudicateResign: the player to move loses.
AdjudicateResignWrong ==
    /\ pc = "play"
    /\ Resigns
    /\ End(us, "ADJUDICATION", [color |-> us, message |-> "wins by adjudication"])
    /\ UNCHANGED <<clock, output, trackers, crash, played>>

AdjudicateResign ==
    /\ pc = "play"
    /\ Resigns
    /\ End(them, "ADJUDICATION", [color |-> us, message |-> "wins by adjudication"])
    /\ UNCHANGED <<clock, output, trackers, crash, played>>

\* Faulty variant of AdjudicateDraw: maxmoves is forgotten.
AdjudicateDrawTrackerOnly ==
    /\ pc = "play"
    /\ ~Resigns /\ config.draw.enabled /\ adjudicatable
    /\ End("none", "ADJUDICATION", [color |-> "none", message |-> "draw"])
    /\ UNCHANGED <<clock, output, trackers, crash, played>>

AdjudicateDraw ==
    /\ pc = "play"
    /\ ~Resigns /\ Draws
    /\ End("none", "ADJUDICATION", [color |-> "none", message |-> "draw"])
    /\ UNCHANGED <<clock, output, trackers, crash, played>>

\* isready, position, isready and go succeed.
Ask ==
    /\ pc = "play"
    /\ ~Resigns /\ ~Draws
    /\ pc' = "think"
    /\ UNCHANGED <<config, turn, fullmove, clock, output, trackers, data, stop, played>>

\* setEngineCrashStatus: one of them fails, or the ping after the search.
Disconnect ==
    /\ \/ pc = "play" /\ ~Resigns /\ ~Draws
       \/ pc = "think" /\ ~stop
    /\ End(us, "DISCONNECT", [color |-> us, message |-> "disconnects"])
    /\ crash' = TRUE
    /\ UNCHANGED <<clock, output, trackers, played>>

\* The flag is looked at again when the read of bestmove returns.
InterruptThink ==
    /\ pc = "think"
    /\ stop
    /\ pc' = "over"
    /\ termination' = "INTERRUPT"
    /\ UNCHANGED <<config, turn, fullmove, clock, output, trackers, result, reason, crash, stop, played>>

limits(color) == config.limits[color]
Late(elapsed) == Exceeded(limits(us), clock[us], elapsed)

\* addMoveData, and the clock: what every answer does.
Answer(e, elapsed, zeroes, legal) ==
    /\ pc = "think"
    /\ ~stop
    /\ clock' = [clock EXCEPT ![us] = updateTime(limits(us), @, elapsed)]
    /\ output' = [output EXCEPT ![us] = e]
    /\ played' = Append(played, [by |-> us, eval |-> e, elapsed |-> elapsed, zeroes |-> zeroes, legal |-> legal, book |-> FALSE])

\* No bestmove, or an illegal one: the clock decides only if there is none at all.
IllegalMove ==
    /\ \E e \in config.evaluations, elapsed \in config.times, none \in BOOLEAN :
         /\ Answer(e, elapsed, FALSE, FALSE)
         /\ none => ~Late(elapsed)
    /\ End(us, "ILLEGAL_MOVE", [color |-> us, message |-> "makes an illegal move"])
    /\ UNCHANGED <<trackers, crash>>

\* setEngineTimeoutStatus: no bestmove, or a legal one, after the time.
TimeForfeit ==
    /\ \E e \in config.evaluations, elapsed \in config.times, some \in BOOLEAN :
         Answer(e, elapsed, FALSE, some) /\ Late(elapsed)
    /\ End(us, "TIMEOUT", [color |-> us, message |-> "loses on time"])
    /\ UNCHANGED <<trackers, crash>>

\* A number in the output that std::stoi refuses: start catches the exception, and there is no verdict.
Throw ==
    /\ pc = "think"
    /\ ~stop
    /\ pc' = "over"
    /\ \E elapsed \in config.times : clock' = [clock EXCEPT ![us] = updateTime(limits(us), @, elapsed)]
    /\ UNCHANGED <<config, turn, fullmove, output, trackers, data, stop, played>>

\* board_.makeMove, and the trackers with the score of the player who moved.
MakeMove ==
    /\ \E e \in config.evaluations, elapsed \in config.times, zeroes \in config.zeroes :
         /\ Answer(e, elapsed, zeroes, TRUE)
         /\ ~Late(elapsed)
         /\ draw_moves' = DrawUpdate(e, zeroes)
         /\ resign_moves' = ResignUpdate(e, us)
    /\ max_moves' = max_moves + 1
    /\ turn' = them
    /\ fullmove' = IF turn = "black" THEN fullmove + 1 ELSE fullmove
    /\ pc' = "loop"
    /\ UNCHANGED <<config, data, stop>>

playMove ==
    \/ GameOver \/ AdjudicateResign \/ AdjudicateDraw \/ Ask \/ Disconnect \/ InterruptThink
    \/ IllegalMove \/ TimeForfeit \/ Throw \/ MakeMove

start == StartFails \/ Started \/ Interrupt \/ Continue \/ playMove

\* Another thread sets the flag.
Stop ==
    /\ ~stop /\ pc # "over"
    /\ stop' = TRUE
    /\ UNCHANGED <<config, pc, turn, fullmove, clock, output, trackers, data, played>>

\* The moves of the opening, which prepare makes on the board and puts in data_.moves.
BookMoves == [i \in 1..config.book |-> [legal |-> TRUE, book |-> TRUE]]

\* prepare: after the opening either side may be to move; the engines may still show a score of the last game.
Init ==
    /\ config \in Configs
    /\ pc = "start"
    /\ turn = IF config.book % 2 = 0 THEN config.fen.stm ELSE Other(config.fen.stm)
    /\ fullmove = config.fullmove
    /\ clock = [color \in Colors |-> Clock(config.limits[color])]
    /\ \E e \in {NoEvaluation} \cup config.evaluations : output = [color \in Colors |-> e]
    /\ draw_moves = 0 /\ max_moves = 0
    /\ resign_moves = [counter \in Colors \cup {"both"} |-> 0]
    /\ result = [color \in Colors |-> "NONE"]
    /\ termination = "None" /\ reason = [color |-> "none", message |-> ""]
    /\ crash = FALSE
    /\ stop = FALSE
    /\ played = << >>

Next == start \/ Stop

\* The steps of the thread that need neither an end on the board nor a failing engine.
Progress ==
    Started \/ Interrupt \/ Continue \/ AdjudicateResign \/ AdjudicateDraw \/ Ask \/ InterruptThink \/ MakeMove \/ TimeForfeit

\* The thread is scheduled, and a search ends with a move or with a timeout (UciEngine: SilenceLoses); the
\* board need not end the game.
Spec == Init /\ [][Next]_vars /\ WF_vars(Progress)

-----------------------------------------------------------------------------
\* Every variable has its type.
TypeOK ==
    /\ config \in Configs
    /\ pc \in {"start", "loop", "play", "think", "over"}
    /\ turn \in Colors
    /\ fullmove \in Nat
    /\ clock \in [Colors -> [time_left : Int, moves_left : Nat]]
    /\ output \in [Colors -> Evaluation]
    /\ draw_moves \in Nat /\ max_moves \in Nat
    /\ resign_moves \in [Colors \cup {"both"} -> Nat]
    /\ result \in [Colors -> {"NONE", "WIN", "LOSE", "DRAW"}]
    /\ termination \in {"None", "NORMAL", "ADJUDICATION", "TIMEOUT", "DISCONNECT", "ILLEGAL_MOVE", "INTERRUPT"}
    /\ crash \in BOOLEAN
    /\ stop \in BOOLEAN

\* The last n of a sequence.
LastMoves(moves, n) == SubSeq(moves, Len(moves) - n + 1, Len(moves))

Verdict == pc = "over" /\ termination \notin {"None", "INTERRUPT"}
Loser(color) == result[color] = "LOSE" /\ result[Other(color)] = "WIN"

\* The result of both players, the sentence of the reason, the termination and the crash flag tell one
\* story, whichever colour was to move after the opening: who is said to win has won, who is said to
\* have failed has lost, and it was that player's move.
VerdictAgrees ==
    /\ Verdict =>
         /\ \/ reason.message \in {"mates", "wins by adjudication"} /\ Loser(Other(reason.color))
            \/ /\ reason.message \in {"makes an illegal move", "loses on time", "disconnects"}
               /\ Loser(reason.color) /\ reason.color = turn
            \/ reason.message = "draw" /\ result = [color \in Colors |-> "DRAW"]
         /\ termination \in {"ILLEGAL_MOVE", "TIMEOUT"} => Last(played).by = turn
         /\ termination = "NORMAL" /\ (\E color \in Colors : Loser(color)) => Loser(turn)
    /\ crash <=> termination = "DISCONNECT"
    /\ pc = "over" /\ ~Verdict => result = [color \in Colors |-> "NONE"]

\* So many moves of each player; a count of 0, or less, asks for none.
OfBoth(count) == Larger(0, 2 * count)

\* A player who is made to resign said so: the players took turns, it moved last and showed a losing
\* score, and in its last movecount moves, or with twosided in both players' last movecount moves, the
\* score was that bad.  Two exceptions are the code's: with the default score of 0 an even evaluation
\* counts, so that the moves that were counted may be the winner's; and a movecount of 0 or less, which
\* nothing refuses, asks for no moves: the first losing score is enough, before any move the one an
\* engine still shows of its last game.
ResignEarned ==
    (Verdict /\ reason.message = "wins by adjudication") =>
        \E loser \in Colors :
            /\ Loser(loser)
            /\ \A i \in 2..Len(played) : played[i].by = Other(played[i - 1].by)
            /\ IF played = << >> THEN config.resign.move_count <= 0
               ELSE Last(played).by = loser /\ Last(played).eval.score < 0
            /\ IF config.resign.twosided
               THEN /\ Len(played) >= OfBoth(config.resign.move_count)
                    /\ LET last == LastMoves(played, OfBoth(config.resign.move_count)) IN
                       \A i \in 1..OfBoth(config.resign.move_count) : Decided(last[i].eval)
               ELSE \E color \in Colors :
                       /\ config.resign.score > 0 => color = loser
                       /\ \A k \in 0..(config.resign.move_count - 1) :
                             LET own == Len(played) - 2 * k - (IF color = loser THEN 0 ELSE 1) IN
                             own >= 1 /\ played[own].by = color /\ Lost(played[own].eval)

\* A draw by adjudication is one of maxmoves at exactly that length, or both players' last movecount
\* evaluations were near zero, with no capture or pawn move but the first of them, after movenumber.
\* No game goes on beyond maxmoves.  (A count of 0 or less, which nothing refuses, asks for no moves.)
DrawEarned ==
    /\ config.maxmoves.enabled => Len(played) <= OfBoth(config.maxmoves.move_count)
    /\ (Verdict /\ termination = "ADJUDICATION" /\ reason.message = "draw") =>
         \/ config.maxmoves.enabled /\ Len(played) = OfBoth(config.maxmoves.move_count)
         \/ /\ config.draw.enabled
            /\ fullmove > config.draw.move_number
            /\ Len(played) >= OfBoth(config.draw.move_count)
            /\ LET n == OfBoth(config.draw.move_count)
                   last == LastMoves(played, n) IN
               \A i \in 1..n :
                   /\ last[i].eval.type = "CP" /\ Abs(last[i].eval.score) <= config.draw.score
                   /\ last[i].zeroes => i = 1

\* The sum of the first n amounts.
Total(amount, n) ==
    LET sum[i \in 0..n] == IF i = 0 THEN 0 ELSE sum[i - 1] + amount[i] IN sum[n]

\* What a player used in the first n moves of the game, and how many of them it made.
MadeBy(color) == {i \in DOMAIN played : played[i].by = color}
Used(color) == [i \in DOMAIN played |-> IF i \in MadeBy(color) THEN played[i].elapsed ELSE 0]
Spent(color, n) == Total(Used(color), n)
Moves(color, n) == Cardinality(MadeBy(color) \cap 1..n)

\* What it is given for k moves: the time of every control they are in, and the increments.
Given(l, k) == l.time * (IF l.moves = 0 THEN 1 ELSE 1 + (k - 1) \div l.moves) + l.increment * k
LastOfControl(l, k) == l.moves # 0 /\ k % l.moves = 0

Forfeits(color) == Verdict /\ termination = "TIMEOUT" /\ Loser(color)

\* A player loses on time only if it has used more than it was given for some number of moves, and a
\* player who has used more, and the margin in every move, does not play on.  One move is excepted, the
\* last of a control: the code pays for it with the time of the next control already (updateTime refills
\* the clock first), so that a player out of time in it plays on, though updateTime's caller, and the
\* manual, take such a player to have lost.
ClockFair ==
    \A color \in Colors :
        LET l == limits(color) IN
        IF l.fixed_time # 0
        THEN /\ Forfeits(color) => Last(played).by = color /\ Last(played).elapsed > l.fixed_time
             /\ result[color] # "LOSE" =>
                  \A n \in MadeBy(color) : played[n].elapsed <= l.fixed_time + l.timemargin
        ELSE /\ Forfeits(color) =>
                  \E n \in MadeBy(color) : Spent(color, n) > Given(l, Moves(color, n))
             /\ (result[color] # "LOSE" /\ ~Unlimited(l)) =>
                  \A n \in MadeBy(color) :
                      LET k == Moves(color, n) IN
                      LastOfControl(l, k) \/ Spent(color, n) <= Given(l, k) + l.timemargin * k

Score == INSTANCE Stats

\* Match::get(), and what playGame writes of it.
match_data ==
    [fen |-> config.fen, frc |-> config.frc, moves |-> BookMoves \o [i \in DOMAIN played |-> [legal |-> played[i].legal, book |-> FALSE]],
     result |-> result, termination |-> termination, reason |-> reason]
Written == pc = "over" /\ termination # "INTERRUPT" /\ ~stop

Record == Pgn(match_data, config.min)

\* For a reader who has nothing but the record: the position it begins with, and who is to move after
\* so many moves.
From == IF "FEN" \in DOMAIN Record.headers THEN Record.headers["FEN"] ELSE [stm |-> "white", startpos |-> TRUE]
ToMove(plies) == IF plies % 2 = 0 THEN From.stm ELSE Other(From.stm)

\* The text of the record as the reader of a later tournament's book finds it.
AsBook ==
    [fen |-> From,
     moves |-> [i \in DOMAIN Record.text |->
                   [move |-> Record.text[i].ply, san |-> Record.text[i].notation = "san",
                    over |-> i = Len(Record.text) /\ termination = "NORMAL"]]]

\* What is kept of a game tells what happened in it.  The text has every move, with the number of its
\* full move before each move of white and the first; whoever replays it knows from the termination who
\* failed (with a time forfeit or an illegal move who made the last move, else who is to move) or had to
\* resign, and the result says just that, as does the score board, which takes an unfinished game for a
\* draw; the EPD file has the position after the legal moves; and a book made of the game gives back
\* those moves, all but one that ended the game.  (Not of Chess960: the board of the reader is never
\* told the variant, and knows no castling from such a position.)
RecordAgrees ==
    Written =>
        LET text == Record.text
            legal == Cardinality({i \in DOMAIN text : text[i].notation = "san"})
            ended == IF Len(text) > 0 /\ termination = "NORMAL" THEN 1 ELSE 0
            Win(color) == IF color = "white" THEN "1-0" ELSE "0-1"
            next == ToMove(Len(text))
            told == CASE termination \in {"TIMEOUT", "ILLEGAL_MOVE"} -> {Win(next)}
                      [] termination = "DISCONNECT" -> {Win(Other(next))}
                      [] termination = "NORMAL" -> {Win(Other(next)), "1/2-1/2"}
                      [] termination = "ADJUDICATION" -> {Win(next), "1/2-1/2"}
                      [] OTHER -> {"*"}
            score == Score!FromMatch(result["white"])
        IN  /\ Len(text) = Len(match_data.moves)
            /\ \A i \in DOMAIN text :
                  text[i].number.full =
                      IF ToMove(i - 1) = "white" \/ i = 1
                      THEN 1 + Cardinality({k \in 1..(i - 1) : ToMove(k - 1) = "black"}) ELSE 0
            /\ Record.marker \in told
            /\ score.wins = 1 <=> Record.marker = "1-0"
            /\ score.losses = 1 <=> Record.marker = "0-1"
            /\ Epd(match_data) = [fen |-> From, plies |-> legal]
            /\ config.frc \/ PgnOpening(AsBook, -1) = [fen |-> config.fen, moves |-> [i \in 1..(legal - ended) |-> i]]

\* With maxmoves, or once the flag is set, every game ends.
EveryMatchEnds == (config.maxmoves.enabled \/ stop) ~> (pc = "over")

=============================================================================
