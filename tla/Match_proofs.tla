---------------------------- MODULE Match_proofs ----------------------------
(***************************************************************************)
(* For any configurations: the result, the termination and the sentence of *)
(* the reason of a game agree; a player is made to resign, and a draw is   *)
(* given, only for what was really played, which the trackers no more than *)
(* count; no game is longer than maxmoves; and the clocks are fair.        *)
(* The inductive invariant says what the counters count: the moves at the  *)
(* end of the game that are good for a draw or bad enough to resign; of a  *)
(* clock it says that what is left and what was used is what was given.    *)
(***************************************************************************)
EXTENDS Match, SequenceTheorems, FiniteSetTheorems, FunctionTheorems, WellFoundedInduction, TLAPS

-----------------------------------------------------------------------------
(* The inductive invariant.                                                *)

Move == [by : Colors, eval : Evaluation, elapsed : Nat, zeroes : BOOLEAN, legal : BOOLEAN, book : BOOLEAN]

\* The types, and with moves= a clock always has moves left in its control.
Typed ==
    /\ TypeOK
    /\ \A color \in Colors : config.limits[color].moves # 0 => clock[color].moves_left # 0
    /\ played \in Seq(Move)

\* The trackers have seen every move that was made.
InStep == termination \notin {"ILLEGAL_MOVE", "TIMEOUT"}

\* There is no verdict before the game is over, and no game is adjudicated without a ground.
Untold == termination = "None" /\ reason.message = "" /\ result = [color \in Colors |-> "NONE"] /\ ~crash
Grounds ==
    /\ pc # "over" => Untold
    /\ <<termination, reason.message>> \in
          {<<"None", "">>, <<"INTERRUPT", "">>, <<"NORMAL", "mates">>, <<"NORMAL", "draw">>,
           <<"ADJUDICATION", "wins by adjudication">>, <<"ADJUDICATION", "draw">>, <<"TIMEOUT", "loses on time">>,
           <<"ILLEGAL_MOVE", "makes an illegal move">>, <<"DISCONNECT", "disconnects">>}
    /\ reason.message = "wins by adjudication" => termination = "ADJUDICATION" /\ Resigns /\ Loser(them)
    /\ (termination = "ADJUDICATION" /\ reason.message = "draw") => Draws

\* The players take turns, and an engine that loses by its answer gave it instead of its move.
TurnsTaken ==
    /\ \A i \in 2..Len(played) : played[i].by = Other(played[i - 1].by)
    /\ played # << >> => played[Len(played)].by = (IF InStep THEN them ELSE us)
    /\ ~InStep => played # << >>

\* Who is to move follows from the number of moves, and every move is legal but such an answer.
Plies == config.book + Len(played) - (IF InStep THEN 0 ELSE 1)
TurnKept == turn = (IF Plies % 2 = 0 THEN config.fen.stm ELSE Other(config.fen.stm))
LegalKept == \A i \in DOMAIN played : played[i].legal \/ (i = Len(played) /\ ~InStep)

\* Every move is counted, and the next one is asked for only if there may be one.
LimitKept ==
    /\ InStep => max_moves = Len(played)
    /\ config.maxmoves.enabled =>
         /\ Len(played) <= OfBoth(config.maxmoves.move_count)
         /\ pc = "think" => max_moves < 2 * config.maxmoves.move_count

\* The last draw_moves moves were near zero, and none of them zeroes but the first.
Near(e) == e.type = "CP" /\ Abs(e.score) <= config.draw.score
DrawKept ==
    InStep =>
        /\ draw_moves <= Len(played)
        /\ config.draw.move_count <= 0 => draw_moves = 0
        /\ \A i \in DOMAIN played : i > Len(played) - draw_moves =>
              Near(played[i].eval) /\ (played[i].zeroes => i = Len(played) - draw_moves + 1)

\* The place of the last move but k of a player.
Own(color, k) == Len(played) - (IF color = them THEN 0 ELSE 1) - 2 * k

\* The output of the player who moved last is the evaluation of that move.
Shown == (InStep /\ played # << >>) => output[them] = played[Len(played)].eval

\* Only one kind of moves is counted.
OneKind ==
    IF config.resign.twosided THEN \A color \in Colors : resign_moves[color] = 0 ELSE resign_moves["both"] = 0

\* With twosided, the last moves that are counted were decided, whoever made them.
BothKept ==
    InStep =>
        /\ resign_moves["both"] <= Len(played)
        /\ \A i \in DOMAIN played : i > Len(played) - resign_moves["both"] => Decided(played[i].eval)

\* Without, the last moves that are counted of each player were lost.
EachKept ==
    InStep =>
        \A color \in Colors : \A k \in 0..(resign_moves[color] - 1) :
            Own(color, k) >= 1 /\ played[Own(color, k)].by = color /\ Lost(played[Own(color, k)].eval)

\* A player whose count is reached does not get to move again, if there is anything to count.
Limited == config.resign.enabled /\ ~config.resign.twosided /\ config.resign.score > 0 /\ config.resign.move_count > 0
CountKept ==
    (InStep /\ Limited) =>
        /\ resign_moves[us] < config.resign.move_count
        /\ pc = "think" => resign_moves[them] < config.resign.move_count

Tracked == LimitKept /\ DrawKept /\ TurnsTaken /\ TurnKept /\ LegalKept /\ Shown /\ OneKind /\ BothKept /\ EachKept /\ CountKept
IInv == Typed /\ Grounds /\ VerdictAgrees /\ Tracked

-----------------------------------------------------------------------------
(* The kinds of steps.                                                     *)

\* What is played and counted stays.
Quiet ==
    /\ UNCHANGED <<config, turn, fullmove, output, trackers, played>>
    /\ InStep /\ InStep'
    /\ pc' = "think" => pc = "think" \/ (~Resigns /\ ~Draws)

\* An answer that is no move of the game.
Failed ==
    /\ pc = "think" /\ pc' = "over"
    /\ \E move \in Move : move.by = us /\ played' = Append(played, move)
    /\ termination' \in {"ILLEGAL_MOVE", "TIMEOUT"}
    /\ UNCHANGED <<config, turn, fullmove, trackers>>

\* A move.
Moved ==
    /\ pc = "think" /\ pc' = "loop"
    /\ \E move \in Move :
         /\ move.by = us /\ move.legal = TRUE /\ played' = Append(played, move)
         /\ output' = [output EXCEPT ![us] = move.eval]
         /\ draw_moves' = DrawUpdate(move.eval, move.zeroes)
         /\ resign_moves' = ResignUpdate(move.eval, us)
    /\ max_moves' = max_moves + 1
    /\ turn' = them
    /\ UNCHANGED <<config, data>>

LEMMA Facts ==
    ASSUME Typed
    PROVE  /\ config.limits \in [Colors -> LimitSet]
           /\ config.evaluations \subseteq Evaluation /\ config.times \subseteq Nat /\ config.zeroes \subseteq BOOLEAN
           /\ config.resign.move_count \in Int /\ config.resign.score \in Nat
           /\ config.draw.move_count \in Int /\ config.draw.score \in Nat /\ config.draw.move_number \in Nat
           /\ config.maxmoves.move_count \in Int
           /\ us \in Colors /\ them \in Colors /\ us # them /\ Other(them) = us
  BY MatchAssumption DEF Typed, TypeOK, us, them, Other, Colors

LEMMA GameFacts ==
    ASSUME Typed
    PROVE  /\ config.fen \in [stm : Colors, startpos : BOOLEAN] /\ (config.fen.stm = "black" => ~config.fen.startpos)
           /\ config.book \in Nat /\ config.frc \in BOOLEAN /\ config.min \in BOOLEAN
  BY MatchAssumption DEF Typed, TypeOK

LEMMA Steps ==
    ASSUME Typed, Grounds, Next
    PROVE  (pc # "over" /\ InStep) /\ (Quiet \/ Failed \/ Moved)
  <1> USE DEF trackers, data
  <1>0. pc # "over" => InStep /\ termination = "None"
    BY DEF Grounds, Untold, InStep
  <1>1. ASSUME StartFails \/ Started \/ Interrupt \/ Continue \/ Ask \/ InterruptThink \/ Throw \/ Stop
        PROVE  pc # "over" /\ Quiet
    BY <1>1, <1>0 DEF StartFails, Started, Interrupt, Continue, Ask, InterruptThink, Throw, Stop, Quiet, InStep
  <1>2. ASSUME GameOver \/ AdjudicateResign \/ AdjudicateDraw \/ Disconnect  PROVE pc # "over" /\ Quiet
    BY <1>2, <1>0 DEF GameOver, AdjudicateResign, AdjudicateDraw, Disconnect, End, Quiet, InStep
  <1>3. ASSUME NEW e \in config.evaluations, NEW elapsed \in config.times, NEW zeroes \in BOOLEAN, NEW legal \in BOOLEAN,
               Answer(e, elapsed, zeroes, legal)
        PROVE  /\ pc = "think"
               /\ \E move \in Move : /\ move.by = us /\ played' = Append(played, move) /\ move.legal = legal
                                     /\ move.eval = e /\ move.zeroes = zeroes
               /\ output' = [output EXCEPT ![us] = e]
    <2> DEFINE move == [by |-> us, eval |-> e, elapsed |-> elapsed, zeroes |-> zeroes, legal |-> legal, book |-> FALSE]
    <2>1. move \in Move /\ move.by = us /\ move.eval = e /\ move.zeroes = zeroes /\ move.legal = legal
      BY <1>3, Facts DEF Move
    <2>2. played' = Append(played, move)
      BY <1>3 DEF Answer
    <2> HIDE DEF move
    <2>3. QED  BY <1>3, <2>1, <2>2 DEF Answer
  <1>4. CASE IllegalMove
    <2>1. PICK e \in config.evaluations, elapsed \in config.times : Answer(e, elapsed, FALSE, FALSE)
      BY <1>4 DEF IllegalMove
    <2>2. pc = "think" /\ \E move \in Move : move.by = us /\ played' = Append(played, move)
      BY <2>1, <1>3
    <2>3. QED  BY <1>4, <2>2, <1>0 DEF IllegalMove, End, Failed
  <1>5. CASE TimeForfeit
    <2>1. PICK e \in config.evaluations, elapsed \in config.times, some \in BOOLEAN : Answer(e, elapsed, FALSE, some)
      BY <1>5 DEF TimeForfeit
    <2>2. pc = "think" /\ \E move \in Move : move.by = us /\ played' = Append(played, move)
      BY <2>1, <1>3
    <2>3. QED  BY <1>5, <2>2, <1>0 DEF TimeForfeit, End, Failed
  <1>6. CASE MakeMove
    <2>1. PICK e \in config.evaluations, elapsed \in config.times, zeroes \in config.zeroes :
              /\ Answer(e, elapsed, zeroes, TRUE)
              /\ draw_moves' = DrawUpdate(e, zeroes)
              /\ resign_moves' = ResignUpdate(e, us)
      BY <1>6 DEF MakeMove
    <2>2. zeroes \in BOOLEAN
      BY Facts
    <2> DEFINE legal == TRUE
    <2>3. Answer(e, elapsed, zeroes, legal) /\ legal \in BOOLEAN
      BY <2>1
    <2> HIDE DEF legal
    <2>4. /\ pc = "think"
          /\ \E move \in Move : /\ move.by = us /\ played' = Append(played, move) /\ move.legal = legal
                                /\ move.eval = e /\ move.zeroes = zeroes
          /\ output' = [output EXCEPT ![us] = e]
      BY <2>2, <2>3, <1>3
    <2>5. PICK move \in Move : /\ move.by = us /\ played' = Append(played, move) /\ move.legal = TRUE
                               /\ move.eval = e /\ move.zeroes = zeroes
      BY <2>4 DEF legal
    <2>6. /\ output' = [output EXCEPT ![us] = move.eval]
          /\ draw_moves' = DrawUpdate(move.eval, move.zeroes)
          /\ resign_moves' = ResignUpdate(move.eval, us)
      BY <2>1, <2>4, <2>5
    <2>7. pc = "think" /\ pc' = "loop" /\ max_moves' = max_moves + 1 /\ turn' = them /\ UNCHANGED <<config, data>>
      BY <1>6, <2>4 DEF MakeMove
    <2>8. Moved
      BY <2>5, <2>6, <2>7 DEF Moved
    <2>9. QED  BY <2>7, <2>8, <1>0
  <1>7. QED  BY <1>0, <1>1, <1>2, <1>4, <1>5, <1>6 DEF Next, start, playMove

-----------------------------------------------------------------------------
(* Types.                                                                  *)

LEMMA UpdateTyped ==
    ASSUME NEW l \in LimitSet, NEW c \in [time_left : Int, moves_left : Nat], l.moves # 0 => c.moves_left # 0,
           NEW elapsed \in Nat
    PROVE  /\ updateTime(l, c, elapsed) \in [time_left : Int, moves_left : Nat]
           /\ l.moves # 0 => updateTime(l, c, elapsed).moves_left # 0
  <1>1. /\ l.time \in Nat /\ l.moves \in Nat /\ l.increment \in Nat /\ l.fixed_time \in Nat /\ l.timemargin \in Nat
        /\ c.time_left \in Int /\ c.moves_left \in Nat
    BY DEF LimitSet
  <1> DEFINE counted == Counted(l, c)
  <1>2. counted \in [time_left : Int, moves_left : Nat] /\ (l.moves # 0 => counted.moves_left # 0)
    BY <1>1 DEF Counted
  <1> HIDE DEF counted
  <1>3. ASSUME NEW n \in Int
        PROVE  /\ [counted EXCEPT !.time_left = n] \in [time_left : Int, moves_left : Nat]
               /\ [counted EXCEPT !.time_left = n].moves_left = counted.moves_left
    BY <1>2
  <1>4. counted.time_left - elapsed \in Int
    BY <1>2
  <1>5. (IF l.fixed_time # 0 THEN l.fixed_time ELSE Larger(counted.time_left - elapsed, 0) + l.increment) \in Int
    BY <1>1, <1>4 DEF Larger
  <1>6. updateTime(l, c, elapsed) \in
            {counted, [counted EXCEPT !.time_left = counted.time_left - elapsed],
             [counted EXCEPT !.time_left = IF l.fixed_time # 0 THEN l.fixed_time
                                           ELSE Larger(counted.time_left - elapsed, 0) + l.increment]}
    BY DEF updateTime, counted
  <1>7. QED  BY <1>2, <1>3, <1>4, <1>5, <1>6

LEMMA TypedInit ==
    ASSUME Init
    PROVE  Typed
  <1>1. config \in Configs
    BY DEF Init
  <1>2. /\ config.limits \in [Colors -> LimitSet] /\ config.fullmove \in Nat \ {0} /\ config.fen.stm \in Colors
        /\ config.evaluations \subseteq Evaluation
    BY <1>1, MatchAssumption
  <1>3. turn \in Colors /\ fullmove \in Nat
    BY <1>2 DEF Init, Other, Colors
  <1>4. \A l \in LimitSet : Clock(l) \in [time_left : Int, moves_left : Nat] /\ Clock(l).moves_left = l.moves
    BY DEF Clock, LimitSet
  <1>5. /\ clock \in [Colors -> [time_left : Int, moves_left : Nat]]
        /\ \A color \in Colors : clock[color].moves_left = config.limits[color].moves
    <2>1. \A color \in Colors : config.limits[color] \in LimitSet
      BY <1>2
    <2>2. QED  BY <1>4, <2>1 DEF Init
  <1>6. output \in [Colors -> Evaluation]
    <2>1. NoEvaluation \in Evaluation
      BY DEF NoEvaluation, Evaluation
    <2>2. QED  BY <1>2, <2>1 DEF Init
  <1>7. /\ played \in Seq(Move)
        /\ resign_moves \in [Colors \cup {"both"} -> Nat]
        /\ result \in [Colors -> {"NONE", "WIN", "LOSE", "DRAW"}]
    <2>1. /\ played = << >> /\ resign_moves = [counter \in Colors \cup {"both"} |-> 0]
          /\ result = [color \in Colors |-> "NONE"]
      BY DEF Init
    <2>2. QED  BY <2>1
  <1>8. /\ draw_moves \in Nat /\ max_moves \in Nat /\ stop \in BOOLEAN /\ crash \in BOOLEAN
        /\ termination = "None" /\ pc = "start"
    BY DEF Init
  <1>9. QED  BY <1>1, <1>3, <1>5, <1>6, <1>7, <1>8 DEF Typed, TypeOK

\* What an action leaves alone keeps its type; the clock and the output of the player who answers keep theirs.
LEMMA TypedNext ==
    ASSUME Typed, Grounds, Next
    PROVE  Typed'
  <1> USE DEF trackers, data
  <1>1. /\ config \in Configs /\ turn \in Colors /\ fullmove \in Nat
        /\ clock \in [Colors -> [time_left : Int, moves_left : Nat]]
        /\ output \in [Colors -> Evaluation] /\ draw_moves \in Nat /\ max_moves \in Nat
        /\ resign_moves \in [Colors \cup {"both"} -> Nat]
        /\ result \in [Colors -> {"NONE", "WIN", "LOSE", "DRAW"}]
        /\ stop \in BOOLEAN /\ crash \in BOOLEAN /\ played \in Seq(Move)
        /\ \A color \in Colors : config.limits[color].moves # 0 => clock[color].moves_left # 0
    BY DEF Typed, TypeOK
  <1>a. Quiet \/ Failed \/ Moved
    BY Steps
  <1>2. config' = config
    BY <1>a DEF Quiet, Failed, Moved
  <1>3. played' \in Seq(Move)
    <2>1. ASSUME NEW move \in Move  PROVE Append(played, move) \in Seq(Move)
      BY <1>1, AppendProperties
    <2>2. played' = played \/ \E move \in Move : played' = Append(played, move)
      BY <1>a DEF Quiet, Failed, Moved
    <2>3. QED  BY <1>1, <2>1, <2>2
  <1>4. /\ turn' \in Colors /\ max_moves' \in Nat
    <2>1. them \in Colors
      BY Facts
    <2>2. QED  BY <1>1, <1>a, <2>1 DEF Quiet, Failed, Moved
  <1>5. draw_moves' \in Nat
    <2>1. ASSUME NEW e, NEW z  PROVE DrawUpdate(e, z) \in Nat
      BY <1>1 DEF DrawUpdate
    <2>2. QED  BY <1>1, <1>a, <2>1 DEF Quiet, Failed, Moved
  <1>6. resign_moves' \in [Colors \cup {"both"} -> Nat]
    <2>1. ASSUME NEW e  PROVE ResignUpdate(e, us) \in [Colors \cup {"both"} -> Nat]
      <3>1. us \in Colors \cup {"both"}
        BY Facts
      <3>2. \A n \in Colors \cup {"both"}, k \in Nat : [resign_moves EXCEPT ![n] = k] \in [Colors \cup {"both"} -> Nat]
        BY <1>1
      <3>3. /\ (IF Decided(e) THEN resign_moves["both"] + 1 ELSE 0) \in Nat
            /\ (IF Lost(e) THEN resign_moves[us] + 1 ELSE 0) \in Nat
        BY <1>1, <3>1
      <3>4. QED  BY <3>1, <3>2, <3>3 DEF ResignUpdate
    <2>2. resign_moves' = resign_moves \/ \E e : resign_moves' = ResignUpdate(e, us)
      BY <1>a DEF Quiet, Failed, Moved
    <2>3. QED  BY <1>1, <2>1, <2>2
  <1>7. /\ output' \in [Colors -> Evaluation]
    <2>1. ASSUME NEW e \in config.evaluations, NEW t, NEW z, NEW l, Answer(e, t, z, l)  PROVE output' \in [Colors -> Evaluation]
      BY <1>1, <2>1, Facts DEF Answer
    <2>2. CASE IllegalMove
      BY <2>1, <2>2 DEF IllegalMove
    <2>3. CASE TimeForfeit
      BY <2>1, <2>3 DEF TimeForfeit
    <2>4. CASE MakeMove
      BY <2>1, <2>4 DEF MakeMove
    <2>5. CASE ~(IllegalMove \/ TimeForfeit \/ MakeMove)
      BY <1>1, <2>5 DEF Next, start, playMove, StartFails, Started, Interrupt, Continue, Ask, InterruptThink, Throw, Stop,
                        GameOver, AdjudicateResign, AdjudicateDraw, Disconnect
    <2>6. QED  BY <2>2, <2>3, <2>4, <2>5
  <1> DEFINE GoodClocks == /\ clock' \in [Colors -> [time_left : Int, moves_left : Nat]]
                           /\ \A color \in Colors : config.limits[color].moves # 0 => clock'[color].moves_left # 0
  <1>8. GoodClocks
    <2>1. ASSUME NEW t \in config.times, clock' = [clock EXCEPT ![us] = updateTime(limits(us), clock[us], t)]
          PROVE  GoodClocks
      <3>1. /\ updateTime(limits(us), clock[us], t) \in [time_left : Int, moves_left : Nat]
            /\ config.limits[us].moves # 0 => updateTime(limits(us), clock[us], t).moves_left # 0
        <4>1. /\ config.limits[us] \in LimitSet /\ clock[us] \in [time_left : Int, moves_left : Nat] /\ t \in Nat
              /\ config.limits[us].moves # 0 => clock[us].moves_left # 0
          BY <1>1, Facts
        <4>2. QED  BY <4>1, UpdateTyped DEF limits
      <3>2. \A color \in Colors : clock'[color] = IF color = us THEN updateTime(limits(us), clock[us], t) ELSE clock[color]
        BY <1>1, <2>1
      <3>3. QED  BY <1>1, <2>1, <3>1, <3>2
    <2>2. CASE IllegalMove
      BY <2>1, <2>2 DEF IllegalMove, Answer
    <2>3. CASE TimeForfeit
      BY <2>1, <2>3 DEF TimeForfeit, Answer
    <2>4. CASE MakeMove
      BY <2>1, <2>4 DEF MakeMove, Answer
    <2>5. CASE Throw
      BY <2>1, <2>5 DEF Throw
    <2>6. CASE ~(IllegalMove \/ TimeForfeit \/ MakeMove \/ Throw)
      BY <1>1, <2>6 DEF Next, start, playMove, StartFails, Started, Interrupt, Continue, Ask, InterruptThink, Stop,
                        GameOver, AdjudicateResign, AdjudicateDraw, Disconnect
    <2>7. QED  BY <2>2, <2>3, <2>4, <2>5, <2>6
  <1>9. /\ pc' \in {"start", "loop", "play", "think", "over"}
        /\ fullmove' \in Nat /\ stop' \in BOOLEAN
    <2>1. pc \in {"start", "loop", "play", "think", "over"}
      BY DEF Typed, TypeOK
    <2>2. fullmove + 1 \in Nat
      BY <1>1
    <2>3. QED
      BY <1>1, <2>1, <2>2 DEF Next, start, playMove, StartFails, Started, Interrupt, Continue, Ask, InterruptThink, Throw, Stop,
                 GameOver, AdjudicateResign, AdjudicateDraw, Disconnect, IllegalMove, TimeForfeit, MakeMove, End, Answer
  <1>10. /\ result' \in [Colors -> {"NONE", "WIN", "LOSE", "DRAW"}]
         /\ termination' \in {"None", "NORMAL", "ADJUDICATION", "TIMEOUT", "DISCONNECT", "ILLEGAL_MOVE", "INTERRUPT"}
         /\ crash' \in BOOLEAN
    <2>1. termination \in {"None", "NORMAL", "ADJUDICATION", "TIMEOUT", "DISCONNECT", "ILLEGAL_MOVE", "INTERRUPT"}
      BY DEF Typed, TypeOK
    <2>2. ASSUME NEW l, NEW k, NEW w, End(l, k, w)
          PROVE  result' \in [Colors -> {"NONE", "WIN", "LOSE", "DRAW"}] /\ termination' = k
      BY <2>2 DEF End
    <2>3. CASE GameOver \/ AdjudicateResign \/ AdjudicateDraw \/ Disconnect \/ IllegalMove \/ TimeForfeit
      BY <1>1, <2>2, <2>3 DEF GameOver, AdjudicateResign, AdjudicateDraw, Disconnect, IllegalMove, TimeForfeit
    <2>4. CASE ~(GameOver \/ AdjudicateResign \/ AdjudicateDraw \/ Disconnect \/ IllegalMove \/ TimeForfeit)
      BY <1>1, <2>1, <2>4 DEF Next, start, playMove, StartFails, Started, Interrupt, Continue, Ask, InterruptThink, Throw, Stop, MakeMove
    <2>5. QED  BY <2>3, <2>4
  <1>11. QED
    BY <1>1, <1>2, <1>3, <1>4, <1>5, <1>6, <1>7, <1>8, <1>9, <1>10 DEF Typed, TypeOK

-----------------------------------------------------------------------------
(* The verdict.                                                            *)

LEMMA Appended ==
    ASSUME Typed, NEW move \in Move, played' = Append(played, move)
    PROVE  /\ Len(played) \in Nat /\ Len(played') = Len(played) + 1
           /\ DOMAIN played = 1..Len(played) /\ DOMAIN played' = 1..(Len(played) + 1)
           /\ played' # << >> /\ played'[Len(played) + 1] = move
           /\ \A i \in 1..Len(played) : played'[i] = played[i]
  <1>1. played \in Seq(Move)
    BY DEF Typed
  <1>2. played' \in Seq(Move) /\ Len(played') = Len(played) + 1
    BY <1>1, AppendProperties
  <1>3. QED  BY <1>1, <1>2, AppendProperties

\* The results of a verdict.
LEMMA Verdicts ==
    ASSUME Typed, Grounds, NEW loser \in {"none", us, them}, NEW kind, NEW why, End(loser, kind, why)
    PROVE  /\ pc' = "over" /\ termination' = kind /\ reason' = why /\ turn' = turn /\ us' = us /\ them' = them
           /\ loser = "none" => result' = [color \in Colors |-> "DRAW"] /\ \A c \in Colors : ~Loser(c)'
           /\ loser # "none" => \A c \in Colors : Loser(c)' <=> c = loser
  <1>1. us \in Colors /\ them \in Colors /\ us # them
    BY Facts
  <1>2. pc' = "over" /\ termination' = kind /\ reason' = why /\ turn' = turn /\ us' = us /\ them' = them
    BY DEF End, us, them
  <1>3. ASSUME loser = "none"  PROVE result' = [color \in Colors |-> "DRAW"] /\ \A c \in Colors : ~Loser(c)'
    BY <1>3 DEF End, Loser
  <1>4. ASSUME loser # "none", NEW c \in Colors  PROVE Loser(c)' <=> c = loser
    <2>1. loser \in Colors /\ Other(c) \in Colors /\ Other(c) # c
      BY <1>1, <1>4 DEF Other, Colors
    <2>2. result' = [color \in Colors |-> IF color = loser THEN "LOSE" ELSE "WIN"]
      BY <1>4 DEF End
    <2>3. result'[c] = (IF c = loser THEN "LOSE" ELSE "WIN") /\ result'[Other(c)] = (IF Other(c) = loser THEN "LOSE" ELSE "WIN")
      BY <2>1, <2>2
    <2>4. c \in {"white", "black"} /\ loser \in {"white", "black"}
      BY <2>1 DEF Colors
    <2>5. QED  BY <2>1, <2>3, <2>4 DEF Loser, Other
  <1>5. QED  BY <1>2, <1>3, <1>4

LEMMA GroundsInit ==
    ASSUME Init
    PROVE  Grounds /\ VerdictAgrees
  BY DEF Init, Grounds, Untold, VerdictAgrees, Verdict

\* The steps without a verdict.
LEMMA NoVerdict ==
    ASSUME Typed, Grounds,
           StartFails \/ Started \/ Interrupt \/ Continue \/ Ask \/ InterruptThink \/ Throw \/ Stop \/ MakeMove
    PROVE  /\ UNCHANGED <<result, reason, crash>>
           /\ termination' = termination \/ (pc' = "over" /\ termination' = "INTERRUPT")
           /\ pc # "over"
  BY DEF StartFails, Started, Interrupt, Continue, Ask, InterruptThink, Throw, Stop, MakeMove, Answer, data

LEMMA GroundsNext ==
    ASSUME Typed, Grounds, Next
    PROVE  Grounds' /\ VerdictAgrees'
  <1>0. pc # "over" /\ Untold
    BY Steps DEF Grounds
  <1>1. CASE StartFails \/ Started \/ Interrupt \/ Continue \/ Ask \/ InterruptThink \/ Throw \/ Stop \/ MakeMove
    <2>1. /\ result' = [color \in Colors |-> "NONE"] /\ reason'.message = "" /\ ~crash'
          /\ termination' = "None" \/ (pc' = "over" /\ termination' = "INTERRUPT")
      <3>1. result' = result /\ reason' = reason /\ crash' = crash
            /\ (termination' = termination \/ (pc' = "over" /\ termination' = "INTERRUPT"))
        BY <1>1, NoVerdict
      <3>2. QED  BY <1>0, <3>1 DEF Untold
    <2>2. Grounds'
      BY <2>1 DEF Grounds, Untold
    <2>3. ~Verdict' /\ (crash' <=> termination' = "DISCONNECT")
      BY <2>1 DEF Verdict
    <2>4. QED  BY <2>1, <2>2, <2>3 DEF VerdictAgrees
  <1>c. us \in Colors /\ them \in Colors /\ us # them /\ Other(them) = us /\ Other(us) = them
    BY Facts DEF them, us
  <1>2. CASE GameOver
    <2>1. ~crash' /\ ~crash
      BY <1>0, <1>2 DEF GameOver, Untold
    <2>2. CASE End(us, "NORMAL", [color |-> them, message |-> "mates"])
      <3>1. /\ pc' = "over" /\ termination' = "NORMAL" /\ reason' = [color |-> them, message |-> "mates"] /\ turn' = us
            /\ them' = them
            /\ \A c \in Colors : Loser(c)' <=> c = us
        BY <1>c, <2>2, Verdicts DEF Colors, us
      <3>2. Loser(us)'
        BY <1>c, <3>1 DEF Loser, us
      <3>3. reason'.message = "mates" /\ Other(reason'.color) = turn'
        BY <1>c, <3>1 DEF us
      <3>4. QED  BY <1>c, <2>1, <3>1, <3>2 DEF Grounds, VerdictAgrees, Verdict
    <2>3. CASE End("none", "NORMAL", [color |-> "none", message |-> "draw"])
      <3>1. /\ pc' = "over" /\ termination' = "NORMAL" /\ reason' = [color |-> "none", message |-> "draw"]
            /\ result' = [color \in Colors |-> "DRAW"] /\ \A c \in Colors : ~Loser(c)'
        BY <2>3, Verdicts
      <3>2. QED  BY <2>1, <3>1 DEF Grounds, VerdictAgrees, Verdict
    <2>4. QED  BY <1>2, <2>2, <2>3 DEF GameOver
  <1>3. CASE AdjudicateResign
    <2>1. ~crash' /\ ~crash /\ End(them, "ADJUDICATION", [color |-> us, message |-> "wins by adjudication"])
      BY <1>0, <1>3 DEF AdjudicateResign, Untold
    <2>2. /\ pc' = "over" /\ termination' = "ADJUDICATION" /\ reason' = [color |-> us, message |-> "wins by adjudication"]
          /\ them' = them /\ us' = us
          /\ \A c \in Colors : Loser(c)' <=> c = them
      BY <1>c, <2>1, Verdicts DEF Colors
    <2>3. Resigns' /\ Resigns
      BY <1>3, <2>2 DEF AdjudicateResign, End, Resigns, resignable, trackers, Colors
    <2>4. QED  BY <1>c, <2>1, <2>2, <2>3 DEF Grounds, VerdictAgrees, Verdict
  <1>4. CASE AdjudicateDraw
    <2>1. ~crash' /\ ~crash /\ End("none", "ADJUDICATION", [color |-> "none", message |-> "draw"])
      BY <1>0, <1>4 DEF AdjudicateDraw, Untold
    <2>2. /\ pc' = "over" /\ termination' = "ADJUDICATION" /\ reason' = [color |-> "none", message |-> "draw"]
          /\ result' = [color \in Colors |-> "DRAW"]
      BY <2>1, Verdicts
    <2>3. Draws'
      BY <1>4, <2>2 DEF AdjudicateDraw, End, Draws, adjudicatable, maxmovesreached, trackers
    <2>4. QED  BY <2>1, <2>2, <2>3 DEF Grounds, VerdictAgrees, Verdict
  <1>5. ASSUME NEW kind, NEW message, End(us, kind, [color |-> us, message |-> message]),
               <<kind, message>> \in {<<"ILLEGAL_MOVE", "makes an illegal move">>, <<"TIMEOUT", "loses on time">>,
                                      <<"DISCONNECT", "disconnects">>},
               crash' <=> kind = "DISCONNECT"
        PROVE  Grounds' /\ VerdictAgrees'
    <2>2. /\ pc' = "over" /\ termination' = kind /\ reason' = [color |-> us, message |-> message] /\ turn' = us
          /\ \A c \in Colors : Loser(c)' <=> c = us
      BY <1>c, <1>5, Verdicts DEF Colors, us
    <2>3. ASSUME kind # "DISCONNECT"  PROVE Last(played').by = us
      <3>1. PICK move \in Move : move.by = us /\ played' = Append(played, move)
        <4>1. kind \in {"ILLEGAL_MOVE", "TIMEOUT"}
          BY <1>5, <2>3
        <4>2. Failed
          BY <4>1, <2>2, Steps DEF Quiet, Moved, InStep
        <4>3. QED  BY <4>2 DEF Failed
      <3>2. QED  BY <3>1, Appended DEF Last
    <2>4. Loser(us)' /\ us' = us /\ Grounds'
      BY <1>c, <1>5, <2>2 DEF us, Grounds, Loser
    <2>5. QED  BY <1>c, <1>5, <2>2, <2>3, <2>4 DEF VerdictAgrees, Verdict, us, Loser
  <1>6. ~crash
    BY <1>0 DEF Untold
  <1>7. CASE IllegalMove
    <2>1. End(us, "ILLEGAL_MOVE", [color |-> us, message |-> "makes an illegal move"]) /\ ~crash'
      BY <1>6, <1>7 DEF IllegalMove
    <2>2. crash' <=> "ILLEGAL_MOVE" = "DISCONNECT"
      BY <2>1
    <2>3. <<"ILLEGAL_MOVE", "makes an illegal move">> \in {<<"ILLEGAL_MOVE", "makes an illegal move">>, <<"TIMEOUT", "loses on time">>,
                                      <<"DISCONNECT", "disconnects">>}
      OBVIOUS
    <2>4. QED  BY <1>5, <2>1, <2>2, <2>3
  <1>8. CASE TimeForfeit
    <2>1. End(us, "TIMEOUT", [color |-> us, message |-> "loses on time"]) /\ ~crash'
      BY <1>6, <1>8 DEF TimeForfeit
    <2>2. crash' <=> "TIMEOUT" = "DISCONNECT"
      BY <2>1
    <2>3. <<"TIMEOUT", "loses on time">> \in {<<"ILLEGAL_MOVE", "makes an illegal move">>, <<"TIMEOUT", "loses on time">>,
                                      <<"DISCONNECT", "disconnects">>}
      OBVIOUS
    <2>4. QED  BY <1>5, <2>1, <2>2, <2>3
  <1>9. CASE Disconnect
    <2>1. End(us, "DISCONNECT", [color |-> us, message |-> "disconnects"]) /\ crash'
      BY <1>9 DEF Disconnect
    <2>2. QED  BY <1>5, <2>1
  <1>10. QED  BY <1>1, <1>2, <1>3, <1>4, <1>7, <1>8, <1>9 DEF Next, start, playMove

-----------------------------------------------------------------------------
(* What the trackers count.                                                *)

LEMMA TrackedInit ==
    ASSUME Init, Typed
    PROVE  Tracked
  <1>1. /\ played = << >> /\ Len(played) = 0 /\ DOMAIN played = {} /\ InStep /\ pc = "start"
        /\ draw_moves = 0 /\ max_moves = 0 /\ resign_moves = [counter \in Colors \cup {"both"} |-> 0]
    <2>1. /\ played = << >> /\ InStep /\ pc = "start" /\ draw_moves = 0 /\ max_moves = 0
          /\ resign_moves = [counter \in Colors \cup {"both"} |-> 0]
      BY DEF Init, InStep
    <2>2. QED  BY <2>1
  <1>2. \A counter \in Colors \cup {"both"} : resign_moves[counter] = 0
    BY <1>1
  <1>3. LimitKept /\ DrawKept /\ TurnsTaken /\ Shown
    BY <1>1, Facts DEF LimitKept, DrawKept, TurnsTaken, Shown, OfBoth, Larger
  <1>4. OneKind /\ BothKept /\ EachKept /\ CountKept
    BY <1>1, <1>2, Facts DEF OneKind, BothKept, EachKept, CountKept, Limited
  <1>5. TurnKept /\ LegalKept
    <2>1. Plies = config.book
      BY <1>1, GameFacts DEF Plies
    <2>2. turn = IF config.book % 2 = 0 THEN config.fen.stm ELSE Other(config.fen.stm)
      BY DEF Init
    <2>3. QED  BY <1>1, <2>1, <2>2 DEF TurnKept, LegalKept
  <1>6. QED  BY <1>3, <1>4, <1>5 DEF Tracked

LEMMA QuietTracked ==
    ASSUME Typed, Tracked, Quiet
    PROVE  Tracked'
  <1>0. /\ config' = config /\ turn' = turn /\ output' = output /\ played' = played /\ draw_moves' = draw_moves
        /\ resign_moves' = resign_moves /\ max_moves' = max_moves /\ InStep /\ InStep'
        /\ us' = us /\ them' = them
        /\ \A e : (Near(e)' <=> Near(e)) /\ (Decided(e)' <=> Decided(e)) /\ (Lost(e)' <=> Lost(e))
    BY DEF Quiet, trackers, us, them, Near, Decided, Lost
  <1>f. /\ max_moves \in Nat /\ config.maxmoves.move_count \in Int
        /\ them \in Colors /\ resign_moves[them] \in Nat /\ config.resign.move_count \in Int
        /\ output[them] \in Evaluation /\ config.resign.score \in Nat
    <2>1. /\ max_moves \in Nat /\ resign_moves \in [Colors \cup {"both"} -> Nat] /\ output \in [Colors -> Evaluation]
      BY DEF Typed, TypeOK
    <2>2. QED  BY <2>1, Facts
  <1>1. LimitKept'
    <2>1. pc' = "think" => pc = "think" \/ ~Draws
      BY DEF Quiet
    <2>2. ~Draws /\ config.maxmoves.enabled => max_moves < 2 * config.maxmoves.move_count
      BY <1>f DEF Draws, maxmovesreached
    <2>3. QED  BY <1>0, <2>1, <2>2 DEF LimitKept, Tracked
  <1>2. DrawKept'
    BY <1>0 DEF DrawKept, Tracked
  <1>3. TurnsTaken' /\ Shown' /\ TurnKept' /\ LegalKept'
    BY <1>0 DEF TurnsTaken, Shown, TurnKept, Plies, LegalKept, Tracked
  <1>4. OneKind' /\ BothKept' /\ EachKept'
    BY <1>0 DEF OneKind, BothKept, EachKept, Own, Tracked
  <1>5. CountKept'
    <2>1. SUFFICES ASSUME Limited, pc' = "think"  PROVE resign_moves[them] < config.resign.move_count
      BY <1>0 DEF CountKept, Limited, Tracked
    <2>2. CASE pc = "think"
      BY <1>0, <2>1, <2>2 DEF CountKept, Tracked
    <2>3. CASE ~Resigns
      <3> SUFFICES ASSUME resign_moves[them] >= config.resign.move_count  PROVE FALSE
        BY <1>f
      <3>1. them \in Colors /\ resign_moves[them] \in Nat /\ config.resign.move_count \in Nat \ {0}
        BY <1>f, <2>1 DEF Limited
      <3>2. resignable
        BY <2>1, <3>1 DEF resignable, Limited
      <3>3. Own(them, 0) = Len(played) /\ 0 \in 0..(resign_moves[them] - 1) /\ Len(played) \in Nat
        BY <3>1 DEF Own, Typed
      <3>4. Len(played) >= 1 /\ Lost(played[Len(played)].eval)
        BY <1>0, <3>1, <3>3 DEF EachKept, Tracked
      <3>5. output[them] = played[Len(played)].eval
        BY <1>0, <3>4 DEF Shown, Tracked
      <3>6. output[them].score < 0
        <4>1. output[them].score \in Int /\ config.resign.score \in Nat \ {0}
          BY <2>1, <3>1, <1>f DEF Limited, Evaluation
        <4>2. QED  BY <3>4, <3>5, <4>1 DEF Lost
      <3>7. QED  BY <2>1, <2>3, <3>2, <3>6 DEF Resigns, Limited
    <2>4. QED  BY <2>1, <2>2, <2>3 DEF Quiet
  <1>6. QED  BY <1>1, <1>2, <1>3, <1>4, <1>5 DEF Tracked

LEMMA FailedTracked ==
    ASSUME Typed, Grounds, Tracked, Failed
    PROVE  Tracked'
  <1>1. PICK move \in Move : move.by = us /\ played' = Append(played, move)
    BY DEF Failed
  <1>2. ~InStep' /\ InStep /\ pc = "think" /\ pc' = "over" /\ config' = config /\ turn' = turn /\ max_moves' = max_moves
    BY DEF Failed, InStep, Grounds, Untold, trackers
  <1>3. us' = us /\ them' = them
    BY <1>2 DEF us, them
  <1>4. LimitKept'
    <2>1. /\ max_moves = Len(played) /\ Len(played') = Len(played) + 1 /\ Len(played) \in Nat
          /\ config.maxmoves.enabled => max_moves < 2 * config.maxmoves.move_count
      BY <1>1, <1>2, Appended DEF LimitKept, Tracked
    <2>2. config.maxmoves.enabled => Len(played') <= OfBoth(config.maxmoves.move_count)
      BY <2>1, Facts DEF OfBoth, Larger
    <2>3. QED  BY <1>2, <2>2 DEF LimitKept
  <1>5. TurnsTaken'
    BY <1>1, <1>2, <1>3, Appended, Facts DEF TurnsTaken, Tracked
  <1>6. DrawKept' /\ Shown' /\ OneKind' /\ BothKept' /\ EachKept' /\ CountKept'
    <2>1. resign_moves' = resign_moves
      BY DEF Failed, trackers
    <2>2. QED  BY <1>2, <2>1 DEF DrawKept, Shown, OneKind, BothKept, EachKept, CountKept, Tracked
  <1>7. TurnKept' /\ LegalKept'
    <2>1. Plies' = Plies
      BY <1>1, <1>2, Appended, GameFacts DEF Plies
    <2>2. LegalKept'
      BY <1>1, <1>2, Appended DEF LegalKept, Tracked
    <2>3. QED  BY <1>2, <2>1, <2>2 DEF TurnKept, Tracked
  <1>8. QED  BY <1>4, <1>5, <1>6, <1>7 DEF Tracked

LEMMA MovedTracked ==
    ASSUME Typed, Grounds, Tracked, Moved
    PROVE  Tracked'
  <1>1. PICK move \in Move :
            /\ move.by = us /\ move.legal = TRUE /\ played' = Append(played, move)
            /\ output' = [output EXCEPT ![us] = move.eval]
            /\ draw_moves' = DrawUpdate(move.eval, move.zeroes)
            /\ resign_moves' = ResignUpdate(move.eval, us)
    BY DEF Moved
  <1>2. /\ InStep /\ InStep' /\ pc = "think" /\ pc' = "loop" /\ config' = config /\ max_moves' = max_moves + 1
        /\ turn' = them
    BY DEF Moved, InStep, Grounds, Untold, data
  <1>3. us \in Colors /\ them \in Colors /\ us # them /\ us' = them /\ them' = us /\ Other(them) = us /\ Other(us) = them
    BY <1>2, Facts DEF us, them
  <1>4. \A e : (Near(e)' <=> Near(e)) /\ (Decided(e)' <=> Decided(e)) /\ (Lost(e)' <=> Lost(e))
    BY <1>2 DEF Near, Decided, Lost
  <1>5. /\ draw_moves \in Nat /\ max_moves \in Nat /\ move.zeroes \in BOOLEAN
        /\ resign_moves \in [Colors \cup {"both"} -> Nat]
        /\ output \in [Colors -> Evaluation]
        /\ move.eval \in Evaluation
    BY DEF Typed, TypeOK, Move
  <1> DEFINE n == Len(played)
  <1>6. /\ n \in Nat /\ Len(played') = n + 1 /\ DOMAIN played = 1..n /\ DOMAIN played' = 1..(n + 1)
        /\ played' # << >> /\ played'[n + 1] = move
        /\ \A i \in 1..n : played'[i] = played[i]
    BY <1>1, Appended
  <1> HIDE DEF n
  <1>7. LimitKept'
    BY <1>2, <1>5, <1>6, Facts DEF LimitKept, Tracked, n, OfBoth, Larger
  <1>8a. ASSUME config.draw.move_count <= 0  PROVE DrawKept'
    <2>1. draw_moves = 0
      BY <1>2, <1>8a DEF DrawKept, Tracked
    <2>2. draw_moves' = 0
      BY <1>1, <1>8a, <2>1 DEF DrawUpdate
    <2>3. QED  BY <1>2, <1>6, <2>2 DEF DrawKept
  <1>8b. ASSUME ~(config.draw.move_count <= 0)  PROVE DrawKept'
    <2>1. draw_moves' = (IF Near(move.eval) THEN (IF move.zeroes THEN 0 ELSE draw_moves) + 1 ELSE 0)
      BY <1>1, <1>8b DEF DrawUpdate, Near
    <2>2. /\ draw_moves <= n
          /\ \A i \in 1..n : i > n - draw_moves => Near(played[i].eval) /\ (played[i].zeroes => i = n - draw_moves + 1)
      BY <1>2, <1>6 DEF DrawKept, Tracked, n
    <2>3. \A i \in 1..(n + 1) : i > n + 1 - draw_moves' =>
              Near(played'[i].eval) /\ (played'[i].zeroes => i = n + 1 - draw_moves' + 1)
      <3> SUFFICES ASSUME NEW i \in 1..(n + 1), i > n + 1 - draw_moves'
                   PROVE  Near(played'[i].eval) /\ (played'[i].zeroes => i = n + 1 - draw_moves' + 1)
        OBVIOUS
      <3>1. Near(move.eval)
        BY <1>5, <1>6, <2>1
      <3>2. CASE i = n + 1
        BY <1>5, <1>6, <2>1, <3>1, <3>2
      <3>3. CASE i \in 1..n
        <4>1. ~move.zeroes /\ draw_moves' = draw_moves + 1
          BY <1>5, <1>6, <2>1, <3>1, <3>3
        <4>2. QED  BY <1>5, <1>6, <2>2, <3>3, <4>1
      <3>4. QED  BY <1>6, <3>2, <3>3
    <2>4. draw_moves' <= n + 1
      BY <1>5, <1>6, <2>1, <2>2
    <2>5. QED
      <3>1. ASSUME NEW i \in DOMAIN played', i > Len(played') - draw_moves'
            PROVE  (Near(played[i].eval))' /\ (played'[i].zeroes => i = Len(played') - draw_moves' + 1)
        <4>0. draw_moves' \in Nat
          BY <1>5, <2>1
        <4>1. i \in 1..(n + 1) /\ i > n + 1 - draw_moves'
          BY <1>6, <3>1, <4>0
        <4>2. Near(played'[i].eval) /\ (played'[i].zeroes => i = n + 1 - draw_moves' + 1)
          BY <2>3, <4>1
        <4>3. QED  BY <1>2, <1>6, <4>0, <4>1, <4>2 DEF Near
      <3>2. QED  BY <1>2, <1>6, <1>8b, <2>4, <3>1 DEF DrawKept
  <1>8. DrawKept'
    BY <1>8a, <1>8b
  <1>9. TurnsTaken'
    <2>1. \A i \in 2..(n + 1) : played'[i].by = Other(played'[i - 1].by)
      <3> SUFFICES ASSUME NEW i \in 2..(n + 1)  PROVE played'[i].by = Other(played'[i - 1].by)
        OBVIOUS
      <3>1. CASE i = n + 1
        <4>1. n \in 1..n /\ played # << >> /\ i - 1 = n
          BY <1>6, <3>1
        <4>2. played[n].by = them
          BY <1>2, <4>1 DEF TurnsTaken, Tracked, n
        <4>3. QED  BY <1>1, <1>3, <1>6, <3>1, <4>1, <4>2
      <3>2. CASE i \in 2..n
        <4>1. i \in 1..n /\ i - 1 \in 1..n
          BY <1>6, <3>2
        <4>2. QED  BY <1>6, <3>2, <4>1 DEF TurnsTaken, Tracked, n
      <3>3. QED  BY <1>6, <3>1, <3>2
    <2>2. QED  BY <1>1, <1>2, <1>3, <1>6, <2>1 DEF TurnsTaken
  <1>10. Shown'
    BY <1>1, <1>2, <1>3, <1>5, <1>6 DEF Shown
  <1>11. \A color \in Colors : resign_moves[color] \in Nat
    BY <1>5
  <1>12. ASSUME config.resign.twosided  PROVE OneKind' /\ BothKept' /\ EachKept' /\ CountKept'
    <2>1. resign_moves' = [resign_moves EXCEPT !["both"] = IF Decided(move.eval) THEN resign_moves["both"] + 1 ELSE 0]
      BY <1>1, <1>12 DEF ResignUpdate
    <2>2. \A color \in Colors : color # "both" /\ resign_moves[color] = 0
      BY <1>12 DEF OneKind, Colors, Tracked
    <2>3. /\ resign_moves'["both"] = (IF Decided(move.eval) THEN resign_moves["both"] + 1 ELSE 0)
          /\ \A color \in Colors : resign_moves'[color] = 0
          /\ resign_moves["both"] \in Nat
      BY <1>5, <2>1, <2>2
    <2>4. OneKind' /\ EachKept' /\ CountKept'
      BY <1>2, <1>12, <2>3 DEF OneKind, EachKept, CountKept, Limited
    <2>5. /\ resign_moves["both"] <= n
          /\ \A i \in 1..n : i > n - resign_moves["both"] => Decided(played[i].eval)
      BY <1>2, <1>6 DEF BothKept, Tracked, n
    <2>6. \A i \in 1..(n + 1) : i > n + 1 - resign_moves'["both"] => Decided(played'[i].eval)
      <3> SUFFICES ASSUME NEW i \in 1..(n + 1), i > n + 1 - resign_moves'["both"]  PROVE Decided(played'[i].eval)
        OBVIOUS
      <3>1. Decided(move.eval)
        BY <1>6, <2>3
      <3>2. CASE i = n + 1
        BY <1>6, <3>1, <3>2
      <3>3. CASE i \in 1..n
        BY <1>6, <2>3, <2>5, <3>1, <3>3
      <3>4. QED  BY <1>6, <3>2, <3>3
    <2>7. BothKept'
      BY <1>2, <1>6, <2>3, <2>5, <2>6 DEF BothKept, Decided
    <2>8. QED  BY <2>4, <2>7
  <1>13. ASSUME ~config.resign.twosided  PROVE OneKind' /\ BothKept' /\ EachKept' /\ CountKept'
    <2>1. resign_moves' = [resign_moves EXCEPT ![us] = IF Lost(move.eval) THEN resign_moves[us] + 1 ELSE 0]
      BY <1>1, <1>13 DEF ResignUpdate
    <2>2. us # "both" /\ resign_moves["both"] = 0
      BY <1>3, <1>13 DEF OneKind, Colors, Tracked
    <2>3. /\ resign_moves'["both"] = 0 /\ resign_moves'[them] = resign_moves[them]
          /\ resign_moves'[us] = (IF Lost(move.eval) THEN resign_moves[us] + 1 ELSE 0)
      BY <1>3, <1>5, <2>1, <2>2
    <2>4. OneKind'
      BY <1>2, <1>13, <2>3 DEF OneKind
    <2>5. BothKept'
      BY <1>2, <1>6, <2>3 DEF BothKept
    <2>6. CountKept'
      BY <1>2, <1>3, <2>3 DEF CountKept, Limited, Tracked
    <2>7. \A color \in Colors, k \in Nat : k < resign_moves[color] =>
              Own(color, k) \in 1..n /\ played[Own(color, k)].by = color /\ Lost(played[Own(color, k)].eval)
      <3> SUFFICES ASSUME NEW color \in Colors, NEW k \in Nat, k < resign_moves[color]
                   PROVE  Own(color, k) \in 1..n /\ played[Own(color, k)].by = color /\ Lost(played[Own(color, k)].eval)
        OBVIOUS
      <3>1. k \in 0..(resign_moves[color] - 1)
        BY <1>11
      <3>2. Own(color, k) \in Int /\ Own(color, k) <= n
        BY <1>6 DEF Own, n
      <3>3. QED  BY <1>2, <1>6, <3>1, <3>2 DEF EachKept, Tracked
    <2>8. ASSUME NEW color \in Colors, NEW k \in Nat, k < resign_moves'[color]
          PROVE  Own(color, k)' >= 1 /\ played'[Own(color, k)'].by = color /\ Lost(played'[Own(color, k)'].eval)
      <3>1. CASE color = us
        <4>1. Lost(move.eval) /\ resign_moves'[us] = resign_moves[us] + 1
          BY <1>11, <2>3, <2>8, <3>1
        <4>2. Own(color, k)' = n + 1 - 2 * k
          BY <1>3, <1>6, <3>1 DEF Own
        <4>3. CASE k = 0
          BY <1>1, <1>6, <3>1, <4>1, <4>2, <4>3
        <4>4. CASE k # 0
          <5>1. k - 1 \in Nat /\ k - 1 < resign_moves[us]
            BY <1>3, <1>11, <2>8, <3>1, <4>1, <4>4
          <5>2. Own(color, k - 1) = Own(color, k)'
            BY <1>3, <1>6, <3>1, <4>2, <5>1 DEF Own, n
          <5>3. QED  BY <1>3, <1>6, <2>7, <3>1, <5>1, <5>2
        <4>5. QED  BY <4>3, <4>4
      <3>2. CASE color = them
        <4>1. k < resign_moves[them]
          BY <2>3, <2>8, <3>2
        <4>2. Own(color, k)' = Own(color, k)
          BY <1>3, <1>6, <3>2 DEF Own, n
        <4>3. QED  BY <1>3, <1>6, <2>7, <3>2, <4>1, <4>2
      <3>3. QED  BY <1>3, <3>1, <3>2 DEF Colors
    <2>9. EachKept'
      <3>1. ASSUME NEW color \in Colors, NEW k \in 0..(resign_moves'[color] - 1)
            PROVE  Own(color, k)' >= 1 /\ played'[Own(color, k)'].by = color /\ Lost(played'[Own(color, k)'].eval)
        <4>1. resign_moves'[color] \in Nat
          BY <1>3, <1>11, <2>3 DEF Colors
        <4>2. k \in Nat /\ k < resign_moves'[color]
          BY <4>1
        <4>3. QED  BY <2>8, <4>2
      <3>2. QED  BY <1>2, <3>1 DEF EachKept, Lost
    <2>10. QED  BY <2>4, <2>5, <2>6, <2>9
  <1>14. OneKind' /\ BothKept' /\ EachKept' /\ CountKept'
    BY <1>12, <1>13
  <1>15. TurnKept'
    <2>1. Plies \in Nat /\ Plies' = Plies + 1
      BY <1>2, <1>6, GameFacts DEF Plies, n
    <2>2. Plies % 2 \in {0, 1} /\ (Plies' % 2 = 0 <=> Plies % 2 = 1)
      BY <2>1
    <2>3. turn' = Other(turn) /\ config.fen.stm \in Colors
      BY <1>2, GameFacts DEF them
    <2>4. QED  BY <1>2, <2>2, <2>3 DEF TurnKept, Tracked, Other, Colors
  <1>16. LegalKept'
    BY <1>1, <1>2, <1>6 DEF LegalKept, Tracked
  <1>17. QED  BY <1>7, <1>8, <1>9, <1>10, <1>14, <1>15, <1>16 DEF Tracked

-----------------------------------------------------------------------------
(* The theorems.                                                           *)

\* The inductive invariant: types, the grounds of a verdict, and what the trackers count (DrawTracker,
\* ResignTracker, MaxMovesTracker::update) of the moves that were played.
THEOREM Invariant == Spec => []IInv
<1>1. Init => IInv
  BY TypedInit, GroundsInit, TrackedInit DEF IInv
<1>2. IInv /\ [Next]_vars => IInv'
  <2> SUFFICES ASSUME IInv, [Next]_vars  PROVE IInv'
    OBVIOUS
  <2>0. Typed /\ Grounds /\ VerdictAgrees /\ Tracked
    BY DEF IInv
  <2>1. CASE Next
    <3>1. Typed' /\ Grounds' /\ VerdictAgrees'
      BY <2>0, <2>1, TypedNext, GroundsNext
    <3>2. Tracked'
      BY <2>0, <2>1, Steps, QuietTracked, FailedTracked, MovedTracked
    <3>3. QED  BY <3>1, <3>2 DEF IInv
  <2>2. CASE UNCHANGED vars
    <3>1. Typed'
      BY <2>0, <2>2 DEF Typed, TypeOK, vars, trackers, data
    <3>2. Grounds'
      BY <2>0, <2>2 DEF Grounds, Untold, Resigns, resignable, Loser, us, them, Draws, adjudicatable, maxmovesreached,
                        vars, trackers, data
    <3>3. VerdictAgrees'
      BY <2>0, <2>2 DEF VerdictAgrees, Verdict, Loser, vars, data
    <3>4. LimitKept' /\ DrawKept' /\ TurnsTaken' /\ TurnKept' /\ LegalKept' /\ Shown'
      BY <2>0, <2>2 DEF Tracked, LimitKept, DrawKept, TurnsTaken, TurnKept, Plies, LegalKept, Shown, InStep, Near, us, them, vars, trackers, data
    <3>5. OneKind' /\ BothKept' /\ EachKept' /\ CountKept'
      <4>1. /\ config' = config /\ pc' = pc /\ turn' = turn /\ resign_moves' = resign_moves /\ played' = played
            /\ InStep' = InStep /\ us' = us /\ them' = them
            /\ \A e : (Decided(e)' <=> Decided(e)) /\ (Lost(e)' <=> Lost(e))
        BY <2>2 DEF vars, trackers, data, InStep, us, them, Decided, Lost
      <4>2. OneKind' /\ CountKept' /\ BothKept'
        BY <2>0, <4>1 DEF Tracked, OneKind, CountKept, Limited, BothKept
      <4>3. EachKept'
        BY <2>0, <4>1 DEF Tracked, EachKept, Own
      <4>4. QED  BY <4>2, <4>3
    <3>6. QED  BY <3>1, <3>2, <3>3, <3>4, <3>5 DEF IInv, Tracked
  <2>3. QED  BY <2>1, <2>2
<1>3. QED  BY <1>1, <1>2, PTL DEF Spec

\* Every variable of a game keeps its type; with moves= no clock is ever without moves in its control.
THEOREM TypeCorrect == Spec => []TypeOK
<1>1. IInv => TypeOK
  BY DEF IInv, Typed
<1>2. QED  BY <1>1, Invariant, PTL

\* Result, termination, reason and crash flag of a game tell one story (Match::start, playMove and the
\* setEngine...Status functions).
THEOREM VerdictAgreesAlways == Spec => []VerdictAgrees
<1>1. IInv => VerdictAgrees
  BY DEF IInv
<1>2. QED  BY <1>1, Invariant, PTL

LEMMA LastOnes ==
    ASSUME Typed, NEW n \in 0..Len(played)
    PROVE  \A i \in 1..n : /\ Len(played) - n + i \in DOMAIN played
                           /\ LastMoves(played, n)[i] = played[Len(played) - n + i]
  <1>1. played \in Seq(Move) /\ Len(played) \in Nat /\ DOMAIN played = 1..Len(played)
    BY DEF Typed
  <1>2. \A i \in 1..n : SubSeq(played, Len(played) - n + 1, Len(played))[i] = played[Len(played) - n + i]
    BY <1>1, SubSeqProperties
  <1>3. QED  BY <1>1, <1>2 DEF LastMoves

LEMMA DrawGround ==
    ASSUME IInv
    PROVE  DrawEarned
  <1>0. Typed /\ Grounds /\ Tracked
    BY DEF IInv
  <1>1. /\ Len(played) \in Nat /\ DOMAIN played = 1..Len(played) /\ draw_moves \in Nat /\ max_moves \in Nat
        /\ config.maxmoves.move_count \in Int /\ config.draw.move_count \in Int /\ fullmove \in Nat
        /\ config.draw.move_number \in Nat
    BY <1>0, Facts DEF Typed, TypeOK
  <1>2. config.maxmoves.enabled => Len(played) <= OfBoth(config.maxmoves.move_count)
    BY <1>0 DEF LimitKept, Tracked
  <1>3. ASSUME termination = "ADJUDICATION", reason.message = "draw"
        PROVE  \/ config.maxmoves.enabled /\ Len(played) = OfBoth(config.maxmoves.move_count)
               \/ /\ config.draw.enabled /\ fullmove > config.draw.move_number
                  /\ Len(played) >= OfBoth(config.draw.move_count)
                  /\ \A i \in 1..OfBoth(config.draw.move_count) :
                        LET last == LastMoves(played, OfBoth(config.draw.move_count)) IN
                        /\ last[i].eval.type = "CP" /\ Abs(last[i].eval.score) <= config.draw.score
                        /\ last[i].zeroes => i = 1
    <2>1. InStep /\ Draws
      BY <1>0, <1>3 DEF InStep, Grounds
    <2>2. CASE config.maxmoves.enabled /\ maxmovesreached
      BY <1>0, <1>1, <1>2, <2>1, <2>2 DEF maxmovesreached, LimitKept, Tracked, OfBoth, Larger
    <2>3. CASE config.draw.enabled /\ adjudicatable
      <3> DEFINE n == OfBoth(config.draw.move_count)
      <3>1. /\ draw_moves <= Len(played) /\ fullmove > config.draw.move_number
            /\ n \in 0..Len(played) /\ n <= draw_moves
        BY <1>0, <1>1, <2>1, <2>3 DEF adjudicatable, DrawKept, Tracked, OfBoth, Larger
      <3> HIDE DEF n
      <3>2. \A j \in DOMAIN played : j > Len(played) - draw_moves =>
                Near(played[j].eval) /\ (played[j].zeroes => j = Len(played) - draw_moves + 1)
        BY <1>0, <2>1 DEF DrawKept, Tracked
      <3>3. ASSUME NEW i \in 1..n
            PROVE  Near(LastMoves(played, n)[i].eval) /\ (LastMoves(played, n)[i].zeroes => i = 1)
        <4>1. Len(played) - n + i \in DOMAIN played /\ LastMoves(played, n)[i] = played[Len(played) - n + i]
          BY <1>0, <3>1, LastOnes
        <4>2. Len(played) - n + i > Len(played) - draw_moves /\ n \in Int /\ i \in Int
          BY <1>1, <3>1
        <4>3. (Len(played) - n + i = Len(played) - draw_moves + 1) => i = 1
          BY <1>1, <3>1, <4>2
        <4>4. QED  BY <3>2, <4>1, <4>2, <4>3
      <3>4. Len(played) >= n /\ config.draw.enabled
        BY <1>1, <2>3, <3>1
      <3>5. QED  BY <3>1, <3>3, <3>4 DEF n, Near
    <2>4. QED  BY <2>1, <2>2, <2>3 DEF Draws
  <1>4. QED  BY <1>2, <1>3 DEF DrawEarned

\* A draw is adjudicated at exactly maxmoves, or for that many evaluations near zero without a capture or
\* pawn move in between (DrawTracker, MaxMovesTracker), and no game is longer than maxmoves.
THEOREM DrawEarnedAlways == Spec => []DrawEarned
<1>1. QED  BY DrawGround, Invariant, PTL

\* What resignable has counted, of the loser or with the score of 0 of either player.
LEMMA CountGround ==
    ASSUME IInv, Resigns, InStep, ~config.resign.twosided
    PROVE  \E color \in Colors :
               /\ config.resign.score > 0 => color = them
               /\ \A k \in 0..(config.resign.move_count - 1) :
                     /\ Own(color, k) >= 1 /\ played[Own(color, k)].by = color
                     /\ Lost(played[Own(color, k)].eval)
  <1>0. Typed /\ Tracked
    BY DEF IInv
  <1>1. /\ config.resign.move_count \in Int /\ us \in Colors /\ them \in Colors /\ us # them
        /\ \A c \in Colors : resign_moves[c] \in Nat /\ (c = us \/ c = them)
    BY <1>0, Facts DEF Typed, TypeOK, Colors
  <1>2. CASE config.resign.move_count <= 0
    <2>1. 0..(config.resign.move_count - 1) = {}
      BY <1>1, <1>2
    <2>2. QED  BY <1>1, <2>1
  <1>3. CASE config.resign.move_count > 0
    <2>1. PICK color \in Colors : resign_moves[color] >= config.resign.move_count
      BY DEF Resigns, resignable
    <2>2. config.resign.score > 0 => color = them
      <3>1. config.resign.score > 0 => resign_moves[us] < config.resign.move_count
        BY <1>0, <1>3 DEF CountKept, Limited, Resigns, Tracked
      <3>2. QED  BY <1>1, <2>1, <3>1
    <2>3. ASSUME NEW k \in 0..(config.resign.move_count - 1)
          PROVE  Own(color, k) >= 1 /\ played[Own(color, k)].by = color /\ Lost(played[Own(color, k)].eval)
      <3>1. k \in 0..(resign_moves[color] - 1)
        BY <1>1, <2>1
      <3>2. QED  BY <1>0, <3>1 DEF EachKept, Tracked
    <2>4. QED  BY <2>2, <2>3
  <1>4. QED  BY <1>1, <1>2, <1>3

\* No move has to be counted only if none is asked for.
LEMMA CountNeedsMoves ==
    ASSUME IInv, Resigns, InStep, played = << >>
    PROVE  config.resign.move_count <= 0
  <1>0. Typed /\ Tracked
    BY DEF IInv
  <1>1. /\ config.resign.move_count \in Int /\ Len(played) = 0 /\ them \in Colors
        /\ \A c \in Colors \cup {"both"} : resign_moves[c] \in Nat
    <2>1. resign_moves \in [Colors \cup {"both"} -> Nat]
      BY <1>0 DEF Typed, TypeOK
    <2>2. Len(played) = 0
      OBVIOUS
    <2>3. QED  BY <1>0, <2>1, <2>2, Facts
  <1>2. SUFFICES ASSUME config.resign.move_count > 0  PROVE FALSE
    BY <1>1
  <1>3. CASE config.resign.twosided
    BY <1>0, <1>1, <1>2, <1>3 DEF Resigns, resignable, BothKept, Tracked
  <1>4. CASE ~config.resign.twosided
    <2>1. PICK color \in Colors : resign_moves[color] >= config.resign.move_count
      BY <1>4 DEF Resigns, resignable
    <2>2. 0 \in 0..(resign_moves[color] - 1) /\ color \in Colors
      BY <1>1, <1>2, <2>1
    <2>3. Own(color, 0) >= 1
      BY <1>0, <2>2 DEF EachKept, Tracked
    <2>4. QED  BY <1>1, <2>3 DEF Own
  <1>5. QED  BY <1>3, <1>4

LEMMA ResignGround ==
    ASSUME IInv
    PROVE  ResignEarned
  <1>0. Typed /\ Grounds /\ Tracked
    BY DEF IInv
  <1>1. /\ Len(played) \in Nat /\ DOMAIN played = 1..Len(played) /\ (played # << >> <=> Len(played) > 0)
        /\ config.resign.move_count \in Int /\ them \in Colors
        /\ resign_moves["both"] \in Nat
    <2>1. resign_moves \in [Colors \cup {"both"} -> Nat] /\ played \in Seq(Move)
      BY <1>0 DEF Typed, TypeOK
    <2>2. "both" \in Colors \cup {"both"}
      OBVIOUS
    <2>3. resign_moves["both"] \in Nat /\ Len(played) \in Nat /\ (played # << >> <=> Len(played) > 0)
      BY <2>1, <2>2
    <2>4. QED  BY <1>0, <2>1, <2>3, Facts
  <1> DEFINE n == OfBoth(config.resign.move_count)
             BothDecided == Len(played) >= n /\ \A i \in 1..n : Decided(LastMoves(played, n)[i].eval)
             Counted1 == \E color \in Colors :
                            /\ config.resign.score > 0 => color = them
                            /\ \A k \in 0..(config.resign.move_count - 1) :
                                  LET own == Len(played) - 2 * k - (IF color = them THEN 0 ELSE 1) IN
                                  own >= 1 /\ played[own].by = color /\ Lost(played[own].eval)
  <1>2. SUFFICES ASSUME reason.message = "wins by adjudication"
                 PROVE  /\ Loser(them)
                        /\ \A i \in 2..Len(played) : played[i].by = Other(played[i - 1].by)
                        /\ IF played = << >> THEN config.resign.move_count <= 0
                           ELSE Last(played).by = them /\ Last(played).eval.score < 0
                        /\ IF config.resign.twosided THEN BothDecided ELSE Counted1
    BY <1>1 DEF ResignEarned
  <1>3. InStep /\ Resigns /\ Loser(them)
    BY <1>0, <1>2 DEF Grounds, InStep
  <1>4. \A i \in 2..Len(played) : played[i].by = Other(played[i - 1].by)
    BY <1>0 DEF TurnsTaken, Tracked
  <1>5. IF played = << >> THEN config.resign.move_count <= 0
        ELSE Last(played).by = them /\ Last(played).eval.score < 0
    <2>1. CASE played = << >>
      BY <1>3, <2>1, CountNeedsMoves
    <2>2. CASE played # << >>
      BY <1>0, <1>1, <1>3, <2>2 DEF TurnsTaken, Shown, Tracked, Resigns, Last
    <2>3. QED  BY <2>1, <2>2
  <1>6. ASSUME config.resign.twosided  PROVE BothDecided
    <2>1. n \in 0..Len(played) /\ n <= resign_moves["both"]
      BY <1>0, <1>1, <1>3, <1>6 DEF Resigns, resignable, BothKept, Tracked, OfBoth, Larger
    <2> HIDE DEF n
    <2>2. ASSUME NEW i \in 1..n  PROVE Decided(LastMoves(played, n)[i].eval)
      <3>1. Len(played) - n + i \in DOMAIN played /\ LastMoves(played, n)[i] = played[Len(played) - n + i]
        BY <1>0, <2>1, LastOnes
      <3>2. Len(played) - n + i > Len(played) - resign_moves["both"]
        BY <1>1, <2>1
      <3>3. QED  BY <1>0, <1>3, <3>1, <3>2 DEF BothKept, Tracked
    <2>3. Len(played) >= n
      BY <1>1, <2>1
    <2>4. QED  BY <2>2, <2>3
  <1>7. ASSUME ~config.resign.twosided  PROVE Counted1
    <2>1. \A color, k : Own(color, k) = Len(played) - (IF color = them THEN 0 ELSE 1) - 2 * k
      BY DEF Own
    <2>2. \A color \in Colors, k \in 0..(config.resign.move_count - 1) :
              Len(played) - 2 * k - (IF color = them THEN 0 ELSE 1) = Own(color, k)
      BY <1>1, <2>1
    <2>3. QED  BY <1>3, <1>7, <2>2, CountGround
  <1> HIDE DEF BothDecided, Counted1
  <1>8. QED  BY <1>3, <1>4, <1>5, <1>6, <1>7

\* An engine that is made to resign showed a losing score with its last move, and had said itself, in all
\* of its last movecount moves, that it was lost, or with twosided both had for as long that the game was
\* decided (ResignTracker, Match::adjudicate); with the code's exceptions of a score of 0, for which the
\* moves may be the winner's, and of a movecount of 0 or less, which asks for no moves.
THEOREM ResignEarnedAlways == Spec => []ResignEarned
<1>1. QED  BY ResignGround, Invariant, PTL

-----------------------------------------------------------------------------
(* The record of a game.                                                   *)

LEMMA FromFen ==
    ASSUME Typed
    PROVE  From = config.fen
  <1>1. /\ config.fen \in [stm : Colors, startpos : BOOLEAN]
        /\ (config.fen.stm = "black" => ~config.fen.startpos)
        /\ config.frc \in BOOLEAN
    BY GameFacts
  <1> DEFINE headers == Headers(match_data, config.min)
  <1>2. /\ Record.headers = headers
        /\ "FEN" \in DOMAIN headers <=> (config.frc \/ ~config.fen.startpos)
        /\ "FEN" \in DOMAIN headers => headers["FEN"] = config.fen
    BY <1>1 DEF Record, Pgn, Headers, match_data
  <1> HIDE DEF headers
  <1>3. ~("FEN" \in DOMAIN headers) => config.fen = [stm |-> "white", startpos |-> TRUE]
    <2> SUFFICES ASSUME ~("FEN" \in DOMAIN headers)  PROVE config.fen = [stm |-> "white", startpos |-> TRUE]
      OBVIOUS
    <2>1. config.fen = [stm |-> config.fen.stm, startpos |-> config.fen.startpos]
          /\ config.fen.stm \in Colors /\ config.fen.startpos \in BOOLEAN
      <3>1. \A f \in [stm : Colors, startpos : BOOLEAN] :
                f = [stm |-> f.stm, startpos |-> f.startpos] /\ f.stm \in Colors /\ f.startpos \in BOOLEAN
        OBVIOUS
      <3>2. config.fen \in [stm : Colors, startpos : BOOLEAN]
        BY <1>1
      <3>3. QED  BY <3>1, <3>2
    <2>2. config.fen.startpos = TRUE /\ config.fen.stm = "white"
      BY <1>1, <1>2, <2>1 DEF Colors
    <2>3. QED  BY <2>1, <2>2
  <1>4. QED  BY <1>2, <1>3 DEF From

\* The moves of the record: those of the book, and those that were played.
LEMMA TheMoves ==
    ASSUME Typed, Tracked, NEW n, n = config.book + Len(played)
    PROVE  /\ n \in Nat /\ Len(match_data.moves) = n /\ DOMAIN match_data.moves = 1..n
           /\ \A i \in 1..n : match_data.moves[i].legal \/ (i = n /\ ~InStep)
  <1>1. config.book \in Nat /\ Len(played) \in Nat /\ DOMAIN played = 1..Len(played)
    BY GameFacts DEF Typed
  <1> DEFINE Entry == [legal : BOOLEAN, book : BOOLEAN]
             own == [i \in DOMAIN played |-> [legal |-> played[i].legal, book |-> FALSE]]
  <1>2. BookMoves \in Seq(Entry) /\ Len(BookMoves) = config.book
        /\ \A i \in 1..config.book : BookMoves[i].legal
    <2>1. \A i \in 1..config.book : [legal |-> TRUE, book |-> TRUE] \in Entry
      OBVIOUS
    <2> HIDE DEF Entry
    <2>2. BookMoves \in Seq(Entry)
      <3>1. BookMoves \in [1..config.book -> Entry]
        BY <1>1, <2>1 DEF BookMoves
      <3>2. QED  BY <1>1, <3>1, SeqDef
    <2>3. QED  BY <1>1, <2>2 DEF BookMoves
  <1>3. own \in Seq(Entry) /\ Len(own) = Len(played) /\ \A i \in 1..Len(played) : own[i].legal = played[i].legal
    <2>1. \A i \in 1..Len(played) : played[i] \in Move
      BY <1>1, ElementOfSeq DEF Typed
    <2>2. \A i \in 1..Len(played) : [legal |-> played[i].legal, book |-> FALSE] \in Entry
      BY <2>1 DEF Move
    <2>3. own = [i \in 1..Len(played) |-> [legal |-> played[i].legal, book |-> FALSE]]
      BY <1>1
    <2> HIDE DEF Entry, own
    <2>4. own \in Seq(Entry)
      <3>1. own \in [1..Len(played) -> Entry]
        BY <1>1, <2>2, <2>3
      <3>2. QED  BY <1>1, <3>1, SeqDef
    <2>5. Len(own) = Len(played)
      BY <1>1, <2>3, <2>4
    <2>6. QED  BY <2>3, <2>4, <2>5
  <1>4. match_data.moves = BookMoves \o own
    BY DEF match_data
  <1> HIDE DEF own, Entry
  <1>5. /\ Len(BookMoves \o own) = n /\ DOMAIN (BookMoves \o own) = 1..n
        /\ \A i \in 1..n : (BookMoves \o own)[i] = IF i <= config.book THEN BookMoves[i] ELSE own[i - config.book]
    <2>1. /\ BookMoves \o own \in Seq(Entry) /\ Len(BookMoves \o own) = n
          /\ \A i \in 1..n : (BookMoves \o own)[i] = IF i <= config.book THEN BookMoves[i] ELSE own[i - config.book]
      BY <1>1, <1>2, <1>3, ConcatProperties
    <2>2. DOMAIN (BookMoves \o own) = 1..Len(BookMoves \o own)
      BY <2>1, LenProperties
    <2>3. QED  BY <2>1, <2>2
  <1>6. ASSUME NEW i \in 1..n  PROVE match_data.moves[i].legal \/ (i = n /\ ~InStep)
    <2>1. CASE i <= config.book
      BY <1>1, <1>2, <1>4, <1>5, <1>6, <2>1
    <2>2. CASE i > config.book
      <3>1. i - config.book \in 1..Len(played)
        BY <1>1, <2>2
      <3>2. match_data.moves[i].legal = played[i - config.book].legal
        BY <1>1, <1>3, <1>4, <1>5, <2>2, <3>1
      <3>3. played[i - config.book].legal \/ (i - config.book = Len(played) /\ ~InStep)
        BY <1>1, <3>1 DEF LegalKept, Tracked
      <3>4. QED  BY <1>1, <3>1, <3>2, <3>3
    <2>3. QED  BY <1>1, <2>1, <2>2
  <1>7. QED  BY <1>1, <1>4, <1>5, <1>6

LEMMA MinLast ==
    ASSUME NEW n \in Nat, NEW S, S \subseteq {n}
    PROVE  Min(S \cup {n + 1}) = IF n \in S THEN n ELSE n + 1
  <1>1. CASE n \in S
    <2>1. S \cup {n + 1} = {n, n + 1}
      BY <1>1
    <2>2. Min({n, n + 1}) = n
      BY DEF Min
    <2>3. QED  BY <1>1, <2>1, <2>2
  <1>2. CASE n \notin S
    <2>1. S \cup {n + 1} = {n + 1}
      BY <1>2
    <2>2. Min({n + 1}) = n + 1
      BY DEF Min
    <2>3. QED  BY <1>2, <2>1, <2>2
  <1>3. QED  BY <1>1, <1>2

LEMMA HalfCount ==
    ASSUME NEW m \in Nat, NEW d \in {0, 1}
    PROVE  Cardinality({2 * j - d : j \in 1..m}) = m
  <1> DEFINE S == {2 * j - d : j \in 1..m}
             f == [j \in 1..m |-> 2 * j - d]
  <1>1. f \in Bijection(1..m, S)
    <2>1. f \in [1..m -> S]
      OBVIOUS
    <2>2. \A a, b \in 1..m : f[a] = f[b] => a = b
      OBVIOUS
    <2>3. \A t \in S : \E j \in 1..m : f[j] = t
      OBVIOUS
    <2>4. QED  BY <2>1, <2>2, <2>3, Fun_IsBij
  <1>2. ExistsBijection(1..m, S)
    BY <1>1 DEF ExistsBijection
  <1>3. QED  BY <1>2, FS_CountingElements

\* The number of a full move is one more than the moves of black before it.
LEMMA Numbers ==
    ASSUME Typed, NEW i \in Nat \ {0}
    PROVE  addMove(match_data, config.min, i).number.full =
               IF ToMove(i - 1) = "white" \/ i = 1
               THEN 1 + Cardinality({k \in 1..(i - 1) : ToMove(k - 1) = "black"}) ELSE 0
  <1> DEFINE black == {k \in 1..(i - 1) : ToMove(k - 1) = "black"}
             d == IF config.fen.stm = "black" THEN 1 ELSE 0
  <1>1. config.fen.stm \in {"white", "black"} /\ d \in {0, 1} /\ match_data.fen = config.fen
    BY GameFacts DEF Colors, match_data
  <1>2. \A k \in Nat : ToMove(k) = (IF (k + d) % 2 = 0 THEN "white" ELSE "black")
    BY <1>1, FromFen DEF ToMove, Other
  <1>3. addMove(match_data, config.min, i).number.full =
            IF (i = 1 /\ d = 1) \/ (i + d) % 2 = 1 THEN (i + d + 1) \div 2 ELSE 0
    BY <1>1 DEF addMove, move_number
  <1> HIDE DEF d
  <1>4. (i - 1 + d) % 2 = 0 <=> (i + d) % 2 = 1
    BY <1>1
  <1>5. CASE (i + d) % 2 = 1
    <2>1. PICK m \in Nat : i + d = 2 * m + 1
      <3>1. i + d = 2 * ((i + d) \div 2) + 1 /\ (i + d) \div 2 \in Nat
        BY <1>1, <1>5
      <3>2. QED  BY <3>1
    <2>2. (i + d + 1) \div 2 = m + 1
      BY <1>1, <2>1
    <2>3. black = {2 * j - d : j \in 1..m}
      <3>1. ASSUME NEW k \in black  PROVE k \in {2 * j - d : j \in 1..m}
        <4>1. k \in 1..(i - 1) /\ (k - 1 + d) % 2 = 1
          BY <1>1, <1>2
        <4>2. k + d = 2 * ((k + d) \div 2) /\ (k + d) \div 2 \in 1..m
          BY <1>1, <2>1, <4>1
        <4>3. QED  BY <1>1, <4>1, <4>2
      <3>2. ASSUME NEW j \in 1..m  PROVE 2 * j - d \in black
        <4>1. 2 * j - d \in 1..(i - 1) /\ (2 * j - d - 1 + d) % 2 = 1
          BY <1>1, <2>1
        <4>2. ToMove(2 * j - d - 1) = "black"
          BY <1>1, <1>2, <4>1
        <4>3. QED  BY <4>1, <4>2
      <3>3. QED  BY <3>1, <3>2
    <2>4. Cardinality(black) = m
      BY <1>1, <2>3, HalfCount
    <2>5. ToMove(i - 1) = "white"
      BY <1>1, <1>2, <1>4, <1>5
    <2>6. QED  BY <1>3, <1>5, <2>2, <2>4, <2>5
  <1>6. CASE (i + d) % 2 # 1 /\ i = 1
    <2>1. d = 1 /\ black = {} /\ (i + d + 1) \div 2 = 1
      BY <1>1, <1>6
    <2>2. QED  BY <1>3, <1>6, <2>1, FS_EmptySet
  <1>7. CASE (i + d) % 2 # 1 /\ i # 1
    <2>1. ToMove(i - 1) = "black"
      BY <1>1, <1>2, <1>4, <1>7
    <2>2. QED  BY <1>3, <1>7, <2>1
  <1>8. QED  BY <1>5, <1>6, <1>7

LEMMA CountTo ==
    ASSUME NEW n \in Nat
    PROVE  Cardinality(1..n) = n
  BY FS_Interval

\* The text, and what the two files have of it.
LEMMA TextKept ==
    ASSUME Typed, Tracked, NEW n, n = config.book + Len(played), NEW legal \in Nat,
           legal = IF n > 0 /\ ~match_data.moves[n].legal THEN n - 1 ELSE n
    PROVE  /\ n \in Nat /\ Len(match_data.moves) = n
           /\ Len(Record.text) = n /\ DOMAIN Record.text = 1..n
           /\ \A i \in 1..n : /\ Record.text[i] = addMove(match_data, config.min, i)
                              /\ Record.text[i].notation = "san" <=> i <= legal
                              /\ Record.text[i].ply = i
           /\ FirstIllegal(match_data.moves) = legal + 1
           /\ InStep => legal = n
  <1>1. /\ n \in Nat /\ Len(match_data.moves) = n /\ DOMAIN match_data.moves = 1..n
        /\ \A i \in 1..n : match_data.moves[i].legal \/ (i = n /\ ~InStep)
    BY TheMoves
  <1> DEFINE S == {i \in DOMAIN match_data.moves : ~match_data.moves[i].legal}
  <1>2. S \subseteq {n} /\ (n \in S <=> (n > 0 /\ ~match_data.moves[n].legal))
    BY <1>1
  <1>3. FirstIllegal(match_data.moves) = Min(S \cup {n + 1})
    BY <1>1 DEF FirstIllegal
  <1> HIDE DEF S
  <1>4. FirstIllegal(match_data.moves) = legal + 1
    <2>1. legal + 1 = IF n \in S THEN n ELSE n + 1
      BY <1>1, <1>2
    <2>2. Min(S \cup {n + 1}) = IF n \in S THEN n ELSE n + 1
      BY <1>1, <1>2, MinLast
    <2>3. QED  BY <1>3, <2>1, <2>2
  <1>5. Min({legal + 1, n}) = n
    <2>1. n \in {legal + 1, n} /\ \A y \in {legal + 1, n} : n <= y
      BY <1>1
    <2>2. QED  BY <1>1, <2>1 DEF Min
  <1>6. Record.text = [i \in 1..n |-> addMove(match_data, config.min, i)]
    BY <1>1, <1>4, <1>5 DEF Record, Pgn
  <1>7. Len(Record.text) = n /\ DOMAIN Record.text = 1..n
    BY <1>1, <1>6
  <1>8. ASSUME NEW i \in 1..n
        PROVE  /\ Record.text[i] = addMove(match_data, config.min, i)
               /\ Record.text[i].notation = "san" <=> i <= legal
               /\ Record.text[i].ply = i
    <2>1. Record.text[i] = addMove(match_data, config.min, i)
      BY <1>6
    <2>2. /\ addMove(match_data, config.min, i).ply = i
          /\ addMove(match_data, config.min, i).notation = "san" <=> match_data.moves[i].legal
      BY DEF addMove
    <2>3. match_data.moves[i].legal <=> i <= legal
      BY <1>1
    <2>4. QED  BY <2>1, <2>2, <2>3
  <1>9. InStep => legal = n
    BY <1>1
  <1>10. QED  BY <1>1, <1>4, <1>7, <1>8, <1>9

\* Even and odd take turns.
LEMMA Parity ==
    ASSUME NEW k \in Nat
    PROVE  /\ k % 2 \in {0, 1} /\ (k + 1) % 2 \in {0, 1}
           /\ (k + 1) % 2 = 0 <=> k % 2 = 1
  OBVIOUS

\* Who is to move after the text: the player whose turn it is, unless the last answer was no move.
LEMMA TurnAfter ==
    ASSUME Typed, Tracked, NEW n, n = config.book + Len(played)
    PROVE  ToMove(n) = IF InStep THEN turn ELSE Other(turn)
  <1>1. /\ config.book \in Nat /\ Len(played) \in Nat /\ config.fen.stm \in {"white", "black"}
        /\ (~InStep => Len(played) > 0)
    BY GameFacts, EmptySeq DEF Colors, Typed, Tracked, TurnsTaken
  <1>2. ToMove(n) = IF n % 2 = 0 THEN config.fen.stm ELSE Other(config.fen.stm)
    BY FromFen DEF ToMove
  <1>3. CASE InStep
    BY <1>1, <1>2, <1>3 DEF TurnKept, Plies, Tracked
  <1>4. CASE ~InStep
    <2>1. turn = IF (n - 1) % 2 = 0 THEN config.fen.stm ELSE Other(config.fen.stm)
      BY <1>1, <1>4 DEF TurnKept, Plies, Tracked
    <2>2. PICK k \in Nat : n - 1 = k /\ n = k + 1
      BY <1>1, <1>4
    <2>3. (n - 1) % 2 = 0 <=> n % 2 # 0
      <3>1. k % 2 \in {0, 1} /\ ((k + 1) % 2 = 0 <=> k % 2 = 1)
        BY Parity
      <3>2. (k + 1) % 2 \in {0, 1}
        BY Parity
      <3>3. QED  BY <2>2, <3>1, <3>2
    <2>4. QED  BY <1>1, <1>2, <1>4, <2>1, <2>3 DEF Other
  <1>5. QED  BY <1>3, <1>4

\* The result in the record and on the score board.
Win(color) == IF color = "white" THEN "1-0" ELSE "0-1"

LEMMA Markers ==
    ASSUME Typed
    PROVE  /\ Record.marker = getResultFromMatch(result)
           /\ \A c \in Colors : Loser(c) =>
                 /\ Record.marker = Win(Other(c))
                 /\ (Score!FromMatch(result["white"]).wins = 1) <=> Win(Other(c)) = "1-0"
                 /\ (Score!FromMatch(result["white"]).losses = 1) <=> Win(Other(c)) = "0-1"
           /\ \A r \in {"NONE", "DRAW"} : result = [color \in Colors |-> r] =>
                 /\ Record.marker = (IF r = "DRAW" THEN "1/2-1/2" ELSE "*")
                 /\ Score!FromMatch(result["white"]).wins = 0 /\ Score!FromMatch(result["white"]).losses = 0
  <1>1. Record.marker = getResultFromMatch(result)
    BY DEF Record, Pgn, match_data
  <1>2. /\ Score!FromMatch(result["white"]).wins = (IF result["white"] = "WIN" THEN 1 ELSE 0)
        /\ Score!FromMatch(result["white"]).losses = (IF result["white"] = "LOSE" THEN 1 ELSE 0)
    BY DEF Score!FromMatch, Score!Bool, Score!NoStats
  <1>3. ASSUME NEW c \in Colors, Loser(c)
        PROVE  /\ Record.marker = Win(Other(c))
               /\ (Score!FromMatch(result["white"]).wins = 1) <=> Win(Other(c)) = "1-0"
               /\ (Score!FromMatch(result["white"]).losses = 1) <=> Win(Other(c)) = "0-1"
    <2>1. CASE c = "white"
      <3>1. result["white"] = "LOSE" /\ result["black"] = "WIN" /\ Win(Other(c)) = "0-1"
        BY <1>3, <2>1 DEF Loser, Other, Win
      <3>2. QED  BY <1>1, <1>2, <3>1 DEF getResultFromMatch
    <2>2. CASE c = "black"
      <3>1. result["black"] = "LOSE" /\ result["white"] = "WIN" /\ Win(Other(c)) = "1-0"
        BY <1>3, <2>2 DEF Loser, Other, Win
      <3>2. QED  BY <1>1, <1>2, <3>1 DEF getResultFromMatch
    <2>3. QED  BY <2>1, <2>2 DEF Colors
  <1>4. ASSUME NEW r \in {"NONE", "DRAW"}, result = [color \in Colors |-> r]
        PROVE  /\ Record.marker = (IF r = "DRAW" THEN "1/2-1/2" ELSE "*")
               /\ Score!FromMatch(result["white"]).wins = 0 /\ Score!FromMatch(result["white"]).losses = 0
    <2>1. result["white"] = r /\ result["black"] = r
      BY <1>4 DEF Colors
    <2>2. QED  BY <1>1, <1>2, <2>1 DEF getResultFromMatch
  <1>5. QED  BY <1>1, <1>3, <1>4

\* What the termination tells a reader, who knows that next would be to move.
Told(next) ==
    CASE termination \in {"TIMEOUT", "ILLEGAL_MOVE"} -> {Win(next)}
      [] termination = "DISCONNECT" -> {Win(Other(next))}
      [] termination = "NORMAL" -> {Win(Other(next)), "1/2-1/2"}
      [] termination = "ADJUDICATION" -> {Win(next), "1/2-1/2"}
      [] OTHER -> {"*"}

LEMMA ResultTold ==
    ASSUME IInv, Written, NEW n, n = config.book + Len(played)
    PROVE  /\ Record.marker \in Told(ToMove(n))
           /\ Score!FromMatch(result["white"]).wins = 1 <=> Record.marker = "1-0"
           /\ Score!FromMatch(result["white"]).losses = 1 <=> Record.marker = "0-1"
  <1>0. Typed /\ Grounds /\ VerdictAgrees /\ Tracked /\ pc = "over"
    BY DEF IInv, Written
  <1>1. ToMove(n) = IF InStep THEN turn ELSE Other(turn)
    BY <1>0, TurnAfter
  <1>2. turn \in Colors /\ Other(turn) \in Colors /\ Other(Other(turn)) = turn
    BY <1>0 DEF Typed, TypeOK, Other, Colors
  <1>3. ASSUME NEW c \in Colors, Loser(c), Win(Other(c)) \in Told(ToMove(n))  PROVE Record.marker \in Told(ToMove(n))
                  /\ (Score!FromMatch(result["white"]).wins = 1 <=> Record.marker = "1-0")
                  /\ (Score!FromMatch(result["white"]).losses = 1 <=> Record.marker = "0-1")
    BY <1>0, <1>3, Markers
  <1>4. CASE termination \in {"TIMEOUT", "ILLEGAL_MOVE", "DISCONNECT"}
    <2>1. Loser(turn)
      BY <1>0, <1>4 DEF VerdictAgrees, Verdict, Grounds
    <2>2. Win(Other(turn)) \in Told(ToMove(n))
      BY <1>1, <1>2, <1>4 DEF Told, InStep
    <2>3. QED  BY <1>2, <1>3, <2>1, <2>2
  <1>5. CASE termination = "NORMAL" /\ reason.message = "mates"
    <2>1. Loser(turn)
      <3>1. PICK c \in Colors : Loser(c)
        <4>1. Loser(Other(reason.color))
          BY <1>0, <1>5 DEF VerdictAgrees, Verdict
        <4>2. Other(reason.color) \in Colors
          BY DEF Other, Colors
        <4>3. QED  BY <4>1, <4>2
      <3>2. QED  BY <1>0, <1>5, <3>1 DEF VerdictAgrees, Verdict
    <2>2. Win(Other(turn)) \in Told(ToMove(n))
      BY <1>1, <1>2, <1>5 DEF Told, InStep
    <2>3. QED  BY <1>2, <1>3, <2>1, <2>2
  <1>6. CASE termination = "ADJUDICATION" /\ reason.message = "wins by adjudication"
    <2>1. Loser(Other(turn))
      BY <1>0, <1>6 DEF Grounds, them
    <2>2. Win(turn) \in Told(ToMove(n))
      BY <1>1, <1>2, <1>6 DEF Told, InStep
    <2>3. QED  BY <1>2, <1>3, <2>1, <2>2
  <1>7. CASE termination \in {"NORMAL", "ADJUDICATION"} /\ reason.message = "draw"
    <2>1. result = [color \in Colors |-> "DRAW"]
      BY <1>0, <1>7 DEF VerdictAgrees, Verdict
    <2>2. "1/2-1/2" \in Told(ToMove(n))
      BY <1>7 DEF Told
    <2>3. QED  BY <1>0, <2>1, <2>2, Markers
  <1>8. CASE termination = "None"
    <2>1. result = [color \in Colors |-> "NONE"]
      BY <1>0, <1>8 DEF VerdictAgrees, Verdict
    <2>2. "*" \in Told(ToMove(n))
      BY <1>8 DEF Told
    <2>3. QED  BY <1>0, <2>1, <2>2, Markers
  <1>9. QED  BY <1>0, <1>4, <1>5, <1>6, <1>7, <1>8 DEF Grounds, Written

\* A book made of the game gives back the moves before one that ended it.
LEMMA BookBack ==
    ASSUME IInv, NEW n, n = config.book + Len(played), NEW legal \in Nat,
           legal = IF n > 0 /\ ~match_data.moves[n].legal THEN n - 1 ELSE n,
           NEW ended, ended = IF n > 0 /\ termination = "NORMAL" THEN 1 ELSE 0
    PROVE  PgnOpening(AsBook, -1) = [fen |-> config.fen, moves |-> [i \in 1..(legal - ended) |-> i]]
  <1>0. Typed /\ Tracked
    BY DEF IInv
  <1> DEFINE text == Record.text
             read == [i \in 1..n |-> [move |-> i, san |-> text[i].notation = "san", over |-> i = n /\ termination = "NORMAL"]]
             S == {i \in 1..n : ~read[i].san \/ read[i].over}
  <1>1. /\ n \in Nat /\ Len(match_data.moves) = n
        /\ Len(text) = n /\ DOMAIN text = 1..n
        /\ \A i \in 1..n : /\ text[i] = addMove(match_data, config.min, i)
                           /\ text[i].notation = "san" <=> i <= legal
                           /\ text[i].ply = i
        /\ FirstIllegal(match_data.moves) = legal + 1
        /\ InStep => legal = n
    BY <1>0, TextKept
  <1> HIDE DEF text
  <1>2. AsBook = [fen |-> config.fen, moves |-> read]
    BY <1>0, <1>1, FromFen DEF AsBook, text
  <1>a. n \in Nat
    BY <1>1
  <1>3. Len(read) = n /\ DOMAIN read = 1..n
    BY <1>a
  <1>4. S \subseteq {n} /\ (n \in S <=> (n > 0 /\ (legal < n \/ termination = "NORMAL")))
    <2>1. \A i \in 1..n : read[i].san <=> i <= legal
      BY <1>1
    <2>2. \A i \in 1..n : read[i].over <=> (i = n /\ termination = "NORMAL")
      OBVIOUS
    <2> HIDE DEF read
    <2>3. legal <= n /\ n - 1 <= legal
      BY <1>1
    <2>4. QED  BY <1>1, <2>1, <2>2, <2>3
  <1>5. StopsAt(read) = Min(S \cup {n + 1})
    BY <1>3 DEF StopsAt
  <1>6. \A i \in 1..n : read[i].move = i
    OBVIOUS
  <1> HIDE DEF read, S
  <1>7. StopsAt(read) - 1 = legal - ended
    <2>1. Min(S \cup {n + 1}) = IF n \in S THEN n ELSE n + 1
      BY <1>1, <1>4, MinLast
    <2>2. termination = "NORMAL" => legal = n
      BY <1>1 DEF InStep
    <2>3. legal \in {n - 1, n} /\ legal <= n
      BY <1>1
    <2>4. QED  BY <1>1, <1>4, <1>5, <2>1, <2>2, <2>3
  <1>8. legal - ended \in Int /\ legal - ended <= n
    BY <1>1
  <1>9. PgnOpening([fen |-> config.fen, moves |-> read], -1) =
            [fen |-> config.fen, moves |-> [i \in 1..(StopsAt(read) - 1) |-> read[i].move]]
    BY DEF PgnOpening
  <1>10. [i \in 1..(legal - ended) |-> read[i].move] = [i \in 1..(legal - ended) |-> i]
    BY <1>1, <1>6, <1>8
  <1>11. QED  BY <1>2, <1>7, <1>9, <1>10

LEMMA RecordKept ==
    ASSUME IInv, Written
    PROVE  RecordAgrees
  <1> DEFINE n == config.book + Len(played)
             legal == IF n > 0 /\ ~match_data.moves[n].legal THEN n - 1 ELSE n
             ended == IF n > 0 /\ termination = "NORMAL" THEN 1 ELSE 0
             text == Record.text
  <1>0. Typed /\ Tracked
    BY DEF IInv
  <1>1. n \in Nat /\ legal \in Nat
    BY <1>0, GameFacts DEF Typed
  <1> HIDE DEF n, ended
  <1>n. n = config.book + Len(played) /\ ended = IF n > 0 /\ termination = "NORMAL" THEN 1 ELSE 0
    BY DEF n, ended
  <1>l. legal = IF n > 0 /\ ~match_data.moves[n].legal THEN n - 1 ELSE n
    OBVIOUS
  <1> HIDE DEF legal, text
  <1>2. /\ n \in Nat /\ Len(match_data.moves) = n
        /\ Len(text) = n /\ DOMAIN text = 1..n
        /\ \A i \in 1..n : /\ text[i] = addMove(match_data, config.min, i)
                           /\ text[i].notation = "san" <=> i <= legal
                           /\ text[i].ply = i
        /\ FirstIllegal(match_data.moves) = legal + 1
        /\ InStep => legal = n
    BY <1>0, <1>1, <1>n, <1>l, TextKept DEF text
  <1>3. Cardinality({i \in DOMAIN text : text[i].notation = "san"}) = legal
    <2>1. legal <= n
      BY <1>1, <1>l
    <2>2. {i \in DOMAIN text : text[i].notation = "san"} = 1..legal
      BY <1>1, <1>2, <2>1
    <2>3. QED  BY <1>1, <2>2, CountTo
  <1>4. \A i \in DOMAIN text :
            text[i].number.full =
                IF ToMove(i - 1) = "white" \/ i = 1
                THEN 1 + Cardinality({k \in 1..(i - 1) : ToMove(k - 1) = "black"}) ELSE 0
    <2> SUFFICES ASSUME NEW i \in 1..n
                 PROVE  text[i].number.full =
                            IF ToMove(i - 1) = "white" \/ i = 1
                            THEN 1 + Cardinality({k \in 1..(i - 1) : ToMove(k - 1) = "black"}) ELSE 0
      BY <1>2
    <2>1. i \in Nat \ {0} /\ text[i] = addMove(match_data, config.min, i)
      BY <1>1, <1>2
    <2>2. addMove(match_data, config.min, i).number.full =
              IF ToMove(i - 1) = "white" \/ i = 1
              THEN 1 + Cardinality({k \in 1..(i - 1) : ToMove(k - 1) = "black"}) ELSE 0
      BY <1>0, <2>1, Numbers
    <2>3. QED  BY <2>1, <2>2
  <1>5. Epd(match_data) = [fen |-> From, plies |-> legal]
    <2>1. match_data.fen = From
      BY <1>0, FromFen DEF match_data
    <2>2. QED  BY <1>1, <1>2, <2>1 DEF Epd
  <1>6. PgnOpening(AsBook, -1) = [fen |-> config.fen, moves |-> [i \in 1..(legal - ended) |-> i]]
    BY <1>1, <1>n, <1>l, BookBack
  <1>7. /\ Record.marker \in Told(ToMove(Len(text)))
        /\ Score!FromMatch(result["white"]).wins = 1 <=> Record.marker = "1-0"
        /\ Score!FromMatch(result["white"]).losses = 1 <=> Record.marker = "0-1"
    BY <1>2, <1>n, ResultTold
  <1>8. ended = IF Len(text) > 0 /\ termination = "NORMAL" THEN 1 ELSE 0
    BY <1>2, <1>n
  <1>9. QED
    BY <1>2, <1>3, <1>4, <1>5, <1>6, <1>7, <1>8 DEF RecordAgrees, Told, Win, text

\* What the PGN and EPD files keep of a game tells what happened in it, and gives its moves back
\* (PgnBuilder, EpdBuilder, PgnReader over MatchData).
THEOREM RecordAgreesAlways == Spec => []RecordAgrees
<1>1. IInv => RecordAgrees
  BY RecordKept DEF RecordAgrees
<1>2. QED  BY <1>1, Invariant, PTL

-----------------------------------------------------------------------------
(* Sums.  Induction is by the least natural number that is not in a set.   *)

LEMMA LeastNatural ==
    ASSUME NEW T \in SUBSET Nat, T # {}
    PROVE  \E n \in T : \A m \in T : n <= m
  <1>1. IsWellFoundedOn(OpToRel(<, Nat), Nat)
    BY NatLessThanWellFounded
  <1>2. \E x \in T : \A y \in T : ~(<<y, x>> \in OpToRel(<, Nat))
    BY <1>1, WFMin
  <1>3. \E x \in T : \A y \in T : ~(y < x)
    BY <1>2 DEF OpToRel
  <1>4. QED  BY <1>3

LEMMA Inductive ==
    ASSUME NEW S \in SUBSET Nat, 0 \in S, \A n \in S : n + 1 \in S
    PROVE  S = Nat
  <1> SUFFICES ASSUME Nat \ S # {} PROVE FALSE
    OBVIOUS
  <1>1. PICK n \in Nat \ S : \A m \in Nat \ S : n <= m
    BY LeastNatural
  <1>2. n - 1 \in Nat /\ n - 1 \in S
    BY <1>1
  <1>3. QED  BY <1>1, <1>2

\* The partial sums of n amounts.
Sums(a, n) == {g \in [0..n -> Nat] : g[0] = 0 /\ \A i \in 1..n : g[i] = g[i - 1] + a[i]}

Amounts(n) == [1..n -> Nat]

LEMMA SumsExist ==
    ASSUME NEW N \in Nat, NEW a \in Amounts(N), NEW n \in 0..N
    PROVE  \E g : g \in Sums(a, n)
  <1> DEFINE S == {k \in Nat : k <= N => \E g : g \in Sums(a, k)}
  <1>1. 0 \in S
    <2>1. [i \in 0..0 |-> 0] \in Sums(a, 0)
      BY DEF Sums
    <2>2. QED  BY <2>1
  <1>2. ASSUME NEW k \in S PROVE k + 1 \in S
    <2> SUFFICES ASSUME k + 1 <= N PROVE \E g : g \in Sums(a, k + 1)
      OBVIOUS
    <2>1. k \in Nat /\ \E g : g \in Sums(a, k)
      OBVIOUS
    <2>2. PICK g : g \in Sums(a, k)
      BY <2>1
    <2> DEFINE h == [i \in 0..(k + 1) |-> IF i <= k THEN g[i] ELSE g[k] + a[k + 1]]
    <2>3. g \in [0..k -> Nat] /\ g[0] = 0 /\ \A i \in 1..k : g[i] = g[i - 1] + a[i]
      BY <2>2 DEF Sums
    <2>4. a[k + 1] \in Nat
      BY <2>1 DEF Amounts
    <2>5. h \in [0..(k + 1) -> Nat] /\ h[0] = 0
      BY <2>1, <2>3, <2>4
    <2>6. ASSUME NEW i \in 1..(k + 1) PROVE h[i] = h[i - 1] + a[i]
      <3>1. CASE i = k + 1
        BY <2>1, <3>1
      <3>2. CASE i # k + 1
        BY <2>1, <2>3, <3>2
      <3>3. QED  BY <3>1, <3>2
    <2> HIDE DEF h
    <2>7. QED  BY <2>5, <2>6 DEF Sums
  <1> HIDE DEF S
  <1>3. S = Nat
    BY <1>1, <1>2, Inductive DEF S
  <1>4. QED  BY <1>3 DEF S

LEMMA TotalIs ==
    ASSUME NEW N \in Nat, NEW a \in Amounts(N), NEW n \in 0..N, NEW g \in Sums(a, n)
    PROVE  Total(a, n) = g[n]
  <1> DEFINE Defines(s) == s = [i \in 0..n |-> IF i = 0 THEN 0 ELSE s[i - 1] + a[i]]
  <1>0. g \in [0..n -> Nat] /\ g[0] = 0 /\ \A i \in 1..n : g[i] = g[i - 1] + a[i]
    BY DEF Sums
  <1>1. Total(a, n) = (CHOOSE s : Defines(s))[n]
    BY DEF Total
  <1>2. Defines(g)
    <2>1. \A i \in 0..n : g[i] = IF i = 0 THEN 0 ELSE g[i - 1] + a[i]
      BY <1>0
    <2>2. g = [i \in 0..n |-> g[i]]
      BY <1>0
    <2>3. QED  BY <2>1, <2>2
  <1>3. ASSUME NEW s, Defines(s) PROVE s[n] = g[n]
    <2> DEFINE S == {k \in Nat : k <= n => s[k] = g[k]}
    <2>1. \A i \in 0..n : s[i] = IF i = 0 THEN 0 ELSE s[i - 1] + a[i]
      BY <1>3
    <2>2. 0 \in S
      BY <1>0, <2>1
    <2>3. ASSUME NEW k \in S PROVE k + 1 \in S
      BY <1>0, <2>1
    <2> HIDE DEF S
    <2>4. S = Nat
      BY <2>2, <2>3, Inductive DEF S
    <2>5. QED  BY <2>4 DEF S
  <1> HIDE DEF Defines
  <1>4. Defines(CHOOSE s : Defines(s))
    BY <1>2
  <1>5. QED  BY <1>1, <1>3, <1>4

LEMMA TotalSteps ==
    ASSUME NEW N \in Nat, NEW a \in Amounts(N)
    PROVE  /\ Total(a, 0) = 0
           /\ \A n \in 0..N : Total(a, n) \in Nat
           /\ \A n \in 0..(N - 1) : Total(a, n + 1) = Total(a, n) + a[n + 1]
  <1>1. ASSUME NEW n \in 0..N PROVE Total(a, n) \in Nat /\ (n = 0 => Total(a, n) = 0)
    <2>1. PICK g : g \in Sums(a, n)
      BY SumsExist
    <2>2. Total(a, n) = g[n]
      BY <2>1, TotalIs
    <2>3. QED  BY <2>1, <2>2 DEF Sums
  <1>2. ASSUME NEW n \in 0..(N - 1) PROVE Total(a, n + 1) = Total(a, n) + a[n + 1]
    <2>0. n \in 0..N /\ n + 1 \in 0..N
      OBVIOUS
    <2>1. PICK g : g \in Sums(a, n + 1)
      BY <2>0, SumsExist
    <2>2. Total(a, n + 1) = g[n + 1]
      BY <2>0, <2>1, TotalIs
    <2> DEFINE h == [i \in 0..n |-> g[i]]
    <2>3. g \in [0..(n + 1) -> Nat] /\ g[0] = 0 /\ \A i \in 1..(n + 1) : g[i] = g[i - 1] + a[i]
      BY <2>1 DEF Sums
    <2>4. h \in Sums(a, n) /\ h[n] = g[n]
      BY <2>3 DEF Sums
    <2>5. Total(a, n) = h[n]
      BY <2>0, <2>4, TotalIs
    <2>6. QED  BY <2>2, <2>3, <2>4, <2>5
  <1>3. QED  BY <1>1, <1>2

LEMMA TotalSame ==
    ASSUME NEW N \in Nat, NEW M \in Nat, NEW a \in Amounts(N), NEW b \in Amounts(M),
           NEW n \in 0..N, n <= M, \A i \in 1..n : a[i] = b[i]
    PROVE  Total(a, n) = Total(b, n)
  <1>1. PICK g : g \in Sums(a, n)
    BY SumsExist
  <1>2. g \in Sums(b, n) /\ n \in 0..M
    BY <1>1 DEF Sums
  <1>3. QED  BY <1>1, <1>2, TotalIs

LEMMA Euclid ==
    ASSUME NEW k \in Nat, NEW m \in Nat \ {0}, NEW q \in Int, NEW r \in 0..(m - 1), k = m * q + r
    PROVE  k \div m = q /\ k % m = r
  OBVIOUS

LEMMA DivMod ==
    ASSUME NEW k \in Nat, NEW m \in Nat \ {0}
    PROVE  k \div m \in Nat /\ k % m \in 0..(m - 1) /\ k = m * (k \div m) + (k % m)
  <1>1. k % m \in 0..(m - 1)
    OBVIOUS
  <1>2. k = m * (k \div m) + (k % m)
    OBVIOUS
  <1>3. k \div m \in Int
    OBVIOUS
  <1>4. k \div m \in Nat
    OBVIOUS
  <1>5. QED  BY <1>1, <1>2, <1>4

LEMMA Round ==
    ASSUME NEW k \in Nat, NEW m \in Nat \ {0}
    PROVE  IF k % m = m - 1 THEN (k + 1) \div m = (k \div m) + 1 /\ (k + 1) % m = 0
           ELSE (k + 1) \div m = k \div m /\ (k + 1) % m = (k % m) + 1
  <1> DEFINE q == k \div m
             r == k % m
  <1>1. q \in Nat /\ r \in 0..(m - 1) /\ k = m * q + r
    BY DivMod
  <1> HIDE DEF q, r
  <1>2. CASE r = m - 1
    <2>1. k + 1 = m * (q + 1) + 0
      <3>1. m * (q + 1) = m * q + m
        BY <1>1
      <3>2. m * q \in Int
        BY <1>1
      <3>3. QED  BY <1>1, <1>2, <3>1, <3>2
    <2>2. (k + 1) \div m = q + 1 /\ (k + 1) % m = 0
      BY <1>1, <2>1, Euclid
    <2>3. QED  BY <1>2, <2>2 DEF q, r
  <1>3. CASE r # m - 1
    <2>1. k + 1 = m * q + (r + 1)
      <3>2. m * q \in Int
        BY <1>1
      <3>3. QED  BY <1>1, <3>2
    <2>2. r + 1 \in 0..(m - 1) /\ k + 1 \in Nat
      BY <1>1, <1>3
    <2>3. (k + 1) \div m = q /\ (k + 1) % m = r + 1
      BY <1>1, <2>1, <2>2, Euclid
    <2>4. QED  BY <1>3, <2>3 DEF q, r
  <1>4. QED  BY <1>2, <1>3

-----------------------------------------------------------------------------
(* The clocks, for any moves p under limits l.                             *)

MadeIn(p, c) == {i \in DOMAIN p : p[i].by = c}
UsedIn(p, c) == [i \in DOMAIN p |-> IF i \in MadeIn(p, c) THEN p[i].elapsed ELSE 0]
SpentIn(p, c, n) == Total(UsedIn(p, c), n)
MovesIn(p, c, n) == Cardinality(MadeIn(p, c) \cap 1..n)
ControlsOf(l, k) == IF l.moves = 0 THEN 1 ELSE 1 + (k \div l.moves)
GivenOf(l, k) == l.time * ControlsOf(l, k) + l.increment * k

\* What the move after k brings: the time of the next control, if it is the last of one.
Refill(l, k) == IF l.moves # 0 /\ k % l.moves = l.moves - 1 THEN l.time ELSE 0

\* After k moves: what is left and what is used together are what was given, and at most the margins more.
Balance(l, k, spent, clk) ==
    /\ l.fixed_time # 0 => clk.time_left = l.fixed_time
    /\ l.moves # 0 => clk.moves_left = l.moves - (k % l.moves)
    /\ (l.fixed_time = 0 /\ ~Unlimited(l)) =>
           /\ clk.time_left >= 0
           /\ clk.time_left + spent >= GivenOf(l, k) + l.increment
           /\ clk.time_left + spent <= GivenOf(l, k) + l.increment + l.timemargin * k

\* Every move was made in time, or it was not the last.
Affords(l, p, c) ==
    IF l.fixed_time # 0
    THEN \A n \in MadeIn(p, c) : p[n].elapsed <= l.fixed_time + l.timemargin
    ELSE ~Unlimited(l) =>
             \A n \in MadeIn(p, c) :
                 SpentIn(p, c, n) <= GivenOf(l, MovesIn(p, c, n)) + l.timemargin * MovesIn(p, c, n)

Overdrawn(l, p, c) ==
    IF l.fixed_time # 0
    THEN Last(p).by = c /\ Last(p).elapsed > l.fixed_time
    ELSE \E n \in MadeIn(p, c) : SpentIn(p, c, n) > GivenOf(l, MovesIn(p, c, n) - 1) + l.increment

LEMMA GivenNext ==
    ASSUME NEW l \in LimitSet, NEW k \in Nat
    PROVE  /\ GivenOf(l, k) \in Nat /\ l.timemargin * k \in Nat
           /\ GivenOf(l, k + 1) = GivenOf(l, k) + l.increment + Refill(l, k)
           /\ l.timemargin * (k + 1) = l.timemargin * k + l.timemargin
  <1>1. l.time \in Nat /\ l.moves \in Nat /\ l.increment \in Nat /\ l.timemargin \in Nat
    BY DEF LimitSet
  <1> DEFINE t == l.time
             m == l.moves
             inc == l.increment
             c == ControlsOf(l, k)
             d == ControlsOf(l, k + 1)
  <1>2. c \in Nat /\ d = c + (IF m # 0 /\ k % m = m - 1 THEN 1 ELSE 0)
    <2>1. CASE m = 0
      BY <2>1 DEF ControlsOf
    <2>2. CASE m # 0
      <3>0. m \in Nat \ {0}
        BY <1>1, <2>2
      <3> HIDE DEF m
      <3>a. k \div m \in Nat
        BY <3>0, DivMod
      <3>b. (k + 1) \div m = (k \div m) + (IF k % m = m - 1 THEN 1 ELSE 0)
        <4>1. IF k % m = m - 1 THEN (k + 1) \div m = (k \div m) + 1 ELSE (k + 1) \div m = k \div m
          BY <3>0, Round
        <4>2. QED  BY <3>a, <4>1
      <3>1. k \div m \in Nat /\ (k + 1) \div m = (k \div m) + (IF k % m = m - 1 THEN 1 ELSE 0)
        BY <3>a, <3>b
      <3>2. c = 1 + (k \div m) /\ d = 1 + ((k + 1) \div m)
        BY <2>2 DEF ControlsOf, m
      <3> HIDE DEF c, d
      <3>3. QED  BY <2>2, <3>1, <3>2
    <2>3. QED  BY <2>1, <2>2
  <1>3. GivenOf(l, k) = t * c + inc * k /\ GivenOf(l, k + 1) = t * d + inc * (k + 1)
    BY DEF GivenOf
  <1>t. t \in Nat /\ m \in Nat /\ inc \in Nat
    BY <1>1
  <1> HIDE DEF t, m, inc, c, d
  <1>4. inc * (k + 1) = inc * k + inc /\ inc * k \in Nat /\ t * c \in Nat /\ t * (c + 1) = t * c + t
    BY <1>t, <1>2
  <1>5. t * d = t * c + (IF m # 0 /\ k % m = m - 1 THEN t ELSE 0)
    BY <1>t, <1>2, <1>4
  <1>6. l.timemargin * k \in Nat /\ l.timemargin * (k + 1) = l.timemargin * k + l.timemargin
    BY <1>1
  <1>7. GivenOf(l, k) \in Nat
    BY <1>3, <1>4
  <1>8. GivenOf(l, k + 1) = GivenOf(l, k) + inc + (IF m # 0 /\ k % m = m - 1 THEN t ELSE 0)
    BY <1>3, <1>4, <1>5, <1>t
  <1>9. QED  BY <1>6, <1>7, <1>8 DEF m, inc, t, Refill

\* What an answer does to a clock.
LEMMA Paid ==
    ASSUME NEW l \in LimitSet, NEW clk \in [time_left : Int, moves_left : Nat], NEW e \in Nat, NEW k \in Nat,
           l.moves # 0 => clk.moves_left = l.moves - (k % l.moves)
    PROVE  /\ Refill(l, k) \in Nat
           /\ l.moves # 0 => updateTime(l, clk, e).moves_left = l.moves - ((k + 1) % l.moves)
           /\ ~Unlimited(l) =>
                /\ (Exceeded(l, clk, e) <=> (clk.time_left + Refill(l, k)) - e < -l.timemargin)
                /\ (~Exceeded(l, clk, e) =>
                     updateTime(l, clk, e).time_left =
                         IF l.fixed_time # 0 THEN l.fixed_time
                         ELSE Larger((clk.time_left + Refill(l, k)) - e, 0) + l.increment)
  <1>1. /\ l.time \in Nat /\ l.moves \in Nat /\ l.increment \in Nat /\ l.fixed_time \in Nat /\ l.timemargin \in Nat
        /\ clk.time_left \in Int /\ clk.moves_left \in Nat
    BY DEF LimitSet
  <1> DEFINE counted == Counted(l, clk)
  <1>2. /\ counted \in [time_left : Int, moves_left : Nat]
        /\ counted.time_left = clk.time_left + Refill(l, k)
        /\ l.moves # 0 => counted.moves_left = l.moves - ((k + 1) % l.moves)
    <2>1. CASE l.moves = 0
      BY <1>1, <2>1 DEF Counted, Refill
    <2>2. CASE l.moves # 0 /\ k % l.moves = l.moves - 1
      <3>0. l.moves \in Nat \ {0}
        BY <1>1, <2>2
      <3>a. (k + 1) % l.moves = 0
        BY <2>2, <3>0, Round
      <3>1. (k + 1) % l.moves = 0 /\ clk.moves_left = 1
        BY <1>1, <2>2, <3>a
      <3>2. QED  BY <1>1, <2>2, <3>1 DEF Counted, Refill
    <2>3. CASE l.moves # 0 /\ k % l.moves # l.moves - 1
      <3>1. (k + 1) % l.moves = (k % l.moves) + 1 /\ clk.moves_left # 1 /\ k % l.moves \in 0..(l.moves - 1)
        <4>0. l.moves \in Nat \ {0}
          BY <1>1, <2>3
        <4>1. (k + 1) % l.moves = (k % l.moves) + 1
          BY <2>3, <4>0, Round
        <4>2. k % l.moves \in 0..(l.moves - 1)
          BY <4>0, DivMod
        <4>3. QED  BY <1>1, <2>3, <4>1, <4>2
      <3>2. counted = [clk EXCEPT !.moves_left = clk.moves_left - 1]
        BY <2>3, <3>1 DEF Counted
      <3>3. clk.moves_left - 1 = l.moves - ((k + 1) % l.moves) /\ clk.moves_left - 1 \in Nat
        BY <1>1, <2>3, <3>1
      <3>4. counted.time_left = clk.time_left /\ counted.moves_left = clk.moves_left - 1
            /\ counted \in [time_left : Int, moves_left : Nat]
        BY <3>2, <3>3
      <3>5. QED  BY <1>1, <2>3, <3>3, <3>4 DEF Refill
    <2>4. QED  BY <2>1, <2>2, <2>3
  <1>3. Refill(l, k) \in Nat
    BY <1>1 DEF Refill
  <1>4. Exceeded(l, clk, e) <=> (~Unlimited(l) /\ counted.time_left - e < -l.timemargin)
    BY DEF Exceeded, Left
  <1>5. updateTime(l, clk, e) =
            IF Unlimited(l) THEN counted
            ELSE IF Exceeded(l, clk, e) THEN [counted EXCEPT !.time_left = counted.time_left - e]
            ELSE [counted EXCEPT !.time_left = IF l.fixed_time # 0 THEN l.fixed_time
                                               ELSE Larger(counted.time_left - e, 0) + l.increment]
    BY DEF updateTime
  <1> HIDE DEF counted
  <1>6. \A n : /\ [counted EXCEPT !.time_left = n].time_left = n
               /\ [counted EXCEPT !.time_left = n].moves_left = counted.moves_left
    BY <1>2
  <1>7. updateTime(l, clk, e).moves_left = counted.moves_left
    BY <1>5, <1>6
  <1>8. (~Unlimited(l) /\ ~Exceeded(l, clk, e)) =>
            updateTime(l, clk, e).time_left =
                IF l.fixed_time # 0 THEN l.fixed_time ELSE Larger(counted.time_left - e, 0) + l.increment
    BY <1>5, <1>6
  <1>9. counted.time_left = clk.time_left + Refill(l, k)
    BY <1>2
  <1>10. ~Unlimited(l) => (Exceeded(l, clk, e) <=> (clk.time_left + Refill(l, k)) - e < -l.timemargin)
    BY <1>4, <1>9
  <1>11. (~Unlimited(l) /\ ~Exceeded(l, clk, e)) =>
            updateTime(l, clk, e).time_left =
                IF l.fixed_time # 0 THEN l.fixed_time ELSE Larger((clk.time_left + Refill(l, k)) - e, 0) + l.increment
    BY <1>8, <1>9
  <1>12. l.moves # 0 => updateTime(l, clk, e).moves_left = l.moves - ((k + 1) % l.moves)
    BY <1>2, <1>7
  <1>13. QED  BY <1>3, <1>10, <1>11, <1>12

\* The balance of a clock that has left time, in numbers.
LEMMA Reckoned ==
    ASSUME NEW left \in Int, NEW spent \in Nat, NEW e \in Nat, NEW refill \in Nat, NEW inc \in Nat, NEW margin \in Nat,
           NEW g \in Nat, NEW margins \in Nat, left >= 0, left + spent >= g + inc, left + spent <= g + inc + margins
    PROVE  /\ (left + refill) - e < -margin => spent + e > g + inc
           /\ (left + refill) - e >= -margin =>
                /\ spent + e <= (g + inc + refill) + (margins + margin)
                /\ Larger((left + refill) - e, 0) + inc >= 0
                /\ (Larger((left + refill) - e, 0) + inc) + (spent + e) >= (g + inc + refill) + inc
                /\ (Larger((left + refill) - e, 0) + inc) + (spent + e) <= (g + inc + refill) + inc + (margins + margin)
  BY DEF Larger

\* The moves a player has made are numbers of moves.
LEMMA MovesKept ==
    ASSUME NEW p \in Seq(Move), NEW c, NEW n \in Nat
    PROVE  /\ MadeIn(p, c) \subseteq 1..Len(p) /\ UsedIn(p, c) \in Amounts(Len(p))
           /\ IsFiniteSet(MadeIn(p, c) \cap 1..n) /\ MovesIn(p, c, n) \in Nat
  <1>1. MadeIn(p, c) \subseteq 1..Len(p)
    BY DEF MadeIn
  <1>2. UsedIn(p, c) \in Amounts(Len(p))
    <2>0. \A i \in 1..Len(p) : p[i] \in Move
      OBVIOUS
    <2>1. \A i \in 1..Len(p) : p[i].elapsed \in Nat
      BY <2>0 DEF Move
    <2>2. QED  BY <2>1 DEF UsedIn, Amounts
  <1>3. IsFiniteSet(MadeIn(p, c) \cap 1..n)
    <2>1. IsFiniteSet(1..n) /\ MadeIn(p, c) \cap 1..n \subseteq 1..n
      BY FS_Interval
    <2>2. QED  BY <2>1, FS_Subset
  <1>4. MovesIn(p, c, n) \in Nat
    BY <1>3, FS_CardinalityType DEF MovesIn
  <1>5. QED  BY <1>1, <1>2, <1>3, <1>4

Adds(p, move, q) == q = Append(p, move)

\* One more move leaves what was made and used before.
LEMMA OneMore ==
    ASSUME NEW p \in Seq(Move), NEW move \in Move, NEW q, Adds(p, move, q), NEW N \in Nat, N = Len(p)
    PROVE  /\ q \in Seq(Move) /\ Len(q) = N + 1 /\ q[N + 1] = move /\ Last(q) = move
           /\ (\A n \in 1..N : q[n] = p[n])
  <1>1. q \in Seq(Move) /\ Len(q) = N + 1 /\ q[N + 1] = move /\ (\A n \in 1..N : q[n] = p[n])
    BY DEF Adds
  <1>2. Last(q) = move
    BY <1>1 DEF Last
  <1>3. QED  BY <1>1, <1>2

LEMMA MadeNext ==
    ASSUME NEW p \in Seq(Move), NEW move \in Move, NEW q, Adds(p, move, q), NEW N \in Nat, N = Len(p), NEW c \in Colors
    PROVE  /\ MadeIn(p, c) = MadeIn(q, c) \cap (1..N)
           /\ MadeIn(q, c) \subseteq 1..(N + 1)
           /\ (N + 1 \in MadeIn(q, c)) <=> (move.by = c)
  <1>1. Len(q) = N + 1 /\ q[N + 1] = move /\ (\A n \in 1..N : q[n] = p[n])
    BY OneMore
  <1>2. DOMAIN p = 1..N /\ DOMAIN q = 1..(N + 1)
    BY <1>1 DEF Adds
  <1>3. MadeIn(p, c) = MadeIn(q, c) \cap (1..N) /\ MadeIn(q, c) \subseteq 1..(N + 1)
    BY <1>1, <1>2 DEF MadeIn
  <1>4. (N + 1 \in MadeIn(q, c)) <=> (move.by = c)
    BY <1>1, <1>2 DEF MadeIn
  <1>5. QED  BY <1>3, <1>4

\* It leaves the sums, and adds itself to those of its player.
LEMMA Summed ==
    ASSUME NEW p \in Seq(Move), NEW move \in Move, NEW q, Adds(p, move, q), NEW c \in Colors,
           NEW N \in Nat, N = Len(p)
    PROVE  /\ \A n \in 0..N : SpentIn(q, c, n) = SpentIn(p, c, n) /\ MovesIn(q, c, n) = MovesIn(p, c, n)
           /\ SpentIn(p, c, N) \in Nat
           /\ SpentIn(q, c, N + 1) = SpentIn(p, c, N) + (IF move.by = c THEN move.elapsed ELSE 0)
           /\ MovesIn(q, c, N + 1) = MovesIn(p, c, N) + (IF move.by = c THEN 1 ELSE 0)
  <1>1. q \in Seq(Move) /\ Len(q) = N + 1 /\ q[N + 1] = move /\ (\A n \in 1..N : q[n] = p[n])
    BY OneMore
  <1>d. DOMAIN p = 1..N /\ DOMAIN q = 1..(N + 1)
    BY <1>1
  <1>3. MadeIn(p, c) = MadeIn(q, c) \cap (1..N)
    BY MadeNext
  <1>4. (N + 1 \in MadeIn(q, c)) <=> (move.by = c)
    BY MadeNext
  <1>5. MadeIn(q, c) \subseteq 1..(N + 1) /\ N \in 0..(N + 1) /\ N + 1 \in Nat
    BY MadeNext
  <1>6. /\ UsedIn(p, c) \in Amounts(N) /\ UsedIn(q, c) \in Amounts(N + 1)
        /\ \A i \in 1..N : UsedIn(p, c)[i] = UsedIn(q, c)[i]
        /\ UsedIn(q, c)[N + 1] = (IF move.by = c THEN move.elapsed ELSE 0)
    <2>1. UsedIn(p, c) \in Amounts(N) /\ UsedIn(q, c) \in Amounts(N + 1)
      BY <1>1, MovesKept
    <2>2. \A i \in 1..N : UsedIn(p, c)[i] = UsedIn(q, c)[i]
      BY <1>1, <1>3, <1>d DEF UsedIn
    <2>3. UsedIn(q, c)[N + 1] = (IF move.by = c THEN move.elapsed ELSE 0)
      BY <1>1, <1>4, <1>d DEF UsedIn
    <2>4. QED  BY <2>1, <2>2, <2>3
  <1>7. \A n \in 0..N : SpentIn(q, c, n) = SpentIn(p, c, n)
    <2> SUFFICES ASSUME NEW n \in 0..N PROVE Total(UsedIn(q, c), n) = Total(UsedIn(p, c), n)
      BY DEF SpentIn
    <2>1. \A i \in 1..n : UsedIn(p, c)[i] = UsedIn(q, c)[i]
      BY <1>6
    <2>2. n <= N + 1
      OBVIOUS
    <2>3. Total(UsedIn(p, c), n) = Total(UsedIn(q, c), n)
      BY <1>5, <1>6, <2>1, <2>2, TotalSame
    <2>4. QED  BY <2>3
  <1>8. \A n \in 0..N : MovesIn(q, c, n) = MovesIn(p, c, n)
    <2> SUFFICES ASSUME NEW n \in 0..N PROVE MadeIn(q, c) \cap 1..n = MadeIn(p, c) \cap 1..n
      BY DEF MovesIn
    <2>1. QED  BY <1>3
  <1>9. SpentIn(p, c, N) \in Nat
    <2>1. N \in 0..N
      OBVIOUS
    <2>2. QED  BY <1>6, <2>1, TotalSteps DEF SpentIn
  <1>10. SpentIn(q, c, N + 1) = SpentIn(p, c, N) + (IF move.by = c THEN move.elapsed ELSE 0)
    <2>1. N \in 0..((N + 1) - 1) /\ N \in 0..N
      OBVIOUS
    <2>2. Total(UsedIn(q, c), N + 1) = Total(UsedIn(q, c), N) + UsedIn(q, c)[N + 1]
      BY <1>5, <1>6, <2>1, TotalSteps
    <2>3. SpentIn(q, c, N) = SpentIn(p, c, N)
      BY <1>7, <2>1
    <2>4. QED  BY <1>6, <2>2, <2>3 DEF SpentIn
  <1>11. MovesIn(q, c, N + 1) = MovesIn(p, c, N) + (IF move.by = c THEN 1 ELSE 0)
    <2> DEFINE made == MadeIn(p, c) \cap (1..N)
    <2>1. IsFiniteSet(made) /\ N + 1 \notin made /\ MovesIn(p, c, N) \in Nat
      BY MovesKept
    <2>2. MadeIn(q, c) \cap 1..(N + 1) = IF move.by = c THEN made \cup {N + 1} ELSE made
      BY <1>3, <1>4, <1>5
    <2>3. MovesIn(p, c, N) = Cardinality(made)
      BY DEF MovesIn
    <2> HIDE DEF made
    <2>4. Cardinality(made \cup {N + 1}) = Cardinality(made) + 1
      BY <2>1, FS_AddElement
    <2>5. CASE move.by = c
      <3>1. MovesIn(q, c, N + 1) = Cardinality(made \cup {N + 1})
        BY <2>2, <2>5 DEF MovesIn
      <3>2. QED  BY <2>1, <2>3, <2>4, <2>5, <3>1
    <2>6. CASE move.by # c
      <3>1. MovesIn(q, c, N + 1) = Cardinality(made)
        BY <2>2, <2>6 DEF MovesIn
      <3>2. QED  BY <2>1, <2>3, <2>6, <3>1
    <2>7. QED  BY <2>5, <2>6
  <1>12. \A n \in 0..N : SpentIn(q, c, n) = SpentIn(p, c, n) /\ MovesIn(q, c, n) = MovesIn(p, c, n)
    BY <1>7, <1>8
  <1>13. QED  BY <1>9, <1>10, <1>11, <1>12

Balanced(l, p, c, clk) == Balance(l, MovesIn(p, c, Len(p)), SpentIn(p, c, Len(p)), clk)

\* The other player's move changes nothing for this one.
LEMMA OtherMoved ==
    ASSUME NEW l, NEW p \in Seq(Move), NEW move \in Move, NEW q, Adds(p, move, q), NEW c \in Colors, move.by # c, NEW clk
    PROVE  (Balanced(l, p, c, clk) => Balanced(l, q, c, clk)) /\ (Affords(l, p, c) => Affords(l, q, c))
  <1> DEFINE N == Len(p)
  <1>1. N \in Nat /\ N = Len(p)
    OBVIOUS
  <1> HIDE DEF N
  <1>2. /\ Len(q) = N + 1
        /\ \A n \in MadeIn(q, c) : n \in MadeIn(p, c)
        /\ \A n \in MadeIn(p, c) : n \in 0..N /\ q[n] = p[n]
    BY <1>1, OneMore, MadeNext
  <1>5. /\ \A n \in 0..N : SpentIn(q, c, n) = SpentIn(p, c, n) /\ MovesIn(q, c, n) = MovesIn(p, c, n)
        /\ SpentIn(p, c, N) \in Nat
        /\ SpentIn(q, c, N + 1) = SpentIn(p, c, N) + 0
        /\ MovesIn(q, c, N + 1) = MovesIn(p, c, N) + 0
    BY <1>1, Summed
  <1>3. MovesIn(p, c, N) \in Nat
    BY <1>1, MovesKept
  <1>4. SpentIn(q, c, N + 1) = SpentIn(p, c, N) /\ MovesIn(q, c, N + 1) = MovesIn(p, c, N)
    BY <1>3, <1>5
  <1>6. Balanced(l, p, c, clk) => Balanced(l, q, c, clk)
    <2>1. MovesIn(p, c, Len(p)) = MovesIn(q, c, Len(q)) /\ SpentIn(p, c, Len(p)) = SpentIn(q, c, Len(q))
      BY <1>1, <1>2, <1>4
    <2>2. QED  BY <2>1 DEF Balanced
  <1>7. Affords(l, p, c) => Affords(l, q, c)
    <2>1. ASSUME \A n \in MadeIn(p, c) : p[n].elapsed <= l.fixed_time + l.timemargin
          PROVE  \A n \in MadeIn(q, c) : q[n].elapsed <= l.fixed_time + l.timemargin
      BY <1>2, <2>1
    <2>2. ASSUME \A n \in MadeIn(p, c) :
                     SpentIn(p, c, n) <= GivenOf(l, MovesIn(p, c, n)) + l.timemargin * MovesIn(p, c, n)
          PROVE  \A n \in MadeIn(q, c) :
                     SpentIn(q, c, n) <= GivenOf(l, MovesIn(q, c, n)) + l.timemargin * MovesIn(q, c, n)
      BY <1>2, <1>5, <2>2
    <2>3. QED  BY <2>1, <2>2 DEF Affords
  <1>8. QED  BY <1>6, <1>7

\* A player pays for its move: in time the balance is kept, late it is overdrawn.
LEMMA OwnMoved ==
    ASSUME NEW l \in LimitSet, l.fixed_time # 0 => l.time + l.increment = 0,
           NEW p \in Seq(Move), NEW move \in Move, NEW q, Adds(p, move, q), NEW c \in Colors, move.by = c,
           NEW clk \in [time_left : Int, moves_left : Nat], Balanced(l, p, c, clk), Affords(l, p, c)
    PROVE  /\ ~Exceeded(l, clk, move.elapsed) =>
                Balanced(l, q, c, updateTime(l, clk, move.elapsed)) /\ Affords(l, q, c)
           /\ Exceeded(l, clk, move.elapsed) => Overdrawn(l, q, c)
  <1> DEFINE N == Len(p)
             k == MovesIn(p, c, N)
             spent == SpentIn(p, c, N)
             e == move.elapsed
             refill == Refill(l, k)
             paid == updateTime(l, clk, e)
  <1>1. N \in Nat /\ N = Len(p)
    OBVIOUS
  <1> HIDE DEF N
  <1>2. /\ l.time \in Nat /\ l.moves \in Nat /\ l.increment \in Nat /\ l.fixed_time \in Nat /\ l.timemargin \in Nat
        /\ e \in Nat /\ clk.time_left \in Int
    BY DEF LimitSet, Move
  <1>3. Len(q) = N + 1 /\ q[N + 1] = move /\ Last(q) = move /\ (\A n \in 1..N : q[n] = p[n])
    BY <1>1, OneMore
  <1>4. MadeIn(p, c) = MadeIn(q, c) \cap (1..N) /\ MadeIn(q, c) \subseteq 1..(N + 1) /\ N + 1 \in MadeIn(q, c)
    BY <1>1, MadeNext
  <1>5. /\ \A n \in 0..N : SpentIn(q, c, n) = SpentIn(p, c, n) /\ MovesIn(q, c, n) = MovesIn(p, c, n)
        /\ spent \in Nat
        /\ SpentIn(q, c, N + 1) = spent + e
        /\ MovesIn(q, c, N + 1) = k + 1
    BY <1>1, Summed
  <1>6. k \in Nat
    BY <1>1, MovesKept
  <1>7. Balance(l, k, spent, clk)
    BY <1>1 DEF Balanced
  <1>s. \A n \in MadeIn(q, c) : n \in MadeIn(p, c) \/ n = N + 1
    BY <1>1, <1>4
  <1>t. \A n \in MadeIn(p, c) : n \in 1..N /\ n \in 0..N
    BY <1>1, <1>4
  <1> HIDE DEF k, spent, e, refill, paid
  <1>8. /\ refill \in Nat
        /\ l.moves # 0 => paid.moves_left = l.moves - ((k + 1) % l.moves)
        /\ ~Unlimited(l) =>
             /\ Exceeded(l, clk, e) <=> (clk.time_left + refill) - e < -l.timemargin
             /\ ~Exceeded(l, clk, e) =>
                  paid.time_left = IF l.fixed_time # 0 THEN l.fixed_time
                                   ELSE Larger((clk.time_left + refill) - e, 0) + l.increment
    <2>1. l.moves # 0 => clk.moves_left = l.moves - (k % l.moves)
      BY <1>7 DEF Balance
    <2>2. QED  BY <1>2, <1>6, <2>1, Paid DEF paid, refill
  <1>9. Unlimited(l) => ~Exceeded(l, clk, e)
    BY DEF Exceeded
  <1>10. /\ GivenOf(l, k) \in Nat /\ l.timemargin * k \in Nat
         /\ GivenOf(l, k + 1) = GivenOf(l, k) + l.increment + refill
         /\ l.timemargin * (k + 1) = l.timemargin * k + l.timemargin
    BY <1>6, GivenNext DEF refill
  <1>11. CASE l.fixed_time # 0
    <2>1. refill = 0 /\ ~Unlimited(l) /\ clk.time_left = l.fixed_time
      BY <1>2, <1>7, <1>11 DEF refill, Refill, Unlimited, Balance
    <2>2. Exceeded(l, clk, e) => Overdrawn(l, q, c)
      BY <1>2, <1>3, <1>8, <1>11, <2>1 DEF Overdrawn, e
    <2>3. ASSUME ~Exceeded(l, clk, e) PROVE Affords(l, q, c)
      <3>1. e <= l.fixed_time + l.timemargin
        BY <1>2, <1>8, <2>1, <2>3
      <3>2. \A n \in MadeIn(p, c) : p[n].elapsed <= l.fixed_time + l.timemargin
        BY <1>11 DEF Affords
      <3>3. \A n \in MadeIn(q, c) : q[n].elapsed <= l.fixed_time + l.timemargin
        BY <1>3, <1>s, <1>t, <3>1, <3>2 DEF e
      <3>4. QED  BY <1>11, <3>3 DEF Affords
    <2>4. ASSUME ~Exceeded(l, clk, e) PROVE Balance(l, k + 1, spent + e, paid)
      <3>1. paid.time_left = l.fixed_time
        BY <1>8, <1>11, <2>1, <2>4
      <3>2. QED  BY <1>8, <1>11, <3>1 DEF Balance
    <2>5. QED  BY <1>3, <1>5, <2>2, <2>3, <2>4 DEF Balanced, e, paid
  <1>12. CASE l.fixed_time = 0 /\ Unlimited(l)
    <2>1. Balance(l, k + 1, spent + e, paid)
      BY <1>8, <1>12 DEF Balance
    <2>2. Affords(l, q, c)
      BY <1>12 DEF Affords
    <2>3. QED  BY <1>3, <1>5, <1>9, <1>12, <2>1, <2>2 DEF Balanced, e, paid
  <1>13. CASE l.fixed_time = 0 /\ ~Unlimited(l)
    <2>1. /\ clk.time_left >= 0
          /\ clk.time_left + spent >= GivenOf(l, k) + l.increment
          /\ clk.time_left + spent <= GivenOf(l, k) + l.increment + l.timemargin * k
      BY <1>7, <1>13 DEF Balance
    <2>a. /\ (clk.time_left + refill) - e < -l.timemargin => spent + e > GivenOf(l, k) + l.increment
          /\ (clk.time_left + refill) - e >= -l.timemargin =>
               /\ spent + e <= (GivenOf(l, k) + l.increment + refill) + (l.timemargin * k + l.timemargin)
               /\ Larger((clk.time_left + refill) - e, 0) + l.increment >= 0
               /\ (Larger((clk.time_left + refill) - e, 0) + l.increment) + (spent + e)
                      >= (GivenOf(l, k) + l.increment + refill) + l.increment
               /\ (Larger((clk.time_left + refill) - e, 0) + l.increment) + (spent + e)
                      <= (GivenOf(l, k) + l.increment + refill) + l.increment + (l.timemargin * k + l.timemargin)
      BY <1>2, <1>5, <1>8, <1>10, <2>1, Reckoned
    <2>2. ASSUME Exceeded(l, clk, e) PROVE Overdrawn(l, q, c)
      <3>1. spent + e > GivenOf(l, k) + l.increment
        BY <1>8, <1>13, <2>2, <2>a
      <3>2. (k + 1) - 1 = k
        BY <1>6
      <3>3. SpentIn(q, c, N + 1) > GivenOf(l, MovesIn(q, c, N + 1) - 1) + l.increment
        BY <1>5, <3>1, <3>2
      <3>4. QED  BY <1>4, <1>13, <3>3 DEF Overdrawn
    <2>3. ASSUME ~Exceeded(l, clk, e) PROVE Affords(l, q, c) /\ Balance(l, k + 1, spent + e, paid)
      <3>1. (clk.time_left + refill) - e >= -l.timemargin
        BY <1>2, <1>8, <1>13, <2>3
      <3>2. spent + e <= GivenOf(l, k + 1) + l.timemargin * (k + 1)
        BY <1>10, <2>a, <3>1
      <3>3. \A n \in MadeIn(p, c) :
                SpentIn(p, c, n) <= GivenOf(l, MovesIn(p, c, n)) + l.timemargin * MovesIn(p, c, n)
        BY <1>13 DEF Affords
      <3>4. \A n \in MadeIn(q, c) :
                SpentIn(q, c, n) <= GivenOf(l, MovesIn(q, c, n)) + l.timemargin * MovesIn(q, c, n)
        BY <1>5, <1>s, <1>t, <3>2, <3>3
      <3>5. Affords(l, q, c)
        BY <1>13, <3>4 DEF Affords
      <3>6. paid.time_left = Larger((clk.time_left + refill) - e, 0) + l.increment
        BY <1>8, <1>13, <2>3
      <3>7. /\ paid.time_left >= 0
            /\ paid.time_left + (spent + e) >= GivenOf(l, k + 1) + l.increment
            /\ paid.time_left + (spent + e) <= GivenOf(l, k + 1) + l.increment + l.timemargin * (k + 1)
        BY <1>10, <2>a, <3>1, <3>6
      <3>8. QED  BY <1>8, <1>13, <3>5, <3>7 DEF Balance
    <2>4. QED  BY <1>3, <1>5, <2>2, <2>3 DEF Balanced, e, paid
  <1>14. QED  BY <1>11, <1>12, <1>13

\* Before the game is over both clocks are balanced; a forfeit is earned, and who is not the loser was in time.
ClockKept ==
    /\ pc # "over" => \A c \in Colors : Balanced(limits(c), played, c, clock[c]) /\ Affords(limits(c), played, c)
    /\ \A c \in Colors : /\ Forfeits(c) => Overdrawn(limits(c), played, c)
                         /\ result[c] # "LOSE" => Affords(limits(c), played, c)

LEMMA ClockFacts ==
    ASSUME Typed
    PROVE  \A c \in Colors :
              /\ limits(c) \in LimitSet /\ (limits(c).fixed_time # 0 => limits(c).time + limits(c).increment = 0)
              /\ clock[c] \in [time_left : Int, moves_left : Nat]
  BY MatchAssumption DEF Typed, TypeOK, limits

LEMMA ClockInit ==
    ASSUME Init
    PROVE  ClockKept
  <1>1. Typed
    BY TypedInit
  <1>2. pc # "over" /\ \A c \in Colors : result[c] = "NONE"
    BY DEF Init
  <1>3. ASSUME NEW c \in Colors  PROVE Balanced(limits(c), played, c, clock[c]) /\ Affords(limits(c), played, c)
    <2> DEFINE l == limits(c)
    <2>1. l \in LimitSet /\ played = << >> /\ played \in Seq(Move)
      BY <1>1, ClockFacts DEF Init, Typed
    <2>2. /\ l.time \in Nat /\ l.moves \in Nat /\ l.increment \in Nat /\ l.fixed_time \in Nat /\ l.timemargin \in Nat
      BY <2>1 DEF LimitSet
    <2>3. /\ clock[c].time_left = IF l.fixed_time # 0 THEN l.fixed_time ELSE l.time + l.increment
          /\ clock[c].moves_left = l.moves
      BY DEF Init, Clock, limits
    <2> HIDE DEF l
    <2>4. GivenOf(l, 0) = l.time /\ (l.moves # 0 => 0 % l.moves = 0) /\ l.timemargin * 0 = 0
      <3>1. l.moves # 0 => (0 \div l.moves = 0 /\ 0 % l.moves = 0)
        <4> SUFFICES ASSUME l.moves # 0 PROVE 0 \div l.moves = 0 /\ 0 % l.moves = 0
          OBVIOUS
        <4>1. l.moves \in Nat \ {0} /\ 0 \in Int /\ 0 \in 0..(l.moves - 1) /\ 0 = l.moves * 0 + 0
          BY <2>2
        <4>2. QED  BY <4>1, Euclid
      <3>2. ControlsOf(l, 0) = 1
        BY <3>1 DEF ControlsOf
      <3>3. l.time * 1 = l.time /\ l.increment * 0 = 0 /\ l.timemargin * 0 = 0
        BY <2>2
      <3>4. QED  BY <2>2, <3>1, <3>2, <3>3 DEF GivenOf
    <2>5. Len(played) = 0 /\ MadeIn(played, c) = {}
      BY <2>1 DEF MadeIn
    <2>6. MovesIn(played, c, 0) = 0
      BY <2>5, FS_EmptySet DEF MovesIn
    <2>7. SpentIn(played, c, 0) = 0
      <3>1. UsedIn(played, c) \in Amounts(0) /\ 0 \in Nat
        BY <2>1, <2>5, MovesKept
      <3>2. QED  BY <3>1, TotalSteps DEF SpentIn
    <2>8. Balance(l, 0, 0, clock[c])
      <3>1. l.fixed_time # 0 => clock[c].time_left = l.fixed_time
        BY <2>3
      <3>2. l.moves # 0 => clock[c].moves_left = l.moves - (0 % l.moves)
        BY <2>2, <2>3, <2>4
      <3>3. l.fixed_time = 0 => clock[c].time_left = l.time + l.increment
        BY <2>3
      <3>4. l.fixed_time = 0 =>
                /\ clock[c].time_left >= 0
                /\ clock[c].time_left + 0 >= GivenOf(l, 0) + l.increment
                /\ clock[c].time_left + 0 <= GivenOf(l, 0) + l.increment + l.timemargin * 0
        <4>1. GivenOf(l, 0) + l.increment + l.timemargin * 0 = l.time + l.increment
          BY <2>2, <2>4
        <4>2. QED  BY <2>2, <2>4, <3>3, <4>1
      <3>5. QED  BY <3>1, <3>2, <3>4 DEF Balance
    <2>9. Affords(l, played, c)
      BY <2>5 DEF Affords
    <2>10. QED  BY <2>5, <2>6, <2>7, <2>8, <2>9 DEF Balanced, l
  <1>4. QED  BY <1>2, <1>3 DEF ClockKept, Forfeits, Verdict

\* An answer: the clock is charged, and the game goes on, or ends for the player.
Charged(move) ==
    /\ move.by = us /\ config' = config /\ Adds(played, move, played')
    /\ clock' = [clock EXCEPT ![us] = updateTime(limits(us), clock[us], move.elapsed)]
    /\ \/ pc' = "loop" /\ ~Exceeded(limits(us), clock[us], move.elapsed) /\ result' = result /\ termination' = termination
       \/ /\ pc' = "over" /\ result' = [color \in Colors |-> IF color = us THEN "LOSE" ELSE "WIN"]
          /\ termination' = "TIMEOUT" => Exceeded(limits(us), clock[us], move.elapsed)

\* The other steps.
Uncharged == config' = config /\ played' = played /\ termination' # "TIMEOUT" /\ (pc' = "over" \/ clock' = clock)

LEMMA Charges ==
    ASSUME Typed, NEW e \in config.evaluations, NEW elapsed \in config.times, NEW zeroes \in BOOLEAN, NEW legal \in BOOLEAN,
           Answer(e, elapsed, zeroes, legal)
    PROVE  \E move \in Move : /\ move.elapsed = elapsed /\ move.by = us /\ Adds(played, move, played')
                              /\ clock' = [clock EXCEPT ![us] = updateTime(limits(us), clock[us], move.elapsed)]
  <1> DEFINE move == [by |-> us, eval |-> e, elapsed |-> elapsed, zeroes |-> zeroes, legal |-> legal, book |-> FALSE]
  <1>1. move \in Move /\ move.elapsed = elapsed /\ move.by = us
    BY Facts DEF Move
  <1>2. played' = Append(played, move)
    BY DEF Answer
  <1>3. clock' = [clock EXCEPT ![us] = updateTime(limits(us), clock[us], elapsed)]
    BY DEF Answer
  <1> HIDE DEF move
  <1>4. QED  BY <1>1, <1>2, <1>3 DEF Adds

LEMMA ClockSteps ==
    ASSUME Typed, Grounds, Next
    PROVE  pc # "over" /\ (Uncharged \/ \E move \in Move : Charged(move))
  <1> USE DEF trackers, data
  <1>0. pc # "over" /\ termination = "None"
    BY Steps DEF Grounds, Untold
  <1>1. CASE StartFails \/ Started \/ Interrupt \/ Continue \/ Ask \/ InterruptThink \/ Throw \/ Stop
    BY <1>1, <1>0 DEF StartFails, Started, Interrupt, Continue, Ask, InterruptThink, Throw, Stop, Uncharged
  <1>2. CASE GameOver \/ AdjudicateResign \/ AdjudicateDraw \/ Disconnect
    BY <1>2, <1>0 DEF GameOver, AdjudicateResign, AdjudicateDraw, Disconnect, End, Uncharged
  <1>3. CASE IllegalMove
    <2> DEFINE no == FALSE
    <2>1. PICK e \in config.evaluations, elapsed \in config.times : Answer(e, elapsed, no, no)
      BY <1>3 DEF IllegalMove
    <2>a. no \in BOOLEAN
      OBVIOUS
    <2> HIDE DEF no
    <2>2. PICK move \in Move : /\ move.elapsed = elapsed /\ move.by = us /\ Adds(played, move, played')
                               /\ clock' = [clock EXCEPT ![us] = updateTime(limits(us), clock[us], move.elapsed)]
      BY <2>1, <2>a, Charges
    <2>3. End(us, "ILLEGAL_MOVE", [color |-> us, message |-> "makes an illegal move"])
      BY <1>3 DEF IllegalMove
    <2>4. us # "none"
      BY Facts DEF Colors
    <2>5. /\ pc' = "over" /\ config' = config /\ termination' = "ILLEGAL_MOVE"
          /\ result' = [color \in Colors |-> IF color = us THEN "LOSE" ELSE "WIN"]
      BY <2>3, <2>4 DEF End
    <2>6. Charged(move)
      BY <2>2, <2>5 DEF Charged
    <2>7. QED  BY <1>0, <2>6
  <1>4. CASE TimeForfeit
    <2> DEFINE no == FALSE
    <2>1. PICK e \in config.evaluations, elapsed \in config.times, some \in BOOLEAN :
              Answer(e, elapsed, no, some) /\ Late(elapsed)
      BY <1>4 DEF TimeForfeit
    <2>a. no \in BOOLEAN
      OBVIOUS
    <2> HIDE DEF no
    <2>2. PICK move \in Move : /\ move.elapsed = elapsed /\ move.by = us /\ Adds(played, move, played')
                               /\ clock' = [clock EXCEPT ![us] = updateTime(limits(us), clock[us], move.elapsed)]
      BY <2>1, <2>a, Charges
    <2>3. End(us, "TIMEOUT", [color |-> us, message |-> "loses on time"])
      BY <1>4 DEF TimeForfeit
    <2>4. us # "none"
      BY Facts DEF Colors
    <2>5. /\ pc' = "over" /\ config' = config
          /\ result' = [color \in Colors |-> IF color = us THEN "LOSE" ELSE "WIN"]
      BY <2>3, <2>4 DEF End
    <2>6. Charged(move)
      BY <2>1, <2>2, <2>5 DEF Charged, Late
    <2>7. QED  BY <1>0, <2>6
  <1>5. CASE MakeMove
    <2>1. PICK e \in config.evaluations, elapsed \in config.times, zeroes \in config.zeroes :
              Answer(e, elapsed, zeroes, TRUE) /\ ~Late(elapsed)
      BY <1>5 DEF MakeMove
    <2> DEFINE legal == TRUE
    <2>a. Answer(e, elapsed, zeroes, legal) /\ zeroes \in BOOLEAN /\ legal \in BOOLEAN
      BY <2>1, Facts
    <2> HIDE DEF legal
    <2>2. PICK move \in Move : /\ move.elapsed = elapsed /\ move.by = us /\ Adds(played, move, played')
                               /\ clock' = [clock EXCEPT ![us] = updateTime(limits(us), clock[us], move.elapsed)]
      BY <2>a, Charges
    <2>3. pc' = "loop" /\ config' = config /\ result' = result /\ termination' = termination
      BY <1>5 DEF MakeMove
    <2>4. Charged(move)
      BY <2>1, <2>2, <2>3 DEF Charged, Late
    <2>5. QED  BY <1>0, <2>4
  <1>6. QED  BY <1>0, <1>1, <1>2, <1>3, <1>4, <1>5 DEF Next, start, playMove

LEMMA UnchargedClock ==
    ASSUME IInv, ClockKept, pc # "over", Uncharged
    PROVE  ClockKept'
  <1>1. \A c \in Colors : Balanced(limits(c), played, c, clock[c]) /\ Affords(limits(c), played, c)
    BY DEF ClockKept
  <1>2. /\ \A c : limits(c)' = limits(c)
        /\ played' = played /\ termination' # "TIMEOUT" /\ (pc' = "over" \/ clock' = clock)
    BY DEF Uncharged, limits
  <1>3. \A c \in Colors : ~Forfeits(c)'
    BY <1>2 DEF Forfeits
  <1>4. \A c \in Colors : Affords(limits(c)', played', c)
    BY <1>1, <1>2
  <1>5. pc' # "over" => \A c \in Colors : Balanced(limits(c)', played', c, clock'[c])
    BY <1>1, <1>2
  <1>6. QED  BY <1>3, <1>4, <1>5 DEF ClockKept

LEMMA ChargedClock ==
    ASSUME IInv, ClockKept, pc # "over", NEW move \in Move, Charged(move)
    PROVE  ClockKept'
  <1> DEFINE l(c) == config.limits[c]
             e == move.elapsed
  <1>0. Typed /\ Grounds
    BY DEF IInv
  <1>1. /\ \A c \in Colors : /\ l(c) \in LimitSet /\ (l(c).fixed_time # 0 => l(c).time + l(c).increment = 0)
                             /\ clock[c] \in [time_left : Int, moves_left : Nat]
        /\ played \in Seq(Move) /\ us \in Colors
    BY <1>0, ClockFacts, Facts DEF Typed, limits
  <1>2. \A c \in Colors : Balanced(l(c), played, c, clock[c]) /\ Affords(l(c), played, c)
    BY DEF ClockKept, limits
  <1>3. /\ move.by = us /\ Adds(played, move, played')
        /\ clock' = [clock EXCEPT ![us] = updateTime(l(us), clock[us], e)]
        /\ \/ pc' = "loop" /\ ~Exceeded(l(us), clock[us], e) /\ result' = result /\ termination' = termination
           \/ /\ pc' = "over" /\ result' = [color \in Colors |-> IF color = us THEN "LOSE" ELSE "WIN"]
              /\ termination' = "TIMEOUT" => Exceeded(l(us), clock[us], e)
    BY DEF Charged, limits
  <1>k. \A c : limits(c)' = l(c)
    BY DEF Charged, limits
  <1>4. clock \in [Colors -> [time_left : Int, moves_left : Nat]]
    BY <1>0 DEF Typed, TypeOK
  <1>5. clock'[us] = updateTime(l(us), clock[us], e) /\ \A c \in Colors : c # us => clock'[c] = clock[c]
    BY <1>1, <1>3, <1>4
  <1> HIDE DEF l
  <1>6. /\ ~Exceeded(l(us), clock[us], e) => Balanced(l(us), played', us, clock'[us]) /\ Affords(l(us), played', us)
        /\ Exceeded(l(us), clock[us], e) => Overdrawn(l(us), played', us)
    <2>1. /\ Balanced(l(us), played, us, clock[us]) /\ Affords(l(us), played, us)
          /\ clock[us] \in [time_left : Int, moves_left : Nat]
          /\ l(us) \in LimitSet /\ (l(us).fixed_time # 0 => l(us).time + l(us).increment = 0)
      BY <1>1, <1>2
    <2>2. /\ ~Exceeded(l(us), clock[us], e) =>
                Balanced(l(us), played', us, updateTime(l(us), clock[us], e)) /\ Affords(l(us), played', us)
          /\ Exceeded(l(us), clock[us], e) => Overdrawn(l(us), played', us)
      BY <1>1, <1>3, <2>1, OwnMoved
    <2>3. QED  BY <1>5, <2>2
  <1>7. ASSUME NEW c \in Colors, c # us
        PROVE  Balanced(l(c), played', c, clock'[c]) /\ Affords(l(c), played', c)
    <2>1. Balanced(l(c), played, c, clock[c]) /\ Affords(l(c), played, c) /\ move.by # c /\ l(c) \in LimitSet
      BY <1>1, <1>2, <1>3, <1>7
    <2>2. Balanced(l(c), played', c, clock[c]) /\ Affords(l(c), played', c)
      BY <1>1, <1>3, <2>1, OtherMoved
    <2>3. QED  BY <1>5, <1>7, <2>2
  <1>8. CASE pc' = "loop"
    <2>1. ~Exceeded(l(us), clock[us], e) /\ result' = result /\ termination' = termination
      BY <1>3, <1>8
    <2>2. \A c \in Colors : Balanced(l(c), played', c, clock'[c]) /\ Affords(l(c), played', c)
      BY <1>6, <1>7, <2>1
    <2>3. \A c \in Colors : ~Forfeits(c)'
      BY <1>8 DEF Forfeits, Verdict
    <2>4. QED  BY <1>k, <2>2, <2>3 DEF ClockKept
  <1>9. CASE pc' = "over"
    <2>1. /\ result' = [color \in Colors |-> IF color = us THEN "LOSE" ELSE "WIN"]
          /\ termination' = "TIMEOUT" => Exceeded(l(us), clock[us], e)
      BY <1>3, <1>9
    <2>2. ASSUME NEW c \in Colors PROVE Forfeits(c)' => Overdrawn(l(c), played', c)
      <3>1. Forfeits(c)' => (termination' = "TIMEOUT" /\ result'[c] = "LOSE")
        BY DEF Forfeits, Loser
      <3>2. result'[c] = "LOSE" => c = us
        BY <2>1
      <3>3. QED  BY <1>6, <2>1, <3>1, <3>2
    <2>3. ASSUME NEW c \in Colors PROVE result'[c] # "LOSE" => Affords(l(c), played', c)
      <3>1. result'[c] # "LOSE" => c # us
        BY <2>1
      <3>2. QED  BY <1>7, <3>1
    <2>4. QED  BY <1>k, <1>9, <2>2, <2>3 DEF ClockKept
  <1>10. QED  BY <1>3, <1>8, <1>9

\* What the property says was given is what the balance says: the move's increment is there, and the
\* time of the next control is not, but after the last move of one.
LEMMA GivenAsked ==
    ASSUME NEW l \in LimitSet, NEW k \in Nat \ {0}
    PROVE  /\ Given(l, k) = GivenOf(l, k - 1) + l.increment
           /\ ~LastOfControl(l, k) => Given(l, k) = GivenOf(l, k)
  <1>1. l.time \in Nat /\ l.moves \in Nat /\ l.increment \in Nat /\ k - 1 \in Nat /\ (k - 1) + 1 = k
    BY DEF LimitSet
  <1>2. Given(l, k) = GivenOf(l, k - 1) + l.increment
    <2>1. Given(l, k) = l.time * ControlsOf(l, k - 1) + l.increment * k
      BY DEF Given, ControlsOf
    <2>2. l.time * ControlsOf(l, k - 1) \in Int
      <3>1. l.moves # 0 => (k - 1) \div l.moves \in Nat
        BY <1>1, DivMod
      <3>2. ControlsOf(l, k - 1) \in Int
        BY <3>1 DEF ControlsOf
      <3>3. QED  BY <1>1, <3>2
    <2>3. l.increment * k = l.increment * (k - 1) + l.increment /\ l.increment * (k - 1) \in Int
      BY <1>1
    <2>4. QED  BY <1>1, <2>1, <2>2, <2>3 DEF GivenOf
  <1>3. ASSUME ~LastOfControl(l, k)  PROVE Given(l, k) = GivenOf(l, k)
    <2>1. Refill(l, k - 1) = 0
      <3>1. l.moves # 0 => (k - 1) % l.moves # l.moves - 1
        <4> SUFFICES ASSUME l.moves # 0, (k - 1) % l.moves = l.moves - 1  PROVE FALSE
          OBVIOUS
        <4>1. k % l.moves = 0
          BY <1>1, Round
        <4>2. QED  BY <1>3, <4>1 DEF LastOfControl
      <3>2. QED  BY <3>1 DEF Refill
    <2>2. GivenOf(l, k) = GivenOf(l, k - 1) + l.increment + Refill(l, k - 1) /\ GivenOf(l, k - 1) \in Nat
      BY <1>1, GivenNext
    <2>3. QED  BY <1>1, <1>2, <2>1, <2>2
  <1>4. QED  BY <1>2, <1>3

LEMMA MadeCounts ==
    ASSUME NEW p \in Seq(Move), NEW c \in Colors, NEW n \in MadeIn(p, c)
    PROVE  MovesIn(p, c, n) \in Nat \ {0}
  <1>1. n \in 1..Len(p) /\ n \in Nat /\ n \in 1..n
    BY DEF MadeIn
  <1> DEFINE S == MadeIn(p, c) \cap 1..n
  <1>2. IsFiniteSet(S)
    <2>1. IsFiniteSet(1..n) /\ S \subseteq 1..n
      BY <1>1, FS_Interval
    <2>2. QED  BY <2>1, FS_Subset
  <1>3. n \in S
    BY <1>1
  <1> HIDE DEF S
  <1>4. Cardinality(S) \in Nat /\ Cardinality(S) # 0
    BY <1>2, <1>3, FS_CardinalityType, FS_EmptySet
  <1>5. QED  BY <1>4 DEF MovesIn, S

\* Before every move what is left on a clock and what was used make what was given, and at most the
\* margins more, and moves_left is the place in the control (TimeControl::updateTime).
THEOREM ClockInvariant == Spec => []ClockKept
<1>1. Init => ClockKept
  BY ClockInit
<1>2. IInv /\ ClockKept /\ [Next]_vars => ClockKept'
  <2> SUFFICES ASSUME IInv, ClockKept, [Next]_vars PROVE ClockKept'
    OBVIOUS
  <2>1. CASE Next
    <3>1. pc # "over" /\ (Uncharged \/ \E move \in Move : Charged(move))
      BY <2>1, ClockSteps DEF IInv
    <3>2. QED  BY <3>1, UnchargedClock, ChargedClock
  <2>2. CASE UNCHANGED vars
    BY <2>2 DEF ClockKept, Forfeits, Verdict, Loser, limits, vars, trackers, data
  <2>3. QED  BY <2>1, <2>2
<1>3. QED  BY <1>1, <1>2, Invariant, PTL DEF Spec

\* A player loses on time only for more time than it was given, and nobody who used more, and the margins,
\* plays on, but in the last move of a control, for which the code takes the time of the next one
\* (TimeControl::updateTime, Match::setEngineTimeoutStatus).
THEOREM ClockFairAlways == Spec => []ClockFair
<1>1. IInv /\ ClockKept => ClockFair
  <2> SUFFICES ASSUME IInv, ClockKept, NEW color \in Colors
               PROVE  LET l == limits(color) IN
                      IF l.fixed_time # 0
                      THEN /\ Forfeits(color) => Last(played).by = color /\ Last(played).elapsed > l.fixed_time
                           /\ result[color] # "LOSE" =>
                                \A n \in MadeBy(color) : played[n].elapsed <= l.fixed_time + l.timemargin
                      ELSE /\ Forfeits(color) =>
                                \E n \in MadeBy(color) : Spent(color, n) > Given(l, Moves(color, n))
                           /\ (result[color] # "LOSE" /\ ~Unlimited(l)) =>
                                \A n \in MadeBy(color) :
                                    LET k == Moves(color, n) IN
                                    LastOfControl(l, k) \/ Spent(color, n) <= Given(l, k) + l.timemargin * k
    BY DEF ClockFair
  <2> DEFINE l == limits(color)
  <2>1. /\ \A n : Spent(color, n) = SpentIn(played, color, n) /\ Moves(color, n) = MovesIn(played, color, n)
        /\ MadeBy(color) = MadeIn(played, color)
    <3>1. MadeBy(color) = MadeIn(played, color)
      BY DEF MadeBy, MadeIn
    <3>2. Used(color) = UsedIn(played, color)
      BY <3>1 DEF Used, UsedIn
    <3>3. QED  BY <3>1, <3>2 DEF Spent, SpentIn, Moves, MovesIn
  <2>2. /\ Forfeits(color) => Overdrawn(l, played, color)
        /\ result[color] # "LOSE" => Affords(l, played, color)
    BY DEF ClockKept
  <2>3. l \in LimitSet /\ played \in Seq(Move)
    BY ClockFacts DEF IInv, Typed
  <2> HIDE DEF l
  <2>4. \A n \in MadeIn(played, color) :
            LET k == MovesIn(played, color, n) IN
            /\ Given(l, k) = GivenOf(l, k - 1) + l.increment
            /\ ~LastOfControl(l, k) => Given(l, k) = GivenOf(l, k)
    BY <2>3, MadeCounts, GivenAsked
  <2>5. CASE l.fixed_time # 0
    BY <2>1, <2>2, <2>5 DEF Overdrawn, Affords, l
  <2>6. CASE l.fixed_time = 0
    <3>1. Forfeits(color) => \E n \in MadeBy(color) : Spent(color, n) > Given(l, Moves(color, n))
      BY <2>1, <2>2, <2>4, <2>6 DEF Overdrawn
    <3>2. (result[color] # "LOSE" /\ ~Unlimited(l)) =>
              \A n \in MadeBy(color) :
                  LET k == Moves(color, n) IN
                  LastOfControl(l, k) \/ Spent(color, n) <= Given(l, k) + l.timemargin * k
      BY <2>1, <2>2, <2>4, <2>6 DEF Affords
    <3>3. QED  BY <2>6, <3>1, <3>2 DEF l
  <2>7. QED  BY <2>5, <2>6
<1>2. QED  BY <1>1, Invariant, ClockInvariant, PTL

=============================================================================
