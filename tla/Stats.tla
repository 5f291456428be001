------------------------------- MODULE Stats -------------------------------
(***************************************************************************)
(* The value type of the score board (matchmaking/stats.hpp): wins,        *)
(* losses, draws and the six pentanomial counters of one ordered pair of   *)
(* engines, with the three operations the code computes with.  The int     *)
(* fields are unbounded here: a tournament has far fewer than 2^31 games.  *)
(***************************************************************************)
EXTENDS Integers

\* chess::GameResult of the player with the white pieces.  NONE is what is
\* left in MatchData when no reason for the end of the game was recorded.
GameResult == {"WIN", "LOSE", "DRAW", "NONE"}

Stats == [wins : Nat, losses : Nat, draws : Nat,
          WW : Nat, WD : Nat, WL : Nat, DD : Nat, LD : Nat, LL : Nat]

\* A default constructed Stats.
NoStats == [wins |-> 0, losses |-> 0, draws |-> 0,
            WW |-> 0, WD |-> 0, WL |-> 0, DD |-> 0, LD |-> 0, LL |-> 0]

\* A bool in an integer expression.
Bool(b) == IF b THEN 1 ELSE 0

\* Stats(const MatchData &): the game seen by the player with white; every
\* result that is neither a win nor a loss is a draw.
FromMatch(result) ==
    [NoStats EXCEPT !.wins   = Bool(result = "WIN"),
                    !.losses = Bool(result = "LOSE"),
                    !.draws  = Bool(result \notin {"WIN", "LOSE"})]

\* operator+= and operator+.
Plus(s, t) ==
    [wins |-> s.wins + t.wins, losses |-> s.losses + t.losses, draws |-> s.draws + t.draws,
     WW |-> s.WW + t.WW, WD |-> s.WD + t.WD, WL |-> s.WL + t.WL,
     DD |-> s.DD + t.DD, LD |-> s.LD + t.LD, LL |-> s.LL + t.LL]

\* Faulty variant of operator~: the pentanomial counters stay.
InvertKeepsPenta(s) == [s EXCEPT !.wins = s.losses, !.losses = s.wins]

\* operator~: the same games seen by the opponent.
Invert(s) ==
    [wins |-> s.losses, losses |-> s.wins, draws |-> s.draws,
     WW |-> s.LL, WD |-> s.LD, WL |-> s.WL, DD |-> s.DD, LD |-> s.WD, LL |-> s.WW]

\* int sum() const.
GamesOf(s) == s.wins + s.losses + s.draws

\* The six increments of ScoreBoard::updatePair: the bool of each comparison
\* is added to its counter.
AddPenta(s) ==
    [wins |-> s.wins, losses |-> s.losses, draws |-> s.draws,
     WW |-> s.WW + Bool(s.wins = 2),
     WD |-> s.WD + Bool(s.wins = 1 /\ s.draws = 1),
     WL |-> s.WL + Bool(s.wins = 1 /\ s.losses = 1),
     DD |-> s.DD + Bool(s.draws = 2),
     LD |-> s.LD + Bool(s.losses = 1 /\ s.draws = 1),
     LL |-> s.LL + Bool(s.losses = 2)]
=============================================================================
