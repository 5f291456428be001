----------------------------- MODULE ScoreBoard -----------------------------
(***************************************************************************)
(* ScoreBoard (matchmaking/scoreboard.hpp) as the tournament uses it: the  *)
(* finish callback of every game calls updatePair or updateNonPair, saveJson*)
(* reads getResults, and a later session loads what was saved with         *)
(* setResults.  The games of all rounds finish in any order: the callback  *)
(* runs in the worker that played the game.  Every operation holds          *)
(* results_mutex_ while it touches results_, and updatePair holds           *)
(* game_pair_cache_mutex_ for its whole body, so each is one step.          *)
(***************************************************************************)
EXTENDS Stats, FiniteSets

CONSTANTS First, Second,   \* the names of the two engines, in the order of the command line
          Rounds,          \* the round ids of the tournament, a set of naturals
          GamesPerRound,   \* config.games after sanitize
          ReportPenta,     \* config.report_penta after sanitize
          NoSwap           \* config.noswap

ASSUME ScoreBoardAssumption ==
    /\ First # Second
    /\ Rounds \subseteq Nat
    /\ IsFiniteSet(Rounds)
    /\ GamesPerRound \in {1, 2}
    /\ ReportPenta \in BOOLEAN
    /\ NoSwap \in BOOLEAN
    /\ ReportPenta => GamesPerRound = 2

VARIABLES results,         \* results_: the Stats of every ordered pair of engines
          gamePairCache,   \* game_pair_cache_: the half-finished pairs, by round id
          saved,           \* what the last saveJson wrote: results_ and, for the properties, its games
          outcome          \* history: the result of every game given to the score board

vars == <<results, gamePairCache, saved, outcome>>

-----------------------------------------------------------------------------

Engines == {First, Second}

\* PlayerPairKey: (engine with white, engine with black).
PairKeys == {<<First, Second>>, <<Second, First>>}

\* A game is named by its round and its number in the round.
GameIds == Rounds \X (0..(GamesPerRound - 1))

\* game_id and the swap of the colours in create_match.
Configs(round, g) ==
    LET game_id == round * GamesPerRound + (g + 1)
    IN  IF game_id % 2 = 0 /\ ~NoSwap THEN <<Second, First>> ELSE <<First, Second>>

\* results_ with stats added under the key configs; an absent key starts as NoStats.
Added(res, configs, stats) == [res EXCEPT ![configs] = Plus(@, stats)]

\* game_pair_cache_.erase(round_id)
Forget(cache, round) == [r \in DOMAIN cache \ {round} |-> cache[r]]

\* getStats: both orders of the pair, seen by the first engine named.
StatsOf(res, e1, e2) == Plus(res[<<e1, e2>>], Invert(res[<<e2, e1>>]))

getStats(e1, e2) == StatsOf(results, e1, e2)

-----------------------------------------------------------------------------

\* bool updateNonPair(configs, stats)
updateNonPair(configs, stats) ==
    /\ results' = Added(results, configs, stats)
    /\ UNCHANGED gamePairCache

\* Faulty variant of updatePairFirst: the first game is kept as it is.
updatePairFirstUninverted(stats, round_id) ==
    /\ round_id \notin DOMAIN gamePairCache
    /\ gamePairCache' = [r \in DOMAIN gamePairCache \cup {round_id} |->
                            IF r = round_id THEN stats ELSE gamePairCache[r]]
    /\ UNCHANGED results

\* bool updatePair(configs, stats, round_id), the branch that returns false:
\* the first game of the round to finish is kept aside, inverted.
updatePairFirst(stats, round_id) ==
    /\ round_id \notin DOMAIN gamePairCache
    /\ gamePairCache' = [r \in DOMAIN gamePairCache \cup {round_id} |->
                            IF r = round_id THEN Invert(stats) ELSE gamePairCache[r]]
    /\ UNCHANGED results

\* Faulty variant of updatePairSecond: only the second game of the pair is added.
updatePairSecondAlone(configs, stats, round_id) ==
    /\ round_id \in DOMAIN gamePairCache
    /\ results' = Added(results, configs, stats)
    /\ gamePairCache' = Forget(gamePairCache, round_id)

\* bool updatePair(configs, stats, round_id), the branch that returns true:
\* the pair is complete and is added to results_ under the key of its second game.
updatePairSecond(configs, stats, round_id) ==
    /\ round_id \in DOMAIN gamePairCache
    /\ results' = Added(results, configs, AddPenta(Plus(gamePairCache[round_id], stats)))
    /\ gamePairCache' = Forget(gamePairCache, round_id)

\* The choice the finish callback makes between the two update functions.
Update(configs, stats, round_id) ==
    IF ReportPenta
      THEN updatePairFirst(stats, round_id) \/ updatePairSecond(configs, stats, round_id)
      ELSE updateNonPair(configs, stats)

\* The finish callback of game g of round_id, once.
Record(round_id, g, result) ==
    /\ outcome[<<round_id, g>>] = "unplayed"
    /\ Update(Configs(round_id, g), FromMatch(result), round_id)
    /\ outcome' = [outcome EXCEPT ![<<round_id, g>>] = result]
    /\ UNCHANGED saved

\* The games results_ accounts for: those of a half-finished pair are not in it.
Counted == {x \in GameIds : outcome[x] # "unplayed" /\ x[1] \notin DOMAIN gamePairCache}

CountedOutcome == [x \in GameIds |-> IF x \in Counted THEN outcome[x] ELSE "unplayed"]

\* getResults as saveJson uses it: a copy of results_; game_pair_cache_ is not saved.
getResults ==
    /\ saved' = [results |-> results, outcome |-> CountedOutcome]
    /\ UNCHANGED <<results, gamePairCache, outcome>>

\* The program ends or is killed and a later one loads the saved file into a
\* new ScoreBoard: the games not saved are to be played again.
setResults ==
    /\ results' = saved.results
    /\ gamePairCache' = << >>
    /\ outcome' = saved.outcome
    /\ UNCHANGED saved

-----------------------------------------------------------------------------

NothingSaved == [results |-> [k \in PairKeys |-> NoStats], outcome |-> [x \in GameIds |-> "unplayed"]]

Init ==
    /\ results = NothingSaved.results
    /\ gamePairCache = << >>
    /\ saved = NothingSaved
    /\ outcome = NothingSaved.outcome

Next ==
    \/ \E x \in GameIds, result \in GameResult : Record(x[1], x[2], result)
    \/ getResults
    \/ setResults

Spec == Init /\ [][Next]_vars

-----------------------------------------------------------------------------

Outcome == GameResult \cup {"unplayed"}

ResultsType == [PairKeys -> Stats]

OutcomeType == [GameIds -> Outcome]

\* Every variable has its type: results_ holds counters for both orders of the
\* pair and the cache holds stats for some of the rounds.
TypeOK ==
    /\ results \in ResultsType
    /\ DOMAIN gamePairCache \subseteq Rounds
    /\ \A r \in DOMAIN gamePairCache : gamePairCache[r] \in Stats
    /\ saved \in [results : ResultsType, outcome : OutcomeType]
    /\ outcome \in OutcomeType

\* In the record of outcomes out, engine e won game x with the colours create_match gave it.
Won(out, x, e) ==
    \/ Configs(x[1], x[2])[1] = e /\ out[x] = "WIN"
    \/ Configs(x[1], x[2])[2] = e /\ out[x] = "LOSE"

Drawn(out, x) == out[x] \in {"DRAW", "NONE"}

\* The stats res are the score of the games in out.
Exact(res, out) ==
    LET s == StatsOf(res, First, Second)
    IN  /\ s.wins = Cardinality({x \in GameIds : Won(out, x, First)})
        /\ s.losses = Cardinality({x \in GameIds : Won(out, x, Second)})
        /\ s.draws = Cardinality({x \in GameIds : Drawn(out, x)})

\* The score the tournament prints (getStats, scoreboard.hpp:130) is the score
\* of the games: the first engine's wins, losses and draws are exactly the
\* counted games it won, lost and drew, whichever colour it had, in whatever
\* order the games of a pair finished and however often results_ was reloaded.
ScoreExact == Exact(results, CountedOutcome)

\* The pentanomial counters agree with wins, draws and losses under every key
\* (scoreboard.hpp:116-121): each completed pair is in one of the six classes,
\* so Elo and SPRT computed from either view describe the same games.
PentaOf(s) ==
    /\ s.wins = 2 * s.WW + s.WD + s.WL
    /\ s.draws = s.WD + 2 * s.DD + s.LD
    /\ s.losses = 2 * s.LL + s.LD + s.WL

PentaConsistent == ReportPenta => \A k \in PairKeys : PentaOf(results[k])

\* Each pentanomial counter is the number of completed rounds of its class, in
\* the first engine's view (scoreboard.hpp:99-128 with getStats).
PentaExact ==
    LET s == getStats(First, Second)
        Points(r, e) == Cardinality({g \in {0, 1} : Won(outcome, <<r, g>>, e)})
        Class(w, l) == Cardinality({r \in Rounds : /\ {r} \X {0, 1} \subseteq Counted
                                                   /\ Points(r, First) = w
                                                   /\ Points(r, Second) = l})
    IN  ReportPenta => /\ s.WW = Class(2, 0) /\ s.WD = Class(1, 0) /\ s.WL = Class(1, 1)
                       /\ s.DD = Class(0, 0) /\ s.LD = Class(0, 1) /\ s.LL = Class(0, 2)

-----------------------------------------------------------------------------
(***************************************************************************)
(* What the score board promises: a running tally of the first engine's    *)
(* results, which never shows the order or the colours of the games.       *)
(***************************************************************************)
WDL(s) == [win |-> s.wins, loss |-> s.losses, draw |-> s.draws]

ScoreTally == INSTANCE Tally WITH
    tally <- WDL(getStats(First, Second)),
    checkpoint <- WDL(StatsOf(saved.results, First, Second)),
    Batch <- IF ReportPenta THEN 2 ELSE 1

\* The score board implements the tally.
ImplementsTally == ScoreTally!Spec
=============================================================================
