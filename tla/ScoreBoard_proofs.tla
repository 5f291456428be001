-------------------------- MODULE ScoreBoard_proofs --------------------------
(***************************************************************************)
(* For any set of rounds, the printed score is the score of the games, and *)
(* the pentanomial counters are the completed rounds of each class.        *)
(***************************************************************************)
EXTENDS ScoreBoard, FiniteSetTheorems, TLAPS

-----------------------------------------------------------------------------
(* The arithmetic of Stats.                                                *)

LEMMA StatsClosed ==
    /\ NoStats \in Stats
    /\ \A result \in GameResult : FromMatch(result) \in Stats
    /\ \A s, t \in Stats : Plus(s, t) \in Stats
    /\ \A s \in Stats : Invert(s) \in Stats
    /\ \A s \in Stats : AddPenta(s) \in Stats
  <1>1. NoStats \in Stats
    BY DEF NoStats, Stats
  <1>2. \A result \in GameResult : FromMatch(result) \in Stats
    BY DEF FromMatch, NoStats, Stats, Bool
  <1>3. \A s, t \in Stats : Plus(s, t) \in Stats
    BY DEF Plus, Stats
  <1>4. \A s \in Stats : Invert(s) \in Stats
    BY DEF Invert, Stats
  <1>5. \A s \in Stats : AddPenta(s) \in Stats
    <2> TAKE s \in Stats
    <2>1. /\ Bool(s.wins = 2) \in Nat
          /\ Bool(s.wins = 1 /\ s.draws = 1) \in Nat
          /\ Bool(s.wins = 1 /\ s.losses = 1) \in Nat
          /\ Bool(s.draws = 2) \in Nat
          /\ Bool(s.losses = 1 /\ s.draws = 1) \in Nat
          /\ Bool(s.losses = 2) \in Nat
      BY DEF Bool
    <2> QED  BY <2>1 DEF AddPenta, Stats
  <1> QED  BY <1>1, <1>2, <1>3, <1>4, <1>5

LEMMA ConfigsKey ==
    ASSUME NEW x \in GameIds
    PROVE  Configs(x[1], x[2]) \in PairKeys
  BY DEF Configs, PairKeys

LEMMA AddedType ==
    ASSUME NEW res \in ResultsType, NEW k \in PairKeys, NEW s \in Stats
    PROVE  Added(res, k, s) \in ResultsType
  BY StatsClosed DEF Added, ResultsType

-----------------------------------------------------------------------------
(* Type correctness.                                                       *)

(* Every counter stays a natural number and every key stays a pair of the  *)
(* two engines (stats.hpp:69-78, scoreboard.hpp:64-86), for any rounds.    *)
THEOREM TypeCorrect == Spec => []TypeOK
  <1>1. Init => TypeOK
    BY StatsClosed DEF Init, TypeOK, NothingSaved, ResultsType, OutcomeType, Outcome
  <1>2. TypeOK /\ [Next]_vars => TypeOK'
    <2> SUFFICES ASSUME TypeOK, [Next]_vars PROVE TypeOK'
      OBVIOUS
    <2>1. ASSUME NEW x \in GameIds, NEW result \in GameResult, Record(x[1], x[2], result)
          PROVE  TypeOK'
      <3>1. FromMatch(result) \in Stats /\ Configs(x[1], x[2]) \in PairKeys
        BY StatsClosed, ConfigsKey
      <3>2. outcome' \in OutcomeType /\ saved' = saved
        BY <2>1 DEF Record, TypeOK, OutcomeType, Outcome
      <3>3. CASE updateNonPair(Configs(x[1], x[2]), FromMatch(result))
        BY <3>1, <3>2, <3>3, AddedType DEF updateNonPair, TypeOK
      <3>4. CASE updatePairFirst(FromMatch(result), x[1])
        BY <3>1, <3>2, <3>4, StatsClosed DEF updatePairFirst, TypeOK, GameIds
      <3>5. CASE updatePairSecond(Configs(x[1], x[2]), FromMatch(result), x[1])
        <4>1. AddPenta(Plus(gamePairCache[x[1]], FromMatch(result))) \in Stats
          BY <3>1, <3>5, StatsClosed DEF updatePairSecond, TypeOK
        <4>2. results' \in ResultsType
          BY <3>1, <3>5, <4>1, AddedType DEF updatePairSecond, TypeOK
        <4> QED  BY <3>2, <3>5, <4>2 DEF updatePairSecond, Forget, TypeOK
      <3> QED  BY <2>1, <3>3, <3>4, <3>5 DEF Record, Update
    <2>2. CASE getResults
      BY <2>2 DEF getResults, TypeOK, CountedOutcome, OutcomeType, Outcome
    <2>3. CASE setResults
      BY <2>3 DEF setResults, TypeOK
    <2>4. CASE UNCHANGED vars
      BY <2>4 DEF vars, TypeOK
    <2> QED  BY <2>1, <2>2, <2>3, <2>4 DEF Next
  <1> QED  BY <1>1, <1>2, PTL DEF Spec

-----------------------------------------------------------------------------
(* Counting games.                                                         *)

LEMMA GameIdsFinite == IsFiniteSet(GameIds)
  <1>1. IsFiniteSet(0..(GamesPerRound - 1))
    BY ScoreBoardAssumption, FS_Interval
  <1> QED  BY <1>1, ScoreBoardAssumption, FS_Product DEF GameIds

(* A set that gains the element x when b holds grows by one exactly then.  *)
LEMMA CardinalityGain ==
    ASSUME NEW S, IsFiniteSet(S), NEW x, x \notin S, NEW b \in BOOLEAN,
           NEW T, T = IF b THEN S \cup {x} ELSE S
    PROVE  /\ Cardinality(T) = Cardinality(S) + Bool(b)
           /\ Cardinality(S) \in Nat
  <1>1. CASE b  BY <1>1, FS_AddElement, FS_CardinalityType DEF Bool
  <1>2. CASE ~b  BY <1>2, FS_CardinalityType DEF Bool
  <1> QED  BY <1>1, <1>2

WonGames(out, e) == {x \in GameIds : Won(out, x, e)}
DrawnGames(out) == {x \in GameIds : Drawn(out, x)}

(* One more game in the record adds one to the count of its class.         *)
LEMMA OutcomeGain ==
    ASSUME NEW out \in OutcomeType, NEW x \in GameIds, out[x] = "unplayed",
           NEW result \in GameResult, NEW out2, out2 = [out EXCEPT ![x] = result]
    PROVE  /\ \A e \in Engines :
                  /\ Cardinality(WonGames(out2, e)) = Cardinality(WonGames(out, e)) + Bool(Won(out2, x, e))
                  /\ Cardinality(WonGames(out, e)) \in Nat
           /\ Cardinality(DrawnGames(out2)) = Cardinality(DrawnGames(out)) + Bool(Drawn(out2, x))
           /\ Cardinality(DrawnGames(out)) \in Nat
  <1>1. \A y \in GameIds : out2[y] = IF y = x THEN result ELSE out[y]
    BY DEF OutcomeType
  <1>2. ASSUME NEW e \in Engines
        PROVE  /\ Cardinality(WonGames(out2, e)) = Cardinality(WonGames(out, e)) + Bool(Won(out2, x, e))
               /\ Cardinality(WonGames(out, e)) \in Nat
    <2>1. x \notin WonGames(out, e)
      BY DEF WonGames, Won
    <2>2. WonGames(out2, e) = IF Won(out2, x, e) THEN WonGames(out, e) \cup {x} ELSE WonGames(out, e)
      BY <1>1 DEF WonGames, Won
    <2>3. IsFiniteSet(WonGames(out, e))
      BY GameIdsFinite, FS_Subset DEF WonGames
    <2>4. Won(out2, x, e) \in BOOLEAN
      BY DEF Won
    <2> QED  BY <2>1, <2>2, <2>3, <2>4, CardinalityGain
  <1>3. /\ Cardinality(DrawnGames(out2)) = Cardinality(DrawnGames(out)) + Bool(Drawn(out2, x))
        /\ Cardinality(DrawnGames(out)) \in Nat
    <2>1. x \notin DrawnGames(out)
      BY DEF DrawnGames, Drawn
    <2>2. DrawnGames(out2) = IF Drawn(out2, x) THEN DrawnGames(out) \cup {x} ELSE DrawnGames(out)
      BY <1>1 DEF DrawnGames, Drawn
    <2>3. IsFiniteSet(DrawnGames(out))
      BY GameIdsFinite, FS_Subset DEF DrawnGames
    <2>4. Drawn(out2, x) \in BOOLEAN
      BY DEF Drawn
    <2> QED  BY <2>1, <2>2, <2>3, <2>4, CardinalityGain
  <1> QED  BY <1>2, <1>3

(* A game seen by the first engine.                                        *)
View(x, result) ==
    IF Configs(x[1], x[2]) = <<First, Second>> THEN FromMatch(result) ELSE Invert(FromMatch(result))

(* The view of a game says who won it.                                     *)
LEMMA ViewOutcome ==
    ASSUME NEW x \in GameIds, NEW out \in OutcomeType, out[x] \in GameResult
    PROVE  /\ View(x, out[x]).wins = Bool(Won(out, x, First))
           /\ View(x, out[x]).losses = Bool(Won(out, x, Second))
           /\ View(x, out[x]).draws = Bool(Drawn(out, x))
  <1>1. Configs(x[1], x[2]) \in {<<First, Second>>, <<Second, First>>} /\ First # Second
    BY ConfigsKey, ScoreBoardAssumption DEF PairKeys
  <1>2. out[x] \in {"WIN", "LOSE", "DRAW", "NONE"}
    BY DEF GameResult
  <1> QED  BY <1>1, <1>2 DEF View, Won, Drawn, FromMatch, NoStats, Invert, Bool

(* Stats added under a key reach getStats in the view of the first engine. *)
LEMMA AddedScore ==
    ASSUME NEW res \in ResultsType, NEW k \in PairKeys, NEW s \in Stats
    PROVE  LET old == StatsOf(res, First, Second)
               new == StatsOf(Added(res, k, s), First, Second)
               v == IF k = <<First, Second>> THEN s ELSE Invert(s)
           IN  /\ new.wins = old.wins + v.wins
               /\ new.losses = old.losses + v.losses
               /\ new.draws = old.draws + v.draws
  <1> DEFINE fs == <<First, Second>>
             sf == <<Second, First>>
             new == Added(res, k, s)
  <1>1. fs # sf
    BY ScoreBoardAssumption
  <1>2. res[fs] \in Stats /\ res[sf] \in Stats
    BY DEF ResultsType, PairKeys
  <1>3. ASSUME NEW a \in Stats, NEW b \in Stats
        PROVE  /\ Plus(a, b).wins = a.wins + b.wins
               /\ Plus(a, b).losses = a.losses + b.losses
               /\ Plus(a, b).draws = a.draws + b.draws
               /\ a.wins \in Nat /\ a.losses \in Nat /\ a.draws \in Nat
    BY DEF Plus, Stats
  <1>4. ASSUME NEW a
        PROVE  Invert(a).wins = a.losses /\ Invert(a).losses = a.wins /\ Invert(a).draws = a.draws
    BY DEF Invert
  <1>5. ASSUME NEW r \in ResultsType
        PROVE  LET t == StatsOf(r, First, Second)
               IN  /\ t.wins = r[fs].wins + r[sf].losses
                   /\ t.losses = r[fs].losses + r[sf].wins
                   /\ t.draws = r[fs].draws + r[sf].draws
    <2>1. r[fs] \in Stats /\ r[sf] \in Stats /\ Invert(r[sf]) \in Stats
      BY StatsClosed DEF ResultsType, PairKeys
    <2> QED  BY <1>3, <1>4, <2>1 DEF StatsOf
  <1>6. new \in ResultsType
    BY AddedType
  <1>7. CASE k = fs
    <2>1. new[fs] = Plus(res[fs], s) /\ new[sf] = res[sf]
      BY <1>1, <1>7 DEF Added, ResultsType, PairKeys
    <2> HIDE DEF fs, sf, new
    <2> QED  BY <1>2, <1>3, <1>5, <1>6, <1>7, <2>1 DEF fs, new
  <1>8. CASE k = sf
    <2>1. new[fs] = res[fs] /\ new[sf] = Plus(res[sf], s)
      BY <1>1, <1>8 DEF Added, ResultsType, PairKeys
    <2> HIDE DEF fs, sf, new
    <2> QED  BY <1>1, <1>2, <1>3, <1>4, <1>5, <1>6, <1>8, <2>1 DEF fs, new
  <1> QED  BY <1>7, <1>8 DEF PairKeys

WithGame(out, x, result) == [out EXCEPT ![x] = result]

(* One more game in the record adds its view to the counts.                *)
LEMMA ExactGain ==
    ASSUME NEW out \in OutcomeType, NEW x \in GameIds, out[x] = "unplayed", NEW result \in GameResult
    PROVE  LET out2 == WithGame(out, x, result)
           IN  /\ Cardinality(WonGames(out2, First)) = Cardinality(WonGames(out, First)) + View(x, result).wins
               /\ Cardinality(WonGames(out2, Second)) = Cardinality(WonGames(out, Second)) + View(x, result).losses
               /\ Cardinality(DrawnGames(out2)) = Cardinality(DrawnGames(out)) + View(x, result).draws
               /\ out2 \in OutcomeType
               /\ out2[x] = result
               /\ \A y \in GameIds \ {x} : out2[y] = out[y]
  <1> DEFINE out2 == WithGame(out, x, result)
  <1>1. out2 \in OutcomeType /\ out2[x] = result /\ \A y \in GameIds \ {x} : out2[y] = out[y]
    BY DEF OutcomeType, Outcome, WithGame
  <1>2. /\ View(x, result).wins = Bool(Won(out2, x, First))
        /\ View(x, result).losses = Bool(Won(out2, x, Second))
        /\ View(x, result).draws = Bool(Drawn(out2, x))
    BY <1>1, ViewOutcome
  <1>3. out2 = [out EXCEPT ![x] = result]
    BY DEF WithGame
  <1> HIDE DEF out2
  <1>4. /\ \A e \in Engines :
              Cardinality(WonGames(out2, e)) = Cardinality(WonGames(out, e)) + Bool(Won(out2, x, e))
        /\ Cardinality(DrawnGames(out2)) = Cardinality(DrawnGames(out)) + Bool(Drawn(out2, x))
    BY <1>3, OutcomeGain
  <1>5. First \in Engines /\ Second \in Engines
    BY DEF Engines
  <1> QED  BY <1>1, <1>2, <1>4, <1>5 DEF out2

-----------------------------------------------------------------------------
(* The inductive invariant.                                                *)

(* In a record of counted games the games of a round are in it together.   *)
Whole(out) == ReportPenta => \A r \in Rounds : (out[<<r, 0>>] = "unplayed") <=> (out[<<r, 1>>] = "unplayed")

(* The cache holds, inverted, the one finished game of each half-finished pair. *)
CacheOK ==
    /\ ~ReportPenta => DOMAIN gamePairCache = {}
    /\ ReportPenta => \A r \in Rounds :
          IF r \in DOMAIN gamePairCache
            THEN \E g \in {0, 1} : /\ outcome[<<r, g>>] # "unplayed"
                                   /\ outcome[<<r, 1 - g>>] = "unplayed"
                                   /\ gamePairCache[r] = Invert(FromMatch(outcome[<<r, g>>]))
            ELSE (outcome[<<r, 0>>] = "unplayed") <=> (outcome[<<r, 1>>] = "unplayed")

IInv ==
    /\ TypeOK
    /\ CacheOK
    /\ Exact(results, CountedOutcome)
    /\ Exact(saved.results, saved.outcome)
    /\ Whole(saved.outcome)

(* Exact in terms of the sets of games.                                    *)
LEMMA ExactSets ==
    \A res, out : Exact(res, out) <=>
        /\ StatsOf(res, First, Second).wins = Cardinality(WonGames(out, First))
        /\ StatsOf(res, First, Second).losses = Cardinality(WonGames(out, Second))
        /\ StatsOf(res, First, Second).draws = Cardinality(DrawnGames(out))
  BY DEF Exact, WonGames, DrawnGames

LEMMA InitInv == Init => IInv
  <1> SUFFICES ASSUME Init PROVE IInv
    OBVIOUS
  <1>1. TypeOK
    BY StatsClosed DEF Init, TypeOK, NothingSaved, ResultsType, OutcomeType, Outcome
  <1>2. DOMAIN gamePairCache = {}
    BY DEF Init
  <1>3. \A x \in GameIds : outcome[x] = "unplayed" /\ CountedOutcome[x] = "unplayed"
    BY DEF Init, NothingSaved, CountedOutcome, Counted
  <1>4. CacheOK /\ Whole(saved.outcome)
    BY <1>2, <1>3, ScoreBoardAssumption DEF CacheOK, Whole, Init, NothingSaved, GameIds
  <1>5. Exact(results, CountedOutcome) /\ Exact(saved.results, saved.outcome)
    <2>1. ASSUME NEW out, \A x \in GameIds : out[x] = "unplayed"
          PROVE  Exact(NothingSaved.results, out)
      <3>1. /\ WonGames(out, First) = {} /\ WonGames(out, Second) = {} /\ DrawnGames(out) = {}
        BY <2>1 DEF WonGames, DrawnGames, Won, Drawn
      <3>2. StatsOf(NothingSaved.results, First, Second) = Plus(NoStats, Invert(NoStats))
        BY DEF StatsOf, NothingSaved, PairKeys
      <3> QED  BY <3>1, <3>2, ExactSets, FS_EmptySet DEF Plus, Invert, NoStats
    <2>2. results = NothingSaved.results /\ saved = NothingSaved /\ saved.outcome = outcome
      BY DEF Init
    <2> QED  BY <1>3, <2>1, <2>2
  <1> QED  BY <1>1, <1>4, <1>5 DEF IInv

LEMMA CountedType ==
    ASSUME TypeOK
    PROVE  /\ CountedOutcome \in OutcomeType
           /\ \A x \in GameIds :
                 CountedOutcome[x] = IF x[1] \in DOMAIN gamePairCache THEN "unplayed" ELSE outcome[x]
  BY DEF TypeOK, CountedOutcome, Counted, OutcomeType, Outcome

(* A game added to results_ on its own (updateNonPair).                    *)
LEMMA NonPairExact ==
    ASSUME IInv, ~ReportPenta, NEW x \in GameIds, NEW result \in GameResult,
           Record(x[1], x[2], result)
    PROVE  CacheOK' /\ Exact(results, CountedOutcome)'
  <1> DEFINE k == Configs(x[1], x[2])
             s == FromMatch(result)
  <1>1. /\ results' = Added(results, k, s)
        /\ gamePairCache' = gamePairCache
        /\ outcome[x] = "unplayed"
        /\ outcome' = [outcome EXCEPT ![x] = result]
    <2>1. x = <<x[1], x[2]>>
      BY DEF GameIds
    <2> QED  BY <2>1 DEF Record, Update, updateNonPair
  <1>2. DOMAIN gamePairCache = {} /\ TypeOK
    BY DEF IInv, CacheOK
  <1>3. CacheOK'
    BY <1>1, <1>2 DEF CacheOK
  <1>4. outcome \in OutcomeType /\ results \in ResultsType
    BY <1>2 DEF TypeOK
  <1>5. CountedOutcome = outcome
    BY <1>2, <1>4 DEF CountedOutcome, Counted, OutcomeType
  <1>6. CountedOutcome' = outcome'
    BY <1>1, <1>2, <1>4 DEF CountedOutcome, Counted, OutcomeType
  <1>7. k \in PairKeys /\ s \in Stats
    BY ConfigsKey, StatsClosed
  <1>8. View(x, result) = IF k = <<First, Second>> THEN s ELSE Invert(s)
    BY DEF View
  <1>9. /\ StatsOf(results', First, Second).wins = StatsOf(results, First, Second).wins + View(x, result).wins
        /\ StatsOf(results', First, Second).losses = StatsOf(results, First, Second).losses + View(x, result).losses
        /\ StatsOf(results', First, Second).draws = StatsOf(results, First, Second).draws + View(x, result).draws
    BY <1>1, <1>4, <1>7, <1>8, AddedScore
  <1>10. Exact(results, outcome)
    BY <1>5 DEF IInv
  <1>11. Exact(results', outcome')
    <2>1. /\ Cardinality(WonGames(outcome', First)) = Cardinality(WonGames(outcome, First)) + View(x, result).wins
          /\ Cardinality(WonGames(outcome', Second)) = Cardinality(WonGames(outcome, Second)) + View(x, result).losses
          /\ Cardinality(DrawnGames(outcome')) = Cardinality(DrawnGames(outcome)) + View(x, result).draws
      <3>1. outcome' = WithGame(outcome, x, result)
        BY <1>1 DEF WithGame
      <3>2. outcome[x] = "unplayed"
        BY <1>1
      <3>3. LET out2 == WithGame(outcome, x, result)
            IN  /\ Cardinality(WonGames(out2, First)) = Cardinality(WonGames(outcome, First)) + View(x, result).wins
                /\ Cardinality(WonGames(out2, Second)) = Cardinality(WonGames(outcome, Second)) + View(x, result).losses
                /\ Cardinality(DrawnGames(out2)) = Cardinality(DrawnGames(outcome)) + View(x, result).draws
        BY <1>4, <3>2, ExactGain
      <3> QED  BY <3>1, <3>3
    <2> QED  BY <1>9, <1>10, <2>1, ExactSets
  <1> QED  BY <1>3, <1>6, <1>11 DEF Exact

(* The first game of a pair changes nothing that is counted.               *)
LEMMA PairFirstExact ==
    ASSUME IInv, ReportPenta, NEW x \in GameIds, NEW result \in GameResult,
           Record(x[1], x[2], result), updatePairFirst(FromMatch(result), x[1])
    PROVE  /\ CacheOK' /\ Exact(results, CountedOutcome)'
           /\ results' = results /\ CountedOutcome' = CountedOutcome
  <1>1. /\ x[1] \in Rounds /\ x[2] \in {0, 1} /\ x = <<x[1], x[2]>>
        /\ <<x[1], 1 - x[2]>> \in GameIds
        /\ {1 - x[2], x[2]} = {0, 1}
    BY ScoreBoardAssumption DEF GameIds
  <1>2. /\ outcome[x] = "unplayed"
        /\ outcome' = [outcome EXCEPT ![x] = result]
        /\ outcome \in OutcomeType
    BY <1>1 DEF Record, IInv, TypeOK
  <1>3. /\ x[1] \notin DOMAIN gamePairCache
        /\ DOMAIN gamePairCache' = DOMAIN gamePairCache \cup {x[1]}
        /\ gamePairCache'[x[1]] = Invert(FromMatch(result))
        /\ \A r \in DOMAIN gamePairCache : gamePairCache'[r] = gamePairCache[r]
        /\ results' = results
    BY DEF updatePairFirst
  <1>4. outcome[<<x[1], 0>>] = "unplayed" /\ outcome[<<x[1], 1>>] = "unplayed"
    BY <1>1, <1>2, <1>3 DEF IInv, CacheOK
  <1>5. /\ outcome'[x] = result
        /\ \A y \in GameIds : y # x => outcome'[y] = outcome[y]
    BY <1>2 DEF OutcomeType
  <1>6. result # "unplayed"
    BY DEF GameResult
  <1>7. CacheOK'
    <2> SUFFICES ASSUME NEW r \in Rounds
                 PROVE  IF r \in DOMAIN gamePairCache'
                          THEN \E g \in {0, 1} : /\ outcome'[<<r, g>>] # "unplayed"
                                                 /\ outcome'[<<r, 1 - g>>] = "unplayed"
                                                 /\ gamePairCache'[r] = Invert(FromMatch(outcome'[<<r, g>>]))
                          ELSE (outcome'[<<r, 0>>] = "unplayed") <=> (outcome'[<<r, 1>>] = "unplayed")
      BY DEF CacheOK
    <2>1. CASE r = x[1]
      <3>1. /\ outcome'[<<r, x[2]>>] = result
            /\ outcome'[<<r, 1 - x[2]>>] = "unplayed"
        BY <1>1, <1>4, <1>5, <2>1
      <3> QED  BY <1>1, <1>3, <1>6, <2>1, <3>1
    <2>2. CASE r # x[1]
      <3>1. \A g \in {0, 1} : outcome'[<<r, g>>] = outcome[<<r, g>>]
        BY <1>1, <1>5, <2>2, ScoreBoardAssumption DEF GameIds
      <3>2. \A g \in {0, 1} : 1 - g \in {0, 1}
        OBVIOUS
      <3> QED  BY <1>3, <2>2, <3>1, <3>2 DEF IInv, CacheOK
    <2> QED  BY <2>1, <2>2
  <1>8. CountedOutcome' = CountedOutcome
    <2>1. ASSUME NEW y \in GameIds
          PROVE  (IF y[1] \in DOMAIN gamePairCache' THEN "unplayed" ELSE outcome'[y])
                   = (IF y[1] \in DOMAIN gamePairCache THEN "unplayed" ELSE outcome[y])
      <3>1. CASE y[1] = x[1]
        BY <1>1, <1>3, <1>4, <3>1, ScoreBoardAssumption DEF GameIds
      <3>2. CASE y[1] # x[1]
        BY <1>3, <1>5, <3>2
      <3> QED  BY <3>1, <3>2
    <2> QED  BY <2>1 DEF CountedOutcome, Counted
  <1> QED  BY <1>3, <1>7, <1>8 DEF IInv, Exact

(* The other game of the round, and what the board gains with the pair.    *)
Other(x) == <<x[1], 1 - x[2]>>
PairStats(first, result) == AddPenta(Plus(Invert(FromMatch(first)), FromMatch(result)))

PairDone(x, result) ==
    /\ outcome[Other(x)] \in GameResult
    /\ CountedOutcome \in OutcomeType
    /\ CountedOutcome[Other(x)] = "unplayed" /\ CountedOutcome[x] = "unplayed"
    /\ CountedOutcome' = WithGame(WithGame(CountedOutcome, Other(x), outcome[Other(x)]), x, result)
    /\ results' = Added(results, Configs(x[1], x[2]), PairStats(outcome[Other(x)], result))

(* Without -noswap the two games of a pair have opposite colours.          *)
LEMMA PairColours ==
    ASSUME ReportPenta, ~NoSwap, NEW r \in Rounds, NEW g \in {0, 1}
    PROVE  (Configs(r, g) = <<First, Second>>) <=> (Configs(r, 1 - g) = <<Second, First>>)
  <1>1. GamesPerRound = 2 /\ r \in Nat /\ <<First, Second>> # <<Second, First>>
    BY ScoreBoardAssumption
  <1>2. /\ (r * 2 + (0 + 1)) % 2 = 1
        /\ (r * 2 + (1 + 1)) % 2 = 0
    BY <1>1
  <1>3. /\ Configs(r, 0) = <<First, Second>>
        /\ Configs(r, 1) = <<Second, First>>
    BY <1>1, <1>2 DEF Configs
  <1> QED  BY <1>1, <1>3

(* A completed pair adds both of its games in their views.                 *)
LEMMA PairSecondExact ==
    ASSUME IInv, ReportPenta, ~NoSwap, NEW x \in GameIds, NEW result \in GameResult,
           Record(x[1], x[2], result),
           updatePairSecond(Configs(x[1], x[2]), FromMatch(result), x[1])
    PROVE  CacheOK' /\ Exact(results, CountedOutcome)' /\ PairDone(x, result)
  <1> DEFINE r == x[1]
             g == x[2]
             y == <<r, 1 - g>>
             k == Configs(r, g)
             first == outcome[y]
             s == AddPenta(Plus(gamePairCache[r], FromMatch(result)))
             half == WithGame(CountedOutcome, y, first)
             whole == WithGame(half, x, result)
  <1>1. /\ r \in Rounds /\ g \in {0, 1} /\ x = <<r, g>>
        /\ y \in GameIds /\ y # x
        /\ 1 - g \in {0, 1} /\ 1 - (1 - g) = g
    BY ScoreBoardAssumption DEF GameIds
  <1>2. /\ outcome[x] = "unplayed"
        /\ outcome' = [outcome EXCEPT ![x] = result]
        /\ outcome \in OutcomeType /\ results \in ResultsType /\ TypeOK
    BY <1>1 DEF Record, IInv, TypeOK
  <1>3. /\ r \in DOMAIN gamePairCache
        /\ results' = Added(results, k, s)
        /\ DOMAIN gamePairCache' = DOMAIN gamePairCache \ {r}
        /\ \A q \in DOMAIN gamePairCache \ {r} : gamePairCache'[q] = gamePairCache[q]
    BY DEF updatePairSecond, Forget
  <1>4. /\ first \in GameResult
        /\ gamePairCache[r] = Invert(FromMatch(first))
    <2>1. PICK h \in {0, 1} : /\ outcome[<<r, h>>] # "unplayed"
                              /\ gamePairCache[r] = Invert(FromMatch(outcome[<<r, h>>]))
      BY <1>1, <1>3 DEF IInv, CacheOK
    <2>2. h = 1 - g
      BY <1>1, <1>2, <2>1
    <2> QED  BY <1>1, <1>2, <2>1, <2>2 DEF OutcomeType, Outcome
  <1>5. /\ outcome'[x] = result
        /\ \A z \in GameIds : z # x => outcome'[z] = outcome[z]
    BY <1>2 DEF OutcomeType
  <1>6. result # "unplayed" /\ first # "unplayed"
    BY <1>4 DEF GameResult
  <1>7. CacheOK'
    <2> SUFFICES ASSUME NEW q \in Rounds
                 PROVE  IF q \in DOMAIN gamePairCache'
                          THEN \E h \in {0, 1} : /\ outcome'[<<q, h>>] # "unplayed"
                                                 /\ outcome'[<<q, 1 - h>>] = "unplayed"
                                                 /\ gamePairCache'[q] = Invert(FromMatch(outcome'[<<q, h>>]))
                          ELSE (outcome'[<<q, 0>>] = "unplayed") <=> (outcome'[<<q, 1>>] = "unplayed")
      BY DEF CacheOK
    <2>1. CASE q = r
      <3>1. outcome'[<<r, g>>] = result /\ outcome'[<<r, 1 - g>>] = first
        BY <1>1, <1>5
      <3> QED  BY <1>1, <1>3, <1>6, <2>1, <3>1
    <2>2. CASE q # r
      <3>1. \A h \in {0, 1} : outcome'[<<q, h>>] = outcome[<<q, h>>]
        BY <1>1, <1>5, <2>2, ScoreBoardAssumption DEF GameIds
      <3>2. \A h \in {0, 1} : 1 - h \in {0, 1}
        OBVIOUS
      <3> QED  BY <1>3, <2>2, <3>1, <3>2 DEF IInv, CacheOK
    <2> QED  BY <2>1, <2>2
  <1>8. /\ CountedOutcome \in OutcomeType
        /\ CountedOutcome[y] = "unplayed"
        /\ CountedOutcome[x] = "unplayed"
    BY <1>1, <1>2, <1>3, CountedType
  <1>9. /\ Cardinality(WonGames(half, First)) = Cardinality(WonGames(CountedOutcome, First)) + View(y, first).wins
        /\ Cardinality(WonGames(half, Second)) = Cardinality(WonGames(CountedOutcome, Second)) + View(y, first).losses
        /\ Cardinality(DrawnGames(half)) = Cardinality(DrawnGames(CountedOutcome)) + View(y, first).draws
        /\ half \in OutcomeType
        /\ half[y] = first /\ half[x] = "unplayed"
        /\ \A z \in GameIds \ {y} : half[z] = CountedOutcome[z]
    BY <1>1, <1>4, <1>8, ExactGain
  <1>10. /\ Cardinality(WonGames(whole, First)) = Cardinality(WonGames(half, First)) + View(x, result).wins
         /\ Cardinality(WonGames(whole, Second)) = Cardinality(WonGames(half, Second)) + View(x, result).losses
         /\ Cardinality(DrawnGames(whole)) = Cardinality(DrawnGames(half)) + View(x, result).draws
         /\ whole \in OutcomeType
         /\ whole[x] = result
         /\ \A z \in GameIds \ {x} : whole[z] = half[z]
    BY <1>9, ExactGain
  <1>11. CountedOutcome' = whole
    <2>1. CountedOutcome' = [z \in GameIds |-> IF z[1] \in DOMAIN gamePairCache' THEN "unplayed" ELSE outcome'[z]]
      <3>1. ASSUME NEW z \in GameIds
            PROVE  (IF z \in Counted' THEN outcome'[z] ELSE "unplayed")
                     = (IF z[1] \in DOMAIN gamePairCache' THEN "unplayed" ELSE outcome'[z])
        BY DEF Counted
      <3> QED  BY <3>1 DEF CountedOutcome
    <2>2. ASSUME NEW z \in GameIds
          PROVE  (IF z[1] \in DOMAIN gamePairCache' THEN "unplayed" ELSE outcome'[z]) = whole[z]
      <3>1. CASE z = x
        BY <1>3, <1>5, <1>10, <3>1
      <3>2. CASE z = y
        BY <1>1, <1>3, <1>5, <1>9, <1>10, <3>2
      <3>3. CASE z # x /\ z # y
        <4>1. z[1] # r
          BY <1>1, <3>3, ScoreBoardAssumption DEF GameIds
        <4>2. whole[z] = CountedOutcome[z]
          BY <1>9, <1>10, <3>3
        <4>3. CountedOutcome[z] = IF z[1] \in DOMAIN gamePairCache THEN "unplayed" ELSE outcome[z]
          BY <1>2, CountedType
        <4> QED  BY <1>3, <1>5, <3>3, <4>1, <4>2, <4>3
      <3> QED  BY <3>1, <3>2, <3>3
    <2>3. whole = [z \in GameIds |-> whole[z]]
      BY <1>10 DEF OutcomeType
    <2> QED  BY <2>1, <2>2, <2>3
  <1>12. k \in PairKeys /\ FromMatch(result) \in Stats /\ FromMatch(first) \in Stats
    BY <1>4, ConfigsKey, StatsClosed
  <1>13. s \in Stats
    BY <1>4, <1>12, StatsClosed
  <1>14. LET v == IF k = <<First, Second>> THEN s ELSE Invert(s)
         IN  /\ v.wins = View(y, first).wins + View(x, result).wins
             /\ v.losses = View(y, first).losses + View(x, result).losses
             /\ v.draws = View(y, first).draws + View(x, result).draws
    <2>1. Configs(y[1], y[2]) \in PairKeys
      BY <1>1, ConfigsKey
    <2>2. Configs(y[1], y[2]) = Configs(r, 1 - g)
      OBVIOUS
    <2>3. (k = <<First, Second>>) <=> (Configs(r, 1 - g) = <<Second, First>>)
      BY <1>1, PairColours
    <2>4. s.wins = FromMatch(first).losses + FromMatch(result).wins
      BY <1>4, <1>12 DEF AddPenta, Plus, Invert
    <2>5. s.losses = FromMatch(first).wins + FromMatch(result).losses
      BY <1>4, <1>12 DEF AddPenta, Plus, Invert
    <2>6. s.draws = FromMatch(first).draws + FromMatch(result).draws
      BY <1>4, <1>12 DEF AddPenta, Plus, Invert
    <2>7. <<First, Second>> # <<Second, First>>
      BY ScoreBoardAssumption
    <2>8. CASE k = <<First, Second>>
      <3>1. View(x, result) = FromMatch(result) /\ View(y, first) = Invert(FromMatch(first))
        BY <2>2, <2>3, <2>7, <2>8 DEF View
      <3> QED  BY <2>4, <2>5, <2>6, <2>8, <3>1 DEF Invert
    <2>9. CASE k # <<First, Second>>
      <3>1. View(x, result) = Invert(FromMatch(result)) /\ View(y, first) = FromMatch(first)
        BY <2>1, <2>2, <2>3, <2>9 DEF View, PairKeys
      <3> QED  BY <1>12, <2>4, <2>5, <2>6, <2>9, <3>1 DEF Invert, Stats
    <2> QED  BY <2>8, <2>9
  <1>15. /\ StatsOf(results', First, Second).wins = StatsOf(results, First, Second).wins + View(y, first).wins + View(x, result).wins
         /\ StatsOf(results', First, Second).losses = StatsOf(results, First, Second).losses + View(y, first).losses + View(x, result).losses
         /\ StatsOf(results', First, Second).draws = StatsOf(results, First, Second).draws + View(y, first).draws + View(x, result).draws
    <2>1. LET v == IF k = <<First, Second>> THEN s ELSE Invert(s)
          IN  /\ StatsOf(results', First, Second).wins = StatsOf(results, First, Second).wins + v.wins
              /\ StatsOf(results', First, Second).losses = StatsOf(results, First, Second).losses + v.losses
              /\ StatsOf(results', First, Second).draws = StatsOf(results, First, Second).draws + v.draws
      BY <1>2, <1>3, <1>12, <1>13, AddedScore
    <2>2. /\ \A st \in Stats : Invert(st) \in Stats
          /\ StatsOf(results, First, Second) \in Stats
      BY <1>2, StatsClosed DEF StatsOf, ResultsType, PairKeys
    <2>3. View(y, first) \in Stats /\ View(x, result) \in Stats
      BY <1>12, <2>2 DEF View
    <2> QED  BY <1>14, <2>1, <2>2, <2>3 DEF Stats
  <1>16. Exact(results', whole)
    <2>1. Exact(results, CountedOutcome)
      BY DEF IInv
    <2> QED  BY <1>9, <1>10, <1>15, <2>1, ExactSets
  <1>17. PairDone(x, result)
    BY <1>3, <1>4, <1>8, <1>11 DEF PairDone, Other, PairStats
  <1> QED  BY <1>7, <1>11, <1>16, <1>17 DEF Exact

LEMMA NextInv ==
    ASSUME ReportPenta => ~NoSwap, IInv, [Next]_vars, TypeOK'
    PROVE  IInv'
  <1>1. ASSUME NEW x \in GameIds, NEW result \in GameResult, Record(x[1], x[2], result)
        PROVE  IInv'
    <2>1. CacheOK' /\ Exact(results, CountedOutcome)'
      <3>1. CASE ReportPenta
        <4>1. CASE updatePairFirst(FromMatch(result), x[1])
          BY <1>1, <3>1, <4>1, PairFirstExact
        <4>2. CASE updatePairSecond(Configs(x[1], x[2]), FromMatch(result), x[1])
          BY <1>1, <3>1, <4>2, PairSecondExact
        <4> QED  BY <1>1, <3>1, <4>1, <4>2 DEF Record, Update
      <3>2. CASE ~ReportPenta
        BY <1>1, <3>2, NonPairExact
      <3> QED  BY <3>1, <3>2
    <2>2. saved' = saved
      BY <1>1 DEF Record
    <2> QED  BY <2>1, <2>2 DEF IInv, Exact, Whole
  <1>2. CASE getResults
    <2>1. /\ saved'.results = results /\ saved'.outcome = CountedOutcome
          /\ results' = results /\ gamePairCache' = gamePairCache /\ outcome' = outcome
      BY <1>2 DEF getResults
    <2>2. CountedOutcome' = CountedOutcome /\ CacheOK'
      BY <2>1 DEF CountedOutcome, Counted, CacheOK, IInv
    <2>3. Whole(CountedOutcome)
      <3> SUFFICES ASSUME ReportPenta, NEW r \in Rounds
                   PROVE  (CountedOutcome[<<r, 0>>] = "unplayed") <=> (CountedOutcome[<<r, 1>>] = "unplayed")
        BY DEF Whole
      <3>1. <<r, 0>> \in GameIds /\ <<r, 1>> \in GameIds
        BY ScoreBoardAssumption DEF GameIds
      <3> QED  BY <3>1, CountedType DEF IInv, CacheOK
    <2> QED  BY <2>1, <2>2, <2>3 DEF IInv, Exact, Whole
  <1>3. CASE setResults
    <2>1. /\ results' = saved.results /\ DOMAIN gamePairCache' = {}
          /\ outcome' = saved.outcome /\ saved' = saved
          /\ saved.outcome \in OutcomeType
      BY <1>3 DEF setResults, IInv, TypeOK
    <2>2. CountedOutcome' = saved.outcome
      BY <2>1 DEF CountedOutcome, Counted, OutcomeType
    <2>3. CacheOK'
      BY <2>1 DEF CacheOK, IInv, Whole
    <2> QED  BY <2>1, <2>2, <2>3 DEF IInv, Exact, Whole
  <1>4. CASE UNCHANGED vars
    BY <1>4 DEF vars, IInv, CacheOK, Exact, Whole, CountedOutcome, Counted
  <1> QED  BY <1>1, <1>2, <1>3, <1>4 DEF Next

(* The printed score is the score of the counted games, for any rounds,    *)
(* whenever the colours of a tracked pair are swapped (scoreboard.hpp:     *)
(* 99-138 with create_match, roundrobin.cpp:54-60).                        *)
THEOREM ScoreCorrect ==
    ASSUME ReportPenta => ~NoSwap
    PROVE  Spec => []ScoreExact
  <1>1. Init => IInv
    BY InitInv
  <1>2. IInv /\ TypeOK' /\ [Next]_vars => IInv'
    BY NextInv
  <1>3. IInv => ScoreExact
    BY DEF IInv, ScoreExact
  <1> QED  BY <1>1, <1>2, <1>3, TypeCorrect, PTL DEF Spec

-----------------------------------------------------------------------------
(* Pairs, and the tally a reader of the score may rely on.                 *)

OneGame(s) ==
    /\ s.wins + s.losses + s.draws = 1
    /\ s.WW = 0 /\ s.WD = 0 /\ s.WL = 0 /\ s.DD = 0 /\ s.LD = 0 /\ s.LL = 0

\* A half pair is one game; with pairs, the stats of both keys are made of them.
PairInv ==
    /\ \A r \in DOMAIN gamePairCache : OneGame(gamePairCache[r])
    /\ ReportPenta => \A k \in PairKeys : PentaOf(results[k]) /\ PentaOf(saved.results[k])

LEMMA OneGameStats ==
    /\ \A result \in GameResult : OneGame(FromMatch(result))
    /\ \A s \in Stats : OneGame(s) => OneGame(Invert(s))
  <1>1. \A result \in GameResult : OneGame(FromMatch(result))
    BY DEF OneGame, FromMatch, NoStats, Bool
  <1>2. \A s \in Stats : OneGame(s) => OneGame(Invert(s))
    BY DEF OneGame, Invert, Stats
  <1> QED  BY <1>1, <1>2

(* Two games make a pair of exactly one class.                             *)
LEMMA PairOfGames ==
    ASSUME NEW s \in Stats, NEW t \in Stats, OneGame(s), OneGame(t)
    PROVE  LET pair == AddPenta(Plus(s, t)) IN
           pair \in Stats /\ PentaOf(pair) /\ GamesOf(pair) = 2
  <1> DEFINE sum == Plus(s, t)
             pair == AddPenta(sum)
  <1>1. /\ sum \in Stats
        /\ sum.wins + sum.losses + sum.draws = 2
        /\ sum.WW = 0 /\ sum.WD = 0 /\ sum.WL = 0 /\ sum.DD = 0 /\ sum.LD = 0 /\ sum.LL = 0
    BY DEF Plus, OneGame, Stats
  <1> HIDE DEF sum
  <1>2. pair \in Stats
    BY <1>1, StatsClosed
  <1>3. /\ sum.wins \in Nat /\ sum.losses \in Nat /\ sum.draws \in Nat
    BY <1>1 DEF Stats
  <1>4. \/ sum.wins = 2 /\ sum.losses = 0 /\ sum.draws = 0
        \/ sum.wins = 1 /\ sum.losses = 1 /\ sum.draws = 0
        \/ sum.wins = 1 /\ sum.losses = 0 /\ sum.draws = 1
        \/ sum.wins = 0 /\ sum.losses = 2 /\ sum.draws = 0
        \/ sum.wins = 0 /\ sum.losses = 1 /\ sum.draws = 1
        \/ sum.wins = 0 /\ sum.losses = 0 /\ sum.draws = 2
    BY <1>1, <1>3
  <1>5. PentaOf(pair) /\ GamesOf(pair) = 2
    BY <1>1, <1>4 DEF PentaOf, GamesOf, AddPenta, Bool
  <1> QED  BY <1>2, <1>5 DEF sum

LEMMA PentaPlus ==
    ASSUME NEW s \in Stats, NEW t \in Stats, PentaOf(s), PentaOf(t)
    PROVE  PentaOf(Plus(s, t))
  BY DEF PentaOf, Plus, Stats

(* What a callback adds to the board: nothing, or a batch under one key.   *)
LEMMA BatchAdded ==
    ASSUME TypeOK, PairInv, NEW x \in GameIds, NEW result \in GameResult, Record(x[1], x[2], result)
    PROVE  /\ saved' = saved
           /\ \A r \in DOMAIN gamePairCache' : OneGame(gamePairCache'[r])
           /\ \/ results' = results
              \/ \E k \in PairKeys, s \in Stats :
                    /\ results' = Added(results, k, s)
                    /\ GamesOf(s) = IF ReportPenta THEN 2 ELSE 1
                    /\ ReportPenta => PentaOf(s)
  <1> DEFINE game == FromMatch(result)
             k == Configs(x[1], x[2])
  <1>1. game \in Stats /\ OneGame(game) /\ OneGame(Invert(game)) /\ k \in PairKeys
    BY StatsClosed, OneGameStats, ConfigsKey
  <1>2. CASE ReportPenta /\ updatePairFirst(game, x[1])
    BY <1>1, <1>2 DEF Record, updatePairFirst, PairInv
  <1>3. CASE ReportPenta /\ updatePairSecond(k, game, x[1])
    <2> DEFINE pair == AddPenta(Plus(gamePairCache[x[1]], game))
    <2>1. x[1] \in DOMAIN gamePairCache /\ gamePairCache[x[1]] \in Stats /\ OneGame(gamePairCache[x[1]])
      BY <1>3 DEF updatePairSecond, TypeOK, PairInv
    <2>2. pair \in Stats /\ PentaOf(pair) /\ GamesOf(pair) = 2
      BY <1>1, <2>1, PairOfGames
    <2>3. results' = Added(results, k, pair)
      BY <1>3 DEF updatePairSecond
    <2>4. \A r \in DOMAIN gamePairCache' : OneGame(gamePairCache'[r])
      BY <1>3 DEF updatePairSecond, Forget, PairInv
    <2> HIDE DEF pair
    <2> QED  BY <1>1, <1>3, <2>2, <2>3, <2>4 DEF Record
  <1>4. CASE ~ReportPenta
    <2>1. GamesOf(game) = 1
      BY <1>1 DEF GamesOf, OneGame, Stats
    <2>2. results' = Added(results, k, game) /\ gamePairCache' = gamePairCache /\ saved' = saved
      BY <1>4 DEF Record, Update, updateNonPair
    <2> QED  BY <1>1, <1>4, <2>1, <2>2 DEF PairInv
  <1> QED  BY <1>2, <1>3, <1>4 DEF Record, Update

LEMMA PairInvInit == Init => PairInv
  <1>1. PentaOf(NoStats)
    BY DEF PentaOf, NoStats
  <1> QED  BY <1>1 DEF Init, NothingSaved, PairInv

LEMMA PairInvNext == TypeOK /\ PairInv /\ [Next]_vars => PairInv'
  <1> SUFFICES ASSUME TypeOK, PairInv, [Next]_vars PROVE PairInv'
    OBVIOUS
  <1>1. ASSUME NEW x \in GameIds, NEW result \in GameResult, Record(x[1], x[2], result)
        PROVE  PairInv'
    <2>1. CASE results' = results
      BY <1>1, <2>1, BatchAdded DEF PairInv
    <2>2. ASSUME NEW k \in PairKeys, NEW s \in Stats, results' = Added(results, k, s),
                 ReportPenta => PentaOf(s)
          PROVE  PairInv'
      <3>1. ASSUME ReportPenta, NEW l \in PairKeys
            PROVE  PentaOf(results'[l])
        <4>1. results[l] \in Stats /\ PentaOf(results[l])
          BY <3>1 DEF TypeOK, ResultsType, PairInv
        <4>2. results'[l] = IF l = k THEN Plus(results[l], s) ELSE results[l]
          BY <2>2 DEF Added, TypeOK, ResultsType
        <4>3. CASE l = k
          BY <2>2, <3>1, <4>1, <4>2, <4>3, PentaPlus
        <4> QED  BY <4>1, <4>2, <4>3
      <3> QED  BY <1>1, <3>1, BatchAdded DEF PairInv
    <2> QED  BY <1>1, <2>1, <2>2, BatchAdded
  <1>2. CASE getResults
    BY <1>2 DEF getResults, PairInv
  <1>3. CASE setResults
    BY <1>3 DEF setResults, PairInv
  <1>4. CASE UNCHANGED vars
    BY <1>4 DEF vars, PairInv
  <1> QED  BY <1>1, <1>2, <1>3, <1>4 DEF Next

(* Every pair is in exactly one of the six classes, under either key: Elo  *)
(* and SPRT see the same games in both models (scoreboard.hpp:116-121).    *)
THEOREM PairsClassified == Spec => []PentaConsistent
  <1>1. PairInv => PentaConsistent
    BY DEF PairInv, PentaConsistent
  <1> QED  BY <1>1, PairInvInit, PairInvNext, TypeCorrect, PTL DEF Spec

-----------------------------------------------------------------------------

ScoreOf(res) == WDL(StatsOf(res, First, Second))
Batch == IF ReportPenta THEN 2 ELSE 1

LEMMA TallyStep == TypeOK /\ PairInv /\ [Next]_vars => [ScoreTally!Next]_<<ScoreOf(results), ScoreOf(saved.results)>>
  <1> SUFFICES ASSUME TypeOK, PairInv, [Next]_vars
               PROVE  [ScoreTally!Next]_<<ScoreOf(results), ScoreOf(saved.results)>>
    OBVIOUS
  <1> USE DEF ScoreTally!Next, ScoreOf
  <1>1. ASSUME NEW x \in GameIds, NEW result \in GameResult, Record(x[1], x[2], result)
        PROVE  [ScoreTally!Next]_<<ScoreOf(results), ScoreOf(saved.results)>>
    <2>1. CASE results' = results
      BY <1>1, <2>1, BatchAdded
    <2>2. ASSUME NEW k \in PairKeys, NEW s \in Stats, results' = Added(results, k, s), GamesOf(s) = Batch
          PROVE  \E gain \in ScoreTally!Gains : ScoreTally!Add(gain)
      <3> DEFINE v == IF k = <<First, Second>> THEN s ELSE Invert(s)
                 gain == WDL(v)
                 old == StatsOf(results, First, Second)
                 new == StatsOf(results', First, Second)
      <3>1. v \in Stats /\ v.wins + v.losses + v.draws = Batch
        <4>1. Invert(s) \in Stats
          BY StatsClosed
        <4> QED  BY <2>2, <4>1 DEF GamesOf, Invert, Stats
      <3>2. /\ new.wins = old.wins + v.wins
            /\ new.losses = old.losses + v.losses
            /\ new.draws = old.draws + v.draws
        BY <2>2, AddedScore DEF TypeOK
      <3> HIDE DEF v, old, new
      <3>3. gain \in ScoreTally!Gains
        BY <3>1 DEF ScoreTally!Gains, WDL, Stats, Batch
      <3>4. WDL(new) = [d \in DOMAIN WDL(old) |-> WDL(old)[d] + gain[d]]
        BY <3>2 DEF WDL
      <3>5. saved' = saved
        BY <1>1, BatchAdded
      <3> QED  BY <3>3, <3>4, <3>5 DEF ScoreTally!Add, getStats, old, new
    <2> QED  BY <1>1, <2>1, <2>2, BatchAdded DEF Batch
  <1>2. CASE getResults
    BY <1>2 DEF getResults, ScoreTally!Save, getStats
  <1>3. CASE setResults
    BY <1>3 DEF setResults, ScoreTally!Restore, getStats
  <1>4. CASE UNCHANGED vars
    BY <1>4 DEF vars
  <1> QED  BY <1>1, <1>2, <1>3, <1>4 DEF Next

(* The score is a tally: it grows by whole games or pairs, one point each, *)
(* and a restart restores a saved one (scoreboard.hpp:89-138).             *)
THEOREM TallyImplemented == Spec => ImplementsTally
  <1>1. Init => ScoreTally!Init
    <2> SUFFICES ASSUME Init PROVE ScoreTally!Init
      OBVIOUS
    <2>1. StatsOf(NothingSaved.results, First, Second) = Plus(NoStats, Invert(NoStats))
      BY DEF StatsOf, NothingSaved, PairKeys
    <2> QED  BY <2>1 DEF Init, ScoreTally!Init, ScoreTally!Zero, WDL, getStats, NothingSaved, Plus, Invert, NoStats
  <1>2. TypeOK /\ PairInv /\ [Next]_vars => [ScoreTally!Next]_<<WDL(getStats(First, Second)), WDL(StatsOf(saved.results, First, Second))>>
    BY TallyStep DEF ScoreOf, getStats
  <1> QED
    BY <1>1, <1>2, PairInvInit, PairInvNext, TypeCorrect, PTL DEF Spec, ImplementsTally, ScoreTally!Spec

-----------------------------------------------------------------------------
(* The pentanomial counters count rounds.                                  *)

Played(out) == {x \in GameIds : out[x] # "unplayed"}

\* The games of round r that engine e won, in the record out.
WonIn(out, r, e) == {g \in {0, 1} : Won(out, <<r, g>>, e)}
PointsIn(out, r, e) == Cardinality(WonIn(out, r, e))

InClass(out, r, w, l) == PointsIn(out, r, First) = w /\ PointsIn(out, r, Second) = l

\* The completed rounds of a class: w wins of the first engine and l of the second.
ClassRounds(out, w, l) == {r \in Rounds : {r} \X {0, 1} \subseteq Played(out) /\ InClass(out, r, w, l)}
ClassCount(out, w, l) == Cardinality(ClassRounds(out, w, l))

\* The counters of res are the rounds of out.
PentaCounts(res, out) ==
    LET s == StatsOf(res, First, Second)
    IN  /\ s.WW = ClassCount(out, 2, 0) /\ s.WD = ClassCount(out, 1, 0)
        /\ s.WL = ClassCount(out, 1, 1) /\ s.DD = ClassCount(out, 0, 0)
        /\ s.LD = ClassCount(out, 0, 1) /\ s.LL = ClassCount(out, 0, 2)

PentaInv ==
    ReportPenta => /\ PentaCounts(results, CountedOutcome)
                   /\ PentaCounts(saved.results, saved.outcome)

LEMMA PointsOfTwo ==
    ASSUME NEW out, NEW r, NEW e \in Engines
    PROVE  PointsIn(out, r, e) = Bool(Won(out, <<r, 0>>, e)) + Bool(Won(out, <<r, 1>>, e))
  <1> DEFINE S == WonIn(out, r, e)
  <1>1. /\ Won(out, <<r, 0>>, e) \in BOOLEAN /\ Won(out, <<r, 1>>, e) \in BOOLEAN
    BY DEF Won
  <1>2. S \subseteq {0, 1} /\ (0 \in S <=> Won(out, <<r, 0>>, e)) /\ (1 \in S <=> Won(out, <<r, 1>>, e))
    BY DEF WonIn
  <1>3. Cardinality({}) = 0 /\ Cardinality({0}) = 1 /\ Cardinality({1}) = 1 /\ IsFiniteSet({0})
    BY FS_EmptySet, FS_Singleton
  <1>4. Cardinality({0} \cup {1}) = 2
    <2>1. 1 \notin {0}
      OBVIOUS
    <2>2. Cardinality({0} \cup {1}) = Cardinality({0}) + 1
      BY <1>3, <2>1, FS_AddElement
    <2> QED  BY <1>3, <2>2
  <1> HIDE DEF S
  <1>5. Cardinality(S) = Bool(0 \in S) + Bool(1 \in S)
    <2>1. CASE 0 \in S /\ 1 \in S
      <3>1. S = {0} \cup {1}
        BY <1>2, <2>1
      <3> QED  BY <1>4, <2>1, <3>1 DEF Bool
    <2>2. CASE 0 \in S /\ 1 \notin S
      <3>1. S = {0}
        BY <1>2, <2>2
      <3> QED  BY <1>3, <2>2, <3>1 DEF Bool
    <2>3. CASE 0 \notin S /\ 1 \in S
      <3>1. S = {1}
        BY <1>2, <2>3
      <3> QED  BY <1>3, <2>3, <3>1 DEF Bool
    <2>4. CASE 0 \notin S /\ 1 \notin S
      <3>1. S = {}
        BY <1>2, <2>4
      <3> QED  BY <1>3, <2>4, <3>1 DEF Bool
    <2> QED  BY <2>1, <2>2, <2>3, <2>4
  <1> QED  BY <1>2, <1>5 DEF S, PointsIn, Bool

\* The points of a round are the wins of its games, as the first engine sees them.
LEMMA PointsAreViews ==
    ASSUME GamesPerRound = 2, NEW out \in OutcomeType, NEW x \in GameIds,
           out[x] \in GameResult, out[Other(x)] \in GameResult
    PROVE  /\ PointsIn(out, x[1], First) = View(Other(x), out[Other(x)]).wins + View(x, out[x]).wins
           /\ PointsIn(out, x[1], Second) = View(Other(x), out[Other(x)]).losses + View(x, out[x]).losses
  <1>1. x = <<x[1], x[2]>> /\ x[1] \in Rounds /\ x[2] \in {0, 1} /\ Other(x) \in GameIds
    BY DEF GameIds, Other
  <1>2. First \in Engines /\ Second \in Engines
    BY DEF Engines
  <1>3. ASSUME NEW e \in Engines
        PROVE  PointsIn(out, x[1], e) = Bool(Won(out, Other(x), e)) + Bool(Won(out, x, e))
    <2>1. Bool(Won(out, Other(x), e)) \in Nat /\ Bool(Won(out, x, e)) \in Nat
      BY DEF Bool
    <2>2. CASE x[2] = 0
      <3>1. x = <<x[1], 0>> /\ Other(x) = <<x[1], 1>>
        BY <1>1, <2>2 DEF Other
      <3> QED  BY <2>1, <3>1, PointsOfTwo
    <2>3. CASE x[2] = 1
      <3>1. x = <<x[1], 1>> /\ Other(x) = <<x[1], 0>>
        BY <1>1, <2>3 DEF Other
      <3> QED  BY <2>1, <3>1, PointsOfTwo
    <2> QED  BY <1>1, <2>2, <2>3
  <1> QED  BY <1>1, <1>2, <1>3, ViewOutcome

\* The counters added under a key, in the first engine's view.
LEMMA AddedPenta ==
    ASSUME NEW res \in ResultsType, NEW k \in PairKeys, NEW s \in Stats
    PROVE  LET old == StatsOf(res, First, Second)
               new == StatsOf(Added(res, k, s), First, Second)
               v == IF k = <<First, Second>> THEN s ELSE Invert(s)
           IN  /\ new.WW = old.WW + v.WW /\ new.WD = old.WD + v.WD /\ new.WL = old.WL + v.WL
               /\ new.DD = old.DD + v.DD /\ new.LD = old.LD + v.LD /\ new.LL = old.LL + v.LL
  <1> DEFINE fs == <<First, Second>>
             sf == <<Second, First>>
             new == Added(res, k, s)
  <1>1. fs # sf
    BY ScoreBoardAssumption
  <1>2. res[fs] \in Stats /\ res[sf] \in Stats
    BY DEF ResultsType, PairKeys
  <1>3. ASSUME NEW a \in Stats, NEW b \in Stats
        PROVE  /\ Plus(a, b).WW = a.WW + b.WW /\ Plus(a, b).WD = a.WD + b.WD
               /\ Plus(a, b).WL = a.WL + b.WL /\ Plus(a, b).DD = a.DD + b.DD
               /\ Plus(a, b).LD = a.LD + b.LD /\ Plus(a, b).LL = a.LL + b.LL
               /\ a.WW \in Nat /\ a.WD \in Nat /\ a.WL \in Nat
               /\ a.DD \in Nat /\ a.LD \in Nat /\ a.LL \in Nat
    BY DEF Plus, Stats
  <1>4. ASSUME NEW a
        PROVE  /\ Invert(a).WW = a.LL /\ Invert(a).WD = a.LD /\ Invert(a).WL = a.WL
               /\ Invert(a).DD = a.DD /\ Invert(a).LD = a.WD /\ Invert(a).LL = a.WW
    BY DEF Invert
  <1>5. ASSUME NEW r \in ResultsType
        PROVE  LET t == StatsOf(r, First, Second)
               IN  /\ t.WW = r[fs].WW + r[sf].LL /\ t.WD = r[fs].WD + r[sf].LD
                   /\ t.WL = r[fs].WL + r[sf].WL /\ t.DD = r[fs].DD + r[sf].DD
                   /\ t.LD = r[fs].LD + r[sf].WD /\ t.LL = r[fs].LL + r[sf].WW
    <2>1. r[fs] \in Stats /\ r[sf] \in Stats /\ Invert(r[sf]) \in Stats
      BY StatsClosed DEF ResultsType, PairKeys
    <2> QED  BY <1>3, <1>4, <2>1 DEF StatsOf
  <1>6. new \in ResultsType
    BY AddedType
  <1>7. CASE k = fs
    <2>1. new[fs] = Plus(res[fs], s) /\ new[sf] = res[sf]
      BY <1>1, <1>7 DEF Added, ResultsType, PairKeys
    <2> HIDE DEF fs, sf, new
    <2> QED  BY <1>2, <1>3, <1>5, <1>6, <1>7, <2>1 DEF fs, new
  <1>8. CASE k = sf
    <2>1. new[fs] = res[fs] /\ new[sf] = Plus(res[sf], s)
      BY <1>1, <1>8 DEF Added, ResultsType, PairKeys
    <2> HIDE DEF fs, sf, new
    <2>2. /\ new[sf].WW = res[sf].WW + s.WW /\ new[sf].WD = res[sf].WD + s.WD
          /\ new[sf].WL = res[sf].WL + s.WL /\ new[sf].DD = res[sf].DD + s.DD
          /\ new[sf].LD = res[sf].LD + s.LD /\ new[sf].LL = res[sf].LL + s.LL
      BY <1>2, <1>3, <2>1
    <2>3. \A a \in {res[fs], res[sf], s} : /\ a.WW \in Nat /\ a.WD \in Nat /\ a.WL \in Nat
                                           /\ a.DD \in Nat /\ a.LD \in Nat /\ a.LL \in Nat
      BY <1>2 DEF Stats
    <2> QED  BY <1>1, <1>4, <1>5, <1>6, <1>8, <2>1, <2>2, <2>3 DEF fs, new
  <1> QED  BY <1>7, <1>8 DEF PairKeys

\* A completed pair adds one to the counter of its class, and nothing to the others.
LEMMA PairOfClass ==
    ASSUME ReportPenta, ~NoSwap, NEW x \in GameIds, NEW first \in GameResult, NEW result \in GameResult
    PROVE  LET s == PairStats(first, result)
               v == IF Configs(x[1], x[2]) = <<First, Second>> THEN s ELSE Invert(s)
               w == View(Other(x), first).wins + View(x, result).wins
               l == View(Other(x), first).losses + View(x, result).losses
           IN  /\ s \in Stats
               /\ v.WW = Bool(w = 2 /\ l = 0) /\ v.WD = Bool(w = 1 /\ l = 0)
               /\ v.WL = Bool(w = 1 /\ l = 1) /\ v.DD = Bool(w = 0 /\ l = 0)
               /\ v.LD = Bool(w = 0 /\ l = 1) /\ v.LL = Bool(w = 0 /\ l = 2)
  <1> DEFINE k == Configs(x[1], x[2])
             a == FromMatch(first)
             b == FromMatch(result)
             s == PairStats(first, result)
  <1>1. /\ a \in Stats /\ b \in Stats /\ OneGame(a) /\ OneGame(b) /\ s \in Stats
    BY StatsClosed, OneGameStats DEF PairStats
  <1>2. x[1] \in Rounds /\ x[2] \in {0, 1}
    BY ScoreBoardAssumption DEF GameIds
  <1>3. (k = <<First, Second>>) <=> (Configs(x[1], 1 - x[2]) = <<Second, First>>)
    BY <1>2, PairColours
  <1>4. /\ k \in PairKeys /\ <<First, Second>> # <<Second, First>>
        /\ Configs(x[1], 1 - x[2]) \in PairKeys
    BY <1>2, ConfigsKey, ScoreBoardAssumption DEF Configs, PairKeys
  <1>5. /\ Other(x)[1] = x[1] /\ Other(x)[2] = 1 - x[2]
    BY DEF Other
  <1> HIDE DEF a, b
  <1>6. /\ s.WW = Bool(a.losses + b.wins = 2) /\ s.LL = Bool(a.wins + b.losses = 2)
        /\ s.WD = Bool(a.losses + b.wins = 1 /\ a.draws + b.draws = 1)
        /\ s.WL = Bool(a.losses + b.wins = 1 /\ a.wins + b.losses = 1)
        /\ s.LD = Bool(a.wins + b.losses = 1 /\ a.draws + b.draws = 1)
        /\ s.DD = Bool(a.draws + b.draws = 2)
    <2>1. s = AddPenta(Plus(Invert(a), b))
      BY DEF PairStats, a, b
    <2>2. /\ Plus(Invert(a), b).wins = a.losses + b.wins
          /\ Plus(Invert(a), b).losses = a.wins + b.losses
          /\ Plus(Invert(a), b).draws = a.draws + b.draws
          /\ Plus(Invert(a), b).WW = 0 /\ Plus(Invert(a), b).WD = 0 /\ Plus(Invert(a), b).WL = 0
          /\ Plus(Invert(a), b).DD = 0 /\ Plus(Invert(a), b).LD = 0 /\ Plus(Invert(a), b).LL = 0
      BY <1>1 DEF Plus, Invert, OneGame
    <2>3. \A c : Bool(c) \in Nat
      BY DEF Bool
    <2> QED  BY <2>1, <2>2, <2>3 DEF AddPenta
  <1>7. /\ a.wins \in {0, 1} /\ a.losses \in {0, 1} /\ a.draws \in {0, 1}
        /\ b.wins \in {0, 1} /\ b.losses \in {0, 1} /\ b.draws \in {0, 1}
        /\ a.wins + a.losses + a.draws = 1 /\ b.wins + b.losses + b.draws = 1
    BY <1>1 DEF OneGame, Stats
  <1>8. CASE k = <<First, Second>>
    <2>1. View(x, result) = b /\ View(Other(x), first) = Invert(a)
      BY <1>3, <1>4, <1>5, <1>8 DEF View, a, b
    <2>2. /\ View(Other(x), first).wins = a.losses /\ View(Other(x), first).losses = a.wins
      BY <2>1 DEF Invert
    <2> HIDE DEF k, s
    <2> QED  BY <1>1, <1>6, <1>7, <1>8, <2>1, <2>2 DEF Bool, k, s
  <1>9. CASE k # <<First, Second>>
    <2>1. View(x, result) = Invert(b) /\ View(Other(x), first) = a
      BY <1>3, <1>4, <1>5, <1>9 DEF View, PairKeys, a, b
    <2>2. /\ View(x, result).wins = b.losses /\ View(x, result).losses = b.wins
      BY <2>1 DEF Invert
    <2>3. /\ Invert(s).WW = s.LL /\ Invert(s).WD = s.LD /\ Invert(s).WL = s.WL
          /\ Invert(s).DD = s.DD /\ Invert(s).LD = s.WD /\ Invert(s).LL = s.WW
      BY DEF Invert
    <2> HIDE DEF k, s
    <2> QED  BY <1>1, <1>6, <1>7, <1>9, <2>1, <2>2, <2>3 DEF Bool, k, s
  <1> QED  BY <1>8, <1>9

\* Only what a record says of a round matters for its class.
LEMMA SameClass ==
    ASSUME GamesPerRound = 2, NEW out, NEW out2, NEW r \in Rounds,
           out2[<<r, 0>>] = out[<<r, 0>>], out2[<<r, 1>>] = out[<<r, 1>>], NEW w, NEW l
    PROVE  r \in ClassRounds(out2, w, l) <=> r \in ClassRounds(out, w, l)
  <1>1. \A g \in {0, 1} : out2[<<r, g>>] = out[<<r, g>>]
    OBVIOUS
  <1>2. ASSUME NEW e \in Engines
        PROVE  PointsIn(out2, r, e) = PointsIn(out, r, e)
    BY <1>1 DEF PointsIn, WonIn, Won
  <1>3. InClass(out2, r, w, l) <=> InClass(out, r, w, l)
    BY <1>2 DEF InClass, Engines
  <1>4. ({r} \X {0, 1} \subseteq Played(out2)) <=> ({r} \X {0, 1} \subseteq Played(out))
    BY <1>1 DEF Played
  <1> QED  BY <1>3, <1>4 DEF ClassRounds

\* The completion of a round adds it to its class.
LEMMA ClassGain ==
    ASSUME GamesPerRound = 2, NEW out \in OutcomeType, NEW x \in GameIds,
           out[x] = "unplayed", NEW out2 \in OutcomeType,
           out2[x] \in GameResult, out2[Other(x)] \in GameResult,
           \A z \in GameIds \ {x, Other(x)} : out2[z] = out[z],
           NEW w, NEW l
    PROVE  /\ ClassCount(out2, w, l) = ClassCount(out, w, l) + Bool(InClass(out2, x[1], w, l))
           /\ ClassCount(out, w, l) \in Nat
  <1> DEFINE r == x[1]
  <1>1. x = <<r, x[2]>> /\ r \in Rounds /\ x[2] \in {0, 1} /\ {x, Other(x)} = {r} \X {0, 1}
    BY DEF GameIds, Other
  <1>2. r \notin ClassRounds(out, w, l)
    <2>1. x \notin Played(out) /\ x \in {r} \X {0, 1}
      BY <1>1 DEF Played
    <2> QED  BY <2>1 DEF ClassRounds
  <1>3. (r \in ClassRounds(out2, w, l)) <=> InClass(out2, r, w, l)
    <2>1. \A result \in GameResult : result # "unplayed"
      BY DEF GameResult
    <2>2. Other(x) \in GameIds
      BY <1>1 DEF GameIds, Other
    <2>3. {x, Other(x)} \subseteq Played(out2)
      BY <2>1, <2>2 DEF Played
    <2> QED  BY <1>1, <2>3 DEF ClassRounds
  <1>4. ASSUME NEW q \in Rounds, q # r
        PROVE  q \in ClassRounds(out2, w, l) <=> q \in ClassRounds(out, w, l)
    <2>1. ASSUME NEW g \in {0, 1}
          PROVE  out2[<<q, g>>] = out[<<q, g>>]
      <3>1. <<q, g>> \in GameIds
        BY DEF GameIds
      <3>2. <<q, g>> # x /\ <<q, g>> # Other(x)
        BY <1>1, <1>4 DEF Other
      <3> QED  BY <3>1, <3>2
    <2> QED  BY <2>1, SameClass
  <1>5. InClass(out2, r, w, l) \in BOOLEAN
    BY DEF InClass
  <1>6. ClassRounds(out2, w, l) = IF InClass(out2, r, w, l) THEN ClassRounds(out, w, l) \cup {r}
                                                            ELSE ClassRounds(out, w, l)
    <2>1. ClassRounds(out2, w, l) \subseteq Rounds /\ ClassRounds(out, w, l) \subseteq Rounds
      BY DEF ClassRounds
    <2>2. \A q \in Rounds : q \in ClassRounds(out2, w, l)
                              <=> (q \in ClassRounds(out, w, l) \/ (q = r /\ InClass(out2, r, w, l)))
      BY <1>2, <1>3, <1>4
    <2> QED  BY <1>1, <2>1, <2>2
  <1>7. IsFiniteSet(ClassRounds(out, w, l))
    BY ScoreBoardAssumption, FS_Subset DEF ClassRounds
  <1> HIDE DEF r
  <1> QED  BY <1>2, <1>5, <1>6, <1>7, CardinalityGain DEF ClassCount, r

LEMMA PentaInit == Init => PentaInv
  <1> SUFFICES ASSUME Init, ReportPenta PROVE PentaInv
    BY DEF PentaInv
  <1>1. StatsOf(NothingSaved.results, First, Second) = Plus(NoStats, Invert(NoStats))
    BY DEF StatsOf, NothingSaved, PairKeys
  <1>2. \A x \in GameIds : NothingSaved.outcome[x] = "unplayed" /\ CountedOutcome[x] = "unplayed"
    BY DEF Init, NothingSaved, CountedOutcome, Counted
  <1>3. ASSUME NEW out, \A x \in GameIds : out[x] = "unplayed"
        PROVE  PentaCounts(NothingSaved.results, out)
    <2>1. Played(out) = {}
      BY <1>3 DEF Played
    <2>2. \A r : <<r, 0>> \in {r} \X {0, 1}
      OBVIOUS
    <2>3. ASSUME NEW w, NEW l PROVE ClassRounds(out, w, l) = {}
      BY <2>1, <2>2 DEF ClassRounds
    <2>4. ASSUME NEW w, NEW l PROVE ClassCount(out, w, l) = 0
      BY <2>3, FS_EmptySet DEF ClassCount
    <2> QED  BY <1>1, <2>4 DEF PentaCounts, Plus, Invert, NoStats
  <1>4. results = NothingSaved.results /\ saved = NothingSaved
    BY DEF Init
  <1> QED  BY <1>2, <1>3, <1>4 DEF PentaInv

LEMMA PentaNext ==
    ASSUME ReportPenta => ~NoSwap, IInv, PentaInv, [Next]_vars
    PROVE  PentaInv'
  <1> SUFFICES ASSUME ReportPenta PROVE PentaCounts(results, CountedOutcome)' /\ PentaCounts(saved.results, saved.outcome)'
    BY DEF PentaInv
  <1>0. PentaCounts(results, CountedOutcome) /\ PentaCounts(saved.results, saved.outcome) /\ TypeOK
    BY DEF PentaInv, IInv
  <1>1. ASSUME NEW x \in GameIds, NEW result \in GameResult, Record(x[1], x[2], result)
        PROVE  PentaInv'
    <2>1. saved' = saved
      BY <1>1 DEF Record
    <2>2. CASE updatePairFirst(FromMatch(result), x[1])
      <3>1. results' = results /\ CountedOutcome' = CountedOutcome
        BY <1>1, <2>2, PairFirstExact
      <3>2. PentaCounts(results', CountedOutcome') /\ PentaCounts(saved'.results, saved'.outcome)
        BY <1>0, <2>1, <3>1
      <3> QED  BY <3>2 DEF PentaInv, PentaCounts, ClassCount, ClassRounds, Played, InClass, PointsIn, WonIn, Won
    <2>3. CASE updatePairSecond(Configs(x[1], x[2]), FromMatch(result), x[1])
      <3> DEFINE y == Other(x)
                 first == outcome[y]
                 k == Configs(x[1], x[2])
                 s == PairStats(first, result)
                 v == IF k = <<First, Second>> THEN s ELSE Invert(s)
                 out == CountedOutcome
                 half == WithGame(out, y, first)
                 whole == WithGame(half, x, result)
                 w == View(y, first).wins + View(x, result).wins
                 l == View(y, first).losses + View(x, result).losses
      <3>1. /\ first \in GameResult /\ out \in OutcomeType
            /\ out[y] = "unplayed" /\ out[x] = "unplayed"
            /\ CountedOutcome' = whole /\ results' = Added(results, k, s)
        BY <1>1, <2>3, PairSecondExact DEF PairDone
      <3>2. y \in GameIds /\ y # x /\ GamesPerRound = 2
        BY ScoreBoardAssumption DEF GameIds, Other
      <3>3. /\ half \in OutcomeType /\ half[y] = first /\ half[x] = "unplayed"
            /\ \A z \in GameIds \ {y} : half[z] = out[z]
        BY <3>1, <3>2, ExactGain
      <3>4. /\ whole \in OutcomeType /\ whole[x] = result /\ \A z \in GameIds \ {x} : whole[z] = half[z]
        BY <3>3, ExactGain
      <3>5. whole[y] = first /\ \A z \in GameIds \ {x, y} : whole[z] = out[z]
        BY <3>2, <3>3, <3>4
      <3> HIDE DEF first, s, out, half, whole
      <3>6. /\ PointsIn(whole, x[1], First) = w
            /\ PointsIn(whole, x[1], Second) = l
        BY <3>1, <3>2, <3>4, <3>5, PointsAreViews
      <3>7. ASSUME NEW a, NEW b
            PROVE  /\ ClassCount(whole, a, b) = ClassCount(out, a, b) + Bool(w = a /\ l = b)
                   /\ ClassCount(out, a, b) \in Nat
        <4>1. InClass(whole, x[1], a, b) <=> (w = a /\ l = b)
          BY <3>6 DEF InClass
        <4>2. Bool(InClass(whole, x[1], a, b)) = Bool(w = a /\ l = b)
          BY <4>1 DEF Bool
        <4> HIDE DEF y, w, l
        <4>3. /\ ClassCount(whole, a, b) = ClassCount(out, a, b) + Bool(InClass(whole, x[1], a, b))
              /\ ClassCount(out, a, b) \in Nat
          BY <3>1, <3>2, <3>4, <3>5, ClassGain DEF y
        <4> QED  BY <4>2, <4>3
      <3>8. /\ s \in Stats
            /\ v.WW = Bool(w = 2 /\ l = 0) /\ v.WD = Bool(w = 1 /\ l = 0)
            /\ v.WL = Bool(w = 1 /\ l = 1) /\ v.DD = Bool(w = 0 /\ l = 0)
            /\ v.LD = Bool(w = 0 /\ l = 1) /\ v.LL = Bool(w = 0 /\ l = 2)
        BY <1>1, <3>1, PairOfClass DEF s
      <3> HIDE DEF w, l, y
      <3>9. k \in PairKeys /\ results \in ResultsType
        BY <1>0, ConfigsKey DEF TypeOK
      <3>10. LET old == StatsOf(results, First, Second)
                 new == StatsOf(Added(results, k, s), First, Second)
             IN  /\ new.WW = old.WW + v.WW /\ new.WD = old.WD + v.WD /\ new.WL = old.WL + v.WL
                 /\ new.DD = old.DD + v.DD /\ new.LD = old.LD + v.LD /\ new.LL = old.LL + v.LL
        BY <3>8, <3>9, AddedPenta
      <3> HIDE DEF v, k
      <3>11. PentaCounts(results, out)
        BY <1>0 DEF out
      <3>12. PentaCounts(Added(results, k, s), whole)
        BY <3>7, <3>8, <3>10, <3>11 DEF PentaCounts
      <3>13. PentaCounts(results', CountedOutcome')
        BY <3>1, <3>12
      <3>14. PentaCounts(saved.results, saved.outcome)'
        BY <1>0, <2>1 DEF PentaCounts, ClassCount, ClassRounds, Played, InClass, PointsIn, WonIn, Won
      <3> QED  BY <3>13, <3>14 DEF PentaInv, PentaCounts, ClassCount, ClassRounds, Played, InClass, PointsIn, WonIn, Won
    <2> QED  BY <1>1, <2>2, <2>3 DEF Record, Update
  <1>2. CASE getResults
    <2>1. /\ saved'.results = results /\ saved'.outcome = CountedOutcome
          /\ results' = results /\ gamePairCache' = gamePairCache /\ outcome' = outcome
      BY <1>2 DEF getResults
    <2>2. CountedOutcome' = CountedOutcome
      BY <2>1 DEF CountedOutcome, Counted
    <2>3. PentaCounts(results', CountedOutcome') /\ PentaCounts(saved'.results, saved'.outcome)
      BY <1>0, <2>1, <2>2
    <2> QED  BY <2>3 DEF PentaInv, PentaCounts, ClassCount, ClassRounds, Played, InClass, PointsIn, WonIn, Won
  <1>3. CASE setResults
    <2>1. /\ results' = saved.results /\ DOMAIN gamePairCache' = {}
          /\ outcome' = saved.outcome /\ saved' = saved
          /\ saved.outcome \in OutcomeType
      BY <1>0, <1>3 DEF setResults, TypeOK
    <2>2. CountedOutcome' = saved.outcome
      BY <2>1 DEF CountedOutcome, Counted, OutcomeType
    <2>3. PentaCounts(results', CountedOutcome') /\ PentaCounts(saved'.results, saved'.outcome)
      BY <1>0, <2>1, <2>2
    <2> QED  BY <2>3 DEF PentaInv, PentaCounts, ClassCount, ClassRounds, Played, InClass, PointsIn, WonIn, Won
  <1>4. CASE UNCHANGED vars
    <2>1. UNCHANGED <<results, saved, CountedOutcome>>
      BY <1>4 DEF vars, CountedOutcome, Counted
    <2>2. PentaCounts(results', CountedOutcome') /\ PentaCounts(saved'.results, saved'.outcome)
      BY <1>0, <2>1
    <2> QED  BY <2>2 DEF PentaInv, PentaCounts, ClassCount, ClassRounds, Played, InClass, PointsIn, WonIn, Won
  <1> QED  BY <1>1, <1>2, <1>3, <1>4 DEF Next, PentaInv

(* Each pentanomial counter is the number of completed rounds of its class *)
(* as the first engine sees them, in whatever order the games finished and *)
(* however often the tournament was resumed (scoreboard.hpp:99-128).       *)
THEOREM PentaCorrect ==
    ASSUME ReportPenta => ~NoSwap
    PROVE  Spec => []PentaExact
  <1>1. Init => IInv /\ PentaInv
    BY InitInv, PentaInit
  <1>2. IInv /\ PentaInv /\ TypeOK' /\ [Next]_vars => IInv' /\ PentaInv'
    BY NextInv, PentaNext
  <1>3. TypeOK /\ PentaInv => PentaExact
    <2> SUFFICES ASSUME TypeOK, ReportPenta, PentaCounts(results, CountedOutcome) PROVE PentaExact
      BY DEF PentaInv, PentaExact
    <2>1. ASSUME NEW r \in Rounds, {r} \X {0, 1} \subseteq Counted, NEW e \in Engines
          PROVE  Cardinality({g \in {0, 1} : Won(outcome, <<r, g>>, e)}) = PointsIn(CountedOutcome, r, e)
      <3>1. \A g \in {0, 1} : CountedOutcome[<<r, g>>] = outcome[<<r, g>>]
        BY <2>1 DEF CountedOutcome, Counted
      <3> QED  BY <3>1 DEF PointsIn, WonIn, Won
    <2>2. Counted = Played(CountedOutcome)
      BY DEF Counted, Played, CountedOutcome
    <2>3. ASSUME NEW w, NEW l
          PROVE  {r \in Rounds : /\ {r} \X {0, 1} \subseteq Counted
                                 /\ Cardinality({g \in {0, 1} : Won(outcome, <<r, g>>, First)}) = w
                                 /\ Cardinality({g \in {0, 1} : Won(outcome, <<r, g>>, Second)}) = l}
                   = ClassRounds(CountedOutcome, w, l)
      BY <2>1, <2>2 DEF ClassRounds, InClass, Engines
    <2> QED  BY <2>3 DEF PentaExact, PentaCounts, ClassCount, getStats
  <1> QED  BY <1>1, <1>2, <1>3, TypeCorrect, PTL DEF Spec, IInv
=============================================================================
