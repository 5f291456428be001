-------------------------- MODULE Tournament_proofs --------------------------
(***************************************************************************)
(* For any number of workers, rounds and sessions: the finish callbacks    *)
(* never overlap; match_count_ is the number of games on the board; the    *)
(* first session writes the games to the PGN file that are on the board;   *)
(* a tournament that ends with all games counted printed its final score   *)
(* once and saved every result; and as long as the sessions played the     *)
(* games in order, every step is a step of the score board and a complete  *)
(* tournament has a result for every game.                                 *)
(* The inductive invariant follows the games: they wait in the order of    *)
(* create(), come after all that were started, are each played by one      *)
(* worker, and those a session records are new among its own; so counting  *)
(* them counts the games that have a result.                               *)
(***************************************************************************)
EXTENDS Tournament, FiniteSetTheorems, FunctionTheorems, TLAPS

-----------------------------------------------------------------------------
(* Who is in the callback.                                                 *)

Places == Callback \cup {"idle", "begin", "play", "keep", "lock"}

\* A worker is in the finish callback exactly while it holds output_mutex_.
MutexHeld == \A w \in Workers : at[w] \in Callback <=> output_mutex = w

MInv == at \in [Workers -> Places] /\ MutexHeld

LEMMA MutexInit == Init => MInv
  <1> SUFFICES ASSUME Init PROVE MInv
    OBVIOUS
  <1>1. at = [w \in Workers |-> "idle"] /\ output_mutex = NoWorker
    BY DEF Init
  <1> QED  BY <1>1, TournamentAssumption DEF MInv, MutexHeld, Callback, Places

\* A worker that goes from one place to another keeps the invariant when it keeps
\* its side of the mutex.
LEMMA Moves ==
    ASSUME MInv, NEW w \in Workers, NEW to \in Places,
           at' = [at EXCEPT ![w] = to],
           \/ output_mutex' = output_mutex /\ (at[w] \in Callback <=> to \in Callback)
           \/ output_mutex = NoWorker /\ output_mutex' = w /\ to \in Callback
           \/ at[w] \in Callback /\ output_mutex' = NoWorker /\ to \notin Callback
    PROVE  MInv'
  <1>1. at' \in [Workers -> Places]
    BY DEF MInv
  <1>2. \A v \in Workers : at'[v] = IF v = w THEN to ELSE at[v]
    BY DEF MInv
  <1>3. \A v \in Workers : at'[v] \in Callback <=> output_mutex' = v
    BY <1>2, TournamentAssumption DEF MInv, MutexHeld
  <1> QED  BY <1>1, <1>3 DEF MInv, MutexHeld

\* Where the steps of a worker lead.
LEMMA WorkerMoves ==
    ASSUME NEW w \in Workers, playGame(w)
    PROVE  \/ \E to \in {"idle", "begin", "play", "keep", "lock"} :
                /\ at[w] \in {"idle", "begin", "play", "keep"}
                /\ at' = [at EXCEPT ![w] = to]
                /\ output_mutex' = output_mutex
           \/ \E to \in Callback :
                /\ at[w] \in Callback
                /\ at' = [at EXCEPT ![w] = to]
                /\ output_mutex' = output_mutex
           \/ /\ at[w] = "lock"
              /\ at' = [at EXCEPT ![w] = "record"]
              /\ output_mutex = NoWorker /\ output_mutex' = w
           \/ /\ at[w] = "unlock"
              /\ at' = [at EXCEPT ![w] = "idle"]
              /\ output_mutex' = NoWorker
  <1>1. CASE Fetch(w) \/ Begin(w)
    BY <1>1 DEF Fetch, Begin, Return, Step
  <1>2. CASE EndGame(w) \/ StartFails(w)
    BY <1>2 DEF EndGame, StartFails, Step
  <1>3. CASE Disconnect(w)
    BY <1>3 DEF Disconnect, Return, Step
  <1>4. CASE Throw(w)
    BY <1>4 DEF Throw, Return
  <1>5. CASE Keep(w)
    BY <1>5 DEF Keep, Return, Step
  <1>6. CASE Lock(w)
    BY <1>6 DEF Lock, Step
  <1>7. CASE Record(w)
    BY <1>7 DEF Record, Step, Callback
  <1>8. CASE Report(w) \/ updateSprtStatus(w) \/ Count(w)
    BY <1>8 DEF Report, updateSprtStatus, Count, Step, Callback
  <1>9. CASE Unlock(w)
    BY <1>9 DEF Unlock, Return
  <1> QED  BY <1>1, <1>2, <1>3, <1>4, <1>5, <1>6, <1>7, <1>8, <1>9 DEF playGame

\* The main thread and the signal handler leave the workers where they are.
LEMMA OthersStay ==
    ASSUME mainThread \/ Interrupt \/ UNCHANGED vars
    PROVE  at' = at /\ output_mutex' = output_mutex
  BY DEF mainThread, Enqueue, StartWaiting, Autosave, EndAutosave, StopWaiting, DestroyMembers,
         FinalSave, EndFinalSave, KillPool, JoinPool, Interrupt, vars, worker

LEMMA MutexStep == MInv /\ [Next]_vars => MInv'
  <1> SUFFICES ASSUME MInv, [Next]_vars PROVE MInv'
    OBVIOUS
  <1>1. ASSUME NEW w \in Workers, playGame(w) PROVE MInv'
    BY <1>1, WorkerMoves, Moves DEF Places, Callback
  <1>2. CASE mainThread \/ Interrupt \/ UNCHANGED vars
    BY <1>2, OthersStay DEF MInv, MutexHeld
  <1>3. CASE Restart
    <2>1. at' = [w \in Workers |-> "idle"] /\ output_mutex' = NoWorker
      BY <1>3 DEF Restart, Fresh
    <2> QED  BY <2>1, TournamentAssumption DEF MInv, MutexHeld, Callback, Places
  <1> QED  BY <1>1, <1>2, <1>3 DEF Next

(* Reports never interleave, and no two callbacks count at once            *)
(* (roundrobin.cpp:70-75).                                                 *)
THEOREM OneCallback == Spec => []CallbacksApart
  <1>1. MInv => CallbacksApart
    <2> SUFFICES ASSUME MInv PROVE CallbacksApart
      OBVIOUS
    <2> DEFINE inside == {w \in Workers : at[w] \in Callback}
    <2>1. CASE inside = {}
      BY <2>1, FS_EmptySet DEF CallbacksApart
    <2>2. CASE inside # {}
      <3>1. inside = {output_mutex}
        BY <2>2 DEF MInv, MutexHeld
      <3> QED  BY <3>1, FS_Singleton DEF CallbacksApart
    <2> QED  BY <2>1, <2>2
  <1> QED  BY <1>1, MutexInit, MutexStep, PTL DEF Spec

-----------------------------------------------------------------------------
(* Counting the games.                                                     *)

LEMMA StatsSums ==
    /\ \A r : Board!FromMatch(r) \in Board!Stats /\ Board!GamesOf(Board!FromMatch(r)) = 1
    /\ \A s, t \in Board!Stats :
          /\ Board!Plus(s, t) \in Board!Stats
          /\ Board!GamesOf(Board!Plus(s, t)) = Board!GamesOf(s) + Board!GamesOf(t)
    /\ \A s \in Board!Stats :
          /\ Board!Invert(s) \in Board!Stats
          /\ Board!GamesOf(Board!Invert(s)) = Board!GamesOf(s)
          /\ Board!AddPenta(s) \in Board!Stats
          /\ Board!GamesOf(Board!AddPenta(s)) = Board!GamesOf(s)
          /\ Board!GamesOf(s) \in Nat
  <1>1. \A r : Board!FromMatch(r) \in Board!Stats /\ Board!GamesOf(Board!FromMatch(r)) = 1
    <2> TAKE r
    <2> DEFINE win == Board!Bool(r = "WIN")
               loss == Board!Bool(r = "LOSE")
               draw == Board!Bool(r \notin {"WIN", "LOSE"})
    <2>1. Board!FromMatch(r) = [wins |-> win, losses |-> loss, draws |-> draw,
                                WW |-> 0, WD |-> 0, WL |-> 0, DD |-> 0, LD |-> 0, LL |-> 0]
      <3> HIDE DEF win, loss, draw
      <3>1. Board!FromMatch(r) = [Board!NoStats EXCEPT !.wins = win, !.losses = loss, !.draws = draw]
        BY DEF Board!FromMatch, win, loss, draw
      <3> QED  BY <3>1 DEF Board!NoStats
    <2>2. win \in Nat /\ loss \in Nat /\ draw \in Nat /\ win + loss + draw = 1
      BY DEF Board!Bool
    <2> HIDE DEF win, loss, draw
    <2> QED  BY <2>1, <2>2 DEF Board!Stats, Board!GamesOf
  <1>2. \A s, t \in Board!Stats :
          /\ Board!Plus(s, t) \in Board!Stats
          /\ Board!GamesOf(Board!Plus(s, t)) = Board!GamesOf(s) + Board!GamesOf(t)
    BY DEF Board!Plus, Board!Stats, Board!GamesOf
  <1>3. \A s \in Board!Stats :
          /\ Board!Invert(s) \in Board!Stats
          /\ Board!GamesOf(Board!Invert(s)) = Board!GamesOf(s)
          /\ Board!GamesOf(s) \in Nat
    BY DEF Board!Invert, Board!Stats, Board!GamesOf
  <1>4. \A s \in Board!Stats :
          /\ Board!AddPenta(s) \in Board!Stats
          /\ Board!GamesOf(Board!AddPenta(s)) = Board!GamesOf(s)
    <2> TAKE s \in Board!Stats
    <2>1. \A b : Board!Bool(b) \in Nat
      BY DEF Board!Bool
    <2>2. Board!AddPenta(s) \in Board!Stats
      BY <2>1 DEF Board!AddPenta, Board!Stats
    <2> QED  BY <2>2 DEF Board!AddPenta, Board!GamesOf
  <1> QED  BY <1>1, <1>2, <1>3, <1>4

LEMMA ConfigsKey == \A r, g : Board!Configs(r, g) \in Board!PairKeys
  BY DEF Board!Configs, Board!PairKeys

LEMMA NothingCounted ==
    /\ Board!NothingSaved.results \in Board!ResultsType
    /\ GamesIn(Board!NothingSaved.results) = 0
  <1> DEFINE res == Board!NothingSaved.results
  <1>1. res = [k \in Board!PairKeys |-> Board!NoStats]
    BY DEF Board!NothingSaved
  <1>2. res[<<First, Second>>] = Board!NoStats /\ res[<<Second, First>>] = Board!NoStats
    BY <1>1 DEF Board!PairKeys
  <1>3. GamesIn(res) = 0
    BY <1>2 DEF GamesIn, Board!StatsOf, Board!GamesOf, Board!Plus, Board!Invert, Board!NoStats
  <1>4. res \in Board!ResultsType
    BY <1>1 DEF Board!ResultsType, Board!Stats, Board!NoStats
  <1> QED  BY <1>3, <1>4

\* Stats added under either key add their games to the board.
LEMMA AddedGames ==
    ASSUME NEW res \in Board!ResultsType, NEW k \in Board!PairKeys, NEW s \in Board!Stats
    PROVE  /\ Board!Added(res, k, s) \in Board!ResultsType
           /\ GamesIn(Board!Added(res, k, s)) = GamesIn(res) + Board!GamesOf(s)
           /\ GamesIn(res) \in Nat
  <1> DEFINE new == Board!Added(res, k, s)
             a == res[<<First, Second>>]
             b == res[<<Second, First>>]
  <1>1. <<First, Second>> # <<Second, First>>
    BY TournamentAssumption
  <1>2. a \in Board!Stats /\ b \in Board!Stats
    BY DEF Board!ResultsType, Board!PairKeys
  <1>3. new \in Board!ResultsType
    BY StatsSums DEF Board!Added, Board!ResultsType
  <1>4. ASSUME NEW x \in Board!Stats, NEW y \in Board!Stats
        PROVE  Board!GamesOf(Board!Plus(x, Board!Invert(y))) = Board!GamesOf(x) + Board!GamesOf(y)
    BY StatsSums
  <1>5. GamesIn(res) = Board!GamesOf(a) + Board!GamesOf(b)
    BY <1>2, <1>4 DEF GamesIn, Board!StatsOf
  <1>6. GamesIn(new) = Board!GamesOf(new[<<First, Second>>]) + Board!GamesOf(new[<<Second, First>>])
    BY <1>3, <1>4 DEF GamesIn, Board!StatsOf, Board!ResultsType, Board!PairKeys
  <1>7. CASE k = <<First, Second>>
    <2>1. new[<<First, Second>>] = Board!Plus(a, s) /\ new[<<Second, First>>] = b
      BY <1>1, <1>7 DEF Board!Added, Board!ResultsType, Board!PairKeys
    <2> QED  BY <1>2, <1>3, <1>5, <1>6, <2>1, StatsSums
  <1>8. CASE k = <<Second, First>>
    <2>1. new[<<First, Second>>] = a /\ new[<<Second, First>>] = Board!Plus(b, s)
      BY <1>1, <1>8 DEF Board!Added, Board!ResultsType, Board!PairKeys
    <2> QED  BY <1>2, <1>3, <1>5, <1>6, <2>1, StatsSums
  <1> QED  BY <1>7, <1>8 DEF Board!PairKeys

\* The halves kept aside are finitely many, and of one game each.
HalvesOK(cache) ==
    /\ IsFiniteSet(DOMAIN cache)
    /\ \A r \in DOMAIN cache : cache[r] \in Board!Stats /\ Board!GamesOf(cache[r]) = 1

GamesOn(res, cache) == GamesIn(res) + Cardinality(DOMAIN cache)

\* A game given to the board is one game more on it: as a half kept aside, as a
\* pair with the half kept before, or alone.
LEMMA UpdateAddsOne ==
    ASSUME results \in Board!ResultsType, HalvesOK(gamePairCache),
           NEW r, NEW g, NEW res, Board!Update(Board!Configs(r, g), Board!FromMatch(res), r)
    PROVE  /\ results' \in Board!ResultsType
           /\ HalvesOK(gamePairCache')
           /\ GamesOn(results', gamePairCache') = GamesOn(results, gamePairCache) + 1
           /\ GamesOn(results, gamePairCache) \in Nat
  <1> DEFINE key == Board!Configs(r, g)
             stats == Board!FromMatch(res)
             half == gamePairCache[r]
  <1>1. key \in Board!PairKeys /\ stats \in Board!Stats /\ Board!GamesOf(stats) = 1
    BY ConfigsKey, StatsSums
  <1>2. Cardinality(DOMAIN gamePairCache) \in Nat
    BY FS_CardinalityType DEF HalvesOK
  <1>3. GamesIn(results) \in Nat
    BY <1>1, AddedGames
  <1>4. CASE Board!updateNonPair(key, stats)
    BY <1>1, <1>2, <1>3, <1>4, AddedGames DEF Board!updateNonPair, GamesOn
  <1>5. CASE Board!updatePairFirst(stats, r)
    <2>1. /\ r \notin DOMAIN gamePairCache
          /\ DOMAIN gamePairCache' = DOMAIN gamePairCache \cup {r}
          /\ results' = results
      BY <1>5 DEF Board!updatePairFirst
    <2>2. /\ IsFiniteSet(DOMAIN gamePairCache')
          /\ Cardinality(DOMAIN gamePairCache') = Cardinality(DOMAIN gamePairCache) + 1
      BY <2>1, FS_AddElement DEF HalvesOK
    <2>3. \A s \in DOMAIN gamePairCache' :
             gamePairCache'[s] = IF s = r THEN Board!Invert(stats) ELSE gamePairCache[s]
      BY <1>5 DEF Board!updatePairFirst
    <2>4. \A s \in DOMAIN gamePairCache' :
             gamePairCache'[s] \in Board!Stats /\ Board!GamesOf(gamePairCache'[s]) = 1
      BY <1>1, <2>1, <2>3, StatsSums DEF HalvesOK
    <2> QED  BY <1>2, <1>3, <2>1, <2>2, <2>4 DEF HalvesOK, GamesOn
  <1>6. CASE Board!updatePairSecond(key, stats, r)
    <2> DEFINE pair == Board!AddPenta(Board!Plus(half, stats))
    <2>1. /\ r \in DOMAIN gamePairCache
          /\ results' = Board!Added(results, key, pair)
          /\ gamePairCache' = [s \in DOMAIN gamePairCache \ {r} |-> gamePairCache[s]]
      BY <1>6 DEF Board!updatePairSecond, Board!Forget
    <2>2. half \in Board!Stats /\ Board!GamesOf(half) = 1
      BY <2>1 DEF HalvesOK
    <2>3. pair \in Board!Stats /\ Board!GamesOf(pair) = 2
      BY <1>1, <2>2, StatsSums
    <2>4. /\ IsFiniteSet(DOMAIN gamePairCache')
          /\ Cardinality(DOMAIN gamePairCache') = Cardinality(DOMAIN gamePairCache) - 1
      BY <2>1, FS_RemoveElement DEF HalvesOK
    <2>5. results' \in Board!ResultsType /\ GamesIn(results') = GamesIn(results) + 2
      <3> HIDE DEF pair, key
      <3> QED  BY <1>1, <2>1, <2>3, AddedGames
    <2>6. HalvesOK(gamePairCache')
      BY <2>1, <2>4 DEF HalvesOK
    <2> QED  BY <1>2, <1>3, <2>4, <2>5, <2>6 DEF GamesOn
  <1> QED  BY <1>4, <1>5, <1>6 DEF Board!Update

CountingOK ==
    /\ results \in Board!ResultsType
    /\ saved.results \in Board!ResultsType
    /\ HalvesOK(gamePairCache)
    /\ match_count \in Nat

CInv == MInv /\ CountingOK /\ CountExact

\* The callback that has recorded its game is the one that holds the mutex.
Pending == IF output_mutex \in Workers /\ at[output_mutex] \in {"print", "sprt", "count"} THEN 1 ELSE 0

PendingMatches == Cardinality(Uncounted) = Pending

LEMMA PendingIs == MInv => PendingMatches
  <1> SUFFICES ASSUME MInv PROVE Cardinality(Uncounted) = Pending
    BY DEF PendingMatches
  <1>1. \A w \in Uncounted : w = output_mutex
    BY DEF MInv, MutexHeld, Uncounted, Callback
  <1>2. CASE Uncounted = {}
    BY <1>2, FS_EmptySet DEF Pending, Uncounted
  <1>3. CASE Uncounted # {}
    <2>1. Uncounted = {output_mutex} /\ output_mutex \in Uncounted
      BY <1>1, <1>3
    <2> QED  BY <2>1, FS_Singleton DEF Pending, Uncounted
  <1> QED  BY <1>2, <1>3

LEMMA PendingIsNext == MInv' => PendingMatches'
  BY PendingIs, PTL

LEMMA CountInit == Init => CInv
  <1> SUFFICES ASSUME Init PROVE CInv
    OBVIOUS
  <1>1. MInv
    BY MutexInit
  <1>2. /\ results = Board!NothingSaved.results
        /\ saved.results = Board!NothingSaved.results
        /\ DOMAIN gamePairCache = {}
        /\ match_count = 0
        /\ \A w \in Workers : at[w] = "idle"
    BY DEF Init, Board!Init
  <1>3. Uncounted = {}
    BY <1>2 DEF Uncounted
  <1>4. CountingOK
    BY <1>2, NothingCounted, FS_EmptySet DEF CountingOK, HalvesOK
  <1>5. CountExact
    BY <1>2, <1>3, NothingCounted, FS_EmptySet DEF CountExact, Recorded
  <1> QED  BY <1>1, <1>4, <1>5 DEF CInv

\* A step that leaves the board, the counter and the uncounted games alone.
LEMMA QuietStep ==
    ASSUME CountingOK, CountExact, results' = results, saved'.results = saved.results,
           gamePairCache' = gamePairCache, match_count' = match_count, Uncounted' = Uncounted
    PROVE  CountingOK' /\ CountExact'
  BY DEF CountingOK, CountExact, Recorded

\* What the steps of a worker do to the board and the counter.
LEMMA WorkerCounts ==
    ASSUME NEW w \in Workers, playGame(w), at \in [Workers -> Places]
    PROVE  \/ Record(w)
           \/ Count(w)
           \/ UNCHANGED <<results, saved, gamePairCache, match_count>> /\ Uncounted' = Uncounted
  <1> DEFINE pending == {"print", "sprt", "count"}
             Same == UNCHANGED <<results, saved, gamePairCache, match_count>>
  <1>1. ASSUME NEW to, at' = [at EXCEPT ![w] = to], at[w] \in pending <=> to \in pending
        PROVE  Uncounted' = Uncounted
    BY <1>1 DEF Uncounted
  <1>2. CASE Fetch(w) \/ Begin(w)
    <2>1. Same BY <1>2 DEF Fetch, Begin, board, counters
    <2>2. Uncounted' = Uncounted BY <1>1, <1>2 DEF Fetch, Begin, Return, Step
    <2> QED  BY <2>1, <2>2
  <1>3. CASE EndGame(w) \/ StartFails(w) \/ Disconnect(w)
    <2>1. Same BY <1>3 DEF EndGame, StartFails, Disconnect, board, counters
    <2>2. Uncounted' = Uncounted BY <1>1, <1>3 DEF EndGame, StartFails, Disconnect, Return, Step
    <2> QED  BY <2>1, <2>2
  <1>4. CASE Throw(w) \/ Keep(w)
    <2>1. Same BY <1>4 DEF Throw, Keep, board, counters
    <2>2. Uncounted' = Uncounted BY <1>1, <1>4 DEF Throw, Keep, Return, Step
    <2> QED  BY <2>1, <2>2
  <1>5. CASE Lock(w) \/ Unlock(w)
    <2>1. Same BY <1>5 DEF Lock, Unlock, board, counters
    <2>2. Uncounted' = Uncounted BY <1>1, <1>5 DEF Lock, Unlock, Return, Step
    <2> QED  BY <2>1, <2>2
  <1>6. CASE Report(w) \/ updateSprtStatus(w)
    <2>1. Same BY <1>6 DEF Report, updateSprtStatus, board, counters
    <2>2. Uncounted' = Uncounted BY <1>1, <1>6 DEF Report, updateSprtStatus, Step
    <2> QED  BY <2>1, <2>2
  <1> QED  BY <1>2, <1>3, <1>4, <1>5, <1>6 DEF playGame

\* The main thread leaves the board alone, and saves what is on it.
LEMMA MainCounts ==
    ASSUME mainThread \/ Interrupt \/ UNCHANGED vars, CountingOK
    PROVE  /\ UNCHANGED <<results, gamePairCache, match_count, at>>
           /\ saved'.results \in Board!ResultsType
  <1>1. CASE Enqueue \/ StartWaiting \/ EndAutosave \/ StopWaiting \/ DestroyMembers
    BY <1>1 DEF Enqueue, StartWaiting, EndAutosave, StopWaiting, DestroyMembers,
                board, counters, worker, CountingOK
  <1>2. CASE EndFinalSave \/ KillPool \/ JoinPool \/ Interrupt \/ UNCHANGED vars
    BY <1>2 DEF EndFinalSave, KillPool, JoinPool, Interrupt, vars, board, counters, worker, CountingOK
  <1>3. CASE Autosave \/ FinalSave
    <2>1. Board!getResults /\ UNCHANGED <<worker, counters>>
      BY <1>3 DEF Autosave, FinalSave, BeginSave
    <2> QED  BY <2>1 DEF Board!getResults, worker, counters, CountingOK
  <1> QED  BY <1>1, <1>2, <1>3 DEF mainThread

LEMMA CountStep == CInv /\ [Next]_vars => CInv'
  <1> SUFFICES ASSUME CInv, [Next]_vars PROVE CInv'
    OBVIOUS
  <1>1. /\ MInv /\ CountingOK /\ CountExact
        /\ at \in [Workers -> Places]
        /\ GamesOn(results, gamePairCache) = match_count + Pending
    BY PendingIs DEF CInv, MInv, CountExact, Recorded, GamesOn, PendingMatches
  <1>2. MInv'
    BY <1>1, MutexStep
  <1>3. CountExact' <=> GamesOn(results', gamePairCache') = match_count' + Pending'
    BY <1>2, PendingIsNext DEF CountExact, Recorded, GamesOn, PendingMatches
  <1>4. ASSUME NEW w \in Workers, Record(w) PROVE CountingOK' /\ CountExact'
    <2>1. /\ at[w] = "record" /\ at' = [at EXCEPT ![w] = "print"]
          /\ output_mutex' = output_mutex /\ match_count' = match_count /\ saved' = saved
          /\ \E r, g : Board!Update(Board!Configs(r, g), Board!FromMatch(result[w]), r)
      BY <1>4 DEF Record, Step, counters
    <2>2. output_mutex = w
      BY <1>1, <2>1 DEF MInv, MutexHeld, Callback
    <2>3. Pending = 0 /\ Pending' = 1
      BY <1>1, <2>1, <2>2 DEF Pending
    <2>4. /\ results' \in Board!ResultsType
          /\ HalvesOK(gamePairCache')
          /\ GamesOn(results', gamePairCache') = GamesOn(results, gamePairCache) + 1
      BY <1>1, <2>1, UpdateAddsOne DEF CountingOK
    <2>5. CountExact'
      BY <1>1, <1>3, <2>1, <2>3, <2>4 DEF CountingOK
    <2> QED  BY <1>1, <2>1, <2>4, <2>5 DEF CountingOK
  <1>5. ASSUME NEW w \in Workers, Count(w) PROVE CountingOK' /\ CountExact'
    <2>1. /\ at[w] = "count" /\ at' = [at EXCEPT ![w] = "unlock"]
          /\ output_mutex' = output_mutex /\ match_count' = match_count + 1
          /\ UNCHANGED <<results, saved, gamePairCache>>
      BY <1>5 DEF Count, Step, board
    <2>2. output_mutex = w
      BY <1>1, <2>1 DEF MInv, MutexHeld, Callback
    <2>3. Pending = 1 /\ Pending' = 0
      BY <1>1, <2>1, <2>2 DEF Pending
    <2>4. CountExact'
      BY <1>1, <1>3, <2>1, <2>3 DEF CountingOK
    <2> QED  BY <1>1, <2>1, <2>4 DEF CountingOK
  <1>6. ASSUME NEW w \in Workers, playGame(w) PROVE CountingOK' /\ CountExact'
    BY <1>1, <1>4, <1>5, <1>6, WorkerCounts, QuietStep
  <1>7. CASE mainThread \/ Interrupt \/ UNCHANGED vars
    <2>1. /\ UNCHANGED <<results, gamePairCache, match_count, at>>
          /\ saved'.results \in Board!ResultsType
      BY <1>1, <1>7, MainCounts
    <2>2. Uncounted' = Uncounted
      BY <2>1 DEF Uncounted
    <2>3. CountingOK'
      BY <1>1, <2>1 DEF CountingOK
    <2>4. CountExact'
      BY <1>1, <2>1, <2>2 DEF CountExact, Recorded
    <2> QED  BY <1>2, <2>3, <2>4 DEF CInv
  <1>8. CASE Restart
    <2>1. /\ results' = saved.results /\ saved' = saved /\ DOMAIN gamePairCache' = {}
          /\ match_count' = GamesIn(saved.results)
          /\ at' = [w \in Workers |-> "idle"]
      BY <1>8 DEF Restart, Fresh, Counted, Board!setResults
    <2>2. Uncounted' = {}
      BY <2>1 DEF Uncounted
    <2>3. GamesIn(saved.results) \in Nat
      <3>1. Board!Configs(0, 0) \in Board!PairKeys /\ Board!FromMatch("WIN") \in Board!Stats
        BY StatsSums, ConfigsKey
      <3>2. saved.results \in Board!ResultsType
        BY <1>1 DEF CountingOK
      <3> QED  BY <3>1, <3>2, AddedGames
    <2>4. CountingOK'
      BY <1>1, <2>1, <2>3, FS_EmptySet DEF CountingOK, HalvesOK
    <2>5. CountExact'
      BY <2>1, <2>2, <2>3, FS_EmptySet DEF CountExact, Recorded
    <2> QED  BY <1>2, <2>4, <2>5 DEF CInv
  <1> QED  BY <1>1, <1>2, <1>6, <1>7, <1>8 DEF CInv, Next

(* The counter is the number of games on the board, whatever the order in  *)
(* which games end and callbacks run, and across restarts                  *)
(* (roundrobin.cpp:75-100, tournament.cpp:29-32).                          *)
THEOREM CounterExact == Spec => []CountExact
  <1>1. CInv => CountExact
    BY DEF CInv
  <1> QED  BY <1>1, CountInit, CountStep, PTL DEF Spec

-----------------------------------------------------------------------------
(* The games in the PGN file, in the first session.                        *)

Kinds == {"WIN", "LOSE", "DRAW", "NONE", "INTERRUPT"}

Unrecorded == {w \in Workers : at[w] \in {"lock", "record"}}

\* A game in the file is on the board or on its way through a callback.
Written == pgn = {x \in Games : outcome[x] # "unplayed"} \cup {playing[w] : w \in Unrecorded}

TasksOK ==
    /\ schedule \in Seq(Games)
    /\ queue \in Seq(Games)
    /\ playing \in [Workers -> Games \cup {NoGame}]
    /\ \A w \in Workers : at[w] # "idle" => playing[w] \in Games

\* When the main thread is done the pool is closed: nothing is queued or played.
ClosedOK ==
    /\ phase # "open" => queue = << >>
    /\ main = "done" => phase # "open" /\ \A w \in Workers : playing[w] = NoGame

FirstSession ==
    /\ TasksOK
    /\ ClosedOK
    /\ result \in [Workers -> Kinds]
    /\ outcome \in [Games -> Kinds \cup {"unplayed"}]
    /\ Written

PInv ==
    /\ at \in [Workers -> Places]
    /\ session \in Nat \ {0}
    /\ session = 1 => FirstSession

LEMMA FirstSchedule == Schedule(0) \in Seq(Games)
  <1> DEFINE last == RoundCount * GamesPerRound
             game(n) == <<(n - 1) \div GamesPerRound, (n - 1) % GamesPerRound>>
  <1>1. Games = (0..(RoundCount - 1)) \X (0..(GamesPerRound - 1))
    BY DEF Games, Board!GameIds
  <1>2. GamesPerRound \in {1, 2} /\ RoundCount \in Nat
    BY TournamentAssumption
  <1>3. 0 \div GamesPerRound = 0
    BY <1>2
  <1>4. Schedule(0) = [n \in 1..last |-> game(n)]
    <2>1. RoundCount > 0 \/ RoundCount = 0
      BY <1>2
    <2>2. CASE RoundCount > 0
      BY <1>2, <1>3, <2>2 DEF Schedule
    <2>3. CASE RoundCount = 0
      BY <1>2, <1>3, <2>3 DEF Schedule
    <2> QED  BY <2>1, <2>2, <2>3
  <1>5. last \in Nat
    BY <1>2
  <1>6. ASSUME NEW n \in 1..last PROVE game(n) \in Games
    <2>1. CASE GamesPerRound = 1
      BY <1>1, <1>2, <2>1
    <2>2. CASE GamesPerRound = 2
      BY <1>1, <1>2, <2>2
    <2> QED  BY <1>2, <2>1, <2>2
  <1>7. [n \in 1..last |-> game(n)] \in [1..last -> Games]
    <2> HIDE DEF game, last
    <2> QED  BY <1>6
  <1> HIDE DEF game, last
  <1> QED  BY <1>4, <1>5, <1>7

LEMMA PgnInit == Init => PInv
  <1> SUFFICES ASSUME Init PROVE PInv
    OBVIOUS
  <1>1. /\ at = [w \in Workers |-> "idle"]
        /\ result = [w \in Workers |-> "NONE"]
        /\ playing = [w \in Workers |-> NoGame]
        /\ queue = << >> /\ phase = "open"
        /\ schedule = Schedule(0)
        /\ outcome = [x \in Games |-> "unplayed"]
        /\ main = "create" /\ session = 1 /\ pgn = {}
    BY DEF Init, Board!Init, Board!NothingSaved, Pool!Init, Games
  <1>2. TasksOK
    BY <1>1, FirstSchedule DEF TasksOK
  <1>3. ClosedOK
    BY <1>1 DEF ClosedOK
  <1>4. Written
    BY <1>1 DEF Written, Unrecorded
  <1>5. result \in [Workers -> Kinds] /\ outcome \in [Games -> Kinds \cup {"unplayed"}]
    BY <1>1 DEF Kinds
  <1> QED  BY <1>1, <1>2, <1>3, <1>4, <1>5 DEF PInv, FirstSession, Places

\* The task of worker w returns from a place where its game is not in the file.
LEMMA ReturnKeeps ==
    ASSUME FirstSession, at \in [Workers -> Places], NEW w \in Workers, Return(w),
           at[w] \notin {"lock", "record"},
           UNCHANGED <<schedule, main, pgn, outcome>>, result' = result
    PROVE  FirstSession'
  <1>1. /\ playing' = [playing EXCEPT ![w] = NoGame]
        /\ at' = [at EXCEPT ![w] = "idle"]
        /\ queue' = queue /\ phase' = phase
    BY DEF Return, Pool!Finish
  <1>2. /\ \A v \in Workers : at'[v] = IF v = w THEN "idle" ELSE at[v]
        /\ \A v \in Workers : playing'[v] = IF v = w THEN NoGame ELSE playing[v]
    BY <1>1 DEF FirstSession, TasksOK
  <1>3. TasksOK'
    BY <1>1, <1>2 DEF FirstSession, TasksOK
  <1>4. ClosedOK'
    BY <1>1, <1>2 DEF FirstSession, ClosedOK
  <1>5. Unrecorded' = Unrecorded /\ \A v \in Unrecorded : playing'[v] = playing[v]
    BY <1>2 DEF Unrecorded
  <1>6. Written'
    BY <1>5 DEF FirstSession, Written
  <1> QED  BY <1>3, <1>4, <1>6 DEF FirstSession

\* Worker w goes on with its game, which is written exactly when it gets to "lock".
LEMMA StepKeeps ==
    ASSUME FirstSession, at \in [Workers -> Places], NEW w \in Workers, NEW from, NEW to,
           Step(w, from, to), from # "idle",
           UNCHANGED <<schedule, main, outcome>>, result' \in [Workers -> Kinds],
           \/ pgn' = pgn /\ (from \in {"lock", "record"} <=> to \in {"lock", "record"})
           \/ /\ pgn' = pgn \cup {playing[w]}
              /\ from \notin {"lock", "record"} /\ to \in {"lock", "record"}
    PROVE  FirstSession'
  <1>1. /\ at[w] = from /\ at' = [at EXCEPT ![w] = to]
        /\ queue' = queue /\ playing' = playing /\ phase' = phase
    BY DEF Step, pool
  <1>2. \A v \in Workers : at'[v] = IF v = w THEN to ELSE at[v]
    BY <1>1
  <1>3. TasksOK'
    BY <1>1, <1>2 DEF FirstSession, TasksOK
  <1>4. ClosedOK'
    BY <1>1 DEF FirstSession, ClosedOK
  <1>5. CASE pgn' = pgn /\ (from \in {"lock", "record"} <=> to \in {"lock", "record"})
    <2>1. Unrecorded' = Unrecorded
      BY <1>1, <1>2, <1>5 DEF Unrecorded
    <2> QED  BY <1>1, <1>3, <1>4, <1>5, <2>1 DEF FirstSession, Written
  <1>6. CASE pgn' = pgn \cup {playing[w]} /\ from \notin {"lock", "record"} /\ to \in {"lock", "record"}
    <2>1. Unrecorded' = Unrecorded \cup {w}
      BY <1>1, <1>2, <1>6 DEF Unrecorded
    <2>2. Written'
      BY <1>1, <1>6, <2>1 DEF FirstSession, Written
    <2> QED  BY <1>3, <1>4, <2>2 DEF FirstSession
  <1> QED  BY <1>5, <1>6

\* Only a restart begins another session.
LEMMA SameSession ==
    ASSUME Next \/ UNCHANGED vars, ~Restart
    PROVE  session' = session
  <1>1. ASSUME NEW w \in Workers, playGame(w) PROVE session' = session
    BY <1>1 DEF playGame, Fetch, Begin, EndGame, StartFails, Disconnect, Throw, Keep, Lock,
                Record, Report, updateSprtStatus, Count, Unlock, disk
  <1>2. CASE mainThread \/ Interrupt \/ UNCHANGED vars
    BY <1>2 DEF mainThread, Enqueue, StartWaiting, Autosave, EndAutosave, StopWaiting, DestroyMembers,
                FinalSave, EndFinalSave, KillPool, JoinPool, Interrupt, vars, disk
  <1> QED  BY <1>1, <1>2 DEF Next

LEMMA WorkerKeeps ==
    ASSUME FirstSession, at \in [Workers -> Places], NEW w \in Workers, playGame(w)
    PROVE  FirstSession'
  <1>1. CASE Fetch(w)
    <2>1. /\ at[w] = "idle" /\ at' = [at EXCEPT ![w] = "begin"]
          /\ queue # << >> /\ queue' = Tail(queue)
          /\ playing' = [playing EXCEPT ![w] = Head(queue)]
          /\ UNCHANGED <<phase, schedule, main, pgn, outcome, result>>
      BY <1>1 DEF Fetch, Pool!Start, board, thread, history
    <2>2. Head(queue) \in Games /\ Tail(queue) \in Seq(Games)
      BY <2>1 DEF FirstSession, TasksOK
    <2>3. /\ \A v \in Workers : at'[v] = IF v = w THEN "begin" ELSE at[v]
          /\ \A v \in Workers : playing'[v] = IF v = w THEN Head(queue) ELSE playing[v]
      BY <2>1 DEF FirstSession, TasksOK
    <2>4. TasksOK'
      BY <2>1, <2>2, <2>3 DEF FirstSession, TasksOK
    <2>5. ClosedOK'
      BY <2>1 DEF FirstSession, ClosedOK
    <2>6. Unrecorded' = Unrecorded /\ \A v \in Unrecorded : playing'[v] = playing[v]
      BY <2>1, <2>3 DEF Unrecorded
    <2>7. Written'
      BY <2>1, <2>6 DEF FirstSession, Written
    <2> QED  BY <2>1, <2>4, <2>5, <2>7 DEF FirstSession
  <1>2. CASE Begin(w)
    <2>1. UNCHANGED <<schedule, main, pgn, outcome, result>> /\ at[w] = "begin"
      BY <1>2 DEF Begin, board, thread, history
    <2> QED  BY <1>2, <2>1, ReturnKeeps, StepKeeps DEF Begin, FirstSession
  <1>3. CASE EndGame(w)
    <2>1. UNCHANGED <<schedule, main, pgn, outcome>> /\ Step(w, "play", "keep")
      BY <1>3 DEF EndGame, board, thread, history
    <2>2. result' \in [Workers -> Kinds]
      BY <1>3, TournamentAssumption DEF EndGame, FirstSession, Kinds
    <2> QED  BY <2>1, <2>2, StepKeeps
  <1>4. CASE StartFails(w)
    <2>1. UNCHANGED <<schedule, main, pgn, outcome>> /\ Step(w, "play", "keep")
      BY <1>4 DEF StartFails, board, thread, history
    <2>2. result' \in [Workers -> Kinds]
      BY <1>4 DEF StartFails, FirstSession, Kinds
    <2> QED  BY <2>1, <2>2, StepKeeps
  <1>5. CASE Disconnect(w)
    <2>1. UNCHANGED <<schedule, main, pgn, outcome>> /\ at[w] = "play"
      BY <1>5 DEF Disconnect, board, thread, history
    <2>2. result' \in [Workers -> Kinds]
      BY <1>5 DEF Disconnect, FirstSession, Kinds
    <2>3. CASE Recover
      BY <1>5, <2>1, <2>2, <2>3, StepKeeps DEF Disconnect
    <2>4. CASE ~Recover
      BY <1>5, <2>1, <2>4, ReturnKeeps DEF Disconnect
    <2> QED  BY <2>3, <2>4
  <1>6. CASE Throw(w)
    <2>1. UNCHANGED <<schedule, main, pgn, outcome, result>> /\ at[w] = "play" /\ Return(w)
      BY <1>6 DEF Throw, board, thread
    <2> QED  BY <2>1, ReturnKeeps
  <1>7. CASE Keep(w)
    <2>1. UNCHANGED <<schedule, main, outcome, result>> /\ at[w] = "keep"
      BY <1>7 DEF Keep, board, thread
    <2>2. \/ Step(w, "keep", "lock") /\ pgn' = pgn \cup {playing[w]}
          \/ Return(w) /\ pgn' = pgn
      BY <1>7 DEF Keep
    <2> QED  BY <2>1, <2>2, ReturnKeeps, StepKeeps DEF FirstSession
  <1>8. CASE Lock(w)
    <2>1. UNCHANGED <<schedule, main, pgn, outcome, result>> /\ Step(w, "lock", "record")
      BY <1>8 DEF Lock, board, thread, history
    <2> QED  BY <2>1, StepKeeps DEF FirstSession
  <1>9. CASE Record(w)
    <2> DEFINE game == playing[w]
    <2>1. /\ at[w] = "record" /\ at' = [at EXCEPT ![w] = "print"]
          /\ outcome' = [outcome EXCEPT ![game] = result[w]]
          /\ UNCHANGED <<queue, playing, phase, schedule, main, pgn, result>>
      BY <1>9 DEF Record, Step, pool, thread, history
    <2>2. game \in Games /\ result[w] \in Kinds
      BY <2>1 DEF FirstSession, TasksOK
    <2>3. \A v \in Workers : at'[v] = IF v = w THEN "print" ELSE at[v]
      BY <2>1
    <2>4. \A x \in Games : outcome'[x] = IF x = game THEN result[w] ELSE outcome[x]
      BY <2>1 DEF FirstSession
    <2>5. outcome' \in [Games -> Kinds \cup {"unplayed"}]
      BY <2>1, <2>2 DEF FirstSession
    <2>6. TasksOK' /\ ClosedOK'
      BY <2>1, <2>3 DEF FirstSession, TasksOK, ClosedOK
    <2>7. Unrecorded = Unrecorded' \cup {w}
      BY <2>1, <2>3 DEF Unrecorded
    <2>8. {x \in Games : outcome'[x] # "unplayed"} = {x \in Games : outcome[x] # "unplayed"} \cup {game}
      BY <2>2, <2>4 DEF Kinds
    <2>9. Written'
      BY <2>1, <2>7, <2>8 DEF FirstSession, Written
    <2> QED  BY <2>1, <2>5, <2>6, <2>9 DEF FirstSession
  <1>10. CASE Report(w)
    <2>1. UNCHANGED <<schedule, main, pgn, outcome, result>> /\ Step(w, "print", "sprt")
      BY <1>10 DEF Report, board, thread
    <2> QED  BY <2>1, StepKeeps DEF FirstSession
  <1>11. CASE updateSprtStatus(w)
    <2>1. UNCHANGED <<schedule, main, pgn, outcome, result>> /\ Step(w, "sprt", "count")
      BY <1>11 DEF updateSprtStatus, board, thread, history
    <2> QED  BY <2>1, StepKeeps DEF FirstSession
  <1>12. CASE Count(w)
    <2>1. UNCHANGED <<schedule, main, pgn, outcome, result>> /\ Step(w, "count", "unlock")
      BY <1>12 DEF Count, board, thread, history
    <2> QED  BY <2>1, StepKeeps DEF FirstSession
  <1>13. CASE Unlock(w)
    <2>1. UNCHANGED <<schedule, main, pgn, outcome, result>> /\ at[w] = "unlock" /\ Return(w)
      BY <1>13 DEF Unlock, board, thread, history
    <2> QED  BY <2>1, ReturnKeeps
  <1> QED  BY <1>1, <1>2, <1>3, <1>4, <1>5, <1>6, <1>7, <1>8, <1>9, <1>10, <1>11, <1>12, <1>13 DEF playGame

LEMMA MainKeeps ==
    ASSUME FirstSession, mainThread \/ Interrupt \/ UNCHANGED vars
    PROVE  FirstSession'
  <1>1. UNCHANGED <<at, result, outcome, pgn>>
    <2>1. CASE Enqueue \/ StartWaiting \/ EndAutosave \/ StopWaiting \/ DestroyMembers
      BY <2>1 DEF Enqueue, StartWaiting, EndAutosave, StopWaiting, DestroyMembers, board, worker, history
    <2>2. CASE EndFinalSave \/ KillPool \/ JoinPool \/ Interrupt \/ UNCHANGED vars
      BY <2>2 DEF EndFinalSave, KillPool, JoinPool, Interrupt, vars, board, worker, history
    <2>3. CASE Autosave \/ FinalSave
      <3>1. Board!getResults /\ UNCHANGED <<worker, history>>
        BY <2>3 DEF Autosave, FinalSave, BeginSave
      <3> QED  BY <3>1 DEF Board!getResults, worker, history
    <2> QED  BY <2>1, <2>2, <2>3 DEF mainThread
  <1>2. playing' = playing =>
            /\ Written'
            /\ result' \in [Workers -> Kinds]
            /\ outcome' \in [Games -> Kinds \cup {"unplayed"}]
    BY <1>1 DEF FirstSession, Written, Unrecorded
  <1>3. CASE Enqueue
    <2>1. /\ main' = main /\ playing' = playing /\ phase' = phase /\ phase = "open"
          /\ schedule # << >> /\ schedule' = Tail(schedule)
          /\ queue' = Append(queue, Head(schedule))
      BY <1>3 DEF Enqueue, Pool!Submit
    <2>2. schedule' \in Seq(Games) /\ queue' \in Seq(Games)
      BY <2>1 DEF FirstSession, TasksOK
    <2>3. TasksOK'
      BY <1>1, <2>1, <2>2 DEF FirstSession, TasksOK
    <2>4. ClosedOK'
      BY <2>1 DEF FirstSession, ClosedOK
    <2> QED  BY <1>2, <2>1, <2>3, <2>4 DEF FirstSession
  <1>4. CASE KillPool
    <2>1. /\ schedule' = schedule /\ playing' = playing /\ main' = "join"
          /\ phase' = "closing" /\ queue' = << >>
      BY <1>4 DEF KillPool, Pool!Kill
    <2>2. TasksOK' /\ ClosedOK'
      BY <1>1, <2>1 DEF FirstSession, TasksOK, ClosedOK
    <2> QED  BY <1>2, <2>1, <2>2 DEF FirstSession
  <1>5. CASE JoinPool
    <2>1. /\ schedule' = schedule /\ playing' = playing /\ queue' = queue
          /\ phase = "closing" /\ phase' = "closed"
          /\ \A w \in Workers : playing[w] = NoGame
      BY <1>5 DEF JoinPool, Pool!Join
    <2>2. TasksOK' /\ ClosedOK'
      BY <1>1, <2>1 DEF FirstSession, TasksOK, ClosedOK
    <2> QED  BY <1>2, <2>1, <2>2 DEF FirstSession
  <1>6. ASSUME UNCHANGED <<queue, playing, phase, schedule>>, main' # "done" \/ main' = main
        PROVE  FirstSession'
    <2>1. TasksOK' /\ ClosedOK'
      BY <1>1, <1>6 DEF FirstSession, TasksOK, ClosedOK
    <2> QED  BY <1>2, <1>6, <2>1 DEF FirstSession
  <1>7. CASE StartWaiting \/ Autosave \/ EndAutosave \/ StopWaiting
    BY <1>6, <1>7 DEF StartWaiting, Autosave, EndAutosave, StopWaiting, BeginSave, EndSave, pool
  <1>8. CASE DestroyMembers \/ FinalSave \/ EndFinalSave
    BY <1>6, <1>8 DEF DestroyMembers, FinalSave, EndFinalSave, BeginSave, EndSave, pool
  <1>9. CASE Interrupt \/ UNCHANGED vars
    BY <1>6, <1>9 DEF Interrupt, vars, pool, thread
  <1> QED  BY <1>3, <1>4, <1>5, <1>7, <1>8, <1>9 DEF mainThread

LEMMA PgnStep == PInv /\ MInv' /\ [Next]_vars => PInv'
  <1> SUFFICES ASSUME PInv, MInv', [Next]_vars PROVE PInv'
    OBVIOUS
  <1>1. at' \in [Workers -> Places]
    BY DEF MInv
  <1>2. CASE Restart
    BY <1>1, <1>2 DEF Restart, PInv
  <1>3. CASE ~Restart
    <2>1. session' = session
      BY <1>3, SameSession
    <2>2. CASE session = 1
      <3>1. FirstSession'
        BY <1>3, <2>2, WorkerKeeps, MainKeeps DEF Next, PInv
      <3> QED  BY <1>1, <2>1, <3>1 DEF PInv
    <2> QED  BY <1>1, <2>1, <2>2 DEF PInv
  <1> QED  BY <1>2, <1>3

(* When the first session ends, the games in the PGN file are those on the *)
(* score board (tournament.cpp:109-121), whatever stopped the session.     *)
THEOREM PgnIsTheBoard == Spec => []PgnAgrees
  <1>1. PInv => PgnAgrees
    <2> SUFFICES ASSUME PInv, main = "done", session = 1
                 PROVE  pgn = {x \in Games : outcome[x] # "unplayed"}
      BY DEF PgnAgrees
    <2>1. FirstSession
      BY DEF PInv
    <2>2. Unrecorded = {}
      BY <2>1, NoGameAssumption DEF FirstSession, TasksOK, ClosedOK, Unrecorded
    <2> QED  BY <2>1, <2>2 DEF FirstSession, Written
  <1> QED  BY <1>1, MutexInit, MutexStep, PgnInit, PgnStep, PTL DEF Spec

-----------------------------------------------------------------------------
(* The games in the order of create().                                     *)

Order(x) == x[1] * GamesPerRound + x[2]

Rising(s) == \A i, j \in 1..Len(s) : i < j => Order(s[i]) < Order(s[j])

\* The games of create() from game n on.
Late(n, x) == x[1] >= n \div GamesPerRound

LEMMA GamesAre ==
    /\ Games = (0..(RoundCount - 1)) \X (0..(GamesPerRound - 1))
    /\ GamesPerRound \in {1, 2} /\ RoundCount \in Nat /\ total \in Nat
    /\ \A x \in Games : Order(x) \in Nat /\ Order(x) < total
    /\ \A x, y \in Games : Order(x) = Order(y) => x = y
  <1>1. Games = (0..(RoundCount - 1)) \X (0..(GamesPerRound - 1))
    BY DEF Games, Board!GameIds
  <1>2. GamesPerRound \in {1, 2} /\ RoundCount \in Nat
    BY TournamentAssumption
  <1>3. total \in Nat
    BY <1>2 DEF total
  <1>4. \A x \in Games : Order(x) \in Nat /\ Order(x) < total
    BY <1>1, <1>2 DEF Order, total
  <1>5. \A x, y \in Games : Order(x) = Order(y) => x = y
    <2> TAKE x, y \in Games
    <2>1. x[1] \in Nat /\ y[1] \in Nat /\ x[2] \in 0..(GamesPerRound - 1) /\ y[2] \in 0..(GamesPerRound - 1)
          /\ x = <<x[1], x[2]>> /\ y = <<y[1], y[2]>>
      BY <1>1, <1>2
    <2>2. CASE GamesPerRound = 1
      BY <2>1, <2>2 DEF Order
    <2>3. CASE GamesPerRound = 2
      <3>1. Order(x) = x[1] * 2 + x[2] /\ Order(y) = y[1] * 2 + y[2]
        BY <2>3 DEF Order
      <3>2. Order(x) = Order(y) => x[1] = y[1] /\ x[2] = y[2]
        BY <2>1, <2>3, <3>1
      <3>3. QED  BY <2>1, <3>2
    <2>4. QED  BY <1>2, <2>2, <2>3
  <1>6. QED  BY <1>1, <1>2, <1>3, <1>4, <1>5

\* The first n games of the tournament, and how many those are.
Before(n) == {x \in Games : Order(x) < n}

LEMMA CountBefore ==
    ASSUME NEW n \in Nat
    PROVE  /\ IsFiniteSet(Before(n))
           /\ n <= total => Cardinality(Before(n)) = n
           /\ total <= n => Before(n) = Games
  <1>1. ASSUME NEW m \in Nat, m <= total
        PROVE  IsFiniteSet(Before(m)) /\ Cardinality(Before(m)) = m
    <2> DEFINE game == [i \in 1..m |-> <<(i - 1) \div GamesPerRound, (i - 1) % GamesPerRound>>]
    <2>1. \A i \in 1..m : game[i] \in Before(m) /\ Order(game[i]) = i - 1
      <3> TAKE i \in 1..m
      <3>1. CASE GamesPerRound = 1
        BY <1>1, <3>1, GamesAre DEF Order, Before, total
      <3>2. CASE GamesPerRound = 2
        BY <1>1, <3>2, GamesAre DEF Order, Before, total
      <3>3. QED  BY <3>1, <3>2, GamesAre
    <2>2. game \in [1..m -> Before(m)]
      BY <2>1
    <2>3. \A i, j \in 1..m : game[i] = game[j] => i = j
      BY <2>1
    <2>4. \A x \in Before(m) : \E i \in 1..m : game[i] = x
      <3> TAKE x \in Before(m)
      <3>1. x \in Games /\ Order(x) \in Nat /\ Order(x) < m
        BY GamesAre DEF Before
      <3>2. Order(x) + 1 \in 1..m
        BY <3>1
      <3>3. Order(game[Order(x) + 1]) = Order(x) /\ game[Order(x) + 1] \in Games
        BY <2>1, <3>1, <3>2 DEF Before
      <3>4. QED  BY <3>1, <3>2, <3>3, GamesAre
    <2> HIDE DEF game
    <2>5. game \in Bijection(1..m, Before(m))
      BY <2>2, <2>3, <2>4, Fun_IsBij
    <2>6. ExistsBijection(1..m, Before(m))
      BY <2>5 DEF ExistsBijection
    <2>7. QED  BY <2>6, FS_CountingElements, FS_NatBijection
  <1>2. total <= n => Before(n) = Games /\ Before(total) = Games
    BY GamesAre DEF Before
  <1>3. CASE n <= total
    BY <1>1, <1>2, <1>3
  <1>4. CASE total < n
    BY <1>1, <1>2, <1>4, GamesAre
  <1>5. QED  BY <1>3, <1>4, GamesAre

LEMMA CountGames == IsFiniteSet(Games) /\ Cardinality(Games) = total
  <1>1. total \in Nat /\ total <= total
    BY GamesAre
  <1>2. QED  BY <1>1, CountBefore

\* What create() schedules: its games, from the round of game n on, in their order.
LEMMA ScheduleInOrder ==
    ASSUME NEW n \in Nat
    PROVE  /\ Schedule(n) \in Seq(Games)
           /\ Rising(Schedule(n))
           /\ \A i \in 1..Len(Schedule(n)) : Late(n, Schedule(n)[i])
  <1> DEFINE offset == n \div GamesPerRound
             remaining == IF offset < RoundCount THEN (RoundCount - offset) * GamesPerRound ELSE 0
             game(i) == <<offset + ((i - 1) \div GamesPerRound), (i - 1) % GamesPerRound>>
  <1>1. Schedule(n) = [i \in 1..remaining |-> game(i)]
    BY DEF Schedule
  <1>2. offset \in Nat
    <2>1. CASE GamesPerRound = 1
      BY <2>1
    <2>2. CASE GamesPerRound = 2
      BY <2>2
    <2>3. QED  BY <2>1, <2>2, GamesAre
  <1> HIDE DEF offset
  <1>3. remaining \in Nat
    BY <1>2, GamesAre
  <1>4. ASSUME NEW i \in 1..remaining
        PROVE  game(i) \in Games /\ Order(game(i)) = offset * GamesPerRound + (i - 1) /\ game(i)[1] >= offset
    <2>1. i \in Nat /\ i >= 1 /\ i <= remaining
      BY <1>3
    <2>2. remaining > 0
      BY <1>3, <2>1
    <2>3. offset < RoundCount /\ i <= (RoundCount - offset) * GamesPerRound
      BY <2>1, <2>2
    <2>4. CASE GamesPerRound = 1
      BY <1>2, <2>1, <2>3, <2>4, GamesAre DEF Order
    <2>5. CASE GamesPerRound = 2
      BY <1>2, <2>1, <2>3, <2>5, GamesAre DEF Order
    <2>6. QED  BY <2>4, <2>5, GamesAre
  <1> HIDE DEF remaining
  <1>5. /\ Schedule(n) \in [1..remaining -> Games]
        /\ \A i \in 1..remaining : Schedule(n)[i] = game(i)
    BY <1>1, <1>4
  <1>6. Schedule(n) \in Seq(Games) /\ Len(Schedule(n)) = remaining
    BY <1>3, <1>5
  <1>7. Rising(Schedule(n))
    <2> SUFFICES ASSUME NEW i \in 1..remaining, NEW j \in 1..remaining, i < j
                 PROVE  Order(Schedule(n)[i]) < Order(Schedule(n)[j])
      BY <1>6 DEF Rising
    <2>1. offset * GamesPerRound \in Nat
      BY <1>2, GamesAre
    <2> HIDE DEF game
    <2>2. QED  BY <1>3, <1>4, <1>5, <2>1
  <1>8. \A i \in 1..remaining : Late(n, Schedule(n)[i])
    BY <1>4, <1>5 DEF Late, offset
  <1>9. QED  BY <1>6, <1>7, <1>8

-----------------------------------------------------------------------------
(* Every game of a session is played by one worker, and once.              *)

\* What a step of a worker does to its game.
LEMMA GameSteps ==
    ASSUME NEW w \in Workers, playGame(w)
    PROVE  /\ UNCHANGED <<schedule, main, phase, initial_matchcount, session>>
           /\ \/ /\ at[w] = "idle" /\ at' = [at EXCEPT ![w] = "begin"]
                 /\ queue # << >> /\ queue' = Tail(queue)
                 /\ playing' = [playing EXCEPT ![w] = Head(queue)]
                 /\ UNCHANGED <<pgn, result>>
              \/ /\ at[w] \in {"begin", "play", "keep", "unlock"} /\ at' = [at EXCEPT ![w] = "idle"]
                 /\ playing' = [playing EXCEPT ![w] = NoGame]
                 /\ UNCHANGED <<queue, pgn, result>>
              \/ /\ at[w] = "begin" /\ at' = [at EXCEPT ![w] = "play"]
                 /\ UNCHANGED <<queue, playing, pgn, result>>
              \/ /\ at[w] = "play" /\ at' = [at EXCEPT ![w] = "keep"]
                 /\ \E r \in Kinds : result' = [result EXCEPT ![w] = r]
                 /\ UNCHANGED <<queue, playing, pgn>>
              \/ /\ at[w] = "keep" /\ at' = [at EXCEPT ![w] = "lock"]
                 /\ result[w] # "INTERRUPT" /\ pgn' = pgn \cup {playing[w]}
                 /\ UNCHANGED <<queue, playing, result>>
              \/ /\ at[w] = "lock" /\ at' = [at EXCEPT ![w] = "record"]
                 /\ UNCHANGED <<queue, playing, pgn, result>>
              \/ \E to \in Callback \ {"record"} :
                    /\ at[w] \in Callback /\ at' = [at EXCEPT ![w] = to]
                    /\ UNCHANGED <<queue, playing, pgn, result>>
  <1>1. UNCHANGED <<schedule, main, phase, initial_matchcount, session>>
    <2>1. CASE Fetch(w) \/ Begin(w) \/ EndGame(w) \/ StartFails(w)
      BY <2>1 DEF Fetch, Pool!Start, Begin, Return, Pool!Finish, Step, EndGame, StartFails,
                  pool, thread, counters, disk
    <2>2. CASE Disconnect(w) \/ Throw(w) \/ Keep(w)
      BY <2>2 DEF Disconnect, Throw, Keep, Return, Pool!Finish, Step, pool, thread, counters, disk
    <2>3. CASE Lock(w) \/ Record(w) \/ Report(w)
      BY <2>3 DEF Lock, Record, Report, Step, pool, thread, counters, disk
    <2>4. CASE updateSprtStatus(w) \/ Count(w) \/ Unlock(w)
      BY <2>4 DEF updateSprtStatus, Count, Unlock, Return, Pool!Finish, Step, pool, thread, counters, disk
    <2>5. QED  BY <2>1, <2>2, <2>3, <2>4 DEF playGame
  <1>2. CASE Fetch(w)
    BY <1>1, <1>2 DEF Fetch, Pool!Start, history
  <1>3. CASE Begin(w)
    <2>1. CASE stop
      BY <1>1, <1>3, <2>1 DEF Begin, Return, Pool!Finish, history
    <2>2. CASE ~stop
      BY <1>1, <1>3, <2>2 DEF Begin, Step, pool, history
    <2>3. QED  BY <2>1, <2>2
  <1>4. CASE EndGame(w)
    BY <1>1, <1>4, TournamentAssumption DEF EndGame, Step, pool, history, Kinds
  <1>5. CASE StartFails(w)
    BY <1>1, <1>5 DEF StartFails, Step, pool, history, Kinds
  <1>6. CASE Disconnect(w)
    <2>1. CASE Recover
      BY <1>1, <1>6, <2>1 DEF Disconnect, Step, pool, history, Kinds
    <2>2. CASE ~Recover
      BY <1>1, <1>6, <2>2 DEF Disconnect, Return, Pool!Finish, history
    <2>3. QED  BY <2>1, <2>2
  <1>7. CASE Throw(w)
    BY <1>1, <1>7 DEF Throw, Return, Pool!Finish
  <1>8. CASE Keep(w)
    <2>1. CASE result[w] # "INTERRUPT" /\ ~stop
      BY <1>1, <1>8, <2>1 DEF Keep, Step, pool
    <2>2. CASE ~(result[w] # "INTERRUPT" /\ ~stop)
      BY <1>1, <1>8, <2>2 DEF Keep, Return, Pool!Finish
    <2>3. QED  BY <2>1, <2>2
  <1>9. CASE Lock(w)
    BY <1>1, <1>9 DEF Lock, Step, pool, history
  <1>10. CASE Record(w)
    BY <1>1, <1>10 DEF Record, Step, pool, history, Callback
  <1>11. CASE Report(w)
    BY <1>1, <1>11 DEF Report, Step, pool, Callback
  <1>12. CASE updateSprtStatus(w)
    BY <1>1, <1>12 DEF updateSprtStatus, Step, pool, history, Callback
  <1>13. CASE Count(w)
    BY <1>1, <1>13 DEF Count, Step, pool, history, Callback
  <1>14. CASE Unlock(w)
    BY <1>1, <1>14 DEF Unlock, Return, Pool!Finish, history
  <1>15. QED
    BY <1>2, <1>3, <1>4, <1>5, <1>6, <1>7, <1>8, <1>9, <1>10, <1>11, <1>12, <1>13, <1>14 DEF playGame

\* What the main thread and the signal handler do to the games.
LEMMA MainSteps ==
    ASSUME mainThread \/ Interrupt \/ UNCHANGED vars
    PROVE  /\ UNCHANGED <<at, playing, result, pgn, initial_matchcount, session>>
           /\ \/ /\ schedule # << >> /\ schedule' = Tail(schedule)
                 /\ queue' = Append(queue, Head(schedule))
              \/ schedule' = schedule /\ (queue' = queue \/ queue' = << >>)
  <1>1. CASE Enqueue
    BY <1>1 DEF Enqueue, Pool!Submit, worker, counters, disk, history
  <1>2. CASE StartWaiting \/ EndAutosave \/ StopWaiting
    BY <1>2 DEF StartWaiting, EndAutosave, StopWaiting, EndSave, pool, worker, counters, disk, history
  <1>3. CASE DestroyMembers \/ EndFinalSave \/ Interrupt
    BY <1>3 DEF DestroyMembers, EndFinalSave, EndSave, Interrupt, pool, worker, counters, thread, disk, history
  <1>4. CASE Autosave \/ FinalSave
    BY <1>4 DEF Autosave, FinalSave, pool, worker, counters, history
  <1>5. CASE KillPool
    BY <1>5 DEF KillPool, Pool!Kill, worker, counters, disk, history
  <1>6. CASE JoinPool
    BY <1>6 DEF JoinPool, Pool!Join, worker, counters, disk, history
  <1>7. CASE UNCHANGED vars
    BY <1>7 DEF vars, pool, worker, counters, thread, disk, history
  <1>8. QED  BY <1>1, <1>2, <1>3, <1>4, <1>5, <1>6, <1>7 DEF mainThread

\* What a new session begins with.
LEMMA RestartSteps ==
    ASSUME Restart
    PROVE  /\ at' = [w \in Workers |-> "idle"] /\ playing' = [w \in Workers |-> NoGame]
           /\ result' = [w \in Workers |-> "NONE"]
           /\ queue' = << >> /\ pgn' = {}
           /\ initial_matchcount' = GamesIn(saved.results) /\ match_count' = GamesIn(saved.results)
           /\ schedule' = Schedule(GamesIn(saved.results))
           /\ results' = saved.results /\ gamePairCache' = << >> /\ outcome' = saved.outcome /\ saved' = saved
  BY DEF Restart, Fresh, Counted, Board!setResults

GamesTyped ==
    /\ schedule \in Seq(Games)
    /\ queue \in Seq(Games)
    /\ playing \in [Workers -> Games \cup {NoGame}]
    /\ result \in [Workers -> Kinds]
    /\ pgn \subseteq Games
    /\ initial_matchcount \in Nat

\* The games wait in their order, and are those create() goes on from.
QueueInOrder ==
    /\ Rising(queue) /\ Rising(schedule)
    /\ \A i \in 1..Len(queue), j \in 1..Len(schedule) : Order(queue[i]) < Order(schedule[j])
    /\ \A i \in 1..Len(queue) : Late(initial_matchcount, queue[i])
    /\ \A j \in 1..Len(schedule) : Late(initial_matchcount, schedule[j])

Started(x) == x \in pgn \/ \E w \in Workers : playing[w] = x

\* A game that a worker has taken comes before all that wait.
Behind(x) ==
    /\ \A i \in 1..Len(queue) : Order(x) < Order(queue[i])
    /\ \A j \in 1..Len(schedule) : Order(x) < Order(schedule[j])

StartedInOrder == \A x \in Games : Started(x) => Late(initial_matchcount, x) /\ Behind(x)

\* No two workers play the same game, and none plays one that was written.
PlayedApart ==
    /\ \A w \in Workers : at[w] = "idle" <=> playing[w] = NoGame
    /\ \A v, w \in Workers : playing[v] = playing[w] /\ playing[v] # NoGame => v = w
    /\ \A w \in Workers : at[w] \in {"begin", "play", "keep"} => playing[w] \notin pgn
    /\ \A w \in Workers : at[w] \in {"lock", "record"} => playing[w] \in pgn /\ result[w] # "INTERRUPT"

GInv == at \in [Workers -> Places] /\ GamesTyped /\ QueueInOrder /\ StartedInOrder /\ PlayedApart

\* A step after which no other game waits or is started.
LEMMA NothingStarted ==
    ASSUME GamesTyped, QueueInOrder, StartedInOrder,
           queue' = queue \/ queue' = << >>, schedule' = schedule,
           initial_matchcount' = initial_matchcount,
           \A x \in Games : Started(x)' => Started(x)
    PROVE  QueueInOrder' /\ StartedInOrder'
  <1>1. QueueInOrder'
    BY DEF GamesTyped, QueueInOrder, Rising
  <1>2. ASSUME NEW x \in Games, Behind(x)
        PROVE  Behind(x)'
    BY <1>2 DEF Behind
  <1>3. QED  BY <1>1, <1>2 DEF StartedInOrder

LEMMA TakenInOrder ==
    ASSUME GamesTyped, QueueInOrder, StartedInOrder, NEW w \in Workers,
           queue # << >>, queue' = Tail(queue), playing' = [playing EXCEPT ![w] = Head(queue)],
           UNCHANGED <<schedule, initial_matchcount, pgn>>
    PROVE  QueueInOrder' /\ StartedInOrder'
  <1>1. /\ Len(queue) \in Nat /\ Len(queue) > 0 /\ Len(queue') = Len(queue) - 1
        /\ \A i \in 1..Len(queue') : queue'[i] = queue[i + 1] /\ i + 1 \in 1..Len(queue)
        /\ Head(queue) = queue[1] /\ 1 \in 1..Len(queue) /\ queue[1] \in Games
    BY DEF GamesTyped
  <1>2. Rising(queue')
    <2> SUFFICES ASSUME NEW i \in 1..Len(queue'), NEW j \in 1..Len(queue'), i < j
                 PROVE  Order(queue'[i]) < Order(queue'[j])
      BY DEF Rising
    <2>1. i + 1 \in 1..Len(queue) /\ j + 1 \in 1..Len(queue) /\ i + 1 < j + 1
      BY <1>1
    <2>2. QED  BY <1>1, <2>1 DEF QueueInOrder, Rising
  <1>3. QueueInOrder'
    BY <1>1, <1>2 DEF QueueInOrder
  <1>4. ASSUME NEW x \in Games, x = queue[1]
        PROVE  Late(initial_matchcount, x) /\ Behind(x)'
    <2>1. \A i \in 1..Len(queue') : i + 1 \in 1..Len(queue) /\ 1 < i + 1
      BY <1>1
    <2>2. \A i \in 1..Len(queue') : Order(x) < Order(queue'[i])
      BY <1>1, <1>4, <2>1 DEF QueueInOrder, Rising
    <2>3. \A j \in 1..Len(schedule) : Order(x) < Order(schedule[j])
      BY <1>1, <1>4 DEF QueueInOrder
    <2>4. QED  BY <1>1, <1>4, <2>2, <2>3 DEF Behind, QueueInOrder
  <1>5. ASSUME NEW x \in Games, Started(x)'
        PROVE  Started(x) \/ x = queue[1]
    <2>1. \A v \in Workers : playing'[v] = playing[v] \/ playing'[v] = queue[1]
      BY <1>1 DEF GamesTyped
    <2>2. QED  BY <1>5, <2>1 DEF Started
  <1>6. ASSUME NEW x \in Games, Behind(x)
        PROVE  Behind(x)'
    BY <1>1, <1>6 DEF Behind
  <1>7. QED  BY <1>3, <1>4, <1>5, <1>6 DEF StartedInOrder

LEMMA EnqueuedInOrder ==
    ASSUME GamesTyped, QueueInOrder, StartedInOrder,
           schedule # << >>, schedule' = Tail(schedule), queue' = Append(queue, Head(schedule)),
           UNCHANGED <<playing, initial_matchcount, pgn>>
    PROVE  QueueInOrder' /\ StartedInOrder'
  <1>1. /\ Len(schedule) \in Nat /\ Len(schedule) > 0 /\ Len(schedule') = Len(schedule) - 1
        /\ \A j \in 1..Len(schedule') :
              schedule'[j] = schedule[j + 1] /\ j + 1 \in 1..Len(schedule) /\ 1 < j + 1
        /\ Head(schedule) = schedule[1] /\ 1 \in 1..Len(schedule)
    BY DEF GamesTyped
  <1>2. /\ Len(queue) \in Nat /\ Len(queue') = Len(queue) + 1
        /\ \A i \in 1..Len(queue) : queue'[i] = queue[i]
        /\ queue'[Len(queue) + 1] = schedule[1]
        /\ \A i \in 1..Len(queue') : i \in 1..Len(queue) \/ i = Len(queue) + 1
    BY <1>1 DEF GamesTyped
  <1>3. Rising(schedule')
    <2> SUFFICES ASSUME NEW i \in 1..Len(schedule'), NEW j \in 1..Len(schedule'), i < j
                 PROVE  Order(schedule'[i]) < Order(schedule'[j])
      BY DEF Rising
    <2>1. i + 1 \in 1..Len(schedule) /\ j + 1 \in 1..Len(schedule) /\ i + 1 < j + 1
      BY <1>1
    <2>2. QED  BY <1>1, <2>1 DEF QueueInOrder, Rising
  <1>4. Rising(queue')
    <2> SUFFICES ASSUME NEW i \in 1..Len(queue'), NEW j \in 1..Len(queue'), i < j
                 PROVE  Order(queue'[i]) < Order(queue'[j])
      BY DEF Rising
    <2>1. i \in 1..Len(queue)
      BY <1>2
    <2>2. CASE j \in 1..Len(queue)
      BY <1>2, <2>1, <2>2 DEF QueueInOrder, Rising
    <2>3. CASE j = Len(queue) + 1
      BY <1>1, <1>2, <2>1, <2>3 DEF QueueInOrder
    <2>4. QED  BY <1>2, <2>2, <2>3
  <1>5. \A i \in 1..Len(queue'), j \in 1..Len(schedule') : Order(queue'[i]) < Order(schedule'[j])
    <2> TAKE i \in 1..Len(queue'), j \in 1..Len(schedule')
    <2>1. CASE i \in 1..Len(queue)
      BY <1>1, <1>2, <2>1 DEF QueueInOrder
    <2>2. CASE i = Len(queue) + 1
      BY <1>1, <1>2, <2>2 DEF QueueInOrder, Rising
    <2>3. QED  BY <1>2, <2>1, <2>2
  <1>6. QueueInOrder'
    <2>1. \A i \in 1..Len(queue') : Late(initial_matchcount, queue'[i])
      BY <1>1, <1>2 DEF QueueInOrder
    <2>2. \A j \in 1..Len(schedule') : Late(initial_matchcount, schedule'[j])
      BY <1>1 DEF QueueInOrder
    <2>3. QED  BY <1>3, <1>4, <1>5, <2>1, <2>2 DEF QueueInOrder
  <1>7. ASSUME NEW x \in Games, Behind(x)
        PROVE  Behind(x)'
    <2>1. \A i \in 1..Len(queue') : Order(x) < Order(queue'[i])
      BY <1>1, <1>2, <1>7 DEF Behind
    <2>2. \A j \in 1..Len(schedule') : Order(x) < Order(schedule'[j])
      BY <1>1, <1>7 DEF Behind
    <2>3. QED  BY <2>1, <2>2 DEF Behind
  <1>8. \A x \in Games : Started(x)' <=> Started(x)
    BY DEF Started
  <1>9. QED  BY <1>6, <1>7, <1>8 DEF StartedInOrder

\* What a session begins with: nothing waits in the pool.
LEMMA FreshInOrder ==
    initial_matchcount \in Nat /\ queue = << >> /\ schedule = Schedule(initial_matchcount) => QueueInOrder
  <1> SUFFICES ASSUME initial_matchcount \in Nat, queue = << >>, schedule = Schedule(initial_matchcount)
               PROVE  QueueInOrder
    OBVIOUS
  <1>1. \A i \in 1..Len(queue) : FALSE
    OBVIOUS
  <1>2. Rising(schedule) /\ \A j \in 1..Len(schedule) : Late(initial_matchcount, schedule[j])
    BY ScheduleInOrder
  <1>3. Rising(queue)
    BY <1>1 DEF Rising
  <1>4. QED  BY <1>1, <1>2, <1>3 DEF QueueInOrder

LEMMA FreshInOrderNext ==
    (initial_matchcount \in Nat /\ queue = << >> /\ schedule = Schedule(initial_matchcount))' => QueueInOrder'
  BY FreshInOrder, PTL

LEMMA GamesInit == Init => GInv
  <1> SUFFICES ASSUME Init PROVE GInv
    OBVIOUS
  <1>1. /\ at = [w \in Workers |-> "idle"]
        /\ result = [w \in Workers |-> "NONE"]
        /\ playing = [w \in Workers |-> NoGame]
        /\ queue = << >> /\ pgn = {} /\ initial_matchcount = 0
        /\ schedule = Schedule(0)
    BY DEF Init, Pool!Init
  <1>2. GamesTyped
    BY <1>1, ScheduleInOrder DEF GamesTyped, Kinds
  <1>3. QueueInOrder
    BY <1>1, FreshInOrder
  <1>4. StartedInOrder
    BY <1>1, NoGameAssumption DEF StartedInOrder, Started
  <1>5. PlayedApart
    BY <1>1 DEF PlayedApart
  <1>6. QED  BY <1>1, <1>2, <1>3, <1>4, <1>5 DEF GInv, Places

\* A game comes before those that wait when it was started.
LEMMA HeadIsNew ==
    ASSUME GInv, queue # << >>
    PROVE  Head(queue) \in Games /\ ~Started(Head(queue))
  <1>1. Head(queue) = queue[1] /\ 1 \in 1..Len(queue) /\ queue[1] \in Games
    BY DEF GInv, GamesTyped
  <1>2. Started(queue[1]) => Order(queue[1]) < Order(queue[1])
    BY <1>1 DEF GInv, StartedInOrder, Behind
  <1>3. Order(queue[1]) \in Nat
    BY <1>1, GamesAre
  <1>4. QED  BY <1>1, <1>2, <1>3

LEMMA GamesTake ==
    ASSUME GInv, NEW w \in Workers,
           at[w] = "idle", at' = [at EXCEPT ![w] = "begin"],
           queue # << >>, queue' = Tail(queue), playing' = [playing EXCEPT ![w] = Head(queue)],
           UNCHANGED <<schedule, initial_matchcount, pgn, result>>
    PROVE  GInv'
  <1>1. at \in [Workers -> Places] /\ GamesTyped /\ QueueInOrder /\ StartedInOrder /\ PlayedApart
    BY DEF GInv
  <1>2. QueueInOrder' /\ StartedInOrder'
    BY <1>1, TakenInOrder
  <1>3. Head(queue) \in Games /\ Tail(queue) \in Seq(Games) /\ ~Started(Head(queue))
    BY <1>1, HeadIsNew DEF GamesTyped
  <1>4. GamesTyped'
    BY <1>1, <1>3 DEF GamesTyped
  <1>5. at' \in [Workers -> Places]
    BY <1>1 DEF Places
  <1>6. /\ \A v \in Workers : at'[v] = IF v = w THEN "begin" ELSE at[v]
        /\ \A v \in Workers : playing'[v] = IF v = w THEN Head(queue) ELSE playing[v]
    BY <1>1 DEF GamesTyped
  <1>7. Head(queue) \notin pgn /\ (\A v \in Workers : playing[v] # Head(queue)) /\ Head(queue) # NoGame
    BY <1>3, NoGameAssumption DEF Started
  <1>8. PlayedApart'
    BY <1>1, <1>6, <1>7 DEF PlayedApart
  <1>9. QED  BY <1>2, <1>4, <1>5, <1>8 DEF GInv

LEMMA GamesReturn ==
    ASSUME GInv, NEW w \in Workers,
           at[w] # "idle", at' = [at EXCEPT ![w] = "idle"],
           playing' = [playing EXCEPT ![w] = NoGame],
           UNCHANGED <<queue, schedule, initial_matchcount, pgn, result>>
    PROVE  GInv'
  <1>1. at \in [Workers -> Places] /\ GamesTyped /\ QueueInOrder /\ StartedInOrder /\ PlayedApart
    BY DEF GInv
  <1>2. GamesTyped'
    BY <1>1 DEF GamesTyped
  <1>3. at' \in [Workers -> Places]
    BY <1>1 DEF Places
  <1>4. /\ \A v \in Workers : at'[v] = IF v = w THEN "idle" ELSE at[v]
        /\ \A v \in Workers : playing'[v] = IF v = w THEN NoGame ELSE playing[v]
    BY <1>1 DEF GamesTyped
  <1>5. \A x \in Games : Started(x)' => Started(x)
    BY <1>4, NoGameAssumption DEF Started
  <1>6. QueueInOrder' /\ StartedInOrder'
    BY <1>1, <1>5, NothingStarted
  <1>7. PlayedApart'
    BY <1>1, <1>4 DEF PlayedApart
  <1>8. QED  BY <1>2, <1>3, <1>6, <1>7 DEF GInv

\* A worker goes on with its game, and writes it before it waits for the mutex.
LEMMA GamesGoOn ==
    ASSUME GInv, NEW w \in Workers, NEW to \in Places \ {"idle"},
           at[w] # "idle", at' = [at EXCEPT ![w] = to],
           UNCHANGED <<queue, schedule, initial_matchcount, playing>>,
           result' \in [Workers -> Kinds],
           \A v \in Workers \ {w} : result'[v] = result[v],
           \/ pgn' = pgn /\ at[w] \in {"begin", "play"} /\ to \in {"play", "keep"}
           \/ pgn' = pgn \cup {playing[w]} /\ at[w] = "keep" /\ to = "lock" /\ result'[w] # "INTERRUPT"
           \/ pgn' = pgn /\ at[w] = "lock" /\ to = "record" /\ result'[w] = result[w]
           \/ pgn' = pgn /\ to \in Callback \ {"record"}
    PROVE  GInv'
  <1>1. at \in [Workers -> Places] /\ GamesTyped /\ QueueInOrder /\ StartedInOrder /\ PlayedApart
    BY DEF GInv
  <1>2. playing[w] \in Games /\ Started(playing[w])
    BY <1>1 DEF GamesTyped, PlayedApart, Started
  <1>3. GamesTyped'
    BY <1>1, <1>2 DEF GamesTyped
  <1>4. at' \in [Workers -> Places]
    BY <1>1
  <1>5. \A v \in Workers : at'[v] = IF v = w THEN to ELSE at[v]
    BY <1>1
  <1>6. \A x \in Games : Started(x)' => Started(x)
    BY <1>2 DEF Started
  <1>7. QueueInOrder' /\ StartedInOrder'
    BY <1>1, <1>6, NothingStarted
  <1>8. PlayedApart'
    <2>1. CASE pgn' = pgn
      BY <1>1, <1>5, <2>1 DEF PlayedApart, Callback
    <2>2. CASE pgn' = pgn \cup {playing[w]} /\ at[w] = "keep" /\ to = "lock" /\ result'[w] # "INTERRUPT"
      BY <1>1, <1>2, <1>5, <2>2, NoGameAssumption DEF PlayedApart
    <2>3. QED  BY <2>1, <2>2
  <1>9. QED  BY <1>3, <1>4, <1>7, <1>8 DEF GInv

LEMMA GamesStep == GInv /\ CInv /\ [Next]_vars => GInv'
  <1> SUFFICES ASSUME GInv, CInv, [Next]_vars PROVE GInv'
    OBVIOUS
  <1>1. at \in [Workers -> Places] /\ GamesTyped /\ QueueInOrder /\ StartedInOrder /\ PlayedApart
    BY DEF GInv
  <1>2. ASSUME NEW w \in Workers, playGame(w) PROVE GInv'
    <2>0. UNCHANGED <<schedule, initial_matchcount>>
      BY <1>2, GameSteps
    <2>1. CASE /\ at[w] = "idle" /\ at' = [at EXCEPT ![w] = "begin"]
               /\ queue # << >> /\ queue' = Tail(queue)
               /\ playing' = [playing EXCEPT ![w] = Head(queue)]
               /\ UNCHANGED <<pgn, result>>
      BY <2>0, <2>1, GamesTake
    <2>2. CASE /\ at[w] \in {"begin", "play", "keep", "unlock"} /\ at' = [at EXCEPT ![w] = "idle"]
               /\ playing' = [playing EXCEPT ![w] = NoGame]
               /\ UNCHANGED <<queue, pgn, result>>
      BY <2>0, <2>2, GamesReturn
    <2>3. CASE /\ at[w] = "begin" /\ at' = [at EXCEPT ![w] = "play"]
               /\ UNCHANGED <<queue, playing, pgn, result>>
      BY <1>1, <2>0, <2>3, GamesGoOn DEF Places, GamesTyped
    <2>4. CASE /\ at[w] = "play" /\ at' = [at EXCEPT ![w] = "keep"]
               /\ \E r \in Kinds : result' = [result EXCEPT ![w] = r]
               /\ UNCHANGED <<queue, playing, pgn>>
      <3>1. result' \in [Workers -> Kinds] /\ \A v \in Workers \ {w} : result'[v] = result[v]
        BY <1>1, <2>4 DEF GamesTyped
      <3>2. QED  BY <2>0, <2>4, <3>1, GamesGoOn DEF Places
    <2>5. CASE /\ at[w] = "keep" /\ at' = [at EXCEPT ![w] = "lock"]
               /\ result[w] # "INTERRUPT" /\ pgn' = pgn \cup {playing[w]}
               /\ UNCHANGED <<queue, playing, result>>
      BY <1>1, <2>0, <2>5, GamesGoOn DEF Places, GamesTyped
    <2>6. CASE /\ at[w] = "lock" /\ at' = [at EXCEPT ![w] = "record"]
               /\ UNCHANGED <<queue, playing, pgn, result>>
      BY <1>1, <2>0, <2>6, GamesGoOn DEF Places, Callback, GamesTyped
    <2>7. CASE \E to \in Callback \ {"record"} :
                  /\ at[w] \in Callback /\ at' = [at EXCEPT ![w] = to]
                  /\ UNCHANGED <<queue, playing, pgn, result>>
      <3>1. PICK to \in Callback \ {"record"} :
                  /\ at[w] \in Callback /\ at' = [at EXCEPT ![w] = to]
                  /\ UNCHANGED <<queue, playing, pgn, result>>
        BY <2>7
      <3>2. to \in Places \ {"idle"} /\ at[w] # "idle"
        BY <3>1 DEF Places, Callback
      <3>3. QED  BY <1>1, <2>0, <3>1, <3>2, GamesGoOn DEF GamesTyped
    <2>8. QED  BY <1>2, <2>1, <2>2, <2>3, <2>4, <2>5, <2>6, <2>7, GameSteps
  <1>3. CASE mainThread \/ Interrupt \/ UNCHANGED vars
    <2>0. UNCHANGED <<at, playing, result, pgn, initial_matchcount>>
      BY <1>3, MainSteps
    <2>1. PlayedApart' /\ at' \in [Workers -> Places]
      BY <1>1, <2>0 DEF PlayedApart
    <2>2. CASE /\ schedule # << >> /\ schedule' = Tail(schedule)
               /\ queue' = Append(queue, Head(schedule))
      <3>1. QueueInOrder' /\ StartedInOrder'
        BY <1>1, <2>0, <2>2, EnqueuedInOrder
      <3>2. GamesTyped'
        BY <1>1, <2>0, <2>2 DEF GamesTyped
      <3>3. QED  BY <2>1, <3>1, <3>2 DEF GInv
    <2>3. CASE schedule' = schedule /\ (queue' = queue \/ queue' = << >>)
      <3>1. \A x \in Games : Started(x)' => Started(x)
        BY <2>0 DEF Started
      <3>2. QueueInOrder' /\ StartedInOrder'
        BY <1>1, <2>0, <2>3, <3>1, NothingStarted
      <3>3. GamesTyped'
        <4>1. << >> \in Seq(Games)
          OBVIOUS
        <4>2. QED  BY <1>1, <2>0, <2>3, <4>1 DEF GamesTyped
      <3>4. QED  BY <2>1, <3>2, <3>3 DEF GInv
    <2>4. QED  BY <1>3, <2>2, <2>3, MainSteps
  <1>4. CASE Restart
    <2> DEFINE n == GamesIn(saved.results)
    <2>1. /\ at' = [w \in Workers |-> "idle"] /\ playing' = [w \in Workers |-> NoGame]
          /\ result' = [w \in Workers |-> "NONE"]
          /\ queue' = << >> /\ pgn' = {} /\ initial_matchcount' = n /\ schedule' = Schedule(n)
      BY <1>4, RestartSteps
    <2>2. n \in Nat
      <3>1. Board!Configs(0, 0) \in Board!PairKeys /\ Board!FromMatch("WIN") \in Board!Stats
        BY StatsSums, ConfigsKey
      <3>2. QED  BY <3>1, AddedGames DEF CInv, CountingOK
    <2> HIDE DEF n
    <2>3. GamesTyped'
      BY <2>1, <2>2, ScheduleInOrder DEF GamesTyped, Kinds
    <2>4. QueueInOrder'
      BY <2>1, <2>2, FreshInOrderNext
    <2>5. StartedInOrder'
      BY <2>1, NoGameAssumption DEF StartedInOrder, Started
    <2>6. PlayedApart'
      BY <2>1 DEF PlayedApart
    <2>7. QED  BY <2>1, <2>3, <2>4, <2>5, <2>6 DEF GInv, Places
  <1>5. QED  BY <1>2, <1>3, <1>4 DEF Next

-----------------------------------------------------------------------------
(* The games of the session and the games on the board.                    *)

Played == {x \in Games : outcome[x] # "unplayed"}

SavedGames == {x \in Games : saved.outcome[x] # "unplayed"}

\* The games written to the file whose callback has not recorded them yet.
Held == {playing[w] : w \in Unrecorded}

\* The games this session put on the board.
Landed == pgn \ Held

\* A round is kept aside because one of its games was played.
HalfPlayed ==
    \A r \in DOMAIN gamePairCache : \E g \in 0..(GamesPerRound - 1) : outcome[<<r, g>>] # "unplayed"

\* With report_penta the stats grow by whole rounds.
WholeRounds ==
    ReportPenta => /\ GamesIn(results) % 2 = 0
                   /\ GamesIn(saved.results) % 2 = 0
                   /\ initial_matchcount % 2 = 0

\* The session put its own games on the board, each once; no game that has a
\* result is missing from the count, on the board or in the file.
BInv ==
    /\ Board!TypeOK
    /\ Landed \subseteq Played
    /\ initial_matchcount + Cardinality(Landed) = GamesOn(results, gamePairCache)
    /\ Cardinality(Played) <= GamesOn(results, gamePairCache)
    /\ Cardinality(SavedGames) <= GamesIn(saved.results)
    /\ HalfPlayed
    /\ WholeRounds

LEMMA GamesInNat == \A res \in Board!ResultsType : GamesIn(res) \in Nat
  <1>1. Board!Configs(0, 0) \in Board!PairKeys /\ Board!FromMatch("WIN") \in Board!Stats
    BY StatsSums, ConfigsKey
  <1>2. QED  BY <1>1, AddedGames

LEMMA UpdateCache ==
    ASSUME NEW k, NEW s, NEW r, Board!Update(k, s, r)
    PROVE  DOMAIN gamePairCache' \subseteq DOMAIN gamePairCache \cup {r}
  BY DEF Board!Update, Board!updateNonPair, Board!updatePairFirst, Board!updatePairSecond, Board!Forget

LEMMA UpdateWhole ==
    ASSUME ReportPenta, results \in Board!ResultsType, HalvesOK(gamePairCache),
           NEW r, NEW g, NEW res, Board!Update(Board!Configs(r, g), Board!FromMatch(res), r)
    PROVE  results' = results \/ GamesIn(results') = GamesIn(results) + 2
  <1> DEFINE key == Board!Configs(r, g)
             stats == Board!FromMatch(res)
             pair == Board!AddPenta(Board!Plus(gamePairCache[r], stats))
  <1>1. key \in Board!PairKeys /\ stats \in Board!Stats /\ Board!GamesOf(stats) = 1
    BY ConfigsKey, StatsSums
  <1>2. CASE Board!updatePairFirst(stats, r)
    BY <1>2 DEF Board!updatePairFirst
  <1>3. CASE Board!updatePairSecond(key, stats, r)
    <2>1. r \in DOMAIN gamePairCache /\ results' = Board!Added(results, key, pair)
      BY <1>3 DEF Board!updatePairSecond
    <2>2. pair \in Board!Stats /\ Board!GamesOf(pair) = 2
      BY <1>1, <2>1, StatsSums DEF HalvesOK
    <2> HIDE DEF pair, key
    <2>3. QED  BY <1>1, <2>1, <2>2, AddedGames
  <1>4. QED  BY <1>2, <1>3 DEF Board!Update

\* A step that is not the recording of a game leaves the recorded ones.
LEMMA LandedStays ==
    ASSUME GInv, NEW w \in Workers, playGame(w), at[w] # "record"
    PROVE  Landed' = Landed
  <1>1. at \in [Workers -> Places] /\ GamesTyped /\ PlayedApart
    BY DEF GInv
  <1>2. ASSUME Unrecorded' = Unrecorded, \A v \in Unrecorded : playing'[v] = playing[v], pgn' = pgn
        PROVE  Landed' = Landed
    BY <1>2 DEF Landed, Held
  <1>3. ASSUME NEW to, at' = [at EXCEPT ![w] = to], at[w] \in {"lock", "record"} <=> to \in {"lock", "record"}
        PROVE  Unrecorded' = Unrecorded
    BY <1>1, <1>3 DEF Unrecorded
  <1>4. CASE /\ at[w] = "idle" /\ at' = [at EXCEPT ![w] = "begin"]
             /\ queue # << >> /\ queue' = Tail(queue)
             /\ playing' = [playing EXCEPT ![w] = Head(queue)]
             /\ UNCHANGED <<pgn, result>>
    <2>1. w \notin Unrecorded
      BY <1>4 DEF Unrecorded
    <2>2. \A v \in Unrecorded : playing'[v] = playing[v]
      BY <1>4, <2>1, <1>1 DEF GamesTyped
    <2>3. QED  BY <1>2, <1>3, <1>4, <2>2
  <1>5. CASE /\ at[w] \in {"begin", "play", "keep", "unlock"} /\ at' = [at EXCEPT ![w] = "idle"]
             /\ playing' = [playing EXCEPT ![w] = NoGame]
             /\ UNCHANGED <<queue, pgn, result>>
    <2>1. w \notin Unrecorded
      BY <1>5 DEF Unrecorded
    <2>2. \A v \in Unrecorded : playing'[v] = playing[v]
      BY <1>5, <2>1, <1>1 DEF GamesTyped
    <2>3. QED  BY <1>2, <1>3, <1>5, <2>2
  <1>6. CASE /\ at[w] = "begin" /\ at' = [at EXCEPT ![w] = "play"]
             /\ UNCHANGED <<queue, playing, pgn, result>>
    BY <1>2, <1>3, <1>6
  <1>7. CASE /\ at[w] = "play" /\ at' = [at EXCEPT ![w] = "keep"]
             /\ \E r \in Kinds : result' = [result EXCEPT ![w] = r]
             /\ UNCHANGED <<queue, playing, pgn>>
    BY <1>2, <1>3, <1>7
  <1>8. CASE /\ at[w] = "keep" /\ at' = [at EXCEPT ![w] = "lock"]
             /\ result[w] # "INTERRUPT" /\ pgn' = pgn \cup {playing[w]}
             /\ UNCHANGED <<queue, playing, result>>
    <2>1. playing[w] \notin pgn
      BY <1>1, <1>8 DEF PlayedApart
    <2>2. Unrecorded' = Unrecorded \cup {w}
      BY <1>1, <1>8 DEF Unrecorded
    <2>3. Held' = Held \cup {playing[w]}
      BY <1>8, <2>2 DEF Held
    <2>4. QED  BY <1>8, <2>1, <2>3 DEF Landed
  <1>9. CASE /\ at[w] = "lock" /\ at' = [at EXCEPT ![w] = "record"]
             /\ UNCHANGED <<queue, playing, pgn, result>>
    BY <1>2, <1>3, <1>9
  <1>10. CASE \E to \in Callback \ {"record"} :
                /\ at[w] \in Callback /\ at' = [at EXCEPT ![w] = to]
                /\ UNCHANGED <<queue, playing, pgn, result>>
    <2>1. PICK to \in Callback \ {"record"} :
                /\ at[w] \in Callback /\ at' = [at EXCEPT ![w] = to]
                /\ UNCHANGED <<queue, playing, pgn, result>>
      BY <1>10
    <2>2. at[w] \notin {"lock", "record"} /\ to \notin {"lock", "record"}
      BY <2>1 DEF Callback
    <2>3. QED  BY <1>2, <1>3, <2>1, <2>2
  <1>11. QED  BY <1>4, <1>5, <1>6, <1>7, <1>8, <1>9, <1>10, GameSteps

\* The game that is recorded is a new one among those of the session.
LEMMA RecordLands ==
    ASSUME GInv, NEW w \in Workers, Record(w)
    PROVE  /\ playing[w] \in Games /\ playing[w] \in pgn /\ playing[w] \notin Landed
           /\ Late(initial_matchcount, playing[w])
           /\ result[w] \in Board!GameResult
           /\ Landed' = Landed \cup {playing[w]}
  <1>1. at \in [Workers -> Places] /\ GamesTyped /\ PlayedApart /\ StartedInOrder
    BY DEF GInv
  <1>2. /\ at[w] = "record" /\ at' = [at EXCEPT ![w] = "print"]
        /\ playing' = playing /\ pgn' = pgn
    BY DEF Record, Step, pool, history
  <1>3. playing[w] \in Games /\ playing[w] \in pgn /\ result[w] # "INTERRUPT" /\ result[w] \in Kinds
    BY <1>1, <1>2 DEF GamesTyped, PlayedApart
  <1>4. w \in Unrecorded /\ Unrecorded' = Unrecorded \ {w}
    BY <1>1, <1>2 DEF Unrecorded
  <1>5. Held' = Held \ {playing[w]} /\ playing[w] \in Held
    <2>1. \A v \in Unrecorded' : playing[v] # playing[w]
      BY <1>1, <1>3, <1>4, NoGameAssumption DEF PlayedApart, Unrecorded
    <2>2. QED  BY <1>2, <1>4, <2>1 DEF Held
  <1>6. Late(initial_matchcount, playing[w])
    BY <1>1, <1>3 DEF StartedInOrder, Started
  <1>7. result[w] \in Board!GameResult
    BY <1>3 DEF Kinds, Board!GameResult
  <1>8. QED  BY <1>2, <1>3, <1>5, <1>6, <1>7 DEF Landed

LEMMA FiniteGames ==
    ASSUME NEW S \in SUBSET Games
    PROVE  IsFiniteSet(S) /\ Cardinality(S) \in Nat
  BY CountGames, FS_Subset, FS_CardinalityType

LEMMA BoardInit == Init => BInv
  <1> SUFFICES ASSUME Init PROVE BInv
    OBVIOUS
  <1>1. /\ results = Board!NothingSaved.results /\ saved = Board!NothingSaved
        /\ gamePairCache = << >> /\ outcome = Board!NothingSaved.outcome
        /\ at = [w \in Workers |-> "idle"] /\ pgn = {} /\ initial_matchcount = 0
    BY DEF Init, Board!Init
  <1>2. /\ Board!NothingSaved.results \in Board!ResultsType
        /\ Board!NothingSaved.outcome = [x \in Games |-> "unplayed"]
        /\ GamesIn(Board!NothingSaved.results) = 0
    BY NothingCounted DEF Board!NothingSaved, Games
  <1>3. DOMAIN gamePairCache = {}
    BY <1>1
  <1>4. Board!TypeOK
    <2>1. Board!NothingSaved.outcome \in Board!OutcomeType
      BY <1>2 DEF Board!OutcomeType, Board!Outcome, Games
    <2>2. Board!NothingSaved \in [results : Board!ResultsType, outcome : Board!OutcomeType]
      BY <1>2, <2>1 DEF Board!NothingSaved
    <2>3. QED  BY <1>1, <1>2, <1>3, <2>1, <2>2 DEF Board!TypeOK
  <1>5. Landed = {} /\ Played = {} /\ SavedGames = {}
    BY <1>1, <1>2 DEF Landed, Played, SavedGames
  <1>6. GamesOn(results, gamePairCache) = 0
    BY <1>1, <1>2, <1>3, FS_EmptySet DEF GamesOn
  <1>7. HalfPlayed /\ WholeRounds
    BY <1>1, <1>2, <1>3 DEF HalfPlayed, WholeRounds
  <1>8. QED  BY <1>1, <1>2, <1>4, <1>5, <1>6, <1>7, FS_EmptySet DEF BInv

\* A recorded game.
LEMMA BoardRecord ==
    ASSUME GInv, CInv, BInv, NEW w \in Workers, Record(w)
    PROVE  BInv'
  <1> DEFINE x == playing[w]
  <1>1. /\ x \in Games /\ x \notin Landed /\ Landed' = Landed \cup {x}
        /\ result[w] \in Board!GameResult
    BY RecordLands
  <1>2. /\ Board!Update(Board!Configs(x[1], x[2]), Board!FromMatch(result[w]), x[1])
        /\ outcome' = [outcome EXCEPT ![x] = result[w]]
        /\ saved' = saved /\ initial_matchcount' = initial_matchcount
    BY DEF Record, counters
  <1>3. results \in Board!ResultsType /\ HalvesOK(gamePairCache)
    BY DEF CInv, CountingOK
  <1>4. /\ results' \in Board!ResultsType
        /\ HalvesOK(gamePairCache')
        /\ GamesOn(results', gamePairCache') = GamesOn(results, gamePairCache) + 1
        /\ GamesOn(results, gamePairCache) \in Nat
    BY <1>2, <1>3, UpdateAddsOne
  <1>5. x[1] \in 0..(RoundCount - 1) /\ x[2] \in 0..(GamesPerRound - 1) /\ x = <<x[1], x[2]>>
    BY <1>1, GamesAre
  <1>6. DOMAIN gamePairCache' \subseteq DOMAIN gamePairCache \cup {x[1]}
    BY <1>2, UpdateCache
  <1>7. outcome \in [Games -> Board!Outcome] /\ Board!TypeOK
    BY DEF BInv, Board!TypeOK, Board!OutcomeType, Games
  <1> HIDE DEF x
  <1>8. outcome' \in [Games -> Board!Outcome] /\ \A y \in Games : outcome'[y] = IF y = x THEN result[w] ELSE outcome[y]
    BY <1>1, <1>2, <1>7 DEF Board!Outcome
  <1>9. Board!TypeOK'
    <2>1. DOMAIN gamePairCache' \subseteq 0..(RoundCount - 1)
      BY <1>5, <1>6, <1>7 DEF Board!TypeOK
    <2>2. \A r \in DOMAIN gamePairCache' : gamePairCache'[r] \in Board!Stats
      BY <1>4 DEF HalvesOK
    <2>3. outcome' \in Board!OutcomeType
      BY <1>8 DEF Board!OutcomeType, Games
    <2>4. QED  BY <1>2, <1>4, <1>7, <2>1, <2>2, <2>3 DEF Board!TypeOK
  <1>10. Played' = Played \cup {x}
    <2>1. result[w] # "unplayed"
      BY <1>1 DEF Board!GameResult
    <2>2. QED  BY <1>1, <1>8, <2>1 DEF Played
  <1>11. Landed' \subseteq Played'
    BY <1>1, <1>10 DEF BInv
  <1>12. Cardinality(Landed') = Cardinality(Landed) + 1
    <2>1. IsFiniteSet(Landed)
      BY FiniteGames DEF Landed, GInv, GamesTyped
    <2>2. QED  BY <1>1, <2>1, FS_AddElement
  <1>13. Cardinality(Played') <= Cardinality(Played) + 1
    <2>1. IsFiniteSet(Played) /\ Cardinality(Played) \in Nat
      BY FiniteGames DEF Played
    <2>2. QED  BY <1>10, <2>1, FS_AddElement
  <1>14. initial_matchcount' + Cardinality(Landed') = GamesOn(results', gamePairCache')
    <2>1. initial_matchcount \in Nat /\ Cardinality(Landed) \in Nat
      BY FiniteGames DEF Landed, GInv, GamesTyped
    <2>2. QED  BY <1>2, <1>4, <1>12, <2>1 DEF BInv
  <1>15. Cardinality(Played') <= GamesOn(results', gamePairCache')
    <2>1. Cardinality(Played) \in Nat /\ Cardinality(Played') \in Nat
      BY FiniteGames DEF Played
    <2>2. QED  BY <1>4, <1>13, <2>1 DEF BInv
  <1>16. SavedGames' = SavedGames /\ GamesIn(saved'.results) = GamesIn(saved.results)
    BY <1>2 DEF SavedGames
  <1>17. HalfPlayed'
    <2> SUFFICES ASSUME NEW r \in DOMAIN gamePairCache'
                 PROVE  \E g \in 0..(GamesPerRound - 1) : outcome'[<<r, g>>] # "unplayed"
      BY DEF HalfPlayed
    <2>1. CASE r = x[1]
      <3>1. outcome'[<<r, x[2]>>] # "unplayed"
        BY <1>1, <1>5, <1>8, <2>1 DEF Board!GameResult
      <3>2. QED  BY <1>5, <3>1
    <2>2. CASE r # x[1]
      <3>1. r \in DOMAIN gamePairCache
        BY <1>6, <2>2
      <3>2. PICK g \in 0..(GamesPerRound - 1) : outcome[<<r, g>>] # "unplayed"
        BY <3>1 DEF BInv, HalfPlayed
      <3>3. <<r, g>> \in Games /\ <<r, g>> # x
        BY <1>5, <1>7, <2>2, <3>1, GamesAre DEF Board!TypeOK
      <3>4. QED  BY <1>8, <3>2, <3>3
    <2>3. QED  BY <2>1, <2>2
  <1>18. WholeRounds'
    <2>1. ReportPenta => results' = results \/ GamesIn(results') = GamesIn(results) + 2
      BY <1>2, <1>3, UpdateWhole
    <2>2. GamesIn(results) \in Nat
      BY <1>3, GamesInNat
    <2>3. ReportPenta => GamesIn(results') % 2 = 0
      BY <2>1, <2>2 DEF BInv, WholeRounds
    <2>4. QED  BY <1>2, <1>16, <2>3 DEF BInv, WholeRounds
  <1>19. QED
    BY <1>9, <1>11, <1>14, <1>15, <1>16, <1>17, <1>18 DEF BInv

\* A save keeps what is on the board, without the halves kept aside.
LEMMA BoardSaved ==
    ASSUME GInv, CInv, BInv, Board!getResults, UNCHANGED <<at, playing, pgn, initial_matchcount>>
    PROVE  BInv'
  <1>1. /\ saved'.results = results /\ saved'.outcome = Board!CountedOutcome
        /\ saved' = [results |-> results, outcome |-> Board!CountedOutcome]
        /\ UNCHANGED <<results, gamePairCache, outcome>>
    BY DEF Board!getResults
  <1>2. Landed' = Landed /\ Played' = Played /\ HalfPlayed' /\ Board!TypeOK
    BY <1>1 DEF Landed, Held, Unrecorded, Played, HalfPlayed, BInv
  <1>3. outcome \in [Games -> Board!Outcome] /\ results \in Board!ResultsType
    BY <1>2 DEF Board!TypeOK, Board!OutcomeType, Games
  <1>4. Board!TypeOK'
    <2>1. Board!CountedOutcome \in Board!OutcomeType
      BY <1>3 DEF Board!CountedOutcome, Board!OutcomeType, Board!Outcome, Games
    <2>2. QED  BY <1>1, <1>2, <1>3, <2>1 DEF Board!TypeOK
  <1>5. SavedGames' = Played \ {x \in Played : x[1] \in DOMAIN gamePairCache}
    BY <1>1 DEF SavedGames, Played, Board!CountedOutcome, Board!Counted, Games
  <1> DEFINE halves == {x \in Played : x[1] \in DOMAIN gamePairCache}
             round == [x \in halves |-> x[1]]
  <1>6. IsFiniteSet(Played) /\ IsFiniteSet(halves) /\ Cardinality(Played) \in Nat /\ Cardinality(halves) \in Nat
    BY FiniteGames DEF Played
  <1>7. Cardinality(DOMAIN gamePairCache) <= Cardinality(halves)
    <2>1. round \in [halves -> DOMAIN gamePairCache]
      OBVIOUS
    <2>2. \A r \in DOMAIN gamePairCache : \E x \in halves : round[x] = r
      <3> TAKE r \in DOMAIN gamePairCache
      <3>1. PICK g \in 0..(GamesPerRound - 1) : outcome[<<r, g>>] # "unplayed"
        BY DEF BInv, HalfPlayed
      <3>2. <<r, g>> \in Games
        BY <1>2, <3>1, GamesAre DEF Board!TypeOK
      <3>3. <<r, g>> \in halves /\ round[<<r, g>>] = r
        BY <3>1, <3>2 DEF Played
      <3>4. QED  BY <3>3
    <2> HIDE DEF halves, round
    <2>3. round \in Surjection(halves, DOMAIN gamePairCache)
      BY <2>1, <2>2, Fun_IsSurj
    <2>4. QED  BY <1>6, <2>3, FS_Surjection
  <1>8. Cardinality(SavedGames') = Cardinality(Played) - Cardinality(halves)
    <2>1. Played \cap halves = halves
      OBVIOUS
    <2>2. SavedGames' = Played \ halves
      BY <1>5
    <2> HIDE DEF halves
    <2>3. Cardinality(Played \ halves) = Cardinality(Played) - Cardinality(Played \cap halves)
      BY <1>6, FS_Difference
    <2>4. QED  BY <2>1, <2>2, <2>3
  <1>9. Cardinality(DOMAIN gamePairCache) \in Nat /\ GamesIn(results) \in Nat
    BY <1>3, GamesInNat, FS_CardinalityType DEF CInv, CountingOK, HalvesOK
  <1>10. Cardinality(SavedGames') <= GamesIn(saved'.results)
    <2> HIDE DEF halves
    <2>1. Cardinality(Played) <= GamesIn(results) + Cardinality(DOMAIN gamePairCache)
      BY DEF BInv, GamesOn
    <2>2. QED  BY <1>1, <1>6, <1>7, <1>8, <1>9, <2>1
  <1>11. WholeRounds'
    BY <1>1 DEF BInv, WholeRounds
  <1>12. QED  BY <1>1, <1>2, <1>4, <1>10, <1>11 DEF BInv

\* A step that leaves the board and the games of the session.
LEMMA BoardQuiet ==
    ASSUME BInv, UNCHANGED <<results, gamePairCache, saved, outcome, initial_matchcount>>, Landed' = Landed
    PROVE  BInv'
  <1>1. Played' = Played /\ SavedGames' = SavedGames
    BY DEF Played, SavedGames
  <1>2. Board!TypeOK' /\ HalfPlayed' /\ WholeRounds'
    BY DEF BInv, Board!TypeOK, HalfPlayed, WholeRounds
  <1>3. QED  BY <1>1, <1>2 DEF BInv

LEMMA BoardRestart ==
    ASSUME CInv, BInv, Restart
    PROVE  BInv'
  <1>1. /\ results' = saved.results /\ gamePairCache' = << >> /\ outcome' = saved.outcome /\ saved' = saved
        /\ at' = [w \in Workers |-> "idle"] /\ pgn' = {} /\ initial_matchcount' = GamesIn(saved.results)
    BY RestartSteps
  <1>2. Landed' = {} /\ Played' = SavedGames /\ SavedGames' = SavedGames /\ DOMAIN gamePairCache' = {}
    BY <1>1 DEF Landed, Played, SavedGames
  <1>3. Board!TypeOK'
    BY <1>1, <1>2 DEF BInv, Board!TypeOK
  <1>4. GamesIn(saved.results) \in Nat
    BY GamesInNat DEF CInv, CountingOK
  <1>5. GamesOn(results', gamePairCache') = GamesIn(saved.results)
    BY <1>1, <1>2, <1>4, FS_EmptySet DEF GamesOn
  <1>6. HalfPlayed' /\ WholeRounds'
    BY <1>1, <1>2 DEF BInv, HalfPlayed, WholeRounds
  <1>7. initial_matchcount' + Cardinality(Landed') = GamesOn(results', gamePairCache')
    BY <1>1, <1>2, <1>4, <1>5, FS_EmptySet
  <1>8. QED  BY <1>1, <1>2, <1>3, <1>5, <1>6, <1>7 DEF BInv

\* The steps that touch the board.
LEMMA BoardSteps ==
    ASSUME [Next]_vars
    PROVE  \/ \E w \in Workers : Record(w)
           \/ (Autosave \/ FinalSave) /\ Board!getResults
           \/ Restart
           \/ UNCHANGED board
  <1>1. ASSUME NEW w \in Workers, playGame(w) PROVE Record(w) \/ UNCHANGED board
    BY <1>1 DEF playGame, Fetch, Begin, EndGame, StartFails, Disconnect, Throw, Keep, Lock,
                Report, updateSprtStatus, Count, Unlock
  <1>2. CASE mainThread \/ Interrupt \/ UNCHANGED vars
    BY <1>2 DEF mainThread, Enqueue, StartWaiting, Autosave, EndAutosave, StopWaiting, DestroyMembers,
                FinalSave, EndFinalSave, KillPool, JoinPool, Interrupt, vars, BeginSave
  <1>3. QED  BY <1>1, <1>2 DEF Next

LEMMA BoardStep == GInv /\ CInv /\ BInv /\ [Next]_vars => BInv'
  <1> SUFFICES ASSUME GInv, CInv, BInv, [Next]_vars PROVE BInv'
    OBVIOUS
  <1>1. ASSUME NEW w \in Workers, Record(w) PROVE BInv'
    BY <1>1, BoardRecord
  <1>2. CASE (Autosave \/ FinalSave) /\ Board!getResults
    <2>1. UNCHANGED <<at, playing, pgn, initial_matchcount>>
      BY <1>2, MainSteps DEF mainThread
    <2>2. QED  BY <1>2, <2>1, BoardSaved
  <1>3. CASE Restart
    BY <1>3, BoardRestart
  <1>4. ASSUME NEW w \in Workers, playGame(w), UNCHANGED board PROVE BInv'
    <2>1. CASE at[w] = "record"
      BY <1>1, <1>4, <2>1 DEF playGame, Fetch, Begin, EndGame, StartFails, Disconnect, Throw, Keep, Lock,
            Report, updateSprtStatus, Count, Unlock, Step
    <2>2. CASE at[w] # "record"
      BY <1>4, <2>2, LandedStays, GameSteps, BoardQuiet DEF board
    <2>3. QED  BY <2>1, <2>2
  <1>5. CASE (mainThread \/ Interrupt \/ UNCHANGED vars) /\ UNCHANGED board
    <2>1. UNCHANGED <<at, playing, pgn, initial_matchcount>>
      BY <1>5, MainSteps
    <2>2. Landed' = Landed
      BY <2>1 DEF Landed, Held, Unrecorded
    <2>3. QED  BY <1>5, <2>1, <2>2, BoardQuiet DEF board
  <1>6. QED  BY <1>1, <1>2, <1>3, <1>4, <1>5, BoardSteps DEF Next

-----------------------------------------------------------------------------
(* What InOrder is worth.                                                  *)

LEMMA InOrderIs == InOrder <=> Played \ pgn = Before(initial_matchcount)
  BY DEF InOrder, Played, Before, Order

\* Games of this session that were played come on top of the first ones.
LEMMA PlayedAtLeast ==
    ASSUME GInv, InOrder, initial_matchcount <= total, NEW S \in SUBSET (Played \cap pgn)
    PROVE  initial_matchcount + Cardinality(S) <= Cardinality(Played)
  <1> DEFINE first == Before(initial_matchcount)
  <1>1. IsFiniteSet(first) /\ Cardinality(first) = initial_matchcount
    BY CountBefore DEF GInv, GamesTyped
  <1>2. IsFiniteSet(S) /\ IsFiniteSet(Played) /\ Cardinality(S) \in Nat
    BY FiniteGames DEF Played
  <1>3. first \cap S = {} /\ first \cup S \subseteq Played
    BY InOrderIs
  <1> HIDE DEF first
  <1>4. Cardinality(first \cup S) = Cardinality(first) + Cardinality(S)
    <2>1. Cardinality(first \cup S) = Cardinality(first) + Cardinality(S) - Cardinality(first \cap S)
      BY <1>1, <1>2, FS_Union
    <2>2. Cardinality(first \cap S) = 0
      BY <1>3, FS_EmptySet
    <2>3. Cardinality(first) \in Nat
      BY <1>1, FS_CardinalityType
    <2>4. QED  BY <1>2, <2>1, <2>2, <2>3
  <1>5. Cardinality(first \cup S) <= Cardinality(Played)
    BY <1>2, <1>3, FS_Subset
  <1>6. QED  BY <1>1, <1>4, <1>5

\* Create() goes on after the games counted, when those are whole rounds, and never goes past the end.
LEMMA LateGames ==
    ASSUME NEW n \in Nat, NEW x \in Games, Late(n, x)
    PROVE  /\ n <= total
           /\ n % GamesPerRound = 0 => x \notin Before(n)
  <1>1. x[1] \in Nat /\ x[1] < RoundCount /\ x[2] \in Nat
    BY GamesAre
  <1>2. CASE GamesPerRound = 1
    BY <1>1, <1>2, GamesAre DEF Late, Before, Order, total
  <1>3. CASE GamesPerRound = 2
    BY <1>1, <1>3, GamesAre DEF Late, Before, Order, total
  <1>4. QED  BY <1>2, <1>3, GamesAre

\* As long as the games of the sessions before are the first ones, no game is played again.
LEMMA NoGameAgain ==
    ASSUME GInv, BInv, InOrder, NEW w \in Workers, Record(w)
    PROVE  outcome[playing[w]] = "unplayed"
  <1> SUFFICES ASSUME outcome[playing[w]] # "unplayed" PROVE FALSE
    OBVIOUS
  <1> DEFINE S == Landed \cup {playing[w]}
  <1>1. /\ playing[w] \in Games /\ playing[w] \in pgn /\ playing[w] \notin Landed
        /\ Late(initial_matchcount, playing[w])
    BY RecordLands
  <1>2. S \subseteq Played \cap pgn
    BY <1>1 DEF Played, Landed, BInv
  <1>3. initial_matchcount \in Nat /\ initial_matchcount <= total
    BY <1>1, LateGames DEF GInv, GamesTyped
  <1>4. IsFiniteSet(Landed) /\ Cardinality(Landed) \in Nat /\ Cardinality(Played) \in Nat
    BY FiniteGames DEF Landed, Played, GInv, GamesTyped
  <1>5. Cardinality(S) = Cardinality(Landed) + 1
    BY <1>1, <1>4, FS_AddElement
  <1>6. initial_matchcount + Cardinality(S) <= Cardinality(Played)
    <2> HIDE DEF S
    <2>1. QED  BY <1>2, <1>3, PlayedAtLeast
  <1>7. Cardinality(Played) <= initial_matchcount + Cardinality(Landed)
    BY DEF BInv
  <1> HIDE DEF S
  <1>8. QED  BY <1>3, <1>4, <1>5, <1>6, <1>7

\* When as many games are counted as the tournament has, none of this session is left to record.
LEMMA NoneLeft ==
    ASSUME GInv, CInv, BInv, match_count >= total, initial_matchcount % GamesPerRound = 0,
           NEW w \in Workers
    PROVE  ~Record(w)
  <1> SUFFICES ASSUME Record(w) PROVE FALSE
    OBVIOUS
  <1> DEFINE n == initial_matchcount
             rest == Games \ Before(n)
             S == Landed \cup {playing[w]}
  <1>1. /\ playing[w] \in Games /\ playing[w] \notin Landed /\ Late(n, playing[w])
    BY RecordLands
  <1>2. n \in Nat /\ n <= total
    BY <1>1, LateGames DEF GInv, GamesTyped
  <1>3. \A x \in Landed : x \in Games /\ Late(n, x)
    BY DEF Landed, GInv, GamesTyped, StartedInOrder, Started
  <1>4. S \subseteq rest
    BY <1>1, <1>2, <1>3, LateGames
  <1>5. IsFiniteSet(rest) /\ Cardinality(rest) = total - n
    <2>1. Games \cap Before(n) = Before(n)
      BY DEF Before
    <2>2. IsFiniteSet(rest) /\ Cardinality(rest) = Cardinality(Games) - Cardinality(Games \cap Before(n))
      BY CountGames, FS_Difference
    <2>3. QED  BY <1>2, <2>1, <2>2, CountGames, CountBefore
  <1>6. IsFiniteSet(Landed) /\ Cardinality(Landed) \in Nat
    BY FiniteGames DEF Landed, GInv, GamesTyped
  <1>7. Cardinality(S) = Cardinality(Landed) + 1
    BY <1>1, <1>6, FS_AddElement
  <1>8. Cardinality(S) <= total - n
    <2> HIDE DEF S, rest
    <2>1. QED  BY <1>4, <1>5, FS_Subset
  <1>9. n + Cardinality(Landed) >= match_count
    <2>1. Cardinality(Uncounted) = Pending /\ Pending \in Nat
      BY PendingIs DEF CInv, PendingMatches, Pending
    <2>2. QED  BY <2>1 DEF BInv, CInv, CountExact, Recorded, GamesOn, CountingOK
  <1> HIDE DEF S
  <1>10. match_count \in Nat /\ total \in Nat
    BY GamesAre DEF CInv, CountingOK
  <1>11. QED  BY <1>2, <1>6, <1>7, <1>8, <1>9, <1>10

\* Every step of the tournament is a step of its score board, as long as the sessions were in order.
LEMMA BoardUsed ==
    ASSUME GInv, BInv, InOrder, [Next]_vars
    PROVE  Board!Next \/ UNCHANGED board
  <1>1. ASSUME NEW w \in Workers, Record(w) PROVE Board!Next
    <2> DEFINE x == playing[w]
               r == result[w]
    <2>1. x \in Board!GameIds /\ r \in Board!GameResult
      BY <1>1, RecordLands DEF Games
    <2>2. x = <<x[1], x[2]>>
      BY <1>1, RecordLands, GamesAre
    <2>3. outcome[x] = "unplayed"
      BY <1>1, NoGameAgain
    <2>4. /\ Board!Update(Board!Configs(x[1], x[2]), Board!FromMatch(r), x[1])
          /\ outcome' = [outcome EXCEPT ![x] = r]
          /\ UNCHANGED saved
      BY <1>1 DEF Record
    <2> HIDE DEF x, r
    <2>5. Board!Record(x[1], x[2], r)
      BY <2>2, <2>3, <2>4 DEF Board!Record
    <2>6. QED  BY <2>1, <2>5 DEF Board!Next
  <1>2. CASE (Autosave \/ FinalSave) /\ Board!getResults
    BY <1>2 DEF Board!Next
  <1>3. CASE Restart
    BY <1>3 DEF Restart, Board!Next
  <1>4. QED  BY <1>1, <1>2, <1>3, BoardSteps

\* The invariant of a tournament.
IInv == CInv /\ GInv /\ BInv

LEMMA InvInit == Init => IInv
  BY CountInit, GamesInit, BoardInit DEF IInv

LEMMA InvStep == IInv /\ [Next]_vars => IInv'
  BY CountStep, GamesStep, BoardStep DEF IInv

(* As long as the sessions were in order the tournament is a user of the   *)
(* score board: it records no game twice, and saves and reloads the games  *)
(* with their stats (roundrobin.cpp:70-100, scoreboard.hpp:84-152).        *)
THEOREM BoardRefined == Spec => UsesBoard
  <1>1. Init => Board!Init
    BY DEF Init
  <1>2. IInv /\ [Next]_vars => [InOrder => Board!Next]_board
    BY BoardUsed DEF IInv
  <1>3. QED  BY <1>1, <1>2, InvInit, InvStep, PTL DEF Spec, UsesBoard

-----------------------------------------------------------------------------
(* The main thread, and the end of a session.                              *)

RestTyped ==
    /\ phase \in {"open", "closing", "closed"}
    /\ output_mutex \in Workers \cup {NoWorker}
    /\ stop \in BOOLEAN
    /\ save_iter \in Nat
    /\ main \in {"create", "wait", "autosave", "members", "save", "saving", "kill", "join", "done"}
    /\ alive \in BOOLEAN
    /\ file \in {"absent", "torn", "written"}
    /\ session \in 1..MaxSessions
    /\ lost \subseteq Games
    /\ finals \in Nat
    /\ ended \in {"running", "total", "stop"}

\* The callback that has printed its reports and not counted its game yet.
Reporting == output_mutex \in Workers /\ at[output_mutex] \in {"sprt", "count"}

\* The final score is printed for the game that makes the counter total_.
FinalsCounted ==
    finals = IF initial_matchcount < total
                /\ (match_count >= total \/ (match_count + 1 = total /\ Reporting))
             THEN 1 ELSE 0

AtRound == ReportPenta \/ initial_matchcount % GamesPerRound = 0

\* Why the wait ended, and what the saves after it wrote.
EndingOK ==
    /\ match_count >= initial_matchcount
    /\ main \in {"create", "wait", "autosave"} => ended = "running"
    /\ ended = "total" => match_count >= total
    /\ main \in {"kill", "join", "done"} => file = "written"
    /\ (main \in {"saving", "kill", "join", "done"} /\ ended = "total" /\ AtRound) => saved.results = results

TInv == RestTyped /\ FinalsCounted /\ EndingOK

LEMMA ThreadInit == Init => TInv
  <1> SUFFICES ASSUME Init PROVE TInv
    OBVIOUS
  <1>1. /\ phase = "open" /\ output_mutex = NoWorker /\ stop = FALSE /\ save_iter = 0
        /\ main = "create" /\ alive = TRUE /\ file = "absent" /\ session = 1
        /\ lost = {} /\ finals = 0 /\ ended = "running"
        /\ match_count = 0 /\ initial_matchcount = 0
    BY DEF Init, Pool!Init
  <1>2. RestTyped
    <2>1. 1 \in 1..MaxSessions
      BY TournamentAssumption
    <2>2. stop \in BOOLEAN /\ alive \in BOOLEAN
      BY <1>1
    <2>3. QED  BY <1>1, <2>1, <2>2 DEF RestTyped
  <1>3. FinalsCounted
    BY <1>1, TournamentAssumption, GamesAre DEF FinalsCounted, Reporting
  <1>4. EndingOK
    BY <1>1 DEF EndingOK
  <1>5. QED  BY <1>2, <1>3, <1>4 DEF TInv

\* What a step of a worker does to the rest of the state.
LEMMA WorkerRest ==
    ASSUME IInv, NEW w \in Workers, playGame(w)
    PROVE  /\ UNCHANGED <<main, ended, file, alive, save_iter, saved, phase, session, initial_matchcount>>
           /\ lost' = lost \/ (lost' = lost \cup {playing[w]} /\ playing[w] \in Games)
           /\ output_mutex' \in {output_mutex, w, NoWorker}
           /\ (stop \in BOOLEAN => stop' \in BOOLEAN)
  <1>1. CASE Fetch(w) \/ Begin(w) \/ EndGame(w) \/ StartFails(w)
    BY <1>1 DEF Fetch, Pool!Start, Begin, Return, Pool!Finish, Step, EndGame, StartFails,
                pool, thread, counters, disk, board, history
  <1>2. CASE Disconnect(w) \/ Keep(w)
    BY <1>2 DEF Disconnect, Keep, Return, Pool!Finish, Step, pool, thread, counters, disk, board, history
  <1>3. CASE Throw(w)
    <2>1. playing[w] \in Games
      BY <1>3 DEF Throw, IInv, GInv, GamesTyped, PlayedApart
    <2>2. QED  BY <1>3, <2>1 DEF Throw, Return, Pool!Finish, thread, counters, disk, board
  <1>4. CASE Lock(w) \/ Record(w) \/ Report(w)
    BY <1>4 DEF Lock, Record, Report, Step, pool, thread, counters, disk, board, history
  <1>5. CASE updateSprtStatus(w)
    BY <1>5 DEF updateSprtStatus, Step, pool, thread, counters, disk, board, history
  <1>6. CASE Count(w) \/ Unlock(w)
    BY <1>6 DEF Count, Unlock, Return, Pool!Finish, Step, pool, thread, counters, disk, board, history
  <1>7. QED  BY <1>1, <1>2, <1>3, <1>4, <1>5, <1>6 DEF playGame

\* Only Report and Count change what the final score depends on.
LEMMA ReportingStays ==
    ASSUME MInv, NEW w \in Workers, playGame(w), ~Report(w), ~Count(w)
    PROVE  (Reporting' <=> Reporting) /\ match_count' = match_count /\ finals' = finals
  <1>1. at \in [Workers -> Places] /\ \A v \in Workers : at[v] \in Callback <=> output_mutex = v
    BY DEF MInv, MutexHeld
  <1>2. ASSUME NEW to, at' = [at EXCEPT ![w] = to], at[w] \notin Callback, output_mutex' = output_mutex
        PROVE  Reporting' <=> Reporting
    BY <1>1, <1>2 DEF Reporting
  <1>3. CASE Fetch(w) \/ Begin(w) \/ EndGame(w) \/ StartFails(w)
    <2>1. at[w] \notin Callback /\ output_mutex' = output_mutex /\ match_count' = match_count /\ finals' = finals
      BY <1>3 DEF Fetch, Begin, EndGame, StartFails, Step, counters, history, Callback
    <2>2. \E to : at' = [at EXCEPT ![w] = to]
      BY <1>3 DEF Fetch, Begin, EndGame, StartFails, Step, Return
    <2>3. QED  BY <1>2, <2>1, <2>2
  <1>4. CASE Disconnect(w) \/ Throw(w) \/ Keep(w)
    <2>1. at[w] \notin Callback /\ output_mutex' = output_mutex /\ match_count' = match_count /\ finals' = finals
      BY <1>4 DEF Disconnect, Throw, Keep, Step, counters, history, Callback
    <2>2. \E to : at' = [at EXCEPT ![w] = to]
      BY <1>4 DEF Disconnect, Throw, Keep, Step, Return
    <2>3. QED  BY <1>2, <2>1, <2>2
  <1>5. CASE Lock(w)
    <2>1. /\ output_mutex = NoWorker /\ output_mutex' = w /\ at' = [at EXCEPT ![w] = "record"]
          /\ match_count' = match_count /\ finals' = finals
      BY <1>5 DEF Lock, Step, counters, history
    <2>2. at'[w] = "record"
      BY <1>1, <2>1
    <2>3. ~Reporting /\ ~Reporting'
      BY <2>1, <2>2, TournamentAssumption DEF Reporting
    <2>4. QED  BY <2>1, <2>3
  <1>6. CASE Record(w)
    <2>1. /\ at[w] = "record" /\ output_mutex' = output_mutex /\ at' = [at EXCEPT ![w] = "print"]
          /\ match_count' = match_count /\ finals' = finals
      BY <1>6 DEF Record, Step, counters, history
    <2>2. output_mutex = w /\ at'[w] = "print"
      BY <1>1, <2>1 DEF Callback
    <2>3. QED  BY <2>1, <2>2 DEF Reporting
  <1>7. CASE updateSprtStatus(w)
    <2>1. /\ at[w] = "sprt" /\ output_mutex' = output_mutex /\ at' = [at EXCEPT ![w] = "count"]
          /\ match_count' = match_count /\ finals' = finals
      BY <1>7 DEF updateSprtStatus, Step, counters, history
    <2>2. output_mutex = w /\ at'[w] = "count"
      BY <1>1, <2>1 DEF Callback
    <2>3. QED  BY <2>1, <2>2 DEF Reporting
  <1>8. CASE Unlock(w)
    <2>1. /\ at[w] = "unlock" /\ output_mutex' = NoWorker
          /\ match_count' = match_count /\ finals' = finals
      BY <1>8 DEF Unlock, counters, history
    <2>2. output_mutex = w
      BY <1>1, <2>1 DEF Callback
    <2>3. QED  BY <2>1, <2>2, TournamentAssumption DEF Reporting
  <1>9. QED  BY <1>3, <1>4, <1>5, <1>6, <1>7, <1>8 DEF playGame

LEMMA GameBoard ==
    ASSUME NEW w \in Workers, playGame(w)
    PROVE  Record(w) \/ UNCHANGED board
  BY DEF playGame, Fetch, Begin, EndGame, StartFails, Disconnect, Throw, Keep, Lock,
         Report, updateSprtStatus, Count, Unlock

LEMMA WorkerThread ==
    ASSUME IInv, TInv, NEW w \in Workers, playGame(w)
    PROVE  TInv'
  <1>1. MInv /\ match_count \in Nat /\ initial_matchcount \in Nat /\ total \in Nat
    BY GamesAre DEF IInv, CInv, CountingOK, GInv, GamesTyped
  <1>2. /\ UNCHANGED <<main, ended, file, alive, save_iter, saved, phase, session, initial_matchcount>>
        /\ lost' = lost \/ (lost' = lost \cup {playing[w]} /\ playing[w] \in Games)
        /\ output_mutex' \in {output_mutex, w, NoWorker}
        /\ (stop \in BOOLEAN => stop' \in BOOLEAN)
    BY WorkerRest
  <1>3. FinalsCounted' /\ match_count' \in {match_count, match_count + 1}
    <2>1. CASE Report(w)
      <3>1. /\ at[w] = "print" /\ at' = [at EXCEPT ![w] = "sprt"] /\ output_mutex' = output_mutex
            /\ finals' = IF match_count + 1 = total THEN finals + 1 ELSE finals
            /\ match_count' = match_count
        BY <2>1 DEF Report, Step, counters
      <3>2. output_mutex = w /\ at'[w] = "sprt"
        BY <1>1, <3>1 DEF MInv, MutexHeld, Callback
      <3>3. ~Reporting /\ Reporting'
        BY <3>1, <3>2 DEF Reporting
      <3>4. QED  BY <1>1, <1>2, <3>1, <3>3 DEF TInv, FinalsCounted, EndingOK
    <2>2. CASE Count(w)
      <3>1. /\ at[w] = "count" /\ at' = [at EXCEPT ![w] = "unlock"] /\ output_mutex' = output_mutex
            /\ finals' = finals /\ match_count' = match_count + 1
        BY <2>2 DEF Count, Step, history
      <3>2. output_mutex = w /\ at'[w] = "unlock"
        BY <1>1, <3>1 DEF MInv, MutexHeld, Callback
      <3>3. Reporting /\ ~Reporting'
        BY <3>1, <3>2 DEF Reporting
      <3>4. QED  BY <1>1, <1>2, <3>1, <3>3 DEF TInv, FinalsCounted, EndingOK
    <2>3. CASE ~Report(w) /\ ~Count(w)
      BY <1>1, <1>2, <2>3, ReportingStays DEF TInv, FinalsCounted
    <2>4. QED  BY <2>1, <2>2, <2>3
  <1>4. RestTyped'
    <2>1. finals' \in Nat
      BY <1>3 DEF FinalsCounted
    <2>2. QED  BY <1>2, <2>1 DEF TInv, RestTyped
  <1>5. EndingOK'
    <2>1. ASSUME main \in {"saving", "kill", "join", "done"}, ended = "total", AtRound
          PROVE  saved'.results = results'
      <3>1. match_count >= total /\ initial_matchcount % GamesPerRound = 0
        BY <2>1, TournamentAssumption DEF TInv, EndingOK, AtRound, IInv, BInv, WholeRounds
      <3>2. UNCHANGED board
        BY <3>1, NoneLeft, GameBoard DEF IInv
      <3>3. QED  BY <2>1, <3>2 DEF TInv, EndingOK, board
    <2>2. AtRound' <=> AtRound
      BY <1>2 DEF AtRound
    <2>3. QED  BY <1>1, <1>2, <1>3, <2>1, <2>2 DEF TInv, EndingOK
  <1>6. QED  BY <1>3, <1>4, <1>5 DEF TInv

\* The main thread: the wait ends with a reason, and the saves after it keep the results.
LEMMA MainThread ==
    ASSUME IInv, TInv, mainThread \/ Interrupt \/ UNCHANGED vars
    PROVE  TInv'
  <1>1. match_count \in Nat /\ initial_matchcount \in Nat /\ total \in Nat
    BY GamesAre DEF IInv, CInv, CountingOK, GInv, GamesTyped
  <1>2. /\ UNCHANGED <<at, initial_matchcount, session, results, match_count, output_mutex, finals, lost>>
    <2>1. UNCHANGED <<at, initial_matchcount, session, results, match_count>>
      BY MainSteps, MainCounts DEF IInv, CInv
    <2>2. UNCHANGED <<output_mutex, finals, lost>>
      BY DEF mainThread, Enqueue, StartWaiting, Autosave, EndAutosave, StopWaiting, DestroyMembers,
             FinalSave, EndFinalSave, KillPool, JoinPool, Interrupt, vars, worker, history
    <2>3. QED  BY <2>1, <2>2
  <1>3. FinalsCounted'
    BY <1>2 DEF TInv, FinalsCounted, Reporting
  <1>4. AtRound' <=> AtRound
    BY <1>2 DEF AtRound
  <1>5. CASE Enqueue
    <2>1. UNCHANGED <<main, phase, stop, save_iter, alive, file, ended, saved>>
      BY <1>5 DEF Enqueue, Pool!Submit, counters, disk, history, board
    <2>2. QED  BY <1>2, <1>3, <1>4, <2>1 DEF TInv, RestTyped, EndingOK
  <1>6. CASE StartWaiting
    <2>1. /\ main' = "wait" /\ save_iter' = initial_matchcount + SaveInterval /\ main = "create"
          /\ UNCHANGED <<phase, stop, alive, file, ended, saved>>
      BY <1>6 DEF StartWaiting, pool, disk, history, board
    <2>2. save_iter' \in Nat
      BY <1>1, <2>1, TournamentAssumption
    <2>3. QED  BY <1>2, <1>3, <1>4, <2>1, <2>2 DEF TInv, RestTyped, EndingOK
  <1>7. CASE Autosave
    <2>1. /\ main = "wait" /\ main' = "autosave" /\ file' = "torn"
          /\ UNCHANGED <<phase, stop, save_iter, alive, ended>>
      BY <1>7 DEF Autosave, BeginSave, pool, counters, history
    <2>2. QED  BY <1>2, <1>3, <1>4, <2>1 DEF TInv, RestTyped, EndingOK
  <1>8. CASE EndAutosave
    <2>1. /\ main = "autosave" /\ main' = "wait" /\ file' = "written" /\ save_iter' = save_iter + SaveInterval
          /\ UNCHANGED <<phase, stop, alive, ended, saved>>
      BY <1>8 DEF EndAutosave, EndSave, pool, board, history
    <2>2. save_iter' \in Nat
      BY <2>1, TournamentAssumption DEF TInv, RestTyped
    <2>3. QED  BY <1>2, <1>3, <1>4, <2>1, <2>2 DEF TInv, RestTyped, EndingOK
  <1>9. CASE StopWaiting
    <2>1. /\ main' = "members" /\ stop' = TRUE
          /\ ended' = IF match_count >= total THEN "total" ELSE "stop"
          /\ UNCHANGED <<phase, save_iter, alive, file, saved>>
      BY <1>9 DEF StopWaiting, pool, board, counters, disk
    <2>2. QED  BY <1>2, <1>3, <1>4, <2>1 DEF TInv, RestTyped, EndingOK
  <1>10. CASE DestroyMembers
    <2>1. /\ main' = "save" /\ alive' = FALSE /\ main = "members"
          /\ UNCHANGED <<phase, stop, save_iter, file, ended, saved>>
      BY <1>10 DEF DestroyMembers, pool, board, counters, disk, history
    <2>2. QED  BY <1>2, <1>3, <1>4, <2>1 DEF TInv, RestTyped, EndingOK
  <1>11. CASE FinalSave
    <2>1. /\ main = "save" /\ main' = "saving" /\ file' = "torn" /\ saved'.results = results
          /\ UNCHANGED <<phase, stop, save_iter, alive, ended>>
      BY <1>11 DEF FinalSave, BeginSave, Board!getResults, pool, counters, history
    <2>2. QED  BY <1>2, <1>3, <1>4, <2>1 DEF TInv, RestTyped, EndingOK
  <1>12. CASE EndFinalSave
    <2>1. /\ main = "saving" /\ main' = "kill" /\ file' = "written"
          /\ UNCHANGED <<phase, stop, save_iter, alive, ended, saved>>
      BY <1>12 DEF EndFinalSave, EndSave, pool, board, counters, history
    <2>2. QED  BY <1>2, <1>3, <1>4, <2>1 DEF TInv, RestTyped, EndingOK
  <1>13. CASE KillPool
    <2>1. /\ main = "kill" /\ main' = "join" /\ phase' = "closing"
          /\ UNCHANGED <<stop, save_iter, alive, file, ended, saved>>
      BY <1>13 DEF KillPool, Pool!Kill, board, counters, disk, history
    <2>2. QED  BY <1>2, <1>3, <1>4, <2>1 DEF TInv, RestTyped, EndingOK
  <1>14. CASE JoinPool
    <2>1. /\ main = "join" /\ main' = "done" /\ phase' = "closed"
          /\ UNCHANGED <<stop, save_iter, alive, file, ended, saved>>
      BY <1>14 DEF JoinPool, Pool!Join, board, counters, disk, history
    <2>2. QED  BY <1>2, <1>3, <1>4, <2>1 DEF TInv, RestTyped, EndingOK
  <1>15. CASE Interrupt \/ UNCHANGED vars
    <2>1. /\ UNCHANGED <<main, phase, save_iter, alive, file, ended, saved>>
          /\ (stop' = stop \/ stop' = TRUE)
      BY <1>15 DEF Interrupt, vars, pool, board, counters, thread, disk, history
    <2>2. stop' \in BOOLEAN
      BY <2>1 DEF TInv, RestTyped
    <2>3. RestTyped'
      BY <1>2, <2>1, <2>2 DEF TInv, RestTyped
    <2>4. EndingOK'
      BY <1>2, <1>4, <2>1 DEF TInv, EndingOK
    <2>5. QED  BY <1>3, <2>3, <2>4 DEF TInv
  <1>16. QED
    BY <1>5, <1>6, <1>7, <1>8, <1>9, <1>10, <1>11, <1>12, <1>13, <1>14, <1>15 DEF mainThread

LEMMA RestartThread ==
    ASSUME IInv, TInv, Restart
    PROVE  TInv'
  <1> DEFINE n == GamesIn(saved.results)
  <1>1. /\ phase' = "open" /\ output_mutex' = NoWorker /\ stop' = FALSE /\ save_iter' = 0
        /\ main' = "create" /\ alive' = TRUE /\ file' = file /\ session' = session + 1
        /\ lost' = {} /\ finals' = 0 /\ ended' = "running" /\ session < MaxSessions
        /\ match_count' = n /\ initial_matchcount' = n
    BY DEF Restart, Fresh, Counted
  <1>2. n \in Nat /\ total \in Nat
    BY GamesInNat, GamesAre DEF IInv, CInv, CountingOK
  <1> HIDE DEF n
  <1>3. RestTyped'
    <2>1. session + 1 \in 1..MaxSessions
      BY <1>1, TournamentAssumption DEF RestTyped, TInv
    <2>2. stop' \in BOOLEAN /\ alive' \in BOOLEAN
      BY <1>1
    <2>3. QED  BY <1>1, <2>1, <2>2 DEF RestTyped, TInv
  <1>4. ~Reporting'
    BY <1>1, TournamentAssumption DEF Reporting
  <1>5. FinalsCounted'
    BY <1>1, <1>2, <1>4 DEF FinalsCounted
  <1>6. EndingOK'
    BY <1>1, <1>2 DEF EndingOK
  <1>7. QED  BY <1>3, <1>5, <1>6 DEF TInv

LEMMA ThreadStep == IInv /\ TInv /\ [Next]_vars => TInv'
  BY WorkerThread, MainThread, RestartThread DEF Next

\* The inductive invariant of the sessions, the callbacks, the files and the threads of a tournament.
THEOREM Invariant == Spec => [](IInv /\ TInv)
  BY InvInit, InvStep, ThreadInit, ThreadStep, PTL DEF Spec

\* Every variable has its type.
THEOREM TypeCorrect == Spec => []TypeOK
  <1>1. IInv /\ TInv => TypeOK
    BY DEF IInv, TInv, CInv, CountingOK, GInv, GamesTyped, BInv, RestTyped, TypeOK,
           Places, Callback, Kinds, Board!GameResult
  <1>2. QED  BY <1>1, Invariant, PTL

(* A tournament that plays to its end prints the final score once,         *)
(* whoever plays the last game (roundrobin.cpp:88, 94).                    *)
THEOREM FinalScorePrinted == Spec => []FinalScoreOnce
  <1>1. IInv /\ TInv => FinalScoreOnce
    BY DEF TInv, FinalsCounted, EndingOK, FinalScoreOnce
  <1>2. QED  BY <1>1, Invariant, PTL

(* The file of a complete tournament is whole and has every result         *)
(* (tournament.cpp:42-57).                                                 *)
THEOREM ResultsSaved == Spec => []SavedAll
  <1>1. IInv /\ TInv => SavedAll
    BY DEF TInv, EndingOK, AtRound, SavedAll
  <1>2. QED  BY <1>1, Invariant, PTL

(* A tournament that ends because all its games are counted has played     *)
(* them all, as long as the sessions before played the first ones          *)
(* (roundrobin.cpp:31, 106-118).                                           *)
THEOREM CompleteIsComplete == Spec => []CompleteMeansAll
  <1>1. IInv /\ TInv => CompleteMeansAll
    <2> SUFFICES ASSUME IInv, TInv, InOrder, main = "done", ended = "total"
                 PROVE  Games \subseteq Played
      BY DEF CompleteMeansAll, EveryGamePlayed, Played
    <2>1. match_count >= total /\ match_count \in Nat /\ total \in Nat
      BY GamesAre DEF TInv, EndingOK, IInv, CInv, CountingOK
    <2>2. initial_matchcount \in Nat
      BY DEF IInv, GInv, GamesTyped
    <2>3. CASE total < initial_matchcount
      <3>1. Before(initial_matchcount) = Games
        BY <2>1, <2>2, <2>3, CountBefore
      <3>2. QED  BY <3>1, InOrderIs
    <2>4. CASE initial_matchcount <= total
      <3>1. Landed \subseteq Played \cap pgn
        BY DEF IInv, BInv, Landed
      <3>2. initial_matchcount + Cardinality(Landed) <= Cardinality(Played)
        BY <2>4, <3>1, PlayedAtLeast DEF IInv
      <3>3. Cardinality(Uncounted) = Pending /\ Pending \in Nat
        BY PendingIs DEF IInv, CInv, PendingMatches, Pending
      <3>4. initial_matchcount + Cardinality(Landed) = match_count + Pending
        BY <3>3 DEF IInv, CInv, BInv, CountExact, Recorded, GamesOn
      <3>5. Played \subseteq Games /\ IsFiniteSet(Played) /\ Cardinality(Played) \in Nat
        BY FiniteGames DEF Played
      <3>6. Cardinality(Played) <= total
        BY <3>5, CountGames, FS_Subset
      <3>7. Cardinality(Played) = Cardinality(Games)
        BY <2>1, <3>2, <3>3, <3>4, <3>5, <3>6, CountGames
      <3>8. QED  BY <3>5, <3>7, CountGames, FS_Subset
    <2>5. QED  BY <2>1, <2>2, <2>3, <2>4
  <1>2. QED  BY <1>1, Invariant, PTL

\* The first session counts from nothing.
FirstCounts == session = 1 => initial_matchcount = 0

(* The first session, when it is not stopped, plays every game of every    *)
(* round (roundrobin.cpp:31, 106-118).                                     *)
THEOREM FirstSessionComplete == Spec => [](session = 1 => EveryGamePlayed)
  <1>1. Init => FirstCounts
    BY DEF Init, FirstCounts
  <1>2. FirstCounts /\ PInv /\ [Next]_vars => FirstCounts'
    <2> SUFFICES ASSUME FirstCounts, PInv, [Next]_vars PROVE FirstCounts'
      OBVIOUS
    <2>1. CASE Restart
      BY <2>1 DEF Restart, PInv, FirstCounts
    <2>2. ASSUME NEW w \in Workers, playGame(w) PROVE FirstCounts'
      BY <2>2, GameSteps DEF FirstCounts
    <2>3. CASE mainThread \/ Interrupt \/ UNCHANGED vars
      BY <2>3, MainSteps DEF FirstCounts
    <2>4. QED  BY <2>1, <2>2, <2>3 DEF Next
  <1>3. FirstCounts /\ PgnAgrees /\ IInv /\ CompleteMeansAll => (session = 1 => EveryGamePlayed)
    <2> SUFFICES ASSUME FirstCounts, PgnAgrees, IInv, CompleteMeansAll, session = 1, main = "done", ended = "total"
                 PROVE  EveryGamePlayed
      BY DEF EveryGamePlayed
    <2>1. pgn = Played /\ initial_matchcount = 0
      BY DEF PgnAgrees, Played, FirstCounts
    <2>2. Before(0) = {}
      BY GamesAre DEF Before
    <2>3. QED  BY <2>1, <2>2, InOrderIs DEF CompleteMeansAll
  <1>4. QED
    BY <1>1, <1>2, <1>3, MutexInit, MutexStep, PgnInit, PgnStep, Invariant, PgnIsTheBoard, CompleteIsComplete,
       PTL DEF Spec
=============================================================================
