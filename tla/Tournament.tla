----------------------------- MODULE Tournament -----------------------------
(***************************************************************************)
(* The round robin between two engines: RoundRobin and BaseTournament      *)
(* (matchmaking/tournament), the objects that main() creates and destroys  *)
(* around them, and the sessions of a tournament that is saved and resumed.*)
(* The main thread feeds the pool, waits, saves and tears everything down; *)
(* the worker threads play the games and run their finish callbacks.       *)
(* The score board is the module ScoreBoard, the pool is what ThreadPool   *)
(* implements.                                                             *)
(***************************************************************************)
EXTENDS Naturals, Sequences, FiniteSets

CONSTANTS Workers, NoWorker,    \* the threads of the pool; output_mutex_ is free
          NoGame,               \* a worker without a task
          First, Second,        \* the names of the engines
          RoundCount,           \* config.rounds
          GamesPerRound, ReportPenta, NoSwap,   \* as in ScoreBoard
          Results,              \* the results of a finished game that are told apart
          SaveInterval,         \* config.autosaveinterval
          Sprt,                 \* config.sprt.enabled
          Recover,              \* config.recover
          Faults,               \* what may go wrong, see the actions named after the faults
          MaxSessions           \* bound: times the program is started

ASSUME TournamentAssumption ==
    /\ NoWorker \notin Workers
    /\ RoundCount \in Nat
    /\ First # Second
    /\ GamesPerRound \in {1, 2}
    /\ ReportPenta \in BOOLEAN /\ NoSwap \in BOOLEAN
    /\ ReportPenta => GamesPerRound = 2
    /\ SaveInterval \in Nat
    /\ Results \subseteq {"WIN", "LOSE", "DRAW", "NONE"}
    /\ Sprt \in BOOLEAN /\ Recover \in BOOLEAN
    /\ Faults \subseteq {"disconnect", "startfail", "exception", "interrupt", "kill"}
    /\ MaxSessions \in Nat \ {0}

VARIABLES results, gamePairCache, saved, outcome,   \* scoreboard_, and what saveJson wrote
          queue, playing, phase,                    \* pool_: TaskPool, the tasks are games
          at, result,          \* where each worker is in its game, and how the game ended
          output_mutex,        \* the worker that holds output_mutex_
          stop,                \* atomic::stop
          match_count, initial_matchcount,
          main,                \* where the main thread is
          schedule,            \* the games create() still has to enqueue
          save_iter,
          alive,               \* the members of RoundRobin exist
          file,                \* the saved file: "absent", "torn" or "written"
          session,             \* the number of this session
          lost,                \* history: the games that ended with an exception
          pgn,                 \* history: the games this session wrote to the PGN file
          finals,              \* history: how often the final score was printed
          ended                \* history: what ended the wait of the main thread

board == <<results, gamePairCache, saved, outcome>>
pool == <<queue, playing, phase>>
worker == <<at, result, output_mutex>>
counters == <<match_count, initial_matchcount, save_iter>>
thread == <<main, schedule, alive>>
disk == <<file, session>>
history == <<lost, pgn, finals, ended>>
vars == <<board, pool, worker, stop, counters, thread, disk, history>>

-----------------------------------------------------------------------------

Board == INSTANCE ScoreBoard WITH Rounds <- 0..(RoundCount - 1)

Games == Board!GameIds

ASSUME NoGameAssumption == NoGame \notin Games

Pool == INSTANCE TaskPool WITH
    Threads <- Workers, Tasks <- Games, NoTask <- NoGame, running <- playing

\* total_ of create(), for two engines.
total == RoundCount * GamesPerRound

\* Faulty variant of Schedule: the first game of a round twice.
ScheduleSameGame(matchcount) ==
    [n \in 1..(RoundCount * GamesPerRound) |-> <<(n - 1) \div GamesPerRound, 0>>]

\* The games create() enqueues, in its order: round k, then g, from the round at
\* which the games already counted would end if they had been played in order.
Schedule(matchcount) ==
    LET offset == matchcount \div GamesPerRound
        Remaining == IF offset < RoundCount THEN (RoundCount - offset) * GamesPerRound ELSE 0
    IN  [n \in 1..Remaining |->
            <<offset + ((n - 1) \div GamesPerRound), (n - 1) % GamesPerRound>>]

\* The games the stats of both orders of the pair account for.
GamesIn(res) == Board!GamesOf(Board!StatsOf(res, First, Second))

-----------------------------------------------------------------------------
(* A worker: one game of the pool, create_match and playGame.              *)

\* The worker takes the next game.
Fetch(w) ==
    /\ at[w] = "idle"
    /\ Pool!Start(w)
    /\ at' = [at EXCEPT ![w] = "begin"]
    /\ UNCHANGED <<board, result, output_mutex, stop, counters, thread, disk, history>>

\* The task of the worker returns.
Return(w) == Pool!Finish(w) /\ at' = [at EXCEPT ![w] = "idle"]

Step(w, from, to) == at[w] = from /\ at' = [at EXCEPT ![w] = to] /\ UNCHANGED pool

\* playGame: if (atomic::stop) return
Begin(w) ==
    /\ at[w] = "begin"
    /\ IF stop THEN Return(w) ELSE Step(w, "begin", "play")
    /\ UNCHANGED <<board, result, output_mutex, stop, counters, thread, disk, history>>

\* match.start returned: the game has a result, or it was interrupted.
EndGame(w) ==
    /\ Step(w, "play", "keep")
    /\ \E r \in Results \cup (IF stop THEN {"INTERRUPT"} ELSE {}) :
            result' = [result EXCEPT ![w] = r]
    /\ UNCHANGED <<board, output_mutex, stop, counters, thread, disk, history>>

\* An engine could not be started: match.start sets the stop flag and returns.
StartFails(w) ==
    /\ "startfail" \in Faults
    /\ Step(w, "play", "keep")
    /\ stop' = TRUE
    /\ result' = [result EXCEPT ![w] = "NONE"]
    /\ UNCHANGED <<board, output_mutex, counters, thread, disk, history>>

\* An engine crashed or disconnected, and lost: the tournament stops without the
\* game, or goes on with the engine restarted and the game counted.
Disconnect(w) ==
    /\ "disconnect" \in Faults
    /\ at[w] = "play"
    /\ IF Recover
         THEN /\ Step(w, "play", "keep")
              /\ \E r \in {"WIN", "LOSE"} : result' = [result EXCEPT ![w] = r]
              /\ UNCHANGED stop
         ELSE /\ Return(w)
              /\ stop' = TRUE
              /\ UNCHANGED result
    /\ UNCHANGED <<board, output_mutex, counters, thread, disk, history>>

\* An exception leaves playGame; the packaged_task of the pool keeps it.
Throw(w) ==
    /\ "exception" \in Faults
    /\ at[w] = "play"
    /\ Return(w)
    /\ lost' = lost \cup {playing[w]}
    /\ UNCHANGED <<board, result, output_mutex, stop, counters, thread, disk, pgn, finals, ended>>

\* Faulty variant of Keep: the game is written before the stop flag is read.
KeepWritesFirst(w) ==
    /\ at[w] = "keep"
    /\ pgn' = pgn \cup {playing[w]}
    /\ IF result[w] # "INTERRUPT" /\ ~stop THEN Step(w, "keep", "lock") ELSE Return(w)
    /\ UNCHANGED <<board, result, output_mutex, stop, counters, thread, disk, lost, finals, ended>>

\* playGame: a game that was not interrupted, and ended before the stop flag was
\* seen, is written to the PGN file.
Keep(w) ==
    /\ at[w] = "keep"
    /\ IF result[w] # "INTERRUPT" /\ ~stop
         THEN Step(w, "keep", "lock") /\ pgn' = pgn \cup {playing[w]}
         ELSE Return(w) /\ UNCHANGED pgn
    /\ UNCHANGED <<board, result, output_mutex, stop, counters, thread, disk, lost, finals, ended>>

\* finish: lock_guard(output_mutex_)
Lock(w) ==
    /\ output_mutex = NoWorker
    /\ Step(w, "lock", "record")
    /\ output_mutex' = w
    /\ UNCHANGED <<board, result, stop, counters, thread, disk, history>>

\* finish: updatePair or updateNonPair
Record(w) ==
    LET game == playing[w]
    IN  /\ Step(w, "record", "print")
        /\ Board!Update(Board!Configs(game[1], game[2]), Board!FromMatch(result[w]), game[1])
        /\ outcome' = [outcome EXCEPT ![game] = result[w]]
        /\ UNCHANGED <<saved, result, output_mutex, stop, counters, thread, disk, history>>

\* Faulty variant of Report: the final score is printed when the counter is at total_.
ReportAfter(w) ==
    /\ Step(w, "print", "sprt")
    /\ finals' = IF match_count = total THEN finals + 1 ELSE finals
    /\ UNCHANGED <<board, result, output_mutex, stop, counters, thread, disk, lost, pgn, ended>>

\* finish: the reports; of these only the last one, at match_count_ + 1 == total_, is kept.
Report(w) ==
    /\ Step(w, "print", "sprt")
    /\ finals' = IF match_count + 1 = total THEN finals + 1 ELSE finals
    /\ UNCHANGED <<board, result, output_mutex, stop, counters, thread, disk, lost, pgn, ended>>

\* updateSprtStatus: the likelihood ratio is past a bound or it is not.
updateSprtStatus(w) ==
    /\ Step(w, "sprt", "count")
    /\ \E decided \in (IF Sprt THEN BOOLEAN ELSE {FALSE}) :
            stop' = (stop \/ (Sprt /\ (decided \/ match_count = total)))
    /\ UNCHANGED <<board, result, output_mutex, counters, thread, disk, history>>

\* Faulty variants of Count: by pairs, and a pair for every game.
CountPairs(w) ==
    /\ Step(w, "count", "unlock")
    /\ match_count' = IF playing[w][1] \in DOMAIN gamePairCache THEN match_count ELSE match_count + 1
    /\ UNCHANGED <<board, result, output_mutex, stop, initial_matchcount, save_iter, thread, disk, history>>

CountTwo(w) ==
    /\ Step(w, "count", "unlock")
    /\ match_count' = match_count + 2
    /\ UNCHANGED <<board, result, output_mutex, stop, initial_matchcount, save_iter, thread, disk, history>>

\* match_count_++
Count(w) ==
    /\ Step(w, "count", "unlock")
    /\ match_count' = match_count + 1
    /\ UNCHANGED <<board, result, output_mutex, stop, initial_matchcount, save_iter, thread, disk, history>>

\* Faulty variant of Unlock: the mutex stays locked.
UnlockForgets(w) ==
    /\ at[w] = "unlock"
    /\ Return(w)
    /\ UNCHANGED <<board, result, output_mutex, stop, counters, thread, disk, history>>

\* The lock_guard and the scope guards of playGame are destroyed.
Unlock(w) ==
    /\ at[w] = "unlock"
    /\ Return(w)
    /\ output_mutex' = NoWorker
    /\ UNCHANGED <<board, result, stop, counters, thread, disk, history>>

playGame(w) ==
    \/ Fetch(w) \/ Begin(w)
    \/ EndGame(w) \/ StartFails(w) \/ Disconnect(w) \/ Throw(w)
    \/ Keep(w) \/ Lock(w) \/ Record(w) \/ Report(w) \/ updateSprtStatus(w) \/ Count(w) \/ Unlock(w)

-----------------------------------------------------------------------------
(* The main thread: start() and the destructors.                           *)

\* create: pool_.enqueue of the next game; the workers may begin at once.
Enqueue ==
    /\ main = "create"
    /\ schedule # << >>
    /\ Pool!Submit(Head(schedule))
    /\ schedule' = Tail(schedule)
    /\ UNCHANGED <<board, worker, stop, counters, main, alive, disk, history>>

\* start: the wait begins.
StartWaiting ==
    /\ main = "create"
    /\ schedule = << >>
    /\ save_iter' = initial_matchcount + SaveInterval
    /\ main' = "wait"
    /\ UNCHANGED <<board, pool, worker, stop, match_count, initial_matchcount, schedule, alive, disk, history>>

\* Faulty variant of BeginSave: the results of the save before are written.
BeginSaveStale(from, to) ==
    /\ main = from
    /\ UNCHANGED board
    /\ file' = "torn"
    /\ main' = to

\* saveJson: the results are read, and opening the file empties it.
BeginSave(from, to) ==
    /\ main = from
    /\ Board!getResults
    /\ file' = "torn"
    /\ main' = to

\* saveJson: the file is written and closed.
EndSave(from, to) == main = from /\ file' = "written" /\ main' = to

Waiting == match_count < total /\ ~stop

\* start: the autosave
Autosave ==
    /\ Waiting
    /\ SaveInterval > 0
    /\ match_count >= save_iter
    /\ BeginSave("wait", "autosave")
    /\ UNCHANGED <<pool, worker, stop, counters, schedule, alive, session, history>>

EndAutosave ==
    /\ EndSave("autosave", "wait")
    /\ save_iter' = save_iter + SaveInterval
    /\ UNCHANGED <<board, pool, worker, stop, match_count, initial_matchcount, schedule, alive, session, history>>

\* start returns, and ~TournamentManager sets the stop flag.
StopWaiting ==
    /\ main = "wait"
    /\ ~Waiting
    /\ ended' = IF match_count >= total THEN "total" ELSE "stop"
    /\ stop' = TRUE
    /\ main' = "members"
    /\ UNCHANGED <<board, pool, worker, counters, schedule, alive, disk, lost, pgn, finals>>

\* ~RoundRobin: its members total_, output_mutex_ and sprt_ are destroyed.
DestroyMembers ==
    /\ main = "members"
    /\ alive' = FALSE
    /\ main' = "save"
    /\ UNCHANGED <<board, pool, worker, stop, counters, schedule, disk, history>>

\* ~BaseTournament: saveJson
FinalSave ==
    /\ BeginSave("save", "saving")
    /\ UNCHANGED <<pool, worker, stop, counters, schedule, alive, session, history>>

EndFinalSave ==
    /\ EndSave("saving", "kill")
    /\ UNCHANGED <<board, pool, worker, stop, counters, schedule, alive, session, history>>

\* The members of BaseTournament are destroyed, pool_ before all others.
KillPool ==
    /\ main = "kill"
    /\ Pool!Kill
    /\ main' = "join"
    /\ UNCHANGED <<board, worker, stop, counters, schedule, alive, disk, history>>

JoinPool ==
    /\ main = "join"
    /\ Pool!Join
    /\ main' = "done"
    /\ UNCHANGED <<board, worker, stop, counters, schedule, alive, disk, history>>

mainThread ==
    \/ Enqueue \/ StartWaiting \/ Autosave \/ EndAutosave \/ StopWaiting
    \/ DestroyMembers \/ FinalSave \/ EndFinalSave \/ KillPool \/ JoinPool

-----------------------------------------------------------------------------

\* SIGINT: the handler sets the stop flag.
Interrupt ==
    /\ "interrupt" \in Faults
    /\ main # "done"
    /\ ~stop
    /\ stop' = TRUE
    /\ UNCHANGED <<board, pool, worker, counters, thread, disk, history>>

\* setResults: match_count_ is the sum over all stats.
Counted(res) == GamesIn(res)

\* What a session starts with, given the games already counted.
Fresh(counted) ==
    /\ queue' = << >>
    /\ playing' = [w \in Workers |-> NoGame]
    /\ phase' = "open"
    /\ at' = [w \in Workers |-> "idle"]
    /\ result' = [w \in Workers |-> "NONE"]
    /\ output_mutex' = NoWorker
    /\ stop' = FALSE
    /\ match_count' = counted
    /\ initial_matchcount' = counted
    /\ save_iter' = 0
    /\ main' = "create"
    /\ schedule' = Schedule(counted)
    /\ alive' = TRUE
    /\ lost' = {}
    /\ finals' = 0
    /\ ended' = "running"

\* The program ended or was killed and is started again with -config: loadJson
\* reads the file, a torn file stops it, and the constructors set it up.
Restart ==
    /\ session < MaxSessions
    /\ main = "done" \/ "kill" \in Faults
    /\ file # "torn"
    /\ Board!setResults
    /\ Fresh(Counted(saved.results))
    /\ session' = session + 1
    /\ pgn' = {}
    /\ UNCHANGED file

Init ==
    /\ Board!Init
    /\ Pool!Init
    /\ at = [w \in Workers |-> "idle"]
    /\ result = [w \in Workers |-> "NONE"]
    /\ output_mutex = NoWorker
    /\ stop = FALSE
    /\ match_count = 0
    /\ initial_matchcount = 0
    /\ save_iter = 0
    /\ main = "create"
    /\ schedule = Schedule(0)
    /\ alive = TRUE
    /\ file = "absent"
    /\ session = 1
    /\ lost = {}
    /\ pgn = {}
    /\ finals = 0
    /\ ended = "running"

Next ==
    \/ \E w \in Workers : playGame(w)
    \/ mainThread
    \/ Interrupt
    \/ Restart

\* Every thread is scheduled and every game ends; nothing obliges a user to
\* interrupt or to start a session.
Fairness == (\A w \in Workers : WF_vars(playGame(w))) /\ WF_vars(mainThread)

Spec == Init /\ [][Next]_vars /\ Fairness

-----------------------------------------------------------------------------

Callback == {"record", "print", "sprt", "count", "unlock"}

\* Every variable has its type.
TypeOK ==
    /\ Board!TypeOK
    /\ queue \in Seq(Games)
    /\ playing \in [Workers -> Games \cup {NoGame}]
    /\ phase \in {"open", "closing", "closed"}
    /\ at \in [Workers -> Callback \cup {"idle", "begin", "play", "keep", "lock"}]
    /\ result \in [Workers -> Board!GameResult \cup {"INTERRUPT"}]
    /\ output_mutex \in Workers \cup {NoWorker}
    /\ stop \in BOOLEAN
    /\ match_count \in Nat /\ initial_matchcount \in Nat /\ save_iter \in Nat
    /\ main \in {"create", "wait", "autosave", "members", "save", "saving", "kill", "join", "done"}
    /\ schedule \in Seq(Games)
    /\ alive \in BOOLEAN
    /\ file \in {"absent", "torn", "written"}
    /\ session \in 1..MaxSessions
    /\ lost \subseteq Games
    /\ pgn \subseteq Games
    /\ finals \in Nat
    /\ ended \in {"running", "total", "stop"}

\* The games recorded so far: those in results_ and the halves kept aside.
Recorded == GamesIn(results) + Cardinality(DOMAIN gamePairCache)

\* The workers whose game is recorded and not counted yet.
Uncounted == {w \in Workers : at[w] \in {"print", "sprt", "count"}}

\* match_count_ is the number of games on the score board, except while the one
\* callback inside output_mutex_ has recorded its game and not counted it yet
\* (roundrobin.cpp:75-100): so the score printed at match_count_ + 1 games is the
\* score of exactly that many, whatever the other workers and sessions do.
CountExact == Recorded = match_count + Cardinality(Uncounted)

\* A callback is only ever inside the mutex alone, so reports never interleave
\* and match_count_ is not counted twice (roundrobin.cpp:70-75).
CallbacksApart == Cardinality({w \in Workers : at[w] \in Callback}) <= 1

\* The session began with the first games: those on the board that it did not play itself are the ones
\* before the round at which create() resumed.
InOrder ==
    {x \in Games : outcome[x] # "unplayed"} \ pgn =
    {x \in Games : x[1] * GamesPerRound + x[2] < initial_matchcount}

\* src/man:28, "resume games from previous sessions": a tournament that ends because match_count_ reached
\* total_ has a result for every game of every round, over all its sessions.
EveryGamePlayed ==
    (main = "done" /\ ended = "total") => \A x \in Games : outcome[x] # "unplayed"

\* What the code achieves of it (roundrobin.cpp:31, 106-118): so it is after a session that was stopped or
\* killed anywhere, as long as the pairs that were saved are the first ones.
CompleteMeansAll == InOrder => EveryGamePlayed

\* A tournament that plays to its end prints the final score once
\* (roundrobin.cpp:88, 94): no callback misses it and no two take it for theirs.
FinalScoreOnce ==
    (main = "done" /\ ended = "total" /\ initial_matchcount < total) => finals = 1

\* The file a complete tournament leaves is whole and holds every result
\* (tournament.hpp:30): no callback comes after the final save.  Without report_penta
\* a session can resume inside a pair; create() then begins with the whole pair
\* again (roundrobin.cpp:108), a game too many, which may be recorded after the save.
SavedAll ==
    (main = "done" /\ ended = "total" /\ (ReportPenta \/ initial_matchcount % GamesPerRound = 0))
        => file = "written" /\ saved.results = results

\* When the first session ends the PGN file has exactly the games on the score
\* board (tournament.cpp:109-121), also when the stop flag, SPRT or a failed
\* engine cut games off at any point.
PgnAgrees ==
    (main = "done" /\ session = 1) => pgn = {x \in Games : outcome[x] # "unplayed"}

\* The tournament uses the score board as it is meant to be used: every game is recorded once, saved and
\* reloaded with the others, over all sessions that begin with the first games.
UsesBoard == Board!Init /\ [][InOrder => Board!Next]_board

\* A finish callback never uses a member of RoundRobin that is already
\* destroyed (roundrobin.hpp:40-45 against tournament.hpp:81): the pool that runs
\* the callbacks is joined only after them.
MembersOutliveCallbacks == \A w \in Workers : at[w] \in Callback \cup {"lock"} => alive

\* Every session in which no game ended with an exception ends: the wait, the
\* stop flag, the output mutex and the pool never hold each other up
\* (roundrobin.cpp:31, 75, threadpool.hpp:55-71).
TerminatesUnlessLost == []<>(main = "done" \/ lost # {})
=============================================================================
