# fast-chess, specified and checked

A verification development of fast-chess, the program that plays tournaments
between two chess engines. It models the program's concurrent core in TLA+,
checks it with TLC on small instances, and proves the most important facts for
all values of the parameters with TLAPS. Paths are relative to `app/src/`.

## 1. The system

| Component | State | Operations | Interacts with |
|---|---|---|---|
| `main.cpp`, `TournamentManager` | none of its own | construct, start, destroy | owns the round robin; installs the SIGINT handler |
| `RoundRobin` / `BaseTournament` (`matchmaking/tournament`) | `match_count_`, `initial_matchcount_`, `total_`, `output_mutex_`, `sprt_` | `create`, `start`, `playGame`, the finish callback, `updateSprtStatus`, `saveJson`, `setResults` | feeds the thread pool, borrows engines and cores, updates the score board, writes PGN, EPD and the saved file |
| `atomic::stop` (`globals`) | one flag, and the list of engine processes | SIGINT handler, `writeToOpenPipes`, `stopProcesses` | read and set by every thread |
| `ScoreBoard`, `Stats` | `results_`, `game_pair_cache_` | `updatePair`, `updateNonPair`, `getStats`, `getResults`, `setResults` | called by the callbacks of all workers |
| `ThreadPool` (`util`) | queue, threads, stop flag | `enqueue`, `resize`, `kill`, `work` | runs the games |
| `CachePool`, `ScopeGuard` (`util`) | engines and their `available_` | `getEntry`, `release` | lends engine processes to games |
| `AffinityManager` | processors and their `available_` | `consume`, `release` | lends a processor to a game |
| `UciEngine` (`engine`) | the UCI dialogue, its output lines | `start`, `uci`, `ucinewgame`, `position`, `go`, `isready`, `readEngine`, `refreshUci`, `quit` | one process per engine object |
| `Process` (`engine/process`) | pid, two pipes, the entry in the process list | `init`, `alive`, `restart`, `killProcess`, `readOutput`, `writeInput` | the engine; the shutdown |
| `Match`, trackers, `TimeControl`, `Player` | board, clocks, match data, draw/resign/max-move trackers | `start`, `playMove`, `adjudicate`, the status setters | two engines |
| `OpeningBook` (`book`), PGN reader | openings, offset, index | setup (read, shuffle, rotate, cut), `fetchId`, `operator[]` | the seed and the results of earlier sessions; `create` |
| `OptionsParser` (`cli`), `config`, `sanitize` | `ArgumentData`, then the two lazy configurations | one handler for each option, `loadJson`, `sanitize` | read everywhere, constant after the start; saved with the results |
| `SPRT`, `elo` | model parameters | likelihood ratio, bounds | floating point functions of the stats |
| `pgn` and `epd` builders, `output`, `logger`, `FileWriter` | text | formatting, writing | called by the tournament |
| options (`engine/option`) | the options an engine offered | parse, validate | `UciEngine` |
| `cpuinfo` | none | reads the topology of the machine | affinity manager |

What is hard here: the callbacks of all games run on the workers and meet only
in three mutexes and some atomics; the main thread polls a counter and a flag,
and destroys the objects in an order of its own; a tournament may be stopped by
SIGINT, SPRT, a crashed engine, an engine that does not start; it may be killed
and resumed from a file that is written while games run; engines are processes
that answer late, never, or with lines nobody waits for any more.

What makes each part correct:

- Score board: the score is the games' whatever their order, colours and restarts.
- Tournament: every game counted once; the counter, the board, the PGN file and
  the saved file agree; a complete tournament is complete; every session ends.
- Thread pool: no task lost, reordered or run after `kill`; no lost wake-up.
- Leases: an engine or a processor belongs to one game at a time, and is not lost.
- Engine and process: an answer belongs to the question, a timeout is a timeout,
  a restart leaves nothing behind, every process is reaped.
- Start: a tournament that starts can be played, and a saved one goes on as it was:
  the same settings, engines, results and openings.
- Match: the clock, the adjudication and the reason of the end agree with the moves.

`PROJECT.json` lists the hazards, each at its line with the properties that
would catch it.

## 2. Modules

| Module | Models | Abstract counterpart |
|---|---|---|
| `Stats` | `matchmaking/stats.hpp`: the arithmetic of `Stats` | |
| `ScoreBoard` | `matchmaking/scoreboard.hpp`, with the games and their order as history | `Tally` |
| `Tally` | | what a reader of the printed score may rely on |
| `ThreadPool` | `util/threadpool.hpp`, one step per locked block | `TaskPool` |
| `TaskPool` | | tasks in order, none after the pool closed |
| `CachePool` | `util/cache.hpp`, `util/scope_guard.hpp`, one step per entry visited | `Lease` |
| `AffinityManager` | `affinity/affinity_manager.hpp`, one step per processor visited | `Lease` |
| `GameResources` | what `playGame` borrows and in which order; composes `CachePool` and `AffinityManager` | `Lease`, twice |
| `Lease` | | a resource is with one holder at a time |
| `Tournament` | `matchmaking/tournament`, `main.cpp`, sessions; composes `ScoreBoard` and `TaskPool` | `ScoreBoard` |
| `CpuInfo` | `affinity/cpuinfo/cpuinfo_posix.hpp`: the machines of `GameResources` from their `/proc/cpuinfo` | |
| `EngineOptions` | `engine/option`: parsing, validity, recording and lookup of an engine's options | |
| `UciEngine` | `engine/uci_engine.cpp`, `engine/process/process_posix.hpp`, `globals.cpp` and the worker that uses them; uses `EngineOptions` | |
| `Processes` | the children of all threads: the semaphore of `UciEngine::start`, `restart`, `killProcess` with its `wait(nullptr)`, the destruction of the engines, `stopProcesses` | |
| `ProcessWin` | `engine/process/process_win.hpp`: a read as a thread and the wait for its future | |
| `TimeControl` | `time/timecontrol.cpp`: the clock as functions | |
| `Match` | `matchmaking/match`: a game with its trackers; uses `TimeControl`, `PgnBuilder` and `PgnReader` | |
| `PgnBuilder` | `pgn/pgn_builder.cpp`, `epd/epd_builder.hpp`: what the files keep of a game | |
| `PgnReader` | `pgn/pgn_reader.cpp`: the opening that a game of a PGN file gives | |
| `Configuration` | `types/*.hpp`: the settings with their defaults | |
| `Options` | `cli/cli.cpp`: what each option does to `ArgumentData`, and what it throws on | |
| `Sanitize` | `config/sanitize.cpp`: what is refused, what is put right | |
| `OpeningBook` | `book/opening_book.*`: reading (PGN by `PgnReader`, or EPD), shuffle, rotate, truncate, `fetchId` | |
| `Startup` | parsing, sanitizing, the construction of the tournament, saving, over several sessions; composes the four above | the book as an uninterrupted tournament goes through it |
| `ScoreBoard_proofs`, `ThreadPool_proofs`, `GameResources_proofs`, `Tournament_proofs`, `Processes_proofs`, `UciEngine_proofs`, `Match_proofs`, `Startup_proofs` | theorems about the module each is named after; those about `CachePool` are in `GameResources_proofs` | |
| `MC*` | instances for TLC | |

`Tournament` uses the pool through `TaskPool`, and `ThreadPool` is shown to
implement `TaskPool`; so the thread pool's interleavings are checked once, in
`ThreadPool`, and do not multiply those of the tournament. In the same way a
game is one step of `Tournament` with every outcome it may have (`EndGame`,
`StartFails`, `Disconnect`, `Throw`); `Match` says which outcomes there are, and
`UciEngine` what may happen between the tester and an engine inside a game.

### How state and actions correspond to the code

**ScoreBoard.** `results` is `results_` as a function on both ordered pairs of
engines (an absent key is `NoStats`); `gamePairCache` is `game_pair_cache_`;
`saved` is what `saveJson` wrote. Each public operation holds a mutex for its
whole body, so each is one step: `Record` is a finish callback
(`updatePairFirst` and `updatePairSecond` are the two branches of `updatePair`,
`updateNonPair` the other function), `getResults` a save, `setResults` a load by
a new session. `outcome` is history: what the games really were.

**ThreadPool.** One step per critical section, condition-variable operation or
atomic access: a worker is in `check`, `lock`, `wait`, `run` or `exit`; a
notification wakes one of `waiting`, and a spurious wake-up is an action of its
own. The owner's calls (`enqueue`, `resize`, `kill`, the destructor) advance
through their steps while the workers move. `workers` keeps the empty
`std::thread`s that `workers_.resize` makes.

**CachePool, AffinityManager.** `getEntry` and `consume` hold their mutex, but
`release` does not; so the walk over the entries is one step per entry, and a
release can land between any two of them. `held` and `core` are the scope guards
of the games. `cores` is `cores_`, the two groups `setupCores` fills, in the
order `consume` walks them; `setupCores` says by `LooksFirst` which orders its
loops produce. `GameResources` puts the steps of the two in the order of
`playGame`: the core, the engine with white, the one with black, and the guards in
reverse; a game whose `consume` throws ends before it has an engine.

**Tournament.** `at[w]` is where worker `w` is between taking its task and
returning from it: `begin` (the stop test), `play` (the match), `keep` (the
tests after the match, and the PGN file), `lock` (waiting for `output_mutex_`),
`record`, `print`, `sprt`, `count`, `unlock` (the finish callback). `main` is
where the main thread is in `create`, the wait, a save or the destructors, in the
order C++ runs them: `~TournamentManager`'s stop flag, the members of
`RoundRobin`, `~BaseTournament`'s `saveJson`, then `pool_`. `file` is torn
between the opening of the saved file and its end. `Restart` is a new process
with `-config`.

**Startup.** One step for each option on the command line: the handler of
`Options` applied to `argument_data`, or the end of the program where it throws.
`ApplyVariant` is the end of the parser's constructor, `Construct` is `main` from
the two sanitized configurations to the end of `BaseTournament`'s constructor,
`Create` the openings `create` fetches. A session then only counts games
(`FinishGame`), because which game it was does not matter to a count, and
saves at any time; `disk` keeps the files, and the next session may be any
command line. A file is saved whole: the torn one is in `Tournament`.

**UciEngine.** `Begin` is the test of the stop flag, `Borrow` the borrowing of the engine, after which the flag is
not looked at again; `past` counts the games between the two, so that a game can borrow an engine whose start has just failed. `pc` is where the worker is, as the routine it is in and the step
of it; the routines are parameterised by where they are called from and where
they return to, because a ping or a restart is used at several places. A line
is a message, and all that the engine says to `uci`, its option lines and `uciok`, is one; a `bestmove` carries the number of the `go` it answers, which only
the property reads. `readProcess` is three actions: `Receive` (data), `Interrupted`
(the stop flag), `TimedOut` (silence). How long a timeout is does not matter,
only against what it races: `"ping"` may give up on an engine that would still
answer (that costs a fault), the move's own timeout is the clock's, and with
`"none"` the read never gives up. The engine program reads its commands, moves,
talks, dies and freezes when it likes; what it writes to stderr may spoil a
line (`Mixed`), because both streams are read into one `current_line_`. `uci_options`
grows with every `uciok`, as in the code, up to a line that `std::stoi` throws on (`Legible`, `Throwing`); what is then left of the
`Process` object's earlier process is `process.left`, and `LeftReads` lets that process hear the same pipe. `engine.set` is how the program behind
the pipes is really set, which only the properties read.

**Processes.** `UciEngine` has one engine and every line; here are several
engines and no lines. `child` is what the kernel knows of each pid, `process_pid`
what each object believes; each system call of `killProcess` (`Unlist`, `Check`,
`Kill`, `Wait`) and of a start (`Acquire`, `Spawn`, `Push`, `Hello`, `Release`) is a step,
and `Wait` takes any dead child. A thread asleep at the semaphore wakes when
one is released. A pid is never given twice.

**Match.** One action per half-move (`playMove`) and per way a match ends; each player has the limits of its own
engine (`limits`); the
trackers are records updated as in `match.hpp`, the clocks those of `TimeControl`.
The board is reduced to what the code asks of it: whether the game is over and how,
whether a move is legal, and whether it captures or moves a pawn.
`played` is history: each move with its evaluation and time, from which the
properties recompute what the trackers should say: `ClockFair` adds up what a player
used and was given (`Spent`, `Given`), `ResignEarned` and `DrawEarned` look at the last moves. `match_data` is what `get()`
returns; `RecordAgrees` reads it as the files show it, through `Pgn`, `Epd` and back
through `PgnOpening`.

**ProcessWin.** `pc` is the thread that reads (`wait_for`, then `join` in the destructor
of the future), `future` the thread that `std::async` started. `ReadFile` returns
only for bytes.

## 3. What the runs check

| Run | Question | Shows |
|---|---|---|
| `ScoreBoard` | Is the printed score that of the games? | `ScoreExact`, `PentaExact` for all orders and results of two rounds, with a save and a reload at any point; the board implements `Tally` |
| `ScoreBoard_noswap` | Also with `-noswap`? | No: see the findings |
| `ThreadPool` | Are tasks served once, in order, and does `kill` end the pool? | `NoLostWakeup`, `EveryTaskServed`, `KillReturns`, refinement of `TaskPool` |
| `GameResources` | Is an engine or a processor ever shared or lost, an engine started beyond need, and when does a game get no core, or half of one? | `UnavailableIffHeld`, `EnginesBounded`, `NeverExhausted`, `CoresApart` (for cores of at most two processors), refinement of `Lease` by the engines (`ImplementsLease`) and by the processors (`CoresLent`) |
| `Startup` | Can what starts be played, and what was saved be resumed? | `StartsSound`, `SameOpenings`, `Resumable`, `ResultsOfTheseEngines` over three sessions of command lines |
| `Tournament` | Do sessions with everything that may stop them account for their games, and end? | the counter, the board, the PGN file, the saved file and the final report agree (`CountExact`, `PgnAgrees`, `SavedAll`, `FinalScoreOnce`); what was finished in order is resumed in order (`CompleteMeansAll`, `UsesBoard`); a session ends unless an exception lost a game (`TerminatesUnlessLost`) |
| `Tournament_outoforder` | And if the games were finished out of order? | No: see the findings |
| `UciEngine` | Does an answer belong to its question, is a (re)started engine set as its configuration says, does an interrupt always get through, is a process left, and when? | `AnswerOfTheQuestion`, `PlaysConfigured`, `WokenForGood`, `Interruptible`, `SilenceLoses`, `LeftToMain`: two games with a fault anywhere, an interrupt anywhere, also between the stop test and the borrowing, with `-recover` and without, options that are valid, invalid, unknown, of kind combo, or no number, and a spin line without its maximum |
| `UciEngine_nodes` | Is a crash noticed without a clock? | No: see the findings |
| `Processes` | Does `wait(nullptr)` always find a child, is the semaphore never idle while a thread sleeps, does no engine outlive the tester, does it end? | `EnoughDead`, `NoIdleSlot`, `NoneOutlives`, `MainReturns` |
| `ProcessWin` | Does a read with a timeout return on Windows? | No: see the findings |
| `Match` | Do verdict, adjudication, clock, PGN and EPD record agree with the moves? | `VerdictAgrees`, `ResignEarned`, `DrawEarned`, `ClockFair`, `RecordAgrees`, `EveryMatchEnds` |

### Bounds, and why they are enough

- `ScoreBoard`: two rounds of two games. One round has both orders of a pair; the
  second is there so that two half-finished pairs meet in the cache, and that
  pairs are counted under both keys. More rounds add counts, which the theorem covers.
- `ThreadPool`: `HardwareThreads` 2, so `resize` to 2 is legal and to 3 is cut
  down; `MaxThreads` 5 is what the constructor and two resizes make; `MaxTasks` 3 is more
  tasks than the workers that sleep, which a lost wake-up needs.
- `GameResources`: two workers: one walks while the other lets go; what a third
  would add, the theorems about `CachePool` cover. Both engines of a match. Six
  machines: as many processors as games on one core and on two, a hybrid, more
  than enough, too few, none. Symmetry over workers and engines; there is no liveness.
- `Startup`: a first session with any one option, any two of those that decide
  rounds, games, openings and reports, or one of the wrong beginnings sanitize is
  there for; a second that starts from a file in any of the ways `-config` has; a
  third that goes on. Books of two and three openings, more and fewer than the rounds; two
  seeds, with different shuffles. After `-rounds 0` an SPRT test plays three rounds here (`SprtRounds`), as
  `-quick` does (`QuickRounds`), and not 500000 and 25000; without `-rounds` it is the default, 2.
- `Tournament`: two rounds of two games are the smallest tournament in which a later round
  can finish before an earlier one. Two workers, two sessions, every fault, an autosave
  after the second game. `Results` has only as many results as the question tells
  apart. What a resumed session owes is claimed only where the sessions before it finished the
  first games (`InOrder`); `Tournament_outoforder` shows what happens otherwise.
- `UciEngine`: `MaxGames` 2, because what one game leaves behind is found by the
  next one; `MaxGo` 2, because a stale answer needs an earlier question;
  `MaxFaults` 1. Each fault doubles as a change of the timing of all later
  steps. One engine has a clock with moves per control, a valid option, a combo and Chess960,
  one counts nodes and is given only options that cannot be sent, one is given a spin value
  that is no number, and one prints a spin line without its maximum. The nodes run needs one game, one move and one crash.
- `Processes`: two workers and two engines, which is what makes `wait(nullptr)`
  take the wrong child and a thread sleep at a semaphore of one; three games, so that
  an engine is started again after a failed start, two restarts, one failed
  `posix_spawn`.
- `ProcessWin`: two reads, so that one follows a read that failed or timed out.
- `Match`: one configuration for each adjudication and each kind of clock, with
  values on both sides of each threshold, and at most two or three moves a side:
  enough for `movecount` 2 to be reached, to be broken in the middle, and for a
  control of two moves to be refilled. Counts of moves that ask for none, 0 and -1, which nothing refuses, for resignations,
  draws and `-maxmoves`; thresholds of 0 and above; two players with different clocks. Each with either colour to move first, from the
  first position and others, with a book of an even and an odd number of moves, in
  Chess960, and with `-pgnout min=true`.

### Fairness, and why the code justifies it

- `ThreadPool`: weak fairness of each worker and of a call in progress. The
  operating system schedules them, and a task returns. No fairness of the calls themselves:
  the owner may stop calling.
- `Tournament`: weak fairness of each worker and of the main thread. That a
  game ends is the assumption of this module, and what `UciEngine` and `Match`
  are about. The output mutex needs no strong fairness: it is free again and again
  only because other games pass through it, and those are finite in number.
  Interrupts, kills and restarts are not fair.
- `UciEngine`: weak fairness of the worker and of `writeToOpenPipes`. Nothing is
  assumed of the engine: no property rests on its answering. The timed reads give
  up by weak fairness only when the pipe is empty for good.
- `Processes`: weak fairness of each worker's and the main thread's calls, and of the death of a
  process that was sent SIGKILL, which the kernel guarantees. No engine exits by itself.
  `Command` is not fair: a game needs no more commands to end.
- `ProcessWin`: weak fairness of the timer, of the thread that waits and of the one
  that reads. The engine owes nothing; the violation is that the timer does not help.
- `Match`: weak fairness of the next step of the game, because a search ends by
  a move, a crash or a timeout; `SilenceLoses` of `UciEngine` is the reason with a
  clock, and without one it is exactly the finding `CrashNoticed`.

## 4. What is proved

All theorems hold for every value of the constants that satisfies the
module's `ASSUME`s, and the proof modules rely on nothing else.

**ScoreBoard_proofs** (any finite set of rounds). `TypeCorrect`; `ScoreCorrect`
(`ScoreExact`); `PairsClassified` (`PentaConsistent`); `PentaCorrect` (`PentaExact`);
`TallyImplemented` (`ImplementsTally`). `ScoreExact` is not inductive: it says nothing about the
half-finished pairs, which the next step moves into `results`. `IInv` adds that a
cached half is, inverted, the one played game of its round, that
the saved state is exact too, and that with pentanomial reports the colours are swapped
(`~NoSwap`), without which the theorem is false, as the run `ScoreBoard_noswap`
shows. `PairInv` adds that a cached half is a single game, so that a pair falls
into exactly one class; `PentaInv`, that the five counters under a key are the numbers of completed
pairs of the five kinds, on the board and in the saved state.

**ThreadPool_proofs** (any numbers of threads, tasks and resizes). `PoolTyped`,
`GamesInOrder` (`InOrderOnce`), `KillLeavesNobody` (`QuietAfterKill`), `WakeupsKept`
(`NoLostWakeup`), `PoolOfTasksImplemented` (`ImplementsTaskPool`). The
strengthening says that a thread sleeps exactly while the condition variable has
it and has a task exactly while it runs one (`ThreadsAgree`), that the handle of every
living thread is in `workers_`, so that `kill` joins it (`HandlesKept`), that
`stop_` is set exactly from the locked block of `kill` to the next `resize`, with an empty
queue (`StopAgrees`), and that `resize` has room for what it starts.

**GameResources_proofs** (any workers, engines and machines). First the pool by itself (`CachePool`):
`OneGamePerEngine` (`Exclusive`), `NoEngineLost` (`TypeOK /\ UnavailableIffHeld`), `PoolBounded`
(`EnginesBounded`), `PoolLends` (`ImplementsLease`). `EnginesBounded` needs two
strengthenings: `WalkBound`, that the entries the walk has passed and the workers
that hold one ahead of it are together fewer than the workers, and `EnoughSeats`,
that the entries of one engine can be given to different workers, whoever holds them now.

Then what `playGame` borrows. `ProcessorsLent` (`CoresLent`): the games implement the lease of a processor. `CoreInv` is what that
needs: a processor in use is marked and has one game, and the game that walks has
none. It says nothing of `cores`: a walk may visit what it likes, as long as it takes
only what is available. `EnginesLent` (`ImplementsLease`) and `EnginesFew`
(`EnginesBounded`) come from `GamesUsePool`: what `playGame` does to the pool are
steps of `CachePool!Spec`, so the theorems about the pool hold of it. The
specification of the pool has an assumption about its callers, `MayAsk`: nobody
asks for an engine he has, or for two at once. `StageInv` discharges it; it says for each
stage of `playGame` which engines the worker has and which it is waiting for.
`NoGameWithoutCore` (`NeverExhausted`) and `GamesApart` (`CoresApart`, which speaks of cores of at most two processors, as
`setupCores` does) do depend on `cores`:
`EachOnce` and `FirstSeats` say that a sequence `setupCores` allows visits every processor
once, and one of each physical core first. `release` takes no lock, so a
walk may pass a processor that is free again a moment later; `UseInv` bounds what it can miss. Each
processor it passed was in use by a worker that cannot get another before the walk is
over, so the number passed and the workers that hold one still ahead are together fewer than
the workers.

**Tournament_proofs** (any numbers of workers, rounds and sessions, all faults).
`Invariant`, in parts that each have their use:

- `MInv`, `CInv`: `OneCallback` (`CallbacksApart`), a worker is in the callback exactly while it
  holds the mutex, and `CounterExact` (`CountExact`). A cached
  half is one game, what is saved is well typed, and the mutex
  makes the number of uncounted games 0 or 1; a game adds one to the board as
  a half, as a pair with the half kept before, or alone, and the restart sets the
  counter to what the saved results hold.
- `PInv`: `PgnIsTheBoard` (`PgnAgrees`). In the
  first session a game in the file is on the board or between `lock` and `record`;
  when the main thread is done the pool is closed, so nobody is there.
- `GInv`: games are taken from the queue in the order of `create`, none twice, and none
  before the round at which the session began.
- `BInv`: a session puts its own games on the board, each once, and no game with a result is missing
  from the count. With `GInv` this gives `BoardRefined` (`UsesBoard`): every step is one of `ScoreBoard` or none,
  so that its theorems hold of the board of a tournament; and `CompleteIsComplete`
  (`CompleteMeansAll`): as many games counted as there are, none twice, are all of them.
  `FirstSessionComplete` is the same without a condition on earlier sessions.
- `TInv`: `TypeCorrect`, `FinalScorePrinted` (`FinalScoreOnce`) and `ResultsSaved` (`SavedAll`). The
  final score belongs to the one callback that makes the counter `total_`; what is saved after
  that is the whole board, because no game is left.

The assumptions `First # Second` and `NoGame \notin Games` are about names. `SavedAll` excepts
what the proof found: without pentanomial reports a session may resume inside a pair, plays
that pair again from its first game, and so records a game after the counter has reached `total_`.

**Processes_proofs** (any workers, engines, games, restarts and failures). `TypeCorrect`,
`AtMostSlotsAlways`, `NoIdleSlotAlways` (`NoIdleSlot`), `NoneOutlivesAlways` (`NoneOutlives`),
`EnoughDeadAlways` (`EnoughDead`). The invariant: a thread has an engine exactly where it needs one
(`Hands`); `current_` counts the threads between `acquire` and the destructor of the guard
(`AtMostSlots`); an engine whose last `init` succeeded has a pid of its own (`PidsKept`); a living
process is in the list, or in the hands of a thread about to put it there or to kill it (`Tracked`),
which makes the last `stopProcesses` reach all. `Covered` is why `wait(nullptr)`
may take any child: the threads that will take a dead one are no more than the dead whose own
thread is not to come. A thread that takes another's child leaves its own for that other.

**UciEngine_proofs** (any option lines and values, those that make `std::stoi` throw among them, and any numbers of
games, moves and faults; assumed of a line is only that it has a name, a kind and a default as texts).
`AnswersTheQuestion` (`AnswerOfTheQuestion`), `PlaysAsConfigured` (`PlaysConfigured`), `NothingLeftBehind`
(`LeftToMain`), `StaysWoken` (`WokenForGood`). Each step of the worker and of the engine is first reduced to one of a few kinds (a line
written, lines read up to a word, a read given up, a new process), and each part of the invariant is
shown for each kind. `ProcessKept`: wherever the worker is, what `is_initalized_` and the list say of
the process, and of those before it: a process is left only where a `start()` gave up, by returning false or by throwing,
because the next game's `init` of the same object forgets it or the destructor has nothing to kill; it is then in the list,
where the `stopProcesses` of `main` finds it. `ByteKept`: the byte of `writeToOpenPipes` is in the pipe only when nobody
reads any more. `OfLast` is the property; it stands on three parts that hold until something is astray or
the flag is set: a `uciok` comes after everything before it (`Shaken`), the engine owes an answer to
the last ping only (`PingsKept`), and the answer to the last `go` is in one place, the pipe to the
engine, its search, the pipe back or `output_` (`SearchKept`). So `isready` is what separates
the answers of two moves.

`PlaysConfigured` speaks of check, spin and string options, by the first line of each name. It does not speak of combo options, which
the code never sets (see the findings), nor of buttons, which have no value, and it excepts a game whose `refreshUci` returned
false or threw. It has an invariant of its own, `ConfiguredKept` (theorem `Configured`). A restarted engine prints its
options again and they are appended, so `OptionsKept` speaks of the *first* line of each name: the options
`getOption` finds are what `parseUCIOptionLine` made of those lines, with whatever value was recorded since. What may be
sent therefore depends on the lines alone (`Allowed`), not on when it is sent, and the pipe, which outlives the
process, holds only that (`CommandsKept`): a new engine that reads what the old one left unread comes to nothing
the configuration does not say. `SettingsKept` follows the loop of `refreshUci` option by option (`Mark`): an engine that reads
all its pipe is set to the last option sent for each name (`Right`), or as it was started if there is none, and the
tester has recorded the same. An engine that dies or is replaced sets `Mark` back to the beginning. `CourseKept` says where the
worker can be between two games, and what this process was told. The filter of `uciok` is a recursive
function (`optionLines`), characterised in `OptionLinesPicked` by the steps of its recursion.

**Match_proofs** (any limits of the two players, any scores, and any integers as counts of moves). `TypeCorrect`, `VerdictAgreesAlways`, `DrawEarnedAlways`,
`ResignEarnedAlways`, `RecordAgreesAlways`, `ClockFairAlways` (the properties of the same names). `Grounds` says when a game may be over, and why;
`Tracked` what each tracker counts: the moves at the end of `played` that are good for a draw
(`DrawKept`), or bad enough to resign, of both players (`BothKept`) or of each (`EachKept`); with a count of 0 or less, which nothing
refuses, the trackers ask for no moves, and so do the properties. With a resign score of 0, the default, an even
evaluation counts, and the moves counted may be the winner's.
`ClockKept` is a balance: what is left on a clock and what was used make what was given, and
at most one margin for each move more, but for the last move of a control: `updateTime` refills the clock first, so
the theorem bounds what a player has used after every move except those (`LastOfControl`). Increments, controls and the
first move of a control are each a case of one lemma, `Reckoned`. The sums of `ClockFair` are
recursive functions; what they are after one more move is shown with a
least counterexample (`LeastNatural`), from the library's theorem that the
natural numbers are well founded. `MatchAssumption` says of the configurations what `sanitize` and `parseTc` leave
possible: `st=` excludes time and increment, and a FEN is not the first position with black to move.

**Startup_proofs** (any command lines, books, seeds and sessions). `StartsSoundAlways`, `SameOpeningsAlways`,
`ResumableAlways`, `ResultsAreOfTheseEngines` (`StartsSound`, `SameOpenings`, `Resumable`,
`ResultsOfTheseEngines`). While the options are read, the invariant says of the arguments (`DataOK`) only what no option can
spoil: the settings that decide the rounds are numbers, the book is one that exists, and
results that were loaded are those of the engines, or there are engines by now that `sanitize` will
refuse (`Belong`), because more were added or two have one name. That every option keeps this is shown parameter
by parameter (`Kept`, `KeptStep`, and for the loop `ReadKeeps`). What was accepted (`Accepted`) is a fixed point of
`sanitize` (`SanitizedIsSound`); a session and every file are of that kind. `SameOpenings` is
arithmetic: the book is turned by the start and the rounds done, cut to all rounds, and indexed from zero
modulo what is left, and this is the uninterrupted book modulo its length (`OpeningOfBook`, `RemainderOfSum`).
That the uninterrupted book is worth going through is the other half (`EachOpeningOnce`): each exchange of
`shuffle` leaves a one-to-one map to the places of the file (`Shuffled`), and rounds less than the length of the book
apart have different remainders (`CloseRemainders`), so no opening comes again before all have come.
The loops are recursive functions; that they exist is shown by induction in the form of `Inductive`
(a set with 0 that is closed under the next number has them all).
`StartupAssumption` says of the command lines what the code has no guard against (section 6), that `-quick` comes
with a `cmd=`, and that the random numbers are known for every seed that may be drawn or given;
`OpeningBookAssumption`, that there is one for each exchange.

**Only model-checked.** Every liveness property (TLAPS proves none): `EveryTaskServed`, `KillReturns`,
`TerminatesUnlessLost`, `Interruptible`, `SilenceLoses`, `EveryMatchEnds`, `MainReturns`. Every invariant and every
action property of the runs is also a theorem. `CpuInfo` and `ProcessWin` are evaluated and run only; that `setupCores` is given
a machine as `CpuInfo` reads it is not part of a theorem.

## 5. Findings

Where the program does not do what its documentation says, a run of kind
"violation" has the counterexample:

1. `ScoreBoard_noswap` / `ScoreExact`: `updatePair` inverts the first game of a
   pair whether or not the colours are swapped; with `-noswap` and the default
   pentanomial reports a win is counted as a loss (`scoreboard.hpp:110`).
2. `Tournament_outoforder` / `EveryGamePlayed`: a resumed tournament starts at
   the round that the *number* of games points to, though games finish out of
   order; one pair is played twice and another never (`roundrobin.cpp:108`).
3. `UciEngine_nodes` / `CrashNoticed`: the tester keeps the write end of the pipe it
   reads, so a crash is no end of file, and with a limit of nodes or plies the read has no
   timeout (`process_posix.hpp:75`, `player.hpp:17`).
4. `ProcessWin` / `TimeoutReached`: the future of a read is destroyed when the read
   times out, which waits for the thread that is still in `ReadFile`; so a timeout ends only when the
   engine says something more (`process_win.hpp:170`).

Two disagreements that no run shows. The properties name them as exceptions, so a passing run does not say the opposite:

- **Combo options are never set.** `man:224-226` says that `option.NAME=VALUE` sets engine options. No value of a combo
  option is valid for the tester but the word "var", which parsing collects instead of the choices
  (`option_factory.hpp:45`), so such an option is not sent, and `option.NAME=var` is sent and recorded though the engine
  refuses it. The run `UciEngine` has the case; `PlaysConfigured` leaves out this kind (`Settable`).
- **The last move of a control is paid with the next control's time.** `match.cpp:253-257` and `man:199-200` take a player
  whose time is up to have lost. `updateTime` refills the clock before it subtracts (`timecontrol.cpp:31-35`), so a player who
  oversteps in that move plays on; and when the read was already given up, the missing move is called
  illegal instead of a loss on time. The run `Match` has the case; `ClockFair` says nothing of what was used by such a move
  (`LastOfControl`), until the move after it.

Noticed while modelling, without a run of their own:

- With the default `score=0`, `-resign` counts even evaluations (`match.hpp:66`). `-resign`, `-draw` and `-maxmoves`
  take a count of 0 or less (`cli.cpp:309-346`, `sanitize.cpp`). The resign tracker then asks for no moves, and the first losing
  score ends a game, even one that an engine still shows of its last game; with `-maxmoves 0` every game
  is drawn before its first move.
- The timeout of a read is one of silence: an engine that goes on printing
  is never out of time there (`process_posix.hpp:220`).
- An exception in a game is kept by the future nobody reads: the game is never counted,
  and the wait of the main thread does not end (`roundrobin.cpp:31`). `TerminatesUnlessLost`
  excepts just these.
- Setting a spin option to a text that is no number throws from
  `refreshUci`, and that game is lost as above. A spin option that is *declared* without numbers throws from
  `start`, after the process was started, and each later game starts one more; so does a game that passed the stop test before
  the engine it borrows failed to start. `LeftToMain` says that those processes are in the list, for `main` to kill.
- After a restart the options are added a second time, and the first of a name is the one
  that is used; it keeps the value recorded before the restart.
- stderr and stdout of an engine are read into the same line (`process_posix.hpp:237`): a
  message on stderr in the middle of a `bestmove` hides it. A read also drops the rest of a buffer
  after the word it looked for.
- On Windows the result of the read is not looked at: one that failed or was interrupted is
  reported as OK.
- A `/proc/cpuinfo` without "core id" (ARM) yields no processors, so every game with
  `-use-affinity` throws.
- PGN: the reason is a comment of the last move, so with `min=true`, without moves, or when the last move is one of
  the book it is not written, though `match_data.hpp:74` says it will be; `PlyCount` counts an illegal
  move; the numbers begin at 1 whatever full move number the FEN has.
- The board of the PGN reader is never told that a FEN is one of Chess960, so an opening from such a
  position ends at its first castling; the side to move that it stores is read nowhere.
- An exception after a move (a number in the output that `std::stoi` refuses)
  ends the game without a result, which the board counts as a draw.
- `restart` keeps the pipes, so a new process reads what the old one left unread.
- `Match::start` ignores what `refreshUci` returns.
- `wait(nullptr)` may reap the child of another worker. `EnoughDead` says why this is
  harmless: there are as many dead children as threads that wait. The exception is `astray`: when
  `posix_spawn` fails in a restart, the object keeps the old pid, and its next `alive()` may take a zombie that
  another thread is waiting for; that thread then waits for some other child to die.
- `discard=true` of `-config` puts back what the options before it had set up,
  engines and settings included, where the manual speaks of the results only;
  `-each` reaches only the engines before it, and `tc=` sets `st=` and `timemargin=` back
  to zero, because `parseTc` returns new limits; `-variant standard` does not undo
  an earlier `-variant fischerandom`.
- `-config file=`, `-each name=` and then `-quick book=` without a `cmd=` (`cli.cpp:547`) gives two loaded engines
  new names beside results under the old one; `src/README.md:24` shows `-quick` with its engines, and
  `StartupAssumption` asks for that.
- Without pentanomial reports a session may resume inside a pair. It plays that pair again from its first game, so one
  game may be recorded after the counter has reached `total_`; `SavedAll` excepts this.
- `-games 0` passes `sanitize` and divides by zero in the book
  (`opening_book.cpp:21`); `-quick` with fewer than two engines reads
  `configs[1]` beyond the end (`cli.cpp:547`).
- The members of `RoundRobin` are destroyed before the pool that runs its
  callbacks is joined (`roundrobin.hpp:40-45`); `Tournament!MembersOutliveCallbacks`
  states the opposite, and fails.

## 6. What is not modelled, and why

- SPRT and Elo: floating point; the verdict of the test is a free choice in `Tournament`.
- The chess rules, the PGN parser and the JSON library are third-party code; the models take what the
  code asks of them as a choice.
- Output, logger, file writer, manual, helpers: text without state that the rest of the program
  reads. The printed intervals change no state.
- Of the texts: the numbers and names in PGN and EPD files, the text of `info` lines.
- Of the processes: the second half of a line whose first half a read dropped, full pipes, the reuse of pids.
- The topology readers of Windows and macOS, and the binding of a process: system calls.
- Of the command line, what the code has no guard against: texts that are no numbers, missing parameters,
  negative counts, `-quick` before two engines are known; and the build with `USE_CUTE`.

`PROJECT.json` has the list with a reason for each.

## 7. Plan

The modules are complete as far as section 6 goes, and every invariant and action property the runs check is
proved. What is left is out of TLAPS's reach (section 4) or of the models (section 6).
