-------------------------- MODULE UciEngine_proofs --------------------------
(***************************************************************************)
(* For any configuration and any option lines, any number of games, moves  *)
(* and faults: the bestmove that is judged answers the go before it; an    *)
(* engine that is asked for a move is set as the configuration says, combo *)
(* options apart; at the end of the tester its last process is gone and    *)
(* whatever else a start() left is in process_list; and the byte of        *)
(* writeToOpenPipes is never read away.                                    *)
(* The steps of the tester and of the engine are first reduced to a few    *)
(* kinds, by what they do to the process and to the pipes; each part of    *)
(* the inductive invariant is then shown to survive each kind.             *)
(***************************************************************************)
EXTENDS UciEngine, SequenceTheorems, WellFoundedInduction, NaturalsInduction, TLAPS

-----------------------------------------------------------------------------
(* The steps of the worker.                                                *)

\* The parts of a game, between a start() that was successful and its end.
Game == {"refresh", "restart", "ready", "move", "before", "ready?", "after", "late", "recover"}

\* The exception of uciok leaves the game.
LEMMA ThrownAt ==
    ASSUME NEW who, Thrown(who)
    PROVE  /\ pc = <<who, "thrown">> /\ pc' = Idle /\ gaveup'
           /\ UNCHANGED <<process, in_pipe, initialized, stop, main, back, config, past>>
  BY DEF Thrown, pipes

\* A command to the engine, or none.
Talks(at) ==
    /\ pc = at
    /\ process' = Reaped
    /\ UNCHANGED <<in_pipe, initialized, stop, main, back, config, past, gaveup>>

\* A read: nothing is taken once the flag is set.
Reads(at) ==
    /\ pc = at
    /\ UNCHANGED <<process, initialized, stop, main, back, config, past, gaveup>>
    /\ UNCHANGED in_pipe \/ (~stop /\ \E k \in 1..Len(in_pipe) : in_pipe' = SubSeq(in_pipe, k + 1, Len(in_pipe)))

LEMMA TellTalks ==
    ASSUME NEW at, NEW word, NEW ok, NEW bad, Tell(at, word, ok, bad)
    PROVE  Talks(at) /\ pc' \in {ok, bad}
  BY DEF Tell, Send, Talks, quiet, lending

LEMMA ReadReads ==
    ASSUME NEW at, NEW word, NEW patience, NEW ok, NEW bad, readProcess(at, word, patience, ok, bad)
    PROVE  Reads(at) /\ (pc' \in {at, bad} \/ (pc' = ok /\ ~stop))
  <1>1. CASE Receive(at, word, ok)
    BY <1>1 DEF Receive, Reads, quiet, lending
  <1>2. CASE Mixed(at)
    BY <1>2 DEF Mixed, Reads, lending
  <1>3. CASE Interrupted(at, patience, bad)
    BY <1>3 DEF Interrupted, Reads, quiet, pipes, lending
  <1>4. CASE TimedOut(at, patience, bad)
    BY <1>4 DEF TimedOut, Reads, pipes, lending
  <1>5. QED  BY <1>1, <1>2, <1>3, <1>4 DEF readProcess

LEMMA PingSteps ==
    ASSUME NEW who, NEW ok, NEW bad, isready(who, ok, bad)
    PROVE  \/ Talks(<<who, "isready">>) /\ pc' \in {<<who, "readyok">>, bad}
           \/ Reads(<<who, "readyok">>) /\ pc' \in {<<who, "readyok">>, ok, bad}
  <1>1. CASE Tell(<<who, "isready">>, "isready", <<who, "readyok">>, bad)
    BY <1>1, TellTalks
  <1>2. CASE readProcess(<<who, "readyok">>, "readyok", "ping", ok, bad)
    BY <1>2, ReadReads
  <1>3. QED  BY <1>1, <1>2 DEF isready

LEMMA NewGameSteps ==
    ASSUME NEW who, NEW ok, NEW bad, ucinewgame(who, ok, bad)
    PROVE  \/ Talks(<<who, "ucinewgame">>) /\ pc' \in {<<who, "isready">>, bad}
           \/ Talks(<<who, "isready">>) /\ pc' \in {<<who, "readyok">>, bad}
           \/ Reads(<<who, "readyok">>) /\ pc' \in {<<who, "readyok">>, ok, bad}
  <1>1. CASE Tell(<<who, "ucinewgame">>, "ucinewgame", <<who, "isready">>, bad)
    BY <1>1, TellTalks
  <1>2. CASE isready(who, ok, bad)
    BY <1>2, PingSteps
  <1>3. QED  BY <1>1, <1>2 DEF ucinewgame

LEMMA HandshakeSteps ==
    ASSUME NEW who, NEW ok, NEW bad, handshake(who, ok, bad)
    PROVE  \/ Talks(<<who, "uci">>) /\ pc' \in {<<who, "uciok">>, bad}
           \/ /\ Reads(<<who, "uciok">>)
              /\ pc' \in {<<who, "uciok">>, bad} \/ (pc' = (IF Throwing THEN <<who, "thrown">> ELSE ok) /\ ~stop)
           \/ Thrown(who)
  <1>1. CASE Tell(<<who, "uci">>, "uci", <<who, "uciok">>, bad)
    BY <1>1, TellTalks
  <1>2. CASE readProcess(<<who, "uciok">>, "uciok", "ping", IF Throwing THEN <<who, "thrown">> ELSE ok, bad)
    BY <1>2, ReadReads
  <1>3. QED  BY <1>1, <1>2 DEF handshake

\* The steps of a game: to another one of the same game, or to its end.  Those of init and killProcess are
\* apart.
Inits == {<<"restart", "spawn">>, <<"restart", "push">>, <<"restart", "reap">>, <<"restart", "thrown">>}
InGame ==
    /\ pc[1] \in Game /\ pc[2] \notin {"spawn", "push", "reap"} /\ pc # <<"restart", "unlist">>
    /\ pc'[1] \in Game \/ pc' = Idle
    /\ pc' \notin Inits
    /\ process' \in {process, Reaped}
    /\ UNCHANGED <<initialized, main, config, past, gaveup>>
    /\ back' \in {back, Idle}
    /\ UNCHANGED in_pipe \/ (~stop /\ \E k \in 1..Len(in_pipe) : in_pipe' = SubSeq(in_pipe, k + 1, Len(in_pipe)))
    /\ stop => stop'

LEMMA PingInGame ==
    ASSUME NEW who, NEW ok, NEW bad, ucinewgame(who, ok, bad), who \in Game,
           ok[1] \in Game \/ ok = Idle, bad[1] \in Game \/ bad = Idle,
           ok \notin Inits, bad \notin Inits
    PROVE  InGame
  <1>1. /\ \/ pc = <<who, "ucinewgame">> /\ pc' \in {<<who, "isready">>, bad}
           \/ pc = <<who, "isready">> /\ pc' \in {<<who, "readyok">>, bad}
           \/ pc = <<who, "readyok">> /\ pc' \in {<<who, "readyok">>, ok, bad}
        /\ Talks(pc) \/ Reads(pc)
    BY NewGameSteps DEF Talks, Reads
  <1>2. QED  BY <1>1 DEF InGame, Inits, Talks, Reads

LEMMA HandshakeInGame ==
    ASSUME handshake("restart", <<"restart", "ucinewgame">>, <<"refresh", "false">>),
           ~Throwing, pc # <<"restart", "thrown">>
    PROVE  InGame
  <1>1. /\ \/ pc = <<"restart", "uci">> /\ pc' \in {<<"restart", "uciok">>, <<"refresh", "false">>}
           \/ pc = <<"restart", "uciok">> /\ pc' \in {<<"restart", "uciok">>, <<"restart", "ucinewgame">>, <<"refresh", "false">>}
        /\ Talks(pc) \/ Reads(pc)
    BY HandshakeSteps, ThrownAt DEF Talks, Reads
  <1>2. QED  BY <1>1 DEF InGame, Inits, Talks, Reads, Game

LEMMA OptionsInGame ==
    ASSUME SetOptions
    PROVE  InGame
  <1>1. ASSUME Skip(Wanted[nth])
        PROVE  InGame
    BY <1>1 DEF Skip, setting, InGame, Inits, Game, env, lending
  <1>2. ASSUME sendSetoption(Wanted[nth])
        PROVE  InGame
    BY <1>2 DEF sendSetoption, Send, setting, InGame, Inits, Game, env, lending
  <1>3. ASSUME SetoptionThrows(Wanted[nth])
        PROVE  InGame
    BY <1>3 DEF SetoptionThrows, setting, InGame, Inits, Game, env, lending, Idle
  <1>4. CASE pc = <<"refresh", "setoption">> /\ pc' = <<"ready", "ucinewgame">> /\ UNCHANGED <<setting, process>>
    BY <1>4 DEF setting, InGame, Inits, Game, env, lending
  <1>5. QED  BY <1>1, <1>2, <1>3, <1>4 DEF SetOptions


LEMMA RefreshedInGame ==
    ASSUME Refreshed, back \in {Idle, <<"move", "loop">>}
    PROVE  InGame
  BY DEF Refreshed, stepping, pipes, lending, InGame, Inits, Game, Idle

LEMMA MoveInGame ==
    ASSUME playMove
    PROVE  InGame
  <1> USE DEF InGame, Inits, Game, Idle, Think
  <1>1. CASE GameOver \/ NextMove \/ Done \/ Late \/ InTime \/ Refilled
    <2>1. CASE GameOver
      BY <2>1 DEF GameOver, stepping, pipes, lending
    <2>2. CASE NextMove
      BY <2>2 DEF NextMove, Proceed, stepping, pipes, lending
    <2>3. CASE Done
      BY <2>3 DEF Done, Proceed, stepping, pipes, lending
    <2>4. CASE Late
      BY <2>4 DEF Late, Proceed, stepping, pipes, lending
    <2>5. CASE InTime
      BY <2>5 DEF InTime, Proceed, stepping, pipes, lending
    <2>6. CASE Refilled
      BY <2>6 DEF Refilled, pipes, lending
    <2>7. QED  BY <1>1, <2>1, <2>2, <2>3, <2>4, <2>5, <2>6
  <1>2. CASE isready("before", <<"move", "position">>, <<"move", "crash">>)
    <2>1. ucinewgame("before", <<"move", "position">>, <<"move", "crash">>)
      BY <1>2 DEF ucinewgame
    <2>2. QED  BY <2>1, PingInGame
  <1>3. CASE isready("ready?", <<"move", "go">>, <<"move", "crash">>)
    <2>1. ucinewgame("ready?", <<"move", "go">>, <<"move", "crash">>)
      BY <1>3 DEF ucinewgame
    <2>2. QED  BY <2>1, PingInGame
  <1>4. CASE isready("after", <<"move", "judge">>, <<"move", "crash">>)
    <2>1. ucinewgame("after", <<"move", "judge">>, <<"move", "crash">>)
      BY <1>4 DEF ucinewgame
    <2>2. QED  BY <2>1, PingInGame
  <1>5. CASE Tell(<<"move", "position">>, "position", <<"ready?", "isready">>, <<"move", "crash">>)
    <2>1. Talks(<<"move", "position">>) /\ pc' \in {<<"ready?", "isready">>, <<"move", "crash">>}
      BY <1>5, TellTalks
    <2>2. QED  BY <2>1 DEF Talks
  <1>6. CASE go
    BY <1>6 DEF go, Send, quiet, env, lending
  <1>7. CASE think
    <2>1. Reads(Think) /\ pc' \in {Think, <<"move", "done">>}
      BY <1>7, ReadReads DEF think
    <2>2. QED  BY <2>1 DEF Reads
  <1>8. CASE setEngineTimeoutStatus
    <2>1. ASSUME NEW ok \in {Idle, <<"late", "wait">>}, Tell(<<"late", "stop">>, "stop", ok, ok)
          PROVE  InGame
      <3>1. Talks(<<"late", "stop">>) /\ pc' = ok
        BY <2>1, TellTalks
      <3>2. QED  BY <3>1 DEF Talks
    <2>2. CASE readProcess(<<"late", "wait">>, "bestmove", "grace", Idle, Idle)
      <3>1. Reads(<<"late", "wait">>) /\ pc' \in {<<"late", "wait">>, Idle}
        BY <2>2, ReadReads
      <3>2. QED  BY <3>1 DEF Reads
    <2>3. QED  BY <1>8, <2>1, <2>2 DEF setEngineTimeoutStatus
  <1>9. QED
    BY <1>1, <1>2, <1>3, <1>4, <1>5, <1>6, <1>7, <1>8 DEF playMove

LEMMA RecoverInGame ==
    ASSUME recover
    PROVE  InGame
  <1>1. CASE Crash
    BY <1>1 DEF Crash, InGame, Inits, Game, Idle, pipes, lending
  <1>2. CASE isready("recover", Idle, <<"refresh", "ucinewgame">>)
    <2>1. ucinewgame("recover", Idle, <<"refresh", "ucinewgame">>)
      BY <1>2 DEF ucinewgame
    <2>2. QED  BY <2>1, PingInGame DEF Game, Idle, Inits
  <1>3. QED  BY <1>1, <1>2 DEF recover

-----------------------------------------------------------------------------
(* Everything the tester and the engine do, by what it does to the process, *)
(* to the pipe the tester reads, and to where the worker is.               *)

\* The start of an engine, up to the game.
InStart ==
    /\ \/ /\ pc = <<"start", "engine">> /\ pc' = <<"start", IF initialized THEN "done" ELSE "spawn">>
          /\ UNCHANGED <<initialized, gaveup>>
       \/ /\ pc = <<"start", "uci">> /\ pc' \in {<<"start", "uciok">>, <<"start", "failed">>}
          /\ UNCHANGED <<initialized, gaveup>>
       \/ /\ pc = <<"start", "uciok">>
          /\ \/ pc' \in {<<"start", "uciok">>, <<"start", "failed">>}
             \/ pc' = <<"start", IF Throwing THEN "thrown" ELSE "done">> /\ ~stop
          /\ UNCHANGED <<initialized, gaveup>>
       \/ /\ pc = <<"start", "failed">> /\ pc' = Idle /\ stop' /\ gaveup' /\ UNCHANGED initialized
       \/ /\ pc = <<"start", "thrown">> /\ pc' = Idle /\ gaveup' /\ UNCHANGED initialized
       \/ /\ pc = <<"start", "done">> /\ pc' \in {Idle, <<"refresh", "ucinewgame">>} /\ initialized'
          /\ UNCHANGED gaveup
    /\ process' \in {process, Reaped}
    /\ UNCHANGED <<main, config, past>>
    /\ back' \in {back, <<"move", "loop">>}
    /\ UNCHANGED in_pipe \/ (~stop /\ \E k \in 1..Len(in_pipe) : in_pipe' = SubSeq(in_pipe, k + 1, Len(in_pipe)))
    /\ stop => stop'

\* No process, or one that was killed.
Gone == process.state = "none" /\ ~process.listed

\* init and killProcess.
InInit(who, bad) ==
    /\ \/ /\ pc = <<who, "spawn">> /\ pc' = <<who, "push">>
          /\ process' = [state |-> "alive", is_initalized |-> TRUE, startup_error |-> FALSE, listed |-> FALSE,
                          left |-> IF Gone THEN process.left ELSE process.left \cup {process.listed}]
       \/ /\ pc = <<who, "spawn">> /\ pc' = bad
          /\ process' = [process EXCEPT !.is_initalized = TRUE, !.startup_error = TRUE]
       \/ /\ pc = <<who, "push">> /\ pc' = <<who, "uci">>
          /\ process' = [process EXCEPT !.listed = TRUE]
    /\ UNCHANGED <<in_pipe, initialized, main, stop, back, config, past, gaveup>>

InKill(who, ok) ==
    /\ \/ /\ pc = <<who, "unlist">> /\ pc' = ok
          /\ process.startup_error \/ ~process.is_initalized
          /\ process' = [process EXCEPT !.is_initalized = FALSE]
       \/ /\ pc = <<who, "unlist">> /\ pc' = <<who, "reap">>
          /\ ~(process.startup_error \/ ~process.is_initalized)
          /\ process' = [process EXCEPT !.listed = FALSE]
       \/ /\ pc = <<who, "reap">> /\ pc' = ok
          /\ process' = [process EXCEPT !.state = "none", !.is_initalized = FALSE]
    /\ UNCHANGED <<in_pipe, initialized, main, stop, back, config, past, gaveup>>

\* The end of the tester: quit.
InQuit ==
    /\ main = "destroying" /\ pc = Idle /\ pc' = <<"quit", "unlist">>
    /\ process' \in {process, Reaped}
    /\ UNCHANGED <<in_pipe, initialized, main, stop, back, config, past, gaveup>>

LEMMA InitInit ==
    ASSUME NEW who, NEW bad, init(who, bad)
    PROVE  InInit(who, bad)
  BY DEF init, Spawn, SpawnFails, Push, elsewhere, pipes, lending, Gone, InInit

LEMMA KillKill ==
    ASSUME NEW who, NEW ok, killProcess(who, ok)
    PROVE  InKill(who, ok)
  BY DEF killProcess, Unlist, Reap, elsewhere, pipes, lending, InKill

LEMMA StartStart ==
    ASSUME start
    PROVE  InStart \/ InInit("start", <<"start", "failed">>)
  <1>1. CASE Proceed(<<"start", "engine">>, <<"start", "done">>) /\ initialized
    BY <1>1 DEF Proceed, stepping, pipes, lending, InStart
  <1>2. CASE Proceed(<<"start", "engine">>, <<"start", "spawn">>) /\ ~initialized
    BY <1>2 DEF Proceed, stepping, pipes, lending, InStart
  <1>3. CASE init("start", <<"start", "failed">>)
    BY <1>3, InitInit
  <1>4. CASE handshake("start", <<"start", "done">>, <<"start", "failed">>)
    <2>1. \/ /\ pc = <<"start", "uci">> /\ pc' \in {<<"start", "uciok">>, <<"start", "failed">>}
             /\ Talks(pc)
          \/ /\ pc = <<"start", "uciok">>
             /\ \/ pc' \in {<<"start", "uciok">>, <<"start", "failed">>}
                \/ pc' = (IF Throwing THEN <<"start", "thrown">> ELSE <<"start", "done">>) /\ ~stop
             /\ Reads(pc)
          \/ Thrown("start")
      BY <1>4, HandshakeSteps DEF Talks, Reads
    <2>2. CASE Thrown("start")
      BY <2>2, ThrownAt DEF InStart
    <2>3. CASE Talks(pc) /\ pc = <<"start", "uci">> /\ pc' \in {<<"start", "uciok">>, <<"start", "failed">>}
      BY <2>3 DEF InStart, Talks
    <2>4. CASE /\ pc = <<"start", "uciok">>
               /\ \/ pc' \in {<<"start", "uciok">>, <<"start", "failed">>}
                  \/ pc' = (IF Throwing THEN <<"start", "thrown">> ELSE <<"start", "done">>) /\ ~stop
               /\ Reads(pc)
      BY <2>4 DEF InStart, Reads
    <2>5. QED  BY <2>1, <2>2, <2>3, <2>4
  <1>5. CASE StartFails
    BY <1>5 DEF StartFails, stepping, pipes, InStart
  <1>6. CASE Started
    BY <1>6 DEF Started, stepping, pipes, lending, InStart
  <1>7. QED  BY <1>1, <1>2, <1>3, <1>4, <1>5, <1>6 DEF start

LEMMA QuitQuit ==
    ASSUME Destroy
    PROVE  InQuit \/ InKill("quit", Over)
  <1>1. ASSUME Tell(Idle, "quit", <<"quit", "unlist">>, <<"quit", "unlist">>), main = "destroying"
        PROVE  InQuit
    <2>1. Talks(Idle) /\ pc' = <<"quit", "unlist">>
      BY <1>1, TellTalks
    <2>2. QED  BY <1>1, <2>1 DEF InQuit, Talks
  <1>2. CASE Proceed(Idle, <<"quit", "unlist">>) /\ main = "destroying"
    BY <1>2 DEF Proceed, stepping, pipes, lending, InQuit
  <1>3. QED  BY <1>1, <1>2, KillKill DEF Destroy

LEMMA WorkerSteps ==
    ASSUME Worker, back \in {Idle, <<"move", "loop">>}, pc[1] \in Game => ~Throwing, pc # <<"restart", "thrown">>
    PROVE  \/ Begin \/ Borrow \/ InStart \/ InGame \/ InQuit
           \/ InInit("start", <<"start", "failed">>) \/ InInit("restart", <<"restart", "uci">>)
           \/ InKill("restart", <<"restart", "spawn">>) \/ InKill("quit", Over)
  <1>1. CASE refreshUci
    <2>1. CASE ucinewgame("refresh", <<"refresh", "setoption">>, <<"restart", "unlist">>)
      BY <2>1, PingInGame DEF Game, Inits
    <2>2. CASE killProcess("restart", <<"restart", "spawn">>)
      BY <2>2, KillKill
    <2>3. CASE init("restart", <<"restart", "uci">>)
      BY <2>3, InitInit
    <2>4. CASE handshake("restart", <<"restart", "ucinewgame">>, <<"refresh", "false">>)
      <3>1. pc[1] \in Game
        BY <2>4, HandshakeSteps, ThrownAt DEF Talks, Reads, Game
      <3>2. QED  BY <2>4, <3>1, HandshakeInGame
    <2>5. CASE ucinewgame("restart", <<"refresh", "setoption">>, <<"refresh", "false">>)
      BY <2>5, PingInGame DEF Game, Inits
    <2>6. CASE SetOptions
      BY <2>6, OptionsInGame
    <2>7. CASE ucinewgame("ready", <<"refresh", "true">>, <<"refresh", "false">>)
      BY <2>7, PingInGame DEF Game, Inits
    <2>8. CASE Refreshed
      BY <2>8, RefreshedInGame
    <2>9. QED  BY <1>1, <2>1, <2>2, <2>3, <2>4, <2>5, <2>6, <2>7, <2>8 DEF refreshUci
  <1>2. QED  BY <1>1, StartStart, MoveInGame, RecoverInGame, QuitQuit DEF Worker

\* The engine, or one that was left, reads, moves, talks, dies or freezes: the tester is where it was.
InEngine ==
    /\ UNCHANGED <<pc, initialized, main, stop, back, config, past, gaveup>>
    /\ process' = process \/ (Alive /\ process' = [process EXCEPT !.state = "exited"])

LEMMA EngineSteps ==
    ASSUME EngineProgram
    PROVE  InEngine
  BY DEF EngineProgram, LeftReads, EngineReads, EngineMoves, EngineTalks, EngineDies, EngineFreezes, InEngine, tester,
         lending, pipes

\* The engine's state, where init and killProcess leave it, and what the worker may rely on.
Up == process.is_initalized /\ ~process.startup_error
Entry == [state : {"none", "alive", "exited"}, is_initalized : BOOLEAN, startup_error : BOOLEAN,
          listed : BOOLEAN, left : SUBSET BOOLEAN]

\* A start() that gave up leaves the process to the next one.
Left == gaveup /\ process.listed

ObjectKept ==
    /\ process \in Entry
    /\ Up \/ Gone \/ (Left /\ process.startup_error)
    /\ process.left \subseteq {TRUE} /\ (process.left # {} => gaveup)

StartKept ==
    /\ back \in {Idle, <<"move", "loop">>}
    /\ pc[1] \in Game => initialized
    /\ pc \in {<<"start", "spawn">>, <<"start", "push">>, <<"start", "uci">>, <<"start", "uciok">>, <<"start", "failed">>,
               <<"start", "thrown">>} => ~initialized
    /\ gaveup \/ Throwing => ~initialized /\ pc # <<"start", "done">>
    /\ gaveup => stop \/ Throwing
    /\ pc \in {<<"start", "thrown">>, <<"restart", "thrown">>} => Throwing

PlaceKept ==
    /\ pc = <<"restart", "spawn">> => Gone
    /\ pc \in {Idle, <<"start", "engine">>, <<"start", "spawn">>} /\ ~initialized => Gone \/ Left
    /\ pc \in {<<"start", "uci">>, <<"start", "uciok">>, <<"start", "thrown">>} => process.listed
    /\ pc = <<"start", "failed">> => process.listed \/ Gone
    /\ pc \in {<<"start", "push">>, <<"restart", "push">>} => Up
    /\ pc \in {<<"restart", "reap">>, <<"quit", "reap">>} => ~process.listed /\ Up
    /\ pc = Over => ~process.is_initalized /\ (Gone \/ (Left /\ process.startup_error))

ProcessKept == ObjectKept /\ StartKept /\ PlaceKept

\* The configuration is the same, and the engine plays no game with one that makes uciok throw.
LEMMA ThrowingKept ==
    ASSUME config' = config
    PROVE  Throwing' <=> Throwing
  BY DEF Throwing, Malformed

LEMMA KeptInit ==
    ASSUME Init
    PROVE  ProcessKept
  <1>1. process = [state |-> "none", is_initalized |-> FALSE, startup_error |-> FALSE, listed |-> FALSE, left |-> {}]
    BY DEF Init
  <1>2. pc = <<"worker", "idle">> /\ back = Idle /\ ~gaveup /\ ~initialized
    BY DEF Init, Idle
  <1>3. process \in Entry
    BY <1>1 DEF Entry
  <1>4. Gone /\ ~process.is_initalized /\ process.left = {}
    BY <1>1 DEF Gone
  <1>5. QED  BY <1>2, <1>3, <1>4 DEF ProcessKept, ObjectKept, StartKept, PlaceKept, Game, Over, Idle

\* A process that is gone stays gone, and one that is up stays up, while nobody starts or kills it.
LEMMA ReapedKept ==
    ASSUME process \in Entry, process' \in {process, Reaped}
    PROVE  /\ process' \in Entry
           /\ Up' = Up /\ (Gone => Gone') /\ process'.listed = process.listed
           /\ process'.is_initalized = process.is_initalized /\ process'.startup_error = process.startup_error
           /\ process'.left = process.left
  BY DEF Reaped, Up, Gone, Entry

\* The engine may have gone out.
LEMMA ExitedKept ==
    ASSUME process \in Entry, Alive, process' = [process EXCEPT !.state = "exited"]
    PROVE  /\ process' \in Entry /\ ~Gone
           /\ Up' = Up /\ process'.listed = process.listed /\ process'.left = process.left
           /\ process'.is_initalized = process.is_initalized /\ process'.startup_error = process.startup_error
  BY DEF Alive, Up, Gone, Entry

LEMMA InitKept ==
    ASSUME ProcessKept, NEW who \in {"start", "restart"}, NEW bad, InInit(who, bad),
           bad = IF who = "start" THEN <<"start", "failed">> ELSE <<"restart", "uci">>
    PROVE  ProcessKept'
  <1> USE DEF ProcessKept, ObjectKept, StartKept, PlaceKept, Game, Idle, Over
  <1>1. UNCHANGED <<initialized, stop, back, config, gaveup>> /\ (Throwing' <=> Throwing)
    BY ThrowingKept DEF InInit
  <1>2. CASE /\ pc = <<who, "spawn">> /\ pc' = <<who, "push">>
             /\ process' = [state |-> "alive", is_initalized |-> TRUE, startup_error |-> FALSE, listed |-> FALSE,
                            left |-> IF Gone THEN process.left ELSE process.left \cup {process.listed}]
    <2>1. /\ process' \in Entry /\ Up'
          /\ process'.left = IF Gone THEN process.left ELSE process.left \cup {process.listed}
      BY <1>2 DEF Entry, Up
    <2>2. Gone \/ Left
      BY <1>2
    <2>3. process'.left \subseteq {TRUE} /\ (process'.left # {} => gaveup)
      BY <2>1, <2>2 DEF Left
    <2>4. QED  BY <1>1, <1>2, <2>1, <2>3
  <1>3. CASE /\ pc = <<who, "spawn">> /\ pc' = bad
             /\ process' = [process EXCEPT !.is_initalized = TRUE, !.startup_error = TRUE]
    <2>1. /\ process' \in Entry /\ (Gone' <=> Gone) /\ (Left' <=> Left) /\ process'.startup_error
          /\ process'.left = process.left /\ process'.listed = process.listed
      BY <1>1, <1>3 DEF Entry, Gone, Left
    <2>2. CASE who = "start"
      <3>1. pc' = <<"start", "failed">> /\ ~initialized /\ (Gone \/ Left)
        BY <1>3, <2>2
      <3>2. QED  BY <1>1, <2>1, <3>1 DEF Left
    <2>3. CASE who = "restart"
      <3>1. pc' = <<"restart", "uci">> /\ initialized /\ Gone
        BY <1>3, <2>3
      <3>2. QED  BY <1>1, <2>1, <3>1
    <2>4. QED  BY <2>2, <2>3
  <1>4. CASE pc = <<who, "push">> /\ pc' = <<who, "uci">> /\ process' = [process EXCEPT !.listed = TRUE]
    <2>1. process' \in Entry /\ Up' /\ process'.left = process.left /\ process'.listed
      BY <1>4 DEF Entry, Up
    <2>2. QED  BY <1>1, <1>4, <2>1
  <1>5. QED  BY <1>2, <1>3, <1>4 DEF InInit

LEMMA KillKept ==
    ASSUME ProcessKept, NEW who \in {"restart", "quit"}, NEW ok, InKill(who, ok),
           ok = IF who = "restart" THEN <<"restart", "spawn">> ELSE Over
    PROVE  ProcessKept'
  <1> USE DEF ProcessKept, ObjectKept, StartKept, PlaceKept, Game, Idle, Over
  <1>1. UNCHANGED <<initialized, stop, back, config, gaveup>> /\ (Throwing' <=> Throwing)
    BY ThrowingKept DEF InKill
  <1>2. CASE /\ pc = <<who, "unlist">> /\ pc' = ok
             /\ process.startup_error \/ ~process.is_initalized
             /\ process' = [process EXCEPT !.is_initalized = FALSE]
    <2>1. /\ process' \in Entry /\ (Gone' <=> Gone) /\ (Left' <=> Left) /\ process'.startup_error = process.startup_error
          /\ process'.left = process.left /\ process'.listed = process.listed /\ ~process'.is_initalized
      BY <1>1, <1>2 DEF Entry, Gone, Left
    <2>2. Gone \/ (Left /\ process.startup_error)
      BY <1>2 DEF Up
    <2>3. CASE who = "restart"
      <3>1. pc' = <<"restart", "spawn">> /\ initialized /\ Gone
        BY <1>2, <2>2, <2>3 DEF Left
      <3>2. QED  BY <1>1, <2>1, <3>1
    <2>4. CASE who = "quit"
      BY <1>1, <1>2, <2>1, <2>2, <2>4
    <2>5. QED  BY <2>3, <2>4
  <1>3. CASE /\ pc = <<who, "unlist">> /\ pc' = <<who, "reap">>
             /\ ~(process.startup_error \/ ~process.is_initalized)
             /\ process' = [process EXCEPT !.listed = FALSE]
    <2>1. process' \in Entry /\ Up' /\ process'.left = process.left /\ ~process'.listed
      BY <1>3 DEF Entry, Up
    <2>2. CASE who = "restart"
      BY <1>1, <1>3, <2>1, <2>2
    <2>3. CASE who = "quit"
      BY <1>1, <1>3, <2>1, <2>3
    <2>4. QED  BY <2>2, <2>3
  <1>4. CASE /\ pc = <<who, "reap">> /\ pc' = ok
             /\ process' = [process EXCEPT !.state = "none", !.is_initalized = FALSE]
    <2>1. process' \in Entry /\ Gone' /\ process'.left = process.left /\ ~process'.is_initalized
      BY <1>4 DEF Entry, Gone
    <2>2. CASE who = "restart"
      BY <1>1, <1>4, <2>1, <2>2
    <2>3. CASE who = "quit"
      BY <1>1, <1>4, <2>1, <2>3
    <2>4. QED  BY <2>2, <2>3
  <1>5. QED  BY <1>2, <1>3, <1>4 DEF InKill

LEMMA KeptStep ==
    ASSUME ProcessKept, [Next]_vars
    PROVE  ProcessKept'
  <1> USE DEF ProcessKept, ObjectKept, StartKept, PlaceKept, Game, Idle, Over
  <1>1. CASE UNCHANGED vars \/ Begin
    <2>1. UNCHANGED <<process, pc, back, initialized, stop, config, gaveup>>
      BY <1>1 DEF vars, history, lending, Begin
    <2>2. Throwing' <=> Throwing
      BY <2>1, ThrowingKept
    <2>3. QED  BY <2>1, <2>2 DEF Up, Gone, Left
  <1>2. CASE Borrow
    <2>1. pc = Idle /\ pc' = <<"start", "engine">> /\ UNCHANGED <<process, initialized, back, stop, config, gaveup>>
      BY <1>2 DEF Borrow
    <2>2. Throwing' <=> Throwing
      BY <2>1, ThrowingKept
    <2>3. QED  BY <2>1, <2>2 DEF Up, Gone, Left
  <1>3. CASE InStart
    <2>1. /\ process' \in Entry
          /\ Up' = Up /\ (Gone => Gone') /\ process'.listed = process.listed
          /\ process'.startup_error = process.startup_error /\ process'.left = process.left
      BY <1>3, ReapedKept DEF InStart
    <2>2. Throwing' <=> Throwing
      BY <1>3, ThrowingKept DEF InStart
    <2>3. CASE pc = <<"start", "engine">> /\ UNCHANGED <<initialized, gaveup>>
               /\ pc' = <<"start", IF initialized THEN "done" ELSE "spawn">>
      BY <1>3, <2>1, <2>2, <2>3 DEF InStart, Left
    <2>4. CASE /\ pc \in {<<"start", "uci">>, <<"start", "uciok">>} /\ UNCHANGED <<initialized, gaveup>>
               /\ \/ pc' \in {<<"start", "uciok">>, <<"start", "failed">>}
                  \/ pc' = <<"start", IF Throwing THEN "thrown" ELSE "done">> /\ ~stop
      <3>1. (stop => stop') /\ back' \in {back, <<"move", "loop">>} /\ (Left' <=> Left)
        BY <1>3, <2>1, <2>4 DEF InStart, Left
      <3>2. CASE pc' \in {<<"start", "uciok">>, <<"start", "failed">>}
        <4>1. ObjectKept'
          BY <2>1, <2>2, <2>4, <3>1, <3>2
        <4>2. StartKept'
          BY <2>1, <2>2, <2>4, <3>1, <3>2
        <4>3. PlaceKept'
          BY <2>1, <2>2, <2>4, <3>1, <3>2
        <4>4. QED  BY <4>1, <4>2, <4>3
      <3>3. CASE pc' = <<"start", IF Throwing THEN "thrown" ELSE "done">> /\ ~stop
        BY <2>1, <2>2, <2>4, <3>1, <3>3
      <3>4. QED  BY <2>4, <3>2, <3>3
    <2>5. CASE pc \in {<<"start", "failed">>, <<"start", "thrown">>} /\ pc' = Idle /\ gaveup' /\ UNCHANGED initialized
      <3>1. /\ (stop => stop') /\ back' \in {back, <<"move", "loop">>} /\ ~initialized
            /\ pc = <<"start", "failed">> => stop'
        <4>1. (stop => stop') /\ back' \in {back, <<"move", "loop">>}
          BY <1>3 DEF InStart
        <4>2. ~initialized
          BY <2>5
        <4>3. ASSUME pc = <<"start", "failed">>
              PROVE  stop'
          BY <1>3, <4>3 DEF InStart
        <4>4. QED  BY <4>1, <4>2, <4>3
      <3>2. Gone' \/ Left'
        BY <2>1, <2>5 DEF Left
      <3>3. Left => Left'
        BY <2>1, <2>5 DEF Left
      <3>4. QED  BY <2>1, <2>2, <2>5, <3>1, <3>2, <3>3
    <2>6. CASE pc = <<"start", "done">> /\ pc' \in {Idle, <<"refresh", "ucinewgame">>} /\ initialized' /\ UNCHANGED gaveup
      <3>1. (stop => stop') /\ back' \in {back, <<"move", "loop">>} /\ ~gaveup /\ ~Throwing
        BY <1>3, <2>6 DEF InStart
      <3>2. QED
        <4>1. ObjectKept'
          BY <2>1, <2>2, <2>6, <3>1 DEF Left
        <4>2. StartKept'
          BY <2>1, <2>2, <2>6, <3>1 DEF Left
        <4>3. PlaceKept'
          BY <2>1, <2>2, <2>6, <3>1 DEF Left
        <4>4. QED  BY <4>1, <4>2, <4>3
    <2>7. QED  BY <1>3, <2>3, <2>4, <2>5, <2>6 DEF InStart
  <1>4. CASE InGame
    <2>1. /\ process' \in Entry
          /\ Up' = Up /\ (Gone => Gone') /\ process'.listed = process.listed
          /\ process'.startup_error = process.startup_error /\ process'.left = process.left
      BY <1>4, ReapedKept DEF InGame
    <2>2. Throwing' <=> Throwing
      BY <1>4, ThrowingKept DEF InGame
    <2>3. /\ pc[1] \in Game /\ (pc'[1] \in Game \/ pc' = Idle) /\ pc' \notin Inits /\ (stop => stop')
          /\ UNCHANGED <<initialized, gaveup>> /\ back' \in {back, Idle}
      BY <1>4 DEF InGame
    <2>4. initialized /\ ~gaveup
      BY <2>3
    <2>5. Up' \/ Gone'
      BY <2>1, <2>4 DEF Left
    <2>6. pc' # Over /\ pc'[1] # "start" /\ pc'[1] # "quit"
      BY <2>3
    <2>7. QED
      <3>1. ObjectKept'
        BY <2>1, <2>2, <2>3, <2>4, <2>5, <2>6 DEF Inits
      <3>2. StartKept'
        BY <2>1, <2>2, <2>3, <2>4, <2>5, <2>6 DEF Inits
      <3>3. PlaceKept'
        BY <2>1, <2>2, <2>3, <2>4, <2>5, <2>6 DEF Inits
      <3>4. QED  BY <3>1, <3>2, <3>3
  <1>5. CASE InQuit
    <2>1. /\ process' \in Entry
          /\ Up' = Up /\ (Gone => Gone') /\ process'.listed = process.listed
          /\ process'.startup_error = process.startup_error /\ process'.left = process.left
      BY <1>5, ReapedKept DEF InQuit
    <2>2. Throwing' <=> Throwing
      BY <1>5, ThrowingKept DEF InQuit
    <2>3. QED  BY <1>5, <2>1, <2>2 DEF InQuit, Left
  <1>6. CASE InInit("start", <<"start", "failed">>) \/ InInit("restart", <<"restart", "uci">>)
    BY <1>6, InitKept
  <1>7. CASE InKill("restart", <<"restart", "spawn">>) \/ InKill("quit", Over)
    BY <1>7, KillKept
  <1>8. CASE writeToOpenPipes \/ Stop
    <2>1. UNCHANGED <<process, pc, back, initialized, config, gaveup>> /\ (stop => stop')
      <3>1. CASE writeToOpenPipes
        BY <3>1 DEF writeToOpenPipes, lending
      <3>2. CASE Stop
        BY <3>2 DEF Stop, lending
      <3>3. QED  BY <1>8, <3>1, <3>2
    <2>2. Throwing' <=> Throwing
      BY <2>1, ThrowingKept
    <2>3. QED  BY <2>1, <2>2 DEF Up, Gone, Left
  <1>9. CASE InEngine
    <2>1. UNCHANGED <<pc, back, initialized, stop, config, gaveup>> /\ (Throwing' <=> Throwing)
      BY <1>9, ThrowingKept DEF InEngine
    <2>2. CASE process' = process
      BY <2>1, <2>2 DEF Up, Gone, Left
    <2>3. CASE Alive /\ process' = [process EXCEPT !.state = "exited"]
      BY <2>1, <2>3, ExitedKept DEF Left
    <2>4. QED  BY <1>9, <2>2, <2>3 DEF InEngine
  <1>10. CASE Worker
    <2>1. (pc[1] \in Game => ~Throwing) /\ pc # <<"restart", "thrown">>
      OBVIOUS
    <2>2. QED  BY <1>1, <1>2, <1>3, <1>4, <1>5, <1>6, <1>7, <1>10, <2>1, WorkerSteps
  <1>11. QED
    BY <1>1, <1>8, <1>9, <1>10, EngineSteps DEF Next

\* The configuration is read once.
LEMMA ConfigStep ==
    ASSUME ProcessKept, [Next]_vars
    PROVE  config' = config
  <1>1. CASE Worker
    <2>1. /\ back \in {Idle, <<"move", "loop">>} /\ (pc[1] \in Game => ~Throwing)
          /\ pc # <<"restart", "thrown">>
      BY DEF ProcessKept, StartKept, Game
    <2>2. QED  BY <1>1, <2>1, WorkerSteps DEF Begin, Borrow, InStart, InGame, InQuit, InInit, InKill
  <1>2. CASE EngineProgram
    BY <1>2, EngineSteps DEF InEngine
  <1>3. CASE writeToOpenPipes
    BY <1>3 DEF writeToOpenPipes
  <1>4. CASE Stop \/ UNCHANGED vars
    BY <1>4 DEF Stop, vars
  <1>5. QED  BY <1>1, <1>2, <1>3, <1>4 DEF Next

-----------------------------------------------------------------------------
(* The same steps by what they do to the pipes and to the search.          *)

\* A line.
Text == [say : Commands \cup Lines, n : Nat]

\* The lines of a pipe that say the word.
At(pipe, word) == {i \in DOMAIN pipe : Says(pipe[i], word)}

\* Between a go and the end of its move.
Judging == {<<"move", "judge">>, <<"late", "stop">>, <<"late", "wait">>}
Searching == {Think, <<"move", "done">>, <<"after", "isready">>, <<"after", "readyok">>, <<"move", "crash">>} \cup Judging

\* From the end of a move to the restart, where an engine that is frozen is killed.
Given == {Idle, <<"start", "engine">>, <<"start", "done">>, <<"refresh", "ucinewgame">>, <<"refresh", "isready">>,
          <<"refresh", "readyok">>, <<"restart", "unlist">>, <<"restart", "reap">>, <<"quit", "unlist">>, <<"quit", "reap">>}

\* From a new process to its uciok.
Handshake == {<<"start", "push">>, <<"start", "uci">>, <<"start", "uciok">>,
              <<"restart", "push">>, <<"restart", "uci">>, <<"restart", "uciok">>}

\* The pings: where, and where the worker goes on.
Pings == {
    <<"refresh", <<"refresh", "setoption">>, <<"restart", "unlist">>>>,
    <<"restart", <<"refresh", "setoption">>, <<"refresh", "false">>>>,
    <<"ready", <<"refresh", "true">>, <<"refresh", "false">>>>,
    <<"before", <<"move", "position">>, <<"move", "crash">>>>,
    <<"ready?", <<"move", "go">>, <<"move", "crash">>>>,
    <<"after", <<"move", "judge">>, <<"move", "crash">>>>,
    <<"recover", Idle, <<"refresh", "ucinewgame">>>>}

Shakes == {
    <<"start", <<"start", "done">>, <<"start", "failed">>>>,
    <<"restart", <<"restart", "ucinewgame">>, <<"refresh", "false">>>>}

\* The worker does not read, and where it goes.
Calm(at) == at[2] \notin {"readyok", "uciok"}
Hop ==
    /\ Calm(pc) /\ Calm(pc')
    /\ pc \in Handshake => pc' \in Handshake \/ ~Alive
    /\ pc' # <<"move", "go">>
    /\ \/ pc \notin Searching /\ pc' \notin Searching /\ (pc \in Given => pc' \in Given \/ ~Alive)
       \/ pc \notin Searching \cup Given /\ pc' = <<"move", "crash">>
       \/ /\ pc \in Searching /\ pc' \in Searching
          /\ pc' \in Judging => pc \in Judging
          /\ pc = <<"move", "crash">> => pc' = <<"move", "crash">>
       \/ pc \in Searching /\ pc' \notin Searching /\ (answer # 0 \/ astray' \/ ~Outstanding)

\* Nothing is written or read.
Kept ==
    /\ UNCHANGED <<out_pipe, in_pipe, engine, answer, asked>>
    /\ Alive' <=> Alive
    /\ (stop => stop') /\ (astray => astray') /\ nth' \in Nat

Wrote(message) ==
    /\ Alive /\ Alive'
    /\ out_pipe' = Append(out_pipe, message)
    /\ UNCHANGED <<in_pipe, engine, answer, asked, astray, stop>> /\ nth' \in Nat

\* There is at most one.
One(S) == \A i, j \in S : i = j

\* The answer is the one of these lines, if there is one.
Answers(S) == One(S) => \E i \in S : answer' = in_pipe[i].n

Took(word, ok) ==
    /\ ~stop
    /\ UNCHANGED <<out_pipe, engine, asked, process, astray, stop, nth>>
    /\ \E k \in 1..Len(in_pipe) :
         /\ in_pipe' = SubSeq(in_pipe, k + 1, Len(in_pipe))
         /\ \/ pc' = pc /\ answer' = answer
            \/ /\ pc' = ok
               /\ \E i \in 1..k : Says(in_pipe[i], word)
               /\ IF word = "bestmove" THEN Answers(At(in_pipe, "bestmove")) ELSE answer' = answer

GaveUp(patience, bad) ==
    /\ pc' = bad /\ in_pipe = << >>
    /\ UNCHANGED <<out_pipe, in_pipe, engine, answer, asked, process, stop, nth>>
    /\ astray => astray'
    /\ patience = "grace" => ~Responsive
    /\ patience = "ping" => astray' \/ (~Responsive /\ ~Unread("uci"))

Asks ==
    /\ pc = <<"move", "go">> /\ pc' = Think
    /\ Alive /\ Alive'
    /\ out_pipe' = Append(out_pipe, Go(asked + 1))
    /\ asked' = asked + 1 /\ answer' = 0
    /\ UNCHANGED <<in_pipe, engine, astray, stop, nth>>

AsksNobody ==
    /\ pc = <<"move", "go">> /\ pc' = <<"move", "crash">>
    /\ ~Alive /\ ~Alive' /\ answer' = 0
    /\ UNCHANGED <<out_pipe, in_pipe, engine, asked, astray, stop, nth>>

NewProcess ==
    /\ \/ Alive' /\ \E who \in {"start", "restart"} : pc = <<who, "spawn">> /\ pc' = <<who, "push">>
       \/ ~Alive' /\ \E who \in {"restart", "quit"} : pc = <<who, "reap">> /\ pc' \in {<<"restart", "spawn">>, Over}
    /\ engine' = Fresh
    /\ UNCHANGED <<out_pipe, in_pipe, answer, asked, astray, stop, nth>>

Effect ==
    \/ Kept /\ (stop' \/ Throwing \/ Hop)
    \/ Throwing /\ \E ok : Took("uciok", ok)
    \/ \E message \in Text : /\ Wrote(message) /\ (stop \/ Hop) /\ pc \notin Handshake
                             /\ message.say \notin {"go", "uci", "isready"}
    \/ Wrote(Message("isready")) /\ \E ping \in Pings : pc = <<ping[1], "isready">> /\ pc' = <<ping[1], "readyok">>
    \/ Wrote(Message("uci")) /\ \E shake \in Shakes : pc = <<shake[1], "uci">> /\ pc' = <<shake[1], "uciok">>
    \/ Asks \/ AsksNobody
    \/ \E ping \in Pings : pc = <<ping[1], "readyok">> /\ (Took("readyok", ping[2]) \/ GaveUp("ping", ping[3]))
    \/ \E shake \in Shakes : pc = <<shake[1], "uciok">> /\ (Took("uciok", shake[2]) \/ GaveUp("ping", shake[3]))
    \/ pc = Think /\ (Took("bestmove", <<"move", "done">>) \/ GaveUp("clock", <<"move", "done">>))
    \/ pc = <<"late", "wait">> /\ (Took("bestmove", Idle) \/ GaveUp("grace", Idle))
    \/ NewProcess

LEMMA SentWrote ==
    ASSUME ProcessKept, nth \in Nat, NEW at, NEW command, NEW ok, NEW bad, Send(at, command, ok, bad),
           UNCHANGED <<in_pipe, engine, answer, asked, astray, stop>>, nth' \in Nat
    PROVE  pc = at /\ ((Wrote(command) /\ pc' = ok) \/ (Kept /\ ~Alive /\ pc' = bad))
  <1>1. process \in Entry
    BY DEF ProcessKept, ObjectKept
  <1>2. Alive' <=> Alive
    BY <1>1 DEF Send, Reaped, Alive
  <1>3. CASE Alive
    BY <1>2, <1>3 DEF Send, Wrote
  <1>4. CASE ~Alive
    BY <1>2, <1>4 DEF Send, Kept
  <1>5. QED  BY <1>3, <1>4

LEMMA ToldWrote ==
    ASSUME ProcessKept, nth \in Nat, NEW at, NEW word, NEW ok, NEW bad, Tell(at, word, ok, bad)
    PROVE  pc = at /\ ((Wrote(Message(word)) /\ pc' = ok) \/ (Kept /\ ~Alive /\ pc' = bad))
  <1>1. Send(at, Message(word), ok, bad) /\ UNCHANGED <<in_pipe, engine, answer, asked, astray, stop, nth>>
    BY DEF Tell, quiet, env
  <1>2. QED  BY <1>1, SentWrote

LEMMA ReadTook ==
    ASSUME nth \in Nat, in_pipe \in Seq(Text),
           NEW at, NEW word, NEW patience, NEW ok, NEW bad, readProcess(at, word, patience, ok, bad)
    PROVE  pc = at /\ (Took(word, ok) \/ GaveUp(patience, bad) \/ (Kept /\ stop'))
  <1>1. CASE Receive(at, word, ok)
    <2> DEFINE found(k) == {i \in 1..k : Says(in_pipe[i], word)}
               first(k) == CHOOSE i \in found(k) : \A j \in found(k) : i <= j
    <2>1. PICK k \in 1..Len(in_pipe) :
            /\ in_pipe' = SubSeq(in_pipe, k + 1, Len(in_pipe))
            /\ IF found(k) = {}
               THEN UNCHANGED <<pc, answer, uci_options>>
               ELSE /\ pc' = ok
                    /\ answer' = IF word = "bestmove" THEN in_pipe[first(k)].n ELSE answer
      BY <1>1 DEF Receive
    <2>2. pc = at /\ ~stop /\ UNCHANGED <<out_pipe, engine, asked, process, astray, stop, nth>>
      BY <1>1 DEF Receive, quiet, env
    <2>3. CASE found(k) = {}
      BY <2>1, <2>2, <2>3 DEF Took
    <2>4. CASE found(k) # {} /\ word # "bestmove"
      BY <2>1, <2>2, <2>4 DEF Took
    <2>5. CASE found(k) # {} /\ word = "bestmove"
      <3>1. found(k) \subseteq At(in_pipe, "bestmove")
        BY <2>1, <2>5, LenProperties DEF At
      <3>2. One(At(in_pipe, "bestmove")) => first(k) \in At(in_pipe, "bestmove")
        <4>1. SUFFICES ASSUME One(At(in_pipe, "bestmove"))
                       PROVE  first(k) \in found(k)
          BY <3>1
        <4>2. PICK i \in found(k) : TRUE
          BY <2>5
        <4>3. \A j \in found(k) : i <= j
          <5>1. \A j \in found(k) : i = j
            BY <3>1, <4>1, <4>2 DEF One
          <5>2. i \in Int
            BY <4>2
          <5>3. QED  BY <5>1, <5>2
        <4>4. QED  BY <4>2, <4>3
      <3>3. answer' = in_pipe[first(k)].n /\ pc' = ok
        BY <2>1, <2>5
      <3>4. \E i \in 1..k : Says(in_pipe[i], word)
        BY <2>5
      <3> HIDE DEF first, found
      <3>5. QED  BY <2>1, <2>2, <2>5, <3>2, <3>3, <3>4 DEF Took, Answers
    <2>6. QED  BY <2>3, <2>4, <2>5
  <1>2. CASE Mixed(at)
    <2>1. 1 \in 1..Len(in_pipe) /\ in_pipe' = SubSeq(in_pipe, 1 + 1, Len(in_pipe))
      BY <1>2, TailIsSubSeq, EmptySeq, LenProperties DEF Mixed
    <2>2. ~stop /\ pc = at /\ pc' = pc /\ answer' = answer
          /\ UNCHANGED <<out_pipe, engine, asked, process, astray, stop, nth>>
      BY <1>2 DEF Mixed, history
    <2>3. QED  BY <2>1, <2>2 DEF Took
  <1>3. CASE Interrupted(at, patience, bad)
    BY <1>3 DEF Interrupted, Kept, quiet, pipes, env, Alive
  <1>4. CASE TimedOut(at, patience, bad)
    BY <1>4 DEF TimedOut, GaveUp, pipes
  <1>5. QED  BY <1>1, <1>2, <1>3, <1>4 DEF readProcess

\* A command that is neither "uci" nor "isready" nor "go".
LEMMA WordEffect ==
    ASSUME ProcessKept, nth \in Nat, NEW at, NEW word \in {"ucinewgame", "position", "stop", "quit"}, NEW ok, NEW bad,
           Tell(at, word, ok, bad), at \notin Handshake,
           pc = at /\ pc' \in {ok, bad} => Hop
    PROVE  Effect
  <1>1. Message(word) \in Text /\ Message(word).say \notin {"go", "uci", "isready"}
    BY DEF Message, Text, Commands
  <1>2. pc = at /\ ((Wrote(Message(word)) /\ pc' = ok) \/ (Kept /\ ~Alive /\ pc' = bad))
    BY ToldWrote
  <1>3. Hop
    BY <1>2
  <1>4. QED  BY <1>1, <1>2, <1>3 DEF Effect

LEMMA PingEffect ==
    ASSUME ProcessKept, nth \in Nat, in_pipe \in Seq(Text), NEW ping \in Pings, isready(ping[1], ping[2], ping[3])
    PROVE  Effect
  <1>2. CASE Tell(<<ping[1], "isready">>, "isready", <<ping[1], "readyok">>, ping[3])
    <2>1. CASE Wrote(Message("isready")) /\ pc = <<ping[1], "isready">> /\ pc' = <<ping[1], "readyok">>
      BY <2>1 DEF Effect
    <2>2. CASE Kept /\ ~Alive /\ pc = <<ping[1], "isready">> /\ pc' = ping[3]
      <3>1. Hop
        BY <2>2 DEF Pings, Hop, Calm, Handshake, Searching, Given, Judging, Idle, Think
      <3>2. QED  BY <2>2, <3>1 DEF Effect
    <2>3. QED  BY <1>2, <2>1, <2>2, ToldWrote
  <1>3. CASE readProcess(<<ping[1], "readyok">>, "readyok", "ping", ping[2], ping[3])
    BY <1>3, ReadTook DEF Effect
  <1>4. QED  BY <1>2, <1>3 DEF isready

LEMMA NewGameEffect ==
    ASSUME ProcessKept, nth \in Nat, in_pipe \in Seq(Text), NEW ping \in Pings, ping[1] \in {"refresh", "restart", "ready"},
           ucinewgame(ping[1], ping[2], ping[3])
    PROVE  Effect
  <1>1. CASE Tell(<<ping[1], "ucinewgame">>, "ucinewgame", <<ping[1], "isready">>, ping[3])
    <2>1. <<ping[1], "ucinewgame">> \notin Handshake
      BY DEF Handshake, Pings
    <2>2. pc = <<ping[1], "ucinewgame">> /\ pc' \in {<<ping[1], "isready">>, ping[3]} => Hop
      BY DEF Pings, Hop, Calm, Handshake, Searching, Given, Judging, Idle, Think
    <2>3. QED  BY <1>1, <2>1, <2>2, WordEffect
  <1>2. CASE isready(ping[1], ping[2], ping[3])
    BY <1>2, PingEffect
  <1>3. QED  BY <1>1, <1>2 DEF ucinewgame

LEMMA ShakeEffect ==
    ASSUME ProcessKept, nth \in Nat, in_pipe \in Seq(Text), NEW shake \in Shakes, handshake(shake[1], shake[2], shake[3])
    PROVE  Effect
  <1>2. CASE Tell(<<shake[1], "uci">>, "uci", <<shake[1], "uciok">>, shake[3])
    <2>1. CASE Wrote(Message("uci")) /\ pc = <<shake[1], "uci">> /\ pc' = <<shake[1], "uciok">>
      BY <2>1 DEF Effect
    <2>2. CASE Kept /\ ~Alive /\ pc = <<shake[1], "uci">> /\ pc' = shake[3]
      <3>1. Hop
        BY <2>2 DEF Shakes, Hop, Calm, Handshake, Searching, Given, Judging, Idle, Think
      <3>2. QED  BY <2>2, <3>1 DEF Effect
    <2>3. QED  BY <1>2, <2>1, <2>2, ToldWrote
  <1>3. CASE ~Throwing /\ readProcess(<<shake[1], "uciok">>, "uciok", "ping", shake[2], shake[3])
    BY <1>3, ReadTook DEF Effect
  <1>4. CASE Throwing /\ readProcess(<<shake[1], "uciok">>, "uciok", "ping", <<shake[1], "thrown">>, shake[3])
    BY <1>4, ReadTook DEF Effect
  <1>5. CASE Thrown(shake[1])
    <2>1. Kept
      BY <1>5 DEF Thrown, Kept, pipes, env, history, Alive
    <2>2. Throwing
      BY <1>5, ThrownAt DEF ProcessKept, StartKept, Shakes
    <2>3. QED  BY <2>1, <2>2 DEF Effect
  <1>6. QED  BY <1>2, <1>3, <1>4, <1>5 DEF handshake

\* Steps without a word.
LEMMA ProceedEffect ==
    ASSUME nth \in Nat, NEW at, NEW to, Proceed(at, to), pc = at /\ pc' = to => Hop
    PROVE  Effect
  <1>1. pc = at /\ pc' = to /\ Kept
    BY DEF Proceed, stepping, Kept, pipes, env, Alive
  <1>2. QED  BY <1>1 DEF Effect

LEMMA InitEffect ==
    ASSUME ProcessKept, nth \in Nat, NEW who, NEW bad, init(who, bad),
           \/ who = "start" /\ bad = <<"start", "failed">>
           \/ who = "restart" /\ bad = <<"restart", "uci">>
    PROVE  Effect
  <1>1. CASE Spawn(who)
    BY <1>1 DEF Spawn, elsewhere, pipes, Effect, NewProcess, Alive, ProcessKept
  <1>2. CASE SpawnFails(who, bad)
    <2>1. Kept /\ pc = <<who, "spawn">> /\ pc' = bad
      BY <1>2 DEF SpawnFails, elsewhere, pipes, Kept, Alive, ProcessKept
    <2>2. Hop
      BY <2>1 DEF Hop, Calm, Handshake, Searching, Given, Judging, Idle, Think
    <2>3. QED  BY <2>1, <2>2 DEF Effect
  <1>3. CASE Push(who)
    <2>1. Kept /\ pc = <<who, "push">> /\ pc' = <<who, "uci">>
      BY <1>3 DEF Push, elsewhere, pipes, Kept, Alive, ProcessKept
    <2>2. Hop
      BY <2>1 DEF Hop, Calm, Handshake, Searching, Given, Judging, Idle, Think
    <2>3. QED  BY <2>1, <2>2 DEF Effect
  <1>4. QED  BY <1>1, <1>2, <1>3 DEF init

LEMMA StartEffect ==
    ASSUME ProcessKept, nth \in Nat, in_pipe \in Seq(Text), start
    PROVE  Effect
  <1> USE DEF Hop, Calm, Handshake, Searching, Given, Judging, Idle, Think
  <1>1. CASE initialized /\ Proceed(<<"start", "engine">>, <<"start", "done">>)
    BY <1>1, ProceedEffect
  <1>2. CASE ~initialized /\ Proceed(<<"start", "engine">>, <<"start", "spawn">>)
    <2>1. Kept /\ stop' = stop /\ pc = <<"start", "engine">> /\ pc' = <<"start", "spawn">>
      BY <1>2 DEF Proceed, stepping, Kept, pipes, env, Alive
    <2>2. ~Alive \/ stop \/ Throwing
      BY <1>2, <2>1 DEF ProcessKept, PlaceKept, StartKept, Gone, Left, Alive
    <2>3. ~Alive => Hop
      BY <2>1
    <2>4. QED  BY <2>1, <2>2, <2>3 DEF Effect
  <1>3. CASE init("start", <<"start", "failed">>)
    BY <1>3, InitEffect
  <1>4. CASE handshake("start", <<"start", "done">>, <<"start", "failed">>)
    <2>1. PICK shake \in Shakes : shake = <<"start", <<"start", "done">>, <<"start", "failed">>>>
      BY DEF Shakes
    <2>2. handshake(shake[1], shake[2], shake[3])
      BY <1>4, <2>1
    <2>3. QED  BY <2>2, ShakeEffect
  <1>5. CASE StartFails
    BY <1>5 DEF StartFails, stepping, Effect, Kept, pipes, env, Alive
  <1>6. CASE Started
    BY <1>6 DEF Started, stepping, Effect, Kept, pipes, env, Alive
  <1>7. QED  BY <1>1, <1>2, <1>3, <1>4, <1>5, <1>6 DEF start

LEMMA KillEffect ==
    ASSUME ProcessKept, nth \in Nat, NEW who, NEW ok, killProcess(who, ok),
           \/ who = "restart" /\ ok = <<"restart", "spawn">>
           \/ who = "quit" /\ ok = Over
    PROVE  Effect
  <1>1. CASE Unlist(who, ok)
    <2>1. Kept
      BY <1>1 DEF Unlist, elsewhere, Kept, pipes, Alive, ProcessKept, ObjectKept, Entry
    <2>2. CASE pc = <<who, "unlist">> /\ pc' = <<who, "reap">>
      <3>1. Hop
        BY <2>2 DEF Hop, Calm, Handshake, Searching, Given, Judging, Idle, Think
      <3>2. QED  BY <2>1, <3>1 DEF Effect
    <2>3. CASE pc = <<who, "unlist">> /\ pc' = ok /\ ~Alive
      <3>1. Hop
        BY <2>3 DEF Hop, Calm, Handshake, Searching, Given, Judging, Idle, Think, Over
      <3>2. QED  BY <2>1, <3>1 DEF Effect
    <2>4. CASE process.startup_error \/ ~process.is_initalized
      <3>1. ~Alive \/ stop \/ Throwing
        BY <2>4 DEF ProcessKept, ObjectKept, StartKept, Up, Gone, Left, Alive
      <3>2. stop' = stop /\ pc = <<who, "unlist">> /\ pc' = ok
        BY <1>1, <2>4 DEF Unlist, elsewhere
      <3>3. QED  BY <2>1, <2>3, <3>1, <3>2 DEF Effect
    <2>5. QED  BY <1>1, <2>2, <2>4 DEF Unlist
  <1>2. CASE Reap(who, ok)
    BY <1>2 DEF Reap, elsewhere, pipes, Effect, NewProcess, Alive, ProcessKept
  <1>3. QED  BY <1>1, <1>2 DEF killProcess

LEMMA OptionEffect ==
    ASSUME ProcessKept, nth \in Nat, SetOptions
    PROVE  Effect
  <1>1. CASE Skip(Wanted[nth])
    <2>1. Kept /\ pc = <<"refresh", "setoption">> /\ pc' = pc
      BY <1>1 DEF Skip, setting, Kept, env, Alive
    <2>2. Hop
      BY <2>1 DEF Hop, Calm, Handshake, Searching, Given, Judging, Idle, Think
    <2>3. QED  BY <2>1, <2>2 DEF Effect
  <1>2. CASE sendSetoption(Wanted[nth])
    <2>1. /\ Send(<<"refresh", "setoption">>, Setoption(nth), <<"refresh", "setoption">>, <<"refresh", "setoption">>)
          /\ UNCHANGED <<in_pipe, engine, answer, asked, astray, stop>> /\ nth' \in Nat
      BY <1>2 DEF sendSetoption, setting, env
    <2>2. /\ pc = <<"refresh", "setoption">> /\ pc' = pc
          /\ Wrote(Setoption(nth)) \/ Kept
      BY <2>1, SentWrote
    <2>3. Hop
      BY <2>2 DEF Hop, Calm, Handshake, Searching, Given, Judging, Idle, Think
    <2>4. Setoption(nth) \in Text /\ Setoption(nth).say \notin {"go", "uci", "isready"} /\ pc \notin Handshake
      BY <2>2 DEF Setoption, Text, Commands, Handshake
    <2>5. QED  BY <2>2, <2>3, <2>4 DEF Effect
  <1>3. CASE SetoptionThrows(Wanted[nth])
    <2>1. Kept /\ pc = <<"refresh", "setoption">> /\ pc' = Idle
      BY <1>3 DEF SetoptionThrows, setting, Kept, env, Alive
    <2>2. Hop
      BY <2>1 DEF Hop, Calm, Handshake, Searching, Given, Judging, Idle, Think
    <2>3. QED  BY <2>1, <2>2 DEF Effect
  <1>4. CASE pc = <<"refresh", "setoption">> /\ pc' = <<"ready", "ucinewgame">> /\ nth' = 1
               /\ UNCHANGED <<setting, process, out_pipe>>
    <2>1. Kept
      BY <1>4 DEF setting, Kept, env, Alive
    <2>2. Hop
      BY <1>4 DEF Hop, Calm, Handshake, Searching, Given, Judging, Idle, Think
    <2>3. QED  BY <2>1, <2>2 DEF Effect
  <1>5. QED  BY <1>1, <1>2, <1>3, <1>4 DEF SetOptions

LEMMA RefreshEffect ==
    ASSUME ProcessKept, nth \in Nat, in_pipe \in Seq(Text), refreshUci
    PROVE  Effect
  <1>1. ASSUME NEW ping \in Pings, ping[1] \in {"refresh", "restart", "ready"}, ucinewgame(ping[1], ping[2], ping[3])
        PROVE  Effect
    BY <1>1, NewGameEffect
  <1>2. CASE ucinewgame("refresh", <<"refresh", "setoption">>, <<"restart", "unlist">>)
    BY <1>1, <1>2 DEF Pings
  <1>3. CASE killProcess("restart", <<"restart", "spawn">>)
    BY <1>3, KillEffect
  <1>4. CASE init("restart", <<"restart", "uci">>)
    BY <1>4, InitEffect
  <1>5. CASE handshake("restart", <<"restart", "ucinewgame">>, <<"refresh", "false">>)
    <2>1. PICK shake \in Shakes : shake = <<"restart", <<"restart", "ucinewgame">>, <<"refresh", "false">>>>
      BY DEF Shakes
    <2>2. handshake(shake[1], shake[2], shake[3])
      BY <1>5, <2>1
    <2>3. QED  BY <2>2, ShakeEffect
  <1>6. CASE ucinewgame("restart", <<"refresh", "setoption">>, <<"refresh", "false">>)
    BY <1>1, <1>6 DEF Pings
  <1>7. CASE SetOptions
    BY <1>7, OptionEffect
  <1>8. CASE ucinewgame("ready", <<"refresh", "true">>, <<"refresh", "false">>)
    BY <1>1, <1>8 DEF Pings
  <1>9. CASE Refreshed
    <2>1. Kept /\ pc \in {<<"refresh", "true">>, <<"refresh", "false">>} /\ pc' \in {Idle, <<"move", "loop">>}
      BY <1>9 DEF Refreshed, stepping, Kept, pipes, env, Alive, ProcessKept, StartKept
    <2>2. Hop
      BY <2>1 DEF Hop, Calm, Handshake, Searching, Given, Judging, Idle, Think
    <2>3. QED  BY <2>1, <2>2 DEF Effect
  <1>10. QED
    BY <1>2, <1>3, <1>4, <1>5, <1>6, <1>7, <1>8, <1>9 DEF refreshUci

LEMMA GoEffect ==
    ASSUME ProcessKept, nth \in Nat, go
    PROVE  Effect
  <1>1. Alive' <=> Alive
    BY DEF go, Send, Reaped, Alive, ProcessKept
  <1>2. CASE Alive
    BY <1>1, <1>2 DEF go, Send, quiet, env, Effect, Asks
  <1>3. CASE ~Alive
    BY <1>1, <1>3 DEF go, Send, quiet, env, Effect, AsksNobody
  <1>4. QED  BY <1>2, <1>3

LEMMA MoveEffect ==
    ASSUME ProcessKept, nth \in Nat, in_pipe \in Seq(Text), playMove
    PROVE  Effect
  <1>1. ASSUME NEW ping \in Pings, isready(ping[1], ping[2], ping[3])
        PROVE  Effect
    BY <1>1, PingEffect
  <1>2. CASE GameOver
    <2>1. Kept /\ pc = <<"move", "loop">> /\ pc' = Idle
      BY <1>2 DEF GameOver, stepping, Kept, pipes, env, Alive
    <2>2. Hop
      BY <2>1 DEF Hop, Calm, Handshake, Searching, Given, Judging, Idle, Think
    <2>3. QED  BY <2>1, <2>2 DEF Effect
  <1>3. CASE NextMove
    <2>1. Proceed(<<"move", "loop">>, <<"before", "isready">>)
      BY <1>3 DEF NextMove
    <2>2. pc = <<"move", "loop">> /\ pc' = <<"before", "isready">> => Hop
      BY DEF Hop, Calm, Handshake, Searching, Given, Judging, Idle, Think
    <2>3. QED  BY <2>1, <2>2, ProceedEffect
  <1>4. CASE isready("before", <<"move", "position">>, <<"move", "crash">>)
    BY <1>1, <1>4 DEF Pings
  <1>5. CASE Tell(<<"move", "position">>, "position", <<"ready?", "isready">>, <<"move", "crash">>)
    <2>1. pc = <<"move", "position">> /\ pc' \in {<<"ready?", "isready">>, <<"move", "crash">>} => Hop
      BY DEF Hop, Calm, Handshake, Searching, Given, Judging, Idle, Think
    <2>2. <<"move", "position">> \notin Handshake
      BY DEF Handshake
    <2>3. QED  BY <1>5, <2>1, <2>2, WordEffect
  <1>6. CASE isready("ready?", <<"move", "go">>, <<"move", "crash">>)
    BY <1>1, <1>6 DEF Pings
  <1>7. CASE think
    <2>1. /\ pc = Think
          /\ \/ Took("bestmove", <<"move", "done">>) \/ GaveUp(Patience, <<"move", "done">>)
             \/ Kept /\ stop'
      BY <1>7, ReadTook DEF think
    <2>2. GaveUp(Patience, <<"move", "done">>) => GaveUp("clock", <<"move", "done">>)
      BY DEF GaveUp
    <2>3. QED  BY <2>1, <2>2 DEF Effect
  <1>8. CASE Done
    <2>1. CASE stop /\ Proceed(<<"move", "done">>, Idle)
      BY <2>1 DEF Proceed, stepping, Effect, Kept, pipes, env, Alive
    <2>2. CASE Proceed(<<"move", "done">>, <<"after", "isready">>)
      <3>1. pc = <<"move", "done">> /\ pc' = <<"after", "isready">> => Hop
        BY DEF Hop, Calm, Handshake, Searching, Given, Judging, Idle, Think
      <3>2. QED  BY <2>2, <3>1, ProceedEffect
    <2>3. QED  BY <1>8, <2>1, <2>2 DEF Done
  <1>9. CASE isready("after", <<"move", "judge">>, <<"move", "crash">>)
    BY <1>1, <1>9 DEF Pings
  <1>10. CASE Late
    <2>1. pc = <<"move", "judge">> /\ pc' = <<"late", "stop">> => Hop
      BY DEF Hop, Calm, Handshake, Searching, Given, Judging, Idle, Think
    <2>2. QED  BY <1>10, <2>1, ProceedEffect DEF Late
  <1>11. CASE InTime
    <2>1. PICK to \in {<<"move", "loop">>, Idle} : answer # 0 /\ Proceed(<<"move", "judge">>, to)
      BY <1>11 DEF InTime
    <2>2. pc = <<"move", "judge">> /\ pc' = to => Hop
      BY <2>1 DEF Hop, Calm, Handshake, Searching, Given, Judging, Idle, Think
    <2>3. QED  BY <2>1, <2>2, ProceedEffect
  <1>12. CASE Refilled
    <2>1. Kept /\ pc = <<"move", "judge">> /\ pc' = Idle /\ (astray' \/ ~Outstanding)
      BY <1>12 DEF Refilled, Kept, pipes, env, Alive
    <2>2. Hop
      BY <2>1 DEF Hop, Calm, Handshake, Searching, Given, Judging, Idle, Think
    <2>3. QED  BY <2>1, <2>2 DEF Effect
  <1>13. CASE setEngineTimeoutStatus
    <2>1. <<"late", "stop">> \notin Handshake
      BY DEF Handshake
    <2>2. CASE answer # 0 /\ Tell(<<"late", "stop">>, "stop", Idle, Idle)
      <3>1. pc = <<"late", "stop">> /\ pc' \in {Idle, Idle} => Hop
        BY <2>2 DEF Hop, Calm, Handshake, Searching, Given, Judging, Idle, Think
      <3>2. QED  BY <2>1, <2>2, <3>1, WordEffect
    <2>3. CASE Tell(<<"late", "stop">>, "stop", <<"late", "wait">>, <<"late", "wait">>)
      <3>1. pc = <<"late", "stop">> /\ pc' \in {<<"late", "wait">>, <<"late", "wait">>} => Hop
        BY DEF Hop, Calm, Handshake, Searching, Given, Judging, Idle, Think
      <3>2. QED  BY <2>1, <2>3, <3>1, WordEffect
    <2>4. CASE readProcess(<<"late", "wait">>, "bestmove", "grace", Idle, Idle)
      BY <2>4, ReadTook DEF Effect
    <2>5. QED  BY <1>13, <2>2, <2>3, <2>4 DEF setEngineTimeoutStatus
  <1>14. QED
    BY <1>2, <1>3, <1>4, <1>5, <1>6, GoEffect, <1>7, <1>8, <1>9, <1>10, <1>11, <1>12, <1>13 DEF playMove

LEMMA WorkerEffect ==
    ASSUME ProcessKept, nth \in Nat, in_pipe \in Seq(Text), Worker, ~Begin
    PROVE  Effect
  <1>1. CASE Borrow
    <2>1. Kept /\ pc = Idle /\ pc' = <<"start", "engine">>
      BY <1>1 DEF Borrow, Kept, pipes, env, Alive
    <2>2. Hop
      BY <2>1 DEF Hop, Calm, Handshake, Searching, Given, Judging, Idle, Think
    <2>3. QED  BY <2>1, <2>2 DEF Effect
  <1>2. CASE Crash
    <2>1. /\ Kept /\ pc = <<"move", "crash">> /\ (astray' \/ ~Outstanding)
          /\ stop' \/ pc' = <<"recover", "isready">>
      BY <1>2 DEF Crash, Kept, pipes, env, Alive
    <2>2. stop' \/ Hop
      BY <2>1 DEF Hop, Calm, Handshake, Searching, Given, Judging, Idle, Think
    <2>3. QED  BY <2>1, <2>2 DEF Effect
  <1>3. CASE isready("recover", Idle, <<"refresh", "ucinewgame">>)
    <2>1. PICK ping \in Pings : ping = <<"recover", Idle, <<"refresh", "ucinewgame">>>>
      BY DEF Pings
    <2>2. isready(ping[1], ping[2], ping[3])
      BY <1>3, <2>1
    <2>3. QED  BY <2>2, PingEffect
  <1>4. CASE Destroy
    <2>1. pc = Idle /\ pc' = <<"quit", "unlist">> => Hop
      BY DEF Hop, Calm, Handshake, Searching, Given, Judging, Idle, Think
    <2>2. CASE Tell(Idle, "quit", <<"quit", "unlist">>, <<"quit", "unlist">>)
      <3>1. Idle \notin Handshake
        BY DEF Handshake, Idle
      <3>2. QED  BY <2>1, <2>2, <3>1, WordEffect
    <2>3. CASE Proceed(Idle, <<"quit", "unlist">>)
      BY <2>1, <2>3, ProceedEffect
    <2>4. QED  BY <1>4, <2>2, <2>3, KillEffect DEF Destroy
  <1>5. QED
    BY <1>1, <1>2, <1>3, <1>4, StartEffect, RefreshEffect, MoveEffect DEF Worker, recover

-----------------------------------------------------------------------------
(* The engine, in the same way.                                            *)

Heard ==
    /\ Alive /\ ~engine.frozen /\ ~engine'.frozen
    /\ \E k \in 1..Len(out_pipe) :
         /\ out_pipe' = SubSeq(out_pipe, k + 1, Len(out_pipe))
         /\ \A word \in Reacts : \A i \in At(out_pipe, word) : k <= i
         /\ \/ /\ k \in At(out_pipe, "uci") /\ in_pipe' = Append(in_pipe, Message("uciok"))
               /\ Alive' /\ engine'.search = engine.search
            \/ /\ k \in At(out_pipe, "isready") /\ in_pipe' = Append(in_pipe, Message("readyok"))
               /\ Alive' /\ engine'.search = engine.search
            \/ /\ k \in At(out_pipe, "go") /\ UNCHANGED in_pipe
               /\ Alive' /\ engine.search = 0 /\ engine'.search = out_pipe[k].n
            \/ /\ k \in At(out_pipe, "quit") /\ UNCHANGED in_pipe
               /\ ~Alive' /\ engine'.search = 0

Answered ==
    /\ Alive /\ Alive' /\ ~engine.frozen /\ ~engine'.frozen
    /\ engine.search # 0 /\ engine'.search = 0
    /\ in_pipe' = Append(in_pipe, Bestmove(engine.search))
    /\ UNCHANGED out_pipe

\* A line that is no answer; writeToOpenPipes may be the one who writes it.
Chat(word) ==
    /\ in_pipe' = Append(in_pipe, Message(word))
    /\ UNCHANGED <<out_pipe, engine>>
    /\ Alive' <=> Alive
Chatted == \E word \in {"info", "nul"} : Chat(word)

Failed ==
    /\ Alive /\ UNCHANGED <<out_pipe, in_pipe>>
    /\ \/ ~Alive' /\ engine'.search = 0
       \/ Alive' /\ ~engine.frozen /\ engine'.frozen /\ engine'.search = engine.search

\* A process that was left hears "uci" and answers.
Strayed ==
    /\ stop \/ Throwing
    /\ \E k \in 1..Len(out_pipe) : out_pipe' = SubSeq(out_pipe, k + 1, Len(out_pipe))
    /\ in_pipe' = Append(in_pipe, Message("uciok"))
    /\ UNCHANGED engine /\ (Alive' <=> Alive)

Unmoved == UNCHANGED <<pc, answer, asked, nth, astray, stop>>

Brain == [search : Nat, frozen : BOOLEAN, set : {engine.set}]

LEMMA EngineEffect ==
    ASSUME ProcessKept, in_pipe \in Seq(Text), out_pipe \in Seq(Text), engine \in Brain, EngineProgram
    PROVE  Unmoved /\ engine' \in Brain' /\ (Heard \/ Answered \/ Chat("info") \/ Failed \/ Strayed)
  <1>u. Unmoved
    BY DEF EngineProgram, LeftReads, EngineReads, EngineMoves, EngineTalks, EngineDies, EngineFreezes, tester, history, Unmoved
  <1>1. CASE EngineReads
    <2> DEFINE command(k) == out_pipe[k]
    <2>1. Alive /\ ~engine.frozen
      BY <1>1 DEF EngineReads
    <2>2. PICK k \in DOMAIN out_pipe :
            /\ command(k).say \in Reacts
            /\ \A i \in 1..(k - 1) : out_pipe[i].say \notin Reacts
            /\ Says(command(k), "go") => engine.search = 0
            /\ out_pipe' = SubSeq(out_pipe, k + 1, Len(out_pipe))
            /\ in_pipe' = in_pipe \o CASE Says(command(k), "uci") -> <<Message("uciok")>>
                                       [] Says(command(k), "isready") -> <<Message("readyok")>>
                                       [] OTHER -> << >>
            /\ engine' = [engine EXCEPT !.search = CASE Says(command(k), "go") -> command(k).n
                                                   [] Says(command(k), "quit") -> 0
                                                   [] OTHER -> @,
                                        !.set = Apply(@, SubSeq(out_pipe, 1, k))]
            /\ process' = IF Says(command(k), "quit") THEN [process EXCEPT !.state = "exited"] ELSE process
      BY <1>1 DEF EngineReads
    <2>3. k \in 1..Len(out_pipe) /\ command(k) \in Text
      BY <2>2, LenProperties, ElementOfSeq
    <2>4. \A word \in Reacts : \A i \in At(out_pipe, word) : k <= i
      <3>1. DOMAIN out_pipe = 1..Len(out_pipe) /\ Len(out_pipe) \in Nat
        BY LenProperties
      <3>2. SUFFICES ASSUME NEW word \in Reacts, NEW i \in At(out_pipe, word), ~(k <= i)
                     PROVE  FALSE
        OBVIOUS
      <3>3. i \in 1..Len(out_pipe) /\ out_pipe[i].say = word
        BY <3>1 DEF At, Says
      <3>4. i \in 1..(k - 1)
        BY <2>3, <3>1, <3>2, <3>3
      <3>5. QED  BY <2>2, <3>3, <3>4
    <2>5. k \in At(out_pipe, command(k).say)
      BY <2>3, LenProperties DEF At, Says
    <2>6. /\ engine'.frozen = engine.frozen /\ engine' \in Brain'
          /\ engine'.search = CASE Says(command(k), "go") -> command(k).n
                                [] Says(command(k), "quit") -> 0
                                [] OTHER -> engine.search
      BY <2>2, <2>3 DEF Brain, Text
    <2>7. CASE command(k).say = "uci"
      <3>1. in_pipe' = Append(in_pipe, Message("uciok"))
        BY <2>2, <2>7 DEF Says
      <3>2. engine'.search = engine.search /\ Alive'
        BY <2>1, <2>2, <2>6, <2>7 DEF Says, Alive
      <3>3. QED  BY <1>u, <2>1, <2>2, <2>3, <2>4, <2>5, <2>6, <2>7, <3>1, <3>2 DEF Heard
    <2>8. CASE command(k).say = "isready"
      <3>1. in_pipe' = Append(in_pipe, Message("readyok"))
        BY <2>2, <2>8 DEF Says
      <3>2. engine'.search = engine.search /\ Alive'
        BY <2>1, <2>2, <2>6, <2>8 DEF Says, Alive
      <3>3. QED  BY <1>u, <2>1, <2>2, <2>3, <2>4, <2>5, <2>6, <2>8, <3>1, <3>2 DEF Heard
    <2>9. CASE command(k).say = "go"
      <3>1. in_pipe' = in_pipe
        BY <2>2, <2>9, ConcatEmptySeq DEF Says
      <3>2. engine.search = 0 /\ engine'.search = out_pipe[k].n /\ Alive'
        BY <2>1, <2>2, <2>6, <2>9 DEF Says, Alive
      <3>3. QED  BY <1>u, <2>1, <2>2, <2>3, <2>4, <2>5, <2>6, <2>9, <3>1, <3>2 DEF Heard
    <2>10. CASE command(k).say = "quit"
      <3>1. in_pipe' = in_pipe
        BY <2>2, <2>10, ConcatEmptySeq DEF Says
      <3>2. engine'.search = 0 /\ ~Alive'
        BY <2>1, <2>2, <2>6, <2>10 DEF Says, Alive, ProcessKept
      <3>3. QED  BY <1>u, <2>1, <2>2, <2>3, <2>4, <2>5, <2>6, <2>10, <3>1, <3>2 DEF Heard
    <2>11. QED  BY <2>2, <2>7, <2>8, <2>9, <2>10 DEF Reacts
  <1>2. CASE EngineMoves
    BY <1>u, <1>2 DEF EngineMoves, Answered, Brain, Alive
  <1>3. CASE EngineTalks
    <2>1. in_pipe' = Append(in_pipe, Message("info"))
      BY <1>3 DEF EngineTalks
    <2>2. QED  BY <1>u, <1>3, <2>1 DEF EngineTalks, Chat, Brain, Alive
  <1>4. CASE EngineDies
    <2>1. Fresh.search = 0 /\ engine' = Fresh /\ engine' \in Brain'
      BY <1>4 DEF EngineDies, Fresh, Brain
    <2>2. QED  BY <1>u, <1>4, <2>1 DEF EngineDies, Failed, Alive, pipes, ProcessKept
  <1>5. CASE EngineFreezes
    BY <1>u, <1>5 DEF EngineFreezes, Failed, Brain, Alive, pipes
  <1>6. CASE LeftReads
    <2>1. stop \/ Throwing
      BY <1>6 DEF LeftReads, ProcessKept, ObjectKept, StartKept
    <2>2. \E k \in 1..Len(out_pipe) : out_pipe' = SubSeq(out_pipe, k + 1, Len(out_pipe))
      BY <1>6, LenProperties DEF LeftReads
    <2>3. QED  BY <1>u, <1>6, <2>1, <2>2 DEF LeftReads, Strayed, Brain, Alive, env
  <1>7. QED  BY <1>1, <1>2, <1>3, <1>4, <1>5, <1>6 DEF EngineProgram

-----------------------------------------------------------------------------
(* Pipes.                                                                  *)

LEMMA AtIn ==
    ASSUME NEW s \in Seq(Text), NEW word
    PROVE  /\ Len(s) \in Nat /\ At(s, word) \subseteq 1..Len(s)
           /\ s = << >> => At(s, word) = {}
  BY LenProperties DEF At

LEMMA AtAppend ==
    ASSUME NEW s \in Seq(Text), NEW m \in Text
    PROVE  /\ Append(s, m) \in Seq(Text) /\ Len(Append(s, m)) = Len(s) + 1
           /\ \A i \in 1..Len(s) : Append(s, m)[i] = s[i]
           /\ Append(s, m)[Len(s) + 1] = m
           /\ \A word : Says(m, word) => At(Append(s, m), word) = At(s, word) \cup {Len(s) + 1}
           /\ \A word : ~Says(m, word) => At(Append(s, m), word) = At(s, word)
  <1>1. /\ Append(s, m) \in Seq(Text) /\ Len(Append(s, m)) = Len(s) + 1
        /\ \A i \in 1..Len(s) : Append(s, m)[i] = s[i]
        /\ Append(s, m)[Len(s) + 1] = m
        /\ DOMAIN s = 1..Len(s) /\ DOMAIN Append(s, m) = 1..(Len(s) + 1) /\ Len(s) \in Nat
    BY AppendProperties, LenProperties
  <1>2. QED  BY <1>1 DEF At

LEMMA AtDrop ==
    ASSUME NEW s \in Seq(Text), NEW k \in 1..Len(s), NEW t, t = SubSeq(s, k + 1, Len(s))
    PROVE  /\ t \in Seq(Text) /\ Len(t) = Len(s) - k
           /\ \A i \in 1..Len(t) : t[i] = s[i + k]
           /\ \A word : At(t, word) = {i \in 1..(Len(s) - k) : i + k \in At(s, word)}
  <1>1. /\ t \in Seq(Text) /\ Len(t) = Len(s) - k
        /\ \A i \in 1..Len(t) : t[i] = s[i + k]
        /\ DOMAIN s = 1..Len(s) /\ DOMAIN t = 1..(Len(s) - k) /\ Len(s) \in Nat
    <2>1. Len(s) \in Nat /\ DOMAIN s = 1..Len(s)
      BY LenProperties
    <2>2. k \in Int /\ k + 1 \in Int /\ Len(s) \in Int /\ k <= Len(s) /\ 1 <= k
      BY <2>1
    <2>3. \A i \in (k + 1)..Len(s) : s[i] \in Text
      BY <2>1, <2>2, ElementOfSeq
    <2>4. /\ t \in Seq(Text)
          /\ Len(t) = IF k + 1 <= Len(s) THEN Len(s) - (k + 1) + 1 ELSE 0
          /\ \A i \in 1..(Len(s) - (k + 1) + 1) : t[i] = s[(k + 1) + i - 1]
      BY <2>2, <2>3, SubSeqProperties
    <2>5. Len(t) = Len(s) - k
      BY <2>2, <2>4
    <2>6. DOMAIN t = 1..(Len(s) - k)
      BY <2>4, <2>5, LenProperties
    <2>8. ASSUME NEW i \in 1..Len(t)
          PROVE  t[i] = s[i + k]
      <3>1. i \in 1..(Len(s) - k) /\ i \in Int
        BY <2>2, <2>5
      <3>2. t[i] = s[(k + 1) + i - 1]
        <4>1. Len(s) - (k + 1) + 1 = Len(s) - k
          BY <2>2
        <4>2. QED  BY <2>4, <3>1, <4>1
      <3>3. (k + 1) + i - 1 = i + k
        BY <2>2, <3>1
      <3>4. QED  BY <3>2, <3>3
    <2>9. QED  BY <2>1, <2>4, <2>5, <2>6, <2>8
  <1>2. ASSUME NEW word
        PROVE  At(t, word) = {i \in 1..(Len(s) - k) : i + k \in At(s, word)}
    <2>1. ASSUME NEW i \in 1..(Len(s) - k)
          PROVE  i + k \in 1..Len(s) /\ t[i] = s[i + k]
      <3>1. Len(s) \in Nat /\ k \in Nat /\ i \in 1..Len(t)
        <4>1. Len(s) \in Nat
          BY <1>1
        <4>2. k \in Nat
          BY <4>1
        <4>3. Len(t) = Len(s) - k
          BY <1>1
        <4>4. QED  BY <4>1, <4>2, <4>3
      <3>2. i + k \in 1..Len(s)
        BY <3>1
      <3>3. QED  BY <1>1, <3>1, <3>2
    <2>2. ASSUME NEW i \in 1..(Len(s) - k)
          PROVE  i \in At(t, word) <=> i + k \in At(s, word)
      <3>1. i \in DOMAIN t /\ i + k \in DOMAIN s /\ t[i] = s[i + k]
        BY <1>1, <2>1
      <3>2. QED  BY <3>1 DEF At
    <2>3. At(t, word) \subseteq 1..(Len(s) - k)
      BY <1>1 DEF At
    <2>4. QED  BY <2>2, <2>3
  <1>3. QED  BY <1>1, <1>2

-----------------------------------------------------------------------------
(* What is where, while nothing has gone astray and the flag is not set,   *)
(* for an engine whose options the tester can read.                        *)

Out(word) == At(out_pipe, word)
In(word) == At(in_pipe, word)
Clear == ~astray /\ ~stop /\ ~Throwing

Typed ==
    /\ out_pipe \in Seq(Text) /\ in_pipe \in Seq(Text)
    /\ engine \in Brain
    /\ asked \in Nat /\ nth \in Nat
    /\ engine.search # 0 => Alive

\* The uci of a new process is the last command it reads, and its uciok comes after every readyok, so that no
\* answer to an earlier command is left when it was read.
Shaken ==
    /\ pc[2] # "uciok" => Out("uci") = {} /\ In("uciok") = {}
    /\ pc[2] = "uciok" =>
          \/ In("uciok") = {} /\ Out("uci") = {Len(out_pipe)}
          \/ /\ Out("uci") = {} /\ Out("isready") = {}
             /\ \A i \in In("uciok") : \A j \in In("readyok") \cup In("uciok") : j <= i

\* The engine owes an answer to the last ping only, unless it will never answer again.
PingsKept ==
    /\ pc[2] # "readyok" /\ pc \notin Handshake =>
          \/ Out("isready") = {} /\ In("readyok") = {}
          \/ ~Alive
          \/ engine.frozen /\ In("readyok") = {}
    /\ pc[2] = "readyok" =>
          \/ Out("isready") = {} /\ One(In("readyok"))
          \/ One(Out("isready")) /\ In("readyok") = {}
          \/ (~Alive \/ engine.frozen) /\ In("readyok") = {}
    /\ pc = <<"move", "go">> => Out("isready") = {} /\ In("readyok") = {}

\* Every go, search and bestmove is of the last move asked.
NumbersKept ==
    /\ \A i \in Out("go") : out_pipe[i].n = asked
    /\ \A i \in In("bestmove") : in_pipe[i].n = asked
    /\ engine.search \in {0, asked}

\* It is in one place.
OneAnswer ==
    /\ One(Out("go")) /\ One(In("bestmove"))
    /\ Out("go") # {} => engine.search = 0 /\ In("bestmove") = {}
    /\ engine.search # 0 => In("bestmove") = {}

\* A search that is left behind on purpose: of an engine that is frozen, and will be killed.
GivenUp ==
    /\ pc \in Given /\ Alive /\ engine.frozen /\ engine.search # 0
    /\ Out("go") = {} /\ In("bestmove") = {} /\ In("readyok") = {}

\* A move that was asked is waited for, and once it is judged the engine has read the go.
Asked ==
    /\ Outstanding => pc \in Searching \/ GivenUp
    /\ pc \in Searching /\ answer # 0 => ~Outstanding
    /\ pc \in Judging => Out("go") = {}
    /\ pc \in Searching /\ Out("go") # {} =>
          \/ pc = <<"move", "crash">>
          \/ In("readyok") = {} /\ \A g \in Out("go") : \A i \in Out("isready") : g < i

OfLast == answer \in {0, asked} \/ astray \/ Throwing

SearchKept == NumbersKept /\ OneAnswer /\ Asked

LEMMA OutstandingIs ==
    ASSUME TRUE
    PROVE  Outstanding <=> engine.search # 0 \/ Out("go") # {} \/ In("bestmove") # {}
  BY DEF Outstanding, Unread, Out, In, At

LEMMA OutAppend ==
    ASSUME out_pipe \in Seq(Text), NEW m \in Text, out_pipe' = Append(out_pipe, m)
    PROVE  /\ out_pipe' \in Seq(Text) /\ Len(out_pipe') = Len(out_pipe) + 1
           /\ Len(out_pipe) \in Nat /\ \A word : Out(word) \subseteq 1..Len(out_pipe)
           /\ \A i \in 1..Len(out_pipe) : out_pipe'[i] = out_pipe[i]
           /\ out_pipe'[Len(out_pipe) + 1] = m
           /\ \A word : Says(m, word) => Out(word)' = Out(word) \cup {Len(out_pipe) + 1}
           /\ \A word : ~Says(m, word) => Out(word)' = Out(word)
  BY AtAppend, AtIn DEF Out

LEMMA InAppend ==
    ASSUME in_pipe \in Seq(Text), NEW m \in Text, in_pipe' = Append(in_pipe, m)
    PROVE  /\ in_pipe' \in Seq(Text) /\ Len(in_pipe') = Len(in_pipe) + 1
           /\ Len(in_pipe) \in Nat /\ \A word : In(word) \subseteq 1..Len(in_pipe)
           /\ \A i \in 1..Len(in_pipe) : in_pipe'[i] = in_pipe[i]
           /\ in_pipe'[Len(in_pipe) + 1] = m
           /\ \A word : Says(m, word) => In(word)' = In(word) \cup {Len(in_pipe) + 1}
           /\ \A word : ~Says(m, word) => In(word)' = In(word)
  BY AtAppend, AtIn DEF In

LEMMA OutDrop ==
    ASSUME out_pipe \in Seq(Text), NEW k \in 1..Len(out_pipe), out_pipe' = SubSeq(out_pipe, k + 1, Len(out_pipe))
    PROVE  /\ out_pipe' \in Seq(Text) /\ Len(out_pipe') = Len(out_pipe) - k
           /\ Len(out_pipe) \in Nat /\ \A word : Out(word) \subseteq 1..Len(out_pipe)
           /\ \A i \in 1..Len(out_pipe') : out_pipe'[i] = out_pipe[i + k]
           /\ \A word : Out(word)' = {i \in 1..(Len(out_pipe) - k) : i + k \in Out(word)}
  <1> DEFINE t == SubSeq(out_pipe, k + 1, Len(out_pipe))
  <1>1. /\ t \in Seq(Text) /\ Len(t) = Len(out_pipe) - k
        /\ \A i \in 1..Len(t) : t[i] = out_pipe[i + k]
        /\ \A word : At(t, word) = {i \in 1..(Len(out_pipe) - k) : i + k \in At(out_pipe, word)}
    BY AtDrop
  <1>2. Len(out_pipe) \in Nat /\ \A word : At(out_pipe, word) \subseteq 1..Len(out_pipe)
    BY AtIn
  <1>3. out_pipe' = t
    OBVIOUS
  <1> HIDE DEF t
  <1>4. QED  BY <1>1, <1>2, <1>3 DEF Out

LEMMA InDrop ==
    ASSUME in_pipe \in Seq(Text), NEW k \in 1..Len(in_pipe), in_pipe' = SubSeq(in_pipe, k + 1, Len(in_pipe))
    PROVE  /\ in_pipe' \in Seq(Text) /\ Len(in_pipe') = Len(in_pipe) - k
           /\ Len(in_pipe) \in Nat /\ \A word : In(word) \subseteq 1..Len(in_pipe)
           /\ \A i \in 1..Len(in_pipe') : in_pipe'[i] = in_pipe[i + k]
           /\ \A word : In(word)' = {i \in 1..(Len(in_pipe) - k) : i + k \in In(word)}
  <1> DEFINE t == SubSeq(in_pipe, k + 1, Len(in_pipe))
  <1>1. /\ t \in Seq(Text) /\ Len(t) = Len(in_pipe) - k
        /\ \A i \in 1..Len(t) : t[i] = in_pipe[i + k]
        /\ \A word : At(t, word) = {i \in 1..(Len(in_pipe) - k) : i + k \in At(in_pipe, word)}
    BY AtDrop
  <1>2. Len(in_pipe) \in Nat /\ \A word : At(in_pipe, word) \subseteq 1..Len(in_pipe)
    BY AtIn
  <1>3. in_pipe' = t
    OBVIOUS
  <1> HIDE DEF t
  <1>4. QED  BY <1>1, <1>2, <1>3 DEF In

LEMMA Same ==
    ASSUME TRUE
    PROVE  /\ UNCHANGED out_pipe => \A word : Out(word)' = Out(word)
           /\ UNCHANGED in_pipe => \A word : In(word)' = In(word)
  BY DEF Out, In

\* The lines that are written are lines.
LEMMA Texts ==
    ASSUME NEW n \in Nat
    PROVE  /\ Go(n) \in Text /\ Setoption(n) \in Text /\ Bestmove(n) \in Text
           /\ \A word \in Commands \cup Lines : Message(word) \in Text /\ \A other : Says(Message(word), other) <=> word = other
           /\ \A other : /\ Says(Go(n), other) <=> other = "go"
                         /\ Says(Bestmove(n), other) <=> other = "bestmove"
           /\ Go(n).n = n /\ Bestmove(n).n = n
           /\ {"uci", "isready"} \subseteq Commands /\ {"uciok", "readyok", "nul", "info", "bestmove"} \subseteq Lines
  BY DEF Go, Setoption, Bestmove, Text, Message, Says, Commands, Lines

\* What a step does: of the worker, of the engine, or of nobody.
Turn ==
    \/ Effect
    \/ Unmoved /\ engine' \in Brain' /\ (Heard \/ Answered \/ Chatted \/ Failed)
    \/ Unmoved /\ UNCHANGED <<out_pipe, in_pipe, engine>> /\ (Alive' <=> Alive)

LEMMA Turns ==
    ASSUME ProcessKept, Typed, [Next]_vars
    PROVE  stop' \/ Throwing \/ Turn
  <1>1. CASE Worker
    <2>1. CASE Begin
      BY <2>1 DEF Begin, pipes, env, history, Turn, Unmoved, Alive
    <2>2. QED  BY <1>1, <2>1, WorkerEffect DEF Typed, Turn
  <1>2. CASE EngineProgram
    BY <1>2, EngineEffect DEF Typed, Turn, Chatted, Strayed, Unmoved
  <1>3. CASE writeToOpenPipes
    <2>1. Unmoved /\ UNCHANGED <<out_pipe, engine>> /\ (Alive' <=> Alive) /\ engine' \in Brain'
      BY <1>3 DEF writeToOpenPipes, history, Unmoved, env, Alive, Typed, Brain
    <2>2. in_pipe' = Append(in_pipe, Message("nul")) \/ UNCHANGED in_pipe
      BY <1>3 DEF writeToOpenPipes
    <2>3. QED  BY <2>1, <2>2 DEF Turn, Chatted, Chat
  <1>4. CASE Stop
    BY <1>4 DEF Stop
  <1>5. CASE UNCHANGED vars
    BY <1>5 DEF vars, pipes, env, history, Turn, Unmoved, Alive
  <1>6. QED  BY <1>1, <1>2, <1>3, <1>4, <1>5 DEF Next

LEMMA ReadTyped ==
    ASSUME Typed, NEW word, NEW ok, Took(word, ok)
    PROVE  Typed'
  <1>1. PICK k \in 1..Len(in_pipe) : in_pipe' = SubSeq(in_pipe, k + 1, Len(in_pipe))
    BY DEF Took
  <1>2. QED  BY <1>1, InDrop DEF Typed, Took, Brain, Alive

LEMMA TypedStep ==
    ASSUME ProcessKept, Typed, [Next]_vars
    PROVE  Typed'
  <1>1. CASE Stop
    BY <1>1 DEF Stop, Typed, Brain, Alive, pipes, env
  <1>2. CASE Kept
    BY <1>2 DEF Kept, Typed, Brain
  <1>3. ASSUME NEW m \in Text, Wrote(m)
        PROVE  Typed'
    BY <1>3, OutAppend DEF Wrote, Typed, Brain
  <1>4. CASE Asks
    BY <1>4, OutAppend, Texts DEF Asks, Typed, Brain
  <1>5. CASE AsksNobody
    BY <1>5 DEF AsksNobody, Typed, Brain
  <1>6. ASSUME NEW patience, NEW bad, GaveUp(patience, bad)
        PROVE  Typed'
    BY <1>6 DEF GaveUp, Typed, Brain, Alive
  <1>7. CASE NewProcess
    BY <1>7 DEF NewProcess, Typed, Brain, Fresh
  <1>8. CASE Heard /\ Unmoved /\ engine' \in Brain'
    <2>1. PICK k \in 1..Len(out_pipe) :
            /\ out_pipe' = SubSeq(out_pipe, k + 1, Len(out_pipe))
            /\ \/ in_pipe' = Append(in_pipe, Message("uciok"))
               \/ in_pipe' = Append(in_pipe, Message("readyok"))
               \/ UNCHANGED in_pipe
            /\ engine'.search # 0 => Alive'
      <3>1. engine.search # 0 => Alive
        BY DEF Typed
      <3>2. QED  BY <1>8, <3>1 DEF Heard
    <2>2. out_pipe' \in Seq(Text)
      BY <2>1, OutDrop DEF Typed
    <2>3. in_pipe' \in Seq(Text)
      BY <2>1, InAppend, Texts DEF Typed
    <2>4. QED  BY <1>8, <2>1, <2>2, <2>3 DEF Typed, Unmoved
  <1>9. CASE Answered /\ Unmoved /\ engine' \in Brain'
    <2>1. Bestmove(engine.search) \in Text
      BY Texts DEF Typed, Brain
    <2>2. QED  BY <1>9, <2>1, InAppend DEF Typed, Unmoved, Answered
  <1>10. CASE Chatted /\ Unmoved
    <2>1. in_pipe' \in Seq(Text)
      BY <1>10, InAppend, Texts DEF Typed, Chatted, Chat
    <2>2. QED  BY <1>10, <2>1 DEF Typed, Unmoved, Chatted, Chat, Brain
  <1>11. CASE Failed /\ Unmoved /\ engine' \in Brain'
    BY <1>11 DEF Typed, Unmoved, Failed
  <1>12. CASE Unmoved /\ UNCHANGED <<out_pipe, in_pipe, engine>> /\ (Alive' <=> Alive)
    BY <1>12 DEF Typed, Unmoved, Brain
  <1>13. CASE Effect
    <2>1. ASSUME NEW place, NEW word, NEW ok, NEW patience, NEW bad,
                 pc = place /\ (Took(word, ok) \/ GaveUp(patience, bad))
          PROVE  Typed'
      BY <2>1, <1>6, ReadTyped
    <2>4. ASSUME NEW ok, Took("uciok", ok)
          PROVE  Typed'
      BY <2>4, ReadTyped
    <2>2. Message("isready") \in Text /\ Message("uci") \in Text
      BY Texts
    <2>3. QED  BY <1>13, <1>2, <1>3, <1>4, <1>5, <1>7, <2>1, <2>2, <2>4 DEF Effect
  <1>14. CASE Worker
    <2>1. CASE Begin
      BY <1>12, <2>1 DEF Begin, pipes, env, history, Unmoved, Alive
    <2>2. QED  BY <1>13, <1>14, <2>1, WorkerEffect DEF Typed
  <1>15. CASE EngineProgram
    <2>1. CASE Strayed /\ Unmoved /\ engine' \in Brain'
      <3>1. out_pipe' \in Seq(Text) /\ in_pipe' \in Seq(Text)
        BY <2>1, OutDrop, InAppend, Texts DEF Strayed, Typed
      <3>2. QED  BY <2>1, <3>1 DEF Strayed, Typed, Unmoved
    <2>2. QED  BY <1>8, <1>9, <1>10, <1>11, <1>15, <2>1, EngineEffect DEF Typed, Chatted
  <1>16. CASE writeToOpenPipes
    <2>1. Unmoved /\ UNCHANGED <<out_pipe, engine>> /\ (Alive' <=> Alive)
      BY <1>16 DEF writeToOpenPipes, history, Unmoved, env, Alive
    <2>2. in_pipe' = Append(in_pipe, Message("nul")) \/ UNCHANGED in_pipe
      BY <1>16 DEF writeToOpenPipes
    <2>3. QED  BY <1>10, <1>12, <2>1, <2>2 DEF Chatted, Chat
  <1>17. CASE UNCHANGED vars
    BY <1>12, <1>17 DEF vars, pipes, env, history, Unmoved, Alive
  <1>18. QED
    BY <1>1, <1>14, <1>15, <1>16, <1>17 DEF Next

LEMMA WasClear ==
    ASSUME Turn, Clear', config' = config
    PROVE  Clear
  BY ThrowingKept DEF Turn, Effect, Kept, Wrote, Took, GaveUp, Asks, AsksNobody, NewProcess, Unmoved, Clear

-----------------------------------------------------------------------------
(* The handshake.                                                          *)

LEMMA ShakenTook ==
    ASSUME Typed, Shaken, NEW word, NEW ok, Took(word, ok), ok[2] # "uciok",
           pc[2] = "uciok" => word = "uciok"
    PROVE  Shaken'
  <1>1. PICK k \in 1..Len(in_pipe) :
          /\ in_pipe' = SubSeq(in_pipe, k + 1, Len(in_pipe))
          /\ pc' = pc \/ (pc' = ok /\ \E i \in 1..k : Says(in_pipe[i], word))
    BY DEF Took
  <1>2. UNCHANGED out_pipe
    BY DEF Took
  <1>3. /\ Len(in_pipe) \in Nat /\ \A w : In(w) \subseteq 1..Len(in_pipe)
        /\ \A w : In(w)' = {i \in 1..(Len(in_pipe) - k) : i + k \in In(w)}
    BY <1>1, InDrop DEF Typed
  <1>4. \A w : Out(w)' = Out(w)
    BY <1>2, Same
  <1>5. CASE pc' = pc
    BY <1>2, <1>3, <1>4, <1>5 DEF Shaken
  <1>6. CASE pc' = ok /\ pc[2] = "uciok" /\ \E i \in 1..k : Says(in_pipe[i], word)
    <2>1. PICK i \in 1..k : i \in In("uciok")
      BY <1>3, <1>6, LenProperties DEF In, At, Typed
    <2>2. Out("uci") = {} /\ \A j \in In("uciok") : j <= i
      BY <2>1 , <1>6 DEF Shaken
    <2>3. In("uciok")' = {}
      BY <1>3, <2>1, <2>2
    <2>4. QED  BY <1>4, <1>6, <2>2, <2>3 DEF Shaken
  <1>7. CASE pc' = ok /\ pc[2] # "uciok"
    BY <1>3, <1>4, <1>7 DEF Shaken
  <1>8. QED  BY <1>1, <1>5, <1>6, <1>7

LEMMA ShakenHeard ==
    ASSUME Typed, Shaken, Heard, Unmoved
    PROVE  Shaken'
  <1>1. PICK k \in 1..Len(out_pipe) :
         /\ out_pipe' = SubSeq(out_pipe, k + 1, Len(out_pipe))
         /\ \/ k \in Out("uci") /\ in_pipe' = Append(in_pipe, Message("uciok"))
            \/ k \in Out("isready") /\ in_pipe' = Append(in_pipe, Message("readyok"))
            \/ k \notin Out("uci") /\ UNCHANGED in_pipe
    BY DEF Heard, Out, At, Says
  <1>2. /\ Len(out_pipe) \in Nat /\ \A w : Out(w) \subseteq 1..Len(out_pipe)
        /\ Len(out_pipe') = Len(out_pipe) - k
        /\ \A w : Out(w)' = {i \in 1..(Len(out_pipe) - k) : i + k \in Out(w)}
    BY <1>1, OutDrop DEF Typed
  <1>3. pc' = pc
    BY DEF Unmoved
  <1>4. CASE k \in Out("uci") /\ in_pipe' = Append(in_pipe, Message("uciok"))
    <2>1. /\ Len(in_pipe) \in Nat /\ In("readyok") \subseteq 1..Len(in_pipe)
          /\ In("uciok")' = In("uciok") \cup {Len(in_pipe) + 1}
          /\ In("readyok")' = In("readyok")
      BY <1>4, InAppend, Texts DEF Typed
    <2>2. pc[2] = "uciok" /\ In("uciok") = {} /\ k = Len(out_pipe)
      BY <1>4 DEF Shaken
    <2>3. Out("uci")' = {} /\ Out("isready")' = {}
      BY <1>2, <2>2
    <2>4. QED  BY <1>3, <2>1, <2>2, <2>3 DEF Shaken
  <1>5. CASE k \in Out("isready") /\ in_pipe' = Append(in_pipe, Message("readyok"))
    <2>1. In("uciok")' = In("uciok")
      BY <1>5, InAppend, Texts DEF Typed
    <2>2. k \notin Out("uci")
      BY <1>5 DEF Out, At, Says
    <2>3. CASE pc[2] # "uciok"
      BY <1>2, <1>3, <2>1, <2>3 DEF Shaken
    <2>4. CASE pc[2] = "uciok"
      <3>1. In("uciok") = {} /\ Out("uci") = {Len(out_pipe)}
        BY <1>5, <2>4 DEF Shaken
      <3>2. Out("uci")' = {Len(out_pipe) - k} /\ In("uciok")' = {}
        BY <1>2, <2>1, <2>2, <3>1
      <3>3. QED  BY <1>2, <1>3, <2>4, <3>2 DEF Shaken
    <2>5. QED  BY <2>3, <2>4
  <1>6. CASE k \notin Out("uci") /\ UNCHANGED in_pipe
    <2>1. \A w : In(w)' = In(w)
      BY <1>6, Same
    <2>2. QED  BY <1>2, <1>3, <1>6, <2>1 DEF Shaken
  <1>7. QED  BY <1>1, <1>4, <1>5, <1>6

LEMMA ShakenStep ==
    ASSUME Typed, Shaken, Turn, Clear, Clear'
    PROVE  Shaken'
  <1>1. CASE Kept /\ Hop
    BY <1>1, Same DEF Kept, Hop, Calm, Shaken
  <1>2. ASSUME NEW m \in Text, Wrote(m), ~Says(m, "uci"), pc[2] # "uciok", pc'[2] # "uciok"
        PROVE  Shaken'
    <2>1. Out("uci")' = Out("uci") /\ In("uciok")' = In("uciok")
      BY <1>2, OutAppend, Same DEF Wrote, Typed
    <2>2. QED  BY <1>2, <2>1 DEF Shaken
  <1>3. CASE Wrote(Message("uci")) /\ pc[2] # "uciok" /\ pc'[2] = "uciok"
    <2>1. Out("uci")' = {Len(out_pipe')} /\ In("uciok")' = {}
      BY <1>3, OutAppend, Same, Texts DEF Wrote, Typed, Shaken
    <2>2. QED  BY <1>3, <2>1 DEF Shaken
  <1>4. CASE Asks
    <2>1. Out("uci")' = Out("uci") /\ In("uciok")' = In("uciok")
      BY <1>4, OutAppend, Same, Texts DEF Asks, Typed
    <2>2. QED  BY <1>4, <2>1 DEF Shaken, Asks, Think
  <1>5. CASE AsksNobody \/ NewProcess
    BY <1>5, Same DEF AsksNobody, NewProcess, Shaken, Over
  <1>6. ASSUME NEW patience, NEW bad, GaveUp(patience, bad), bad[2] # "uciok",
               pc[2] = "uciok" => patience = "ping"
        PROVE  Shaken'
    <2>1. In("uciok") = {} /\ (pc[2] = "uciok" => Out("uci") = {})
      BY <1>6, AtIn DEF GaveUp, Clear, Unread, In, Out, At, Typed
    <2>2. QED  BY <1>6, <2>1, Same DEF GaveUp, Shaken
  <1>7. CASE Unmoved /\ Heard
    BY <1>7, ShakenHeard
  <1>8. CASE Unmoved /\ Answered
    <2>1. In("uciok")' = In("uciok") /\ In("readyok")' = In("readyok")
      BY <1>8, InAppend, Texts DEF Answered, Typed, Brain
    <2>2. QED  BY <1>8, <2>1, Same DEF Unmoved, Answered, Shaken
  <1>9. CASE Unmoved /\ Chatted
    <2>1. In("uciok")' = In("uciok") /\ In("readyok")' = In("readyok")
      BY <1>9, InAppend, Texts DEF Chatted, Chat, Typed
    <2>2. QED  BY <1>9, <2>1, Same DEF Unmoved, Chatted, Chat, Shaken
  <1>10. CASE Unmoved /\ UNCHANGED <<out_pipe, in_pipe>>
    BY <1>10, Same DEF Unmoved, Shaken
  <1>11. ASSUME NEW ping \in Pings, pc = <<ping[1], "readyok">>,
                Took("readyok", ping[2]) \/ GaveUp("ping", ping[3])
         PROVE  Shaken'
    <2>1. ping[2][2] # "uciok" /\ ping[3][2] # "uciok"
      BY DEF Pings, Idle
    <2>2. QED  BY <1>6, <1>11, <2>1, ShakenTook
  <1>12. ASSUME NEW shake \in Shakes, pc = <<shake[1], "uciok">>,
                Took("uciok", shake[2]) \/ GaveUp("ping", shake[3])
         PROVE  Shaken'
    <2>1. shake[2][2] # "uciok" /\ shake[3][2] # "uciok"
      BY DEF Shakes
    <2>2. QED  BY <1>6, <1>12, <2>1, ShakenTook
  <1>13. CASE \/ pc = Think /\ (Took("bestmove", <<"move", "done">>) \/ GaveUp("clock", <<"move", "done">>))
              \/ pc = <<"late", "wait">> /\ (Took("bestmove", Idle) \/ GaveUp("grace", Idle))
    BY <1>6, <1>13, ShakenTook DEF Think, Idle
  <1>14. CASE Effect
    <2>1. ~stop /\ ~stop' /\ ~Throwing
      BY DEF Clear
    <2>2. Message("isready") \in Text /\ ~Says(Message("isready"), "uci")
      BY Texts
    <2>3. ASSUME NEW m \in Text, Wrote(m), m.say \notin {"go", "uci", "isready"}, Hop
          PROVE  Shaken'
      BY <1>2, <2>3 DEF Says, Hop, Calm
    <2>4. QED  BY <1>1, <1>2, <1>3, <1>4, <1>5, <1>11, <1>12, <1>13, <1>14, <2>1, <2>2, <2>3 DEF Effect
  <1>15. QED
    BY <1>7, <1>8, <1>9, <1>10, <1>14 DEF Turn, Failed

-----------------------------------------------------------------------------
(* The pings.                                                              *)

\* Nothing is left of a ping.
Quiet == Out("isready") = {} /\ In("readyok") = {}

LEMMA PingsTook ==
    ASSUME Typed, PingsKept, Shaken, NEW word, NEW ok, Took(word, ok), ok[2] # "readyok",
           \/ pc[2] = "readyok" /\ word = "readyok"
           \/ pc[2] = "uciok" /\ word = "uciok"
           \/ pc[2] \notin {"readyok", "uciok"} /\ pc \notin Handshake /\ ok # <<"move", "go">>
    PROVE  PingsKept'
  <1>1. PICK k \in 1..Len(in_pipe) :
          /\ in_pipe' = SubSeq(in_pipe, k + 1, Len(in_pipe))
          /\ pc' = pc \/ (pc' = ok /\ \E i \in 1..k : Says(in_pipe[i], word))
    BY DEF Took
  <1>2. /\ UNCHANGED <<out_pipe, engine>> /\ (Alive' <=> Alive)
        /\ \A w : Out(w)' = Out(w)
    BY Same DEF Took, Alive
  <1>3. /\ Len(in_pipe) \in Nat /\ \A w : In(w) \subseteq 1..Len(in_pipe)
        /\ \A w : In(w)' = {i \in 1..(Len(in_pipe) - k) : i + k \in In(w)}
    BY <1>1, InDrop DEF Typed
  <1>4. /\ In("readyok") = {} => In("readyok")' = {}
        /\ One(In("readyok")) => One(In("readyok")')
    BY <1>3 DEF One
  <1>5. CASE pc' = pc
    BY <1>2, <1>4, <1>5 DEF PingsKept
  <1>6. CASE pc' = ok /\ pc[2] = "readyok" /\ \E i \in 1..k : Says(in_pipe[i], word)
    <2>1. PICK i \in 1..k : i \in In("readyok")
      BY <1>3, <1>6, LenProperties DEF In, At, Typed
    <2>2. Out("isready") = {} /\ One(In("readyok"))
      BY <2>1, <1>6 DEF PingsKept
    <2>3. In("readyok")' = {}
      BY <1>3, <2>1, <2>2 DEF One
    <2>4. QED  BY <1>2, <1>6, <2>2, <2>3 DEF PingsKept
  <1>7. CASE pc' = ok /\ pc[2] = "uciok" /\ \E i \in 1..k : Says(in_pipe[i], word)
    <2>1. PICK i \in 1..k : i \in In("uciok")
      BY <1>3, <1>7, LenProperties DEF In, At, Typed
    <2>2. Out("isready") = {} /\ \A j \in In("readyok") : j <= i
      BY <2>1, <1>7 DEF Shaken
    <2>3. In("readyok")' = {}
      BY <1>3, <2>1, <2>2
    <2>4. QED  BY <1>2, <1>7, <2>2, <2>3 DEF PingsKept
  <1>8. CASE pc' = ok /\ pc[2] \notin {"readyok", "uciok"}
    BY <1>2, <1>4, <1>8 DEF PingsKept
  <1>9. QED  BY <1>1, <1>5, <1>6, <1>7, <1>8

LEMMA PingsGaveUp ==
    ASSUME Typed, PingsKept, Clear', NEW bad, GaveUp("ping", bad),
           bad[2] # "readyok", bad # <<"move", "go">>
    PROVE  PingsKept'
  <1>1. In("readyok") = {} /\ ~Responsive
    BY AtIn DEF GaveUp, Clear, In, Typed
  <1>2. \/ ~Alive \/ engine.frozen \/ Out("isready") = {}
    BY <1>1 DEF Responsive, Out, At, Says, Reacts, Typed, Brain
  <1>3. UNCHANGED engine /\ (Alive' <=> Alive) /\ Out("isready")' = Out("isready") /\ In("readyok")' = In("readyok")
    BY Same DEF GaveUp, Alive
  <1>4. QED  BY <1>1, <1>2, <1>3 DEF GaveUp, PingsKept

LEMMA PingsHeard ==
    ASSUME Typed, PingsKept, Heard, Unmoved
    PROVE  PingsKept'
  <1>1. PICK k \in 1..Len(out_pipe) :
         /\ out_pipe' = SubSeq(out_pipe, k + 1, Len(out_pipe))
         /\ \/ k \in Out("uci") /\ in_pipe' = Append(in_pipe, Message("uciok")) /\ Alive'
            \/ k \in Out("isready") /\ in_pipe' = Append(in_pipe, Message("readyok")) /\ Alive'
            \/ k \notin Out("isready") /\ UNCHANGED in_pipe
    BY DEF Heard, Out, At, Says
  <1>2. /\ Len(out_pipe) \in Nat /\ \A w : Out(w) \subseteq 1..Len(out_pipe)
        /\ \A w : Out(w)' = {i \in 1..(Len(out_pipe) - k) : i + k \in Out(w)}
    BY <1>1, OutDrop DEF Typed
  <1>3. pc' = pc /\ Alive /\ ~engine.frozen
    BY DEF Unmoved, Heard
  <1>4. /\ Out("isready") = {} => Out("isready")' = {}
        /\ One(Out("isready")) => One(Out("isready")')
    BY <1>2 DEF One
  <1>5. CASE In("readyok")' = In("readyok")
    BY <1>3, <1>4, <1>5 DEF PingsKept
  <1>6. CASE k \in Out("isready") /\ in_pipe' = Append(in_pipe, Message("readyok"))
    <2>1. In("readyok")' = In("readyok") \cup {Len(in_pipe) + 1}
      BY <1>6, InAppend, Texts DEF Typed
    <2>2. CASE pc[2] = "readyok"
      <3>1. One(Out("isready")) /\ In("readyok") = {}
        BY <1>3, <1>6, <2>2 DEF PingsKept
      <3>2. Out("isready")' = {}
        BY <1>2, <1>6, <3>1 DEF One
      <3>3. One(In("readyok")')
        BY <2>1, <3>1 DEF One
      <3>4. pc' # <<"move", "go">>
        BY <1>3, <2>2
      <3>5. QED  BY <1>3, <2>2, <3>2, <3>3, <3>4 DEF PingsKept
    <2>3. CASE pc \in Handshake /\ pc[2] # "readyok"
      BY <1>3, <2>3 DEF PingsKept, Handshake
    <2>4. QED  BY <1>3, <1>6, <2>2, <2>3 DEF PingsKept
  <1>7. CASE in_pipe' = Append(in_pipe, Message("uciok"))
    <2>1. In("readyok")' = In("readyok")
      BY <1>7, InAppend, Texts DEF Typed
    <2>2. QED  BY <1>5, <2>1
  <1>8. QED  BY <1>1, <1>5, <1>6, <1>7, Same

LEMMA PingsStep ==
    ASSUME Typed, Shaken, PingsKept, Turn, Clear, Clear'
    PROVE  PingsKept'
  <1>1. CASE Kept /\ Hop
    BY <1>1, Same DEF Kept, Hop, Calm, PingsKept
  <1>2. ASSUME NEW m \in Text, Wrote(m), ~Says(m, "isready"), Hop, pc \notin Handshake
        PROVE  PingsKept'
    <2>1. Out("isready")' = Out("isready") /\ In("readyok")' = In("readyok") /\ UNCHANGED engine /\ (Alive' <=> Alive)
      BY <1>2, OutAppend, Same DEF Wrote, Typed
    <2>2. QED  BY <1>2, <2>1 DEF PingsKept, Hop, Calm
  <1>3. ASSUME NEW ping \in Pings, pc = <<ping[1], "isready">>, pc' = <<ping[1], "readyok">>, Wrote(Message("isready"))
        PROVE  PingsKept'
    <2>1. /\ Out("isready")' = Out("isready") \cup {Len(out_pipe) + 1} /\ In("readyok")' = In("readyok")
          /\ UNCHANGED engine /\ Alive /\ Alive'
      BY <1>3, OutAppend, Same, Texts DEF Wrote, Typed
    <2>2. pc[2] = "isready" /\ pc \notin Handshake /\ pc' # <<"move", "go">> /\ pc'[2] = "readyok"
      BY <1>3 DEF Handshake
    <2>3. CASE Quiet
      <3>1. One(Out("isready")') /\ In("readyok")' = {}
        BY <2>1, <2>3 DEF Quiet, One
      <3>2. QED  BY <2>2, <3>1 DEF PingsKept
    <2>4. CASE engine.frozen /\ In("readyok") = {}
      BY <2>1, <2>2, <2>4 DEF PingsKept
    <2>5. QED  BY <2>1, <2>2, <2>3, <2>4 DEF PingsKept, Quiet
  <1>4. ASSUME NEW shake \in Shakes, pc' = <<shake[1], "uciok">>
        PROVE  PingsKept'
    BY <1>4 DEF PingsKept, Handshake, Shakes
  <1>5. CASE Asks
    <2>1. Out("isready")' = Out("isready") /\ In("readyok")' = In("readyok")
      BY <1>5, OutAppend, Same, Texts DEF Asks, Typed
    <2>2. QED  BY <1>5, <2>1 DEF PingsKept, Asks, Think
  <1>6. CASE AsksNobody
    BY <1>6 DEF PingsKept, AsksNobody
  <1>7. CASE NewProcess
    BY <1>7 DEF PingsKept, NewProcess, Over, Handshake
  <1>8. CASE Unmoved /\ Heard
    BY <1>8, PingsHeard
  <1>9. CASE Unmoved /\ (Answered \/ Chatted)
    <2>1. In("readyok")' = In("readyok")
      BY <1>9, InAppend, Texts DEF Answered, Chatted, Chat, Typed, Brain
    <2>2. /\ Out("isready")' = Out("isready") /\ pc' = pc
          /\ (Alive' <=> Alive) /\ (engine'.frozen <=> engine.frozen)
      BY <1>9, Same DEF Unmoved, Answered, Chatted, Chat, Typed, Brain
    <2>3. QED  BY <2>1, <2>2 DEF PingsKept
  <1>10. CASE Unmoved /\ (Failed \/ (UNCHANGED <<out_pipe, in_pipe, engine>> /\ (Alive' <=> Alive)))
    <2>1. In("readyok")' = In("readyok") /\ Out("isready")' = Out("isready") /\ pc' = pc
      BY <1>10, Same DEF Failed, Unmoved
    <2>2. \/ ~Alive' \/ (Alive' /\ engine'.frozen /\ ~engine.frozen /\ Alive) \/ ((Alive' <=> Alive) /\ UNCHANGED engine)
      BY <1>10 DEF Failed
    <2>3. QED  BY <2>1, <2>2 DEF PingsKept
  <1>11. ASSUME NEW ping \in Pings, pc = <<ping[1], "readyok">>,
                Took("readyok", ping[2]) \/ GaveUp("ping", ping[3])
         PROVE  PingsKept'
    <2>1. ping[2][2] # "readyok" /\ ping[3][2] # "readyok" /\ ping[3] # <<"move", "go">>
      BY DEF Pings, Idle
    <2>2. pc[2] = "readyok"
      BY <1>11
    <2>3. QED  BY <1>11, <2>1, <2>2, PingsTook, PingsGaveUp
  <1>12. ASSUME NEW shake \in Shakes, pc = <<shake[1], "uciok">>,
                Took("uciok", shake[2]) \/ GaveUp("ping", shake[3])
         PROVE  PingsKept'
    <2>1. shake[2][2] # "readyok" /\ shake[3][2] # "readyok" /\ shake[3] # <<"move", "go">>
      BY DEF Shakes
    <2>2. pc[2] = "uciok"
      BY <1>12
    <2>3. QED  BY <1>12, <2>1, <2>2, PingsTook, PingsGaveUp
  <1>13. CASE \/ pc = Think /\ Took("bestmove", <<"move", "done">>)
              \/ pc = <<"late", "wait">> /\ Took("bestmove", Idle)
    BY <1>13, PingsTook DEF Think, Idle, Handshake
  <1>14. ASSUME NEW patience, NEW bad, GaveUp(patience, bad), bad[2] # "readyok", bad # <<"move", "go">>,
                pc[2] # "readyok", pc \notin Handshake
         PROVE  PingsKept'
    BY <1>14, Same DEF GaveUp, PingsKept, Alive
  <1>15. CASE \/ pc = Think /\ GaveUp("clock", <<"move", "done">>)
              \/ pc = <<"late", "wait">> /\ GaveUp("grace", Idle)
    BY <1>14, <1>15 DEF Think, Idle, Handshake
  <1>16. CASE Effect
    <2>1. ~stop /\ ~stop' /\ ~Throwing
      BY DEF Clear
    <2>2. QED
      BY <1>1, <1>2, <1>3, <1>4, <1>5, <1>6, <1>7, <1>11, <1>12, <1>13, <1>15, <1>16, <2>1 DEF Effect, Says
  <1>17. QED
    BY <1>8, <1>9, <1>10, <1>16 DEF Turn

LEMMA OutstandingWill ==
    ASSUME TRUE
    PROVE  Outstanding' <=> engine'.search # 0 \/ Out("go")' # {} \/ In("bestmove")' # {}
  BY DEF Outstanding, Unread, Out, In, At

-----------------------------------------------------------------------------
(* The search.                                                             *)

\* The go, the answers and the engine are as they were; an isready may have been written after the go.
Still ==
    /\ UNCHANGED <<engine, asked>> /\ (Alive' <=> Alive)
    /\ Out("go")' = Out("go") /\ \A i \in Out("go") : out_pipe'[i] = out_pipe[i]
    /\ In("bestmove")' = In("bestmove") /\ \A i \in In("bestmove") : in_pipe'[i] = in_pipe[i]
    /\ In("readyok")' = In("readyok")
    /\ \A i \in Out("isready")' : i \in Out("isready") \/ \A g \in Out("go") : g < i

LEMMA StillSearch ==
    ASSUME SearchKept, Still
    PROVE  NumbersKept' /\ OneAnswer' /\ (Outstanding' <=> Outstanding)
  <1>1. Outstanding' <=> engine'.search # 0 \/ Out("go")' # {} \/ In("bestmove")' # {}
    BY OutstandingWill
  <1>2. Outstanding' <=> Outstanding
    BY <1>1, OutstandingIs DEF Still
  <1>3. NumbersKept'
    BY DEF Still, SearchKept, NumbersKept
  <1>4. OneAnswer'
    BY DEF Still, SearchKept, OneAnswer
  <1>5. QED  BY <1>2, <1>3, <1>4

\* With no answer outstanding there is nothing to say.
LEMMA NothingAsked ==
    ASSUME ~Outstanding
    PROVE  Asked
  BY OutstandingIs DEF Asked

LEMMA HopSearch ==
    ASSUME SearchKept, Still, UNCHANGED answer, Hop, Clear'
    PROVE  SearchKept'
  <1>1. NumbersKept' /\ OneAnswer' /\ (Outstanding' <=> Outstanding)
    BY StillSearch
  <1>2. Asked
    BY DEF SearchKept
  <1>3. CASE ~Outstanding
    <2>1. ~Outstanding'
      BY <1>1, <1>3
    <2>2. Asked'
      BY <2>1, NothingAsked, PTL
    <2>3. QED  BY <1>1, <2>2 DEF SearchKept
  <1>4. CASE Outstanding
    <2>1. ~astray'
      BY DEF Clear
    <2>2. CASE GivenUp /\ pc \notin Searching
      <3>1. pc' \in Given /\ pc' \notin Searching
        BY <2>2 DEF Hop, GivenUp, Given, Idle, Searching, Judging, Think
      <3>2. GivenUp'
        BY <2>2, <3>1 DEF GivenUp, Still
      <3>3. pc' \notin Judging
        BY <3>1 DEF Searching
      <3>4. QED  BY <1>1, <3>1, <3>2, <3>3 DEF SearchKept, Asked
    <2>3. CASE pc \in Searching
      <3>1. answer = 0
        BY <1>2, <1>4, <2>3 DEF Asked
      <3>2. /\ pc' \in Searching
            /\ pc' \in Judging => pc \in Judging
            /\ pc = <<"move", "crash">> => pc' = <<"move", "crash">>
        BY <1>4, <2>1, <2>3, <3>1 DEF Hop
      <3>3. Asked'
        BY <1>1, <1>2, <2>3, <3>1, <3>2 DEF Asked, Still
      <3>4. QED  BY <1>1, <3>3 DEF SearchKept
    <2>4. QED  BY <1>2, <1>4, <2>2, <2>3 DEF Asked
  <1>5. QED  BY <1>3, <1>4

LEMMA UnmovedSearch ==
    ASSUME SearchKept, Still, UNCHANGED <<pc, answer>>
    PROVE  SearchKept'
  <1>1. NumbersKept' /\ OneAnswer' /\ (Outstanding' <=> Outstanding)
    BY StillSearch
  <1>2. GivenUp' <=> GivenUp
    BY DEF GivenUp, Still
  <1>3. Asked'
    BY <1>1, <1>2 DEF Asked, Still, SearchKept
  <1>4. QED  BY <1>1, <1>3 DEF SearchKept

LEMMA SearchTook ==
    ASSUME Typed, SearchKept, NEW word, NEW ok, Took(word, ok),
           \/ word = "bestmove"
           \/ word \in {"readyok", "uciok"} /\ pc = <<"after", "readyok">> /\ ok = <<"move", "judge">> /\ word = "readyok"
           \/ word \in {"readyok", "uciok"} /\ pc \notin Searching /\ (pc \in Given => word = "readyok")
    PROVE  SearchKept'
  <1>1. PICK k \in 1..Len(in_pipe) :
          /\ in_pipe' = SubSeq(in_pipe, k + 1, Len(in_pipe))
          /\ \/ pc' = pc /\ answer' = answer
             \/ /\ pc' = ok
                /\ \E i \in 1..k : Says(in_pipe[i], word)
                /\ word # "bestmove" => answer' = answer
    BY DEF Took
  <1>2. UNCHANGED <<out_pipe, engine, asked>> /\ (Alive' <=> Alive) /\ \A w : Out(w)' = Out(w)
    BY Same DEF Took, Alive
  <1>3. /\ Len(in_pipe) \in Nat /\ \A w : In(w) \subseteq 1..Len(in_pipe)
        /\ Len(in_pipe') = Len(in_pipe) - k
        /\ \A i \in 1..Len(in_pipe') : in_pipe'[i] = in_pipe[i + k]
        /\ \A w : In(w)' = {i \in 1..(Len(in_pipe) - k) : i + k \in In(w)}
    BY <1>1, InDrop DEF Typed
  <1>4. /\ \A i \in In("bestmove")' : in_pipe'[i].n = asked
        /\ One(In("bestmove")')
    BY <1>3 DEF SearchKept, NumbersKept, OneAnswer, One
  <1>5. \A w : In(w) = {} => In(w)' = {}
    BY <1>3
  <1>6. NumbersKept' /\ OneAnswer'
    BY <1>2, <1>4, <1>5 DEF SearchKept, NumbersKept, OneAnswer
  <1>7. Outstanding' <=> engine'.search # 0 \/ Out("go")' # {} \/ In("bestmove")' # {}
    BY OutstandingWill
  <1>8. Outstanding' => Outstanding
    BY <1>2, <1>5, <1>7, OutstandingIs
  <1>9. CASE pc' = pc /\ answer' = answer
    <2>1. GivenUp => GivenUp'
      BY <1>2, <1>5, <1>9 DEF GivenUp
    <2>2. Asked'
      BY <1>2, <1>5, <1>8, <1>9, <2>1 DEF Asked, SearchKept
    <2>3. QED  BY <1>6, <2>2 DEF SearchKept
  <1>10. CASE ~Outstanding'
    <2>1. Asked'
      BY <1>10, NothingAsked, PTL
    <2>2. QED  BY <1>6, <2>1 DEF SearchKept
  <1>11. CASE pc' = ok /\ \E i \in 1..k : Says(in_pipe[i], word)
    <2>1. PICK i \in 1..k : i \in In(word)
      BY <1>3, <1>11, LenProperties DEF In, At, Typed
    <2>2. CASE word = "bestmove"
      <3>1. Out("go") = {} /\ engine.search = 0 /\ One(In("bestmove"))
        BY <2>1, <2>2 DEF SearchKept, OneAnswer
      <3>2. In("bestmove")' = {}
        BY <1>3, <2>1, <2>2, <3>1 DEF One
      <3>3. QED  BY <1>2, <1>7, <1>10, <3>1, <3>2
    <2>3. CASE word \in {"readyok", "uciok"} /\ pc \notin Searching /\ (pc \in Given => word = "readyok")
      <3>1. ~GivenUp
        BY <2>1, <2>3 DEF GivenUp
      <3>2. QED  BY <1>8, <1>10, <2>3, <3>1 DEF SearchKept, Asked
    <2>4. CASE pc = <<"after", "readyok">> /\ ok = <<"move", "judge">> /\ word = "readyok"
      <3>1. pc \in Searching /\ pc # <<"move", "crash">> /\ pc' \in Searching
        BY <1>11, <2>4 DEF Searching, Judging
      <3>2. Out("go") = {}
        BY <2>1, <2>4, <3>1 DEF SearchKept, Asked
      <3>3. answer' = answer
        BY <1>1, <2>4
      <3>4. answer # 0 => ~Outstanding
        BY <3>1 DEF SearchKept, Asked
      <3>5. Asked'
        BY <1>2, <1>8, <3>1, <3>2, <3>3, <3>4 DEF Asked
      <3>6. QED  BY <1>6, <3>5 DEF SearchKept
    <2>5. QED  BY <2>2, <2>3, <2>4
  <1>12. QED  BY <1>1, <1>9, <1>11

LEMMA SearchGaveUp ==
    ASSUME Typed, SearchKept, Clear', NEW patience, NEW bad, GaveUp(patience, bad), UNCHANGED answer,
           \/ pc \notin Searching \cup Given
           \/ pc \in Given /\ pc \notin Searching /\ bad \in Given /\ bad \notin Searching
           \/ pc = <<"after", "readyok">> /\ bad = <<"move", "crash">>
           \/ pc = Think /\ bad = <<"move", "done">>
           \/ pc = <<"late", "wait">> /\ bad = Idle /\ patience = "grace"
    PROVE  SearchKept'
  <1>1. Still
    BY Same DEF GaveUp, Still, Alive
  <1>2. NumbersKept' /\ OneAnswer' /\ (Outstanding' <=> Outstanding)
    BY <1>1, StillSearch
  <1>3. CASE ~Outstanding
    <2>1. ~Outstanding'
      BY <1>2, <1>3
    <2>2. Asked'
      BY <2>1, NothingAsked, PTL
    <2>3. QED  BY <1>2, <2>2 DEF SearchKept
  <1>4. CASE pc \in Given /\ pc \notin Searching /\ bad \in Given /\ bad \notin Searching /\ Outstanding
    <2>1. GivenUp
      BY <1>4 DEF SearchKept, Asked
    <2>2. GivenUp' /\ pc' \notin Searching /\ pc' \notin Judging
      BY <1>1, <1>4, <2>1 DEF GivenUp, Still, GaveUp, Searching
    <2>3. QED  BY <1>2, <2>2 DEF SearchKept, Asked
  <1>5. CASE Outstanding /\ \/ pc = <<"after", "readyok">> /\ bad = <<"move", "crash">>
                            \/ pc = Think /\ bad = <<"move", "done">>
    <2>1. pc \in Searching /\ pc # <<"move", "crash">> /\ bad \in Searching /\ bad \notin Judging
      BY <1>5 DEF Searching, Judging, Think
    <2>2. pc' = bad
      BY DEF GaveUp
    <2>3. Asked'
      BY <1>1, <1>2, <1>5, <2>1, <2>2 DEF SearchKept, Asked, Still
    <2>4. QED  BY <1>2, <2>3 DEF SearchKept
  <1>6. CASE Outstanding /\ pc = <<"late", "wait">> /\ bad = Idle /\ patience = "grace"
    <2>1. pc \in Judging
      BY <1>6 DEF Judging
    <2>2. Out("go") = {} /\ in_pipe = << >> /\ ~Responsive
      BY <1>6, <2>1 DEF SearchKept, Asked, GaveUp
    <2>3. In("bestmove") = {} /\ In("readyok") = {}
      BY <2>2, AtIn DEF In, Typed
    <2>4. engine.search # 0 /\ Alive
      BY <1>6, <2>2, <2>3, OutstandingIs DEF Typed
    <2>5. engine.frozen
      BY <2>2, <2>4 DEF Responsive
    <2>6. pc' = Idle /\ Idle \in Given /\ Idle \notin Searching /\ Idle \notin Judging
      BY <1>6 DEF GaveUp, Given, Searching, Judging, Idle, Think
    <2>7. GivenUp'
      BY <1>1, <2>2, <2>3, <2>4, <2>5, <2>6 DEF GivenUp, Still
    <2>8. QED  BY <1>2, <2>6, <2>7 DEF SearchKept, Asked
  <1>7. CASE Outstanding /\ pc \notin Searching \cup Given
    BY <1>7 DEF SearchKept, Asked, GivenUp
  <1>8. QED  BY <1>3, <1>4, <1>5, <1>6, <1>7

LEMMA SearchHeard ==
    ASSUME Typed, SearchKept, Heard, Unmoved
    PROVE  SearchKept'
  <1>1. PICK k \in 1..Len(out_pipe) :
         /\ out_pipe' = SubSeq(out_pipe, k + 1, Len(out_pipe))
         /\ \A i \in Out("go") : k <= i
         /\ \/ in_pipe' = Append(in_pipe, Message("uciok")) /\ engine'.search = engine.search
            \/ k \in Out("isready") /\ in_pipe' = Append(in_pipe, Message("readyok")) /\ engine'.search = engine.search
            \/ k \in Out("go") /\ UNCHANGED in_pipe /\ engine'.search = out_pipe[k].n
            \/ UNCHANGED in_pipe /\ engine'.search = 0
    BY DEF Heard, Out, Reacts
  <1>2. /\ Len(out_pipe) \in Nat /\ \A w : Out(w) \subseteq 1..Len(out_pipe)
        /\ Len(out_pipe') = Len(out_pipe) - k
        /\ \A i \in 1..Len(out_pipe') : out_pipe'[i] = out_pipe[i + k]
        /\ \A w : Out(w)' = {i \in 1..(Len(out_pipe) - k) : i + k \in Out(w)}
    BY <1>1, OutDrop DEF Typed
  <1>3. UNCHANGED <<pc, answer, asked>> /\ ~engine.frozen
    BY DEF Unmoved, Heard
  <1>4. In("bestmove")' = In("bestmove") /\ \A i \in In("bestmove") : in_pipe'[i] = in_pipe[i]
    BY <1>1, InAppend, Texts, Same DEF Typed
  <1>5. /\ \A i \in Out("go")' : out_pipe'[i].n = asked
        /\ One(Out("go")')
        /\ Out("go") = {} => Out("go")' = {}
    BY <1>2 DEF SearchKept, NumbersKept, OneAnswer, One
  <1>6. ~GivenUp
    BY <1>3 DEF GivenUp
  <1>7. Outstanding' <=> engine'.search # 0 \/ Out("go")' # {} \/ In("bestmove")' # {}
    BY OutstandingWill
  <1>8. CASE engine'.search = engine.search \/ (UNCHANGED in_pipe /\ engine'.search = 0)
    <2>1. NumbersKept' /\ OneAnswer'
      BY <1>3, <1>4, <1>5, <1>8 DEF SearchKept, NumbersKept, OneAnswer
    <2>2. Outstanding' => Outstanding
      BY <1>4, <1>5, <1>7, <1>8, OutstandingIs
    <2>3. \A g \in Out("go")' : \A i \in Out("isready")' : (g + k < i + k) => g < i
      BY <1>2
    <2>4. CASE In("readyok")' = In("readyok")
      <3>1. pc' \in Searching /\ Out("go")' # {} =>
              \/ pc' = <<"move", "crash">>
              \/ In("readyok")' = {} /\ \A g \in Out("go")' : \A i \in Out("isready")' : g < i
        BY <1>2, <1>3, <1>5, <2>3, <2>4 DEF SearchKept, Asked
      <3>2. Asked'
        BY <1>3, <1>5, <1>6, <2>2, <3>1 DEF SearchKept, Asked
      <3>3. QED  BY <2>1, <3>2 DEF SearchKept
    <2>5. CASE k \in Out("isready")
      <3>1. pc \in Searching /\ Out("go") # {} => pc = <<"move", "crash">>
        BY <1>1, <1>2, <2>5 DEF SearchKept, Asked
      <3>2. Asked'
        BY <1>3, <1>5, <1>6, <2>2, <3>1 DEF SearchKept, Asked
      <3>3. QED  BY <2>1, <3>2 DEF SearchKept
    <2>6. CASE in_pipe' = Append(in_pipe, Message("uciok"))
      <3>1. In("readyok")' = In("readyok")
        BY <2>6, InAppend, Texts DEF Typed
      <3>2. QED  BY <2>4, <3>1
    <2>7. CASE UNCHANGED in_pipe
      BY <2>4, <2>7, Same
    <2>8. QED  BY <1>1, <2>5, <2>6, <2>7
  <1>9. CASE k \in Out("go") /\ UNCHANGED in_pipe /\ engine'.search = out_pipe[k].n
    <2>1. Outstanding
      BY <1>9, OutstandingIs
    <2>2. pc \in Searching /\ answer = 0
      BY <1>6, <2>1 DEF SearchKept, Asked
    <2>3. engine'.search = asked /\ Out("go")' = {} /\ In("bestmove")' = {}
      BY <1>2, <1>4, <1>9 DEF SearchKept, NumbersKept, OneAnswer, One
    <2>4. NumbersKept' /\ OneAnswer'
      BY <1>3, <2>3 DEF NumbersKept, OneAnswer, One
    <2>5. Asked'
      BY <1>3, <2>2, <2>3 DEF Asked
    <2>6. QED  BY <2>4, <2>5 DEF SearchKept
  <1>10. QED  BY <1>1, <1>8, <1>9

LEMMA SearchAnswered ==
    ASSUME Typed, SearchKept, Answered, Unmoved
    PROVE  SearchKept'
  <1>1. /\ UNCHANGED <<pc, answer, asked>> /\ ~engine.frozen /\ engine.search # 0 /\ engine'.search = 0
        /\ UNCHANGED out_pipe /\ \A w : Out(w)' = Out(w)
        /\ in_pipe' = Append(in_pipe, Bestmove(engine.search))
    BY Same DEF Unmoved, Answered
  <1>2. engine.search = asked /\ In("bestmove") = {} /\ Out("go") = {} /\ Outstanding
    BY <1>1, OutstandingIs DEF SearchKept, NumbersKept, OneAnswer
  <1>3. In("bestmove")' = {Len(in_pipe) + 1} /\ in_pipe'[Len(in_pipe) + 1].n = asked
    BY <1>1, <1>2, InAppend, Texts DEF Typed, Brain
  <1>4. NumbersKept' /\ OneAnswer'
    BY <1>1, <1>2, <1>3 DEF NumbersKept, OneAnswer, One
  <1>5. pc \in Searching /\ answer = 0
    BY <1>1, <1>2 DEF SearchKept, Asked, GivenUp
  <1>6. Asked'
    BY <1>1, <1>2, <1>5 DEF Asked
  <1>7. QED  BY <1>4, <1>6 DEF SearchKept

LEMMA SearchFailed ==
    ASSUME Typed, SearchKept, Failed, Unmoved
    PROVE  SearchKept'
  <1>1. /\ UNCHANGED <<pc, answer, asked, out_pipe, in_pipe>>
        /\ \A w : Out(w)' = Out(w) /\ In(w)' = In(w)
    BY Same DEF Unmoved, Failed
  <1>2. Outstanding' <=> engine'.search # 0 \/ Out("go")' # {} \/ In("bestmove")' # {}
    BY OutstandingWill
  <1>3. CASE engine'.search = 0
    <2>1. NumbersKept' /\ OneAnswer' /\ (Outstanding' => Outstanding) /\ (GivenUp => ~Outstanding')
      BY <1>1, <1>2, <1>3, OutstandingIs DEF SearchKept, NumbersKept, OneAnswer, GivenUp
    <2>2. QED  BY <1>1, <2>1 DEF SearchKept, Asked
  <1>4. CASE ~engine.frozen /\ engine'.search = engine.search
    <2>1. NumbersKept' /\ OneAnswer' /\ (Outstanding' => Outstanding) /\ ~GivenUp
      BY <1>1, <1>2, <1>4, OutstandingIs DEF SearchKept, NumbersKept, OneAnswer, GivenUp
    <2>2. QED  BY <1>1, <2>1 DEF SearchKept, Asked
  <1>5. QED  BY <1>3, <1>4 DEF Failed

LEMMA SearchStep ==
    ASSUME Typed, PingsKept, SearchKept, Turn, Clear, Clear'
    PROVE  SearchKept'
  <1>1. ASSUME ~Outstanding'
        PROVE  Asked'
    BY <1>1, NothingAsked, PTL
  <1>2. CASE Kept /\ Hop
    <2>1. Still /\ UNCHANGED answer
      BY <1>2, Same DEF Kept, Still
    <2>2. QED  BY <1>2, <2>1, HopSearch
  <1>3. ASSUME NEW m \in Text, Wrote(m), ~Says(m, "go")
        PROVE  Still /\ UNCHANGED answer
    <2>1. /\ out_pipe' = Append(out_pipe, m) /\ UNCHANGED <<in_pipe, engine, asked, answer>>
          /\ (Alive' <=> Alive)
      BY <1>3 DEF Wrote
    <2>2. Out("go")' = Out("go") /\ \A i \in Out("go") : out_pipe'[i] = out_pipe[i]
      BY <1>3, <2>1, OutAppend DEF Typed
    <2>3. \A i \in Out("isready")' : i \in Out("isready") \/ \A g \in Out("go") : g < i
      <3>1. /\ Len(out_pipe) \in Nat /\ Out("go") \subseteq 1..Len(out_pipe)
            /\ Out("isready")' \subseteq Out("isready") \cup {Len(out_pipe) + 1}
        BY <1>3, <2>1, OutAppend DEF Typed
      <3>2. QED  BY <3>1
    <2>4. In("bestmove")' = In("bestmove") /\ In("readyok")' = In("readyok")
      BY <2>1, Same
    <2>5. QED  BY <2>1, <2>2, <2>3, <2>4 DEF Still
  <1>4. ASSUME NEW m \in Text, Wrote(m), ~Says(m, "go"), Hop
        PROVE  SearchKept'
    BY <1>3, <1>4, HopSearch
  <1>5. ASSUME NEW ping \in Pings, pc = <<ping[1], "isready">>, pc' = <<ping[1], "readyok">>, Wrote(Message("isready"))
        PROVE  SearchKept'
    <2>1. Still /\ UNCHANGED answer
      BY <1>3, <1>5, Texts
    <2>2. NumbersKept' /\ OneAnswer' /\ (Outstanding' <=> Outstanding)
      BY <2>1, StillSearch
    <2>3. /\ pc \in Given <=> pc' \in Given
          /\ pc \in Searching <=> pc' \in Searching
          /\ pc # <<"move", "crash">> /\ pc' # <<"move", "crash">> /\ pc' \notin Judging
      BY <1>5 DEF Given, Searching, Judging, Idle, Think, Pings
    <2>4. GivenUp => GivenUp'
      BY <2>1, <2>3 DEF GivenUp, Still
    <2>5. Asked'
      BY <2>1, <2>2, <2>3, <2>4 DEF Asked, SearchKept, Still
    <2>6. QED  BY <2>2, <2>5 DEF SearchKept
  <1>6. ASSUME NEW shake \in Shakes, pc = <<shake[1], "uci">>, Wrote(Message("uci"))
        PROVE  SearchKept'
    <2>1. Still
      BY <1>3, <1>6, Texts
    <2>2. NumbersKept' /\ OneAnswer' /\ (Outstanding' <=> Outstanding)
      BY <2>1, StillSearch
    <2>3. pc \notin Searching \cup Given
      BY <1>6 DEF Shakes, Given, Searching, Judging, Idle, Think
    <2>4. ~Outstanding
      BY <2>3 DEF SearchKept, Asked, GivenUp
    <2>5. QED  BY <1>1, <2>2, <2>4 DEF SearchKept
  <1>7. CASE Asks
    <2>1. ~Outstanding
      BY <1>7 DEF SearchKept, Asked, GivenUp, Asks, Searching, Judging, Given, Think, Idle
    <2>2. engine.search = 0 /\ Out("go") = {} /\ In("bestmove") = {} /\ Out("isready") = {} /\ In("readyok") = {}
      BY <1>7, <2>1, OutstandingIs DEF PingsKept, Asks
    <2>3. Go(asked + 1) \in Text /\ Go(asked + 1).n = asked + 1 /\ \A other : Says(Go(asked + 1), other) <=> other = "go"
      BY Texts DEF Typed
    <2>4. /\ Out("go")' = {Len(out_pipe) + 1} /\ out_pipe'[Len(out_pipe) + 1].n = asked' /\ Out("isready")' = {}
      BY <1>7, <2>2, <2>3, OutAppend DEF Asks, Typed
    <2>5. In("bestmove")' = {} /\ In("readyok")' = {} /\ engine'.search = 0 /\ answer' = 0 /\ pc' = Think
      BY <1>7, <2>2, Same DEF Asks
    <2>6. NumbersKept' /\ OneAnswer'
      BY <2>4, <2>5 DEF NumbersKept, OneAnswer, One
    <2>7. Think \in Searching /\ Think \notin Judging
      BY DEF Think, Searching, Judging
    <2>8. Asked'
      BY <2>4, <2>5, <2>7 DEF Asked
    <2>9. QED  BY <2>6, <2>8 DEF SearchKept
  <1>8. CASE AsksNobody \/ NewProcess
    <2>1. Out("go")' = Out("go") /\ In("bestmove")' = In("bestmove")
          /\ UNCHANGED <<out_pipe, in_pipe, asked>> /\ engine'.search \in {0, engine.search}
      BY <1>8, Same DEF AsksNobody, NewProcess, Fresh
    <2>2. NumbersKept' /\ OneAnswer'
      BY <2>1 DEF SearchKept, NumbersKept, OneAnswer
    <2>3. CASE GivenUp
      <3>1. NewProcess
        BY <1>8, <2>3 DEF AsksNobody, GivenUp
      <3>2. engine'.search = 0 /\ Out("go") = {} /\ In("bestmove") = {}
        BY <2>3, <3>1 DEF NewProcess, Fresh, GivenUp
      <3>3. QED  BY <1>1, <2>1, <2>2, <3>2, OutstandingWill DEF SearchKept
    <2>4. CASE ~GivenUp
      <3>1. pc \notin Searching
        BY <1>8 DEF AsksNobody, NewProcess, Searching, Judging, Think
      <3>2. ~Outstanding
        BY <2>4, <3>1 DEF SearchKept, Asked
      <3>3. QED  BY <1>1, <2>1, <2>2, <3>2, OutstandingIs, OutstandingWill DEF SearchKept
    <2>5. QED  BY <2>3, <2>4
  <1>9. CASE Unmoved /\ (Heard \/ Answered \/ Failed)
    BY <1>9, SearchHeard, SearchAnswered, SearchFailed
  <1>10. CASE Unmoved /\ Chatted
    <2>1. /\ In("bestmove")' = In("bestmove") /\ \A i \in In("bestmove") : in_pipe'[i] = in_pipe[i]
          /\ In("readyok")' = In("readyok")
      BY <1>10, InAppend, Texts DEF Chatted, Chat, Typed
    <2>2. Still /\ UNCHANGED <<pc, answer>>
      BY <1>10, <2>1, Same DEF Unmoved, Chatted, Chat, Still
    <2>3. QED  BY <2>2, UnmovedSearch
  <1>11. CASE Unmoved /\ UNCHANGED <<out_pipe, in_pipe, engine>> /\ (Alive' <=> Alive)
    <2>1. Still /\ UNCHANGED <<pc, answer>>
      BY <1>11, Same DEF Unmoved, Still
    <2>2. QED  BY <2>1, UnmovedSearch
  <1>12. ASSUME NEW ping \in Pings, pc = <<ping[1], "readyok">>,
                Took("readyok", ping[2]) \/ GaveUp("ping", ping[3])
         PROVE  SearchKept'
    <2>1. CASE pc = <<"after", "readyok">> /\ ping[2] = <<"move", "judge">> /\ ping[3] = <<"move", "crash">>
      BY <1>12, <2>1, SearchTook, SearchGaveUp DEF GaveUp
    <2>2. CASE pc \notin Searching /\ (pc \in Given => ping[3] \in Given /\ ping[3] \notin Searching)
      BY <1>12, <2>2, SearchTook, SearchGaveUp DEF GaveUp
    <2>3. QED
      BY <1>12, <2>1, <2>2 DEF Pings, Searching, Judging, Given, Think, Idle
  <1>13. ASSUME NEW shake \in Shakes, pc = <<shake[1], "uciok">>,
                Took("uciok", shake[2]) \/ GaveUp("ping", shake[3])
         PROVE  SearchKept'
    <2>1. pc \notin Searching \cup Given
      BY <1>13 DEF Shakes, Searching, Judging, Given, Think, Idle
    <2>2. QED  BY <1>13, <2>1, SearchTook, SearchGaveUp DEF GaveUp
  <1>14. CASE pc = Think /\ (Took("bestmove", <<"move", "done">>) \/ GaveUp("clock", <<"move", "done">>))
    BY <1>14, SearchTook, SearchGaveUp DEF GaveUp
  <1>15. CASE pc = <<"late", "wait">> /\ (Took("bestmove", Idle) \/ GaveUp("grace", Idle))
    BY <1>15, SearchTook, SearchGaveUp DEF GaveUp
  <1>16. CASE Effect
    <2>1. ~stop /\ ~stop' /\ ~Throwing
      BY DEF Clear
    <2>2. QED
      BY <1>2, <1>4, <1>5, <1>6, <1>7, <1>8, <1>12, <1>13, <1>14, <1>15, <1>16, <2>1 DEF Effect, Says
  <1>17. QED
    BY <1>9, <1>10, <1>11, <1>16 DEF Turn

\* The answer is of the last move asked, or something has gone astray.
LEMMA LastStep ==
    ASSUME ProcessKept, Typed, OfLast, Clear => SearchKept, [Next]_vars
    PROVE  OfLast'
  <1>0. Throwing' <=> Throwing
    BY ConfigStep, ThrowingKept
  <1>1. ASSUME NEW word, NEW ok, Took(word, ok)
        PROVE  OfLast'
    <2>1. CASE answer' = answer
      BY <1>0, <1>1, <2>1 DEF OfLast, Took
    <2>2. CASE Answers(At(in_pipe, "bestmove")) /\ ~astray /\ ~Throwing
      <3>1. SearchKept
        BY <1>1, <2>2 DEF Took, Clear
      <3>2. PICK i \in In("bestmove") : answer' = in_pipe[i].n
        BY <2>2, <3>1 DEF Answers, In, SearchKept, OneAnswer
      <3>3. answer' = asked
        BY <3>1, <3>2 DEF SearchKept, NumbersKept
      <3>4. QED  BY <1>1, <3>3 DEF OfLast, Took
    <2>3. CASE astray \/ Throwing
      BY <1>0, <1>1, <2>3 DEF OfLast, Took
    <2>4. QED  BY <1>1, <2>1, <2>2, <2>3 DEF Took
  <1>2. ASSUME NEW patience, NEW bad, GaveUp(patience, bad)
        PROVE  OfLast'
    BY <1>0, <1>2 DEF GaveUp, OfLast
  <1>3. ASSUME NEW place, NEW word, NEW ok, NEW patience, NEW bad,
               pc = place /\ (Took(word, ok) \/ GaveUp(patience, bad))
        PROVE  OfLast'
    BY <1>1, <1>2, <1>3
  <1>4. CASE Kept \/ (\E m : Wrote(m)) \/ Asks \/ AsksNobody \/ NewProcess \/ Unmoved
    BY <1>0, <1>4 DEF Kept, Wrote, Asks, AsksNobody, NewProcess, Unmoved, OfLast
  <1>5. CASE Effect
    BY <1>1, <1>3, <1>4, <1>5 DEF Effect
  <1>6. CASE Worker
    <2>1. CASE Begin
      BY <1>4, <2>1 DEF Begin, history, Unmoved
    <2>2. QED  BY <1>5, <1>6, <2>1, WorkerEffect DEF Typed
  <1>7. CASE EngineProgram
    BY <1>4, <1>7, EngineEffect DEF Typed
  <1>8. CASE writeToOpenPipes \/ Stop \/ UNCHANGED vars
    BY <1>0, <1>8 DEF writeToOpenPipes, Stop, vars, history, OfLast
  <1>9. QED  BY <1>6, <1>7, <1>8 DEF Next

-----------------------------------------------------------------------------
(* The byte of writeToOpenPipes.                                           *)

\* It is there when the main thread has come to the end, and then either the flag is set, and nothing is read,
\* or no game is left that could read.
ByteKept ==
    /\ HasByte => main = "destroying"
    /\ main = "destroying" => stop \/ (past = 0 /\ pc \in {Idle, <<"quit", "unlist">>, <<"quit", "reap">>, Over})

LEMMA ByteIs ==
    ASSUME TRUE
    PROVE  (HasByte <=> In("nul") # {}) /\ (HasByte' <=> In("nul")' # {})
  BY DEF HasByte, In, At

LEMMA ByteStep ==
    ASSUME ProcessKept, Typed, ByteKept, [Next]_vars
    PROVE  ByteKept' /\ (HasByte => HasByte')
  <1>1. ASSUME UNCHANGED in_pipe
        PROVE  HasByte' <=> HasByte
    BY <1>1, ByteIs, Same
  <1>2. ASSUME NEW k \in 1..Len(in_pipe), in_pipe' = SubSeq(in_pipe, k + 1, Len(in_pipe))
        PROVE  HasByte' => HasByte
    <2>1. In("nul")' = {i \in 1..(Len(in_pipe) - k) : i + k \in In("nul")}
      BY <1>2, InDrop DEF Typed
    <2>2. QED  BY <2>1, ByteIs
  <1>3. ASSUME NEW m \in Text, in_pipe' = Append(in_pipe, m), ~Says(m, "nul")
        PROVE  HasByte' <=> HasByte
    BY <1>3, InAppend, ByteIs DEF Typed
  <1>4. CASE Begin \/ Borrow
    <2>1. CASE Begin
      <3>1. main = "waiting" /\ UNCHANGED <<in_pipe, main>>
        BY <2>1 DEF Begin, pipes
      <3>2. QED  BY <1>1, <3>1 DEF ByteKept
    <2>2. CASE Borrow
      <3>1. (main = "destroying" => stop) /\ UNCHANGED <<in_pipe, main, stop>>
        BY <2>2 DEF Borrow, pipes, ByteKept
      <3>2. QED  BY <1>1, <3>1 DEF ByteKept
    <2>3. QED  BY <1>4, <2>1, <2>2
  <1>5. CASE InStart
    <2>1. /\ main = "destroying" => stop
          /\ UNCHANGED main /\ (stop => stop')
          /\ UNCHANGED in_pipe \/ (~stop /\ \E k \in 1..Len(in_pipe) : in_pipe' = SubSeq(in_pipe, k + 1, Len(in_pipe)))
      BY <1>5 DEF InStart, ByteKept, Idle, Over
    <2>2. QED  BY <1>1, <1>2, <2>1 DEF ByteKept
  <1>6. CASE InGame
    <2>1. /\ main = "destroying" => stop
          /\ UNCHANGED main /\ (stop => stop')
          /\ UNCHANGED in_pipe \/ (~stop /\ \E k \in 1..Len(in_pipe) : in_pipe' = SubSeq(in_pipe, k + 1, Len(in_pipe)))
      BY <1>6 DEF InGame, ByteKept, Idle, Over, Game
    <2>2. QED  BY <1>1, <1>2, <2>1 DEF ByteKept
  <1>7. CASE InQuit \/ InKill("quit", Over)
    <2>1. UNCHANGED <<main, stop, past, in_pipe>> /\ pc \in {Idle, <<"quit", "unlist">>, <<"quit", "reap">>, Over}
          /\ pc' \in {<<"quit", "unlist">>, <<"quit", "reap">>, Over}
      BY <1>7 DEF InQuit, InKill
    <2>2. QED  BY <1>1, <2>1 DEF ByteKept
  <1>8. ASSUME NEW who \in {"start", "restart"}, NEW to, InInit(who, to) \/ InKill("restart", to)
        PROVE  ByteKept' /\ (HasByte => HasByte')
    <2>1. UNCHANGED <<main, stop, in_pipe>> /\ pc \notin {Idle, <<"quit", "unlist">>, <<"quit", "reap">>, Over}
      BY <1>8 DEF InInit, InKill, Idle, Over
    <2>2. QED  BY <1>1, <2>1 DEF ByteKept
  <1>9. CASE Worker
    <2>1. /\ back \in {Idle, <<"move", "loop">>} /\ (pc[1] \in Game => ~Throwing)
          /\ pc # <<"restart", "thrown">>
      BY DEF ProcessKept, StartKept, Game
    <2>2. QED  BY <1>4, <1>5, <1>6, <1>7, <1>8, <1>9, <2>1, WorkerSteps
  <1>10. CASE EngineProgram
    <2>1. UNCHANGED <<pc, main, stop, past>>
      BY <1>10, EngineSteps DEF InEngine
    <2>2. PICK m \in Text : UNCHANGED in_pipe \/ (in_pipe' = Append(in_pipe, m) /\ ~Says(m, "nul"))
      <3>1. Bestmove(engine.search) \in Text /\ ~Says(Bestmove(engine.search), "nul")
        BY Texts DEF Typed, Brain
      <3>2. \A word \in {"uciok", "readyok", "info"} : Message(word) \in Text /\ ~Says(Message(word), "nul")
        BY Texts
      <3>3. QED  BY <1>10, <3>1, <3>2, EngineEffect DEF Typed, Heard, Answered, Chat, Failed, Strayed
    <2>3. HasByte' <=> HasByte
      BY <1>1, <1>3, <2>2
    <2>4. QED  BY <2>1, <2>3 DEF ByteKept
  <1>11. CASE writeToOpenPipes
    <2>1. UNCHANGED <<pc, stop, past>> /\ main' = "destroying" /\ (stop \/ (past = 0 /\ pc = Idle))
      BY <1>11 DEF writeToOpenPipes, lending
    <2>2. in_pipe' = Append(in_pipe, Message("nul")) \/ UNCHANGED in_pipe
      BY <1>11 DEF writeToOpenPipes
    <2>3. ASSUME in_pipe' = Append(in_pipe, Message("nul"))
          PROVE  HasByte'
      <3>1. Message("nul") \in Text /\ Says(Message("nul"), "nul")
        BY Texts
      <3>2. In("nul")' = In("nul") \cup {Len(in_pipe) + 1}
        BY <2>3, <3>1, InAppend DEF Typed
      <3>3. QED  BY <3>2, ByteIs
    <2>4. QED  BY <1>1, <2>1, <2>2, <2>3 DEF ByteKept
  <1>12. CASE Stop \/ UNCHANGED vars
    <2>1. UNCHANGED <<pc, main, past, in_pipe>> /\ (stop => stop')
      BY <1>12 DEF Stop, vars, pipes, lending
    <2>2. QED  BY <1>1, <2>1 DEF ByteKept
  <1>13. QED  BY <1>9, <1>10, <1>11, <1>12 DEF Next

-----------------------------------------------------------------------------
(* The options.  Of the lines of the engine the first of a name counts; what *)
(* is sent for a name, and with which values, depends on these lines alone.  *)

\* The line of that number is the first option line of its name.
First(i) ==
    /\ i \in DOMAIN config.offers
    /\ config.offers[i].type # "other"
    /\ \A j \in 1..(i - 1) : config.offers[j].type = "other" \/ config.offers[j].name # config.offers[i].name

\* An option that parseUCIOptionLine made of the line, whatever has been recorded for it since.
Fields == {"name", "type", "value", "min", "max", "choices"}
Like(option, line) ==
    /\ DOMAIN option = Fields
    /\ option.name = line.name /\ option.type = line.type
    /\ line.type = "spin" => option.min = Number(line.min) /\ option.max = Number(line.max)
    /\ line.type = "combo" => option.choices = {"var" : v \in line.var}

\* What isValid says of a value, by the line.
Accepts(line, value) ==
    CASE line.type = "check"  -> value \in {"true", "false"}
      [] line.type = "spin"   -> IsNumber(value) /\ Number(value) \in Number(line.min)..Number(line.max)
      [] line.type = "combo"  -> value \in {"var" : v \in line.var}
      [] line.type = "button" -> value = "press"
      [] OTHER                -> TRUE

\* The option is the one getOption finds for the line.
Spot(j, i) ==
    /\ j \in DOMAIN uci_options
    /\ Like(uci_options[j], config.offers[i])
    /\ \A l \in 1..(j - 1) : uci_options[l].name # config.offers[i].name

Full == \A i \in DOMAIN config.offers : First(i) => \E j \in DOMAIN uci_options : Spot(j, i)

Known ==
    /\ \E S : uci_options \in Seq(S)
    /\ uci_options = << >> \/ Full
    /\ \A j \in DOMAIN uci_options : \E i \in DOMAIN config.offers : First(i) /\ uci_options[j].name = config.offers[i].name

\* An engine that was started has said what its options are.
OptionsKept == Known /\ (initialized \/ pc = <<"start", "done">> => Full)

\* The options of the configuration that may be sent, and those of them that set the line.
Allowed(k) ==
    \E i \in DOMAIN config.offers : /\ First(i) /\ config.offers[i].name = Wanted[k].name
                                    /\ Accepts(config.offers[i], Wanted[k].value)
Sets(i) ==
    {k \in DOMAIN Wanted : /\ Wanted[k].name = config.offers[i].name
                           /\ Allowed(k) /\ Takes(config.offers[i], Wanted[k].value)}

\* Nothing is in the pipe that may not be sent.
CommandsKept ==
    \A i \in DOMAIN out_pipe : Says(out_pipe[i], "setoption") => out_pipe[i].n \in DOMAIN Wanted /\ Allowed(out_pipe[i].n)

\* A line is set as it is once the options before that number were sent: by the last of them, and as it was when the
\* engine was started if there is none for it at all.
Right(i, number, value) ==
    /\ Sets(i) = {} => value = config.offers[i].default
    /\ \A k \in Sets(i) : k < number /\ (\A l \in Sets(i) : l < number => l <= k) => value = Wanted[k].value

\* The game goes on with what the last refreshUci made of the engine.
Playing == {"move", "before", "ready?", "after"}
Ready == pc[1] = "ready" \/ pc = <<"refresh", "true">> \/ (pc[1] \in Playing /\ refreshed)

\* The options before it were sent to this process.
Mark == IF ~Alive THEN 1 ELSE IF pc = <<"refresh", "setoption">> THEN nth ELSE IF Ready THEN Len(Wanted) + 1 ELSE 1

\* What the tester knows of the line: a value that it can read, and only values the engine takes.
Plain(i) ==
    /\ First(i) /\ config.offers[i].type # "button" /\ Takes(config.offers[i], config.offers[i].default)
    /\ \A k \in DOMAIN Wanted : Wanted[k].name = config.offers[i].name /\ Accepts(config.offers[i], Wanted[k].value) =>
                                    Takes(config.offers[i], Wanted[k].value)

Recording(number) ==
    \A i \in DOMAIN config.offers : Plain(i) =>
         \A j \in DOMAIN uci_options : Spot(j, i) =>
            \E value : Right(i, number, value) /\ uci_options[j].value = Read(config.offers[i], value)

SettingsKept ==
    /\ DOMAIN engine.set = DOMAIN config.offers
    /\ \A i \in DOMAIN config.offers : Right(i, Mark, Settled[i])
    /\ Recording(Mark)

\* Where the worker is, and what this process was told.
CourseKept ==
    /\ config \in Configs
    /\ nth \in 1..(Len(Wanted) + 1)
    /\ pc # <<"refresh", "setoption">> => nth = 1
    /\ pc \in {<<"ready", "isready">>, <<"ready", "readyok">>, <<"refresh", "true">>} => "ucinewgame" \in told
    /\ pc[1] \in Playing /\ refreshed => "ucinewgame" \in told
    /\ pc \in {<<"ready?", "isready">>, <<"ready?", "readyok">>, <<"move", "go">>} => "position" \in told
    /\ pc[1] = "ready" => pc[2] \in {"ucinewgame", "isready", "readyok"}

ConfiguredKept == OptionsKept /\ CommandsKept /\ SettingsKept /\ CourseKept
-----------------------------------------------------------------------------
(* Numbers and sequences.                                                  *)

LEMMA LeastNumber ==
    ASSUME NEW S \in SUBSET Nat, S # {}
    PROVE  \E n \in S : \A m \in S : n <= m
  <1>1. IsWellFoundedOn(OpToRel(<, Nat), Nat)
    BY NatLessThanWellFounded
  <1>2. \E n \in S : \A m \in S : ~(<<m, n>> \in OpToRel(<, Nat))
    BY <1>1, WFMin
  <1>3. \E n \in S : \A m \in S : ~(m < n)
    BY <1>2 DEF OpToRel
  <1>4. QED  BY <1>3

LEMMA Inductive ==
    ASSUME NEW n \in Nat, NEW S, 0 \in S, \A i \in 0..(n - 1) : i \in S => i + 1 \in S
    PROVE  0..n \subseteq S
  <1> SUFFICES ASSUME (0..n) \ S # {} PROVE FALSE
    OBVIOUS
  <1>1. PICK k \in (0..n) \ S : \A m \in (0..n) \ S : k <= m
    <2>1. (0..n) \ S \in SUBSET Nat
      OBVIOUS
    <2>2. QED  BY <2>1, LeastNumber
  <1>2. k # 0 /\ k - 1 \in 0..(n - 1)
    BY <1>1
  <1>3. k - 1 \in S
    BY <1>1, <1>2
  <1>4. (k - 1) + 1 = k
    BY <1>1
  <1>5. QED  BY <1>1, <1>2, <1>3, <1>4

\* A set of numbers up to n has a greatest one.
LEMMA GreatestNumber ==
    ASSUME NEW n \in Nat, NEW S \in SUBSET (1..n), S # {}
    PROVE  Max(S) \in S /\ \A m \in S : m <= Max(S)
  <1> DEFINE T == {n - k : k \in S}
  <1>1. T \in SUBSET Nat /\ T # {}
    <2>1. \A k \in S : k \in 1..n /\ n - k \in Nat
      OBVIOUS
    <2>2. QED  BY <2>1
  <1>2. PICK t \in T : \A m \in T : t <= m
    BY <1>1, LeastNumber
  <1>3. PICK k \in S : t = n - k
    OBVIOUS
  <1>4. \A m \in S : k >= m
    <2>1. SUFFICES ASSUME NEW m \in S
                   PROVE  k >= m
      OBVIOUS
    <2>2. n - m \in T /\ m \in Nat /\ k \in Nat
      OBVIOUS
    <2> HIDE DEF T
    <2>3. n - k <= n - m
      BY <1>2, <1>3, <2>2
    <2>4. QED  BY <2>2, <2>3
  <1>5. Max(S) \in S /\ \A m \in S : Max(S) >= m
    BY <1>4 DEF Max
  <1>6. QED  BY <1>5

LEMMA WiderSeq ==
    ASSUME NEW S, NEW T, S \subseteq T, NEW s \in Seq(S)
    PROVE  s \in Seq(T)
  <1>1. Len(s) \in Nat /\ s = [j \in 1..Len(s) |-> s[j]]
    BY LenProperties
  <1>2. \A j \in 1..Len(s) : s[j] \in T
    BY ElementOfSeq
  <1>3. QED  BY <1>1, <1>2, SeqDef

-----------------------------------------------------------------------------
(* The option lines of an engine.                                          *)

\* The lines that are kept of the first n, and where each comes from: in the order of the lines, and nothing is
\* left out but what is no option.
Picked(lines, n, kept) ==
    /\ kept \in Seq({lines[i] : i \in 1..n})
    /\ \A j \in 1..Len(kept) : \E i \in 1..n : kept[j] = lines[i] /\ lines[i].type # "other"
    /\ \A i \in 1..n : lines[i].type # "other" =>
         \E j \in 1..Len(kept) : /\ kept[j] = lines[i]
                                 /\ \A l \in 1..(j - 1) : \E m \in 1..(i - 1) : kept[l] = lines[m] /\ lines[m].type # "other"

\* g is what is kept after each of the first n lines.
Picking(lines, n, g) ==
    g = [k \in 0..n |-> IF k = 0 THEN << >>
                        ELSE IF lines[k].type = "other" THEN g[k - 1] ELSE Append(g[k - 1], lines[k])]

LEMMA PickedOne ==
    ASSUME NEW lines, NEW n \in Nat, NEW kept, Picked(lines, n, kept)
    PROVE  /\ lines[n + 1].type = "other" => Picked(lines, n + 1, kept)
           /\ lines[n + 1].type # "other" => Picked(lines, n + 1, Append(kept, lines[n + 1]))
  <1>1. \A i \in 1..n : i \in 1..(n + 1)
    OBVIOUS
  <1>2. /\ kept \in Seq({lines[i] : i \in 1..n}) /\ Len(kept) \in Nat
        /\ kept \in Seq({lines[i] : i \in 1..(n + 1)})
    <2>1. kept \in Seq({lines[i] : i \in 1..n})
      BY DEF Picked
    <2>2. {lines[i] : i \in 1..n} \subseteq {lines[i] : i \in 1..(n + 1)}
      BY <1>1
    <2>3. QED  BY <2>1, <2>2, WiderSeq, LenProperties
  <1>3. ASSUME NEW i \in 1..(n + 1), i # n + 1
        PROVE  i \in 1..n
    BY <1>3
  <1>4. ASSUME lines[n + 1].type = "other"
        PROVE  Picked(lines, n + 1, kept)
    <2>1. \A j \in 1..Len(kept) : \E i \in 1..(n + 1) : kept[j] = lines[i] /\ lines[i].type # "other"
      BY <1>1 DEF Picked
    <2>2. ASSUME NEW i \in 1..(n + 1), lines[i].type # "other"
          PROVE  \E j \in 1..Len(kept) : /\ kept[j] = lines[i]
                                         /\ \A l \in 1..(j - 1) : \E m \in 1..(i - 1) : kept[l] = lines[m] /\ lines[m].type # "other"
      <3>1. i \in 1..n
        BY <1>3, <1>4, <2>2
      <3>2. QED  BY <2>2, <3>1 DEF Picked
    <2>3. QED  BY <1>2, <2>1, <2>2 DEF Picked
  <1>5. ASSUME lines[n + 1].type # "other"
        PROVE  Picked(lines, n + 1, Append(kept, lines[n + 1]))
    <2> DEFINE next == Append(kept, lines[n + 1])
    <2>1. /\ next \in Seq({lines[i] : i \in 1..(n + 1)}) /\ Len(next) = Len(kept) + 1
          /\ \A j \in 1..Len(kept) : next[j] = kept[j]
          /\ next[Len(kept) + 1] = lines[n + 1]
      <3> DEFINE S == {lines[i] : i \in 1..(n + 1)}
      <3>1. lines[n + 1] \in S
        OBVIOUS
      <3>2. kept \in Seq(S)
        BY <1>2
      <3> HIDE DEF S
      <3>3. /\ next \in Seq(S) /\ Len(next) = Len(kept) + 1
            /\ \A j \in 1..Len(kept) : next[j] = kept[j]
            /\ next[Len(kept) + 1] = lines[n + 1]
        BY <3>1, <3>2, AppendProperties
      <3>4. QED  BY <3>3 DEF S
    <2> HIDE DEF next
    <2>2. \A j \in 1..Len(next) : j \in 1..Len(kept) \/ j = Len(kept) + 1
      BY <1>2, <2>1
    <2>3. \A j \in 1..Len(next) : \E i \in 1..(n + 1) : next[j] = lines[i] /\ lines[i].type # "other"
      <3>1. ASSUME NEW j \in 1..Len(kept)
            PROVE  \E i \in 1..(n + 1) : next[j] = lines[i] /\ lines[i].type # "other"
        BY <1>1, <2>1 DEF Picked
      <3>2. n + 1 \in 1..(n + 1)
        OBVIOUS
      <3>3. QED  BY <1>5, <2>1, <2>2, <3>1, <3>2
    <2>4. ASSUME NEW i \in 1..(n + 1), lines[i].type # "other"
          PROVE  \E j \in 1..Len(next) : /\ next[j] = lines[i]
                                         /\ \A l \in 1..(j - 1) : \E m \in 1..(i - 1) : next[l] = lines[m] /\ lines[m].type # "other"
      <3>1. CASE i = n + 1
        <4>1. Len(next) \in 1..Len(next) /\ next[Len(next)] = lines[i]
          BY <1>2, <2>1, <3>1
        <4>2. ASSUME NEW l \in 1..(Len(next) - 1)
              PROVE  \E m \in 1..(i - 1) : next[l] = lines[m] /\ lines[m].type # "other"
          <5>1. l \in 1..Len(kept)
            BY <1>2, <2>1
          <5>2. PICK m \in 1..n : kept[l] = lines[m] /\ lines[m].type # "other"
            BY <5>1 DEF Picked
          <5>3. m \in 1..(i - 1)
            BY <3>1, <5>2
          <5>4. QED  BY <2>1, <5>1, <5>2, <5>3
        <4>3. QED  BY <4>1, <4>2
      <3>2. CASE i \in 1..n
        <4>1. PICK j \in 1..Len(kept) : /\ kept[j] = lines[i]
                                        /\ \A l \in 1..(j - 1) : \E m \in 1..(i - 1) : kept[l] = lines[m] /\ lines[m].type # "other"
          BY <2>4, <3>2 DEF Picked
        <4>2. j \in 1..Len(next) /\ \A l \in 1..(j - 1) : l \in 1..Len(kept)
          BY <1>2, <2>1
        <4>3. QED  BY <2>1, <4>1, <4>2
      <3>3. QED  BY <1>3, <3>1, <3>2
    <2>5. Picked(lines, n + 1, next)
      BY <2>1, <2>3, <2>4 DEF Picked
    <2>6. QED  BY <2>5 DEF next
  <1>6. QED  BY <1>4, <1>5

LEMMA PickingExists ==
    ASSUME NEW lines, NEW n \in Nat
    PROVE  \E g : Picking(lines, n, g)
  <1> DEFINE S == {k \in 0..n : \E g : Picking(lines, k, g)}
  <1>1. 0 \in S
    <2> DEFINE h == [k \in 0..0 |-> << >>]
    <2>1. h = [k \in 0..0 |-> IF k = 0 THEN << >>
                              ELSE IF lines[k].type = "other" THEN h[k - 1] ELSE Append(h[k - 1], lines[k])]
      OBVIOUS
    <2> HIDE DEF h
    <2>2. Picking(lines, 0, h)
      BY <2>1 DEF Picking
    <2>3. QED  BY <2>2
  <1>2. ASSUME NEW k \in 0..(n - 1), k \in S PROVE k + 1 \in S
    <2>1. PICK g : Picking(lines, k, g)
      BY <1>2
    <2> DEFINE last == IF lines[k + 1].type = "other" THEN g[k] ELSE Append(g[k], lines[k + 1])
               h == [i \in 0..(k + 1) |-> IF i <= k THEN g[i] ELSE last]
               step(f, i) == IF i = 0 THEN << >>
                             ELSE IF lines[i].type = "other" THEN f[i - 1] ELSE Append(f[i - 1], lines[i])
    <2>2. \A i \in 0..k : g[i] = step(g, i)
      BY <2>1 DEF Picking
    <2>3. ASSUME NEW i \in 0..(k + 1)
          PROVE  h[i] = step(h, i)
      <3>1. CASE i = k + 1
        <4>1. h[i] = last /\ h[i - 1] = g[k] /\ i # 0
          BY <3>1
        <4>2. QED  BY <3>1, <4>1
      <3>2. CASE i = 0
        BY <2>2, <3>2
      <3>3. CASE i \in 1..k
        <4>1. h[i] = g[i] /\ h[i - 1] = g[i - 1] /\ i # 0
          BY <3>3
        <4>2. QED  BY <2>2, <3>3, <4>1
      <3>4. QED  BY <3>1, <3>2, <3>3
    <2>4. h = [i \in 0..(k + 1) |-> h[i]]
      OBVIOUS
    <2> HIDE DEF h
    <2>5. h = [i \in 0..(k + 1) |-> step(h, i)]
      BY <2>3, <2>4
    <2>6. Picking(lines, k + 1, h)
      BY <2>5 DEF Picking
    <2>7. k + 1 \in 0..n
      OBVIOUS
    <2>8. QED  BY <2>6, <2>7
  <1> HIDE DEF S
  <1>3. n \in S
    BY <1>1, <1>2, Inductive
  <1>4. QED  BY <1>3 DEF S

\* What optionLines returns.
LEMMA OptionLinesPicked ==
    ASSUME NEW lines, Len(lines) \in Nat
    PROVE  Picked(lines, Len(lines), optionLines(lines))
  <1> DEFINE n == Len(lines)
             g == CHOOSE g : Picking(lines, n, g)
  <1>1. Picking(lines, n, g)
    BY PickingExists
  <1>2. optionLines(lines) = g[n]
    BY DEF optionLines, Picking
  <1> HIDE DEF g
  <1>3. \A k \in 0..n : g[k] = IF k = 0 THEN << >>
                               ELSE IF lines[k].type = "other" THEN g[k - 1] ELSE Append(g[k - 1], lines[k])
    BY <1>1 DEF Picking
  <1> DEFINE S == {k \in 0..n : Picked(lines, k, g[k])}
  <1>4. 0 \in S
    <2>1. g[0] = << >> /\ Len(<< >>) = 0
      BY <1>3
    <2>2. Picked(lines, 0, << >>)
      BY <2>1 DEF Picked
    <2>3. QED  BY <2>1, <2>2
  <1>5. ASSUME NEW k \in 0..(n - 1), k \in S PROVE k + 1 \in S
    <2>1. g[k + 1] = IF lines[k + 1].type = "other" THEN g[k] ELSE Append(g[k], lines[k + 1])
      <3>1. k + 1 \in 0..n /\ k + 1 # 0 /\ (k + 1) - 1 = k
        OBVIOUS
      <3>2. QED  BY <1>3, <3>1
    <2>2. Picked(lines, k + 1, g[k + 1])
      BY <1>5, <2>1, PickedOne
    <2>3. QED  BY <2>2
  <1> HIDE DEF S, n
  <1>6. n \in S
    <2>1. n \in Nat
      BY DEF n
    <2>2. 0..n \subseteq S
      BY <1>4, <1>5, <2>1, Inductive
    <2>3. QED  BY <2>1, <2>2
  <1>7. Picked(lines, n, g[n])
    BY <1>6 DEF S
  <1>8. QED  BY <1>2, <1>7 DEF n

-----------------------------------------------------------------------------
(* What the options of the tester say of a value, by the lines.            *)

LEMMA ConfigFacts ==
    ASSUME config \in Configs
    PROVE  /\ config.offers \in Seq(Line) /\ Len(config.offers) \in Nat
           /\ DOMAIN config.offers = 1..Len(config.offers)
           /\ \A i \in DOMAIN config.offers : config.offers[i] \in Line
           /\ Len(Wanted) \in Nat /\ DOMAIN Wanted = 1..Len(Wanted)
  <1>1. /\ config.offers \in Seq(Line)
        /\ config.options \in Seq([name : STRING, value : STRING])
    BY UciEngineAssumption
  <1> DEFINE own == IF config.frc THEN <<[name |-> "UCI_Chess960", value |-> "true"]>> ELSE << >>
             S == [name : STRING, value : STRING] \cup {own[i] : i \in DOMAIN own}
  <1>2. own \in Seq(S) /\ config.options \in Seq(S)
    <2>1. own \in Seq({own[i] : i \in DOMAIN own})
      <3>1. CASE config.frc
        BY <3>1
      <3>2. CASE ~config.frc
        BY <3>2
      <3>3. QED  BY <3>1, <3>2
    <2> HIDE DEF own
    <2>2. {own[i] : i \in DOMAIN own} \subseteq S /\ [name : STRING, value : STRING] \subseteq S
      OBVIOUS
    <2> HIDE DEF S
    <2>3. own \in Seq(S)
      BY <2>1, <2>2, WiderSeq
    <2>4. config.options \in Seq(S)
      BY <1>1, <2>2, WiderSeq
    <2>5. QED  BY <2>3, <2>4
  <1>3. Wanted = config.options \o own
    BY DEF Wanted
  <1> HIDE DEF own, S
  <1>4. Wanted \in Seq(S)
    BY <1>2, <1>3, ConcatProperties
  <1>5. /\ Len(config.offers) \in Nat /\ DOMAIN config.offers = 1..Len(config.offers)
        /\ Len(Wanted) \in Nat /\ DOMAIN Wanted = 1..Len(Wanted)
    BY <1>1, <1>4, LenProperties
  <1>6. \A i \in DOMAIN config.offers : config.offers[i] \in Line
    BY <1>1, <1>5, ElementOfSeq
  <1>7. QED  BY <1>1, <1>4, <1>5, <1>6

\* Where nothing throws, uciok comes to every line.
LEMMA WellFormed ==
    ASSUME config \in Configs, ~Throwing
    PROVE  (\A i \in DOMAIN config.offers : ~Malformed(config.offers[i])) /\ Legible(config.offers) = config.offers
  <1> DEFINE s == config.offers
             Stops(n) == (\A i \in 1..n : ~Malformed(s[i])) /\ (n < Len(s) => Malformed(s[n + 1]))
             last == CHOOSE n \in 0..Len(s) : Stops(n)
  <1>1. s \in Seq(Line) /\ Len(s) \in Nat /\ DOMAIN s = 1..Len(s) /\ \A i \in DOMAIN s : ~Malformed(s[i])
    BY ConfigFacts DEF Throwing
  <1>2. Legible(s) = SubSeq(s, 1, last)
    BY DEF Legible
  <1> HIDE DEF s
  <1>3. Len(s) \in 0..Len(s) /\ Stops(Len(s))
    BY <1>1
  <1>4. last \in 0..Len(s) /\ Stops(last)
    BY <1>3
  <1> HIDE DEF last
  <1>5. last = Len(s)
    <2>1. ~(last < Len(s))
      <3>1. last < Len(s) => last + 1 \in 1..Len(s)
        BY <1>1, <1>4
      <3>2. QED  BY <1>1, <1>4, <3>1
    <2>2. last \in 0..Len(s) /\ Len(s) \in Nat
      BY <1>1, <1>4
    <2>3. QED  BY <2>1, <2>2
  <1>6. SubSeq(s, 1, Len(s)) = s
    BY <1>1, SubSeqFull
  <1>7. QED  BY <1>1, <1>2, <1>5, <1>6 DEF s

\* Every option line has a first one of its name.
LEMMA FirstOf ==
    ASSUME config \in Configs, NEW i \in DOMAIN config.offers, config.offers[i].type # "other"
    PROVE  \E f \in DOMAIN config.offers : First(f) /\ config.offers[f].name = config.offers[i].name
  <1> DEFINE S == {j \in DOMAIN config.offers : config.offers[j].type # "other" /\ config.offers[j].name = config.offers[i].name}
  <1>1. DOMAIN config.offers = 1..Len(config.offers) /\ Len(config.offers) \in Nat
    BY ConfigFacts
  <1>2. S \in SUBSET Nat /\ S # {}
    BY <1>1
  <1>3. PICK f \in S : \A j \in S : f <= j
    BY <1>2, LeastNumber
  <1>4. ASSUME NEW j \in 1..(f - 1), config.offers[j].type # "other", config.offers[j].name = config.offers[f].name
        PROVE  FALSE
    <2>1. j \in S /\ f \in Nat /\ j \in Nat
      BY <1>1, <1>3, <1>4
    <2>2. QED  BY <1>3, <1>4, <2>1
  <1>5. First(f)
    BY <1>3, <1>4 DEF First
  <1>6. QED  BY <1>3, <1>5

\* An option made of a line answers as the line does.
LEMMA LikeIs ==
    ASSUME NEW option, NEW line \in Line, line.type # "other", Like(option, line), NEW value
    PROVE  /\ isValid(option, value) <=> Accepts(line, value)
           /\ Read(option, value) = Read(line, value)
  <1>1. line.type \in {"check", "spin", "combo", "button", "string"} /\ option.type = line.type
    BY DEF Line, Like
  <1>2. CASE line.type = "check"
    BY <1>1, <1>2 DEF Like, isValid, Accepts, Read
  <1>3. CASE line.type = "spin"
    BY <1>1, <1>3 DEF Like, isValid, Accepts, Read
  <1>4. CASE line.type = "combo"
    BY <1>1, <1>4 DEF Like, isValid, Accepts, Read
  <1>5. CASE line.type = "button"
    BY <1>1, <1>5 DEF Like, isValid, Accepts, Read
  <1>6. CASE line.type = "string"
    BY <1>1, <1>6 DEF Like, isValid, Accepts, Read
  <1>7. QED  BY <1>1, <1>2, <1>3, <1>4, <1>5, <1>6

\* What setValue makes of an option: the same one, with the value.
LEMMA SetValueIs ==
    ASSUME NEW option, DOMAIN option = Fields, NEW value
    PROVE  /\ DOMAIN setValue(option, value) = Fields
           /\ \A field \in Fields \ {"value"} : setValue(option, value)[field] = option[field]
           /\ isValid(option, value) => setValue(option, value).value = Read(option, value)
           /\ ~isValid(option, value) => setValue(option, value) = option
  BY DEF setValue, Fields

LEMMA SetLike ==
    ASSUME NEW option, NEW line, NEW value, Like(option, line)
    PROVE  Like(setValue(option, value), line)
  <1>1. /\ DOMAIN setValue(option, value) = Fields
        /\ \A field \in Fields \ {"value"} : setValue(option, value)[field] = option[field]
    BY SetValueIs DEF Like
  <1>2. {"name", "type", "min", "max", "choices"} \subseteq Fields \ {"value"}
    BY DEF Fields
  <1>3. QED  BY <1>1, <1>2 DEF Like

LEMMA ParsedLike ==
    ASSUME NEW line \in Line, ~Malformed(line), NEW option \in parseUCIOptionLine(line)
    PROVE  /\ line.type # "other" /\ Like(option, line)
           /\ line.type # "button" /\ Takes(line, line.default) => option.value = Read(line, line.default)
  <1> DEFINE bare(value) == [name |-> line.name, type |-> line.type, value |-> value,
                             min |-> IF line.type = "spin" THEN Number(line.min) ELSE 0,
                             max |-> IF line.type = "spin" THEN Number(line.max) ELSE 0,
                             choices |-> {"var" : v \in line.var}]
  <1>1. ASSUME NEW value
        PROVE  Like(bare(value), line) /\ DOMAIN bare(value) = Fields /\ bare(value).value = value
    BY DEF Like, Fields
  <1>2. line.type \in {"check", "spin", "combo", "button", "string", "other"}
    BY DEF Line
  <1>3. CASE line.type = "other"
    BY <1>3 DEF parseUCIOptionLine
  <1>4. CASE line.type \in {"combo", "string"}
    <2>1. option = bare(line.default)
      BY <1>4 DEF parseUCIOptionLine
    <2> HIDE DEF bare
    <2>2. QED  BY <1>1, <1>4, <2>1 DEF Read
  <1>5. CASE line.type \in {"check", "spin", "button"}
    <2>1. PICK value \in Unset(line.type) : option = setValue(bare(value), line.default)
      BY <1>5 DEF parseUCIOptionLine
    <2> HIDE DEF bare
    <2>2. Like(bare(value), line) /\ DOMAIN bare(value) = Fields
      BY <1>1
    <2>3. Like(option, line)
      BY <2>1, <2>2, SetLike
    <2>4. ASSUME line.type # "button", Takes(line, line.default)
          PROVE  option.value = Read(line, line.default)
      <3>1. Accepts(line, line.default)
        BY <1>5, <2>4 DEF Takes, Accepts
      <3>2. isValid(bare(value), line.default) /\ Read(bare(value), line.default) = Read(line, line.default)
        BY <1>5, <2>2, <3>1, LikeIs
      <3>3. QED  BY <2>1, <2>2, <3>2, SetValueIs
    <2>5. QED  BY <1>5, <2>3, <2>4
  <1>6. QED  BY <1>2, <1>3, <1>4, <1>5

LEMMA SpotFound ==
    ASSUME NEW S, uci_options \in Seq(S), NEW j, NEW i, Spot(j, i)
    PROVE  /\ Found(uci_options, config.offers[i].name) # {}
           /\ getOption(uci_options, config.offers[i].name) = j
  <1>1. DOMAIN uci_options = 1..Len(uci_options) /\ Len(uci_options) \in Nat
    BY LenProperties
  <1> DEFINE found == Found(uci_options, config.offers[i].name)
  <1>2. j \in found /\ found \subseteq 1..Len(uci_options)
    BY <1>1 DEF Spot, Like, Found
  <1>3. \A l \in found : j <= l
    <2>1. SUFFICES ASSUME NEW l \in found, ~(j <= l)
                   PROVE  FALSE
      OBVIOUS
    <2>2. l \in 1..(j - 1) /\ uci_options[l].name = config.offers[i].name
      BY <1>2, <2>1 DEF Found
    <2>3. QED  BY <2>2 DEF Spot
  <1>4. \A l \in found : (\A m \in found : l <= m) => l = j
    <2>1. SUFFICES ASSUME NEW l \in found, \A m \in found : l <= m
                   PROVE  l = j
      OBVIOUS
    <2>2. l <= j /\ j <= l /\ l \in Nat /\ j \in Nat
      BY <1>2, <1>3, <2>1
    <2>3. QED  BY <2>2
  <1>5. getOption(uci_options, config.offers[i].name) = CHOOSE l \in found : \A m \in found : l <= m
    BY DEF getOption
  <1> HIDE DEF found
  <1>6. getOption(uci_options, config.offers[i].name) = j
    BY <1>2, <1>3, <1>4, <1>5
  <1>7. QED  BY <1>2, <1>6 DEF found

\* What can be sent, once the options are known.
LEMMA SendableIs ==
    ASSUME config \in Configs, Known, uci_options # << >> \/ Full, NEW k \in DOMAIN Wanted
    PROVE  Sendable(uci_options, Wanted[k].name, Wanted[k].value) <=> Allowed(k)
  <1>1. PICK S : uci_options \in Seq(S)
    BY DEF Known
  <1>2. Full
    BY DEF Known
  <1>3. ASSUME NEW i \in DOMAIN config.offers, First(i), config.offers[i].name = Wanted[k].name
        PROVE  Sendable(uci_options, Wanted[k].name, Wanted[k].value) <=> Accepts(config.offers[i], Wanted[k].value)
    <2>1. PICK j \in DOMAIN uci_options : Spot(j, i)
      BY <1>2, <1>3 DEF Full
    <2>2. Found(uci_options, Wanted[k].name) # {} /\ getOption(uci_options, Wanted[k].name) = j
      BY <1>1, <1>3, <2>1, SpotFound
    <2>3. isValid(uci_options[j], Wanted[k].value) <=> Accepts(config.offers[i], Wanted[k].value)
      BY <1>3, <2>1, ConfigFacts, LikeIs DEF First, Spot
    <2>4. QED  BY <2>2, <2>3 DEF Sendable
  <1>4. ASSUME Allowed(k)
        PROVE  Sendable(uci_options, Wanted[k].name, Wanted[k].value)
    BY <1>3, <1>4 DEF Allowed
  <1>5. ASSUME Sendable(uci_options, Wanted[k].name, Wanted[k].value)
        PROVE  Allowed(k)
    <2>1. PICK j \in DOMAIN uci_options : uci_options[j].name = Wanted[k].name
      BY <1>5 DEF Sendable, Found
    <2>2. PICK i \in DOMAIN config.offers : First(i) /\ config.offers[i].name = Wanted[k].name
      BY <2>1 DEF Known
    <2>3. QED  BY <1>3, <1>5, <2>2 DEF Allowed
  <1>6. QED  BY <1>4, <1>5

\* The first lines of two names are two.
LEMMA FirstsDiffer ==
    ASSUME config \in Configs, NEW f, NEW g, First(f), First(g), config.offers[f].name = config.offers[g].name
    PROVE  f = g
  <1>1. f \in Nat /\ g \in Nat /\ f >= 1 /\ g >= 1
    BY ConfigFacts DEF First
  <1>2. ~(f < g) /\ ~(g < f)
    <2>1. f < g => f \in 1..(g - 1)
      BY <1>1
    <2>2. g < f => g \in 1..(f - 1)
      BY <1>1
    <2>3. QED  BY <2>1, <2>2 DEF First
  <1>3. QED  BY <1>1, <1>2

-----------------------------------------------------------------------------
(* How the engine is set after some commands: Apply.                       *)

\* The command sets the line.
Touches(command, i) ==
    /\ Says(command, "setoption")
    /\ Wanted[command.n].name = config.offers[i].name
    /\ Takes(config.offers[i], Wanted[command.n].value)

LEMMA ApplyNone ==
    ASSUME NEW set, NEW commands, NEW i \in DOMAIN set, \A k \in DOMAIN commands : ~Touches(commands[k], i)
    PROVE  Apply(set, commands)[i] = set[i]
  <1>1. {k \in DOMAIN commands : /\ Says(commands[k], "setoption")
                                 /\ Wanted[commands[k].n].name = config.offers[i].name
                                 /\ Takes(config.offers[i], Wanted[commands[k].n].value)} = {}
    BY DEF Touches
  <1>2. QED  BY <1>1 DEF Apply

LEMMA ApplyLast ==
    ASSUME NEW set, NEW commands \in Seq(Text), NEW i \in DOMAIN set,
           NEW k \in DOMAIN commands, Touches(commands[k], i),
           \A l \in DOMAIN commands : Touches(commands[l], i) => l <= k
    PROVE  Apply(set, commands)[i] = Wanted[commands[k].n].value
  <1> DEFINE sent == {l \in DOMAIN commands : /\ Says(commands[l], "setoption")
                                              /\ Wanted[commands[l].n].name = config.offers[i].name
                                              /\ Takes(config.offers[i], Wanted[commands[l].n].value)}
  <1>1. Apply(set, commands)[i] = IF sent = {} THEN set[i] ELSE Wanted[commands[Max(sent)].n].value
    BY DEF Apply
  <1>2. k \in sent /\ (\A l \in sent : l <= k) /\ sent \subseteq Nat
    BY LenProperties DEF Touches
  <1> HIDE DEF sent
  <1>3. \A l \in sent : (\A m \in sent : l >= m) => l = k
    BY <1>2
  <1>4. Max(sent) = k
    BY <1>2, <1>3 DEF Max
  <1>5. QED  BY <1>1, <1>2, <1>4

\* Either no command sets the line, or one is the last to do so.
LEMMA LastTouch ==
    ASSUME NEW commands \in Seq(Text), NEW i
    PROVE  \/ \A k \in DOMAIN commands : ~Touches(commands[k], i)
           \/ \E k \in DOMAIN commands : /\ Touches(commands[k], i)
                                         /\ \A l \in DOMAIN commands : Touches(commands[l], i) => l <= k
  <1> DEFINE S == {k \in DOMAIN commands : Touches(commands[k], i)}
  <1>1. SUFFICES ASSUME S # {}
                 PROVE  \E k \in S : \A l \in S : l <= k
    OBVIOUS
  <1>2. Len(commands) \in Nat /\ S \in SUBSET (1..Len(commands))
    BY LenProperties
  <1>3. Max(S) \in S /\ \A l \in S : l <= Max(S)
    BY <1>1, <1>2, GreatestNumber
  <1>4. QED  BY <1>3

LEMMA ApplyAppend ==
    ASSUME NEW set, NEW commands \in Seq(Text), NEW command \in Text, NEW i \in DOMAIN set
    PROVE  Apply(set, Append(commands, command))[i] =
              IF Touches(command, i) THEN Wanted[command.n].value ELSE Apply(set, commands)[i]
  <1> DEFINE more == Append(commands, command)
  <1>1. /\ more \in Seq(Text) /\ DOMAIN commands = 1..Len(commands) /\ Len(commands) \in Nat
        /\ DOMAIN more = 1..(Len(commands) + 1)
        /\ \A k \in DOMAIN commands : more[k] = commands[k]
        /\ more[Len(commands) + 1] = command
    BY AppendProperties, LenProperties
  <1> HIDE DEF more
  <1>2. \A k \in DOMAIN more : k \in DOMAIN commands \/ k = Len(commands) + 1
    BY <1>1
  <1>3. CASE Touches(command, i)
    <2>1. Len(commands) + 1 \in DOMAIN more /\ \A l \in DOMAIN more : l <= Len(commands) + 1
      BY <1>1
    <2>2. Apply(set, more)[i] = Wanted[more[Len(commands) + 1].n].value
      BY <1>1, <1>3, <2>1, ApplyLast
    <2>3. QED  BY <1>1, <1>3, <2>2 DEF more
  <1>4. CASE ~Touches(command, i) /\ \A k \in DOMAIN commands : ~Touches(commands[k], i)
    <2>1. \A k \in DOMAIN more : ~Touches(more[k], i)
      BY <1>1, <1>2, <1>4
    <2>2. Apply(set, more)[i] = set[i]
      BY <2>1, ApplyNone
    <2>3. Apply(set, commands)[i] = set[i]
      BY <1>4, ApplyNone
    <2>4. QED  BY <1>4, <2>2, <2>3 DEF more
  <1>5. ASSUME ~Touches(command, i), NEW k \in DOMAIN commands, Touches(commands[k], i),
               \A l \in DOMAIN commands : Touches(commands[l], i) => l <= k
        PROVE  Apply(set, more)[i] = Apply(set, commands)[i]
    <2>1. k \in DOMAIN more /\ more[k] = commands[k]
      BY <1>1
    <2>2. \A l \in DOMAIN more : Touches(more[l], i) => l <= k
      BY <1>1, <1>2, <1>5
    <2>3. Apply(set, more)[i] = Wanted[more[k].n].value
      BY <1>1, <1>5, <2>1, <2>2, ApplyLast
    <2>4. Apply(set, commands)[i] = Wanted[commands[k].n].value
      BY <1>5, ApplyLast
    <2>5. QED  BY <2>1, <2>3, <2>4
  <1>6. QED  BY <1>3, <1>4, <1>5, LastTouch DEF more

\* What the engine reads of the commands it is set to at once.
LEMMA ApplySplit ==
    ASSUME NEW set, NEW commands \in Seq(Text), NEW k \in 1..Len(commands)
    PROVE  Apply(Apply(set, SubSeq(commands, 1, k)), SubSeq(commands, k + 1, Len(commands))) = Apply(set, commands)
  <1> DEFINE head == SubSeq(commands, 1, k)
             tail == SubSeq(commands, k + 1, Len(commands))
             middle == Apply(set, head)
  <1>1. /\ Len(commands) \in Nat /\ DOMAIN commands = 1..Len(commands)
        /\ head \in Seq(Text) /\ DOMAIN head = 1..k /\ \A l \in 1..k : head[l] = commands[l]
    <2>1. 1 \in 1..Len(commands) + 1 /\ k \in 1 - 1..Len(commands) /\ Len(commands) \in Nat
      BY LenProperties
    <2>2. head \in Seq(Text) /\ Len(head) = k - 1 + 1 /\ \A l \in 1..(k - 1 + 1) : head[l] = commands[1 + l - 1]
      BY <2>1, SubSeqProperties
    <2>3. \A l \in 1..k : 1 + l - 1 = l
      OBVIOUS
    <2>4. QED  BY <2>1, <2>2, <2>3, LenProperties
  <1>2. tail \in Seq(Text) /\ DOMAIN tail = 1..(Len(commands) - k) /\ \A l \in DOMAIN tail : tail[l] = commands[l + k]
    <2>1. tail \in Seq(Text) /\ Len(tail) = Len(commands) - k /\ \A l \in 1..Len(tail) : tail[l] = commands[l + k]
      BY AtDrop
    <2>2. QED  BY <2>1, LenProperties
  <1> HIDE DEF head, tail
  <1>3. DOMAIN middle = DOMAIN set /\ DOMAIN Apply(middle, tail) = DOMAIN set /\ DOMAIN Apply(set, commands) = DOMAIN set
    BY DEF Apply
  <1> HIDE DEF middle
  <1>4. ASSUME NEW i \in DOMAIN set
        PROVE  Apply(middle, tail)[i] = Apply(set, commands)[i]
    <2>1. CASE \A l \in DOMAIN tail : ~Touches(tail[l], i)
      <3>1. Apply(middle, tail)[i] = Apply(set, head)[i]
        BY <1>3, <2>1, ApplyNone DEF middle
      <3>2. \A l \in DOMAIN commands : Touches(commands[l], i) => l \in DOMAIN head
        <4>1. SUFFICES ASSUME NEW l \in DOMAIN commands, Touches(commands[l], i), l > k
                       PROVE  FALSE
          BY <1>1
        <4>2. l - k \in DOMAIN tail /\ (l - k) + k = l
          BY <1>1, <1>2, <4>1
        <4>3. tail[l - k] = commands[l]
          BY <1>2, <4>2
        <4>4. QED  BY <2>1, <4>1, <4>2, <4>3
      <3>3. CASE \A l \in DOMAIN head : ~Touches(head[l], i)
        <4>1. \A l \in DOMAIN commands : ~Touches(commands[l], i)
          BY <1>1, <3>2, <3>3
        <4>2. QED  BY <3>1, <3>3, <4>1, ApplyNone
      <3>4. ASSUME NEW m \in DOMAIN head, Touches(head[m], i), \A l \in DOMAIN head : Touches(head[l], i) => l <= m
            PROVE  Apply(set, head)[i] = Apply(set, commands)[i]
        <4>1. m \in DOMAIN commands /\ commands[m] = head[m]
          BY <1>1, <3>4
        <4>2. \A l \in DOMAIN commands : Touches(commands[l], i) => l <= m
          BY <1>1, <3>2, <3>4
        <4>3. QED  BY <1>1, <3>4, <4>1, <4>2, ApplyLast
      <3>5. QED  BY <1>1, <3>1, <3>3, <3>4, LastTouch
    <2>2. ASSUME NEW m \in DOMAIN tail, Touches(tail[m], i), \A l \in DOMAIN tail : Touches(tail[l], i) => l <= m
          PROVE  Apply(middle, tail)[i] = Apply(set, commands)[i]
      <3>1. m + k \in DOMAIN commands /\ commands[m + k] = tail[m] /\ m \in Nat
        BY <1>1, <1>2, <2>2
      <3>2. ASSUME NEW l \in DOMAIN commands, Touches(commands[l], i)
            PROVE  l <= m + k
        <4>1. CASE l <= k
          BY <1>1, <3>1, <4>1
        <4>2. CASE l > k
          <5>1. l - k \in DOMAIN tail /\ (l - k) + k = l
            BY <1>1, <1>2, <4>2
          <5>2. l - k <= m
            BY <1>2, <2>2, <3>2, <5>1
          <5>3. QED  BY <1>1, <3>1, <5>2
        <4>3. QED  BY <1>1, <4>1, <4>2
      <3>3. Apply(set, commands)[i] = Wanted[commands[m + k].n].value
        BY <2>2, <3>1, <3>2, ApplyLast
      <3>4. Apply(middle, tail)[i] = Wanted[tail[m].n].value
        <4>1. tail \in Seq(Text) /\ i \in DOMAIN middle
          BY <1>2, <1>3
        <4>2. QED  BY <2>2, <4>1, ApplyLast
      <3>5. QED  BY <3>1, <3>3, <3>4
    <2>3. QED  BY <1>2, <2>1, <2>2, LastTouch
  <1>5. /\ Apply(middle, tail) = [i \in DOMAIN set |-> Apply(middle, tail)[i]]
        /\ Apply(set, commands) = [i \in DOMAIN set |-> Apply(set, commands)[i]]
    BY <1>3 DEF Apply
  <1>6. Apply(middle, tail) = Apply(set, commands)
    BY <1>4, <1>5
  <1>7. QED  BY <1>6 DEF head, tail, middle

-----------------------------------------------------------------------------
(* The configuration does not change, and what depends on it alone.        *)

LEMMA SameConfig ==
    ASSUME config' = config
    PROVE  /\ Wanted' = Wanted
           /\ \A i : First(i)' <=> First(i)
           /\ \A k : Allowed(k)' <=> Allowed(k)
           /\ \A i : Sets(i)' = Sets(i)
           /\ \A i : Plain(i)' <=> Plain(i)
  <1>1. Wanted' = Wanted
    BY DEF Wanted
  <1>2. ASSUME NEW i
        PROVE  First(i)' <=> First(i)
    BY DEF First
  <1>3. ASSUME NEW k
        PROVE  Allowed(k)' <=> Allowed(k)
    BY <1>1, <1>2 DEF Allowed
  <1>4. ASSUME NEW i
        PROVE  Sets(i)' = Sets(i)
    BY <1>1, <1>3 DEF Sets
  <1>5. ASSUME NEW i
        PROVE  Plain(i)' <=> Plain(i)
    BY <1>1, <1>2 DEF Plain
  <1>6. QED  BY <1>1, <1>2, <1>3, <1>4, <1>5

LEMMA SettledNext ==
    ASSUME config' = config
    PROVE  Settled' = Apply(engine.set', out_pipe')
  <1>1. Wanted' = Wanted
    BY DEF Wanted
  <1> DEFINE sent(i) == {k \in DOMAIN out_pipe' : /\ Says(out_pipe'[k], "setoption")
                                                  /\ Wanted[out_pipe'[k].n].name = config.offers[i].name
                                                  /\ Takes(config.offers[i], Wanted[out_pipe'[k].n].value)}
             next(i) == {k \in DOMAIN out_pipe' : /\ Says(out_pipe'[k], "setoption")
                                                  /\ Wanted'[out_pipe'[k].n].name = config'.offers[i].name
                                                  /\ Takes(config'.offers[i], Wanted'[out_pipe'[k].n].value)}
  <1>2. \A i : sent(i) = next(i)
    BY <1>1
  <1>3. Settled' = [i \in DOMAIN engine.set' |-> IF next(i) = {} THEN engine.set'[i]
                                                 ELSE Wanted'[out_pipe'[Max(next(i))].n].value]
    BY DEF Settled, Apply
  <1>4. Apply(engine.set', out_pipe') = [i \in DOMAIN engine.set' |-> IF sent(i) = {} THEN engine.set'[i]
                                                 ELSE Wanted[out_pipe'[Max(sent(i))].n].value]
    BY DEF Apply
  <1> HIDE DEF sent, next
  <1>5. QED  BY <1>1, <1>2, <1>3, <1>4

\* What is right once more options were sent is right before.
LEMMA RightBefore ==
    ASSUME config \in Configs, NEW i, NEW number, NEW value, Right(i, number, value)
    PROVE  Right(i, 1, value)
  <1>1. \A k \in Sets(i) : ~(k < 1)
    BY ConfigFacts DEF Sets
  <1>2. QED  BY <1>1 DEF Right

-----------------------------------------------------------------------------
(* The steps by what they do to the settings.                              *)

\* The engine is, or will be once it has read its pipe, set as it was.
SameSettings ==
    /\ UNCHANGED <<uci_options, config>>
    /\ Settled' = Settled /\ DOMAIN engine'.set = DOMAIN engine.set
    /\ CommandsKept'

LEMMA SettingsMarked ==
    ASSUME config \in Configs, SettingsKept, SameSettings, \A i, value : Right(i, Mark, value) => Right(i, Mark', value)
    PROVE  SettingsKept'
  <1>1. /\ config' = config /\ uci_options' = uci_options /\ Settled' = Settled
        /\ DOMAIN engine'.set = DOMAIN engine.set
    BY DEF SameSettings
  <1>2. \A i, number, value : (Sets(i)' = Sets(i)) /\ Wanted' = Wanted
    BY <1>1, SameConfig
  <1>3. ASSUME NEW i \in DOMAIN config.offers
        PROVE  Right(i, Mark, Settled[i])'
    <2>1. Right(i, Mark', Settled[i])
      BY <1>3 DEF SettingsKept
    <2>2. QED  BY <1>1, <1>2, <2>1 DEF Right
  <1>4. ASSUME NEW i \in DOMAIN config.offers, Plain(i)', NEW j \in DOMAIN uci_options, Spot(j, i)'
        PROVE  (\E value : Right(i, Mark, value) /\ uci_options[j].value = Read(config.offers[i], value))'
    <2>1. Plain(i) /\ Spot(j, i)
      BY <1>1, <1>4, SameConfig DEF Spot
    <2>2. PICK value : Right(i, Mark, value) /\ uci_options[j].value = Read(config.offers[i], value)
      BY <1>4, <2>1 DEF SettingsKept, Recording
    <2>3. Right(i, Mark', value)
      BY <2>2
    <2>4. QED  BY <1>1, <1>2, <2>2, <2>3 DEF Right
  <1>5. QED  BY <1>1, <1>3, <1>4 DEF SettingsKept, Recording

LEMMA SettingsSame ==
    ASSUME config \in Configs, SettingsKept, SameSettings, Mark' \in {Mark, 1}
    PROVE  SettingsKept'
  <1>1. \A i, value : Right(i, Mark, value) => Right(i, Mark', value)
    BY RightBefore
  <1>2. QED  BY <1>1, SettingsMarked

\* A command that is no setoption is written, or none.
Posts ==
    /\ UNCHANGED <<uci_options, config>> /\ engine'.set = engine.set
    /\ out_pipe' = out_pipe \/ \E command \in Text : ~Says(command, "setoption") /\ out_pipe' = Append(out_pipe, command)

LEMMA CommandsAppend ==
    ASSUME CommandsKept, out_pipe \in Seq(Text), config' = config, NEW command \in Text, out_pipe' = Append(out_pipe, command),
           Says(command, "setoption") => command.n \in DOMAIN Wanted /\ Allowed(command.n)
    PROVE  CommandsKept'
  <1>1. /\ DOMAIN out_pipe = 1..Len(out_pipe) /\ Len(out_pipe) \in Nat /\ DOMAIN out_pipe' = 1..(Len(out_pipe) + 1)
        /\ \A k \in 1..Len(out_pipe) : out_pipe'[k] = out_pipe[k]
        /\ out_pipe'[Len(out_pipe) + 1] = command
    BY AppendProperties, LenProperties
  <1>2. \A k \in DOMAIN out_pipe' : k \in DOMAIN out_pipe \/ k = Len(out_pipe) + 1
    BY <1>1
  <1>3. Wanted' = Wanted /\ \A k : Allowed(k)' <=> Allowed(k)
    BY SameConfig
  <1>4. ASSUME NEW k \in DOMAIN out_pipe', Says(out_pipe'[k], "setoption")
        PROVE  out_pipe'[k].n \in DOMAIN Wanted /\ Allowed(out_pipe'[k].n)
    BY <1>1, <1>2, <1>4 DEF CommandsKept
  <1>5. QED  BY <1>3, <1>4 DEF CommandsKept

LEMMA PostsSame ==
    ASSUME CommandsKept, out_pipe \in Seq(Text), Posts
    PROVE  SameSettings
  <1>1. config' = config /\ engine'.set = engine.set
    BY DEF Posts
  <1>2. Settled' = Apply(engine.set, out_pipe')
    BY <1>1, SettledNext
  <1>3. CASE out_pipe' = out_pipe
    <2>1. Settled' = Settled
      BY <1>2, <1>3 DEF Settled
    <2>2. CommandsKept'
      <3>1. Wanted' = Wanted /\ \A k : Allowed(k)' <=> Allowed(k)
        BY <1>1, SameConfig
      <3>2. QED  BY <1>3, <3>1 DEF CommandsKept
    <2>3. QED  BY <1>1, <2>1, <2>2 DEF SameSettings, Posts
  <1>4. ASSUME NEW command \in Text, ~Says(command, "setoption"), out_pipe' = Append(out_pipe, command)
        PROVE  SameSettings
    <2>1. CommandsKept'
      BY <1>1, <1>4, CommandsAppend
    <2>2. ASSUME NEW i \in DOMAIN engine.set
          PROVE  Apply(engine.set, out_pipe')[i] = Apply(engine.set, out_pipe)[i]
      <3>1. ~Touches(command, i)
        BY <1>4 DEF Touches
      <3>2. QED  BY <1>4, <3>1, ApplyAppend
    <2>3. /\ Apply(engine.set, out_pipe') = [i \in DOMAIN engine.set |-> Apply(engine.set, out_pipe')[i]]
          /\ Apply(engine.set, out_pipe) = [i \in DOMAIN engine.set |-> Apply(engine.set, out_pipe)[i]]
      BY DEF Apply
    <2>4. Apply(engine.set, out_pipe') = Apply(engine.set, out_pipe)
      BY <2>2, <2>3
    <2>5. Settled' = Settled
      BY <1>2, <2>4 DEF Settled
    <2>6. QED  BY <1>1, <2>1, <2>5 DEF SameSettings, Posts
  <1>5. QED  BY <1>3, <1>4 DEF Posts

\* The engine reads, and is set to what it reads.
LEMMA ReadsSame ==
    ASSUME CommandsKept, out_pipe \in Seq(Text), engine \in Brain, EngineReads
    PROVE  SameSettings
  <1>1. PICK k \in DOMAIN out_pipe :
          /\ out_pipe' = SubSeq(out_pipe, k + 1, Len(out_pipe))
          /\ engine'.set = Apply(engine.set, SubSeq(out_pipe, 1, k))
    BY DEF EngineReads, Brain
  <1>2. k \in 1..Len(out_pipe) /\ DOMAIN out_pipe = 1..Len(out_pipe) /\ Len(out_pipe) \in Nat
    BY <1>1, LenProperties
  <1>3. config' = config /\ uci_options' = uci_options
    BY DEF EngineReads, tester
  <1>4. Settled' = Settled
    <2>1. Settled' = Apply(engine.set', out_pipe')
      BY <1>3, SettledNext
    <2>2. Apply(Apply(engine.set, SubSeq(out_pipe, 1, k)), SubSeq(out_pipe, k + 1, Len(out_pipe))) = Apply(engine.set, out_pipe)
      BY <1>2, ApplySplit
    <2>3. QED  BY <1>1, <2>1, <2>2 DEF Settled
  <1>5. DOMAIN engine'.set = DOMAIN engine.set
    BY <1>1 DEF Apply
  <1>6. CommandsKept'
    <2>1. Wanted' = Wanted /\ \A n : Allowed(n)' <=> Allowed(n)
      BY <1>3, SameConfig
    <2>2. DOMAIN out_pipe' = 1..(Len(out_pipe) - k) /\ \A l \in DOMAIN out_pipe' : out_pipe'[l] = out_pipe[l + k]
      <3>1. out_pipe' \in Seq(Text) /\ Len(out_pipe') = Len(out_pipe) - k /\ \A l \in 1..Len(out_pipe') : out_pipe'[l] = out_pipe[l + k]
        <4>1. out_pipe' = SubSeq(out_pipe, k + 1, Len(out_pipe))
          BY <1>1
        <4>2. QED  BY <1>2, <4>1, AtDrop
      <3>2. QED  BY <3>1, LenProperties
    <2>3. \A l \in DOMAIN out_pipe' : l + k \in DOMAIN out_pipe
      BY <1>2, <2>2
    <2>4. ASSUME NEW l \in DOMAIN out_pipe', Says(out_pipe'[l], "setoption")
          PROVE  out_pipe'[l].n \in DOMAIN Wanted /\ Allowed(out_pipe'[l].n)
      BY <2>2, <2>3, <2>4 DEF CommandsKept
    <2>5. QED  BY <2>1, <2>4 DEF CommandsKept
  <1>7. QED  BY <1>3, <1>4, <1>5, <1>6 DEF SameSettings

\* A new process, or none: what is in the pipe for it may be sent.
LEMMA FreshSettings ==
    ASSUME config \in Configs, CommandsKept, SettingsKept, UNCHANGED <<uci_options, config, out_pipe>>, engine' = Fresh, Mark' = 1
    PROVE  SettingsKept' /\ CommandsKept'
  <1>1. engine'.set = [i \in DOMAIN config.offers |-> config.offers[i].default]
    BY DEF Fresh
  <1>2. /\ Wanted' = Wanted /\ \A k : Allowed(k)' <=> Allowed(k)
        /\ \A i : Sets(i)' = Sets(i) /\ (Plain(i)' <=> Plain(i))
    BY SameConfig
  <1>3. CommandsKept'
    BY <1>2 DEF CommandsKept
  <1>4. Settled' = Apply(engine.set', out_pipe)
    BY SettledNext
  <1>5. ASSUME NEW i \in DOMAIN config.offers
        PROVE  Right(i, 1, Settled'[i])
    <2>1. ASSUME Sets(i) = {}
          PROVE  Settled'[i] = config.offers[i].default
      <3>1. ASSUME NEW k \in DOMAIN out_pipe, Touches(out_pipe[k], i)
            PROVE  FALSE
        <4>1. out_pipe[k].n \in Sets(i)
          BY <3>1 DEF CommandsKept, Touches, Sets
        <4>2. QED  BY <2>1, <4>1
      <3>2. i \in DOMAIN engine.set'
        BY <1>1
      <3>3. Apply(engine.set', out_pipe)[i] = engine.set'[i]
        BY <3>1, <3>2, ApplyNone
      <3>4. QED  BY <1>1, <1>4, <3>3
    <2>2. \A k \in Sets(i) : ~(k < 1)
      BY ConfigFacts DEF Sets
    <2>3. QED  BY <2>1, <2>2 DEF Right
  <1>6. ASSUME NEW i \in DOMAIN config.offers, Plain(i)', NEW j \in DOMAIN uci_options, Spot(j, i)'
        PROVE  (\E value : Right(i, Mark, value) /\ uci_options[j].value = Read(config.offers[i], value))'
    <2>1. Plain(i) /\ Spot(j, i)
      BY <1>2, <1>6 DEF Spot
    <2>2. PICK value : Right(i, Mark, value) /\ uci_options[j].value = Read(config.offers[i], value)
      BY <1>6, <2>1 DEF SettingsKept, Recording
    <2>3. Right(i, 1, value)
      BY <2>2, RightBefore
    <2>4. QED  BY <1>2, <2>2, <2>3 DEF Right
  <1>7. ASSUME NEW i \in DOMAIN config.offers
        PROVE  Right(i, Mark, Settled[i])'
    BY <1>2, <1>5 DEF Right
  <1>8. DOMAIN engine'.set = DOMAIN config'.offers
    BY <1>1
  <1>9. QED  BY <1>3, <1>6, <1>7, <1>8 DEF SettingsKept, Recording

-----------------------------------------------------------------------------
(* uciok adds the options of the process; setoption records a value.       *)

\* What parseUCIOptionLine makes of the lines that are options.
LEMMA ParsedLines ==
    ASSUME config \in Configs, ~Throwing, NEW parsed,
           DOMAIN parsed = DOMAIN optionLines(config.offers),
           \A j \in DOMAIN parsed : parsed[j] \in parseUCIOptionLine(optionLines(config.offers)[j])
    PROVE  /\ Len(optionLines(config.offers)) \in Nat
           /\ DOMAIN parsed = 1..Len(optionLines(config.offers))
           /\ \A j \in DOMAIN parsed : \E f \in DOMAIN config.offers : First(f) /\ parsed[j].name = config.offers[f].name
           /\ \A i \in DOMAIN config.offers : First(i) =>
                \E j \in DOMAIN parsed :
                   /\ Like(parsed[j], config.offers[i])
                   /\ \A l \in 1..(j - 1) : parsed[l].name # config.offers[i].name
                   /\ Plain(i) => parsed[j].value = Read(config.offers[i], config.offers[i].default)
  <1> DEFINE offers == config.offers
             lines == optionLines(offers)
             n == Len(offers)
  <1>1. /\ n \in Nat /\ DOMAIN offers = 1..n
        /\ \A i \in DOMAIN offers : offers[i] \in Line /\ ~Malformed(offers[i])
    BY ConfigFacts, WellFormed
  <1>2. Picked(offers, n, lines)
    BY <1>1, OptionLinesPicked
  <1> HIDE DEF lines
  <1>3. Len(lines) \in Nat /\ DOMAIN lines = 1..Len(lines)
    BY <1>2, LenProperties DEF Picked
  <1>4. ASSUME NEW j \in DOMAIN parsed, NEW i \in DOMAIN offers, lines[j] = offers[i], offers[i].type # "other"
        PROVE  /\ Like(parsed[j], offers[i])
               /\ offers[i].type # "button" /\ Takes(offers[i], offers[i].default) =>
                     parsed[j].value = Read(offers[i], offers[i].default)
    <2>1. parsed[j] \in parseUCIOptionLine(offers[i])
      BY <1>4 DEF lines
    <2>2. QED  BY <1>1, <2>1, ParsedLike
  <1>5. ASSUME NEW j \in DOMAIN parsed
        PROVE  \E f \in DOMAIN offers : First(f) /\ parsed[j].name = offers[f].name
    <2>1. PICK i \in DOMAIN offers : lines[j] = offers[i] /\ offers[i].type # "other"
      BY <1>1, <1>2, <1>3 DEF Picked, lines
    <2>2. parsed[j].name = offers[i].name
      BY <1>4, <2>1 DEF Like
    <2>3. QED  BY <2>1, <2>2, FirstOf
  <1>6. ASSUME NEW i \in DOMAIN offers, First(i)
        PROVE  \E j \in DOMAIN parsed :
                   /\ Like(parsed[j], offers[i])
                   /\ \A l \in 1..(j - 1) : parsed[l].name # offers[i].name
                   /\ Plain(i) => parsed[j].value = Read(offers[i], offers[i].default)
    <2>1. PICK j \in 1..Len(lines) :
            /\ lines[j] = offers[i]
            /\ \A l \in 1..(j - 1) : \E m \in 1..(i - 1) : lines[l] = offers[m] /\ offers[m].type # "other"
      BY <1>1, <1>2, <1>6 DEF Picked, First
    <2>2. ASSUME NEW l \in 1..(j - 1)
          PROVE  parsed[l].name # offers[i].name
      <3>1. PICK m \in 1..(i - 1) : lines[l] = offers[m] /\ offers[m].type # "other"
        BY <2>1
      <3>2. l \in DOMAIN parsed /\ m \in DOMAIN offers
        BY <1>1, <1>3 DEF lines
      <3>3. parsed[l].name = offers[m].name
        BY <1>4, <3>1, <3>2 DEF Like
      <3>4. QED  BY <1>6, <3>1, <3>3 DEF First
    <2>3. j \in DOMAIN parsed
      BY <1>3 DEF lines
    <2>4. QED  BY <1>4, <1>6, <2>1, <2>2, <2>3 DEF First, Plain
  <1>7. QED  BY <1>3, <1>5, <1>6 DEF lines

\* A line has one place among the options.
LEMMA SpotOne ==
    ASSUME NEW i, NEW j \in Nat, NEW k \in Nat, Spot(j, i), Spot(k, i), j >= 1, k >= 1
    PROVE  j = k
  <1>1. ~(j < k)
    <2>1. j < k => j \in 1..(k - 1)
      OBVIOUS
    <2>2. QED  BY <2>1 DEF Spot, Like
  <1>2. ~(k < j)
    <2>1. k < j => k \in 1..(j - 1)
      OBVIOUS
    <2>2. QED  BY <2>1 DEF Spot, Like
  <1>3. QED  BY <1>1, <1>2

LEMMA OfferedKnown ==
    ASSUME config \in Configs, config' = config, ~Throwing, Known, Recording(1), Offered
    PROVE  Known' /\ Full' /\ Recording(1)'
  <1>1. PICK parsed : /\ DOMAIN parsed = DOMAIN optionLines(config.offers)
                      /\ \A j \in DOMAIN parsed : parsed[j] \in parseUCIOptionLine(optionLines(config.offers)[j])
                      /\ uci_options' = uci_options \o parsed
                      /\ \E T : parsed \in [DOMAIN optionLines(config.offers) -> T]
    BY WellFormed DEF Offered
  <1> DEFINE n == Len(optionLines(config.offers))
             m == Len(uci_options)
  <1>2. /\ n \in Nat /\ DOMAIN parsed = 1..n
        /\ \A j \in DOMAIN parsed : \E f \in DOMAIN config.offers : First(f) /\ parsed[j].name = config.offers[f].name
        /\ \A i \in DOMAIN config.offers : First(i) =>
             \E j \in DOMAIN parsed :
                /\ Like(parsed[j], config.offers[i])
                /\ \A l \in 1..(j - 1) : parsed[l].name # config.offers[i].name
                /\ Plain(i) => parsed[j].value = Read(config.offers[i], config.offers[i].default)
    <2>1. /\ DOMAIN parsed = DOMAIN optionLines(config.offers)
          /\ \A j \in DOMAIN parsed : parsed[j] \in parseUCIOptionLine(optionLines(config.offers)[j])
      BY <1>1
    <2>2. QED  BY <2>1, ParsedLines
  <1> HIDE DEF n
  <1>3. PICK S : uci_options \in Seq(S)
    BY DEF Known
  <1>4. PICK T : parsed \in [1..n -> T]
    BY <1>1, <1>2
  <1>5. parsed \in Seq(S \cup T) /\ uci_options \in Seq(S \cup T)
    <2>1. parsed \in Seq(T)
      BY <1>2, <1>4, SeqDef
    <2>2. S \subseteq S \cup T /\ T \subseteq S \cup T
      OBVIOUS
    <2>3. QED  BY <1>3, <2>1, <2>2, WiderSeq
  <1>6. /\ uci_options' \in Seq(S \cup T)
        /\ m \in Nat /\ DOMAIN uci_options = 1..m /\ DOMAIN uci_options' = 1..(m + n)
        /\ \A j \in 1..m : uci_options'[j] = uci_options[j]
        /\ \A j \in 1..n : uci_options'[m + j] = parsed[j]
    <2>1. Len(parsed) = n
      BY <1>2, <1>5, LenProperties
    <2>2. /\ uci_options' \in Seq(S \cup T) /\ Len(uci_options') = m + n
          /\ \A j \in 1..(m + n) : uci_options'[j] = IF j <= m THEN uci_options[j] ELSE parsed[j - m]
      BY <1>1, <1>5, <2>1, ConcatProperties
    <2>3. m \in Nat /\ DOMAIN uci_options = 1..m /\ DOMAIN uci_options' = 1..(m + n)
      BY <1>3, <2>2, LenProperties
    <2>4. \A j \in 1..m : uci_options'[j] = uci_options[j]
      BY <1>2, <2>2, <2>3
    <2>5. ASSUME NEW j \in 1..n
          PROVE  uci_options'[m + j] = parsed[j]
      <3>1. m + j \in 1..(m + n) /\ ~(m + j <= m) /\ (m + j) - m = j
        BY <1>2, <2>3
      <3>2. QED  BY <2>2, <3>1
    <2>6. QED  BY <2>2, <2>3, <2>4, <2>5
  <1>7. \A j \in DOMAIN uci_options' : j \in 1..m \/ \E l \in 1..n : j = m + l
    <2>1. SUFFICES ASSUME NEW j \in 1..(m + n), ~(j \in 1..m)
                   PROVE  j - m \in 1..n /\ j = m + (j - m)
      BY <1>6
    <2>2. QED  BY <1>2, <1>6, <2>1
  <1> HIDE DEF m
  <1>8. ASSUME NEW j \in DOMAIN uci_options'
        PROVE  \E i \in DOMAIN config.offers : First(i) /\ uci_options'[j].name = config.offers[i].name
    <2>1. CASE j \in 1..m
      BY <1>6, <2>1 DEF Known
    <2>2. ASSUME NEW l \in 1..n, j = m + l
          PROVE  \E i \in DOMAIN config.offers : First(i) /\ uci_options'[j].name = config.offers[i].name
      <3>1. uci_options'[j] = parsed[l] /\ l \in DOMAIN parsed
        BY <1>2, <1>6, <2>2
      <3>2. PICK f \in DOMAIN config.offers : First(f) /\ parsed[l].name = config.offers[f].name
        BY <1>2, <3>1
      <3>3. QED  BY <3>1, <3>2
    <2>3. QED  BY <1>7, <2>1, <2>2
  <1>9. ASSUME NEW i \in DOMAIN config.offers, First(i)
        PROVE  /\ \E j \in DOMAIN uci_options' : Spot(j, i)'
               /\ Plain(i) => \A j \in DOMAIN uci_options' : Spot(j, i)' =>
                    \E value : Right(i, 1, value) /\ uci_options'[j].value = Read(config.offers[i], value)
    <2>1. PICK l \in 1..(m + n) :
            /\ Spot(l, i)'
            /\ Plain(i) => \E value : Right(i, 1, value) /\ uci_options'[l].value = Read(config.offers[i], value)
      <3>1. CASE Full
        <4>1. PICK j \in 1..m : Spot(j, i)
          BY <1>6, <1>9, <3>1 DEF Full
        <4>2. j \in 1..(m + n) /\ \A k \in 1..(j - 1) : k \in 1..m
          BY <1>2, <1>6
        <4>3. Spot(j, i)'
          BY <1>6, <4>1, <4>2 DEF Spot
        <4>4. Plain(i) => \E value : Right(i, 1, value) /\ uci_options'[j].value = Read(config.offers[i], value)
          BY <1>6, <1>9, <4>1 DEF Recording
        <4>5. QED  BY <4>2, <4>3, <4>4
      <3>2. CASE uci_options = << >>
        <4>1. m = 0
          BY <1>3, <3>2 DEF m
        <4>2. PICK j \in 1..n :
                /\ Like(parsed[j], config.offers[i])
                /\ \A k \in 1..(j - 1) : parsed[k].name # config.offers[i].name
                /\ Plain(i) => parsed[j].value = Read(config.offers[i], config.offers[i].default)
          BY <1>2, <1>9
        <4>3. \A k \in 1..n : uci_options'[k] = parsed[k]
          BY <1>2, <1>6, <4>1
        <4>4. j \in 1..(m + n) /\ \A k \in 1..(j - 1) : k \in 1..n
          BY <1>2, <4>1
        <4>5. Spot(j, i)'
          BY <1>6, <4>2, <4>3, <4>4 DEF Spot
        <4>6. Right(i, 1, config.offers[i].default)
          <5>1. \A k \in Sets(i) : ~(k < 1)
            BY ConfigFacts DEF Sets
          <5>2. QED  BY <5>1 DEF Right
        <4>7. QED  BY <4>2, <4>3, <4>4, <4>5, <4>6
      <3>3. QED  BY <3>1, <3>2 DEF Known
    <2>2. ASSUME NEW j \in DOMAIN uci_options', Spot(j, i)'
          PROVE  j = l
      <3>1. j \in Nat /\ l \in Nat /\ j >= 1 /\ l >= 1
        BY <1>2, <1>6
      <3>2. j < l => j \in 1..(l - 1)
        BY <3>1
      <3>3. l < j => l \in 1..(j - 1)
        BY <3>1
      <3>4. ~(j < l) /\ ~(l < j)
        BY <2>1, <2>2, <3>2, <3>3 DEF Spot, Like
      <3>5. QED  BY <3>1, <3>4
    <2>3. QED  BY <1>6, <2>1, <2>2
  <1>10. /\ \A i : First(i)' <=> First(i)
         /\ \A i : Plain(i)' <=> Plain(i)
         /\ \A i : Sets(i)' = Sets(i)
         /\ Wanted' = Wanted
    BY SameConfig
  <1>11. Full'
    BY <1>9, <1>10 DEF Full
  <1>12. Known'
    BY <1>6, <1>8, <1>10, <1>11 DEF Known
  <1>13. Recording(1)'
    <2>1. SUFFICES ASSUME NEW i \in DOMAIN config.offers, Plain(i), NEW j \in DOMAIN uci_options', Spot(j, i)'
                   PROVE  (\E value : Right(i, 1, value) /\ uci_options[j].value = Read(config.offers[i], value))'
      BY <1>10 DEF Recording
    <2>2. PICK value : Right(i, 1, value) /\ uci_options'[j].value = Read(config.offers[i], value)
      BY <1>9, <2>1 DEF Plain
    <2>3. Right(i, 1, value)'
      BY <1>10, <2>2 DEF Right
    <2>4. QED  BY <2>2, <2>3
  <1>14. QED  BY <1>11, <1>12, <1>13

-----------------------------------------------------------------------------
(* One option after the other.                                             *)

LEMMA RightNext ==
    ASSUME config \in Configs, NEW i, NEW number \in Nat
    PROVE  /\ \A value : number \notin Sets(i) /\ Right(i, number, value) => Right(i, number + 1, value)
           /\ number \in Sets(i) => Right(i, number + 1, Wanted[number].value)
  <1>1. Sets(i) \subseteq Nat
    BY ConfigFacts DEF Sets
  <1>2. ASSUME NEW value, number \notin Sets(i), Right(i, number, value)
        PROVE  Right(i, number + 1, value)
    <2>1. \A k \in Sets(i) : k < number + 1 <=> k < number
      BY <1>1, <1>2
    <2>2. QED  BY <1>2, <2>1 DEF Right
  <1>3. ASSUME number \in Sets(i)
        PROVE  Right(i, number + 1, Wanted[number].value)
    <2>1. ASSUME NEW k \in Sets(i), k < number + 1, \A l \in Sets(i) : l < number + 1 => l <= k
          PROVE  k = number
      <3>1. number <= k /\ k \in Nat
        BY <1>1, <1>3, <2>1
      <3>2. QED  BY <2>1, <3>1
    <2>2. QED  BY <1>3, <2>1 DEF Right
  <1>4. QED  BY <1>2, <1>3

\* An option is written to the pipe.
LEMMA SendsSettled ==
    ASSUME config \in Configs, CommandsKept, out_pipe \in Seq(Text), UNCHANGED <<config, engine>>,
           NEW number \in DOMAIN Wanted, Allowed(number), out_pipe' = Append(out_pipe, Setoption(number)),
           DOMAIN engine.set = DOMAIN config.offers,
           \A i \in DOMAIN config.offers : Right(i, number, Settled[i])
    PROVE  CommandsKept' /\ \A i \in DOMAIN config.offers : Right(i, number + 1, Settled'[i])
  <1>1. number \in Nat
    BY ConfigFacts
  <1>2. Setoption(number) \in Text /\ Says(Setoption(number), "setoption") /\ Setoption(number).n = number
    BY <1>1 DEF Setoption, Text, Commands, Says
  <1>3. CommandsKept'
    BY <1>2, CommandsAppend
  <1>4. ASSUME NEW i \in DOMAIN config.offers
        PROVE  Right(i, number + 1, Settled'[i])
    <2>1. Settled'[i] = IF Touches(Setoption(number), i) THEN Wanted[number].value ELSE Settled[i]
      <3>1. Settled' = Apply(engine.set', out_pipe')
        BY SettledNext
      <3>2. QED  BY <1>2, <3>1, ApplyAppend DEF Settled
    <2>2. Touches(Setoption(number), i) <=> number \in Sets(i)
      BY <1>2 DEF Touches, Sets
    <2>3. QED  BY <1>1, <2>1, <2>2, RightNext
  <1>5. QED  BY <1>3, <1>4

\* And recorded.
LEMMA RecordedKnown ==
    ASSUME config \in Configs, config' = config, Known, NEW number \in DOMAIN Wanted,
           Sendable(uci_options, Wanted[number].name, Wanted[number].value), Recording(number),
           uci_options' = Recorded(uci_options, Wanted[number].name, Wanted[number].value)
    PROVE  Known' /\ Full' /\ Allowed(number) /\ Recording(number + 1)'
  <1> DEFINE name == Wanted[number].name
             text == Wanted[number].value
             at == getOption(uci_options, name)
  <1>1. PICK j \in DOMAIN uci_options : uci_options[j].name = name
    BY DEF Sendable, Found
  <1>2. PICK S : uci_options \in Seq(S)
    BY DEF Known
  <1>3. Full /\ DOMAIN uci_options = 1..Len(uci_options) /\ Len(uci_options) \in Nat
    BY <1>1, <1>2, LenProperties DEF Known
  <1>4. Allowed(number)
    BY <1>3, SendableIs
  <1>5. PICK f \in DOMAIN config.offers : First(f) /\ config.offers[f].name = name
    BY <1>4 DEF Allowed
  <1>6. Spot(at, f)
    BY <1>2, <1>3, <1>5, SpotFound DEF Full
  <1>7. at \in DOMAIN uci_options /\ Like(uci_options[at], config.offers[f]) /\ DOMAIN uci_options[at] = Fields
    BY <1>6 DEF Spot, Like
  <1>8. isValid(uci_options[at], text)
    BY DEF Sendable
  <1> DEFINE set == setValue(uci_options[at], text)
  <1>9. uci_options' = [uci_options EXCEPT ![at] = set]
    BY DEF Recorded
  <1>10. /\ set.value = Read(uci_options[at], text) /\ DOMAIN set = Fields
         /\ \A field \in Fields \ {"value"} : set[field] = uci_options[at][field]
    BY <1>7, <1>8, SetValueIs
  <1> HIDE DEF set, at, name, text
  <1>11. /\ uci_options' \in Seq(S \cup {set}) /\ DOMAIN uci_options' = DOMAIN uci_options
         /\ uci_options'[at] = set /\ \A l \in DOMAIN uci_options : l # at => uci_options'[l] = uci_options[l]
    <2>1. \A l \in 1..Len(uci_options) : uci_options[l] \in S
      BY <1>2, ElementOfSeq
    <2>2. DOMAIN uci_options' = DOMAIN uci_options /\ uci_options' = [l \in 1..Len(uci_options) |-> uci_options'[l]]
          /\ uci_options'[at] = set /\ \A l \in DOMAIN uci_options : l # at => uci_options'[l] = uci_options[l]
      BY <1>3, <1>7, <1>9
    <2>3. \A l \in 1..Len(uci_options) : uci_options'[l] \in S \cup {set}
      BY <1>3, <2>1, <2>2
    <2>4. QED  BY <1>3, <2>2, <2>3, SeqDef
  <1>12. /\ \A l \in DOMAIN uci_options : uci_options'[l].name = uci_options[l].name
         /\ \A l \in DOMAIN uci_options : \A line : Like(uci_options'[l], line) <=> Like(uci_options[l], line)
    <2>1. {"name", "type", "min", "max", "choices"} \subseteq Fields \ {"value"}
      BY DEF Fields
    <2>2. set.name = uci_options[at].name /\ \A line : Like(set, line) <=> Like(uci_options[at], line)
      BY <1>7, <1>10, <2>1 DEF Like
    <2>3. QED  BY <1>11, <2>2
  <1>13. /\ \A i : First(i)' <=> First(i)
         /\ \A i : Plain(i)' <=> Plain(i)
         /\ \A i : Sets(i)' = Sets(i)
         /\ Wanted' = Wanted
    BY SameConfig
  <1>14. ASSUME NEW l, NEW i
         PROVE  Spot(l, i)' <=> Spot(l, i)
    <2>1. ASSUME l \in DOMAIN uci_options
          PROVE  \A k \in 1..(l - 1) : k \in DOMAIN uci_options
      BY <1>3, <2>1
    <2>2. QED  BY <1>11, <1>12, <2>1 DEF Spot
  <1>15. Full'
    BY <1>3, <1>11, <1>13, <1>14 DEF Full
  <1>16. Known'
    BY <1>11, <1>12, <1>13, <1>15 DEF Known
  <1>17. Recording(number + 1)'
    <2>1. SUFFICES ASSUME NEW i \in DOMAIN config.offers, Plain(i), NEW l \in DOMAIN uci_options, Spot(l, i)
                   PROVE  \E value : Right(i, number + 1, value) /\ uci_options'[l].value = Read(config.offers[i], value)
      BY <1>11, <1>13, <1>14 DEF Recording, Right
    <2>2. PICK value : Right(i, number, value) /\ uci_options[l].value = Read(config.offers[i], value)
      BY <2>1 DEF Recording
    <2>3. number \in Nat
      BY ConfigFacts
    <2>4. CASE l = at
      <3>1. config.offers[i].name = name
        BY <1>5, <1>6, <2>1, <2>4 DEF Spot, Like
      <3>2. i = f
        BY <1>5, <2>1, <3>1, FirstsDiffer DEF Plain
      <3>3. config.offers[f] \in Line /\ config.offers[f].type # "other"
        BY <1>5, ConfigFacts DEF First
      <3>4. Accepts(config.offers[f], text) /\ Read(uci_options[at], text) = Read(config.offers[f], text)
        BY <1>7, <1>8, <3>3, LikeIs
      <3>5. number \in Sets(i)
        BY <1>4, <2>1, <3>1, <3>2, <3>4 DEF Plain, Sets, name, text
      <3>6. Right(i, number + 1, text)
        BY <2>3, <3>5, RightNext DEF text
      <3>7. uci_options'[l].value = Read(config.offers[i], text)
        BY <1>10, <1>11, <2>4, <3>2, <3>4
      <3>8. QED  BY <3>6, <3>7
    <2>5. CASE l # at
      <3>1. number \notin Sets(i)
        <4>1. SUFFICES ASSUME number \in Sets(i)
                       PROVE  FALSE
          OBVIOUS
        <4>2. config.offers[i].name = config.offers[f].name
          BY <1>5, <4>1 DEF Sets, name
        <4>3. i = f
          BY <1>5, <2>1, <4>2, FirstsDiffer DEF Plain
        <4>4. l \in Nat /\ l >= 1 /\ at \in Nat /\ at >= 1
          BY <1>3, <1>7, <2>1
        <4>5. l = at
          BY <1>6, <2>1, <4>3, <4>4, SpotOne
        <4>6. QED  BY <2>5, <4>5
      <3>2. Right(i, number + 1, value)
        BY <2>2, <2>3, <3>1, RightNext
      <3>3. QED  BY <1>11, <2>1, <2>2, <2>5, <3>2
    <2>6. QED  BY <2>4, <2>5
  <1>18. QED  BY <1>4, <1>15, <1>16, <1>17

-----------------------------------------------------------------------------
(* The course of the worker.                                               *)

\* Where the position has been sent, and where ucinewgame has.
Positioned == {<<"ready?", "isready">>, <<"ready?", "readyok">>, <<"move", "go">>}
Renewed == {<<"ready", "isready">>, <<"ready", "readyok">>}

\* A step that sets nothing and learns nothing.
Walks ==
    /\ Posts
    /\ UNCHANGED <<nth, refreshed>>
    /\ Alive' => Alive
    /\ told \subseteq told'

Course ==
    /\ pc # <<"refresh", "setoption">>
    /\ initialized' \/ pc' = <<"start", "done">> => initialized \/ pc = <<"start", "done">>
    /\ pc'[1] \in Playing => pc[1] \in Playing
    /\ pc'[1] = "ready" => pc[1] = "ready" /\ pc'[2] \in {"ucinewgame", "isready", "readyok"}
    /\ pc' = <<"refresh", "true">> => pc = <<"ready", "readyok">>
    /\ pc' \in Renewed => pc \in Renewed \/ "ucinewgame" \in told'
    /\ pc' \in Positioned => pc \in Positioned \/ "position" \in told'

LEMMA CourseMark ==
    ASSUME CourseKept, config' = config, UNCHANGED <<nth, refreshed>>, Alive' => Alive, Course
    PROVE  Mark' \in {Mark, 1}
  <1>1. Wanted' = Wanted
    BY SameConfig
  <1>2. Ready' => Ready
    BY DEF Ready, Course
  <1>3. nth = 1 /\ pc # <<"refresh", "setoption">>
    BY DEF Course, CourseKept
  <1>4. QED  BY <1>1, <1>2, <1>3 DEF Mark

LEMMA WalkKeeps ==
    ASSUME ConfiguredKept, out_pipe \in Seq(Text), Walks, Course
    PROVE  ConfiguredKept'
  <1>1. config \in Configs /\ config' = config /\ uci_options' = uci_options /\ UNCHANGED <<nth, refreshed>>
    BY DEF ConfiguredKept, CourseKept, Walks, Posts
  <1>2. Mark' \in {Mark, 1}
    BY <1>1, CourseMark DEF ConfiguredKept, Walks
  <1>3. SameSettings
    BY PostsSame DEF ConfiguredKept, Walks
  <1>4. SettingsKept' /\ CommandsKept'
    BY <1>1, <1>2, <1>3, SettingsSame DEF ConfiguredKept, SameSettings
  <1>5. OptionsKept'
    <2>1. Full' <=> Full
      BY <1>1, SameConfig DEF Full, Spot
    <2>2. Known' <=> Known
      BY <1>1, <2>1, SameConfig DEF Known
    <2>3. QED  BY <2>1, <2>2 DEF ConfiguredKept, OptionsKept, Course
  <1>6. CourseKept'
    <2>1. Wanted' = Wanted
      BY <1>1, SameConfig
    <2>2. config' \in Configs /\ nth' \in 1..(Len(Wanted') + 1) /\ (pc' # <<"refresh", "setoption">> => nth' = 1)
      BY <1>1, <2>1 DEF ConfiguredKept, CourseKept, Course
    <2>3. pc' \in {<<"ready", "isready">>, <<"ready", "readyok">>, <<"refresh", "true">>} => "ucinewgame" \in told'
      BY DEF ConfiguredKept, CourseKept, Course, Walks, Renewed
    <2>4. pc'[1] \in Playing /\ refreshed' => "ucinewgame" \in told'
      BY <1>1 DEF ConfiguredKept, CourseKept, Course, Walks
    <2>5. pc' \in {<<"ready?", "isready">>, <<"ready?", "readyok">>, <<"move", "go">>} => "position" \in told'
      BY DEF ConfiguredKept, CourseKept, Course, Walks, Positioned
    <2>6. pc'[1] = "ready" => pc'[2] \in {"ucinewgame", "isready", "readyok"}
      BY DEF Course
    <2>7. QED  BY <2>2, <2>3, <2>4, <2>5, <2>6 DEF CourseKept
  <1>7. QED  BY <1>4, <1>5, <1>6 DEF ConfiguredKept

\* The worker stays where it is.
LEMMA StandKeeps ==
    ASSUME ConfiguredKept, SameSettings, UNCHANGED <<pc, nth, refreshed, told, initialized>>, Alive' => Alive
    PROVE  ConfiguredKept'
  <1>1. config \in Configs /\ config' = config /\ uci_options' = uci_options /\ Wanted' = Wanted
    BY SameConfig DEF ConfiguredKept, CourseKept, SameSettings
  <1>2. Mark' \in {Mark, 1}
    BY <1>1 DEF Mark, Ready
  <1>3. SettingsKept' /\ CommandsKept'
    BY <1>1, <1>2, SettingsSame DEF ConfiguredKept, SameSettings
  <1>4. OptionsKept'
    <2>1. Full' <=> Full
      BY <1>1, SameConfig DEF Full, Spot
    <2>2. Known' <=> Known
      BY <1>1, <2>1, SameConfig DEF Known
    <2>3. QED  BY <2>1, <2>2 DEF ConfiguredKept, OptionsKept
  <1>5. CourseKept'
    BY <1>1 DEF ConfiguredKept, CourseKept
  <1>6. QED  BY <1>3, <1>4, <1>5 DEF ConfiguredKept

\* The engine dies, is killed, or started.
Away == {<<"start", "push">>, <<"restart", "push">>, <<"restart", "spawn">>, Over}
LEMMA RenewKeeps ==
    ASSUME ConfiguredKept, UNCHANGED <<out_pipe, uci_options, config, nth, refreshed, initialized>>, engine' = Fresh,
           \/ ~Alive' /\ pc' = pc /\ told' = told
           \/ pc # <<"refresh", "setoption">> /\ pc' \in Away
    PROVE  ConfiguredKept'
  <1>1. config \in Configs /\ config' = config /\ uci_options' = uci_options /\ Wanted' = Wanted
    BY SameConfig DEF ConfiguredKept, CourseKept
  <1>2. pc' \in Away => /\ pc'[1] \notin Playing /\ pc'[1] # "ready" /\ ~Ready'
                        /\ pc' \notin {<<"refresh", "setoption">>, <<"refresh", "true">>, <<"start", "done">>}
    BY DEF Away, Playing, Ready, Over
  <1>3. Mark' = 1
    BY <1>2 DEF Mark
  <1>4. SettingsKept' /\ CommandsKept'
    BY <1>1, <1>3, FreshSettings DEF ConfiguredKept
  <1>5. OptionsKept'
    <2>1. Full' <=> Full
      BY <1>1, SameConfig DEF Full, Spot
    <2>2. Known' <=> Known
      BY <1>1, <2>1, SameConfig DEF Known
    <2>3. QED  BY <1>2, <2>1, <2>2 DEF ConfiguredKept, OptionsKept
  <1>6. CourseKept'
    <2>1. CASE pc' = pc /\ told' = told
      BY <1>1, <2>1 DEF ConfiguredKept, CourseKept
    <2>2. CASE pc # <<"refresh", "setoption">> /\ pc' \in Away
      <3>1. pc' \notin {<<"ready", "isready">>, <<"ready", "readyok">>, <<"ready?", "isready">>, <<"ready?", "readyok">>, <<"move", "go">>}
        BY <2>2 DEF Away, Over
      <3>2. QED  BY <1>1, <1>2, <2>2, <3>1 DEF ConfiguredKept, CourseKept
    <2>3. QED  BY <2>1, <2>2
  <1>7. QED  BY <1>4, <1>5, <1>6 DEF ConfiguredKept

\* uciok is read.
LEMMA LearnKeeps ==
    ASSUME ConfiguredKept, ~Throwing, out_pipe \in Seq(Text), Offered, UNCHANGED <<out_pipe, engine, config, nth, refreshed, told, initialized>>,
           \E who \in {"start", "restart"} : pc = <<who, "uciok">>, pc' \in {<<"start", "done">>, <<"restart", "ucinewgame">>}
    PROVE  ConfiguredKept'
  <1>1. config \in Configs /\ config' = config /\ Wanted' = Wanted
    BY SameConfig DEF ConfiguredKept, CourseKept
  <1>2. Mark = 1 /\ Mark' = 1
    BY DEF Mark, Ready, Playing
  <1>3. Known' /\ Full' /\ Recording(1)'
    BY <1>1, <1>2, OfferedKnown DEF ConfiguredKept, OptionsKept, SettingsKept
  <1>4. OptionsKept'
    BY <1>3 DEF OptionsKept
  <1>5. CommandsKept'
    BY <1>1, SameConfig DEF ConfiguredKept, CommandsKept
  <1>6. SettingsKept'
    <2>1. Settled' = Settled
      BY <1>1, SettledNext DEF Settled
    <2>2. \A i : Sets(i)' = Sets(i)
      BY <1>1, SameConfig
    <2>3. ASSUME NEW i \in DOMAIN config.offers
          PROVE  Right(i, Mark, Settled[i])'
      BY <1>1, <1>2, <2>1, <2>2 DEF ConfiguredKept, SettingsKept, Right
    <2>4. Recording(Mark)'
      BY <1>2, <1>3 DEF Recording, Right
    <2>5. QED  BY <1>1, <2>3, <2>4 DEF ConfiguredKept, SettingsKept
  <1>7. CourseKept'
    <2>1. /\ pc'[1] \notin Playing /\ pc'[1] # "ready"
          /\ pc' \notin {<<"refresh", "setoption">>, <<"refresh", "true">>, <<"ready", "isready">>, <<"ready", "readyok">>,
                         <<"ready?", "isready">>, <<"ready?", "readyok">>, <<"move", "go">>}
          /\ pc # <<"refresh", "setoption">>
      BY DEF Playing
    <2>2. QED  BY <1>1, <2>1 DEF ConfiguredKept, CourseKept
  <1>8. QED  BY <1>4, <1>5, <1>6, <1>7 DEF ConfiguredKept

\* refreshUci returns.
LEMMA ReturnKeeps ==
    ASSUME ConfiguredKept, ProcessKept, out_pipe \in Seq(Text), Refreshed
    PROVE  ConfiguredKept'
  <1>1. /\ config \in Configs /\ config' = config /\ uci_options' = uci_options /\ Wanted' = Wanted
        /\ UNCHANGED <<out_pipe, engine, nth, told, initialized, process>>
        /\ pc \in {<<"refresh", "true">>, <<"refresh", "false">>} /\ pc' \in {Idle, <<"move", "loop">>}
        /\ refreshed' = (pc = <<"refresh", "true">>)
    BY SameConfig DEF ConfiguredKept, CourseKept, Refreshed, stepping, pipes, env, ProcessKept, StartKept
  <1>2. /\ pc # <<"refresh", "setoption">> /\ pc' # <<"refresh", "setoption">> /\ pc'[1] # "ready" /\ pc' # <<"refresh", "true">>
        /\ pc' # <<"start", "done">>
        /\ pc' \notin {<<"ready", "isready">>, <<"ready", "readyok">>, <<"ready?", "isready">>, <<"ready?", "readyok">>, <<"move", "go">>}
    BY <1>1 DEF Idle
  <1>3. Mark' \in {Mark, 1}
    <2>1. Ready' => Ready
      BY <1>1, <1>2 DEF Ready
    <2>2. QED  BY <1>1, <1>2, <2>1 DEF Mark, Alive
  <1>4. SameSettings
    BY <1>1, PostsSame DEF Posts, ConfiguredKept
  <1>5. SettingsKept' /\ CommandsKept'
    BY <1>1, <1>3, <1>4, SettingsSame DEF ConfiguredKept, SameSettings
  <1>6. OptionsKept'
    <2>1. Full' <=> Full
      BY <1>1, SameConfig DEF Full, Spot
    <2>2. Known' <=> Known
      BY <1>1, <2>1, SameConfig DEF Known
    <2>3. QED  BY <1>1, <1>2, <2>1, <2>2 DEF ConfiguredKept, OptionsKept
  <1>7. CourseKept'
    BY <1>1, <1>2 DEF ConfiguredKept, CourseKept
  <1>8. QED  BY <1>5, <1>6, <1>7 DEF ConfiguredKept

\* A game borrows the engine.
LEMMA BorrowKeeps ==
    ASSUME ConfiguredKept, out_pipe \in Seq(Text), Borrow
    PROVE  ConfiguredKept'
  <1>1. /\ config \in Configs /\ config' = config /\ uci_options' = uci_options /\ Wanted' = Wanted
        /\ UNCHANGED <<out_pipe, engine, nth, refreshed, initialized, process>>
        /\ pc = Idle /\ pc' = <<"start", "engine">>
    BY SameConfig DEF ConfiguredKept, CourseKept, Borrow, pipes, env
  <1>2. /\ pc # <<"refresh", "setoption">> /\ pc' # <<"refresh", "setoption">> /\ pc'[1] # "ready" /\ pc' # <<"refresh", "true">>
        /\ pc' # <<"start", "done">> /\ pc'[1] \notin Playing
        /\ pc' \notin {<<"ready", "isready">>, <<"ready", "readyok">>, <<"ready?", "isready">>, <<"ready?", "readyok">>, <<"move", "go">>}
    BY <1>1 DEF Idle, Playing
  <1>3. Mark' = 1
    BY <1>2 DEF Mark, Ready
  <1>4. SameSettings
    BY <1>1, PostsSame DEF Posts, ConfiguredKept
  <1>5. SettingsKept' /\ CommandsKept'
    BY <1>1, <1>3, <1>4, SettingsSame DEF ConfiguredKept, SameSettings
  <1>6. OptionsKept'
    <2>1. Full' <=> Full
      BY <1>1, SameConfig DEF Full, Spot
    <2>2. Known' <=> Known
      BY <1>1, <2>1, SameConfig DEF Known
    <2>3. QED  BY <1>1, <1>2, <2>1, <2>2 DEF ConfiguredKept, OptionsKept
  <1>7. CourseKept'
    BY <1>1, <1>2 DEF ConfiguredKept, CourseKept
  <1>8. QED  BY <1>5, <1>6, <1>7 DEF ConfiguredKept

\* An option that is left out, recorded or refused, and the end of the loop.
LEMMA OptionsKeep ==
    ASSUME ConfiguredKept, ProcessKept, out_pipe \in Seq(Text), SetOptions
    PROVE  ConfiguredKept'
  <1>1. /\ config \in Configs /\ config' = config /\ Wanted' = Wanted
        /\ UNCHANGED <<engine, initialized, refreshed>> /\ pc = <<"refresh", "setoption">>
    <2>1. /\ UNCHANGED <<config, engine, initialized, refreshed>> /\ pc = <<"refresh", "setoption">>
      BY DEF SetOptions, Skip, sendSetoption, Send, SetoptionThrows, setting, env
    <2>2. QED  BY <2>1, SameConfig DEF ConfiguredKept, CourseKept
  <1>2. initialized /\ Known /\ Full /\ CommandsKept /\ SettingsKept
    BY <1>1 DEF ProcessKept, StartKept, Game, ConfiguredKept, OptionsKept
  <1>3. nth \in 1..(Len(Wanted) + 1) /\ Len(Wanted) \in Nat /\ DOMAIN Wanted = 1..Len(Wanted)
    BY <1>1, ConfigFacts DEF ConfiguredKept, CourseKept
  <1>4. Mark = IF Alive THEN nth ELSE 1
    BY <1>1 DEF Mark
  <1>5. ASSUME uci_options' = uci_options
        PROVE  OptionsKept'
    <2>1. Full'
      BY <1>1, <1>2, <1>5, SameConfig DEF Full, Spot
    <2>2. Known'
      BY <1>1, <1>2, <1>5, <2>1, SameConfig DEF Known
    <2>3. QED  BY <2>1, <2>2 DEF OptionsKept
  <1>6. ASSUME UNCHANGED <<uci_options, out_pipe>>
        PROVE  SameSettings
    BY <1>1, <1>2, <1>6, PostsSame DEF Posts
  <1>7. ASSUME pc' = pc, nth \in DOMAIN Wanted, nth' = nth + 1
        PROVE  CourseKept'
    <2>1. nth' \in 1..(Len(Wanted) + 1)
      BY <1>3, <1>7
    <2>2. QED  BY <1>1, <1>7, <2>1 DEF CourseKept, Playing
  <1>8. CASE nth \in DOMAIN Wanted /\ Skip(Wanted[nth])
    <2>1. /\ UNCHANGED <<process, out_pipe, pc, uci_options>> /\ nth' = nth + 1
          /\ ~Sendable(uci_options, Wanted[nth].name, Wanted[nth].value)
      BY <1>8 DEF Skip
    <2>2. ~Allowed(nth)
      BY <1>1, <1>2, <1>8, <2>1, SendableIs
    <2>3. Mark' = IF Alive THEN nth + 1 ELSE 1
      BY <1>1, <2>1 DEF Mark, Alive
    <2>4. ASSUME NEW i, NEW value, Right(i, Mark, value)
          PROVE  Right(i, Mark', value)
      <3>1. nth \notin Sets(i) /\ nth \in Nat
        BY <1>3, <2>2 DEF Sets
      <3>2. Right(i, nth, value) => Right(i, nth + 1, value)
        BY <1>1, <3>1, RightNext
      <3>3. QED  BY <1>4, <2>3, <2>4, <3>2
    <2>5. SettingsKept' /\ CommandsKept'
      BY <1>1, <1>2, <1>6, <2>1, <2>4, SettingsMarked DEF SameSettings
    <2>6. QED  BY <1>5, <1>7, <1>8, <2>1, <2>5 DEF ConfiguredKept
  <1>9. CASE nth \in DOMAIN Wanted /\ sendSetoption(Wanted[nth])
    <2>1. /\ pc' = pc /\ nth' = nth + 1 /\ process' = Reaped
          /\ Sendable(uci_options, Wanted[nth].name, Wanted[nth].value)
          /\ IF Alive
             THEN /\ uci_options' = Recorded(uci_options, Wanted[nth].name, Wanted[nth].value)
                  /\ out_pipe' = Append(out_pipe, Setoption(nth))
             ELSE UNCHANGED <<uci_options, out_pipe>>
      BY <1>9 DEF sendSetoption, Send
    <2>2. Alive' <=> Alive
      BY <2>1 DEF Reaped, Alive, ProcessKept, ObjectKept, Entry
    <2>3. Mark' = IF Alive THEN nth + 1 ELSE 1
      BY <1>1, <2>1, <2>2 DEF Mark
    <2>4. CASE ~Alive
      <3>1. UNCHANGED <<uci_options, out_pipe>> /\ Mark' = 1
        BY <2>1, <2>3, <2>4
      <3>2. SettingsKept' /\ CommandsKept'
        BY <1>1, <1>2, <1>6, <3>1, SettingsSame DEF SameSettings
      <3>3. QED  BY <1>5, <1>7, <1>9, <2>1, <3>1, <3>2 DEF ConfiguredKept
    <2>5. CASE Alive
      <3>1. SUFFICES ASSUME NEW number \in DOMAIN Wanted, number = nth
                     PROVE  ConfiguredKept'
        BY <1>9
      <3>2. Recording(number) /\ \A i \in DOMAIN config.offers : Right(i, number, Settled[i])
        BY <1>2, <1>4, <2>5, <3>1 DEF SettingsKept
      <3>3. Known' /\ Full' /\ Allowed(number) /\ Recording(number + 1)'
        <4>1. /\ Sendable(uci_options, Wanted[number].name, Wanted[number].value)
              /\ uci_options' = Recorded(uci_options, Wanted[number].name, Wanted[number].value)
          BY <2>1, <2>5, <3>1
        <4>2. QED  BY <1>1, <1>2, <3>2, <4>1, RecordedKnown
      <3>4. out_pipe' = Append(out_pipe, Setoption(number)) /\ DOMAIN engine.set = DOMAIN config.offers
        BY <1>2, <2>1, <2>5, <3>1 DEF SettingsKept
      <3>5. CommandsKept' /\ \A i \in DOMAIN config.offers : Right(i, number + 1, Settled'[i])
        BY <1>1, <1>2, <3>2, <3>3, <3>4, SendsSettled
      <3>6. SettingsKept'
        <4>1. Mark' = number + 1
          BY <2>3, <2>5, <3>1
        <4>2. \A i : Sets(i)' = Sets(i)
          BY <1>1, SameConfig
        <4>3. ASSUME NEW i \in DOMAIN config.offers
              PROVE  Right(i, Mark, Settled[i])'
          BY <1>1, <3>5, <4>1, <4>2, <4>3 DEF Right
        <4>4. Recording(Mark)'
          BY <3>3, <4>1 DEF Recording, Right
        <4>5. QED  BY <1>1, <3>4, <4>3, <4>4 DEF SettingsKept
      <3>7. QED  BY <1>7, <1>9, <2>1, <3>3, <3>5, <3>6 DEF ConfiguredKept, OptionsKept
    <2>6. QED  BY <2>4, <2>5
  <1>10. CASE nth \in DOMAIN Wanted /\ SetoptionThrows(Wanted[nth])
    <2>1. UNCHANGED <<uci_options, out_pipe>> /\ pc' = Idle /\ nth' = 1
      BY <1>10 DEF SetoptionThrows
    <2>2. Mark' = 1
      BY <2>1 DEF Mark, Ready, Playing, Idle
    <2>3. SettingsKept' /\ CommandsKept'
      BY <1>1, <1>2, <1>6, <2>1, <2>2, SettingsSame DEF SameSettings
    <2>4. CourseKept'
      BY <1>1, <1>3, <2>1 DEF CourseKept, Playing, Idle
    <2>5. QED  BY <1>5, <2>1, <2>3, <2>4 DEF ConfiguredKept
  <1>11. CASE nth \notin DOMAIN Wanted /\ UNCHANGED <<process, out_pipe, uci_options>> /\ pc' = <<"ready", "ucinewgame">> /\ nth' = 1
    <2>1. nth = Len(Wanted) + 1
      BY <1>3, <1>11
    <2>2. Mark' = Mark
      BY <1>1, <1>4, <1>11, <2>1 DEF Mark, Ready, Alive
    <2>3. SettingsKept' /\ CommandsKept'
      BY <1>1, <1>2, <1>6, <1>11, <2>2, SettingsSame DEF SameSettings
    <2>4. CourseKept'
      BY <1>1, <1>3, <1>11 DEF CourseKept, Playing
    <2>5. QED  BY <1>5, <1>11, <2>3, <2>4 DEF ConfiguredKept
  <1>12. QED  BY <1>8, <1>9, <1>10, <1>11 DEF SetOptions

-----------------------------------------------------------------------------
(* The steps of the worker.                                                *)

LEMMA TellStill ==
    ASSUME ProcessKept, NEW at, NEW word \in Commands \ {"setoption"}, NEW ok, NEW bad, Tell(at, word, ok, bad)
    PROVE  Walks /\ UNCHANGED initialized /\ pc = at /\ ((pc' = ok /\ word \in told') \/ pc' = bad)
  <1>1. Message(word) \in Text /\ ~Says(Message(word), "setoption") /\ Message(word).say = word
    BY DEF Message, Text, Says
  <1>2. process \in Entry
    BY DEF ProcessKept, ObjectKept
  <1>3. /\ pc = at /\ process' = Reaped
        /\ UNCHANGED <<uci_options, config, engine, nth, refreshed, initialized>>
        /\ \/ out_pipe' = Append(out_pipe, Message(word)) /\ told' = told \cup {word} /\ pc' = ok
           \/ UNCHANGED <<out_pipe, told>> /\ pc' = bad
    BY <1>1 DEF Tell, Send, quiet, env
  <1>4. Alive' => Alive
    BY <1>2, <1>3 DEF Reaped, Alive
  <1>5. Posts
    BY <1>1, <1>3 DEF Posts
  <1>6. QED  BY <1>3, <1>4, <1>5 DEF Walks

\* A read learns something of the engine at uciok only.
LEMMA ReadStill ==
    ASSUME NEW at, NEW word, NEW patience, NEW ok, NEW bad, readProcess(at, word, patience, ok, bad)
    PROVE  /\ pc = at /\ pc' \in {at, ok, bad}
           /\ UNCHANGED <<out_pipe, engine, config, nth, refreshed, told, initialized>>
           /\ \/ Walks /\ (word # "uciok" \/ pc' \in {at, bad})
              \/ word = "uciok" /\ pc' = ok /\ Offered
  <1>1. CASE Receive(at, word, ok)
    <2>1. pc = at /\ UNCHANGED <<process, out_pipe, engine, config, nth, refreshed, told, initialized>>
      BY <1>1 DEF Receive, quiet, env
    <2>2. \/ UNCHANGED uci_options /\ (word # "uciok" \/ pc' = at)
          \/ word = "uciok" /\ pc' = ok /\ Offered
      BY <1>1 DEF Receive
    <2>3. pc' \in {at, ok}
      BY <1>1 DEF Receive
    <2>4. QED  BY <2>1, <2>2, <2>3 DEF Walks, Posts, Alive
  <1>2. CASE Mixed(at)
    BY <1>2 DEF Mixed, history, Walks, Posts, Alive
  <1>3. CASE Interrupted(at, patience, bad)
    BY <1>3 DEF Interrupted, pipes, quiet, env, Walks, Posts, Alive
  <1>4. CASE TimedOut(at, patience, bad)
    BY <1>4 DEF TimedOut, pipes, Walks, Posts, Alive
  <1>5. QED  BY <1>1, <1>2, <1>3, <1>4 DEF readProcess

LEMMA ProceedStill ==
    ASSUME NEW at, NEW to, Proceed(at, to)
    PROVE  Walks /\ UNCHANGED initialized /\ pc = at /\ pc' = to
  BY DEF Proceed, stepping, pipes, env, Walks, Posts, Alive

LEMMA PingStill ==
    ASSUME ProcessKept, NEW who, NEW ok, NEW bad, isready(who, ok, bad)
    PROVE  /\ Walks /\ UNCHANGED initialized
           /\ \/ pc = <<who, "isready">> /\ pc' \in {<<who, "readyok">>, bad}
              \/ pc = <<who, "readyok">> /\ pc' \in {<<who, "readyok">>, ok, bad}
  <1>1. CASE Tell(<<who, "isready">>, "isready", <<who, "readyok">>, bad)
    <2>1. "isready" \in Commands \ {"setoption"}
      BY DEF Commands
    <2>2. QED  BY <1>1, <2>1, TellStill
  <1>2. CASE readProcess(<<who, "readyok">>, "readyok", "ping", ok, bad)
    BY <1>2, ReadStill
  <1>3. QED  BY <1>1, <1>2 DEF isready

LEMMA NewGameStill ==
    ASSUME ProcessKept, NEW who, NEW ok, NEW bad, ucinewgame(who, ok, bad)
    PROVE  /\ Walks /\ UNCHANGED initialized
           /\ \/ pc = <<who, "ucinewgame">> /\ ((pc' = <<who, "isready">> /\ "ucinewgame" \in told') \/ pc' = bad)
              \/ pc = <<who, "isready">> /\ pc' \in {<<who, "readyok">>, bad}
              \/ pc = <<who, "readyok">> /\ pc' \in {<<who, "readyok">>, ok, bad}
  <1>1. CASE Tell(<<who, "ucinewgame">>, "ucinewgame", <<who, "isready">>, bad)
    <2>1. "ucinewgame" \in Commands \ {"setoption"}
      BY DEF Commands
    <2>2. QED  BY <1>1, <2>1, TellStill
  <1>2. CASE isready(who, ok, bad)
    BY <1>2, PingStill
  <1>3. QED  BY <1>1, <1>2 DEF ucinewgame

LEMMA ShakeKeeps ==
    ASSUME ConfiguredKept, ProcessKept, ~Throwing, ~gaveup', out_pipe \in Seq(Text), NEW who, NEW ok, NEW bad, handshake(who, ok, bad),
           \/ who = "start" /\ ok = <<"start", "done">> /\ bad = <<"start", "failed">>
           \/ who = "restart" /\ ok = <<"restart", "ucinewgame">> /\ bad = <<"refresh", "false">>
    PROVE  ConfiguredKept'
  <1>1. CASE Tell(<<who, "uci">>, "uci", <<who, "uciok">>, bad)
    <2>1. "uci" \in Commands \ {"setoption"}
      BY DEF Commands
    <2>2. Walks /\ UNCHANGED initialized /\ pc = <<who, "uci">> /\ pc' \in {<<who, "uciok">>, bad}
      BY <1>1, <2>1, TellStill
    <2>3. Course
      BY <2>2 DEF Course, Playing, Renewed, Positioned
    <2>4. QED  BY <2>2, <2>3, WalkKeeps
  <1>2. CASE readProcess(<<who, "uciok">>, "uciok", "ping", IF Throwing THEN <<who, "thrown">> ELSE ok, bad)
    <2>1. /\ pc = <<who, "uciok">> /\ pc' \in {<<who, "uciok">>, ok, bad}
          /\ UNCHANGED <<out_pipe, engine, config, nth, refreshed, told, initialized>>
          /\ (Walks /\ pc' # ok) \/ (pc' = ok /\ Offered)
      BY <1>2, ReadStill
    <2>2. CASE pc' = ok /\ Offered
      BY <2>1, <2>2, LearnKeeps
    <2>3. CASE Walks /\ pc' # ok
      <3>1. Course
        BY <2>1, <2>3 DEF Course, Playing, Renewed, Positioned
      <3>2. QED  BY <2>3, <3>1, WalkKeeps
    <2>4. QED  BY <2>1, <2>2, <2>3
  <1>3. ~Thrown(who)
    BY ThrownAt
  <1>4. QED  BY <1>1, <1>2, <1>3 DEF handshake

LEMMA InitKeeps ==
    ASSUME ConfiguredKept, ProcessKept, out_pipe \in Seq(Text), NEW who, NEW bad, init(who, bad),
           \/ who = "start" /\ bad = <<"start", "failed">>
           \/ who = "restart" /\ bad = <<"restart", "uci">>
    PROVE  ConfiguredKept'
  <1>1. CASE Spawn(who)
    <2>1. /\ UNCHANGED <<out_pipe, uci_options, config, nth, refreshed, initialized>> /\ engine' = Fresh
          /\ pc = <<who, "spawn">> /\ pc' = <<who, "push">>
      BY <1>1 DEF Spawn, elsewhere, pipes
    <2>2. pc # <<"refresh", "setoption">> /\ pc' \in Away
      BY <2>1 DEF Away
    <2>3. QED  BY <2>1, <2>2, RenewKeeps
  <1>2. CASE SpawnFails(who, bad) \/ Push(who)
    <2>1. /\ Walks /\ UNCHANGED initialized
          /\ \/ pc = <<who, "spawn">> /\ pc' = bad
             \/ pc = <<who, "push">> /\ pc' = <<who, "uci">>
      BY <1>2 DEF SpawnFails, Push, elsewhere, pipes, Walks, Posts, Alive, ProcessKept, ObjectKept, Entry
    <2>2. Course
      BY <2>1 DEF Course, Playing, Renewed, Positioned
    <2>3. QED  BY <2>1, <2>2, WalkKeeps
  <1>3. QED  BY <1>1, <1>2 DEF init

LEMMA KillKeeps ==
    ASSUME ConfiguredKept, ProcessKept, out_pipe \in Seq(Text), NEW who, NEW ok, killProcess(who, ok),
           \/ who = "restart" /\ ok = <<"restart", "spawn">>
           \/ who = "quit" /\ ok = Over
    PROVE  ConfiguredKept'
  <1>1. CASE Unlist(who, ok)
    <2>1. /\ Walks /\ UNCHANGED initialized
          /\ pc = <<who, "unlist">> /\ pc' \in {ok, <<who, "reap">>}
      BY <1>1 DEF Unlist, elsewhere, pipes, Walks, Posts, Alive, ProcessKept, ObjectKept, Entry
    <2>2. Course
      BY <2>1 DEF Course, Playing, Renewed, Positioned, Over
    <2>3. QED  BY <2>1, <2>2, WalkKeeps
  <1>2. CASE Reap(who, ok)
    <2>1. /\ UNCHANGED <<out_pipe, uci_options, config, nth, refreshed, initialized>> /\ engine' = Fresh
          /\ pc = <<who, "reap">> /\ pc' = ok
      BY <1>2 DEF Reap, elsewhere, pipes
    <2>2. pc # <<"refresh", "setoption">> /\ pc' \in Away
      BY <2>1 DEF Away
    <2>3. QED  BY <2>1, <2>2, RenewKeeps
  <1>3. QED  BY <1>1, <1>2 DEF killProcess

LEMMA StartKeeps ==
    ASSUME ConfiguredKept, ProcessKept, ~Throwing, ~gaveup', out_pipe \in Seq(Text), start
    PROVE  ConfiguredKept'
  <1>1. CASE init("start", <<"start", "failed">>)
    BY <1>1, InitKeeps
  <1>2. CASE handshake("start", <<"start", "done">>, <<"start", "failed">>)
    BY <1>2, ShakeKeeps
  <1>3. ~StartFails
    BY DEF StartFails
  <1>4. CASE Started
    <2>1. Walks /\ pc = <<"start", "done">> /\ pc' \in {Idle, <<"refresh", "ucinewgame">>}
      BY <1>4 DEF Started, stepping, pipes, env, Walks, Posts, Alive
    <2>2. Course
      BY <2>1 DEF Course, Playing, Renewed, Positioned, Idle
    <2>3. QED  BY <2>1, <2>2, WalkKeeps
  <1>5. ASSUME initialized, Proceed(<<"start", "engine">>, <<"start", "done">>)
        PROVE  ConfiguredKept'
    <2>1. Walks /\ UNCHANGED initialized /\ pc = <<"start", "engine">> /\ pc' = <<"start", "done">>
      BY <1>5, ProceedStill
    <2>2. Course
      BY <1>5, <2>1 DEF Course, Playing, Renewed, Positioned
    <2>3. QED  BY <2>1, <2>2, WalkKeeps
  <1>6. ASSUME Proceed(<<"start", "engine">>, <<"start", "spawn">>)
        PROVE  ConfiguredKept'
    <2>1. Walks /\ UNCHANGED initialized /\ pc = <<"start", "engine">> /\ pc' = <<"start", "spawn">>
      BY <1>6, ProceedStill
    <2>2. Course
      BY <2>1 DEF Course, Playing, Renewed, Positioned
    <2>3. QED  BY <2>1, <2>2, WalkKeeps
  <1>7. QED  BY <1>1, <1>2, <1>3, <1>4, <1>5, <1>6 DEF start

\* ucinewgame and isready, where refreshUci and playMove and playGame have them.
LEMMA NewGameKeeps ==
    ASSUME ConfiguredKept, ProcessKept, out_pipe \in Seq(Text), NEW who, NEW ok, NEW bad, ucinewgame(who, ok, bad),
           \/ who = "refresh" /\ ok = <<"refresh", "setoption">> /\ bad = <<"restart", "unlist">>
           \/ who = "restart" /\ ok = <<"refresh", "setoption">> /\ bad = <<"refresh", "false">>
           \/ who = "ready" /\ ok = <<"refresh", "true">> /\ bad = <<"refresh", "false">>
    PROVE  ConfiguredKept'
  <1>1. /\ Walks /\ UNCHANGED initialized
        /\ \/ pc = <<who, "ucinewgame">> /\ ((pc' = <<who, "isready">> /\ "ucinewgame" \in told') \/ pc' = bad)
           \/ pc = <<who, "isready">> /\ pc' \in {<<who, "readyok">>, bad}
           \/ pc = <<who, "readyok">> /\ pc' \in {<<who, "readyok">>, ok, bad}
    BY NewGameStill
  <1>2. Course
    <2>1. CASE who = "refresh" /\ ok = <<"refresh", "setoption">> /\ bad = <<"restart", "unlist">>
      BY <1>1, <2>1 DEF Course, Playing, Renewed, Positioned
    <2>2. CASE who = "restart" /\ ok = <<"refresh", "setoption">> /\ bad = <<"refresh", "false">>
      BY <1>1, <2>2 DEF Course, Playing, Renewed, Positioned
    <2>3. CASE who = "ready" /\ ok = <<"refresh", "true">> /\ bad = <<"refresh", "false">>
      BY <1>1, <2>3 DEF Course, Playing, Renewed, Positioned
    <2>4. QED  BY <2>1, <2>2, <2>3
  <1>3. QED  BY <1>1, <1>2, WalkKeeps

LEMMA PingKeeps ==
    ASSUME ConfiguredKept, ProcessKept, out_pipe \in Seq(Text), NEW who, NEW ok, NEW bad, isready(who, ok, bad),
           \/ who = "before" /\ ok = <<"move", "position">> /\ bad = <<"move", "crash">>
           \/ who = "ready?" /\ ok = <<"move", "go">> /\ bad = <<"move", "crash">>
           \/ who = "after" /\ ok = <<"move", "judge">> /\ bad = <<"move", "crash">>
           \/ who = "recover" /\ ok = Idle /\ bad = <<"refresh", "ucinewgame">>
    PROVE  ConfiguredKept'
  <1>1. /\ Walks /\ UNCHANGED initialized
        /\ \/ pc = <<who, "isready">> /\ pc' \in {<<who, "readyok">>, bad}
           \/ pc = <<who, "readyok">> /\ pc' \in {<<who, "readyok">>, ok, bad}
    BY PingStill
  <1>2. Course
    <2>1. CASE who = "before" /\ ok = <<"move", "position">> /\ bad = <<"move", "crash">>
      BY <1>1, <2>1 DEF Course, Playing, Renewed, Positioned
    <2>2. CASE who = "ready?" /\ ok = <<"move", "go">> /\ bad = <<"move", "crash">>
      BY <1>1, <2>2 DEF Course, Playing, Renewed, Positioned
    <2>3. CASE who = "after" /\ ok = <<"move", "judge">> /\ bad = <<"move", "crash">>
      BY <1>1, <2>3 DEF Course, Playing, Renewed, Positioned
    <2>4. CASE who = "recover" /\ ok = Idle /\ bad = <<"refresh", "ucinewgame">>
      BY <1>1, <2>4 DEF Course, Playing, Renewed, Positioned, Idle
    <2>5. QED  BY <2>1, <2>2, <2>3, <2>4
  <1>3. QED  BY <1>1, <1>2, WalkKeeps

LEMMA RefreshKeeps ==
    ASSUME ConfiguredKept, ProcessKept, ~Throwing, ~gaveup', out_pipe \in Seq(Text), refreshUci
    PROVE  ConfiguredKept'
  <1>1. CASE \/ ucinewgame("refresh", <<"refresh", "setoption">>, <<"restart", "unlist">>)
             \/ ucinewgame("restart", <<"refresh", "setoption">>, <<"refresh", "false">>)
             \/ ucinewgame("ready", <<"refresh", "true">>, <<"refresh", "false">>)
    BY <1>1, NewGameKeeps
  <1>2. QED  BY <1>1, KillKeeps, InitKeeps, ShakeKeeps, OptionsKeep, ReturnKeeps DEF refreshUci

\* Inside a game the worker goes on, or leaves it.
LEMMA MoveKeeps ==
    ASSUME ConfiguredKept, ProcessKept, Typed, playMove
    PROVE  ConfiguredKept'
  <1> USE DEF Idle, Think
  <1>1. out_pipe \in Seq(Text)
    BY DEF Typed
  <1>2. ASSUME Walks, UNCHANGED initialized, pc[1] \in {"move", "late"}, pc' = Idle \/ pc'[1] \in {"move", "before", "after", "late"},
               pc[1] = "late" => pc' = Idle \/ pc'[1] = "late", pc' # <<"move", "go">>
        PROVE  ConfiguredKept'
    <2>1. pc # <<"refresh", "setoption">> /\ pc' # <<"start", "done">> /\ pc' # <<"refresh", "true">> /\ pc'[1] # "ready"
      BY <1>2
    <2>2. pc'[1] \in Playing => pc[1] \in Playing
      BY <1>2 DEF Playing
    <2>3. pc' \notin Renewed /\ pc' \notin Positioned
      BY <1>2 DEF Renewed, Positioned
    <2>4. Course
      BY <1>2, <2>1, <2>2, <2>3 DEF Course
    <2>5. QED  BY <1>1, <1>2, <2>4, WalkKeeps
  <1>3. CASE GameOver \/ Refilled
    <2>1. Walks /\ UNCHANGED initialized /\ pc \in {<<"move", "loop">>, <<"move", "judge">>} /\ pc' = Idle
      BY <1>3 DEF GameOver, Refilled, stepping, pipes, env, Walks, Posts, Alive
    <2>2. QED  BY <1>2, <2>1
  <1>4. CASE NextMove
    <2>1. Walks /\ UNCHANGED initialized /\ pc = <<"move", "loop">> /\ pc' = <<"before", "isready">>
      BY <1>4, ProceedStill DEF NextMove
    <2>2. QED  BY <1>2, <2>1
  <1>5. CASE \/ isready("before", <<"move", "position">>, <<"move", "crash">>)
             \/ isready("ready?", <<"move", "go">>, <<"move", "crash">>)
             \/ isready("after", <<"move", "judge">>, <<"move", "crash">>)
    BY <1>1, <1>5, PingKeeps
  <1>6. CASE Tell(<<"move", "position">>, "position", <<"ready?", "isready">>, <<"move", "crash">>)
    <2>1. "position" \in Commands \ {"setoption"}
      BY DEF Commands
    <2>2. /\ Walks /\ UNCHANGED initialized /\ pc = <<"move", "position">>
          /\ (pc' = <<"ready?", "isready">> /\ "position" \in told') \/ pc' = <<"move", "crash">>
      BY <1>6, <2>1, TellStill
    <2>3. Course
      BY <2>2 DEF Course, Playing, Renewed, Positioned
    <2>4. QED  BY <1>1, <2>2, <2>3, WalkKeeps
  <1>7. CASE go
    <2>1. Go(asked + 1) \in Text /\ Go(asked + 1).say = "go"
      BY DEF Typed, Go, Text, Commands
    <2>2. /\ pc = <<"move", "go">> /\ pc' \in {Think, <<"move", "crash">>} /\ process' = Reaped
          /\ UNCHANGED <<uci_options, config, engine, nth, refreshed, initialized>>
          /\ \/ out_pipe' = Append(out_pipe, Go(asked + 1)) /\ told' = told \cup {"go"}
             \/ UNCHANGED <<out_pipe, told>>
      BY <1>7, <2>1 DEF go, Send, quiet, env
    <2>3. Posts
      BY <2>1, <2>2 DEF Posts, Says
    <2>4. Alive' => Alive
      BY <2>2 DEF Alive, Reaped, ProcessKept, ObjectKept, Entry
    <2>5. Walks
      BY <2>2, <2>3, <2>4 DEF Walks
    <2>6. QED  BY <1>2, <2>2, <2>5
  <1>8. CASE think
    <2>1. Walks /\ UNCHANGED initialized /\ pc = Think /\ pc' \in {Think, <<"move", "done">>}
      BY <1>8, ReadStill DEF think
    <2>2. QED  BY <1>2, <2>1
  <1>9. CASE Done
    <2>1. Walks /\ UNCHANGED initialized /\ pc = <<"move", "done">> /\ pc' \in {Idle, <<"after", "isready">>}
      BY <1>9, ProceedStill DEF Done
    <2>2. QED  BY <1>2, <2>1
  <1>10. CASE Late \/ InTime
    <2>1. Walks /\ UNCHANGED initialized /\ pc = <<"move", "judge">> /\ pc' \in {Idle, <<"move", "loop">>, <<"late", "stop">>}
      BY <1>10, ProceedStill DEF Late, InTime
    <2>2. QED  BY <1>2, <2>1
  <1>11. CASE setEngineTimeoutStatus
    <2>1. "stop" \in Commands \ {"setoption"}
      BY DEF Commands
    <2>2. ASSUME NEW to \in {Idle, <<"late", "wait">>}, Tell(<<"late", "stop">>, "stop", to, to)
          PROVE  ConfiguredKept'
      <3>1. Walks /\ UNCHANGED initialized /\ pc = <<"late", "stop">> /\ pc' \in {Idle, <<"late", "wait">>}
        BY <2>1, <2>2, TellStill
      <3>2. QED  BY <1>2, <3>1
    <2>3. CASE readProcess(<<"late", "wait">>, "bestmove", "grace", Idle, Idle)
      <3>1. Walks /\ UNCHANGED initialized /\ pc = <<"late", "wait">> /\ pc' \in {Idle, <<"late", "wait">>}
        BY <2>3, ReadStill
      <3>2. QED  BY <1>2, <3>1
    <2>4. QED  BY <1>11, <2>2, <2>3 DEF setEngineTimeoutStatus
  <1>12. QED
    BY <1>3, <1>4, <1>5, <1>6, <1>7, <1>8, <1>9, <1>10, <1>11 DEF playMove

LEMMA RecoverKeeps ==
    ASSUME ConfiguredKept, ProcessKept, out_pipe \in Seq(Text), recover
    PROVE  ConfiguredKept'
  <1>1. CASE Crash
    <2>1. Walks /\ UNCHANGED initialized /\ pc = <<"move", "crash">> /\ pc' \in {Idle, <<"recover", "isready">>}
      BY <1>1 DEF Crash, pipes, env, Walks, Posts, Alive
    <2>2. Course
      BY <2>1 DEF Course, Playing, Renewed, Positioned, Idle
    <2>3. QED  BY <2>1, <2>2, WalkKeeps
  <1>2. CASE isready("recover", Idle, <<"refresh", "ucinewgame">>)
    BY <1>2, PingKeeps
  <1>3. QED  BY <1>1, <1>2 DEF recover

LEMMA DestroyKeeps ==
    ASSUME ConfiguredKept, ProcessKept, out_pipe \in Seq(Text), Destroy
    PROVE  ConfiguredKept'
  <1>1. ASSUME Walks, UNCHANGED initialized, pc = Idle, pc' = <<"quit", "unlist">>
        PROVE  ConfiguredKept'
    <2>1. Course
      BY <1>1 DEF Course, Playing, Renewed, Positioned, Idle
    <2>2. QED  BY <1>1, <2>1, WalkKeeps
  <1>2. CASE Tell(Idle, "quit", <<"quit", "unlist">>, <<"quit", "unlist">>)
    <2>1. "quit" \in Commands \ {"setoption"}
      BY DEF Commands
    <2>2. QED  BY <1>1, <1>2, <2>1, TellStill
  <1>3. CASE Proceed(Idle, <<"quit", "unlist">>)
    BY <1>1, <1>3, ProceedStill
  <1>4. CASE killProcess("quit", Over)
    BY <1>4, KillKeeps
  <1>5. QED  BY <1>2, <1>3, <1>4 DEF Destroy

LEMMA EngineKeeps ==
    ASSUME ConfiguredKept, ProcessKept, ~gaveup, Typed, EngineProgram
    PROVE  ConfiguredKept'
  <1>1. out_pipe \in Seq(Text) /\ engine \in Brain
    BY DEF Typed
  <1>2. UNCHANGED <<uci_options, config, pc, nth, refreshed, told, initialized>> /\ (Alive' => Alive)
    BY DEF EngineProgram, LeftReads, EngineReads, EngineMoves, EngineTalks, EngineDies, EngineFreezes, tester, history, Alive
  <1>3. CASE EngineReads
    <2>1. SameSettings
      BY <1>1, <1>3, ReadsSame DEF ConfiguredKept
    <2>2. QED  BY <1>2, <2>1, StandKeeps
  <1>4. CASE EngineMoves \/ EngineTalks \/ EngineFreezes
    <2>1. UNCHANGED out_pipe /\ engine'.set = engine.set
      BY <1>1, <1>4 DEF EngineMoves, EngineTalks, EngineFreezes, pipes, Brain
    <2>2. SameSettings
      BY <1>1, <1>2, <2>1, PostsSame DEF Posts, ConfiguredKept
    <2>3. QED  BY <1>2, <2>2, StandKeeps
  <1>5. CASE EngineDies
    <2>1. engine' = Fresh /\ UNCHANGED out_pipe /\ ~Alive'
      BY <1>5 DEF EngineDies, pipes, Alive, ProcessKept, ObjectKept, Entry
    <2>2. QED  BY <1>2, <2>1, RenewKeeps
  <1>6. ~LeftReads
    BY DEF LeftReads, ProcessKept, ObjectKept
  <1>7. QED  BY <1>3, <1>4, <1>5, <1>6 DEF EngineProgram

LEMMA ConfiguredInit ==
    ASSUME Init
    PROVE  ConfiguredKept
  <1>1. /\ pc = <<"worker", "idle">> /\ out_pipe = << >> /\ uci_options = << >> /\ nth = 1 /\ config \in Configs
        /\ engine = Fresh /\ ~initialized /\ process.state = "none" /\ ~refreshed
    BY DEF Init, Idle
  <1>2. Len(Wanted) \in Nat
    BY <1>1, ConfigFacts
  <1>3. Mark = 1
    BY <1>1 DEF Mark, Alive
  <1>4. DOMAIN out_pipe = {} /\ DOMAIN uci_options = {} /\ uci_options \in Seq({})
    BY <1>1
  <1>5. OptionsKept /\ CommandsKept
    BY <1>1, <1>4 DEF OptionsKept, Known, CommandsKept
  <1>6. CourseKept
    BY <1>1, <1>2 DEF CourseKept, Playing
  <1>7. SettingsKept
    <2>1. engine.set = [i \in DOMAIN config.offers |-> config.offers[i].default]
      BY <1>1 DEF Fresh
    <2>2. ASSUME NEW i \in DOMAIN config.offers
          PROVE  Right(i, Mark, Settled[i])
      <3>1. Settled[i] = config.offers[i].default
        BY <1>4, <2>1, ApplyNone DEF Settled
      <3>2. \A k \in Sets(i) : ~(k < 1)
        BY <1>1, ConfigFacts DEF Sets
      <3>3. QED  BY <1>3, <3>1, <3>2 DEF Right
    <2>3. Recording(Mark)
      BY <1>4 DEF Recording
    <2>4. QED  BY <2>1, <2>2, <2>3 DEF SettingsKept
  <1>8. QED  BY <1>5, <1>6, <1>7 DEF ConfiguredKept

\* Every start() of this engine has succeeded, and can.
Sound == ~Throwing /\ ~gaveup

LEMMA SoundWas ==
    ASSUME ProcessKept, [Next]_vars, Sound'
    PROVE  Sound
  <1>1. config' = config
    BY ConfigStep
  <1>2. ~gaveup
    <2>1. CASE writeToOpenPipes \/ Stop \/ UNCHANGED vars
      BY <2>1 DEF writeToOpenPipes, Stop, lending, vars, Sound
    <2>2. CASE EngineProgram
      BY <2>2, EngineSteps DEF InEngine, Sound
    <2>3. CASE Worker
      <3>1. /\ back \in {Idle, <<"move", "loop">>} /\ (pc[1] \in Game => ~Throwing)
            /\ pc # <<"restart", "thrown">> /\ (gaveup \/ Throwing => pc # <<"start", "done">>)
        BY DEF ProcessKept, StartKept, Game
      <3>2. CASE Begin \/ Borrow
        BY <3>2 DEF Begin, Borrow, Sound
      <3>3. CASE InStart
        BY <3>3 DEF InStart, Sound
      <3>4. CASE \/ InInit("start", <<"start", "failed">>) \/ InInit("restart", <<"restart", "uci">>)
                 \/ InKill("restart", <<"restart", "spawn">>) \/ InKill("quit", Over)
        BY <3>4 DEF InInit, InKill, Sound
      <3>5. CASE InGame \/ InQuit
        BY <3>5 DEF InGame, InQuit, Sound
      <3>6. QED  BY <2>3, <3>1, <3>2, <3>3, <3>4, <3>5, WorkerSteps
    <2>4. QED  BY <2>1, <2>2, <2>3 DEF Next
  <1>3. QED  BY <1>1, <1>2, ThrowingKept DEF Sound

LEMMA ConfiguredStep ==
    ASSUME ProcessKept, Typed, Sound => ConfiguredKept, [Next]_vars, Sound'
    PROVE  ConfiguredKept'
  <1>1. out_pipe \in Seq(Text) /\ ConfiguredKept /\ ~Throwing /\ ~gaveup /\ ~gaveup'
    BY SoundWas DEF Typed, Sound
  <1>2. CASE Begin \/ writeToOpenPipes \/ Stop \/ UNCHANGED vars
    <2>1. UNCHANGED <<process, out_pipe, engine, uci_options, config, pc, nth, refreshed, told, initialized>>
      BY <1>2 DEF Begin, writeToOpenPipes, Stop, vars, pipes, env, history
    <2>2. SameSettings
      BY <1>1, <2>1, PostsSame DEF Posts, ConfiguredKept
    <2>3. QED  BY <1>1, <2>1, <2>2, StandKeeps DEF Alive
  <1>3. CASE Worker
    BY <1>1, <1>2, <1>3, BorrowKeeps, StartKeeps, RefreshKeeps, MoveKeeps, RecoverKeeps, DestroyKeeps DEF Worker
  <1>4. CASE EngineProgram
    BY <1>1, <1>4, EngineKeeps
  <1>5. QED  BY <1>2, <1>3, <1>4 DEF Next

\* With all options sent there is one way a line can be set.
LEMMA RightAtLast ==
    ASSUME config \in Configs, NEW i, NEW value, Right(i, Len(Wanted) + 1, value)
    PROVE  value = IF Sets(i) = {} THEN config.offers[i].default ELSE Wanted[Max(Sets(i))].value
  <1>1. Len(Wanted) \in Nat /\ Sets(i) \in SUBSET (1..Len(Wanted))
    BY ConfigFacts DEF Sets
  <1>2. CASE Sets(i) = {}
    BY <1>2 DEF Right
  <1>3. CASE Sets(i) # {}
    <2>1. Max(Sets(i)) \in Sets(i) /\ \A l \in Sets(i) : l <= Max(Sets(i))
      BY <1>1, <1>3, GreatestNumber
    <2>2. Max(Sets(i)) < Len(Wanted) + 1
      BY <1>1, <2>1
    <2>3. QED  BY <1>3, <2>1, <2>2 DEF Right
  <1>4. QED  BY <1>2, <1>3

LEMMA ConfiguredPlays ==
    ASSUME ConfiguredKept, ProcessKept
    PROVE  PlaysConfigured
  <1> SUFFICES ASSUME pc = <<"move", "go">>, Alive, refreshed
               PROVE  {"ucinewgame", "position"} \subseteq told /\ SetAsConfigured /\ ReportedAsSet
    BY DEF PlaysConfigured
  <1>1. config \in Configs /\ "ucinewgame" \in told /\ "position" \in told
    BY DEF ConfiguredKept, CourseKept, Playing
  <1>2. Mark = Len(Wanted) + 1
    BY DEF Mark, Ready, Playing
  <1>3. Known /\ Full
    BY DEF ConfiguredKept, OptionsKept, ProcessKept, StartKept, Game
  <1>4. /\ \A i \in DOMAIN config.offers : Right(i, Len(Wanted) + 1, Settled[i])
        /\ Recording(Len(Wanted) + 1)
    BY <1>2 DEF ConfiguredKept, SettingsKept
  <1>5. ASSUME NEW i \in DOMAIN config.offers, Settable(i)
        PROVE  /\ First(i) /\ config.offers[i].type \in {"check", "spin", "string"}
               /\ \A value : Accepts(config.offers[i], value) <=> Takes(config.offers[i], value)
               /\ Due(config.offers[i]) = Sets(i)
    <2>1. First(i) /\ config.offers[i].type \in {"check", "spin", "string"}
      BY <1>5 DEF Settable, First
    <2>2. \A value : Accepts(config.offers[i], value) <=> Takes(config.offers[i], value)
      BY <2>1 DEF Accepts, Takes
    <2>3. \A k \in DOMAIN Wanted :
             Wanted[k].name = config.offers[i].name /\ Takes(config.offers[i], Wanted[k].value) => Allowed(k)
      BY <2>1, <2>2 DEF Allowed
    <2>4. QED  BY <2>1, <2>2, <2>3 DEF Due, Sets
  <1>6. SetAsConfigured
    BY <1>1, <1>4, <1>5, RightAtLast DEF SetAsConfigured
  <1>7. ReportedAsSet
    <2>1. SUFFICES ASSUME NEW i \in DOMAIN config.offers, Settable(i), Takes(config.offers[i], config.offers[i].default)
                   PROVE  LET option == uci_options[getOption(uci_options, config.offers[i].name)]
                          IN  option.value = Read(option, Settled[i])
      BY DEF ReportedAsSet
    <2>2. First(i) /\ config.offers[i].type \in {"check", "spin", "string"}
      BY <1>5, <2>1
    <2>3. Plain(i)
      BY <1>5, <2>1, <2>2 DEF Plain
    <2>4. PICK j \in DOMAIN uci_options : Spot(j, i)
      BY <1>3, <2>2 DEF Full
    <2>5. PICK S : uci_options \in Seq(S)
      BY <1>3 DEF Known
    <2>6. getOption(uci_options, config.offers[i].name) = j
      BY <2>4, <2>5, SpotFound
    <2>7. PICK value : Right(i, Len(Wanted) + 1, value) /\ uci_options[j].value = Read(config.offers[i], value)
      BY <1>4, <2>3, <2>4 DEF Recording
    <2>8. value = Settled[i]
      <3>1. value = IF Sets(i) = {} THEN config.offers[i].default ELSE Wanted[Max(Sets(i))].value
        BY <1>1, <2>7, RightAtLast
      <3>2. Settled[i] = IF Sets(i) = {} THEN config.offers[i].default ELSE Wanted[Max(Sets(i))].value
        BY <1>1, <1>4, RightAtLast
      <3>3. QED  BY <3>1, <3>2
    <2>9. Like(uci_options[j], config.offers[i]) /\ config.offers[i] \in Line
      BY <1>1, <2>4, ConfigFacts DEF Spot
    <2>10. Read(uci_options[j], value) = Read(config.offers[i], value)
      BY <2>2, <2>9, LikeIs
    <2>11. QED  BY <2>6, <2>7, <2>8, <2>10
  <1>8. QED  BY <1>1, <1>6, <1>7

-----------------------------------------------------------------------------
(* The theorems.                                                           *)

\* What is true of every state.
IInv ==
    /\ ProcessKept /\ Typed /\ ByteKept /\ OfLast
    /\ Clear => Shaken /\ PingsKept /\ SearchKept

LEMMA IInvInit ==
    ASSUME Init
    PROVE  IInv
  <1>1. /\ pc = <<"worker", "idle">> /\ answer = 0 /\ in_pipe = << >> /\ out_pipe = << >>
        /\ engine = Fresh /\ asked = 0 /\ nth = 1 /\ main = "waiting"
    BY DEF Init, Idle
  <1>2. in_pipe \in Seq(Text) /\ out_pipe \in Seq(Text)
    BY <1>1
  <1>3. Typed
    BY <1>1, <1>2 DEF Typed, Brain, Fresh
  <1>4. \A word : In(word) = {} /\ Out(word) = {}
    BY <1>1, <1>2, AtIn DEF In, Out
  <1>5. Shaken /\ PingsKept /\ ByteKept
    BY <1>1, <1>4, ByteIs DEF Shaken, PingsKept, ByteKept
  <1>6. SearchKept
    BY <1>1, <1>4, OutstandingIs, NothingAsked DEF SearchKept, NumbersKept, OneAnswer, One, Fresh
  <1>7. QED  BY <1>1, <1>3, <1>5, <1>6, KeptInit DEF IInv, OfLast

LEMMA IInvStep ==
    ASSUME IInv, [Next]_vars
    PROVE  IInv'
  <1>1. ProcessKept' /\ Typed' /\ ByteKept' /\ OfLast'
    BY KeptStep, TypedStep, ByteStep, LastStep DEF IInv
  <1>2. ASSUME Clear'
        PROVE  Shaken' /\ PingsKept' /\ SearchKept'
    <2>1. Turn /\ config' = config
      BY <1>2, Turns, ConfigStep, ThrowingKept DEF IInv, Clear
    <2>2. Clear
      BY <1>2, <2>1, WasClear
    <2>3. QED  BY <1>2, <2>1, <2>2, ShakenStep, PingsStep, SearchStep DEF IInv
  <1>3. QED  BY <1>1, <1>2 DEF IInv

\* The inductive invariant of the engine, its process and its pipes, and of the worker that talks to it.
THEOREM Invariant == Spec => []IInv
  <1>1. Init => IInv
    BY IInvInit
  <1>2. IInv /\ [Next]_vars => IInv'
    BY IInvStep
  <1>3. QED  BY <1>1, <1>2, PTL DEF Spec

\* However many moves are asked, searches cut short, pings lost and processes restarted: the bestmove that
\* playMove judges answers its own go, unless something has gone astray (the cases TimedOut, Refilled and
\* Crash mark).  Between a bestmove and the next go the pipes hold no answer and no question, because a ping
\* is answered after the go before it was read, and a uciok is read with everything before it.
THEOREM AnswersTheQuestion == Spec => []AnswerOfTheQuestion
  <1>1. IInv => AnswerOfTheQuestion
    BY DEF IInv, OfLast, AnswerOfTheQuestion, ProcessKept, StartKept, Game
  <1>2. QED  BY <1>1, Invariant, PTL

\* When the destructor of UciEngine returns, the process it killed is gone and not in process_list, whether start
\* failed, the engine died, or the tournament was stopped in the middle.  A process is left only by a start() that
\* gave up, before a second init of the same object or a spawn that failed, and every such process is in
\* process_list, where stopProcesses of main finds it.
THEOREM NothingLeftBehind == Spec => []LeftToMain
  <1>1. IInv => LeftToMain
    BY DEF IInv, ProcessKept, ObjectKept, PlaceKept, Gone, Left, LeftToMain
  <1>2. QED  BY <1>1, Invariant, PTL

\* The byte that wakes a blocked read stays in the pipe for every later read of this engine: readProcess looks
\* at the flag before it reads, and the byte is not written before the flag is set or the games are over.
THEOREM StaysWoken == Spec => WokenForGood
  <1>1. IInv /\ [Next]_vars => [HasByte => HasByte']_vars
    BY ByteStep DEF IInv
  <1>2. QED  BY <1>1, Invariant, PTL DEF Spec, WokenForGood

\* Before any start() has given up, for an engine whose lines uciok can read, at every step of the worker and of
\* the engine: what may be sent and is recorded depends on the first line of
\* each name alone, whatever a restarted engine appended to uci_options_ (OptionsKept); the pipe, which outlives
\* the process, holds no option this engine may not be sent (CommandsKept); and an engine that reads its pipe is
\* set to the last option of each name up to where refreshUci is, as the tester recorded it (SettingsKept).
THEOREM Configured == Spec => [](Sound => ConfiguredKept)
  <1>1. Init => (Sound => ConfiguredKept)
    BY ConfiguredInit
  <1>2. IInv /\ (Sound => ConfiguredKept) /\ [Next]_vars => (Sound => ConfiguredKept)'
    BY ConfiguredStep DEF IInv
  <1>3. QED  BY <1>1, <1>2, Invariant, PTL DEF Spec

\* Whatever options the engine prints and the configuration sets, and however often the engine is restarted with
\* commands left in its pipe: an engine that is asked for a move after a refreshUci that returned true has had
\* ucinewgame and the position; each of its check, spin and string options is set to the last value of the
\* configuration that the engine takes, and is reported as it is set.  Combo options stay as they are, whatever the
\* configuration says (option_factory.hpp:45), and are not in this theorem.
THEOREM PlaysAsConfigured == Spec => []PlaysConfigured
  <1>1. IInv /\ (Sound => ConfiguredKept) => PlaysConfigured
    <2>1. SUFFICES ASSUME IInv, Sound => ConfiguredKept, pc = <<"move", "go">>
                   PROVE  PlaysConfigured
      BY DEF PlaysConfigured
    <2>2. Sound
      BY <2>1 DEF IInv, ProcessKept, StartKept, Game, Sound
    <2>3. QED  BY <2>1, <2>2, ConfiguredPlays DEF IInv
  <1>2. QED  BY <1>1, Invariant, Configured, PTL

===============================================================================
