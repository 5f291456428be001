------------------------------ MODULE UciEngine ------------------------------
(***************************************************************************)
(* One engine of the cache (engine/uci_engine.cpp), its process and pipes  *)
(* (engine/process/process_posix.hpp), and the worker that plays games with *)
(* it in the order of Match::start, Match::playMove and                     *)
(* BaseTournament::playGame; the main thread, which ends the tournament     *)
(* with writeToOpenPipes (globals.cpp); and the engine itself, which obeys  *)
(* UCI, answers when it likes, and may die or freeze at any point.          *)
(* A line is one message.  A bestmove carries the number of the go it       *)
(* answers, which no tester can see.                                        *)
(***************************************************************************)
EXTENDS EngineOptions, SequencesExt

CONSTANTS MaxGames,    \* bound: games the engine is lent to
          MaxGo,       \* bound: moves asked of it in all games
          MaxFaults,   \* bound: times it dies, freezes, answers a ping too late, or writes to
                       \* stderr in the middle of a line
          Configs      \* the configurations: the limit of the engine, its options, -recover and
                       \* -variant; and the option lines the program prints

ASSUME UciEngineAssumption ==
    /\ MaxGames \in Nat /\ MaxGo \in Nat /\ MaxFaults \in Nat
    /\ \A c \in Configs :
         /\ c.limit \in {"time", "moves", "nodes"} /\ c.recover \in BOOLEAN /\ c.frc \in BOOLEAN
         /\ c.offers \in Seq(Line)
         /\ c.options \in Seq([name : STRING, value : STRING])

VARIABLES process,      \* the child: state, is_initalized_, startup_error_, and its entry in process_list;
                        \* and of those left by an earlier init of the object, whether they are in process_list
          out_pipe,     \* out_pipe_: what the engine has not read yet
          in_pipe,      \* in_pipe_: what the tester has not read yet
          initialized,  \* initialized_
          answer,       \* the bestmove in output_: the go it answers, 0 for none
          uci_options,  \* uci_options_
          nth,          \* the option refreshUci sends next
          config,       \* its limit is a clock, a clock with moves per control, or nodes or plies
          pc,           \* <<who, step>>: where the worker is
          back,         \* where refreshUci returns to
          games,        \* games begun
          past,         \* those past the test of the flag that have not borrowed the engine yet
          asked,        \* go commands written
          engine,       \* the program behind the pipes: the go it works on, whether it is frozen, how it is set
          faults,
          stop,         \* atomic::stop
          main,         \* the main thread: waiting, or past writeToOpenPipes
          told,         \* history: what this process was told for this game
          refreshed,    \* history: what the last refreshUci returned
          gaveup,       \* history: a start() of this engine has returned false or thrown
          astray        \* history: an answer may still come that nobody waits for

pipes == <<out_pipe, in_pipe>>
env == <<engine, faults>>
history == <<told, refreshed, astray>>
lending == <<games, past, gaveup>>
vars == <<process, pipes, initialized, answer, uci_options, nth, config, pc, back, lending, asked, env, stop, main, history>>

Message(word) == [say |-> word, n |-> 0]
Go(n) == [say |-> "go", n |-> n]
Setoption(n) == [say |-> "setoption", n |-> n]
Bestmove(n) == [say |-> "bestmove", n |-> n]
Says(line, word) == line.say = word

Commands == {"uci", "ucinewgame", "isready", "setoption", "position", "go", "stop", "quit"}
Reacts == {"uci", "isready", "go", "quit"}
Lines == {"uciok", "readyok", "info", "bestmove", "nul"}

Idle == <<"worker", "idle">>
Over == <<"worker", "over">>
Think == <<"move", "think">>

Alive == process.state = "alive"

\* The engine will say something of itself: it runs, and has a search or a command to attend to.
Responsive == Alive /\ ~engine.frozen /\ (engine.search # 0 \/ \E i \in DOMAIN out_pipe : out_pipe[i].say \in Reacts)

\* The options refreshUci sends: those of the configuration, and UCI_Chess960.
Wanted == config.options \o IF config.frc THEN <<[name |-> "UCI_Chess960", value |-> "true"]>> ELSE << >>

Offers(name) == {i \in DOMAIN config.offers : config.offers[i].name = name}
Offer(name) == config.offers[CHOOSE i \in Offers(name) : TRUE]

\* A program that has just been started.
Fresh == [search |-> 0, frozen |-> FALSE, set |-> [i \in DOMAIN config.offers |-> config.offers[i].default]]

\* How a program set like that is set after these commands; it ignores a value it does not take.
Apply(set, commands) ==
    LET sent(i) == {k \in DOMAIN commands : /\ Says(commands[k], "setoption")
                                            /\ Wanted[commands[k].n].name = config.offers[i].name
                                            /\ Takes(config.offers[i], Wanted[commands[k].n].value)}
    IN  [i \in DOMAIN set |->
            IF sent(i) = {} THEN set[i]
            ELSE Wanted[commands[Max(sent(i))].n].value]

\* uciok throws when it comes to a line of this engine.
Throwing == \E i \in DOMAIN config.offers : Malformed(config.offers[i])

\* The engine has not read this command yet, and the next process may.
Unread(word) == \E i \in DOMAIN out_pipe : Says(out_pipe[i], word)

\* The byte of writeToOpenPipes is in the pipe.
HasByte == \E i \in DOMAIN in_pipe : Says(in_pipe[i], "nul")

\* A go was written whose bestmove the tester has not read.
Outstanding ==
    \/ engine.search # 0
    \/ Unread("go")
    \/ \E i \in DOMAIN in_pipe : Says(in_pipe[i], "bestmove")

-----------------------------------------------------------------------------
(* Writing and reading.                                                    *)

\* alive() reaps a child that has exited: waitpid with WNOHANG.
Reaped == [process EXCEPT !.state = IF @ = "exited" THEN "none" ELSE @]

\* writeEngine: a command for a process that is alive, and where the worker goes on.
Send(at, command, ok, bad) ==
    /\ pc = at
    /\ process' = Reaped
    /\ IF Alive
       THEN /\ out_pipe' = Append(out_pipe, command)
            /\ told' = told \cup {command.say}
            /\ pc' = ok
       ELSE /\ pc' = bad
            /\ UNCHANGED <<out_pipe, told>>

quiet == <<initialized, nth, config, back, lending, env, stop, main, refreshed>>

\* A command that is no move.
Tell(at, word, ok, bad) ==
    /\ Send(at, Message(word), ok, bad)
    /\ UNCHANGED <<in_pipe, answer, uci_options, asked, astray, quiet>>

\* uciok: the options of the lines before it are added, up to a line that throws.  What the engine says to uci
\* comes as one message: a read that gives up has read none of its lines.
Offered ==
    LET lines == optionLines(Legible(config.offers)) IN
    \E parsed \in [DOMAIN lines -> UNION {parseUCIOptionLine(lines[i]) : i \in DOMAIN lines}] :
        /\ \A i \in DOMAIN lines : parsed[i] \in parseUCIOptionLine(lines[i])
        /\ uci_options' = uci_options \o parsed

\* poll returns with data, and read takes some of it: up to the word that is looked for, which ends the
\* read and drops the rest of the buffer.
Receive(at, word, ok) ==
    /\ pc = at
    /\ ~stop
    /\ \E k \in 1..Len(in_pipe) :
         LET found == {i \in 1..k : Says(in_pipe[i], word)} IN
         /\ in_pipe' = SubSeq(in_pipe, k + 1, Len(in_pipe))
         /\ IF found = {}
            THEN UNCHANGED <<pc, answer, uci_options>>
            ELSE /\ pc' = ok
                 /\ IF word = "uciok" THEN Offered ELSE UNCHANGED uci_options
                 /\ answer' = IF word = "bestmove"
                              THEN in_pipe[CHOOSE i \in found : \A j \in found : i <= j].n
                              ELSE answer
    /\ UNCHANGED <<process, out_pipe, asked, quiet, told, astray>>

\* stderr is read into the same current_line_: what the engine writes there ends up in the line of stdout
\* that is being read, and the word is not found in it, or not looked for.
Mixed(at) ==
    /\ pc = at
    /\ ~stop
    /\ in_pipe # << >>
    /\ faults < MaxFaults
    /\ faults' = faults + 1
    /\ in_pipe' = Tail(in_pipe)
    /\ UNCHANGED <<process, out_pipe, answer, uci_options, nth, asked, initialized, config, pc, back, lending, engine, stop, main, history>>

\* Faulty variant of Interrupted: the flag is looked at after read.
InterruptedAfterRead(at, patience, bad) ==
    /\ pc = at
    /\ stop
    /\ in_pipe # << >> \/ patience # "none"
    /\ pc' = bad
    /\ in_pipe' = << >>
    /\ UNCHANGED <<process, out_pipe, answer, uci_options, asked, quiet, told, astray>>

\* poll returns, with data or after its timeout, and the stop flag is set: Status::ERR.
Interrupted(at, patience, bad) ==
    /\ pc = at
    /\ stop
    /\ in_pipe # << >> \/ patience # "none"
    /\ pc' = bad
    /\ UNCHANGED <<process, pipes, answer, uci_options, asked, quiet, told, astray>>

\* poll finds nothing for as long as it was told to wait.  With "grace" a responsive engine is not given up.
TimedOut(at, patience, bad) ==
    /\ pc = at
    /\ ~stop
    /\ patience # "none"
    /\ in_pipe = << >>
    /\ patience = "grace" => ~Responsive
    /\ pc' = bad
    /\ IF patience = "ping" /\ Responsive
       THEN faults < MaxFaults /\ faults' = faults + 1 /\ astray' = TRUE
       ELSE UNCHANGED faults /\ astray' = (astray \/ (patience = "ping" /\ Unread("uci")))
    /\ UNCHANGED <<process, pipes, answer, uci_options, nth, asked, initialized, config, back, lending, engine, stop, main, refreshed, told>>

readProcess(at, word, patience, ok, bad) ==
    \/ Receive(at, word, ok)
    \/ Mixed(at)
    \/ Interrupted(at, patience, bad)
    \/ TimedOut(at, patience, bad)

\* isready: alive, "isready", and wait for readyok.
isready(who, ok, bad) ==
    \/ Tell(<<who, "isready">>, "isready", <<who, "readyok">>, bad)
    \/ readProcess(<<who, "readyok">>, "readyok", "ping", ok, bad)

ucinewgame(who, ok, bad) ==
    \/ Tell(<<who, "ucinewgame">>, "ucinewgame", <<who, "isready">>, bad)
    \/ isready(who, ok, bad)

\* std::stoi has thrown out of uciok: the exception leaves Match::start and playGame, the game has no end, and
\* nobody is told; the process runs on.
Thrown(who) ==
    /\ pc = <<who, "thrown">>
    /\ pc' = Idle
    /\ gaveup' = TRUE
    /\ UNCHANGED <<process, pipes, initialized, answer, uci_options, nth, config, back, games, past, asked, env, stop, main, history>>

\* uci() and uciok().
handshake(who, ok, bad) ==
    \/ Tell(<<who, "uci">>, "uci", <<who, "uciok">>, bad)
    \/ readProcess(<<who, "uciok">>, "uciok", "ping", IF Throwing THEN <<who, "thrown">> ELSE ok, bad)
    \/ Thrown(who)

-----------------------------------------------------------------------------
(* The process: init and killProcess.  The pipes belong to the object and  *)
(* outlive the child.                                                      *)

elsewhere == <<pipes, initialized, answer, uci_options, nth, config, back, lending, asked, faults, stop, main, refreshed, astray>>

\* posix_spawn succeeds.  The entry in process_list comes in a step of its own.  The assertion that the object
\* has no process is compiled out (-DNDEBUG): one that is there is left, running or dead, with its entry.
Spawn(who) ==
    /\ pc = <<who, "spawn">>
    /\ process' = [state |-> "alive", is_initalized |-> TRUE, startup_error |-> FALSE, listed |-> FALSE,
                    left |-> IF process.state = "none" /\ ~process.listed THEN process.left
                             ELSE process.left \cup {process.listed}]
    /\ engine' = Fresh
    /\ told' = {}
    /\ pc' = <<who, "push">>
    /\ UNCHANGED elsewhere

\* posix_spawn fails: start gives up, restart ignores it.  process_pid_ is what it was.
SpawnFails(who, bad) ==
    /\ pc = <<who, "spawn">>
    /\ process' = [process EXCEPT !.is_initalized = TRUE, !.startup_error = TRUE]
    /\ pc' = bad
    /\ UNCHANGED <<elsewhere, engine, told>>

\* process_list.push
Push(who) ==
    /\ pc = <<who, "push">>
    /\ process' = [process EXCEPT !.listed = TRUE]
    /\ pc' = <<who, "uci">>
    /\ UNCHANGED <<elsewhere, engine, told>>

init(who, bad) == Spawn(who) \/ SpawnFails(who, bad) \/ Push(who)

\* process_list.remove_if; nothing to do for a process that was never started.
Unlist(who, ok) ==
    /\ pc = <<who, "unlist">>
    /\ IF process.startup_error \/ ~process.is_initalized
       THEN /\ process' = [process EXCEPT !.is_initalized = FALSE]
            /\ pc' = ok
       ELSE /\ process' = [process EXCEPT !.listed = FALSE]
            /\ pc' = <<who, "reap">>
    /\ UNCHANGED <<elsewhere, engine, told>>

\* Faulty variant of Reap: an engine that still runs is left alone.
ReapNoKill(who, ok) ==
    /\ pc = <<who, "reap">>
    /\ process' = [Reaped EXCEPT !.is_initalized = FALSE]
    /\ pc' = ok
    /\ UNCHANGED <<elsewhere, engine, told>>

\* waitpid, and SIGKILL and wait if it is still running.
Reap(who, ok) ==
    /\ pc = <<who, "reap">>
    /\ process' = [process EXCEPT !.state = "none", !.is_initalized = FALSE]
    /\ engine' = Fresh
    /\ pc' = ok
    /\ UNCHANGED <<elsewhere, told>>

killProcess(who, ok) == Unlist(who, ok) \/ Reap(who, ok)

-----------------------------------------------------------------------------
(* UciEngine::start and UciEngine::refreshUci.                             *)

stepping == <<process, pipes, uci_options, nth, config, asked, env, told, astray>>

\* Where a worker goes on without a word to the engine.
Proceed(at, to) ==
    /\ pc = at
    /\ pc' = to
    /\ UNCHANGED <<stepping, initialized, answer, back, lending, stop, main, refreshed>>

\* start() returns false: Match::start stops the tournament.  The process is not killed.
StartFails ==
    /\ pc = <<"start", "failed">>
    /\ stop' = TRUE
    /\ pc' = Idle
    /\ gaveup' = TRUE
    /\ UNCHANGED <<stepping, initialized, answer, back, games, past, main, refreshed>>

\* start() returns true, for the first time or again.  After white's, Match::start looks at the flag.
Started ==
    /\ pc = <<"start", "done">>
    /\ initialized' = TRUE
    /\ \/ stop /\ pc' = Idle /\ UNCHANGED back
       \/ pc' = <<"refresh", "ucinewgame">> /\ back' = <<"move", "loop">>
    /\ UNCHANGED <<stepping, answer, lending, stop, main, refreshed>>

start ==
    \/ initialized /\ Proceed(<<"start", "engine">>, <<"start", "done">>)
    \/ ~initialized /\ Proceed(<<"start", "engine">>, <<"start", "spawn">>)
    \/ init("start", <<"start", "failed">>)
    \/ handshake("start", <<"start", "done">>, <<"start", "failed">>)
    \/ StartFails
    \/ Started

\* refreshUci returns; none of its callers looks at the result.
Refreshed ==
    /\ pc \in {<<"refresh", "true">>, <<"refresh", "false">>}
    /\ refreshed' = (pc = <<"refresh", "true">>)
    /\ pc' = back
    /\ UNCHANGED <<stepping, initialized, answer, back, lending, stop, main>>

setting == <<in_pipe, answer, asked, astray, initialized, config, back, lending, env, stop, main, refreshed>>

\* sendSetoption: an option the engine does not have, or a value that is not valid for it, is left out.
Skip(option) ==
    /\ pc = <<"refresh", "setoption">>
    /\ Found(uci_options, option.name) # {} => ~Throws(uci_options[getOption(uci_options, option.name)], option.value)
    /\ ~Sendable(uci_options, option.name, option.value)
    /\ nth' = nth + 1
    /\ UNCHANGED <<setting, process, out_pipe, pc, uci_options, told>>

\* The value is recorded when the command is written.
sendSetoption(option) ==
    /\ Found(uci_options, option.name) # {}
    /\ ~Throws(uci_options[getOption(uci_options, option.name)], option.value)
    /\ Sendable(uci_options, option.name, option.value)
    /\ Send(<<"refresh", "setoption">>, Setoption(nth), <<"refresh", "setoption">>, <<"refresh", "setoption">>)
    /\ uci_options' = IF Alive THEN Recorded(uci_options, option.name, option.value) ELSE uci_options
    /\ nth' = nth + 1
    /\ UNCHANGED setting

\* std::stoi throws; the exception leaves refreshUci and Match::start, and the game has no end.
SetoptionThrows(option) ==
    /\ pc = <<"refresh", "setoption">>
    /\ Found(uci_options, option.name) # {}
    /\ Throws(uci_options[getOption(uci_options, option.name)], option.value)
    /\ pc' = Idle
    /\ nth' = 1
    /\ UNCHANGED <<setting, process, out_pipe, uci_options, told>>

\* The loop of refreshUci over the options.
SetOptions ==
    \/ /\ nth \in DOMAIN Wanted
       /\ Skip(Wanted[nth]) \/ sendSetoption(Wanted[nth]) \/ SetoptionThrows(Wanted[nth])
    \/ /\ nth \notin DOMAIN Wanted
       /\ pc = <<"refresh", "setoption">>
       /\ pc' = <<"ready", "ucinewgame">>
       /\ nth' = 1
       /\ UNCHANGED <<setting, process, out_pipe, uci_options, told>>

\* Faulty variant of refreshUci: an engine that was restarted does not get its options again.
refreshUciNoOptions ==
    \/ ucinewgame("refresh", <<"refresh", "setoption">>, <<"restart", "unlist">>)
    \/ killProcess("restart", <<"restart", "spawn">>)
    \/ init("restart", <<"restart", "uci">>)
    \/ handshake("restart", <<"restart", "ucinewgame">>, <<"refresh", "false">>)
    \/ ucinewgame("restart", <<"ready", "ucinewgame">>, <<"refresh", "false">>)
    \/ SetOptions
    \/ ucinewgame("ready", <<"refresh", "true">>, <<"refresh", "false">>)
    \/ Refreshed

\* ucinewgame, a restart if the engine does not answer, the options, ucinewgame again.
refreshUci ==
    \/ ucinewgame("refresh", <<"refresh", "setoption">>, <<"restart", "unlist">>)
    \/ killProcess("restart", <<"restart", "spawn">>)
    \/ init("restart", <<"restart", "uci">>)
    \/ handshake("restart", <<"restart", "ucinewgame">>, <<"refresh", "false">>)
    \/ ucinewgame("restart", <<"refresh", "setoption">>, <<"refresh", "false">>)
    \/ SetOptions
    \/ ucinewgame("ready", <<"refresh", "true">>, <<"refresh", "false">>)
    \/ Refreshed

-----------------------------------------------------------------------------
(* Match::playMove, for the moves of this engine.                          *)

\* The game ends without a word to the engine: interrupted, decided on the board, or adjudicated.
GameOver ==
    /\ pc = <<"move", "loop">>
    /\ pc' = Idle
    /\ UNCHANGED <<stepping, initialized, answer, back, lending, stop, main, refreshed>>

\* The engine is to move.
NextMove ==
    /\ ~stop
    /\ asked < MaxGo
    /\ Proceed(<<"move", "loop">>, <<"before", "isready">>)

\* engine.go: the output of the last search is cleared when the read begins.
go ==
    /\ Send(<<"move", "go">>, Go(asked + 1), Think, <<"move", "crash">>)
    /\ asked' = IF Alive THEN asked + 1 ELSE asked
    /\ answer' = 0
    /\ UNCHANGED <<in_pipe, uci_options, astray, quiet>>

\* Faulty variant of Patience: no engine has a timeout.
PatienceNone == "none"

\* Player::getTimeoutThreshold: no timeout for an engine limited by nodes or plies.
Patience == IF config.limit = "nodes" THEN "none" ELSE "clock"

think == readProcess(Think, "bestmove", Patience, <<"move", "done">>, <<"move", "done">>)

\* The first look at the flag after the search: INTERRUPT.
Done ==
    \/ stop /\ Proceed(<<"move", "done">>, Idle)
    \/ ~stop /\ Proceed(<<"move", "done">>, <<"after", "isready">>)

\* setEngineTimeoutStatus is due: the clock ran out, with or without a bestmove.
Late == Proceed(<<"move", "judge">>, <<"late", "stop">>)

\* A bestmove in time: the game goes on, or ends with an illegal move.
InTime == answer # 0 /\ (\E to \in {<<"move", "loop">>, Idle} : Proceed(<<"move", "judge">>, to))

\* No bestmove, and the clock did not run out because updateTime refilled it first: an illegal move.
Refilled ==
    /\ pc = <<"move", "judge">>
    /\ config.limit = "moves" /\ answer = 0
    /\ pc' = Idle
    /\ astray' = (astray \/ Outstanding)
    /\ UNCHANGED <<process, pipes, initialized, answer, uci_options, nth, config, back, lending, asked, env, stop, main, told, refreshed>>

\* Faulty variant of setEngineTimeoutStatus: it does not wait for the bestmove.
setEngineTimeoutStatusNoWait == Tell(<<"late", "stop">>, "stop", Idle, Idle)

\* setEngineTimeoutStatus: "stop", and up to ten seconds for the bestmove unless it is in the output.
setEngineTimeoutStatus ==
    \/ answer # 0 /\ Tell(<<"late", "stop">>, "stop", Idle, Idle)
    \/ answer = 0 /\ Tell(<<"late", "stop">>, "stop", <<"late", "wait">>, <<"late", "wait">>)
    \/ readProcess(<<"late", "wait">>, "bestmove", "grace", Idle, Idle)

\* setEngineCrashStatus, and in playGame the end of the tournament, or with -recover a second chance.
Crash ==
    /\ pc = <<"move", "crash">>
    /\ astray' = (astray \/ Outstanding)
    /\ IF config.recover
       THEN pc' = <<"recover", "isready">> /\ back' = Idle /\ UNCHANGED stop
       ELSE pc' = Idle /\ stop' = TRUE /\ UNCHANGED back
    /\ UNCHANGED <<process, pipes, initialized, answer, uci_options, nth, config, lending, asked, env, main, told, refreshed>>

playMove ==
    \/ GameOver
    \/ NextMove
    \/ isready("before", <<"move", "position">>, <<"move", "crash">>)
    \/ Tell(<<"move", "position">>, "position", <<"ready?", "isready">>, <<"move", "crash">>)
    \/ isready("ready?", <<"move", "go">>, <<"move", "crash">>)
    \/ go
    \/ think
    \/ Done
    \/ isready("after", <<"move", "judge">>, <<"move", "crash">>)
    \/ Late
    \/ InTime
    \/ Refilled
    \/ setEngineTimeoutStatus

-----------------------------------------------------------------------------
(* BaseTournament::playGame and the end of the tournament.                 *)

\* A game is past the test of the flag, and will play with this engine.
Begin ==
    /\ ~stop
    /\ games < MaxGames
    /\ main = "waiting"
    /\ games' = games + 1
    /\ past' = past + 1
    /\ UNCHANGED <<process, pipes, initialized, answer, uci_options, nth, config, pc, back, gaveup, asked, env, stop, main, history>>

\* It borrows the engine once the game before has given it back, and does not look at the flag again.
Borrow ==
    /\ pc = Idle
    /\ past > 0
    /\ past' = past - 1
    /\ told' = {}
    /\ pc' = <<"start", "engine">>
    /\ UNCHANGED <<process, pipes, initialized, answer, uci_options, nth, config, back, games, gaveup, asked, env, stop, main, refreshed, astray>>

recover == Crash \/ isready("recover", Idle, <<"refresh", "ucinewgame">>)

\* ~UciEngine once the pool is joined: quit to an engine that was started, then killProcess.
Destroy ==
    \/ /\ main = "destroying" /\ past = 0
       /\ initialized
       /\ Tell(Idle, "quit", <<"quit", "unlist">>, <<"quit", "unlist">>)
    \/ /\ main = "destroying" /\ past = 0
       /\ ~initialized
       /\ Proceed(Idle, <<"quit", "unlist">>)
    \/ killProcess("quit", Over)

Worker == Begin \/ Borrow \/ start \/ refreshUci \/ playMove \/ recover \/ Destroy

\* Faulty variant of writeToOpenPipes: nothing is written.
writeToOpenPipesNothing ==
    /\ main = "waiting"
    /\ stop \/ (games = MaxGames /\ past = 0 /\ pc = Idle)
    /\ main' = "destroying"
    /\ UNCHANGED <<process, pipes, initialized, answer, uci_options, nth, config, pc, back, lending, asked, env, stop, history>>

\* ~BaseTournament, when the games are over or the flag is set: a byte for everyone who reads, once.
writeToOpenPipes ==
    /\ main = "waiting"
    /\ stop \/ (games = MaxGames /\ past = 0 /\ pc = Idle)
    /\ in_pipe' = IF process.listed \/ TRUE \in process.left THEN Append(in_pipe, Message("nul")) ELSE in_pipe
    /\ main' = "destroying"
    /\ UNCHANGED <<process, out_pipe, initialized, answer, uci_options, nth, config, pc, back, lending, asked, env, stop, history>>

\* SIGINT, SPRT, or a game of another engine.
Stop ==
    /\ ~stop
    /\ stop' = TRUE
    /\ UNCHANGED <<process, pipes, initialized, answer, uci_options, nth, config, pc, back, lending, asked, env, main, history>>

-----------------------------------------------------------------------------
(* The engine.                                                             *)

tester == <<initialized, answer, uci_options, nth, config, pc, back, lending, asked, stop, main, history>>

\* It reads on to the next command it reacts to.  A go waits for the search before it, isready does not;
\* stop only hurries the search, which ends in a thread of its own.
EngineReads ==
    /\ Alive /\ ~engine.frozen
    /\ \E k \in DOMAIN out_pipe :
         LET command == out_pipe[k] IN
         /\ command.say \in Reacts
         /\ \A i \in 1..(k - 1) : out_pipe[i].say \notin Reacts
         /\ Says(command, "go") => engine.search = 0
         /\ out_pipe' = SubSeq(out_pipe, k + 1, Len(out_pipe))
         /\ in_pipe' = in_pipe \o CASE Says(command, "uci") -> <<Message("uciok")>>
                                   [] Says(command, "isready") -> <<Message("readyok")>>
                                   [] OTHER -> << >>
         /\ engine' = [engine EXCEPT !.search = CASE Says(command, "go") -> command.n
                                                [] Says(command, "quit") -> 0
                                                [] OTHER -> @,
                                     !.set = Apply(@, SubSeq(out_pipe, 1, k))]
         /\ process' = IF Says(command, "quit") THEN [process EXCEPT !.state = "exited"] ELSE process
    /\ UNCHANGED <<tester, faults>>

\* It finishes a search.
EngineMoves ==
    /\ Alive /\ ~engine.frozen
    /\ engine.search # 0
    /\ in_pipe' = Append(in_pipe, Bestmove(engine.search))
    /\ engine' = [engine EXCEPT !.search = 0]
    /\ UNCHANGED <<tester, process, out_pipe, faults>>

\* It talks while it searches; one such line at a time stands for any number.
EngineTalks ==
    /\ Alive /\ ~engine.frozen
    /\ engine.search # 0
    /\ in_pipe = << >>
    /\ in_pipe' = <<Message("info")>>
    /\ UNCHANGED <<tester, process, out_pipe, engine, faults>>

EngineDies ==
    /\ Alive
    /\ faults < MaxFaults
    /\ process' = [process EXCEPT !.state = "exited"]
    /\ engine' = Fresh
    /\ faults' = faults + 1
    /\ UNCHANGED <<tester, pipes>>

EngineFreezes ==
    /\ Alive /\ ~engine.frozen
    /\ faults < MaxFaults
    /\ engine' = [engine EXCEPT !.frozen = TRUE]
    /\ faults' = faults + 1
    /\ UNCHANGED <<tester, pipes, process>>

\* A process that was left and still runs reads the same pipe and writes to the same pipe.  It hears no more than
\* uci: there is no game with this engine any more.
LeftReads ==
    /\ process.left # {}
    /\ \E k \in DOMAIN out_pipe :
         /\ Says(out_pipe[k], "uci")
         /\ \A i \in 1..(k - 1) : out_pipe[i].say \notin Reacts
         /\ out_pipe' = SubSeq(out_pipe, k + 1, Len(out_pipe))
    /\ in_pipe' = Append(in_pipe, Message("uciok"))
    /\ UNCHANGED <<tester, process, env>>

EngineProgram == LeftReads \/ EngineReads \/ EngineMoves \/ EngineTalks \/ EngineDies \/ EngineFreezes

-----------------------------------------------------------------------------
Init ==
    /\ process = [state |-> "none", is_initalized |-> FALSE, startup_error |-> FALSE, listed |-> FALSE, left |-> {}]
    /\ out_pipe = << >> /\ in_pipe = << >>
    /\ initialized = FALSE
    /\ answer = 0
    /\ uci_options = << >> /\ nth = 1
    /\ config \in Configs
    /\ pc = Idle /\ back = Idle
    /\ games = 0 /\ past = 0 /\ asked = 0
    /\ engine = Fresh /\ faults = 0
    /\ stop = FALSE
    /\ main = "waiting"
    /\ told = {} /\ refreshed = FALSE /\ gaveup = FALSE /\ astray = FALSE

Next == Worker \/ writeToOpenPipes \/ Stop \/ EngineProgram

\* The tester's threads are scheduled; the engine owes nothing.
Spec == Init /\ [][Next]_vars /\ WF_vars(Worker) /\ WF_vars(writeToOpenPipes)

-----------------------------------------------------------------------------
\* Every variable has its type.
TypeOK ==
    /\ process \in [state : {"none", "alive", "exited"}, is_initalized : BOOLEAN,
                     startup_error : BOOLEAN, listed : BOOLEAN, left : SUBSET BOOLEAN]
    /\ out_pipe \in Seq([say : Commands, n : Nat])
    /\ in_pipe \in Seq([say : Lines, n : 0..MaxGo])
    /\ initialized \in BOOLEAN
    /\ answer \in 0..MaxGo
    /\ \A i \in DOMAIN uci_options : Offers(uci_options[i].name) # {}
    /\ nth \in 1..(Len(Wanted) + 1)
    /\ config \in Configs
    /\ games \in 0..MaxGames /\ past \in 0..games /\ asked \in 0..MaxGo /\ faults \in 0..MaxFaults
    /\ engine.search \in 0..MaxGo /\ engine.frozen \in BOOLEAN /\ DOMAIN engine.set = DOMAIN config.offers
    /\ stop \in BOOLEAN
    /\ main \in {"waiting", "destroying"}
    /\ told \subseteq Commands /\ refreshed \in BOOLEAN /\ gaveup \in BOOLEAN /\ astray \in BOOLEAN

\* The bestmove that playMove judges answers its own go, however many searches were cut short before:
\* setEngineTimeoutStatus leaves no search behind.  The exceptions are astray: a game lost by a crash or
\* an illegal move ends with a search nobody stops, a ping may give up on an engine that still answers, and
\* a handshake that is given up before uci is read leaves it to the next process, whose answers come one late.
AnswerOfTheQuestion == (pc = <<"move", "judge">> /\ answer # 0 /\ ~astray) => answer = asked

\* The options of the configuration that the engine takes for a line.
Due(line) == {k \in DOMAIN Wanted : Wanted[k].name = line.name /\ Takes(line, Wanted[k].value)}

\* Of two lines of one name the first counts, and combo options are the exception: parseUCIOptionLine
\* (option_factory.hpp:45) loses their values, so that the tester finds none valid and sends none.  Pressing a
\* button sets nothing.
Settable(i) ==
    /\ config.offers[i].type \in {"check", "spin", "string"}
    /\ \A j \in 1..(i - 1) : config.offers[j].type = "other" \/ config.offers[j].name # config.offers[i].name

\* The engine is set as the last of the configuration says, and no option it was not told about has changed.
Settled == Apply(engine.set, out_pipe)
SetAsConfigured ==
    \A i \in DOMAIN config.offers :
        LET line == config.offers[i]
        IN  Settable(i) =>
                Settled[i] = IF Due(line) = {} THEN line.default ELSE Wanted[Max(Due(line))].value

\* What the reports print of an option (output_fastchess.hpp:149-169) is how the engine is set; a check or a spin
\* with an invalid default has no value until it is set.
ReportedAsSet ==
    \A i \in DOMAIN config.offers :
        LET line == config.offers[i]
            option == uci_options[getOption(uci_options, line.name)]
        IN  Settable(i) /\ Takes(line, line.default) => option.value = Read(option, Settled[i])

\* man:225 "This can be used to set engine options."  When a go is written, this process, however new, is set as
\* the configuration says, by what the engine takes, and as the tester will report, and has had ucinewgame and
\* the position, unless refreshUci returned false or threw, which is not looked at.
PlaysConfigured ==
    (pc = <<"move", "go">> /\ Alive /\ refreshed) =>
        {"ucinewgame", "position"} \subseteq told /\ SetAsConfigured /\ ReportedAsSet

\* globals.hpp: "without having to wait for any timeout limits".  The byte that ends a blocked read is not
\* used up by it: it also ends every later read of this engine, across a restart.
WokenForGood == [][HasByte => HasByte']_vars

\* At the end the process of this engine is gone, running or dead, and its entry in process_list is gone with it,
\* unless the last init found no process to start; and if every start() of this engine succeeded, no other process
\* was left.  One that was left, by a start() that gave up, is in process_list, where stopProcesses finds it.
LeftToMain ==
    pc = Over =>
        /\ ~process.is_initalized
        /\ \/ process.state = "none" /\ ~process.listed
           \/ process.startup_error /\ process.listed /\ gaveup
        /\ process.left \subseteq {TRUE}
        /\ process.left # {} => gaveup

\* Once the flag is set the worker comes to its end, whatever the engine does, with or without a timeout.
Interruptible == stop ~> (pc = Over)

\* An engine with a clock that dies or freezes in its search does not hold the game.
SilenceLoses == (pc = Think /\ config.limit # "nodes" /\ (~Alive \/ engine.frozen)) ~> (pc # Think)

\* man:53 -recover: "This will attempt to recover the engine after a crash".  A crash in a search is noticed.
CrashNoticed == (pc = Think /\ ~Alive) ~> (pc # Think)

=============================================================================
