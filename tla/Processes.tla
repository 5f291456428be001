------------------------------- MODULE Processes -------------------------------
(***************************************************************************)
(* The children of one tester, as all its threads see them together:       *)
(* UciEngine::start behind its counting semaphore, restart and killProcess *)
(* (engine/process/process_posix.hpp), which reaps with wait(nullptr), and *)
(* the end of main, which destroys the engines and then calls              *)
(* stopProcesses.  What the lines between tester and engine say is in      *)
(* UciEngine; here an engine answers, does not answer, or dies.  The       *)
(* assertion in init is compiled out (-DNDEBUG), so init may run twice.    *)
(***************************************************************************)
EXTENDS Naturals, FiniteSets

CONSTANTS Workers,      \* the threads of the pool
          Main,         \* the thread of main()
          Engines,      \* the entries of the engine cache
          None,         \* no engine
          Slots,        \* the 16 of the semaphore
          MaxGames,     \* bound: games begun
          MaxRestarts,  \* bound: calls of restart
          MaxFailures   \* bound: failures of posix_spawn

ASSUME ProcessesAssumption ==
    /\ IsFiniteSet(Workers) /\ Main \notin Workers /\ None \notin Engines
    /\ Slots \in Nat \ {0}
    /\ MaxGames \in Nat /\ MaxRestarts \in Nat /\ MaxFailures \in Nat

VARIABLES child,          \* what the kernel knows of each pid
          born,           \* the last pid given; none is given twice
          process_pid,    \* process_pid_ of each engine, 0 before the first
          is_initalized,  \* is_initalized_
          startup_error,  \* startup_error_
          initialized,    \* UciEngine::initialized_
          process_list,   \* the pids in process_list
          current,        \* current_ of the semaphore
          pc,             \* where each thread is
          uses,           \* the engine it holds
          stop,           \* atomic::stop
          games, restarts, failures,
          astray          \* history: alive() was asked about the process before one that failed to start

counters == <<games, restarts, failures>>
engine == <<process_pid, is_initalized, startup_error, initialized>>
kernel == <<child, born, process_list>>
vars == <<kernel, engine, current, pc, uses, stop, counters, astray>>

Threads == Workers \cup {Main}
Pids == 1..(MaxGames + MaxRestarts)

Idle(w) == pc[w] = "idle"
Waiting == {t \in Threads : pc[t] = "wait"}
Sleeping == {w \in Workers : pc[w] = "asleep"}

\* Killed or exited, and not yet taken by a wait.
Dead == {p \in Pids : child[p] \in {"killed", "zombie"}}

At(t, step) == pc[t] = step
Go(t, step) == pc' = [pc EXCEPT ![t] = step]

\* waitpid(pid, WNOHANG) and the wait of one that has exited leave no zombie.
Reap(p) == child' = [q \in Pids |-> IF q = p /\ child[q] = "zombie" THEN "reaped" ELSE child[q]]

-----------------------------------------------------------------------------
(* BaseTournament::playGame: the test of the flag, then the engine.        *)

Begin(w) ==
    /\ At(w, "idle") /\ At(Main, "idle")
    /\ ~stop
    /\ games < MaxGames
    /\ games' = games + 1
    /\ Go(w, "borrow")
    /\ UNCHANGED <<kernel, engine, current, uses, stop, restarts, failures, astray>>

Borrow(w) ==
    /\ At(w, "borrow")
    /\ \E e \in Engines :
         /\ \A t \in Threads : uses[t] # e
         /\ uses' = [uses EXCEPT ![w] = e]
         /\ Go(w, IF initialized[e] THEN "play" ELSE "acquire")
    /\ UNCHANGED <<kernel, engine, current, stop, counters, astray>>

\* The engine goes back to the cache.
Return(w, step) ==
    /\ At(w, step)
    /\ uses' = [uses EXCEPT ![w] = None]
    /\ Go(w, "idle")
    /\ UNCHANGED <<kernel, engine, current, counters, astray>>

EndGame(w) == Return(w, "play") /\ UNCHANGED stop

\* Match::start after a start() that failed.
StartFails(w) == Return(w, "failed") /\ stop' = TRUE

\* An exception left start(); the pool keeps it and nobody is told.
StartThrows(w) == Return(w, "thrown") /\ UNCHANGED stop

-----------------------------------------------------------------------------
(* UciEngine::start.                                                       *)

\* CountingSemaphore::acquire, with the predicate of its wait.
Acquire(w) ==
    /\ At(w, "acquire")
    /\ IF current < Slots
       THEN current' = current + 1 /\ Go(w, "spawn")
       ELSE Go(w, "asleep") /\ UNCHANGED current
    /\ UNCHANGED <<kernel, engine, uses, stop, counters, astray>>

\* Process::init up to posix_spawn, for start and for restart.
Spawn(w, step, next) ==
    LET e == uses[w] IN
    /\ At(w, step)
    /\ born' = born + 1
    /\ child' = [child EXCEPT ![born + 1] = "alive"]
    /\ process_pid' = [process_pid EXCEPT ![e] = born + 1]
    /\ is_initalized' = [is_initalized EXCEPT ![e] = TRUE]
    /\ startup_error' = [startup_error EXCEPT ![e] = FALSE]
    /\ Go(w, next)
    /\ UNCHANGED <<process_list, initialized, current, uses, stop, counters, astray>>

\* posix_spawn fails; process_pid_ is what it was.
SpawnFails(w, step, next) ==
    LET e == uses[w] IN
    /\ At(w, step)
    /\ failures < MaxFailures
    /\ failures' = failures + 1
    /\ is_initalized' = [is_initalized EXCEPT ![e] = TRUE]
    /\ startup_error' = [startup_error EXCEPT ![e] = TRUE]
    /\ Go(w, next)
    /\ UNCHANGED <<kernel, process_pid, initialized, current, uses, stop, games, restarts, astray>>

\* Faulty variant of Push: the process is not listed.
PushNothing(w, step, next) ==
    /\ At(w, step)
    /\ Go(w, next)
    /\ UNCHANGED <<kernel, engine, current, uses, stop, counters, astray>>

Push(w, step, next) ==
    /\ At(w, step)
    /\ process_list' = process_list \cup {process_pid[uses[w]]}
    /\ Go(w, next)
    /\ UNCHANGED <<child, born, engine, current, uses, stop, counters, astray>>

\* alive(), which every command written goes through, takes an engine that has exited.
Poll(e) ==
    /\ Reap(process_pid[e])
    /\ astray' = (astray \/ (startup_error[e] /\ process_pid[e] \in Dead))

\* uci() and uciok(): a dead engine does not answer, a living one may not, and std::stoi throws for a spin
\* option whose numbers are missing.
Hello(w) ==
    LET e == uses[w] IN
    /\ At(w, "hello")
    /\ Poll(e)
    /\ \E next \in {"release", "unwind"}, ok \in BOOLEAN :
         /\ ok \/ next = "unwind" => child[process_pid[e]] = "alive"
         /\ ok => next = "release"
         /\ initialized' = [initialized EXCEPT ![e] = ok]
         /\ Go(w, next)
    /\ UNCHANGED <<born, process_list, process_pid, is_initalized, startup_error, current, uses, stop, counters>>

\* Where the worker goes on after the semaphore.
Started(w) == IF At(w, "unwind") THEN "thrown" ELSE IF initialized[uses[w]] THEN "play" ELSE "failed"

\* Faulty variant of Release: no notify_one.
ReleaseSilent(w) ==
    /\ At(w, "release") \/ At(w, "unwind")
    /\ current' = current - 1
    /\ Go(w, Started(w))
    /\ UNCHANGED <<kernel, engine, uses, stop, counters, astray>>

\* ~AcquireSemaphore, as start() returns or throws.
Release(w) ==
    /\ At(w, "release") \/ At(w, "unwind")
    /\ current' = current - 1
    /\ \E woken \in SUBSET Sleeping :
         /\ Cardinality(woken) = IF Sleeping = {} THEN 0 ELSE 1
         /\ pc' = [t \in Threads |-> IF t = w THEN Started(w) ELSE IF t \in woken THEN "acquire" ELSE pc[t]]
    /\ UNCHANGED <<kernel, engine, uses, stop, counters, astray>>

start(w) ==
    \/ Acquire(w)
    \/ Spawn(w, "spawn", "push")
    \/ SpawnFails(w, "spawn", "release")
    \/ Push(w, "push", "hello")
    \/ Hello(w)
    \/ Release(w)
    \/ StartFails(w)
    \/ StartThrows(w)

-----------------------------------------------------------------------------
(* Process::killProcess, by a worker that restarts an engine, or by main.  *)

\* process_list.remove_if, unless there is no process.
Unlist(t, done) ==
    LET e == uses[t] IN
    /\ At(t, "unlist")
    /\ IF startup_error[e] \/ ~is_initalized[e]
       THEN /\ is_initalized' = [is_initalized EXCEPT ![e] = FALSE]
            /\ Go(t, done)
            /\ UNCHANGED process_list
       ELSE /\ process_list' = process_list \ {process_pid[e]}
            /\ Go(t, "check")
            /\ UNCHANGED is_initalized
    /\ UNCHANGED <<child, born, process_pid, startup_error, initialized, current, uses, stop, counters, astray>>

\* Faulty variant of Check: it always goes on to wait.
CheckNot(t, done) ==
    /\ At(t, "check")
    /\ Reap(process_pid[uses[t]])
    /\ Go(t, "kill")
    /\ UNCHANGED <<born, process_list, engine, current, uses, stop, counters, astray>>

\* waitpid: 0 for a process that runs, its pid for one that has exited, -1 for one that another thread took.
Check(t, done) ==
    LET e == uses[t] IN
    /\ At(t, "check")
    /\ Reap(process_pid[e])
    /\ IF child[process_pid[e]] \in {"alive", "killed"}
       THEN Go(t, "kill") /\ UNCHANGED is_initalized
       ELSE Go(t, done) /\ is_initalized' = [is_initalized EXCEPT ![e] = FALSE]
    /\ UNCHANGED <<born, process_list, process_pid, startup_error, initialized, current, uses, stop, counters, astray>>

\* Faulty variant of Kill: no signal.
KillNothing(t) ==
    /\ At(t, "kill")
    /\ Go(t, "wait")
    /\ UNCHANGED <<kernel, engine, current, uses, stop, counters, astray>>

\* kill(process_pid_, SIGKILL); nothing happens to a process that is gone.
Kill(t) ==
    /\ At(t, "kill")
    /\ child' = [p \in Pids |-> IF p = process_pid[uses[t]] /\ child[p] = "alive" THEN "killed" ELSE child[p]]
    /\ Go(t, "wait")
    /\ UNCHANGED <<born, process_list, engine, current, uses, stop, counters, astray>>

\* wait(nullptr): any child that has exited, whoever started it; an error if there is no child at all.
Wait(t, done) ==
    /\ At(t, "wait")
    /\ \/ \E p \in Pids : child[p] = "zombie" /\ Reap(p)
       \/ (\A p \in Pids : child[p] \in {"none", "reaped"}) /\ UNCHANGED child
    /\ is_initalized' = [is_initalized EXCEPT ![uses[t]] = FALSE]
    /\ Go(t, done)
    /\ UNCHANGED <<born, process_list, process_pid, startup_error, initialized, current, uses, stop, counters, astray>>

killProcess(t, done) == Unlist(t, done) \/ Check(t, done) \/ Kill(t) \/ Wait(t, done)

\* A command to the engine, in a game.  One that is dead or silent may be restarted by refreshUci.
Command(w) ==
    /\ At(w, "play")
    /\ Poll(uses[w])
    /\ \/ UNCHANGED <<pc, restarts>>
       \/ restarts < MaxRestarts /\ restarts' = restarts + 1 /\ Go(w, "unlist")
    /\ UNCHANGED <<born, process_list, engine, current, uses, stop, games, failures>>

\* restart(): the result of init is not looked at.
restart(w) ==
    \/ killProcess(w, "respawn")
    \/ Spawn(w, "respawn", "relist")
    \/ SpawnFails(w, "respawn", "play")
    \/ Push(w, "relist", "play")

Worker(w) == Begin(w) \/ Borrow(w) \/ start(w) \/ Command(w) \/ restart(w) \/ EndGame(w)

-----------------------------------------------------------------------------
(* The end of main: the pool is joined, the cache destroyed, and what is   *)
(* still listed killed.                                                    *)

\* The destructor of the cache: ~UciEngine, whose quit() is a command, and ~Process, for each engine.
Destroy(e) ==
    /\ At(Main, "idle")
    /\ \A w \in Workers : Idle(w)
    /\ stop \/ games = MaxGames
    /\ is_initalized[e]
    /\ IF initialized[e] THEN Poll(e) ELSE UNCHANGED <<child, astray>>
    /\ uses' = [uses EXCEPT ![Main] = e]
    /\ Go(Main, "unlist")
    /\ UNCHANGED <<born, process_list, engine, current, stop, counters>>

\* The signals of stopProcesses, as the last step of main.
stopProcesses ==
    /\ At(Main, "idle")
    /\ \A w \in Workers : Idle(w)
    /\ stop \/ games = MaxGames
    /\ \A e \in Engines : ~is_initalized[e]
    /\ child' = [p \in Pids |-> IF p \in process_list /\ child[p] = "alive" THEN "killed" ELSE child[p]]
    /\ Go(Main, "exit")
    /\ UNCHANGED <<born, process_list, engine, current, uses, stop, counters, astray>>

main == killProcess(Main, "idle") \/ (\E e \in Engines : Destroy(e)) \/ stopProcesses

-----------------------------------------------------------------------------
(* The rest of the world.                                                  *)

\* An engine exits or crashes.
Exits(p) ==
    /\ child[p] = "alive"
    /\ child' = [child EXCEPT ![p] = "zombie"]
    /\ UNCHANGED <<born, process_list, engine, current, pc, uses, stop, counters, astray>>

\* SIGKILL takes effect.
Dies(p) ==
    /\ child[p] = "killed"
    /\ child' = [child EXCEPT ![p] = "zombie"]
    /\ UNCHANGED <<born, process_list, engine, current, pc, uses, stop, counters, astray>>

\* SIGINT, or a game lost by a crash.
Stop ==
    /\ ~stop
    /\ stop' = TRUE
    /\ UNCHANGED <<kernel, engine, current, pc, uses, counters, astray>>

Init ==
    /\ child = [p \in Pids |-> "none"] /\ born = 0
    /\ process_pid = [e \in Engines |-> 0]
    /\ is_initalized = [e \in Engines |-> FALSE]
    /\ startup_error = [e \in Engines |-> FALSE]
    /\ initialized = [e \in Engines |-> FALSE]
    /\ process_list = {}
    /\ current = 0
    /\ pc = [t \in Threads |-> "idle"]
    /\ uses = [t \in Threads |-> None]
    /\ stop = FALSE
    /\ games = 0 /\ restarts = 0 /\ failures = 0
    /\ astray = FALSE

Next ==
    \/ \E w \in Workers : Worker(w)
    \/ main
    \/ \E p \in Pids : Exits(p) \/ Dies(p)
    \/ Stop

\* The threads are scheduled, and SIGKILL kills; a game ends, as UciEngine shows.
Spec ==
    /\ Init /\ [][Next]_vars
    /\ \A w \in Workers :
         /\ WF_vars(Borrow(w)) /\ WF_vars(start(w)) /\ WF_vars(restart(w)) /\ WF_vars(EndGame(w))
    /\ WF_vars(main)
    /\ \A p \in Pids : WF_vars(Dies(p))

-----------------------------------------------------------------------------
\* wait(nullptr) may take the child of another thread, but never so that a thread that waits is left without
\* one: there are as many dead children as threads that wait for one.  The exception is astray: a restart
\* whose init fails leaves the old pid behind, and the next alive() takes a zombie somebody may wait for.
EnoughDead == astray \/ Cardinality(Waiting) <= Cardinality(Dead)

\* Nobody sleeps at the semaphore while it has a free slot and no thread is on its way to take it.
NoIdleSlot == Sleeping # {} => current + Cardinality({w \in Workers : At(w, "acquire")}) >= Slots

\* main.cpp:47: no engine outlives the tester, not even one whose pid was overwritten by a second init.
NoneOutlives == At(Main, "exit") => \A p \in Pids : child[p] # "alive"

\* Once the flag is set main returns.
MainReturns == stop ~> (At(Main, "exit") \/ astray)

=============================================================================
