----------------------------- MODULE ThreadPool -----------------------------
(***************************************************************************)
(* util::ThreadPool (util/threadpool.hpp): one owner thread (the tournament)*)
(* constructs, resizes, feeds and destroys the pool; its worker threads     *)
(* run work().  Each body under queue_mutex_ is one step; the atomic stop_  *)
(* is also read outside it.  A worker in condition_.wait sits in waiting    *)
(* until notify_one, notify_all or a spurious wake-up.  A task that throws  *)
(* ends like any other: the packaged_task keeps the exception.              *)
(***************************************************************************)
EXTENDS Naturals, Sequences, FiniteSets, SequencesExt

CONSTANTS MaxThreads,        \* bound: threads the owner starts over all resizes
          MaxTasks,          \* bound: tasks the owner enqueues, named 1, 2, ... in that order
          HardwareThreads,   \* std::thread::hardware_concurrency()
          Sizes              \* the sizes the owner asks for in resize

ASSUME ThreadPoolAssumption ==
    /\ MaxThreads \in Nat \ {0}
    /\ MaxTasks \in Nat
    /\ HardwareThreads \in Nat \ {0}
    /\ Sizes \subseteq Nat \ {0}

VARIABLES tasks,      \* tasks_
          workers,    \* workers_: the thread of each std::thread, NoThread for an empty one
          stop,       \* stop_
          waiting,    \* the threads asleep in condition_
          pc,         \* where each thread is in work()
          current,    \* the task each thread runs
          owner,      \* where the owner is in enqueue, resize or kill
          newSize,    \* num_threads while the owner is in resize, 0 while in the destructor's kill
          enqueued,   \* the number of tasks enqueued so far
          started,    \* history: the tasks in the order they started
          dropped     \* history: the tasks discarded by tasks_ = {}

vars == <<tasks, workers, stop, waiting, pc, current, owner, newSize, enqueued, started, dropped>>

Threads == 1..MaxThreads
NoThread == 0
NoTask == 0

\* The threads started so far carry the lowest numbers.
Born == {t \in Threads : pc[t] # "unborn"}
NextThread == Cardinality(Born) + 1

Joinable == {workers[i] : i \in DOMAIN workers} \ {NoThread}

-----------------------------------------------------------------------------
(* The worker: void work()                                                 *)

\* while (!stop_)
CheckStop(t) ==
    /\ pc[t] = "check"
    /\ pc' = [pc EXCEPT ![t] = IF stop THEN "exit" ELSE "lock"]
    /\ UNCHANGED <<tasks, workers, stop, waiting, current, owner, newSize, enqueued, started, dropped>>

\* The predicate of condition_.wait.
HasWork == stop \/ tasks # << >>

\* Faulty variant of Sleep: the wait does not test its predicate first.
SleepUntested(t) ==
    /\ pc[t] = "lock"
    /\ waiting' = waiting \cup {t}
    /\ pc' = [pc EXCEPT ![t] = "wait"]
    /\ UNCHANGED <<tasks, workers, stop, current, owner, newSize, enqueued, started, dropped>>

\* wait finds its predicate false: the thread sleeps and releases the mutex.
Sleep(t) ==
    /\ pc[t] = "lock"
    /\ ~HasWork
    /\ waiting' = waiting \cup {t}
    /\ pc' = [pc EXCEPT ![t] = "wait"]
    /\ UNCHANGED <<tasks, workers, stop, current, owner, newSize, enqueued, started, dropped>>

\* if (stop_ && tasks_.empty()) return
Leave(t) ==
    /\ pc[t] = "lock"
    /\ stop /\ tasks = << >>
    /\ pc' = [pc EXCEPT ![t] = "exit"]
    /\ UNCHANGED <<tasks, workers, stop, waiting, current, owner, newSize, enqueued, started, dropped>>

\* task = std::move(tasks_.front()); tasks_.pop()
Take(t) ==
    /\ pc[t] = "lock"
    /\ tasks # << >>
    /\ current' = [current EXCEPT ![t] = Head(tasks)]
    /\ started' = Append(started, Head(tasks))
    /\ tasks' = Tail(tasks)
    /\ pc' = [pc EXCEPT ![t] = "run"]
    /\ UNCHANGED <<workers, stop, waiting, owner, newSize, enqueued, dropped>>

\* task() returns, and the loop goes round.
Finish(t) ==
    /\ pc[t] = "run"
    /\ current' = [current EXCEPT ![t] = NoTask]
    /\ pc' = [pc EXCEPT ![t] = "check"]
    /\ UNCHANGED <<tasks, workers, stop, waiting, owner, newSize, enqueued, started, dropped>>

\* A sleeping thread may wake without a notification; it tests the predicate again.
SpuriousWake(t) ==
    /\ t \in waiting
    /\ waiting' = waiting \ {t}
    /\ pc' = [pc EXCEPT ![t] = "lock"]
    /\ UNCHANGED <<tasks, workers, stop, current, owner, newSize, enqueued, started, dropped>>

-----------------------------------------------------------------------------
(* The owner.                                                              *)

\* Faulty variant of enqueue: the waiting threads are not notified.
enqueueSilently ==
    /\ owner = "idle"
    /\ enqueued < MaxTasks
    /\ ~stop
    /\ enqueued' = enqueued + 1
    /\ tasks' = Append(tasks, enqueued + 1)
    /\ UNCHANGED <<workers, stop, waiting, pc, current, owner, newSize, started, dropped>>

\* void enqueue(func, args...), up to the end of the locked block; on a stopped
\* pool it throws and leaves everything as it is.
enqueue ==
    /\ owner = "idle"
    /\ enqueued < MaxTasks
    /\ ~stop
    /\ enqueued' = enqueued + 1
    /\ tasks' = Append(tasks, enqueued + 1)
    /\ owner' = "notify"
    /\ UNCHANGED <<workers, stop, waiting, pc, current, newSize, started, dropped>>

\* condition_.notify_one() at the end of enqueue
NotifyOne ==
    /\ owner = "notify"
    /\ owner' = "idle"
    /\ IF waiting = {}
         THEN UNCHANGED <<waiting, pc>>
         ELSE \E t \in waiting : /\ waiting' = waiting \ {t}
                                 /\ pc' = [pc EXCEPT ![t] = "lock"]
    /\ UNCHANGED <<tasks, workers, stop, current, newSize, enqueued, started, dropped>>

\* void resize(num_threads), up to kill(): a size equal to workers_.size() is
\* left alone, any other is cut to the hardware threads.
resize(num_threads) ==
    /\ owner = "idle"
    /\ num_threads # Len(workers)
    /\ newSize' = IF num_threads < HardwareThreads THEN num_threads ELSE HardwareThreads
    /\ NextThread + newSize' - 1 <= MaxThreads
    /\ owner' = "kill"
    /\ UNCHANGED <<tasks, workers, stop, waiting, pc, current, enqueued, started, dropped>>

\* ~ThreadPool()
Destroy ==
    /\ owner = "idle"
    /\ newSize' = 0
    /\ owner' = "kill"
    /\ UNCHANGED <<tasks, workers, stop, waiting, pc, current, enqueued, started, dropped>>

\* Faulty variant of KillLocked: the queue is kept.
KillKeepsTasks ==
    /\ owner = "kill"
    /\ IF stop
         THEN owner' = "killed" /\ UNCHANGED stop
         ELSE stop' = TRUE /\ owner' = "notify_all"
    /\ UNCHANGED <<tasks, dropped, workers, waiting, pc, current, newSize, enqueued, started>>

\* void kill(): the early return of a stopped pool, else the locked block.
KillLocked ==
    /\ owner = "kill"
    /\ IF stop
         THEN owner' = "killed" /\ UNCHANGED <<stop, tasks, dropped>>
         ELSE /\ stop' = TRUE
              /\ dropped' = dropped \cup Range(tasks)
              /\ tasks' = << >>
              /\ owner' = "notify_all"
    /\ UNCHANGED <<workers, waiting, pc, current, newSize, enqueued, started>>

\* Faulty variant of NotifyAll: only one thread is woken.
NotifyAllOne ==
    /\ owner = "notify_all"
    /\ owner' = "join"
    /\ IF waiting = {}
         THEN UNCHANGED <<waiting, pc>>
         ELSE \E t \in waiting : /\ waiting' = waiting \ {t}
                                 /\ pc' = [pc EXCEPT ![t] = "lock"]
    /\ UNCHANGED <<tasks, workers, stop, current, newSize, enqueued, started, dropped>>

\* condition_.notify_all()
NotifyAll ==
    /\ owner = "notify_all"
    /\ owner' = "join"
    /\ waiting' = {}
    /\ pc' = [t \in Threads |-> IF t \in waiting THEN "lock" ELSE pc[t]]
    /\ UNCHANGED <<tasks, workers, stop, current, newSize, enqueued, started, dropped>>

\* worker.join() for each joinable worker, then workers_.clear()
Join ==
    /\ owner = "join"
    /\ \A t \in Joinable : pc[t] = "exit"
    /\ workers' = << >>
    /\ owner' = "killed"
    /\ UNCHANGED <<tasks, stop, waiting, pc, current, newSize, enqueued, started, dropped>>

\* kill() has returned: resize goes on to make newSize empty std::threads and
\* append newSize running ones; the destructor ends the pool.
AfterKill ==
    /\ owner = "killed"
    /\ IF newSize = 0
         THEN owner' = "destroyed" /\ UNCHANGED <<stop, workers, pc>>
         ELSE LET new == NextThread..(NextThread + newSize - 1)
              IN  /\ stop' = FALSE
                  /\ workers' = [i \in 1..(2 * newSize) |->
                                    IF i <= newSize THEN NoThread ELSE NextThread + i - newSize - 1]
                  /\ pc' = [t \in Threads |-> IF t \in new THEN "check" ELSE pc[t]]
                  /\ owner' = "idle"
    /\ UNCHANGED <<tasks, waiting, current, newSize, enqueued, started, dropped>>

-----------------------------------------------------------------------------

\* ThreadPool(1): the member initializer of pool_.
Init ==
    /\ tasks = << >>
    /\ workers = <<1>>
    /\ stop = FALSE
    /\ waiting = {}
    /\ pc = [t \in Threads |-> IF t = 1 THEN "check" ELSE "unborn"]
    /\ current = [t \in Threads |-> NoTask]
    /\ owner = "idle"
    /\ newSize = 0
    /\ enqueued = 0
    /\ started = << >>
    /\ dropped = {}

work(t) == CheckStop(t) \/ Sleep(t) \/ Leave(t) \/ Take(t) \/ Finish(t)

\* The owner inside a call; it is free to make the next call or none.
InCall == NotifyOne \/ KillLocked \/ NotifyAll \/ Join \/ AfterKill

Next ==
    \/ \E t \in Threads : work(t) \/ SpuriousWake(t)
    \/ enqueue
    \/ \E n \in Sizes : resize(n)
    \/ Destroy
    \/ InCall

\* Every thread is scheduled, every task returns (a game ends), and the owner
\* finishes the call it is in.  Nothing obliges it to make another one.
Fairness == (\A t \in Threads : WF_vars(work(t))) /\ WF_vars(InCall)

Spec == Init /\ [][Next]_vars /\ Fairness

-----------------------------------------------------------------------------

\* Every variable has its type.
TypeOK ==
    /\ tasks \in Seq(1..MaxTasks)
    /\ workers \in Seq(Threads \cup {NoThread})
    /\ stop \in BOOLEAN
    /\ waiting \subseteq Threads
    /\ pc \in [Threads -> {"unborn", "check", "lock", "wait", "run", "exit"}]
    /\ current \in [Threads -> 0..MaxTasks]
    /\ owner \in {"idle", "notify", "kill", "notify_all", "join", "killed", "destroyed"}
    /\ newSize \in 0..HardwareThreads
    /\ enqueued \in 0..MaxTasks
    /\ started \in Seq(1..MaxTasks)
    /\ dropped \subseteq 1..MaxTasks

\* Tasks start in the order they were enqueued and at most once, and a task
\* that was enqueued is queued, started or dropped, never two of them and never
\* lost: the games are played in the order of the schedule (threadpool.hpp:29-32,
\* 88-92), across any kill and resize.
InOrderOnce ==
    LET all == started \o tasks
    IN  /\ \A i, j \in DOMAIN all : i < j => all[i] < all[j]
        /\ Range(all) \cap dropped = {}
        /\ Range(all) \cup dropped = 1..enqueued

\* When kill() has returned no thread of the pool is left: none runs a task,
\* none sleeps, none can take one (threadpool.hpp:55-73).  The members the
\* tasks use are destroyed right after it.
QuietAfterKill ==
    owner \in {"killed", "destroyed"} =>
        /\ tasks = << >>
        /\ \A t \in Threads : pc[t] \in {"unborn", "exit"}

\* No wake-up is lost (threadpool.hpp:29-34 against 88-89): while some thread
\* sleeps, every queued task has a thread on its way to the queue, or a
\* notification about to be sent.
NoLostWakeup ==
    waiting # {} =>
        Len(tasks) <= Cardinality({t \in Threads : pc[t] \in {"check", "lock"}})
                        + (IF owner = "notify" THEN 1 ELSE 0)

\* Every enqueued task is started or dropped by a kill: the queue is always
\* served (threadpool.hpp:83-97).
EveryTaskServed ==
    \A k \in 1..MaxTasks : (enqueued >= k) ~> (k \in Range(started) \/ k \in dropped)

\* kill() returns as soon as the running tasks do: each sleeping worker is
\* woken to see stop_, and each busy one sees it after its task (threadpool.hpp:55-71).
KillReturns == (owner = "kill") ~> (owner \in {"idle", "destroyed"})

-----------------------------------------------------------------------------

PoolOfTasks == INSTANCE TaskPool WITH
    Tasks <- 1..MaxTasks,
    queue <- tasks,
    running <- current,
    phase <- CASE ~stop -> "open"
               [] stop /\ owner \in {"killed", "destroyed"} -> "closed"
               [] OTHER -> "closing"

\* The pool keeps the promises of the abstract one, through every interleaving
\* of mutex, condition variable and stop flag: this is all the tournament uses.
ImplementsTaskPool == PoolOfTasks!Spec
=============================================================================
