-------------------------- MODULE ThreadPool_proofs --------------------------
(***************************************************************************)
(* For any number of threads, tasks and resizes: kill() returns only when  *)
(* no thread of the pool is left, no wake-up is lost, and the pool          *)
(* implements TaskPool.                                                     *)
(***************************************************************************)
EXTENDS ThreadPool, FiniteSetTheorems, TLAPS

-----------------------------------------------------------------------------
(* The inductive invariant.                                                *)

Phases == {"unborn", "check", "lock", "wait", "run", "exit"}
OwnerAt == {"idle", "notify", "kill", "notify_all", "join", "killed", "destroyed"}

\* The part of TypeOK the other parts rest on.
Shape ==
    /\ tasks \in Seq(1..MaxTasks)
    /\ workers \in Seq(Threads \cup {NoThread})
    /\ stop \in BOOLEAN
    /\ pc \in [Threads -> Phases]
    /\ current \in [Threads -> 0..MaxTasks]
    /\ owner \in OwnerAt
    /\ newSize \in 0..HardwareThreads
    /\ enqueued \in 0..MaxTasks

\* A thread sleeps exactly while the condition variable has it, and has a task
\* exactly while it runs one.
ThreadsAgree ==
    /\ waiting = {t \in Threads : pc[t] = "wait"}
    /\ \A t \in Threads : current[t] # NoTask <=> pc[t] = "run"

\* kill() joins every thread there is: the handles of the living ones are in workers_.
HandlesKept == \A t \in Threads : pc[t] \notin {"unborn", "exit"} => t \in Joinable

\* The pool is stopped from the locked block of kill() until resize restarts it,
\* and has no tasks then.
StopAgrees ==
    /\ stop <=> owner \in {"notify_all", "join", "killed", "destroyed"}
    /\ stop => tasks = << >>

\* resize has threads left for what it starts.
RoomToResize ==
    owner \in {"kill", "notify_all", "join", "killed"} /\ newSize > 0 =>
        NextThread + newSize - 1 <= MaxThreads

IInv ==
    /\ Shape
    /\ ThreadsAgree
    /\ HandlesKept
    /\ StopAgrees
    /\ RoomToResize
    /\ QuietAfterKill

-----------------------------------------------------------------------------

LEMMA BornFinite ==
    ASSUME Shape
    PROVE  /\ IsFiniteSet(Threads)
           /\ IsFiniteSet(Born) /\ Cardinality(Born) \in Nat /\ NextThread \in Nat \ {0}
  <1>1. IsFiniteSet(Threads)
    BY ThreadPoolAssumption, FS_Interval DEF Threads
  <1>2. IsFiniteSet(Born)
    BY <1>1, FS_Subset DEF Born
  <1> QED  BY <1>1, <1>2, FS_CardinalityType DEF NextThread

(* A step of a worker: only the pc and the task of one thread change.      *)
LEMMA WorkerStep ==
    ASSUME IInv, NEW t \in Threads, work(t) \/ SpuriousWake(t)
    PROVE  IInv'
  <1> USE ThreadPoolAssumption DEF IInv
  <1>1. /\ owner' = owner /\ workers' = workers /\ stop' = stop /\ newSize' = newSize /\ enqueued' = enqueued
        /\ pc[t] \notin {"unborn", "exit"}
        /\ \E next \in Phases \ {"unborn"} : pc' = [pc EXCEPT ![t] = next]
    BY DEF work, CheckStop, Sleep, Leave, Take, Finish, SpuriousWake, Shape, Phases, ThreadsAgree
  <1>2. Shape'
    <2>1. CASE Take(t)
      <3>1. Head(tasks) \in 1..MaxTasks /\ Tail(tasks) \in Seq(1..MaxTasks)
        BY <2>1 DEF Take, Shape
      <3> QED  BY <1>1, <2>1, <3>1 DEF Take, Shape
    <2>2. CASE ~Take(t)
      <3>1. tasks' = tasks
        BY <2>2 DEF work, CheckStop, Sleep, Leave, Finish, SpuriousWake
      <3>2. current' \in [Threads -> 0..MaxTasks]
        BY <2>2 DEF work, CheckStop, Sleep, Leave, Finish, SpuriousWake, Shape, NoTask
      <3> QED  BY <1>1, <3>1, <3>2 DEF Shape
    <2> QED  BY <2>1, <2>2
  <1>3. ThreadsAgree'
    <2>1. CASE Take(t)
      <3>1. Head(tasks) # NoTask
        BY <2>1 DEF Take, Shape, NoTask
      <3> QED  BY <2>1, <3>1 DEF Take, Shape, ThreadsAgree
    <2>2. CASE Finish(t)
      BY <2>2 DEF Finish, Shape, ThreadsAgree, NoTask
    <2>3. CASE CheckStop(t) \/ Sleep(t) \/ Leave(t) \/ SpuriousWake(t)
      BY <2>3 DEF CheckStop, Sleep, Leave, SpuriousWake, Shape, ThreadsAgree
    <2> QED  BY <2>1, <2>2, <2>3 DEF work
  <1>4. HandlesKept'
    BY <1>1 DEF HandlesKept, Joinable, Shape
  <1>5. StopAgrees'
    BY <1>1 DEF work, CheckStop, Sleep, Leave, Take, Finish, SpuriousWake, StopAgrees
  <1>6. Born' = Born
    BY <1>1 DEF Born, Shape
  <1>7. RoomToResize'
    BY <1>1, <1>6 DEF RoomToResize, NextThread
  <1>8. QuietAfterKill'
    BY <1>1 DEF QuietAfterKill, StopAgrees, Shape
  <1> QED  BY <1>2, <1>3, <1>4, <1>5, <1>7, <1>8

(* The owner's calls, up to the restart of the threads.                    *)
LEMMA OwnerStep ==
    ASSUME IInv,
           enqueue \/ NotifyOne \/ (\E n \in Sizes : resize(n)) \/ Destroy \/ KillLocked \/ NotifyAll \/ Join
    PROVE  IInv'
  <1> USE ThreadPoolAssumption DEF IInv
  <1>1. ASSUME pc' = pc, waiting' = waiting, current' = current, workers' = workers
        PROVE  ThreadsAgree' /\ HandlesKept' /\ Born' = Born
    BY <1>1 DEF ThreadsAgree, HandlesKept, Joinable, Born
  <1>2. CASE enqueue
    <2>1. Append(tasks, enqueued + 1) \in Seq(1..MaxTasks)
      BY <1>2 DEF enqueue, Shape
    <2>2. Shape' /\ StopAgrees'
      BY <1>2, <2>1 DEF enqueue, Shape, StopAgrees, OwnerAt
    <2> QED  BY <1>1, <1>2, <2>2 DEF enqueue, RoomToResize, QuietAfterKill
  <1>3. CASE NotifyOne
    <2>1. CASE waiting = {}
      <3>1. Shape' /\ StopAgrees'
        BY <1>3, <2>1 DEF NotifyOne, Shape, StopAgrees, OwnerAt
      <3> QED  BY <1>1, <1>3, <2>1, <3>1 DEF NotifyOne, RoomToResize, QuietAfterKill
    <2>2. CASE waiting # {}
      <3>1. PICK t \in waiting : waiting' = waiting \ {t} /\ pc' = [pc EXCEPT ![t] = "lock"]
        BY <1>3, <2>2 DEF NotifyOne
      <3>3. t \in Threads /\ pc[t] = "wait"
        BY DEF ThreadsAgree
      <3>4. Shape' /\ StopAgrees'
        BY <1>3, <3>1, <3>3 DEF NotifyOne, Shape, StopAgrees, OwnerAt, Phases
      <3>5. ThreadsAgree'
        BY <1>3, <3>1, <3>3 DEF NotifyOne, ThreadsAgree, Shape
      <3>6. HandlesKept'
        BY <1>3, <3>1, <3>3 DEF NotifyOne, HandlesKept, Joinable, Shape
      <3> QED  BY <1>3, <3>4, <3>5, <3>6 DEF NotifyOne, RoomToResize, QuietAfterKill
    <2> QED  BY <2>1, <2>2
  <1>4. ASSUME NEW n \in Sizes, resize(n)
        PROVE  IInv'
    <2>1. Shape' /\ StopAgrees'
      BY <1>4 DEF resize, Shape, StopAgrees, OwnerAt
    <2>2. RoomToResize'
      BY <1>1, <1>4 DEF resize, RoomToResize, NextThread
    <2> QED  BY <1>1, <1>4, <2>1, <2>2 DEF resize, QuietAfterKill
  <1>5. CASE Destroy
    <2>1. Shape' /\ StopAgrees'
      BY <1>5 DEF Destroy, Shape, StopAgrees, OwnerAt
    <2> QED  BY <1>1, <1>5, <2>1 DEF Destroy, RoomToResize, QuietAfterKill
  <1>6. CASE KillLocked
    <2>1. ~stop
      BY <1>6 DEF KillLocked, StopAgrees
    <2>2. Shape' /\ StopAgrees'
      BY <1>6, <2>1 DEF KillLocked, Shape, StopAgrees, OwnerAt
    <2>3. RoomToResize'
      BY <1>1, <1>6 DEF KillLocked, RoomToResize, NextThread
    <2> QED  BY <1>1, <1>6, <2>1, <2>2, <2>3 DEF KillLocked, QuietAfterKill
  <1>7. CASE NotifyAll
    <2>1. \A t \in Threads : (pc'[t] = "unborn" <=> pc[t] = "unborn") /\ (pc'[t] = "exit" <=> pc[t] = "exit")
      BY <1>7 DEF NotifyAll, ThreadsAgree
    <2>2. Shape' /\ StopAgrees'
      BY <1>7 DEF NotifyAll, Shape, StopAgrees, OwnerAt, Phases
    <2>3. ThreadsAgree'
      BY <1>7 DEF NotifyAll, ThreadsAgree
    <2>4. HandlesKept'
      BY <1>7, <2>1 DEF NotifyAll, HandlesKept, Joinable
    <2>5. Born' = Born
      BY <2>1 DEF Born
    <2> QED  BY <1>7, <2>2, <2>3, <2>4, <2>5 DEF NotifyAll, RoomToResize, NextThread, QuietAfterKill
  <1>8. CASE Join
    <2>1. \A t \in Threads : pc[t] \in {"unborn", "exit"}
      BY <1>8 DEF Join, HandlesKept, Shape
    <2>2. Shape' /\ StopAgrees'
      BY <1>8 DEF Join, Shape, StopAgrees, OwnerAt
    <2>3. ThreadsAgree' /\ HandlesKept' /\ Born' = Born
      BY <1>8, <2>1 DEF Join, ThreadsAgree, HandlesKept, Born
    <2>4. QuietAfterKill'
      BY <1>8, <2>1, <2>2 DEF Join, QuietAfterKill, StopAgrees
    <2> QED  BY <1>8, <2>2, <2>3, <2>4 DEF Join, RoomToResize, NextThread
  <1> QED  BY <1>2, <1>3, <1>4, <1>5, <1>6, <1>7, <1>8

(* The restart of the pool: new handles for new threads.                   *)
LEMMA AfterKillStep ==
    ASSUME IInv, AfterKill
    PROVE  IInv'
  <1> USE ThreadPoolAssumption DEF IInv
  <1>0. /\ owner = "killed" /\ stop /\ tasks = << >>
        /\ \A t \in Threads : pc[t] \in {"unborn", "exit"} /\ current[t] = NoTask
        /\ waiting = {}
    BY DEF AfterKill, QuietAfterKill, StopAgrees, ThreadsAgree
  <1>1. CASE newSize = 0
    <2>1. Shape' /\ StopAgrees'
      BY <1>0, <1>1 DEF AfterKill, Shape, StopAgrees, OwnerAt
    <2>2. ThreadsAgree' /\ HandlesKept' /\ QuietAfterKill' /\ RoomToResize'
      BY <1>0, <1>1 DEF AfterKill, ThreadsAgree, HandlesKept, QuietAfterKill, RoomToResize
    <2> QED  BY <2>1, <2>2
  <1>2. CASE newSize # 0
    <2> DEFINE first == NextThread
               new == first..(first + newSize - 1)
    <2>1. first \in Nat \ {0} /\ newSize \in Nat \ {0} /\ first + newSize - 1 <= MaxThreads
      BY <1>0, <1>2, BornFinite DEF RoomToResize, Shape
    <2>2. /\ stop' = FALSE /\ owner' = "idle" /\ tasks' = tasks /\ waiting' = waiting
          /\ current' = current /\ newSize' = newSize /\ enqueued' = enqueued
          /\ workers' = [i \in 1..(2 * newSize) |-> IF i <= newSize THEN NoThread ELSE first + i - newSize - 1]
          /\ pc' = [t \in Threads |-> IF t \in new THEN "check" ELSE pc[t]]
      BY <1>2 DEF AfterKill
    <2> HIDE DEF first
    <2>3. workers' \in Seq(Threads \cup {NoThread}) /\ DOMAIN workers' = 1..(2 * newSize)
      <3>1. \A i \in 1..(2 * newSize) :
              (IF i <= newSize THEN NoThread ELSE first + i - newSize - 1) \in Threads \cup {NoThread}
        BY <2>1 DEF Threads
      <3>2. workers' \in [1..(2 * newSize) -> Threads \cup {NoThread}]
        BY <2>2, <3>1
      <3>3. 2 * newSize \in Nat
        BY <2>1
      <3> QED  BY <3>2, <3>3
    <2>4. \A t \in new : t \in Joinable'
      <3> TAKE t \in new
      <3>1. t - first + newSize + 1 \in 1..(2 * newSize)
        BY <2>1
      <3>2. workers'[t - first + newSize + 1] = t
        BY <2>1, <2>2, <3>1
      <3>3. t # NoThread
        BY <2>1 DEF NoThread
      <3> QED  BY <2>3, <3>1, <3>2, <3>3 DEF Joinable
    <2>5. Shape'
      BY <2>2, <2>3 DEF Shape, OwnerAt, Phases
    <2>6. ThreadsAgree'
      BY <1>0, <2>2 DEF ThreadsAgree
    <2>7. HandlesKept'
      BY <1>0, <2>2, <2>4 DEF HandlesKept
    <2>8. StopAgrees' /\ RoomToResize' /\ QuietAfterKill'
      BY <2>2 DEF StopAgrees, RoomToResize, QuietAfterKill
    <2> QED  BY <2>5, <2>6, <2>7, <2>8
  <1> QED  BY <1>1, <1>2

LEMMA InitInv == Init => IInv
  <1> SUFFICES ASSUME Init PROVE IInv
    OBVIOUS
  <1> USE ThreadPoolAssumption
  <1>1. Shape
    <2>1. 1 \in Threads
      BY DEF Threads
    <2>2. workers \in Seq(Threads \cup {NoThread})
      BY <2>1 DEF Init
    <2>3. tasks \in Seq(1..MaxTasks)
      BY DEF Init
    <2>4. pc \in [Threads -> Phases] /\ current \in [Threads -> 0..MaxTasks]
      BY DEF Init, Phases, NoTask
    <2>5. newSize \in 0..HardwareThreads /\ enqueued \in 0..MaxTasks
      BY DEF Init
    <2>6. owner \in OwnerAt /\ stop \in BOOLEAN
      BY DEF Init, OwnerAt
    <2> QED  BY <2>2, <2>3, <2>4, <2>5, <2>6 DEF Shape
  <1>2. ThreadsAgree
    BY DEF Init, ThreadsAgree, NoTask
  <1>3. HandlesKept
    BY DEF Init, HandlesKept, Joinable, NoThread
  <1> QED  BY <1>1, <1>2, <1>3 DEF Init, IInv, StopAgrees, RoomToResize, QuietAfterKill

LEMMA NextInv == IInv /\ [Next]_vars => IInv'
  <1> SUFFICES ASSUME IInv, [Next]_vars PROVE IInv'
    OBVIOUS
  <1>1. CASE UNCHANGED vars
    BY <1>1 DEF vars, IInv, Shape, ThreadsAgree, HandlesKept, Joinable, StopAgrees, RoomToResize,
                NextThread, Born, QuietAfterKill
  <1> QED  BY <1>1, WorkerStep, OwnerStep, AfterKillStep DEF Next, InCall

(* When kill() returns no thread of the pool runs, sleeps or can take a    *)
(* task, for any number of threads and resizes (threadpool.hpp:55-73).     *)
THEOREM KillLeavesNobody == Spec => []QuietAfterKill
  <1>1. IInv => QuietAfterKill
    BY DEF IInv
  <1> QED  BY <1>1, InitInv, NextInv, PTL DEF Spec

-----------------------------------------------------------------------------
(* No wake-up is lost.                                                     *)

\* The threads on their way to the queue.
Coming == {t \in Threads : pc[t] \in {"check", "lock"}}

LEMMA ComingFinite == IsFiniteSet(Coming) /\ Cardinality(Coming) \in Nat
  <1>1. IsFiniteSet(Threads)
    BY ThreadPoolAssumption, FS_Interval DEF Threads
  <1>2. IsFiniteSet(Coming)
    BY <1>1, FS_Subset DEF Coming
  <1> QED  BY <1>2, FS_CardinalityType

LEMMA WakeupStep ==
    ASSUME IInv, NoLostWakeup, [Next]_vars, IInv'
    PROVE  NoLostWakeup'
  <1> USE ThreadPoolAssumption, ComingFinite
  <1> DEFINE notice == IF owner = "notify" THEN 1 ELSE 0
  <1>0. /\ IsFiniteSet(Coming') /\ Cardinality(Coming') \in Nat
        /\ Len(tasks) \in Nat /\ Len(tasks') \in Nat
        /\ notice \in {0, 1} /\ notice' \in {0, 1}
    <2>1. (IsFiniteSet(Coming) /\ Cardinality(Coming) \in Nat)'
      BY ComingFinite, PTL
    <2> QED  BY <2>1 DEF IInv, Shape
  <1>2. waiting # {} => Len(tasks) <= Cardinality(Coming) + notice
    BY DEF NoLostWakeup, Coming
  <1>3. SUFFICES (waiting # {} => Len(tasks) <= Cardinality(Coming) + notice)'
    BY DEF NoLostWakeup, Coming
  <1>4. CASE tasks' = << >> \/ waiting' = {}
    BY <1>0, <1>4
  <1>5. ASSUME NEW t \in Threads, work(t) \/ SpuriousWake(t)
        PROVE  (waiting # {} => Len(tasks) <= Cardinality(Coming) + notice)'
    <2>1. CASE CheckStop(t)
      <3>1. CASE stop
        BY <1>4, <2>1, <3>1 DEF CheckStop, IInv, StopAgrees
      <3>2. CASE ~stop
        <4>1. Coming' = Coming
          BY <2>1, <3>2 DEF CheckStop, Coming, IInv, Shape
        <4> QED  BY <1>2, <2>1, <4>1 DEF CheckStop
      <3> QED  BY <3>1, <3>2
    <2>2. CASE Sleep(t) \/ Leave(t)
      BY <1>4, <2>2 DEF Sleep, Leave, HasWork
    <2>3. CASE Take(t)
      <3>1. Coming' = Coming \ {t} /\ t \in Coming
        BY <2>3 DEF Take, Coming, IInv, Shape
      <3>2. Cardinality(Coming') = Cardinality(Coming) - 1
        BY <3>1, FS_RemoveElement
      <3>3. Len(tasks') = Len(tasks) - 1
        BY <2>3 DEF Take, IInv, Shape
      <3> QED  BY <1>0, <1>2, <2>3, <3>2, <3>3 DEF Take
    <2>4. CASE Finish(t) \/ SpuriousWake(t)
      <3>1. Coming' = Coming \cup {t} /\ t \notin Coming
        BY <2>4 DEF Finish, SpuriousWake, Coming, IInv, Shape, ThreadsAgree
      <3>2. Cardinality(Coming') = Cardinality(Coming) + 1
        BY <3>1, FS_AddElement
      <3>3. tasks' = tasks /\ owner' = owner /\ waiting' \subseteq waiting
        BY <2>4 DEF Finish, SpuriousWake
      <3> QED  BY <1>0, <1>2, <3>2, <3>3
    <2> QED  BY <1>5, <2>1, <2>2, <2>3, <2>4 DEF work
  <1>6. CASE enqueue
    <2>1. Coming' = Coming
      BY <1>6 DEF enqueue, Coming
    <2>2. Len(tasks') = Len(tasks) + 1
      BY <1>6 DEF enqueue, IInv, Shape
    <2> QED  BY <1>0, <1>2, <1>6, <2>1, <2>2 DEF enqueue
  <1>7. CASE NotifyOne
    <2>1. CASE waiting = {}
      BY <1>4, <1>7, <2>1 DEF NotifyOne
    <2>2. CASE waiting # {}
      <3>1. PICK t \in waiting : waiting' = waiting \ {t} /\ pc' = [pc EXCEPT ![t] = "lock"]
        BY <1>7, <2>2 DEF NotifyOne
      <3>2. Coming' = Coming \cup {t} /\ t \notin Coming
        BY <3>1 DEF Coming, IInv, Shape, ThreadsAgree
      <3>3. Cardinality(Coming') = Cardinality(Coming) + 1
        BY <3>2, FS_AddElement
      <3> QED  BY <1>0, <1>2, <1>7, <2>2, <3>3 DEF NotifyOne
    <2> QED  BY <2>1, <2>2
  <1>8. CASE (\E n \in Sizes : resize(n)) \/ Destroy \/ Join
    <2>1. CASE Join
      BY <1>4, <2>1 DEF Join, IInv, StopAgrees
    <2>2. CASE (\E n \in Sizes : resize(n)) \/ Destroy
      <3>1. Coming' = Coming /\ tasks' = tasks /\ waiting' = waiting /\ owner = "idle" /\ owner' = "kill"
        BY <2>2 DEF resize, Destroy, Coming
      <3> QED  BY <1>0, <1>2, <3>1
    <2> QED  BY <1>8, <2>1, <2>2
  <1>9. CASE KillLocked \/ NotifyAll
    BY <1>4, <1>9 DEF KillLocked, NotifyAll, IInv, StopAgrees
  <1>10. CASE AfterKill
    BY <1>4, <1>10 DEF AfterKill, IInv, QuietAfterKill, ThreadsAgree
  <1>11. CASE UNCHANGED vars
    <2>1. Coming' = Coming
      BY <1>11 DEF vars, Coming
    <2> QED  BY <1>2, <1>11, <2>1 DEF vars
  <1> QED  BY <1>5, <1>6, <1>7, <1>8, <1>9, <1>10, <1>11 DEF Next, InCall

(* While a thread sleeps, every queued task has a thread on its way to the *)
(* queue or a notification about to be sent (threadpool.hpp:29-34,88-89).  *)
THEOREM WakeupsKept == Spec => []NoLostWakeup
  <1>1. Init => NoLostWakeup
    BY DEF Init, NoLostWakeup
  <1>2. IInv /\ IInv' /\ NoLostWakeup /\ [Next]_vars => NoLostWakeup'
    BY WakeupStep
  <1> QED  BY <1>1, <1>2, InitInv, NextInv, PTL DEF Spec

-----------------------------------------------------------------------------
(* The games are played in the order of the schedule.                      *)

\* The tasks started and those still to start, in order.
All == started \o tasks

Increasing(seq) == \A i, j \in DOMAIN seq : i < j => seq[i] < seq[j]

HistoryTyped == started \in Seq(1..MaxTasks) /\ dropped \subseteq 1..MaxTasks

LEMMA RangeIs == \A f : Range(f) = {f[x] : x \in DOMAIN f}
  BY DEF Range

LEMMA Concatenated ==
    ASSUME NEW S, NEW s \in Seq(S), NEW t \in Seq(S)
    PROVE  /\ s \o t \in Seq(S)
           /\ Len(s \o t) = Len(s) + Len(t)
           /\ \A i \in DOMAIN s : (s \o t)[i] = s[i]
           /\ \A i \in DOMAIN t : (s \o t)[Len(s) + i] = t[i]
           /\ Range(s \o t) = Range(s) \cup Range(t)
  <1>1. /\ s \o t \in Seq(S)
        /\ Len(s \o t) = Len(s) + Len(t)
        /\ \A i \in DOMAIN s : (s \o t)[i] = s[i]
        /\ \A i \in DOMAIN t : (s \o t)[Len(s) + i] = t[i]
    OBVIOUS
  <1> DEFINE Of(seq) == {seq[i] : i \in DOMAIN seq}
  <1>2. Of(s) \subseteq Of(s \o t) /\ Of(t) \subseteq Of(s \o t)
    <2>1. /\ \A i \in DOMAIN s : i \in DOMAIN (s \o t)
          /\ \A i \in DOMAIN t : Len(s) + i \in DOMAIN (s \o t)
      BY <1>1
    <2> QED  BY <1>1, <2>1
  <1>3. ASSUME NEW k \in DOMAIN (s \o t)
        PROVE  (s \o t)[k] \in Of(s) \cup Of(t)
    <2>1. CASE k <= Len(s)
      BY <1>1, <2>1
    <2>2. CASE k > Len(s)
      <3>1. k - Len(s) \in DOMAIN t /\ k = Len(s) + (k - Len(s))
        BY <1>1, <2>2
      <3> QED  BY <1>1, <3>1
    <2> QED  BY <1>1, <2>1, <2>2
  <1>4. Range(s \o t) = Of(s \o t) /\ Range(s) = Of(s) /\ Range(t) = Of(t)
    BY RangeIs
  <1>5. Of(s \o t) \subseteq Of(s) \cup Of(t)
    BY <1>3
  <1> HIDE DEF Of
  <1> QED  BY <1>1, <1>2, <1>4, <1>5

\* Moving the head of the queue to the started tasks changes nothing in All.
LEMMA HeadMoved ==
    ASSUME NEW S, NEW s \in Seq(S), NEW t \in Seq(S), t # << >>
    PROVE  Append(s, Head(t)) \o Tail(t) = s \o t
  OBVIOUS

LEMMA OrderStep ==
    ASSUME IInv, HistoryTyped, InOrderOnce, [Next]_vars
    PROVE  HistoryTyped' /\ InOrderOnce'
  <1> USE ThreadPoolAssumption
  <1>1. /\ Increasing(All)
        /\ Range(All) \cap dropped = {}
        /\ Range(All) \cup dropped = 1..enqueued
    BY DEF InOrderOnce, Increasing, All
  <1>2. SUFFICES /\ HistoryTyped'
                 /\ Increasing(All')
                 /\ Range(All') \cap dropped' = {}
                 /\ Range(All') \cup dropped' = 1..enqueued'
    BY DEF InOrderOnce, Increasing, All
  <1>3. /\ tasks \in Seq(1..MaxTasks) /\ started \in Seq(1..MaxTasks)
        /\ enqueued \in 0..MaxTasks
    BY DEF IInv, Shape, HistoryTyped
  <1>4. CASE UNCHANGED <<tasks, started, dropped, enqueued>>
    BY <1>1, <1>4 DEF All, HistoryTyped
  <1>5. ASSUME NEW t \in Threads, Take(t)
        PROVE  UNCHANGED <<All, dropped, enqueued>> /\ HistoryTyped'
    <2>1. /\ tasks # << >> /\ tasks' = Tail(tasks) /\ started' = Append(started, Head(tasks))
          /\ UNCHANGED <<dropped, enqueued>>
      BY <1>5 DEF Take
    <2>2. Head(tasks) \in 1..MaxTasks
      BY <1>3, <2>1
    <2>3. All' = All
      BY <1>3, <2>1, HeadMoved DEF All
    <2> QED  BY <1>3, <2>1, <2>2, <2>3 DEF HistoryTyped
  <1>6. ASSUME enqueue
        PROVE  /\ HistoryTyped'
               /\ Increasing(All')
               /\ Range(All') \cap dropped' = {}
               /\ Range(All') \cup dropped' = 1..enqueued'
    <2> DEFINE task == <<enqueued + 1>>
    <2>1. /\ tasks' = tasks \o task /\ started' = started /\ dropped' = dropped
          /\ enqueued' = enqueued + 1 /\ enqueued + 1 \in 1..MaxTasks
      BY <1>3, <1>6 DEF enqueue
    <2>2. All \in Seq(1..MaxTasks) /\ task \in Seq(1..MaxTasks)
      BY <1>3, <2>1 DEF All
    <2>3. All' = All \o task
      BY <1>3, <2>1, <2>2 DEF All
    <2>4. /\ Len(All') = Len(All) + 1
          /\ \A i \in DOMAIN All : All'[i] = All[i]
          /\ All'[Len(All) + 1] = enqueued + 1
      BY <2>2, <2>3
    <2>5. Range(All') = Range(All) \cup {enqueued + 1}
      <3>1. Range(task) = {enqueued + 1}
        BY RangeIs
      <3> HIDE DEF task
      <3>2. Range(All \o task) = Range(All) \cup Range(task)
        BY <2>2, Concatenated
      <3> QED  BY <2>3, <3>1, <3>2
    <2>6. \A i \in DOMAIN All : All[i] \in 1..enqueued
      BY <1>1, <2>2, RangeIs
    <2>7. Increasing(All')
      <3>1. DOMAIN All' = DOMAIN All \cup {Len(All) + 1} /\ \A i \in DOMAIN All : i < Len(All) + 1
        BY <2>2, <2>3, <2>4
      <3> QED  BY <1>1, <1>3, <2>2, <2>4, <2>6, <3>1 DEF Increasing
    <2>8. enqueued + 1 \notin 1..enqueued /\ 1..(enqueued + 1) = 1..enqueued \cup {enqueued + 1}
      BY <1>3
    <2> QED  BY <1>1, <2>1, <2>5, <2>7, <2>8 DEF HistoryTyped
  <1>7. ASSUME KillLocked
        PROVE  /\ HistoryTyped'
               /\ Increasing(All')
               /\ Range(All') \cap dropped' = {}
               /\ Range(All') \cup dropped' = 1..enqueued'
    <2>1. /\ tasks' = << >> /\ started' = started /\ dropped' = dropped \cup Range(tasks)
          /\ enqueued' = enqueued
      BY <1>7 DEF KillLocked, IInv, StopAgrees
    <2>2. All' = started
      BY <1>3, <2>1 DEF All
    <2>3. /\ Range(All) = Range(started) \cup Range(tasks)
          /\ \A i \in DOMAIN started : All[i] = started[i]
          /\ \A i \in DOMAIN tasks : All[Len(started) + i] = tasks[i]
          /\ DOMAIN All = 1..(Len(started) + Len(tasks))
      BY <1>3, Concatenated DEF All
    <2>4. Range(started) \cap Range(tasks) = {}
      <3> SUFFICES ASSUME NEW i \in DOMAIN started, NEW j \in DOMAIN tasks
                   PROVE  started[i] # tasks[j]
        BY RangeIs
      <3>1. i \in DOMAIN All /\ Len(started) + j \in DOMAIN All /\ i < Len(started) + j
        BY <1>3, <2>3
      <3>2. started[i] < tasks[j]
        BY <1>1, <2>3, <3>1 DEF Increasing
      <3>3. started[i] \in Nat
        BY <1>3
      <3> QED  BY <3>2, <3>3
    <2>5. Increasing(started)
      <3> SUFFICES ASSUME NEW i \in DOMAIN started, NEW j \in DOMAIN started, i < j
                   PROVE  started[i] < started[j]
        BY DEF Increasing
      <3>1. i \in DOMAIN All /\ j \in DOMAIN All
        BY <1>3, <2>3
      <3> QED  BY <1>1, <2>3, <3>1 DEF Increasing
    <2>6. Range(tasks) \subseteq 1..MaxTasks
      BY <1>3, RangeIs
    <2> QED  BY <1>1, <2>1, <2>2, <2>3, <2>4, <2>5, <2>6 DEF HistoryTyped
  <1>8. ASSUME NEW t \in Threads, CheckStop(t) \/ Sleep(t) \/ Leave(t) \/ Finish(t) \/ SpuriousWake(t)
        PROVE  UNCHANGED <<tasks, started, dropped, enqueued>>
    BY <1>8 DEF CheckStop, Sleep, Leave, Finish, SpuriousWake
  <1>9. ASSUME NotifyOne \/ (\E n \in Sizes : resize(n)) \/ Destroy \/ NotifyAll \/ Join \/ AfterKill \/ UNCHANGED vars
        PROVE  UNCHANGED <<tasks, started, dropped, enqueued>>
    BY <1>9 DEF NotifyOne, resize, Destroy, NotifyAll, Join, AfterKill, vars
  <1> QED
    BY <1>1, <1>4, <1>5, <1>6, <1>7, <1>8, <1>9 DEF Next, work, InCall

LEMMA OrderInit == Init => HistoryTyped /\ InOrderOnce
  <1> SUFFICES ASSUME Init PROVE HistoryTyped /\ InOrderOnce
    OBVIOUS
  <1>1. started \o tasks = << >> /\ Range(<< >>) = {}
    BY RangeIs DEF Init
  <1> QED  BY <1>1 DEF Init, HistoryTyped, InOrderOnce

(* Tasks start in the order they were enqueued and at most once; none is   *)
(* lost, whatever threads, kills and resizes do (threadpool.hpp:29,62,91). *)
THEOREM GamesInOrder == Spec => []InOrderOnce
  <1>1. Init => HistoryTyped /\ InOrderOnce
    BY OrderInit
  <1>2. IInv /\ HistoryTyped /\ InOrderOnce /\ [Next]_vars => HistoryTyped' /\ InOrderOnce'
    BY OrderStep
  <1> QED  BY <1>1, <1>2, InitInv, NextInv, PTL DEF Spec

(* Type correctness (threadpool.hpp:99-105).                               *)
THEOREM PoolTyped == Spec => []TypeOK
  <1>1. IInv /\ HistoryTyped => TypeOK
    BY DEF IInv, Shape, ThreadsAgree, HistoryTyped, TypeOK, Phases, OwnerAt
  <1>2. Init => HistoryTyped /\ InOrderOnce
    BY OrderInit
  <1>3. IInv /\ HistoryTyped /\ InOrderOnce /\ [Next]_vars => HistoryTyped' /\ InOrderOnce'
    BY OrderStep
  <1> QED  BY <1>1, <1>2, <1>3, InitInv, NextInv, PTL DEF Spec

-----------------------------------------------------------------------------
(* The pool implements TaskPool.                                           *)

Phase ==
    CASE ~stop -> "open"
      [] stop /\ owner \in {"killed", "destroyed"} -> "closed"
      [] OTHER -> "closing"

LEMMA PoolStep ==
    ASSUME IInv, [Next]_vars
    PROVE  [PoolOfTasks!Next]_<<tasks, current, Phase>>
  <1> USE ThreadPoolAssumption DEF IInv, PoolOfTasks!Next
  <1>0. /\ Phase = IF ~stop THEN "open" ELSE IF owner \in {"killed", "destroyed"} THEN "closed" ELSE "closing"
        /\ Phase' = IF ~stop' THEN "open" ELSE IF owner' \in {"killed", "destroyed"} THEN "closed" ELSE "closing"
    BY DEF Phase
  <1> DEFINE same == tasks' = tasks /\ current' = current /\ Phase' = Phase
  <1>1. ASSUME NEW t \in Threads, Take(t)
        PROVE  PoolOfTasks!Start(t)
    BY <1>0, <1>1 DEF Take, PoolOfTasks!Start, ThreadsAgree
  <1>2. ASSUME NEW t \in Threads, Finish(t)
        PROVE  PoolOfTasks!Finish(t)
    BY <1>0, <1>2 DEF Finish, PoolOfTasks!Finish, ThreadsAgree
  <1>3. ASSUME NEW t \in Threads, CheckStop(t) \/ Sleep(t) \/ Leave(t) \/ SpuriousWake(t)
        PROVE  same
    BY <1>0, <1>3 DEF CheckStop, Sleep, Leave, SpuriousWake
  <1>4. ASSUME enqueue
        PROVE  PoolOfTasks!Submit(enqueued + 1) /\ enqueued + 1 \in 1..MaxTasks
    BY <1>0, <1>4 DEF enqueue, PoolOfTasks!Submit, Shape
  <1>5. ASSUME NotifyOne \/ (\E n \in Sizes : resize(n)) \/ Destroy \/ NotifyAll
        PROVE  same
    BY <1>0, <1>5 DEF NotifyOne, resize, Destroy, NotifyAll, StopAgrees
  <1>6. ASSUME KillLocked
        PROVE  PoolOfTasks!Kill
    BY <1>0, <1>6 DEF KillLocked, PoolOfTasks!Kill, StopAgrees
  <1>7. ASSUME Join
        PROVE  PoolOfTasks!Join
    <2>1. \A t \in Threads : current[t] = NoTask
      BY <1>7 DEF Join, HandlesKept, ThreadsAgree
    <2> QED  BY <1>0, <1>7, <2>1 DEF Join, PoolOfTasks!Join, StopAgrees
  <1>8. ASSUME AfterKill
        PROVE  PoolOfTasks!Reopen \/ same
    BY <1>0, <1>8 DEF AfterKill, PoolOfTasks!Reopen, StopAgrees
  <1>9. ASSUME UNCHANGED vars
        PROVE  same
    BY <1>9 DEF vars, Phase
  <1> QED
    BY <1>1, <1>2, <1>3, <1>4, <1>5, <1>6, <1>7, <1>8, <1>9 DEF Next, work, InCall

(* Through every interleaving of mutex, condition variable and stop flag   *)
(* the pool keeps the promises of the abstract one (threadpool.hpp:23-97). *)
THEOREM PoolOfTasksImplemented == Spec => ImplementsTaskPool
  <1>1. Init => PoolOfTasks!Init
    BY DEF Init, PoolOfTasks!Init
  <1>2. IInv /\ [Next]_vars => [PoolOfTasks!Next]_<<tasks, current, Phase>>
    BY PoolStep
  <1> QED
    BY <1>1, <1>2, InitInv, NextInv, PTL
    DEF Spec, ImplementsTaskPool, PoolOfTasks!Spec, Phase
=============================================================================
