--------------------------- MODULE Processes_proofs ---------------------------
(***************************************************************************)
(* For any number of workers, engines, games and restarts: no more than    *)
(* Slots engines are started at once and no free slot is slept through,    *)
(* wait(nullptr) leaves no other thread without the child it waits for,    *)
(* and no engine outlives the tester.                                      *)
(***************************************************************************)
EXTENDS Processes, FiniteSetTheorems, TLAPS

-----------------------------------------------------------------------------
(* The inductive invariant.                                                *)

States == {"none", "alive", "killed", "zombie", "reaped"}
Places == {"idle", "borrow", "acquire", "asleep", "spawn", "push", "hello", "release", "unwind", "thrown",
           "failed", "play", "unlist", "check", "kill", "wait", "respawn", "relist"}
MainPlaces == {"idle", "unlist", "check", "kill", "wait", "exit"}

\* Every variable has its type.
TypeOK ==
    /\ child \in [Pids -> States]
    /\ born \in 0..(MaxGames + MaxRestarts)
    /\ process_pid \in [Engines -> 0..born]
    /\ is_initalized \in [Engines -> BOOLEAN]
    /\ startup_error \in [Engines -> BOOLEAN]
    /\ initialized \in [Engines -> BOOLEAN]
    /\ process_list \in SUBSET Pids
    /\ current \in Nat
    /\ pc \in [Threads -> Places \cup MainPlaces]
    /\ pc[Main] \in MainPlaces
    /\ \A w \in Workers : pc[w] \in Places
    /\ uses \in [Threads -> Engines \cup {None}]
    /\ stop \in BOOLEAN /\ astray \in BOOLEAN
    /\ games \in 0..MaxGames /\ restarts \in 0..MaxRestarts /\ failures \in 0..MaxFailures

\* A thread has an engine where it needs one, no two threads have the same, and main takes one only after
\* the pool is joined.
Hands ==
    /\ \A w \in Workers : uses[w] = None <=> pc[w] \in {"idle", "borrow"}
    /\ \A t, u \in Threads : t # u /\ uses[t] = uses[u] => uses[t] = None
    /\ pc[Main] \notin {"idle", "exit"} => uses[Main] # None
    /\ (pc[Main] # "idle" \/ uses[Main] # None) =>
           (\A w \in Workers : Idle(w)) /\ (stop \/ games = MaxGames)

\* Every process started or about to be is one of a game or of a restart.
ToSpawn == {w \in Workers : pc[w] \in {"borrow", "acquire", "asleep", "spawn",
                                       "unlist", "check", "kill", "wait", "respawn"}}
Budget == born + Cardinality(ToSpawn) <= games + restarts

\* The threads between acquire and the destructor of AcquireSemaphore are those current_ counts.
Holders == {w \in Workers : pc[w] \in {"spawn", "push", "hello", "release", "unwind"}}
AtMostSlots == current = Cardinality(Holders) /\ current <= Slots

\* A pid is given once; an engine whose last init succeeded and that was not killed since has one of its own.
Runs(e) == is_initalized[e] /\ ~startup_error[e]
PidsGiven == \A p \in Pids : child[p] = "none" <=> p > born
PidsApart ==
    /\ \A e, f \in Engines : e # f /\ process_pid[e] = process_pid[f] => process_pid[e] = 0
    /\ \A e \in Engines : Runs(e) => process_pid[e] # 0

\* What a thread may rely on of its engine.
InUse ==
    /\ \A t \in Threads : pc[t] \in {"push", "relist", "hello", "check", "kill", "wait"} => Runs(uses[t])
    /\ \A w \in Workers : At(w, "play") => is_initalized[uses[w]]

\* An engine that was started once and is killed now is being restarted, or the end has come.
Restarting ==
    \A e \in Engines : initialized[e] /\ ~is_initalized[e] =>
        uses[Main] # None \/ \E w \in Workers : uses[w] = e /\ At(w, "respawn")

\* A signal sent to an engine was sent by a thread that now waits.
KillAwaited ==
    \A e \in Engines : Runs(e) /\ child[process_pid[e]] = "killed" => \E t \in Threads : uses[t] = e /\ At(t, "wait")

PidsKept == PidsGiven /\ PidsApart /\ InUse /\ Restarting /\ KillAwaited

\* A living engine is in process_list, unless a thread is about to list or to kill it.
Followed(p) == \E t \in Threads : /\ uses[t] # None /\ process_pid[uses[t]] = p
                                  /\ pc[t] \in {"push", "relist", "check", "kill"}
Tracked == \A p \in Pids : child[p] = "alive" => (p \in process_list \/ Followed(p)) /\ ~At(Main, "exit")

\* The threads that will take a dead child, and the pids whose death nobody has noticed yet: for the others
\* there are as many as threads.
Claims == {t \in Threads : At(t, "wait") \/ (At(t, "kill") /\ child[process_pid[uses[t]]] # "alive")}
Own == {process_pid[e] : e \in {f \in Engines : Runs(f) /\ \A t \in Claims : uses[t] # f}}
Covered == astray \/ Cardinality(Claims) <= Cardinality(Dead \ Own)

IInv == TypeOK /\ Hands /\ Budget /\ AtMostSlots /\ NoIdleSlot /\ PidsKept /\ Tracked /\ Covered

-----------------------------------------------------------------------------
(* The steps, each worker's under its name and killProcess for all threads. *)

LEMMA Finite ==
    /\ IsFiniteSet(Workers) /\ IsFiniteSet(Threads) /\ IsFiniteSet(Pids)
    /\ Workers \subseteq Threads /\ Main \in Threads /\ \A t \in Threads : t # Main => t \in Workers
  <1>1. IsFiniteSet(Workers \cup {Main})
    BY ProcessesAssumption, FS_AddElement
  <1>2. IsFiniteSet(1..(MaxGames + MaxRestarts))
    BY ProcessesAssumption, FS_Interval
  <1>3. QED  BY <1>1, <1>2, ProcessesAssumption DEF Threads, Pids

\* Where a thread goes on after killProcess.
After(t) == IF t = Main THEN "idle" ELSE "respawn"

Step ==
    \/ \E w \in Workers :
         \/ Begin(w) \/ Borrow(w) \/ Acquire(w) \/ Hello(w) \/ Release(w) \/ Command(w)
         \/ EndGame(w) \/ StartFails(w) \/ StartThrows(w)
         \/ Spawn(w, "spawn", "push") \/ SpawnFails(w, "spawn", "release") \/ Push(w, "push", "hello")
         \/ Spawn(w, "respawn", "relist") \/ SpawnFails(w, "respawn", "play") \/ Push(w, "relist", "play")
    \/ \E t \in Threads : Unlist(t, After(t)) \/ Check(t, After(t)) \/ Kill(t) \/ Wait(t, After(t))
    \/ \E e \in Engines : Destroy(e)
    \/ stopProcesses
    \/ \E p \in Pids : Exits(p) \/ Dies(p)
    \/ Stop
    \/ UNCHANGED vars

LEMMA Steps ==
    ASSUME [Next]_vars
    PROVE  Step
  <1>1. ASSUME NEW w \in Workers, killProcess(w, "respawn")  PROVE Step
    <2>1. w \in Threads /\ After(w) = "respawn"
      BY Finite, ProcessesAssumption DEF After
    <2>2. QED  BY <1>1, <2>1 DEF killProcess, Step
  <1>2. ASSUME killProcess(Main, "idle")  PROVE Step
    <2>1. Main \in Threads /\ After(Main) = "idle"
      BY Finite DEF After
    <2>2. QED  BY <1>2, <2>1 DEF killProcess, Step
  <1>3. ASSUME NEW w \in Workers, Worker(w)  PROVE Step
    BY <1>1, <1>3 DEF Worker, start, restart, Step
  <1>4. ASSUME main  PROVE Step
    BY <1>2, <1>4 DEF main, Step
  <1>5. QED  BY <1>3, <1>4 DEF Next, Step

-----------------------------------------------------------------------------
(* Types, and who holds which engine.                                      *)

\* A thread at one of these places has an engine.
LEMMA InHand ==
    ASSUME TypeOK, Hands, NEW t \in Threads, pc[t] \notin {"idle", "borrow", "exit"}
    PROVE  uses[t] \in Engines /\ uses[t] # None
  BY Finite, ProcessesAssumption DEF TypeOK, Hands

\* A process can be started: there is a pid for it.
LEMMA RoomToSpawn ==
    ASSUME TypeOK, Budget, NEW w \in Workers, pc[w] \in {"spawn", "respawn"}
    PROVE  born + 1 \in Pids /\ born + 1 <= MaxGames + MaxRestarts
  <1>1. IsFiniteSet(ToSpawn)
    BY Finite, FS_Subset DEF ToSpawn
  <1>2. Cardinality(ToSpawn) \in Nat /\ (Cardinality(ToSpawn) = 0 <=> ToSpawn = {})
    BY <1>1, FS_CardinalityType, FS_EmptySet
  <1>3. w \in ToSpawn
    BY DEF ToSpawn
  <1>4. QED  BY <1>2, <1>3, ProcessesAssumption DEF TypeOK, Budget, Pids

LEMMA HeldSlot ==
    ASSUME AtMostSlots, NEW w \in Workers, pc[w] \in {"release", "unwind"}
    PROVE  current \in Nat \ {0} /\ current - 1 \in Nat
  <1>1. IsFiniteSet(Holders)
    BY Finite, FS_Subset DEF Holders
  <1>2. Cardinality(Holders) \in Nat /\ (Cardinality(Holders) = 0 <=> Holders = {})
    BY <1>1, FS_CardinalityType, FS_EmptySet
  <1>3. QED  BY <1>2 DEF AtMostSlots, Holders

LEMMA ReapType ==
    ASSUME TypeOK, NEW p, Reap(p)
    PROVE  child' \in [Pids -> States]
  BY DEF TypeOK, Reap, States

LEMMA TypeStep ==
    ASSUME TypeOK, Hands, Budget, AtMostSlots, PidsKept, Step
    PROVE  TypeOK'
  <1> USE DEF Places, MainPlaces, Go, At, kernel, engine, counters
  <1>1. CASE UNCHANGED vars
    BY <1>1 DEF TypeOK, vars
  <1>2. ASSUME NEW w \in Workers, Begin(w) \/ Borrow(w) \/ EndGame(w) \/ StartFails(w) \/ StartThrows(w) \/ Acquire(w)
        PROVE  TypeOK'
    <2>1. CASE Begin(w)
      BY <2>1, Finite, ProcessesAssumption DEF TypeOK, Begin
    <2>2. CASE Borrow(w)
      BY <2>2, Finite, ProcessesAssumption DEF TypeOK, Borrow
    <2>3. CASE Acquire(w)
      BY <2>3, Finite, ProcessesAssumption DEF TypeOK, Acquire
    <2>4. CASE EndGame(w) \/ StartFails(w) \/ StartThrows(w)
      BY <2>4, Finite, ProcessesAssumption DEF TypeOK, EndGame, StartFails, StartThrows, Return
    <2>5. QED  BY <1>2, <2>1, <2>2, <2>3, <2>4
  <1>3. ASSUME NEW w \in Workers, Hello(w) \/ Command(w)
        PROVE  TypeOK'
    <2>1. uses[w] \in Engines
      BY <1>3, InHand, Finite DEF Hello, Command
    <2>2. child' \in [Pids -> States]
      BY <1>3, ReapType DEF Hello, Command, Poll
    <2>3. QED  BY <1>3, <2>1, <2>2, Finite, ProcessesAssumption DEF TypeOK, Hello, Command, Poll
  <1>4. ASSUME NEW w \in Workers, Release(w)
        PROVE  TypeOK'
    <2>1. current' \in Nat
      BY <1>4, HeldSlot DEF Release
    <2>2. Started(w) \in Places
      BY DEF Started
    <2>3. PICK woken \in SUBSET Sleeping :
            pc' = [t \in Threads |-> IF t = w THEN Started(w) ELSE IF t \in woken THEN "acquire" ELSE pc[t]]
      BY <1>4 DEF Release
    <2>4. woken \subseteq Workers /\ Main # w /\ Main \notin woken
      BY ProcessesAssumption DEF Sleeping
    <2>5. pc' \in [Threads -> Places \cup MainPlaces] /\ pc'[Main] = pc[Main] /\ \A u \in Workers : pc'[u] \in Places
      BY <2>2, <2>3, <2>4, Finite DEF TypeOK
    <2>6. QED  BY <1>4, <2>1, <2>5 DEF TypeOK, Release
  <1>5. ASSUME NEW w \in Workers, NEW at \in {"spawn", "respawn"}, NEW next \in {"push", "relist"}, Spawn(w, at, next)
        PROVE  TypeOK'
    <2>1. uses[w] \in Engines /\ born + 1 \in Pids /\ born + 1 <= MaxGames + MaxRestarts
      BY <1>5, InHand, RoomToSpawn, Finite DEF Spawn
    <2>2. born \in Nat /\ MaxGames + MaxRestarts \in Nat
      BY ProcessesAssumption DEF TypeOK
    <2>3. process_pid' \in [Engines -> 0..(born + 1)]
      BY <1>5, <2>1, <2>2 DEF TypeOK, Spawn
    <2>4. QED  BY <1>5, <2>1, <2>2, <2>3, Finite, ProcessesAssumption DEF TypeOK, Spawn, States
  <1>6. ASSUME NEW w \in Workers, NEW at \in {"spawn", "respawn"}, NEW next \in {"release", "play"}, SpawnFails(w, at, next)
        PROVE  TypeOK'
    <2>1. uses[w] \in Engines
      BY <1>6, InHand, Finite DEF SpawnFails
    <2>2. QED  BY <1>6, <2>1, Finite, ProcessesAssumption DEF TypeOK, SpawnFails
  <1>7. ASSUME NEW w \in Workers, NEW at \in {"push", "relist"}, NEW next \in {"hello", "play"}, Push(w, at, next)
        PROVE  TypeOK'
    <2>1. uses[w] \in Engines /\ Runs(uses[w])
      BY <1>7, InHand, Finite DEF Push, PidsKept, InUse
    <2>2. process_pid[uses[w]] \in Pids
      BY <2>1, ProcessesAssumption DEF TypeOK, PidsKept, PidsApart, Pids
    <2>3. QED  BY <1>7, <2>2, Finite, ProcessesAssumption DEF TypeOK, Push
  <1>8. ASSUME NEW t \in Threads, Unlist(t, After(t))
        PROVE  TypeOK'
    <2>1. is_initalized' \in [Engines -> BOOLEAN] /\ process_list' \in SUBSET Pids
      BY <1>8 DEF TypeOK, Unlist
    <2>2. pc' \in [Threads -> Places \cup MainPlaces] /\ pc'[Main] \in MainPlaces /\ \A w \in Workers : pc'[w] \in Places
      BY <1>8, Finite, ProcessesAssumption DEF TypeOK, Unlist, After
    <2>3. QED  BY <1>8, <2>1, <2>2 DEF TypeOK, Unlist
  <1>9. ASSUME NEW t \in Threads, Check(t, After(t)) \/ Kill(t) \/ Wait(t, After(t))
        PROVE  TypeOK'
    <2>1. child' \in [Pids -> States]
      <3>1. CASE Check(t, After(t))
        BY <3>1, ReapType DEF Check
      <3>2. CASE Kill(t)
        BY <3>2 DEF Kill, TypeOK, States
      <3>3. CASE Wait(t, After(t))
        <4>1. UNCHANGED child \/ \E p \in Pids : Reap(p)
          BY <3>3 DEF Wait, Reap
        <4>2. ASSUME NEW p \in Pids, Reap(p)  PROVE child' \in [Pids -> States]
          BY <4>2, ReapType
        <4>3. QED  BY <4>1, <4>2 DEF TypeOK, Reap
      <3>4. QED  BY <1>9, <3>1, <3>2, <3>3
    <2>2. is_initalized' \in [Engines -> BOOLEAN]
      BY <1>9 DEF Check, Kill, Wait, TypeOK
    <2>3. QED  BY <1>9, <2>1, <2>2, Finite, ProcessesAssumption DEF TypeOK, Check, Kill, Wait, After
  <1>10. ASSUME NEW e \in Engines, Destroy(e)
        PROVE  TypeOK'
    <2>1. child' \in [Pids -> States]
      BY <1>10, ReapType DEF Destroy, Poll, TypeOK
    <2>2. QED  BY <1>10, <2>1, Finite, ProcessesAssumption DEF TypeOK, Destroy, Poll
  <1>11. CASE stopProcesses
    BY <1>11, Finite, ProcessesAssumption DEF TypeOK, stopProcesses, States
  <1>12. ASSUME NEW p \in Pids, Exits(p) \/ Dies(p)
         PROVE  TypeOK'
    BY <1>12 DEF TypeOK, Exits, Dies, States
  <1>13. CASE Stop
    BY <1>13 DEF TypeOK, Stop
  <1>14. QED  BY <1>1, <1>2, <1>3, <1>4, <1>5, <1>6, <1>7, <1>8, <1>9, <1>10, <1>11, <1>12, <1>13 DEF Step

LEMMA HandsStep ==
    ASSUME TypeOK, Hands, Step
    PROVE  Hands'
  <1> USE Finite, ProcessesAssumption DEF Go, At, Idle, engine, counters
  <1>1. CASE UNCHANGED vars
    BY <1>1 DEF Hands, vars
  <1>2. ASSUME NEW w \in Workers, Begin(w)
        PROVE  Hands'
    BY <1>2 DEF TypeOK, Hands, Begin
  <1>3. ASSUME NEW w \in Workers, Borrow(w)
        PROVE  Hands'
    <2>1. PICK e \in Engines : /\ \A t \in Threads : uses[t] # e
                               /\ uses' = [uses EXCEPT ![w] = e]
                               /\ Go(w, IF initialized[e] THEN "play" ELSE "acquire")
      BY <1>3 DEF Borrow
    <2>2. QED  BY <1>3, <2>1 DEF TypeOK, Hands, Borrow
  <1>4. ASSUME NEW w \in Workers, EndGame(w) \/ StartFails(w) \/ StartThrows(w)
        PROVE  Hands'
    BY <1>4 DEF TypeOK, Hands, EndGame, StartFails, StartThrows, Return
  <1>5. ASSUME NEW w \in Workers, Acquire(w)
        PROVE  Hands'
    BY <1>5 DEF TypeOK, Hands, Acquire
  <1>6. ASSUME NEW w \in Workers, Hello(w) \/ Command(w)
        PROVE  Hands'
    BY <1>6 DEF TypeOK, Hands, Hello, Command
  <1>7. ASSUME NEW w \in Workers, Release(w)
        PROVE  Hands'
    <2>1. PICK woken \in SUBSET Sleeping :
            pc' = [t \in Threads |-> IF t = w THEN Started(w) ELSE IF t \in woken THEN "acquire" ELSE pc[t]]
      BY <1>7 DEF Release
    <2>2. \A u \in woken : u \in Workers /\ pc[u] = "asleep"
      BY DEF Sleeping
    <2>3. Started(w) \notin {"idle", "borrow"}
      BY DEF Started
    <2>4. \A u \in Workers : pc'[u] \in {"idle", "borrow"} <=> pc[u] \in {"idle", "borrow"}
      BY <1>7, <2>1, <2>2, <2>3 DEF Release, TypeOK
    <2>5. pc'[Main] = pc[Main] /\ (pc[Main] # "idle" \/ uses[Main] # None => FALSE)
      BY <1>7, <2>1, <2>2 DEF Release, TypeOK, Hands
    <2>6. QED  BY <1>7, <2>4, <2>5 DEF Hands, Release
  <1>8. ASSUME NEW w \in Workers, NEW at \in {"spawn", "respawn"}, NEW next \in {"push", "relist", "release", "play"},
               Spawn(w, at, next) \/ SpawnFails(w, at, next)
        PROVE  Hands'
    BY <1>8 DEF TypeOK, Hands, Spawn, SpawnFails
  <1>9. ASSUME NEW w \in Workers, NEW at \in {"push", "relist"}, NEW next \in {"hello", "play"}, Push(w, at, next)
        PROVE  Hands'
    BY <1>9 DEF TypeOK, Hands, Push
  <1>10. ASSUME NEW t \in Threads, Unlist(t, After(t)) \/ Check(t, After(t)) \/ Kill(t) \/ Wait(t, After(t))
         PROVE  Hands'
    <2>1. PICK next \in {"check", "kill", "wait", After(t)} : Go(t, next)
      BY <1>10 DEF Unlist, Check, Kill, Wait
    <2>2. UNCHANGED <<uses, stop, games>> /\ pc[t] \in {"unlist", "check", "kill", "wait"}
      BY <1>10 DEF Unlist, Check, Kill, Wait
    <2>3. next # "borrow" /\ next # "exit" /\ (next = "idle" => t = Main)
      BY <2>1 DEF After
    <2>4. QED  BY <2>1, <2>2, <2>3 DEF TypeOK, Hands
  <1>11. ASSUME NEW e \in Engines, Destroy(e)
         PROVE  Hands'
    <2>1. \A w \in Workers : uses[w] = None
      BY <1>11 DEF Destroy, Hands
    <2>2. \A w \in Workers : uses'[w] = None /\ pc'[w] = "idle"
      BY <1>11, <2>1 DEF Destroy, TypeOK
    <2>3. uses'[Main] = e /\ pc'[Main] = "unlist"
      BY <1>11 DEF Destroy, TypeOK
    <2>4. QED  BY <1>11, <2>2, <2>3 DEF Hands, Destroy
  <1>12. CASE stopProcesses
    BY <1>12 DEF TypeOK, Hands, stopProcesses
  <1>13. ASSUME NEW p \in Pids, Exits(p) \/ Dies(p)
         PROVE  Hands'
    BY <1>13 DEF Hands, Exits, Dies
  <1>14. CASE Stop
    BY <1>14 DEF Hands, Stop
  <1>15. QED
    BY <1>1, <1>2, <1>3, <1>4, <1>5, <1>6, <1>7, <1>8, <1>9, <1>10, <1>11, <1>12, <1>13, <1>14 DEF Step

-----------------------------------------------------------------------------
(* Counting: what the steps add to a set of workers and take from it.      *)

LEMMA Counted ==
    ASSUME NEW S \in SUBSET Workers
    PROVE  IsFiniteSet(S) /\ Cardinality(S) \in Nat /\ (Cardinality(S) = 0 <=> S = {})
  <1>1. IsFiniteSet(S)
    BY Finite, FS_Subset
  <1>2. QED  BY <1>1, FS_CardinalityType, FS_EmptySet

LEMMA OneMore ==
    ASSUME NEW S \in SUBSET Workers, NEW T \in SUBSET Workers, NEW w, w \notin S, T \subseteq S \cup {w}
    PROVE  Cardinality(T) <= Cardinality(S) + 1 /\ (w \in T /\ S \subseteq T => Cardinality(T) = Cardinality(S) + 1)
  <1>1. IsFiniteSet(S) /\ IsFiniteSet(T) /\ Cardinality(S) \in Nat /\ Cardinality(T) \in Nat
    BY Counted
  <1>2. IsFiniteSet(S \cup {w}) /\ Cardinality(S \cup {w}) = Cardinality(S) + 1
    BY <1>1, FS_AddElement
  <1>3. Cardinality(T) <= Cardinality(S \cup {w})
    BY <1>2, FS_Subset
  <1>4. w \in T /\ S \subseteq T => T = S \cup {w}
    OBVIOUS
  <1>5. QED  BY <1>1, <1>2, <1>3, <1>4

LEMMA NoMore ==
    ASSUME NEW S \in SUBSET Workers, NEW T \in SUBSET S
    PROVE  Cardinality(T) <= Cardinality(S)
  BY Counted, FS_Subset

LEMMA BudgetKept ==
    ASSUME TypeOK, TypeOK', Budget, ToSpawn' \subseteq ToSpawn, UNCHANGED <<born, games, restarts>>
    PROVE  Budget'
  <1>1. ToSpawn \in SUBSET Workers /\ ToSpawn' \in SUBSET Workers
    BY DEF ToSpawn
  <1>2. Cardinality(ToSpawn) \in Nat /\ Cardinality(ToSpawn') \in Nat /\ Cardinality(ToSpawn') <= Cardinality(ToSpawn)
    BY <1>1, Counted, NoMore
  <1>3. QED  BY <1>2 DEF Budget, TypeOK

LEMMA BudgetStep ==
    ASSUME TypeOK, TypeOK', Hands, Budget, Step
    PROVE  Budget'
  <1> USE Finite, ProcessesAssumption DEF Go, At, counters, kernel
  <1>0. ToSpawn \in SUBSET Workers /\ ToSpawn' \in SUBSET Workers
    BY DEF ToSpawn
  <1>1. CASE UNCHANGED vars
    BY <1>1, BudgetKept DEF vars, ToSpawn
  <1>2. ASSUME NEW w \in Workers, Begin(w)
        PROVE  Budget'
    <2>1. w \notin ToSpawn /\ ToSpawn' \subseteq ToSpawn \cup {w}
      BY <1>2 DEF Begin, ToSpawn, TypeOK
    <2>2. Cardinality(ToSpawn') <= Cardinality(ToSpawn) + 1 /\ Cardinality(ToSpawn) \in Nat /\ Cardinality(ToSpawn') \in Nat
      BY <1>0, <2>1, OneMore, Counted
    <2>3. QED  BY <1>2, <2>2 DEF Budget, Begin, TypeOK
  <1>3. ASSUME NEW w \in Workers, Command(w)
        PROVE  Budget'
    <2>1. CASE UNCHANGED <<pc, restarts>>
      BY <1>3, <2>1, BudgetKept DEF ToSpawn, Command
    <2>2. CASE restarts' = restarts + 1 /\ Go(w, "unlist")
      <3>1. w \notin ToSpawn /\ ToSpawn' \subseteq ToSpawn \cup {w}
        BY <1>3, <2>2 DEF Command, ToSpawn, TypeOK
      <3>2. Cardinality(ToSpawn') <= Cardinality(ToSpawn) + 1 /\ Cardinality(ToSpawn) \in Nat /\ Cardinality(ToSpawn') \in Nat
        BY <1>0, <3>1, OneMore, Counted
      <3>3. QED  BY <1>3, <2>2, <3>2 DEF Budget, Command, TypeOK
    <2>3. QED  BY <1>3, <2>1, <2>2 DEF Command
  <1>4. ASSUME NEW w \in Workers, NEW at \in {"spawn", "respawn"}, NEW next \in {"push", "relist"}, Spawn(w, at, next)
        PROVE  Budget'
    <2>1. w \notin ToSpawn' /\ w \in ToSpawn /\ ToSpawn \subseteq ToSpawn' \cup {w} /\ ToSpawn' \subseteq ToSpawn
      BY <1>4 DEF Spawn, ToSpawn, TypeOK
    <2>2. Cardinality(ToSpawn) = Cardinality(ToSpawn') + 1 /\ Cardinality(ToSpawn) \in Nat /\ Cardinality(ToSpawn') \in Nat
      BY <1>0, <2>1, OneMore, Counted
    <2>3. QED  BY <1>4, <2>2 DEF Budget, Spawn, TypeOK
  <1>5. ASSUME NEW w \in Workers, Release(w)
        PROVE  Budget'
    <2>1. PICK woken \in SUBSET Sleeping :
            pc' = [t \in Threads |-> IF t = w THEN Started(w) ELSE IF t \in woken THEN "acquire" ELSE pc[t]]
      BY <1>5 DEF Release
    <2>2. Started(w) \in {"thrown", "play", "failed"}
      BY DEF Started
    <2>3. ToSpawn' \subseteq ToSpawn
      BY <2>1, <2>2 DEF ToSpawn, Sleeping, TypeOK
    <2>4. QED  BY <1>5, <2>3, BudgetKept DEF Release
  <1>6. ASSUME NEW t \in Threads, Unlist(t, After(t)) \/ Check(t, After(t)) \/ Kill(t) \/ Wait(t, After(t))
        PROVE  Budget'
    <2>1. PICK next \in {"check", "kill", "wait", After(t)} : Go(t, next)
      BY <1>6 DEF Unlist, Check, Kill, Wait
    <2>2. pc[t] \in {"unlist", "check", "kill", "wait"} /\ UNCHANGED <<born, games, restarts>>
      BY <1>6 DEF Unlist, Check, Kill, Wait
    <2>3. ToSpawn' \subseteq ToSpawn
      BY <2>1, <2>2 DEF ToSpawn, TypeOK
    <2>4. QED  BY <2>2, <2>3, BudgetKept
  <1>7. ASSUME NEW w \in Workers,
               \/ Borrow(w) \/ Acquire(w) \/ Hello(w) \/ EndGame(w) \/ StartFails(w) \/ StartThrows(w)
               \/ SpawnFails(w, "spawn", "release") \/ Push(w, "push", "hello")
               \/ SpawnFails(w, "respawn", "play") \/ Push(w, "relist", "play")
        PROVE  Budget'
    <2>1. UNCHANGED <<born, games, restarts>>
      BY <1>7 DEF Borrow, Acquire, Hello, EndGame, StartFails, StartThrows, Return, SpawnFails, Push
    <2>2. ToSpawn' \subseteq ToSpawn
      <3>1. CASE Borrow(w) \/ Acquire(w) \/ Hello(w)
        BY <3>1 DEF Borrow, Acquire, Hello, ToSpawn, TypeOK
      <3>2. CASE EndGame(w) \/ StartFails(w) \/ StartThrows(w)
        BY <3>2 DEF EndGame, StartFails, StartThrows, Return, ToSpawn, TypeOK
      <3>3. QED  BY <1>7, <3>1, <3>2 DEF SpawnFails, Push, ToSpawn, TypeOK
    <2>3. QED  BY <2>1, <2>2, BudgetKept
  <1>8. ASSUME (\E e \in Engines : Destroy(e)) \/ stopProcesses \/ (\E p \in Pids : Exits(p) \/ Dies(p)) \/ Stop
        PROVE  Budget'
    <2>1. UNCHANGED <<born, games, restarts>>
      BY <1>8 DEF Destroy, stopProcesses, Exits, Dies, Stop
    <2>2. ToSpawn' \subseteq ToSpawn
      BY <1>8 DEF Destroy, stopProcesses, Exits, Dies, Stop, ToSpawn, TypeOK
    <2>3. QED  BY <2>1, <2>2, BudgetKept
  <1>9. QED
    BY <1>1, <1>2, <1>3, <1>4, <1>5, <1>6, <1>7, <1>8 DEF Step


-----------------------------------------------------------------------------
(* The semaphore.                                                          *)

Acquirers == {w \in Workers : At(w, "acquire")}

\* The steps that leave the semaphore alone.
LEMMA SemaphoreLeft ==
    ASSUME TypeOK, Hands, Step,
           \A w \in Workers : ~Begin(w) /\ ~Borrow(w) /\ ~Acquire(w) /\ ~Release(w)
    PROVE  UNCHANGED <<current, Holders, Sleeping, Acquirers>>
  <1> USE Finite, ProcessesAssumption DEF Go, At, Holders, Sleeping, Acquirers, TypeOK
  <1>1. CASE UNCHANGED vars
    BY <1>1 DEF vars
  <1>2. ASSUME NEW w \in Workers,
               \/ Hello(w) \/ Command(w) \/ EndGame(w) \/ StartFails(w) \/ StartThrows(w)
               \/ Spawn(w, "spawn", "push") \/ SpawnFails(w, "spawn", "release") \/ Push(w, "push", "hello")
               \/ Spawn(w, "respawn", "relist") \/ SpawnFails(w, "respawn", "play") \/ Push(w, "relist", "play")
        PROVE  UNCHANGED <<current, Holders, Sleeping, Acquirers>>
    <2>1. CASE Hello(w)
      BY <2>1 DEF Hello
    <2>2. CASE Command(w)
      BY <2>2 DEF Command
    <2>3. CASE EndGame(w) \/ StartFails(w) \/ StartThrows(w)
      BY <2>3 DEF EndGame, StartFails, StartThrows, Return
    <2>4. CASE Spawn(w, "spawn", "push") \/ SpawnFails(w, "spawn", "release") \/ Push(w, "push", "hello")
      BY <2>4 DEF Spawn, SpawnFails, Push
    <2>5. CASE Spawn(w, "respawn", "relist") \/ SpawnFails(w, "respawn", "play") \/ Push(w, "relist", "play")
      BY <2>5 DEF Spawn, SpawnFails, Push
    <2>6. QED  BY <1>2, <2>1, <2>2, <2>3, <2>4, <2>5
  <1>3. ASSUME NEW t \in Threads, Unlist(t, After(t)) \/ Check(t, After(t)) \/ Kill(t) \/ Wait(t, After(t))
        PROVE  UNCHANGED <<current, Holders, Sleeping, Acquirers>>
    <2>1. PICK next \in {"check", "kill", "wait", "respawn", "idle"} : Go(t, next)
      BY <1>3 DEF Unlist, Check, Kill, Wait, After
    <2>2. pc[t] \in {"unlist", "check", "kill", "wait"} /\ UNCHANGED current
      BY <1>3 DEF Unlist, Check, Kill, Wait
    <2>3. QED  BY <2>1, <2>2
  <1>4. ASSUME (\E e \in Engines : Destroy(e)) \/ stopProcesses \/ (\E p \in Pids : Exits(p) \/ Dies(p)) \/ Stop
        PROVE  UNCHANGED <<current, Holders, Sleeping, Acquirers>>
    BY <1>4 DEF Destroy, stopProcesses, Exits, Dies, Stop
  <1>5. QED
    BY <1>1, <1>2, <1>3, <1>4 DEF Step

\* What the destructor of AcquireSemaphore does to the semaphore.
LEMMA ReleaseMoves ==
    ASSUME TypeOK, NEW w \in Workers, Release(w)
    PROVE  /\ w \in Holders /\ Holders' = Holders \ {w}
           /\ Sleeping' \subseteq Sleeping
           /\ Sleeping # {} => \E u : u \notin Acquirers /\ Acquirers' = Acquirers \cup {u}
  <1> USE Finite, ProcessesAssumption DEF At, Holders, Sleeping, Acquirers, TypeOK
  <1>1. PICK woken \in SUBSET Sleeping :
          /\ Cardinality(woken) = IF Sleeping = {} THEN 0 ELSE 1
          /\ pc' = [t \in Threads |-> IF t = w THEN Started(w) ELSE IF t \in woken THEN "acquire" ELSE pc[t]]
    BY DEF Release
  <1>2. Started(w) \in {"thrown", "play", "failed"}
    BY DEF Started
  <1>3. w \notin Sleeping /\ w \in Holders /\ w \notin Acquirers
    BY DEF Release
  <1>4. Holders' = Holders \ {w} /\ Sleeping' \subseteq Sleeping /\ Acquirers' = Acquirers \cup woken
    BY <1>1, <1>2, <1>3
  <1>5. Sleeping # {} => \E u : woken = {u}
    <2>1. IsFiniteSet(woken)
      BY Counted
    <2>2. QED  BY <1>1, <2>1, FS_Singleton
  <1>6. QED  BY <1>3, <1>4, <1>5

LEMMA SlotsStep ==
    ASSUME TypeOK, TypeOK', Hands, AtMostSlots, Step
    PROVE  AtMostSlots'
  <1> USE Finite, ProcessesAssumption
  <1>0. Holders \in SUBSET Workers /\ Holders' \in SUBSET Workers
    BY DEF Holders
  <1>1. ASSUME NEW w \in Workers, Begin(w) \/ Borrow(w)
        PROVE  UNCHANGED <<current, Holders>>
    BY <1>1 DEF Begin, Borrow, Holders, Go, At, TypeOK
  <1>2. ASSUME NEW w \in Workers, Acquire(w)
        PROVE  AtMostSlots'
    <2>1. CASE current < Slots
      <3>1. current' = current + 1 /\ w \notin Holders /\ Holders' = Holders \cup {w}
        BY <1>2, <2>1 DEF Acquire, Holders, Go, At, TypeOK
      <3>2. Cardinality(Holders') = Cardinality(Holders) + 1
        BY <1>0, <3>1, OneMore
      <3>3. QED  BY <2>1, <3>1, <3>2 DEF AtMostSlots, TypeOK
    <2>2. CASE ~(current < Slots)
      <3>1. UNCHANGED <<current, Holders>>
        BY <1>2, <2>2 DEF Acquire, Holders, Go, At, TypeOK
      <3>2. QED  BY <3>1 DEF AtMostSlots
    <2>3. QED  BY <2>1, <2>2
  <1>3. ASSUME NEW w \in Workers, Release(w)
        PROVE  AtMostSlots'
    <2>1. w \in Holders /\ Holders' = Holders \ {w}
      BY <1>3, ReleaseMoves
    <2>2. Cardinality(Holders) = Cardinality(Holders') + 1
      <3>1. w \notin Holders' /\ Holders \subseteq Holders' \cup {w} /\ Holders' \subseteq Holders
        BY <2>1
      <3>2. QED  BY <1>0, <2>1, <3>1, OneMore
    <2>3. current' = current - 1 /\ Cardinality(Holders') \in Nat
      BY <1>0, <1>3, Counted DEF Release
    <2>4. QED  BY <2>2, <2>3 DEF AtMostSlots, TypeOK
  <1>4. CASE \A w \in Workers : ~Begin(w) /\ ~Borrow(w) /\ ~Acquire(w) /\ ~Release(w)
    BY <1>4, SemaphoreLeft DEF AtMostSlots
  <1>5. QED  BY <1>1, <1>2, <1>3, <1>4 DEF AtMostSlots

LEMMA NoIdleStep ==
    ASSUME TypeOK, TypeOK', Hands, AtMostSlots, NoIdleSlot, Step
    PROVE  NoIdleSlot'
  <1> USE Finite, ProcessesAssumption
  <1>0. /\ Acquirers \in SUBSET Workers /\ Acquirers' \in SUBSET Workers
        /\ Cardinality(Acquirers) \in Nat /\ Cardinality(Acquirers') \in Nat /\ current \in Nat /\ current' \in Nat
    <2>1. Acquirers \in SUBSET Workers /\ Acquirers' \in SUBSET Workers
      BY DEF Acquirers
    <2>2. QED  BY <2>1, Counted DEF TypeOK
  <1>a. NoIdleSlot <=> (Sleeping # {} => current + Cardinality(Acquirers) >= Slots)
    BY DEF NoIdleSlot, Acquirers
  <1>b. NoIdleSlot' <=> (Sleeping' # {} => current' + Cardinality(Acquirers') >= Slots)
    BY DEF NoIdleSlot, Acquirers
  <1>1. ASSUME NEW w \in Workers, Begin(w) \/ Borrow(w)
        PROVE  NoIdleSlot'
    <2>1. UNCHANGED <<current, Sleeping>> /\ Acquirers \subseteq Acquirers'
      BY <1>1 DEF Begin, Borrow, Sleeping, Acquirers, Go, At, TypeOK
    <2>2. Cardinality(Acquirers) <= Cardinality(Acquirers')
      BY <1>0, <2>1, NoMore
    <2>3. QED  BY <1>0, <1>a, <1>b, <2>1, <2>2
  <1>2. ASSUME NEW w \in Workers, Acquire(w)
        PROVE  NoIdleSlot'
    <2>1. CASE current < Slots
      <3>1. /\ current' = current + 1 /\ Sleeping' = Sleeping
            /\ w \notin Acquirers' /\ Acquirers \subseteq Acquirers' \cup {w}
        BY <1>2, <2>1 DEF Acquire, Sleeping, Acquirers, Go, At, TypeOK
      <3>2. Cardinality(Acquirers) <= Cardinality(Acquirers') + 1
        BY <1>0, <3>1, OneMore
      <3>3. QED  BY <1>0, <1>a, <1>b, <3>1, <3>2
    <2>2. CASE ~(current < Slots)
      <3>1. current' = current
        BY <1>2, <2>2 DEF Acquire
      <3>2. QED  BY <1>0, <1>b, <2>2, <3>1
    <2>3. QED  BY <2>1, <2>2
  <1>3. ASSUME NEW w \in Workers, Release(w)
        PROVE  NoIdleSlot'
    <2>1. current' = current - 1 /\ current - 1 \in Nat
      BY <1>3, HeldSlot DEF Release, At
    <2>2. CASE Sleeping = {}
      BY <1>b, <1>3, <2>2, ReleaseMoves
    <2>3. CASE Sleeping # {}
      <3>1. PICK u : u \notin Acquirers /\ Acquirers' = Acquirers \cup {u}
        BY <1>3, <2>3, ReleaseMoves
      <3>2. Cardinality(Acquirers') = Cardinality(Acquirers) + 1
        BY <1>0, <3>1, OneMore
      <3>3. QED  BY <1>0, <1>a, <1>b, <2>1, <2>3, <3>2
    <2>4. QED  BY <2>2, <2>3
  <1>4. CASE \A w \in Workers : ~Begin(w) /\ ~Borrow(w) /\ ~Acquire(w) /\ ~Release(w)
    BY <1>4, <1>a, <1>b, SemaphoreLeft
  <1>5. QED  BY <1>1, <1>2, <1>3, <1>4


-----------------------------------------------------------------------------
(* The processes.                                                          *)

\* A process that runs has a pid of its own.
LEMMA OwnPid ==
    ASSUME TypeOK, PidsKept, NEW e \in Engines, Runs(e)
    PROVE  /\ process_pid[e] \in Pids /\ process_pid[e] <= born /\ child[process_pid[e]] # "none"
           /\ \A f \in Engines : process_pid[f] = process_pid[e] => f = e
  BY ProcessesAssumption DEF TypeOK, PidsKept, PidsGiven, PidsApart, Pids

\* What a wait with WNOHANG leaves as it is.
LEMMA ReapOnly ==
    ASSUME TypeOK, NEW p, Reap(p)
    PROVE  \A q \in Pids : /\ child'[q] = child[q] \/ (q = p /\ child[q] = "zombie" /\ child'[q] = "reaped")
                           /\ child[q] # "zombie" => child'[q] = child[q]
  BY DEF TypeOK, Reap


\* No step but Spawn gives a pid or makes an engine run.
LEMMA NoSpawn ==
    ASSUME TypeOK, Hands, Step,
           \A w \in Workers : ~Spawn(w, "spawn", "push") /\ ~Spawn(w, "respawn", "relist")
    PROVE  /\ UNCHANGED <<born, process_pid>>
           /\ \A p \in Pids : child'[p] = "none" <=> child[p] = "none"
           /\ \A e \in Engines : Runs(e)' => Runs(e)
  <1> USE Finite, ProcessesAssumption DEF At, engine, counters, kernel, Runs
  <1>1. CASE UNCHANGED vars
    BY <1>1 DEF vars
  <1>2. ASSUME NEW w \in Workers,
               \/ Begin(w) \/ Borrow(w) \/ Acquire(w) \/ Release(w) \/ EndGame(w) \/ StartFails(w) \/ StartThrows(w)
               \/ Push(w, "push", "hello") \/ Push(w, "relist", "play")
        PROVE  UNCHANGED <<born, process_pid, child, is_initalized, startup_error>>
    BY <1>2 DEF Begin, Borrow, Acquire, Release, EndGame, StartFails, StartThrows, Return, Push
  <1>3. ASSUME NEW w \in Workers, Hello(w) \/ Command(w)
        PROVE  /\ UNCHANGED <<born, process_pid, is_initalized, startup_error>>
               /\ \A p \in Pids : child'[p] = "none" <=> child[p] = "none"
    BY <1>3, ReapOnly DEF Hello, Command, Poll
  <1>4. ASSUME NEW w \in Workers, SpawnFails(w, "spawn", "release") \/ SpawnFails(w, "respawn", "play")
        PROVE  /\ UNCHANGED <<born, process_pid, child>>
               /\ \A e \in Engines : Runs(e)' => Runs(e)
    BY <1>4 DEF SpawnFails, TypeOK
  <1>5. ASSUME NEW t \in Threads, Unlist(t, After(t)) \/ Check(t, After(t)) \/ Kill(t) \/ Wait(t, After(t))
        PROVE  /\ UNCHANGED <<born, process_pid>>
               /\ \A p \in Pids : child'[p] = "none" <=> child[p] = "none"
               /\ \A e \in Engines : Runs(e)' => Runs(e)
    <2>1. UNCHANGED <<born, process_pid, startup_error>>
      BY <1>5 DEF Unlist, Check, Kill, Wait
    <2>2. \A e \in Engines : is_initalized'[e] => is_initalized[e]
      BY <1>5 DEF Unlist, Check, Kill, Wait, TypeOK
    <2>3. \A p \in Pids : child'[p] = "none" <=> child[p] = "none"
      <3>1. CASE Unlist(t, After(t)) \/ Kill(t)
        BY <3>1 DEF Unlist, Kill, TypeOK
      <3>2. CASE Check(t, After(t))
        BY <3>2, ReapOnly DEF Check
      <3>3. CASE Wait(t, After(t))
        BY <3>3 DEF Wait, Reap, TypeOK
      <3>4. QED  BY <1>5, <3>1, <3>2, <3>3
    <2>4. QED  BY <2>1, <2>2, <2>3
  <1>6. ASSUME NEW e \in Engines, Destroy(e)
        PROVE  /\ UNCHANGED <<born, process_pid, is_initalized, startup_error>>
               /\ \A p \in Pids : child'[p] = "none" <=> child[p] = "none"
    BY <1>6, ReapOnly DEF Destroy, Poll
  <1>7. ASSUME stopProcesses \/ (\E p \in Pids : Exits(p) \/ Dies(p)) \/ Stop
        PROVE  /\ UNCHANGED <<born, process_pid, is_initalized, startup_error>>
               /\ \A p \in Pids : child'[p] = "none" <=> child[p] = "none"
    BY <1>7 DEF stopProcesses, Exits, Dies, Stop, TypeOK
  <1>8. QED
    BY <1>1, <1>2, <1>3, <1>4, <1>5, <1>6, <1>7 DEF Step

\* What Spawn gives.
LEMMA SpawnGives ==
    ASSUME TypeOK, Hands, Budget, PidsKept,
           NEW w \in Workers, NEW at \in {"spawn", "respawn"}, NEW next \in {"push", "relist"}, Spawn(w, at, next)
    PROVE  /\ uses[w] \in Engines /\ born' = born + 1 /\ born' \in Pids
           /\ child'[born'] = "alive" /\ child[born'] = "none" /\ \A p \in Pids : p # born' => child'[p] = child[p]
           /\ process_pid'[uses[w]] = born' /\ Runs(uses[w])'
           /\ \A e \in Engines : /\ process_pid[e] # born'
                                 /\ e # uses[w] => process_pid'[e] = process_pid[e] /\ Runs(e)' = Runs(e)
                                                   /\ is_initalized'[e] = is_initalized[e]
           /\ \A t \in Threads : t # w => uses[t] # uses[w] /\ pc'[t] = pc[t]
           /\ pc[w] = at /\ pc'[w] = next /\ uses' = uses
  <1>1. uses[w] \in Engines /\ uses[w] # None /\ born + 1 \in Pids /\ w \in Threads /\ born \in Nat
    BY InHand, RoomToSpawn, Finite, ProcessesAssumption DEF Spawn, At, TypeOK
  <1>2. \A t \in Threads : t # w => uses[t] # uses[w]
    BY <1>1 DEF Hands
  <1>3. child[born + 1] = "none"
    BY <1>1 DEF PidsKept, PidsGiven
  <1>4. born' = born + 1 /\ uses' = uses /\ pc[w] = at /\ pc'[w] = next /\ \A t \in Threads : t # w => pc'[t] = pc[t]
    BY <1>1 DEF Spawn, At, Go, TypeOK
  <1>5. child'[born + 1] = "alive" /\ \A p \in Pids : p # born + 1 => child'[p] = child[p]
    BY <1>1 DEF Spawn, TypeOK
  <1>6. process_pid'[uses[w]] = born + 1 /\ \A e \in Engines : e # uses[w] => process_pid'[e] = process_pid[e]
    BY <1>1 DEF Spawn, TypeOK
  <1>7. /\ is_initalized'[uses[w]] /\ ~startup_error'[uses[w]]
        /\ \A e \in Engines : e # uses[w] => is_initalized'[e] = is_initalized[e] /\ startup_error'[e] = startup_error[e]
    BY <1>1 DEF Spawn, TypeOK
  <1>8. \A e \in Engines : process_pid[e] # born + 1
    BY <1>1 DEF TypeOK
  <1>9. QED  BY <1>1, <1>2, <1>3, <1>4, <1>5, <1>6, <1>7, <1>8 DEF Runs

LEMMA GivenStep ==
    ASSUME TypeOK, Hands, Budget, PidsKept, Step
    PROVE  PidsGiven' /\ PidsApart'
  <1>1. ASSUME NEW w \in Workers, NEW at \in {"spawn", "respawn"}, NEW next \in {"push", "relist"}, Spawn(w, at, next)
        PROVE  PidsGiven' /\ PidsApart'
    <2>1. born \in Nat /\ \A p \in Pids : p \in Nat /\ (p > born + 1 <=> (p > born /\ p # born + 1))
      BY ProcessesAssumption DEF TypeOK, Pids
    <2>2. PidsGiven'
      BY <1>1, <2>1, SpawnGives DEF PidsGiven, PidsKept
    <2>3. PidsApart'
      BY <1>1, <2>1, SpawnGives DEF PidsApart, PidsKept
    <2>4. QED  BY <2>2, <2>3
  <1>2. CASE \A w \in Workers : ~Spawn(w, "spawn", "push") /\ ~Spawn(w, "respawn", "relist")
    BY <1>2, NoSpawn DEF PidsGiven, PidsApart, PidsKept
  <1>3. QED  BY <1>1, <1>2


\* The engines of two threads differ.
LEMMA HandsApart ==
    ASSUME TypeOK, Hands, NEW t \in Threads, pc[t] \notin {"idle", "borrow", "exit"}
    PROVE  /\ uses[t] \in Engines /\ uses[t] # None
           /\ \A u \in Threads : u # t => uses[u] # uses[t]
           /\ t # Main => uses[Main] = None
           /\ t = Main => \A w \in Workers : Idle(w)
  <1>1. uses[t] \in Engines /\ uses[t] # None
    BY InHand
  <1>2. QED  BY <1>1, Finite, ProcessesAssumption DEF Hands, Idle, TypeOK

\* An engine that was started is one init was called for.
LEMMA InitCalled ==
    ASSUME TypeOK, Hands, PidsKept, NEW w \in Workers, pc[w] \notin {"idle", "respawn"},
           NEW e \in Engines, initialized[e], \A u \in Threads : u # w => uses[u] # e
    PROVE  is_initalized[e]
  <1>1. uses[Main] = None
    BY Finite, ProcessesAssumption DEF Hands, Idle
  <1>2. QED  BY <1>1, Finite DEF PidsKept, Restarting, At

LEMMA RestartingStep ==
    ASSUME TypeOK, Hands, Hands', PidsKept, Step
    PROVE  Restarting'
  <1> USE Finite, ProcessesAssumption
  <1>0. Restarting /\ InUse
    BY DEF PidsKept
  <1>1. CASE UNCHANGED vars
    BY <1>0, <1>1 DEF vars, engine, Restarting, At
  <1>2. ASSUME NEW w \in Workers, Begin(w) \/ Borrow(w) \/ Acquire(w) \/ Release(w)
        PROVE  Restarting'
    <2>1. UNCHANGED <<is_initalized, initialized>> /\ uses'[Main] = uses[Main]
      BY <1>2 DEF Begin, Borrow, Acquire, Release, engine, TypeOK
    <2>2. \A u \in Workers : At(u, "respawn") => At(u, "respawn")' /\ uses'[u] = uses[u]
      <3>1. CASE Begin(w)
        BY <3>1 DEF Begin, At, Go, TypeOK
      <3>2. CASE Borrow(w)
        BY <3>2 DEF Borrow, At, Go, TypeOK
      <3>3. CASE Acquire(w)
        BY <3>3 DEF Acquire, At, Go, TypeOK
      <3>4. CASE Release(w)
        <4>1. PICK woken \in SUBSET Sleeping :
                pc' = [t \in Threads |-> IF t = w THEN Started(w) ELSE IF t \in woken THEN "acquire" ELSE pc[t]]
          BY <3>4 DEF Release
        <4>2. QED  BY <3>4, <4>1 DEF Release, At, Sleeping
      <3>5. QED  BY <1>2, <3>1, <3>2, <3>3, <3>4
    <2>3. QED  BY <1>0, <2>1, <2>2 DEF Restarting
  <1>3. ASSUME NEW w \in Workers,
               \/ Push(w, "push", "hello") \/ Push(w, "relist", "play") \/ Command(w)
               \/ EndGame(w) \/ StartFails(w) \/ StartThrows(w)
        PROVE  Restarting'
    <2>1. UNCHANGED <<is_initalized, initialized>> /\ uses'[Main] = uses[Main]
      BY <1>3 DEF EndGame, StartFails, StartThrows, Return, Push, Command, engine, TypeOK
    <2>2. \A u \in Workers : At(u, "respawn") => At(u, "respawn")' /\ uses'[u] = uses[u]
      BY <1>3 DEF EndGame, StartFails, StartThrows, Return, Push, Command, At, Go, TypeOK
    <2>3. QED  BY <1>0, <2>1, <2>2 DEF Restarting
  <1>4. ASSUME NEW w \in Workers, Hello(w)
        PROVE  Restarting'
    <2>1. uses[w] \in Engines /\ is_initalized[uses[w]] /\ pc[w] = "hello"
      BY <1>0, <1>4, HandsApart DEF Hello, At, InUse, Runs
    <2>2. UNCHANGED <<is_initalized, uses>> /\ \A e \in Engines : e # uses[w] => initialized'[e] = initialized[e]
      BY <1>4 DEF Hello, TypeOK
    <2>3. \A u \in Workers : At(u, "respawn") => At(u, "respawn")'
      BY <1>4 DEF Hello, At, Go, TypeOK
    <2>4. QED  BY <1>0, <2>1, <2>2, <2>3 DEF Restarting
  <1>5. ASSUME NEW w \in Workers,
               \/ Spawn(w, "spawn", "push") \/ SpawnFails(w, "spawn", "release")
               \/ Spawn(w, "respawn", "relist") \/ SpawnFails(w, "respawn", "play")
        PROVE  Restarting'
    <2>1. UNCHANGED <<initialized, uses>> /\ is_initalized' = [is_initalized EXCEPT ![uses[w]] = TRUE]
      BY <1>5 DEF Spawn, SpawnFails
    <2>2. \A u \in Workers : u # w => pc'[u] = pc[u]
      BY <1>5 DEF Spawn, SpawnFails, Go, TypeOK
    <2>3. QED  BY <1>0, <2>1, <2>2 DEF Restarting, At, TypeOK
  <1>6. ASSUME NEW t \in Threads, Unlist(t, After(t)) \/ Check(t, After(t)) \/ Kill(t) \/ Wait(t, After(t))
        PROVE  Restarting'
    <2>1. /\ UNCHANGED <<initialized, uses>>
          /\ \/ UNCHANGED is_initalized
             \/ is_initalized' = [is_initalized EXCEPT ![uses[t]] = FALSE] /\ Go(t, After(t))
      BY <1>6 DEF Unlist, Check, Kill, Wait, engine
    <2>2. /\ \A u \in Threads : u # t => pc'[u] = pc[u]
          /\ pc[t] \in {"unlist", "check", "kill", "wait"}
      BY <1>6 DEF Unlist, Check, Kill, Wait, Go, At, TypeOK
    <2>3. Go(t, After(t)) => (t = Main \/ (t \in Workers /\ pc'[t] = "respawn"))
      BY DEF Go, After, TypeOK
    <2>4. uses[t] \in Engines /\ (t = Main => uses[Main] # None)
      BY <2>2, HandsApart
    <2>5. QED  BY <1>0, <2>1, <2>2, <2>3, <2>4 DEF Restarting, At, TypeOK
  <1>7. ASSUME NEW e \in Engines, Destroy(e)
        PROVE  Restarting'
    BY <1>7 DEF Destroy, Restarting, TypeOK
  <1>8. ASSUME stopProcesses \/ (\E p \in Pids : Exits(p) \/ Dies(p)) \/ Stop
        PROVE  Restarting'
    BY <1>0, <1>8 DEF stopProcesses, Exits, Dies, Stop, Restarting, At, Go, engine, TypeOK
  <1>9. QED
    BY <1>1, <1>2, <1>3, <1>4, <1>5, <1>6, <1>7, <1>8 DEF Step

LEMMA InUseStep ==
    ASSUME TypeOK, Hands, Hands', Budget, PidsKept, Step
    PROVE  InUse'
  <1> USE Finite, ProcessesAssumption
  <1>0. InUse
    BY DEF PidsKept
  <1>1. CASE UNCHANGED vars
    BY <1>0, <1>1 DEF vars, engine, InUse, Runs, At
  \* A worker that goes on with an engine of which it relies on no more than before.
  <1>2. ASSUME NEW w \in Workers, UNCHANGED <<is_initalized, startup_error>>,
               \A t \in Threads : t # w => pc'[t] = pc[t] /\ uses'[t] = uses[t],
               /\ pc'[w] \in {"push", "relist", "hello", "check", "kill", "wait"} => Runs(uses'[w])
               /\ pc'[w] = "play" => is_initalized[uses'[w]]
        PROVE  InUse'
    BY <1>0, <1>2 DEF InUse, Runs, At
  <1>3. ASSUME NEW w \in Workers, Begin(w) \/ Acquire(w) \/ EndGame(w) \/ StartFails(w) \/ StartThrows(w)
        PROVE  InUse'
    <2>1. pc'[w] \in {"borrow", "spawn", "asleep", "idle"}
      BY <1>3 DEF Begin, Acquire, EndGame, StartFails, StartThrows, Return, Go, TypeOK
    <2>2. UNCHANGED <<is_initalized, startup_error>> /\ \A t \in Threads : t # w => pc'[t] = pc[t] /\ uses'[t] = uses[t]
      BY <1>3 DEF Begin, Acquire, EndGame, StartFails, StartThrows, Return, Go, TypeOK, engine
    <2>3. QED  BY <1>2, <2>1, <2>2
  <1>4. ASSUME NEW w \in Workers, Borrow(w)
        PROVE  InUse'
    <2>1. PICK e \in Engines : /\ \A t \in Threads : uses[t] # e
                               /\ uses' = [uses EXCEPT ![w] = e]
                               /\ Go(w, IF initialized[e] THEN "play" ELSE "acquire")
      BY <1>4 DEF Borrow
    <2>2. initialized[e] => is_initalized[e]
      BY <1>4, <2>1, InitCalled DEF Borrow, At
    <2>3. UNCHANGED <<is_initalized, startup_error>> /\ \A t \in Threads : t # w => pc'[t] = pc[t] /\ uses'[t] = uses[t]
      BY <1>4, <2>1 DEF Borrow, Go, TypeOK, engine
    <2>4. uses'[w] = e /\ pc'[w] \in {"play", "acquire"} /\ (pc'[w] = "play" => initialized[e])
      BY <2>1 DEF Go, TypeOK
    <2>5. QED  BY <1>2, <2>2, <2>3, <2>4
  <1>5. ASSUME NEW w \in Workers, Hello(w) \/ Command(w)
        PROVE  InUse'
    <2>1. UNCHANGED <<is_initalized, startup_error, uses>> /\ \A t \in Threads : t # w => pc'[t] = pc[t]
      BY <1>5 DEF Hello, Command, Go, TypeOK, engine
    <2>2. pc'[w] \in {"release", "unwind", "unlist"} \/ (pc[w] = "play" /\ pc'[w] = "play")
      BY <1>5 DEF Hello, Command, Go, At, TypeOK
    <2>3. QED  BY <1>0, <1>2, <2>1, <2>2 DEF InUse, At
  <1>6. ASSUME NEW w \in Workers, Release(w)
        PROVE  InUse'
    <2>1. PICK woken \in SUBSET Sleeping :
            pc' = [t \in Threads |-> IF t = w THEN Started(w) ELSE IF t \in woken THEN "acquire" ELSE pc[t]]
      BY <1>6 DEF Release
    <2>2. UNCHANGED <<is_initalized, startup_error, uses>> /\ pc[w] \in {"release", "unwind"}
      BY <1>6 DEF Release, engine, At
    <2>3. Started(w) \in {"thrown", "play", "failed"} /\ (Started(w) = "play" => initialized[uses[w]])
      BY DEF Started
    <2>4. Started(w) = "play" => is_initalized[uses[w]]
      BY <2>2, <2>3, HandsApart, InitCalled
    <2>5. QED  BY <1>0, <2>1, <2>2, <2>3, <2>4 DEF InUse, Runs, At
  <1>7. ASSUME NEW w \in Workers, NEW at \in {"spawn", "respawn"}, NEW next \in {"push", "relist"}, Spawn(w, at, next)
        PROVE  InUse'
    <2>1. \A t \in Threads : t # w => uses[t] # uses[w] /\ pc'[t] = pc[t]
      BY <1>7, SpawnGives
    <2>2. \A e \in Engines : e # uses[w] => Runs(e)' = Runs(e) /\ is_initalized'[e] = is_initalized[e]
      BY <1>7, SpawnGives
    <2>3. Runs(uses[w])' /\ pc'[w] = next /\ uses' = uses
      BY <1>7, SpawnGives
    <2>4. \A t \in Threads : pc[t] \notin {"idle", "borrow", "exit"} => uses[t] \in Engines
      BY InHand
    <2>5. QED  BY <1>0, <2>1, <2>2, <2>3, <2>4 DEF InUse, At, Runs
  <1>8. ASSUME NEW w \in Workers, NEW at \in {"spawn", "respawn"}, NEW next \in {"release", "play"}, SpawnFails(w, at, next)
        PROVE  InUse'
    <2>1. uses[w] \in Engines /\ \A t \in Threads : t # w => uses[t] # uses[w]
      BY <1>8, HandsApart DEF SpawnFails, At
    <2>2. QED  BY <1>0, <1>8, <2>1 DEF SpawnFails, At, Go, InUse, Runs, TypeOK
  <1>9. ASSUME NEW w \in Workers, NEW at \in {"push", "relist"}, NEW next \in {"hello", "play"}, Push(w, at, next)
        PROVE  InUse'
    BY <1>0, <1>9 DEF Push, At, Go, InUse, Runs, TypeOK, engine
  <1>10. ASSUME NEW t \in Threads, Unlist(t, After(t)) \/ Check(t, After(t)) \/ Kill(t) \/ Wait(t, After(t))
         PROVE  InUse'
    <2>1. uses[t] \in Engines /\ \A u \in Threads : u # t => uses[u] # uses[t]
      BY <1>10, HandsApart DEF Unlist, Check, Kill, Wait, At
    <2>2. UNCHANGED <<startup_error, uses>> /\ \A u \in Threads : u # t => pc'[u] = pc[u]
      BY <1>10 DEF Unlist, Check, Kill, Wait, Go, TypeOK, engine
    <2>3. \A e \in Engines : e # uses[t] => is_initalized'[e] = is_initalized[e]
      BY <1>10, <2>1 DEF Unlist, Check, Kill, Wait, TypeOK, engine
    <2>4. pc'[t] \in {"respawn", "idle"} \/ (pc'[t] \in {"check", "kill", "wait"} /\ Runs(uses[t])')
      BY <1>0, <1>10, <2>1 DEF Unlist, Check, Kill, Wait, Go, At, After, TypeOK, engine, InUse, Runs
    <2>5. \A u \in Threads : pc[u] \notin {"idle", "borrow", "exit"} => uses[u] \in Engines
      BY InHand
    <2>6. QED  BY <1>0, <2>1, <2>2, <2>3, <2>4, <2>5 DEF InUse, Runs, At
  <1>11. ASSUME NEW e \in Engines, Destroy(e)
         PROVE  InUse'
    BY <1>0, <1>11 DEF Destroy, Go, At, InUse, Runs, TypeOK, engine
  <1>12. ASSUME stopProcesses \/ (\E p \in Pids : Exits(p) \/ Dies(p)) \/ Stop
         PROVE  InUse'
    BY <1>0, <1>12 DEF stopProcesses, Exits, Dies, Stop, InUse, Runs, At, Go, engine, TypeOK
  <1>13. QED
    BY <1>1, <1>3, <1>4, <1>5, <1>6, <1>7, <1>8, <1>9, <1>10, <1>11, <1>12 DEF Step

\* A step that sends no signal and takes no thread from its wait.
LEMMA AwaitedStill ==
    ASSUME TypeOK, TypeOK', PidsKept, UNCHANGED process_pid,
           \A e \in Engines : Runs(e)' => Runs(e),
           \A p \in Pids : child'[p] = "killed" => child[p] = "killed",
           \A t \in Threads : At(t, "wait") => At(t, "wait")' /\ uses'[t] = uses[t]
    PROVE  KillAwaited'
  <1>1. \A e \in Engines : Runs(e) => process_pid[e] \in Pids
    BY OwnPid
  <1>2. QED  BY <1>1 DEF PidsKept, KillAwaited

LEMMA AwaitedStep ==
    ASSUME TypeOK, TypeOK', Hands, Budget, PidsKept, Step
    PROVE  KillAwaited'
  <1> USE Finite, ProcessesAssumption
  <1>0. KillAwaited /\ InUse
    BY DEF PidsKept
  <1>1. CASE UNCHANGED vars
    BY <1>0, <1>1 DEF vars, engine, kernel, KillAwaited, Runs, At
  <1>2. ASSUME NEW w \in Workers,
               \/ Begin(w) \/ Borrow(w) \/ Acquire(w) \/ Release(w) \/ EndGame(w) \/ StartFails(w) \/ StartThrows(w)
               \/ Push(w, "push", "hello") \/ Push(w, "relist", "play")
               \/ SpawnFails(w, "spawn", "release") \/ SpawnFails(w, "respawn", "play")
               \/ Hello(w) \/ Command(w)
        PROVE  /\ \A p \in Pids : child'[p] = "killed" => child[p] = "killed"
               /\ \A t \in Threads : At(t, "wait") => At(t, "wait")' /\ uses'[t] = uses[t]
    <2>1. CASE Begin(w) \/ Borrow(w) \/ Acquire(w) \/ EndGame(w) \/ StartFails(w) \/ StartThrows(w)
      BY <2>1 DEF Begin, Borrow, Acquire, EndGame, StartFails, StartThrows, Return, Go, At, TypeOK, kernel
    <2>2. CASE Push(w, "push", "hello") \/ Push(w, "relist", "play")
      BY <2>2 DEF Push, Go, At, TypeOK, kernel
    <2>3. CASE SpawnFails(w, "spawn", "release") \/ SpawnFails(w, "respawn", "play")
      BY <2>3 DEF SpawnFails, Go, At, TypeOK, kernel
    <2>4. CASE Hello(w) \/ Command(w)
      BY <2>4, ReapOnly DEF Hello, Command, Poll, Go, At, TypeOK, kernel
    <2>5. CASE Release(w)
      <3>1. PICK woken \in SUBSET Sleeping :
              pc' = [t \in Threads |-> IF t = w THEN Started(w) ELSE IF t \in woken THEN "acquire" ELSE pc[t]]
        BY <2>5 DEF Release
      <3>2. QED  BY <2>5, <3>1 DEF Release, At, Sleeping, kernel
    <2>6. QED  BY <1>2, <2>1, <2>2, <2>3, <2>4, <2>5
  <1>3. ASSUME NEW w \in Workers, NEW at \in {"spawn", "respawn"}, NEW next \in {"push", "relist"}, Spawn(w, at, next)
        PROVE  KillAwaited'
    <2>1. \A t \in Threads : t # w => uses[t] # uses[w] /\ pc'[t] = pc[t]
      BY <1>3, SpawnGives
    <2>2. \A e \in Engines : e # uses[w] => Runs(e)' = Runs(e) /\ process_pid'[e] = process_pid[e]
      BY <1>3, SpawnGives
    <2>3. /\ process_pid'[uses[w]] = born' /\ child'[born'] = "alive" /\ pc[w] # "wait" /\ uses' = uses
          /\ \A p \in Pids : p # born' => child'[p] = child[p]
      BY <1>3, SpawnGives
    <2>4. \A e \in Engines : Runs(e) => process_pid[e] \in Pids
      BY OwnPid
    <2>5. QED  BY <1>0, <2>1, <2>2, <2>3, <2>4 DEF KillAwaited, At
  <1>4. ASSUME NEW t \in Threads, Unlist(t, After(t)) \/ Check(t, After(t))
        PROVE  /\ \A p \in Pids : child'[p] = "killed" => child[p] = "killed"
               /\ \A u \in Threads : At(u, "wait") => At(u, "wait")' /\ uses'[u] = uses[u]
    BY <1>4, ReapOnly DEF Unlist, Check, Go, At, TypeOK
  <1>5. ASSUME NEW t \in Threads, Kill(t)
        PROVE  KillAwaited'
    <2>1. uses[t] \in Engines /\ Runs(uses[t]) /\ UNCHANGED <<process_pid, uses, is_initalized, startup_error>>
      BY <1>0, <1>5, HandsApart DEF Kill, At, InUse, engine
    <2>2. At(t, "wait")' /\ \A u \in Threads : At(u, "wait") => At(u, "wait")'
      BY <1>5 DEF Kill, Go, At, TypeOK
    <2>3. \A p \in Pids : p # process_pid[uses[t]] => child'[p] = child[p]
      BY <1>5 DEF Kill
    <2>4. \A e \in Engines : Runs(e) => process_pid[e] \in Pids
      BY OwnPid
    <2>5. \A e \in Engines : process_pid[e] = process_pid[uses[t]] => e = uses[t]
      BY <2>1, OwnPid
    <2>6. QED  BY <1>0, <2>1, <2>2, <2>3, <2>4, <2>5 DEF KillAwaited, Runs
  <1>6. ASSUME NEW t \in Threads, Wait(t, After(t))
        PROVE  KillAwaited'
    <2>1. uses[t] \in Engines /\ UNCHANGED <<process_pid, uses, startup_error>>
      BY <1>6, HandsApart DEF Wait, At
    <2>2. is_initalized' = [is_initalized EXCEPT ![uses[t]] = FALSE] /\ \A u \in Threads : u # t => pc'[u] = pc[u]
      BY <1>6 DEF Wait, Go, TypeOK
    <2>3. \A p \in Pids : child'[p] = "killed" => child[p] = "killed"
      BY <1>6 DEF Wait, Reap, TypeOK
    <2>4. \A e \in Engines : Runs(e) => process_pid[e] \in Pids
      BY OwnPid
    <2>5. QED  BY <1>0, <2>1, <2>2, <2>3, <2>4 DEF KillAwaited, Runs, At, TypeOK
  <1>7. ASSUME (\E e \in Engines : Destroy(e)) \/ Stop \/ (\E p \in Pids : Exits(p) \/ Dies(p))
        PROVE  /\ \A p \in Pids : child'[p] = "killed" => child[p] = "killed"
               /\ \A t \in Threads : At(t, "wait") => At(t, "wait")' /\ uses'[t] = uses[t]
    <2>1. CASE \E e \in Engines : Destroy(e)
      BY <2>1, ReapOnly DEF Destroy, Poll, Go, At, Idle, TypeOK
    <2>2. CASE Stop \/ (\E p \in Pids : Exits(p) \/ Dies(p))
      BY <2>2 DEF Stop, Exits, Dies, At, TypeOK, kernel
    <2>3. QED  BY <1>7, <2>1, <2>2
  <1>8. CASE stopProcesses
    <2>1. \A e \in Engines : ~Runs(e)'
      BY <1>8 DEF stopProcesses, Runs, engine
    <2>2. QED  BY <2>1 DEF KillAwaited
  <1>9. CASE \A w \in Workers : ~Spawn(w, "spawn", "push") /\ ~Spawn(w, "respawn", "relist")
    <2>1. UNCHANGED process_pid /\ \A e \in Engines : Runs(e)' => Runs(e)
      BY <1>9, NoSpawn
    <2>2. ASSUME /\ \A p \in Pids : child'[p] = "killed" => child[p] = "killed"
                 /\ \A t \in Threads : At(t, "wait") => At(t, "wait")' /\ uses'[t] = uses[t]
          PROVE  KillAwaited'
      BY <2>1, <2>2, AwaitedStill
    <2>3. QED  BY <1>1, <1>2, <1>4, <1>5, <1>6, <1>7, <1>8, <1>9, <2>2 DEF Step
  <1>10. QED  BY <1>3, <1>9

LEMMA PidsStep ==
    ASSUME TypeOK, TypeOK', Hands, Hands', Budget, PidsKept, Step
    PROVE  PidsKept'
  BY GivenStep, InUseStep, RestartingStep, AwaitedStep DEF PidsKept


-----------------------------------------------------------------------------
(* No living engine is forgotten.                                          *)

\* A step that neither starts a process nor touches one that is tracked.
LEMMA TrackedStill ==
    ASSUME Tracked, At(Main, "exit")' => At(Main, "exit"),
           \A p \in Pids : child'[p] = "alive" => child[p] = "alive",
           \A p \in Pids : child'[p] = "alive" /\ (p \in process_list \/ Followed(p)) =>
                               p \in process_list' \/ Followed(p)'
    PROVE  Tracked'
  BY DEF Tracked

\* The threads that follow a process still do.
LEMMA FollowedStill ==
    ASSUME UNCHANGED process_pid, NEW p,
           \A t \in Threads : pc[t] \in {"push", "relist", "check", "kill"} =>
                                  uses'[t] = uses[t] /\ pc'[t] \in {"push", "relist", "check", "kill"}
    PROVE  Followed(p) => Followed(p)'
  BY DEF Followed

LEMMA TrackedStep ==
    ASSUME TypeOK, TypeOK', Hands, Budget, PidsKept, Tracked, Step
    PROVE  Tracked'
  <1> USE Finite, ProcessesAssumption
  <1> DEFINE Following == {"push", "relist", "check", "kill"}
  <1>0. PidsKept /\ InUse
    BY DEF PidsKept
  <1>1. CASE UNCHANGED vars
    BY <1>1 DEF vars, engine, kernel, Tracked, Followed, At
  <1>2. ASSUME NEW w \in Workers,
               \/ Begin(w) \/ Borrow(w) \/ Acquire(w) \/ Release(w) \/ EndGame(w) \/ StartFails(w) \/ StartThrows(w)
               \/ SpawnFails(w, "spawn", "release") \/ SpawnFails(w, "respawn", "play")
               \/ Hello(w) \/ Command(w)
        PROVE  Tracked'
    <2>1. /\ UNCHANGED <<process_pid, process_list>> /\ pc'[Main] = pc[Main]
          /\ \A p \in Pids : child'[p] = "alive" => child[p] = "alive"
          /\ \A t \in Threads : pc[t] \in Following => uses'[t] = uses[t] /\ pc'[t] = pc[t]
      <3>1. CASE Begin(w) \/ Borrow(w) \/ Acquire(w) \/ EndGame(w) \/ StartFails(w) \/ StartThrows(w)
        BY <3>1 DEF Begin, Borrow, Acquire, EndGame, StartFails, StartThrows, Return, Go, At, TypeOK, kernel, engine
      <3>2. CASE SpawnFails(w, "spawn", "release") \/ SpawnFails(w, "respawn", "play")
        BY <3>2 DEF SpawnFails, Go, At, TypeOK, kernel
      <3>3. CASE Hello(w) \/ Command(w)
        BY <3>3, ReapOnly DEF Hello, Command, Poll, Go, At, TypeOK, kernel, engine
      <3>4. CASE Release(w)
        <4>1. PICK woken \in SUBSET Sleeping :
                pc' = [t \in Threads |-> IF t = w THEN Started(w) ELSE IF t \in woken THEN "acquire" ELSE pc[t]]
          BY <3>4 DEF Release
        <4>2. QED  BY <3>4, <4>1 DEF Release, At, Sleeping, kernel, engine
      <3>5. QED  BY <1>2, <3>1, <3>2, <3>3, <3>4
    <2>2. \A p \in Pids : Followed(p) => Followed(p)'
      BY <2>1, FollowedStill
    <2>3. QED  BY <2>1, <2>2, TrackedStill DEF At
  <1>3. ASSUME NEW w \in Workers, NEW at \in {"spawn", "respawn"}, NEW next \in {"push", "relist"}, Spawn(w, at, next)
        PROVE  Tracked'
    <2>1. /\ pc[w] = at /\ pc'[w] = next /\ uses' = uses /\ uses[w] \in Engines /\ uses[w] # None
          /\ \A t \in Threads : t # w => uses[t] # uses[w] /\ pc'[t] = pc[t]
      BY <1>3, SpawnGives, HandsApart
    <2>0. PICK b \in Pids : b = born'
      BY <1>3, SpawnGives
    <2>2. /\ process_pid'[uses[w]] = b /\ \A p \in Pids : p # b => child'[p] = child[p]
          /\ \A e \in Engines : e # uses[w] => process_pid'[e] = process_pid[e]
      BY <1>3, <2>0, SpawnGives
    <2>3. Followed(b)'
      BY <2>1, <2>2 DEF Followed
    <2>4. process_list' = process_list /\ ~At(Main, "exit")'
      BY <1>3, <2>1 DEF Spawn, Hands, At, Idle
    <2>5. ASSUME NEW p \in Pids, Followed(p)
          PROVE  Followed(p)'
      <3>1. PICK t \in Threads : uses[t] # None /\ process_pid[uses[t]] = p /\ pc[t] \in Following
        BY <2>5 DEF Followed
      <3>2. t # w /\ uses[t] \in Engines /\ uses[t] # uses[w]
        BY <2>1, <3>1, InHand
      <3>3. QED  BY <2>1, <2>2, <3>1, <3>2 DEF Followed
    <2>6. QED  BY <2>2, <2>3, <2>4, <2>5 DEF Tracked
  <1>4. ASSUME NEW w \in Workers, NEW at \in {"push", "relist"}, NEW next \in {"hello", "play"}, Push(w, at, next)
        PROVE  Tracked'
    <2>1. /\ UNCHANGED <<child, process_pid, uses>> /\ process_list' = process_list \cup {process_pid[uses[w]]}
          /\ pc'[w] = next /\ \A t \in Threads : t # w => pc'[t] = pc[t]
      BY <1>4 DEF Push, Go, engine, TypeOK
    <2>2. \A p \in Pids : p \in process_list \/ Followed(p) => p \in process_list' \/ Followed(p)'
      BY <2>1 DEF Followed
    <2>3. QED  BY <2>1, <2>2, TrackedStill DEF At
  <1>5. ASSUME NEW t \in Threads, Unlist(t, After(t))
        PROVE  Tracked'
    <2>1. /\ UNCHANGED <<child, process_pid, uses>> /\ pc[t] = "unlist"
          /\ \A u \in Threads : u # t => pc'[u] = pc[u]
          /\ pc'[t] # "exit"
          /\ \/ UNCHANGED process_list
             \/ process_list' = process_list \ {process_pid[uses[t]]} /\ pc'[t] = "check"
      BY <1>5 DEF Unlist, Go, At, After, TypeOK
    <2>2. uses[t] # None
      BY <2>1, HandsApart
    <2>3. \A p \in Pids : p \in process_list \/ Followed(p) => p \in process_list' \/ Followed(p)'
      BY <2>1, <2>2 DEF Followed
    <2>4. QED  BY <2>1, <2>3, TrackedStill DEF At
  <1>6. ASSUME NEW t \in Threads, Check(t, After(t))
        PROVE  Tracked'
    <2>1. /\ UNCHANGED <<process_list, process_pid, uses>> /\ pc[t] = "check"
          /\ \A u \in Threads : u # t => pc'[u] = pc[u]
          /\ pc'[t] # "exit"
          /\ child[process_pid[uses[t]]] = "alive" => pc'[t] = "kill"
      BY <1>6 DEF Check, Go, At, After, TypeOK
    <2>2. \A p \in Pids : child'[p] = "alive" => child[p] = "alive"
      BY <1>6, ReapOnly DEF Check
    <2>3. \A p \in Pids : child'[p] = "alive" /\ Followed(p) => Followed(p)'
      BY <2>1, <2>2 DEF Followed
    <2>4. QED  BY <2>1, <2>2, <2>3, TrackedStill DEF At
  <1>7. ASSUME NEW t \in Threads, Kill(t)
        PROVE  Tracked'
    <2>1. /\ UNCHANGED <<process_list, process_pid, uses>> /\ pc[t] = "kill"
          /\ \A u \in Threads : u # t => pc'[u] = pc[u]
          /\ pc'[t] # "exit"
      BY <1>7 DEF Kill, Go, At, engine, TypeOK
    <2>2. \A p \in Pids : child'[p] = "alive" => child[p] = "alive" /\ p # process_pid[uses[t]]
      BY <1>7 DEF Kill, TypeOK
    <2>3. \A p \in Pids : child'[p] = "alive" /\ Followed(p) => Followed(p)'
      BY <2>1, <2>2 DEF Followed
    <2>4. QED  BY <2>1, <2>2, <2>3, TrackedStill DEF At
  <1>8. ASSUME NEW t \in Threads, Wait(t, After(t))
        PROVE  Tracked'
    <2>1. /\ UNCHANGED <<process_list, process_pid, uses>> /\ pc[t] = "wait"
          /\ \A u \in Threads : u # t => pc'[u] = pc[u]
          /\ pc'[t] # "exit"
      BY <1>8 DEF Wait, Go, At, After, TypeOK
    <2>2. \A p \in Pids : child'[p] = "alive" => child[p] = "alive"
      BY <1>8 DEF Wait, Reap, TypeOK
    <2>3. \A p \in Pids : Followed(p) => Followed(p)'
      BY <2>1 DEF Followed
    <2>4. QED  BY <2>1, <2>2, <2>3, TrackedStill DEF At
  <1>9. ASSUME NEW e \in Engines, Destroy(e)
        PROVE  Tracked'
    <2>1. /\ UNCHANGED <<process_list, process_pid>> /\ pc[Main] = "idle" /\ pc'[Main] # "exit"
          /\ \A t \in Threads : t # Main => pc'[t] = pc[t] /\ uses'[t] = uses[t]
      BY <1>9 DEF Destroy, Go, At, engine, TypeOK
    <2>2. \A p \in Pids : child'[p] = "alive" => child[p] = "alive"
      BY <1>9, ReapOnly DEF Destroy, Poll
    <2>3. \A p \in Pids : Followed(p) => Followed(p)'
      BY <2>1 DEF Followed
    <2>4. QED  BY <2>1, <2>2, <2>3, TrackedStill DEF At
  <1>10. CASE stopProcesses
    <2>1. \A t \in Threads : pc[t] = "idle"
      BY <1>10 DEF stopProcesses, At, Idle
    <2>2. \A p \in Pids : ~Followed(p)
      BY <2>1 DEF Followed
    <2>3. \A p \in Pids : child'[p] # "alive"
      BY <1>10, <2>2 DEF stopProcesses, Tracked
    <2>4. QED  BY <2>3 DEF Tracked
  <1>11. ASSUME Stop \/ (\E p \in Pids : Exits(p) \/ Dies(p))
         PROVE  Tracked'
    <2>1. /\ UNCHANGED <<process_list, process_pid, uses, pc>>
          /\ \A p \in Pids : child'[p] = "alive" => child[p] = "alive"
      BY <1>11 DEF Stop, Exits, Dies, kernel, engine, TypeOK
    <2>2. QED  BY <2>1, TrackedStill DEF At, Followed
  <1>12. QED
    BY <1>1, <1>2, <1>3, <1>4, <1>5, <1>6, <1>7, <1>8, <1>9, <1>10, <1>11 DEF Step


-----------------------------------------------------------------------------
(* Every thread that waits has a child to take.                            *)

LEMMA CoverFinite ==
    /\ IsFiniteSet(Claims) /\ Cardinality(Claims) \in Nat
    /\ IsFiniteSet(Dead \ Own) /\ Cardinality(Dead \ Own) \in Nat
  <1>1. Claims \in SUBSET Threads /\ Dead \ Own \in SUBSET Pids
    BY DEF Claims, Dead
  <1>2. IsFiniteSet(Claims) /\ IsFiniteSet(Dead \ Own)
    BY <1>1, Finite, FS_Subset
  <1>3. QED  BY <1>2, FS_CardinalityType

LEMMA CoverFiniteNext ==
    /\ IsFiniteSet(Claims') /\ Cardinality(Claims') \in Nat
    /\ IsFiniteSet((Dead \ Own)') /\ Cardinality((Dead \ Own)') \in Nat
  <1>1. Claims' \in SUBSET Threads /\ (Dead \ Own)' \in SUBSET Pids
    BY DEF Claims, Dead
  <1>2. IsFiniteSet(Claims') /\ IsFiniteSet((Dead \ Own)')
    BY <1>1, Finite, FS_Subset
  <1>3. QED  BY <1>2, FS_CardinalityType

\* The pids whose death only their engine's own thread can still notice.
LEMMA OwnDef ==
    /\ \A p : p \in Own <=> \E e \in Engines : process_pid[e] = p /\ Runs(e) /\ \A t \in Claims : uses[t] # e
    /\ \A p : p \in Own' <=> \E e \in Engines : process_pid'[e] = p /\ Runs(e)' /\ \A t \in Claims' : uses'[t] # e
  BY DEF Own

\* A step that claims no child and leaves the dead that nobody has noticed.
LEMMA CoveredStill ==
    ASSUME Covered, astray => astray', Claims' \subseteq Claims, Dead \ Own \subseteq (Dead \ Own)'
    PROVE  Covered'
  <1>1. Cardinality(Claims') <= Cardinality(Claims)
    BY CoverFinite, FS_Subset
  <1>2. Cardinality(Dead \ Own) <= Cardinality((Dead \ Own)')
    BY CoverFiniteNext, FS_Subset
  <1>3. QED  BY <1>1, <1>2, CoverFinite, CoverFiniteNext DEF Covered

LEMMA AtLeastOneMore ==
    ASSUME NEW S, NEW T, IsFiniteSet(S), IsFiniteSet(T), NEW p, p \notin S, S \cup {p} \subseteq T
    PROVE  Cardinality(S) + 1 <= Cardinality(T)
  <1>1. Cardinality(S \cup {p}) = Cardinality(S) + 1
    BY FS_AddElement
  <1>2. Cardinality(S \cup {p}) <= Cardinality(T)
    BY FS_Subset
  <1>3. QED  BY <1>1, <1>2

LEMMA AtMostOneMore ==
    ASSUME NEW S, NEW T, IsFiniteSet(S), IsFiniteSet(T), NEW p, T \subseteq S \cup {p}
    PROVE  Cardinality(T) <= Cardinality(S) + 1
  <1>1. IsFiniteSet(S \cup {p}) /\ Cardinality(S) \in Nat
    BY FS_AddElement, FS_CardinalityType
  <1>2. Cardinality(S \cup {p}) <= Cardinality(S) + 1
    BY <1>1, FS_AddElement
  <1>3. Cardinality(T) <= Cardinality(S \cup {p}) /\ Cardinality(T) \in Nat /\ Cardinality(S \cup {p}) \in Nat
    BY <1>1, FS_Subset, FS_CardinalityType
  <1>4. QED  BY <1>1, <1>2, <1>3

\* A thread claims a child, and a process dies.
LEMMA CoveredMore ==
    ASSUME Covered, astray => astray', NEW t, Claims' \subseteq Claims \cup {t},
           NEW p, p \notin Dead, (Dead \ Own) \cup {p} \subseteq (Dead \ Own)'
    PROVE  Covered'
  <1>1. Cardinality(Claims') <= Cardinality(Claims) + 1
    BY CoverFinite, CoverFiniteNext, AtMostOneMore
  <1>2. Cardinality(Dead \ Own) + 1 <= Cardinality((Dead \ Own)')
    <2>1. p \notin Dead \ Own
      OBVIOUS
    <2>2. QED  BY <2>1, CoverFinite, CoverFiniteNext, AtLeastOneMore
  <1>3. QED  BY <1>1, <1>2, CoverFinite, CoverFiniteNext DEF Covered

\* A thread takes a child.
LEMMA CoveredLess ==
    ASSUME Covered, astray => astray', NEW t, t \in Claims, Claims' \subseteq Claims \ {t},
           NEW p, (Dead \ Own) \ {p} \subseteq (Dead \ Own)'
    PROVE  Covered'
  <1>1. Cardinality(Claims') + 1 <= Cardinality(Claims)
    <2>1. t \notin Claims' /\ Claims' \cup {t} \subseteq Claims
      OBVIOUS
    <2>2. QED  BY <2>1, CoverFinite, CoverFiniteNext, AtLeastOneMore
  <1>2. Cardinality(Dead \ Own) <= Cardinality((Dead \ Own)') + 1
    <2>1. Dead \ Own \subseteq (Dead \ Own)' \cup {p}
      OBVIOUS
    <2>2. QED  BY <2>1, CoverFinite, CoverFiniteNext, AtMostOneMore
  <1>3. QED  BY <1>1, <1>2, CoverFinite, CoverFiniteNext DEF Covered

\* A step in which no thread comes to the kill or to the wait, or leaves them.
LEMMA CoveredQuiet ==
    ASSUME TypeOK, Hands, PidsKept, Covered, astray => astray', UNCHANGED process_pid,
           \A e \in Engines : Runs(e)' => Runs(e),
           \A t \in Threads : /\ At(t, "kill")' <=> At(t, "kill")
                              /\ At(t, "wait")' <=> At(t, "wait")
                              /\ At(t, "kill") \/ At(t, "wait") => uses'[t] = uses[t],
           \A p \in Pids : child'[p] = "alive" <=> child[p] = "alive",
           astray' \/ \A p \in Dead \ Own : p \in Dead'
    PROVE  Covered'
  <1>1. \A t \in Threads : At(t, "kill") \/ At(t, "wait") => process_pid[uses[t]] \in Pids
    BY HandsApart, OwnPid DEF PidsKept, InUse, At
  <1>2. Claims' = Claims /\ \A t \in Claims : uses'[t] = uses[t]
    BY <1>1 DEF Claims
  <1>3. Own' \subseteq Own
    BY <1>2, OwnDef
  <1>4. CASE astray'
    BY <1>4 DEF Covered
  <1>5. CASE \A p \in Dead \ Own : p \in Dead'
    <2>1. Dead \ Own \subseteq (Dead \ Own)'
      BY <1>3, <1>5
    <2>2. QED  BY <1>2, <2>1, CoveredStill
  <1>6. QED  BY <1>4, <1>5

\* alive() of an engine that no thread kills takes no dead child but its own, or goes astray.
LEMMA PollOwn ==
    ASSUME TypeOK, PidsKept, NEW e \in Engines, is_initalized[e], Poll(e),
           \A t \in Claims : uses[t] # e
    PROVE  /\ astray => astray'
           /\ \A p \in Pids : child'[p] = "alive" <=> child[p] = "alive"
           /\ astray' \/ \A p \in Dead \ Own : p \in Dead'
  <1>1. \A p \in Pids : \/ child'[p] = child[p]
                        \/ p = process_pid[e] /\ child[p] = "zombie" /\ child'[p] = "reaped"
    BY ReapOnly DEF Poll
  <1>2. (astray => astray') /\ (startup_error[e] /\ process_pid[e] \in Dead => astray')
    BY DEF Poll
  <1>3. ~startup_error[e] => process_pid[e] \in Own
    BY OwnDef DEF Runs
  <1>4. QED  BY <1>1, <1>2, <1>3 DEF Dead

LEMMA CoveredStep ==
    ASSUME TypeOK, TypeOK', Hands, Budget, PidsKept, Covered, Step
    PROVE  Covered'
  <1> USE Finite, ProcessesAssumption
  <1>0. PidsKept /\ InUse /\ KillAwaited /\ PidsGiven
    BY DEF PidsKept
  <1>1. CASE UNCHANGED vars
    BY <1>1, CoveredQuiet DEF vars, engine, kernel, Runs, At, Dead
  <1>2. ASSUME NEW w \in Workers,
               \/ Begin(w) \/ Borrow(w) \/ Acquire(w) \/ Release(w) \/ EndGame(w) \/ StartFails(w) \/ StartThrows(w)
               \/ Push(w, "push", "hello") \/ Push(w, "relist", "play")
               \/ SpawnFails(w, "spawn", "release") \/ SpawnFails(w, "respawn", "play")
        PROVE  /\ UNCHANGED <<child, astray>>
               /\ \A t \in Threads : /\ At(t, "kill")' <=> At(t, "kill")
                                     /\ At(t, "wait")' <=> At(t, "wait")
                                     /\ At(t, "kill") \/ At(t, "wait") => uses'[t] = uses[t]
    <2>1. CASE Begin(w)
      BY <2>1 DEF Begin, Go, At, TypeOK, kernel
    <2>2. CASE Borrow(w)
      <3>1. PICK e \in Engines : /\ uses' = [uses EXCEPT ![w] = e]
                                 /\ Go(w, IF initialized[e] THEN "play" ELSE "acquire")
        BY <2>2 DEF Borrow
      <3>2. QED  BY <2>2, <3>1 DEF Borrow, Go, At, TypeOK, kernel
    <2>3. CASE Acquire(w)
      BY <2>3 DEF Acquire, Go, At, TypeOK, kernel
    <2>4. CASE EndGame(w) \/ StartFails(w) \/ StartThrows(w)
      BY <2>4 DEF EndGame, StartFails, StartThrows, Return, Go, At, TypeOK, kernel
    <2>5. CASE Push(w, "push", "hello") \/ Push(w, "relist", "play")
      BY <2>5 DEF Push, Go, At, TypeOK
    <2>6. CASE SpawnFails(w, "spawn", "release") \/ SpawnFails(w, "respawn", "play")
      BY <2>6 DEF SpawnFails, Go, At, TypeOK, kernel
    <2>7. CASE Release(w)
      <3>1. PICK woken \in SUBSET Sleeping :
              pc' = [t \in Threads |-> IF t = w THEN Started(w) ELSE IF t \in woken THEN "acquire" ELSE pc[t]]
        BY <2>7 DEF Release
      <3>2. Started(w) \in {"thrown", "play", "failed"}
        BY DEF Started
      <3>3. QED  BY <2>7, <3>1, <3>2 DEF Release, At, Sleeping, kernel
    <2>8. QED  BY <1>2, <2>1, <2>2, <2>3, <2>4, <2>5, <2>6, <2>7
  <1>3. ASSUME NEW w \in Workers, Hello(w) \/ Command(w)
        PROVE  /\ astray => astray'
               /\ \A p \in Pids : child'[p] = "alive" <=> child[p] = "alive"
               /\ astray' \/ \A p \in Dead \ Own : p \in Dead'
               /\ \A t \in Threads : /\ At(t, "kill")' <=> At(t, "kill")
                                     /\ At(t, "wait")' <=> At(t, "wait")
                                     /\ At(t, "kill") \/ At(t, "wait") => uses'[t] = uses[t]
    <2>1. /\ uses[w] \in Engines /\ \A t \in Threads : t # w => uses[t] # uses[w]
          /\ is_initalized[uses[w]] /\ pc[w] \in {"hello", "play"}
      BY <1>0, <1>3, HandsApart DEF Hello, Command, At, InUse, Runs
    <2>2. Poll(uses[w]) /\ \A t \in Claims : uses[t] # uses[w]
      BY <1>3, <2>1 DEF Hello, Command, Claims, At
    <2>3. UNCHANGED uses /\ (UNCHANGED pc \/ \E next \in {"release", "unwind", "unlist"} : Go(w, next))
      BY <1>3 DEF Hello, Command
    <2>4. \A t \in Threads : (At(t, "kill")' <=> At(t, "kill")) /\ (At(t, "wait")' <=> At(t, "wait"))
      BY <2>1, <2>3 DEF Go, At, TypeOK
    <2>5. QED  BY <1>0, <2>1, <2>2, <2>3, <2>4, PollOwn
  <1>4. ASSUME NEW w \in Workers, NEW at \in {"spawn", "respawn"}, NEW next \in {"push", "relist"}, Spawn(w, at, next)
        PROVE  Covered'
    <2>0. PICK b \in Pids : b = born'
      BY <1>4, SpawnGives
    <2>1. /\ pc'[w] = next /\ uses' = uses /\ pc[w] = at
          /\ \A t \in Threads : t # w => uses[t] # uses[w] /\ pc'[t] = pc[t]
      BY <1>4, SpawnGives
    <2>a. astray' = astray
      BY <1>4 DEF Spawn
    <2>2. /\ process_pid'[uses[w]] = b /\ child[b] = "none" /\ \A p \in Pids : p # b => child'[p] = child[p]
          /\ \A e \in Engines : /\ process_pid[e] # b
                                /\ e # uses[w] => process_pid'[e] = process_pid[e] /\ Runs(e)' = Runs(e)
      BY <1>4, <2>0, SpawnGives
    <2>3. \A t \in Threads : At(t, "kill") => uses[t] \in Engines /\ process_pid[uses[t]] \in Pids
      BY <1>0, HandsApart, OwnPid DEF InUse, At
    <2>4. Claims' = Claims
      BY <2>1, <2>2, <2>3 DEF Claims, At
    <2>5. Dead \ Own \subseteq Dead'
      BY <2>2 DEF Dead
    <2>6. \A p \in Dead : p \in Own' => p \in Own
      <3>1. ASSUME NEW p \in Dead, p \in Own'
            PROVE  p \in Own
        <4>1. PICK e \in Engines : process_pid'[e] = p /\ Runs(e)' /\ \A t \in Claims' : uses'[t] # e
          BY <3>1, OwnDef
        <4>2. e # uses[w]
          BY <2>2, <3>1, <4>1 DEF Dead
        <4>3. process_pid[e] = p /\ Runs(e) /\ \A t \in Claims : uses[t] # e
          BY <2>1, <2>2, <2>4, <4>1, <4>2
        <4>4. QED  BY <4>3, OwnDef
      <3>2. QED  BY <3>1
    <2>7. Dead \ Own \subseteq (Dead \ Own)'
      BY <2>5, <2>6
    <2>8. QED  BY <2>a, <2>4, <2>7, CoveredStill
  <1>5. ASSUME NEW t \in Threads, Unlist(t, After(t))
        PROVE  /\ UNCHANGED <<child, astray>>
               /\ \A u \in Threads : /\ At(u, "kill")' <=> At(u, "kill")
                                     /\ At(u, "wait")' <=> At(u, "wait")
                                     /\ At(u, "kill") \/ At(u, "wait") => uses'[u] = uses[u]
    BY <1>5 DEF Unlist, Go, At, After, TypeOK
  <1>6. ASSUME NEW t \in Threads, Check(t, After(t))
        PROVE  Covered'
    <2>1. /\ pc[t] = "check" /\ uses[t] \in Engines /\ Runs(uses[t]) /\ \A u \in Threads : u # t => uses[u] # uses[t]
          /\ process_pid[uses[t]] \in Pids
      BY <1>0, <1>6, HandsApart, OwnPid DEF Check, At, InUse
    <2>2. \A p \in Pids : \/ child'[p] = child[p]
                          \/ p = process_pid[uses[t]] /\ child[p] = "zombie" /\ child'[p] = "reaped"
      <3>1. Reap(process_pid[uses[t]])
        BY <1>6 DEF Check
      <3>2. QED  BY <3>1, ReapOnly
    <2>3. child[process_pid[uses[t]]] # "killed"
      BY <1>0, <2>1 DEF KillAwaited, At
    <2>4. /\ UNCHANGED <<process_pid, uses, startup_error, astray>>
          /\ \A u \in Threads : u # t => pc'[u] = pc[u]
          /\ pc'[t] # "wait" /\ (pc'[t] = "kill" => child[process_pid[uses[t]]] = "alive")
          /\ \A e \in Engines : is_initalized'[e] => is_initalized[e]
      BY <1>6, <2>3 DEF Check, Go, After, TypeOK
    <2>5. \A u \in Threads : At(u, "kill") => uses[u] \in Engines /\ process_pid[uses[u]] \in Pids
      BY <1>0, HandsApart, OwnPid DEF InUse, At
    <2>6. t \notin Claims /\ Claims' = Claims
      BY <2>1, <2>2, <2>4, <2>5 DEF Claims, At
    <2>7. process_pid[uses[t]] \in Own
      BY <2>1, <2>6, OwnDef DEF Claims
    <2>8. Own' \subseteq Own
      BY <2>4, <2>6, OwnDef DEF Runs
    <2>9. Dead \ Own \subseteq (Dead \ Own)'
      BY <2>2, <2>7, <2>8 DEF Dead
    <2>10. QED  BY <2>4, <2>6, <2>9, CoveredStill
  <1>7. ASSUME NEW t \in Threads, Kill(t)
        PROVE  Covered'
    <2>1. /\ pc[t] = "kill" /\ uses[t] \in Engines /\ Runs(uses[t]) /\ process_pid[uses[t]] \in Pids
          /\ \A e \in Engines : process_pid[e] = process_pid[uses[t]] => e = uses[t]
      BY <1>0, <1>7, HandsApart, OwnPid DEF Kill, At, InUse
    <2>2. /\ UNCHANGED <<process_pid, uses, startup_error, is_initalized, astray>>
          /\ pc'[t] = "wait" /\ \A u \in Threads : u # t => pc'[u] = pc[u]
      BY <1>7 DEF Kill, Go, TypeOK, engine
    <2>3. /\ \A p \in Pids : p # process_pid[uses[t]] => child'[p] = child[p]
          /\ child[process_pid[uses[t]]] # "alive" => UNCHANGED child
          /\ child[process_pid[uses[t]]] = "alive" => child'[process_pid[uses[t]]] = "killed"
      BY <1>7, <2>1 DEF Kill, TypeOK
    <2>4. \A u \in Threads : At(u, "kill") => /\ uses[u] \in Engines /\ process_pid[uses[u]] \in Pids
                                              /\ u # t => uses[u] # uses[t]
      BY <1>0, <2>1, HandsApart, OwnPid DEF InUse, At
    <2>a. \A u \in Threads : u # t /\ At(u, "kill") => child'[process_pid'[uses'[u]]] = child[process_pid[uses[u]]]
      <3>1. \A u \in Threads : u # t /\ At(u, "kill") => process_pid[uses[u]] \in Pids /\ process_pid[uses[u]] # process_pid[uses[t]]
        BY <2>1, <2>4
      <3>2. \A u \in Threads : u # t /\ At(u, "kill") => child'[process_pid[uses[u]]] = child[process_pid[uses[u]]]
        BY <2>3, <3>1
      <3>3. QED  BY <2>2, <3>2
    <2>5. Claims' = Claims \cup {t}
      BY <2>1, <2>2, <2>a DEF Claims, At
    <2>6. Own' \subseteq Own /\ process_pid[uses[t]] \notin Own'
      BY <2>1, <2>2, <2>5, OwnDef DEF Runs
    <2>7. CASE child[process_pid[uses[t]]] = "alive"
      <3>1. process_pid[uses[t]] \notin Dead
        BY <2>7 DEF Dead
      <3>2. (Dead \ Own) \cup {process_pid[uses[t]]} \subseteq (Dead \ Own)'
        BY <2>1, <2>3, <2>6, <2>7 DEF Dead
      <3>3. QED  BY <2>2, <2>5, <3>1, <3>2, CoveredMore
    <2>8. CASE child[process_pid[uses[t]]] # "alive"
      <3>1. t \in Claims
        BY <2>1, <2>8 DEF Claims, At
      <3>2. Dead \ Own \subseteq (Dead \ Own)' /\ Claims' \subseteq Claims
        BY <2>3, <2>5, <2>6, <2>8, <3>1 DEF Dead
      <3>3. QED  BY <2>2, <3>2, CoveredStill
    <2>9. QED  BY <2>7, <2>8
  <1>8. ASSUME NEW t \in Threads, Wait(t, After(t))
        PROVE  Covered'
    <2>1. pc[t] = "wait" /\ uses[t] \in Engines /\ t \in Claims
      BY <1>8, HandsApart DEF Wait, At, Claims
    <2>2. /\ UNCHANGED <<process_pid, uses, startup_error, astray>>
          /\ \A u \in Threads : u # t => pc'[u] = pc[u]
          /\ pc'[t] \notin {"kill", "wait"}
          /\ is_initalized' = [is_initalized EXCEPT ![uses[t]] = FALSE]
      BY <1>8 DEF Wait, Go, After, TypeOK
    <2>a. UNCHANGED child \/ \E p \in Pids : Reap(p)
      BY <1>8 DEF Wait, Reap
    <2>3. PICK p : \A q \in Pids : child'[q] = child[q] \/ (q = p /\ child[q] = "zombie" /\ child'[q] = "reaped")
      BY <2>a DEF Reap, TypeOK
    <2>4. \A u \in Threads : At(u, "kill") => uses[u] \in Engines /\ process_pid[uses[u]] \in Pids
      BY <1>0, HandsApart, OwnPid DEF InUse, At
    <2>5. Claims' = Claims \ {t}
      BY <2>1, <2>2, <2>3, <2>4 DEF Claims, At
    <2>6. Own' \subseteq Own
      BY <2>1, <2>2, <2>5, OwnDef DEF Runs, TypeOK
    <2>7. (Dead \ Own) \ {p} \subseteq (Dead \ Own)'
      BY <2>3, <2>6 DEF Dead
    <2>8. QED  BY <2>1, <2>2, <2>5, <2>7, CoveredLess
  <1>9. ASSUME NEW e \in Engines, Destroy(e)
        PROVE  Covered'
    <2>1. is_initalized[e] /\ \A t \in Threads : pc[t] = "idle"
      BY <1>9 DEF Destroy, At, Idle
    <2>2. \A t \in Threads : pc'[t] \in {"idle", "unlist"}
      BY <1>9, <2>1 DEF Destroy, Go, TypeOK
    <2>3. UNCHANGED process_pid /\ \A f \in Engines : Runs(f)' => Runs(f)
      BY <1>9 DEF Destroy, Runs, engine
    <2>4. UNCHANGED <<child, astray>> \/ Poll(e)
      BY <1>9 DEF Destroy
    <2>5. /\ astray => astray'
          /\ \A p \in Pids : child'[p] = "alive" <=> child[p] = "alive"
          /\ astray' \/ \A p \in Dead \ Own : p \in Dead'
      <3>1. CASE UNCHANGED <<child, astray>>
        BY <3>1 DEF Dead
      <3>2. CASE Poll(e)
        BY <2>1, <3>2, PollOwn DEF Claims, At
      <3>3. QED  BY <2>4, <3>1, <3>2
    <2>6. QED  BY <2>1, <2>2, <2>3, <2>5, CoveredQuiet DEF At
  <1>10. CASE stopProcesses
    <2>1. Claims' = {}
      BY <1>10 DEF stopProcesses, Claims, Idle, At, Go, TypeOK
    <2>2. Cardinality(Claims') = 0
      BY <2>1, FS_EmptySet
    <2>3. QED  BY <2>2, CoverFiniteNext DEF Covered
  <1>11. ASSUME NEW p \in Pids, Exits(p)
         PROVE  Covered'
    <2>1. /\ UNCHANGED <<process_pid, uses, pc, startup_error, is_initalized, astray>>
          /\ child[p] = "alive" /\ child'[p] = "zombie" /\ \A q \in Pids : q # p => child'[q] = child[q]
      BY <1>11 DEF Exits, engine, TypeOK
    <2>2. \A u \in Threads : At(u, "kill") => /\ uses[u] \in Engines /\ process_pid[uses[u]] \in Pids
                                              /\ \A e \in Engines : process_pid[e] = process_pid[uses[u]] => e = uses[u]
                                              /\ \A t \in Threads : t # u => uses[t] # uses[u]
      BY <1>0, HandsApart, OwnPid DEF InUse, At
    <2>3. Claims \subseteq Claims'
      BY <2>1, <2>2 DEF Claims, At
    <2>4. Own' \subseteq Own
      BY <2>1, <2>3, OwnDef DEF Runs
    <2>5. p \notin Dead /\ p \in Dead' /\ Dead \subseteq Dead'
      BY <2>1 DEF Dead
    <2>6. CASE \E t \in Threads : At(t, "kill") /\ process_pid[uses[t]] = p
      <3>1. PICK t \in Threads : At(t, "kill") /\ process_pid[uses[t]] = p
        BY <2>6
      <3>2. Claims' \subseteq Claims \cup {t} /\ t \in Claims'
        BY <2>1, <2>2, <3>1 DEF Claims, At
      <3>3. p \notin Own'
        BY <2>1, <2>2, <3>1, <3>2, OwnDef
      <3>4. (Dead \ Own) \cup {p} \subseteq (Dead \ Own)'
        BY <2>4, <2>5, <3>3
      <3>5. QED  BY <2>1, <2>5, <3>2, <3>4, CoveredMore
    <2>7. CASE \A t \in Threads : At(t, "kill") => process_pid[uses[t]] # p
      <3>1. Claims' \subseteq Claims
        BY <2>1, <2>2, <2>7 DEF Claims, At
      <3>2. Dead \ Own \subseteq (Dead \ Own)'
        BY <2>4, <2>5
      <3>3. QED  BY <2>1, <3>1, <3>2, CoveredStill
    <2>8. QED  BY <2>6, <2>7
  <1>12. ASSUME Stop \/ (\E p \in Pids : Dies(p))
         PROVE  /\ UNCHANGED <<astray, pc, uses>>
                /\ \A p \in Pids : (child'[p] = "alive" <=> child[p] = "alive") /\ (p \in Dead <=> p \in Dead')
    BY <1>12 DEF Stop, Dies, Dead, kernel, TypeOK
  <1>13. CASE \A w \in Workers : ~Spawn(w, "spawn", "push") /\ ~Spawn(w, "respawn", "relist")
    <2>1. UNCHANGED process_pid /\ \A e \in Engines : Runs(e)' => Runs(e)
      BY <1>13, NoSpawn
    <2>2. ASSUME astray => astray',
                 \A t \in Threads : /\ At(t, "kill")' <=> At(t, "kill")
                                    /\ At(t, "wait")' <=> At(t, "wait")
                                    /\ At(t, "kill") \/ At(t, "wait") => uses'[t] = uses[t],
                 \A p \in Pids : child'[p] = "alive" <=> child[p] = "alive",
                 astray' \/ \A p \in Dead \ Own : p \in Dead'
          PROVE  Covered'
      BY <2>1, <2>2, CoveredQuiet
    <2>3. UNCHANGED child => \A p \in Dead : p \in Dead'
      BY DEF Dead
    <2>4. \A p \in Dead : p \in Pids
      BY DEF Dead
    <2>5. QED
      BY <1>1, <1>2, <1>3, <1>5, <1>6, <1>7, <1>8, <1>9, <1>10, <1>11, <1>12, <1>13, <2>2, <2>3, <2>4 DEF Step, At
  <1>14. QED  BY <1>4, <1>13


-----------------------------------------------------------------------------
(* The invariant, and what it says.                                        *)

LEMMA Initially ==
    ASSUME Init
    PROVE  IInv
  <1> USE Finite, ProcessesAssumption DEF Init
  <1>1. TypeOK
    <2>1. /\ born \in 0..(MaxGames + MaxRestarts) /\ process_pid \in [Engines -> 0..born]
          /\ games \in 0..MaxGames /\ restarts \in 0..MaxRestarts /\ failures \in 0..MaxFailures
      OBVIOUS
    <2>2. /\ child \in [Pids -> States] /\ process_list \in SUBSET Pids /\ current \in Nat
          /\ is_initalized \in [Engines -> BOOLEAN] /\ startup_error \in [Engines -> BOOLEAN]
          /\ initialized \in [Engines -> BOOLEAN] /\ uses \in [Threads -> Engines \cup {None}]
          /\ stop \in BOOLEAN /\ astray \in BOOLEAN
      BY DEF States
    <2>3. /\ pc \in [Threads -> Places \cup MainPlaces] /\ pc[Main] \in MainPlaces
          /\ \A w \in Workers : pc[w] \in Places
      BY DEF Places, MainPlaces
    <2>4. QED  BY <2>1, <2>2, <2>3 DEF TypeOK
  <1>2. Hands
    BY DEF Hands
  <1>3. ToSpawn = {} /\ Holders = {} /\ Sleeping = {} /\ Claims = {}
    BY DEF ToSpawn, Holders, Sleeping, Claims, At
  <1>4. Budget /\ AtMostSlots /\ NoIdleSlot
    BY <1>3, FS_EmptySet DEF Budget, AtMostSlots, NoIdleSlot
  <1>5. PidsKept
    BY DEF PidsKept, PidsGiven, PidsApart, InUse, Restarting, KillAwaited, Runs, At, Pids
  <1>6. Tracked
    BY DEF Tracked
  <1>7. Covered
    <2>1. Cardinality(Claims) = 0
      BY <1>3, FS_EmptySet
    <2>2. QED  BY <2>1, CoverFinite DEF Covered
  <1>8. QED  BY <1>1, <1>2, <1>4, <1>5, <1>6, <1>7 DEF IInv

LEMMA Inductive ==
    ASSUME IInv, [Next]_vars
    PROVE  IInv'
  <1>1. Step
    BY Steps
  <1>2. TypeOK' /\ Hands'
    BY <1>1, TypeStep, HandsStep DEF IInv
  <1>3. Budget' /\ AtMostSlots' /\ NoIdleSlot'
    BY <1>1, <1>2, BudgetStep, SlotsStep, NoIdleStep DEF IInv
  <1>4. PidsKept' /\ Tracked' /\ Covered'
    BY <1>1, <1>2, PidsStep, TrackedStep, CoveredStep DEF IInv
  <1>5. QED  BY <1>2, <1>3, <1>4 DEF IInv

\* The invariant holds in every state: the steps of uci_engine.cpp, process_posix.hpp and main keep it.
THEOREM Invariant == Spec => []IInv
  <1>1. Init => IInv
    BY Initially
  <1>2. IInv /\ [Next]_vars => IInv'
    BY Inductive
  <1>3. QED  BY <1>1, <1>2, PTL DEF Spec

\* Every variable keeps its type; there is a pid for every process init starts, so the bounds cut nothing off.
THEOREM TypeCorrect == Spec => []TypeOK
  <1>1. IInv => TypeOK
    BY DEF IInv
  <1>2. QED  BY <1>1, Invariant, PTL

\* engine/uci_engine.cpp:225: however many workers there are, no more than Slots engines are between acquire
\* and the end of start at once.
THEOREM AtMostSlotsAlways == Spec => []AtMostSlots
  <1>1. IInv => AtMostSlots
    BY DEF IInv
  <1>2. QED  BY <1>1, Invariant, PTL

\* No worker sleeps at the semaphore beside a free slot: notify_one of one that leaves is enough, though a
\* worker that arrives may take the slot before the one that was woken.
THEOREM NoIdleSlotAlways == Spec => []NoIdleSlot
  <1>1. IInv => NoIdleSlot
    BY DEF IInv
  <1>2. QED  BY <1>1, Invariant, PTL

\* When main has returned no engine is alive, whatever was restarted, died or failed to start on the way.
THEOREM NoneOutlivesAlways == Spec => []NoneOutlives
  <1>1. IInv => NoneOutlives
    BY DEF IInv, Tracked, NoneOutlives
  <1>2. QED  BY <1>1, Invariant, PTL

\* A thread in wait(nullptr) always has a dead child to take, although any thread may take any: the bound on
\* how many threads wait at once that no test can try.
THEOREM EnoughDeadAlways == Spec => []EnoughDead
  <1>1. ASSUME Covered
        PROVE  EnoughDead
    <2>1. Waiting \subseteq Claims /\ Dead \ Own \subseteq Dead /\ Dead \subseteq Pids
      BY DEF Waiting, Claims, Dead, At
    <2>2. Cardinality(Waiting) <= Cardinality(Claims) /\ Cardinality(Waiting) \in Nat
      BY <2>1, CoverFinite, FS_Subset, FS_CardinalityType
    <2>3. Cardinality(Dead \ Own) <= Cardinality(Dead) /\ Cardinality(Dead) \in Nat
      BY <2>1, Finite, FS_Subset, FS_CardinalityType
    <2>4. QED  BY <1>1, <2>2, <2>3, CoverFinite DEF Covered, EnoughDead
  <1>2. QED  BY <1>1, Invariant, PTL DEF IInv

===============================================================================
