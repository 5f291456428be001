------------------------------ MODULE TaskPool ------------------------------
(***************************************************************************)
(* What the tournament relies on in its pool of threads: tasks start in    *)
(* the order they were submitted, each on a thread that has no other; a    *)
(* closing pool drops the tasks that have not started, and is closed only   *)
(* when no task runs.                                                       *)
(***************************************************************************)
EXTENDS Sequences

CONSTANTS Threads, Tasks, NoTask

VARIABLES queue,     \* the tasks submitted and not started
          running,   \* the task of each thread, or NoTask
          phase      \* "open", "closing" or "closed"

Init ==
    /\ queue = << >>
    /\ running = [t \in Threads |-> NoTask]
    /\ phase = "open"

Submit(task) ==
    /\ phase = "open"
    /\ queue' = Append(queue, task)
    /\ UNCHANGED <<running, phase>>

Start(t) ==
    /\ running[t] = NoTask
    /\ queue # << >>
    /\ running' = [running EXCEPT ![t] = Head(queue)]
    /\ queue' = Tail(queue)
    /\ UNCHANGED phase

Finish(t) ==
    /\ running[t] # NoTask
    /\ running' = [running EXCEPT ![t] = NoTask]
    /\ UNCHANGED <<queue, phase>>

Kill ==
    /\ phase = "open"
    /\ phase' = "closing"
    /\ queue' = << >>
    /\ UNCHANGED running

Join ==
    /\ phase = "closing"
    /\ \A t \in Threads : running[t] = NoTask
    /\ phase' = "closed"
    /\ UNCHANGED <<queue, running>>

Reopen ==
    /\ phase = "closed"
    /\ phase' = "open"
    /\ UNCHANGED <<queue, running>>

Next ==
    \/ \E task \in Tasks : Submit(task)
    \/ \E t \in Threads : Start(t) \/ Finish(t)
    \/ Kill \/ Join \/ Reopen

Spec == Init /\ [][Next]_<<queue, running, phase>>
=============================================================================
