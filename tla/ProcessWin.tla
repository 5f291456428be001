----------------------------- MODULE ProcessWin -----------------------------
(***************************************************************************)
(* The Windows implementation of IProcess (engine/process/process_win.hpp) *)
(* as a worker uses it: init, write and read, restart, the destructor.  A  *)
(* read is a thread of its own (std::async) and a wait for its future; the *)
(* future is destroyed when the read returns, which joins the thread.      *)
(***************************************************************************)
EXTENDS Naturals, Sequences

CONSTANTS MaxReads,    \* bound: the reads of the worker
          MaxLines     \* bound: the lines in a pipe that are not read yet

VARIABLES child,       \* the engine: "none", "running" or "exited", and whether it owes an answer
          in_pipe,     \* in_pipe_: the bytes of the child, and of writeToOpenPipes
          listed,      \* its entry in process_list
          is_initalized,
          pc,          \* the worker: "new" (init comes next), "idle" between calls, "wait_for" and "join" in a read, "over"
          timed,       \* the threshold of the read is not 0
          expired,     \* it has elapsed
          future,      \* read_future: "none", "pending", or what the thread returned
          status,      \* what the last read returned
          stop, woken, \* atomic::stop, and writeToOpenPipes has run
          reads

reading == <<timed, expired, future, status, reads>>
main == <<stop, woken>>
vars == <<child, in_pipe, listed, is_initalized, pc, reading, main>>

-----------------------------------------------------------------------------
(* The worker.                                                             *)

\* init: new pipes, and an entry in the list whether CreateProcess succeeds or not.
init ==
    /\ in_pipe' = << >>
    /\ \E state \in {"running", "none"} : child' = [state |-> state, asked |-> FALSE]
    /\ listed' = TRUE
    /\ is_initalized' = TRUE

Start ==
    /\ pc = "new"
    /\ init
    /\ pc' = "idle"
    /\ UNCHANGED <<reading, main>>

killProcess ==
    /\ child' = [state |-> "none", asked |-> FALSE]
    /\ listed' = FALSE /\ is_initalized' = FALSE
    /\ UNCHANGED in_pipe

\* restart: killProcess, and then init.
restart ==
    /\ pc = "idle"
    /\ killProcess
    /\ pc' = "new"
    /\ UNCHANGED <<reading, main>>

\* ~Process
Destroy ==
    /\ pc = "idle"
    /\ killProcess
    /\ pc' = "over"
    /\ UNCHANGED <<reading, main>>

\* writeProcess to a process that is alive.
writeProcess ==
    /\ pc = "idle"
    /\ child.state = "running"
    /\ child' = [child EXCEPT !.asked = TRUE]
    /\ UNCHANGED <<in_pipe, listed, is_initalized, pc, reading, main>>

\* To one that is not: killProcess first, and the write fails.
WriteFails ==
    /\ pc = "idle"
    /\ child.state # "running"
    /\ listed' = FALSE /\ is_initalized' = FALSE
    /\ UNCHANGED <<child, in_pipe, pc, reading, main>>

\* readProcess: the thread is started, with or without a threshold (wait_for(0) does not wait at all).
\* It is asserted that the process is initialized.
readProcess ==
    /\ pc = "idle" /\ is_initalized
    /\ reads < MaxReads
    /\ reads' = reads + 1
    /\ timed' \in BOOLEAN
    /\ expired' = ~timed'
    /\ future' = "pending"
    /\ pc' = "wait_for"
    /\ UNCHANGED <<child, in_pipe, listed, is_initalized, status, main>>

Timer ==
    /\ pc = "wait_for"
    /\ expired' = TRUE
    /\ UNCHANGED <<child, in_pipe, listed, is_initalized, pc, timed, future, status, reads, main>>

\* wait_for returns; what the thread returned is not looked at.
WaitFor ==
    /\ pc = "wait_for"
    /\ \/ future # "pending" /\ status' = "OK"
       \/ future = "pending" /\ expired /\ status' = "TIMEOUT"
    /\ pc' = "join"
    /\ UNCHANGED <<child, in_pipe, listed, is_initalized, timed, expired, future, reads, main>>

\* The destructor of a future of std::async waits for the thread.
Join ==
    /\ pc = "join"
    /\ future # "pending"
    /\ future' = "none"
    /\ pc' = "idle"
    /\ UNCHANGED <<child, in_pipe, listed, is_initalized, timed, expired, status, reads, main>>

-----------------------------------------------------------------------------

\* The thread of the read: ReadFile returns only for bytes, since the tester keeps the end it was given to the
\* child open; the rest of a buffer after the last word is lost.
ReadFile ==
    /\ future = "pending"
    /\ in_pipe # << >>
    /\ in_pipe' = << >>
    /\ future' = IF stop THEN "ERR"
                 ELSE IF \E i \in DOMAIN in_pipe : in_pipe[i] = "last word" THEN "OK" ELSE "pending"
    /\ UNCHANGED <<child, listed, is_initalized, pc, timed, expired, status, reads, main>>

\* The engine prints a line or the last word of its answer, or exits.
Engine ==
    /\ child.state = "running"
    /\ \/ /\ child.asked
          /\ in_pipe' = Append(in_pipe, "last word")
          /\ child' = [child EXCEPT !.asked = FALSE]
       \/ in_pipe' = Append(in_pipe, "line") /\ UNCHANGED child
       \/ child' = [child EXCEPT !.state = "exited"] /\ UNCHANGED in_pipe
    /\ Len(in_pipe') <= MaxLines
    /\ UNCHANGED <<listed, is_initalized, pc, reading, main>>

\* handler, and later main with writeToOpenPipes.
Stop ==
    /\ ~stop
    /\ stop' = TRUE
    /\ UNCHANGED <<child, in_pipe, listed, is_initalized, pc, reading, woken>>

writeToOpenPipes ==
    /\ stop /\ ~woken
    /\ woken' = TRUE
    /\ in_pipe' = IF listed THEN Append(in_pipe, "nul") ELSE in_pipe
    /\ UNCHANGED <<child, listed, is_initalized, pc, reading, stop>>

-----------------------------------------------------------------------------

Init ==
    /\ child = [state |-> "none", asked |-> FALSE]
    /\ in_pipe = << >>
    /\ listed = FALSE /\ is_initalized = FALSE
    /\ pc = "new"
    /\ timed = FALSE /\ expired = FALSE
    /\ future = "none" /\ status = "NONE"
    /\ stop = FALSE /\ woken = FALSE
    /\ reads = 0

Worker == Start \/ restart \/ Destroy \/ writeProcess \/ WriteFails \/ readProcess \/ WaitFor \/ Join

Next == Worker \/ Timer \/ ReadFile \/ Engine \/ Stop \/ writeToOpenPipes

\* Time passes, and the threads of the tester run; the engine need not say anything.
Spec == Init /\ [][Next]_vars /\ WF_vars(Timer) /\ WF_vars(WaitFor \/ Join) /\ WF_vars(ReadFile)

\* process_win.hpp:119: "Read stdout until the line matches last_word or timeout is reached".  A read with a
\* timeout returns.
TimeoutReached == (pc = "wait_for" /\ timed) ~> (pc = "idle")
=============================================================================
