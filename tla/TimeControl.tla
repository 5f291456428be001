---------------------------- MODULE TimeControl ----------------------------
(***************************************************************************)
(* The clock of a player (time/timecontrol.cpp): the limits it is given and *)
(* what it does with the time of a move.  The unit of time is abstract.     *)
(***************************************************************************)
EXTENDS Integers

\* TimeControl::Limits
LimitSet == [increment : Nat, fixed_time : Nat, time : Nat, moves : Nat, timemargin : Nat]

Larger(a, b) == IF a >= b THEN a ELSE b

\* TimeControl(limits)
Clock(limits) ==
    [time_left |-> IF limits.fixed_time # 0 THEN limits.fixed_time ELSE limits.time + limits.increment,
     moves_left |-> limits.moves]

\* Without any time there is nothing to run out of.
Unlimited(limits) == limits.fixed_time = 0 /\ limits.time + limits.increment = 0

\* The move that is made counts for its control; the last one of a control brings the time of the next.
Counted(limits, clock) ==
    IF limits.moves = 0 THEN clock
    ELSE IF clock.moves_left = 1
    THEN [time_left |-> clock.time_left + limits.time, moves_left |-> limits.moves]
    ELSE [clock EXCEPT !.moves_left = @ - 1]

Left(limits, clock, elapsed) == Counted(limits, clock).time_left - elapsed

\* updateTime returns false.
Exceeded(limits, clock, elapsed) ==
    ~Unlimited(limits) /\ Left(limits, clock, elapsed) < -limits.timemargin

\* Faulty variant of updateTime: the increment is forgotten.
updateTimeNoIncrement(limits, clock, elapsed) ==
    LET counted == Counted(limits, clock) IN
    IF Unlimited(limits) THEN counted
    ELSE IF Exceeded(limits, clock, elapsed) THEN [counted EXCEPT !.time_left = @ - elapsed]
    ELSE [counted EXCEPT !.time_left = IF limits.fixed_time # 0 THEN limits.fixed_time
                                       ELSE Larger(@ - elapsed, 0)]

\* updateTime: what is left of the clock after the move.
updateTime(limits, clock, elapsed) ==
    LET counted == Counted(limits, clock) IN
    IF Unlimited(limits) THEN counted
    ELSE IF Exceeded(limits, clock, elapsed) THEN [counted EXCEPT !.time_left = @ - elapsed]
    ELSE [counted EXCEPT !.time_left = IF limits.fixed_time # 0 THEN limits.fixed_time
                                       ELSE Larger(@ - elapsed, 0) + limits.increment]

=============================================================================
