-------------------------------- MODULE Tally --------------------------------
(***************************************************************************)
(* What a reader of the printed score may rely on: the score only grows,   *)
(* by a whole batch of games at a time (one game, or a pair of games when  *)
(* pairs are tracked), each game adding one to exactly one of win, loss    *)
(* and draw; and a restart brings back a score that was saved before.      *)
(***************************************************************************)
EXTENDS Integers

CONSTANT Batch   \* games added at a time

VARIABLES tally, checkpoint

Zero == [win |-> 0, loss |-> 0, draw |-> 0]

Gains == {gain \in [win : 0..Batch, loss : 0..Batch, draw : 0..Batch] :
             gain.win + gain.loss + gain.draw = Batch}

Init == tally = Zero /\ checkpoint = Zero

Add(gain) ==
    /\ tally' = [k \in DOMAIN tally |-> tally[k] + gain[k]]
    /\ UNCHANGED checkpoint

Save == checkpoint' = tally /\ UNCHANGED tally

Restore == tally' = checkpoint /\ UNCHANGED checkpoint

Next == (\E gain \in Gains : Add(gain)) \/ Save \/ Restore

Spec == Init /\ [][Next]_<<tally, checkpoint>>
=============================================================================
