------------------------------- MODULE Lease -------------------------------
(***************************************************************************)
(* What a game may rely on when it takes an engine or a core: a resource   *)
(* it holds is held by no other game, and stays with it until it gives it  *)
(* back.                                                                    *)
(***************************************************************************)
CONSTANTS Holders, Resources

VARIABLE leases   \* a set of pairs <<holder, resource>>

Held == {lease[2] : lease \in leases}

Init == leases = {}

Grant(h, r) == r \notin Held /\ leases' = leases \cup {<<h, r>>}

Return(h, r) == <<h, r>> \in leases /\ leases' = leases \ {<<h, r>>}

Next == \E h \in Holders, r \in Resources : Grant(h, r) \/ Return(h, r)

Spec == Init /\ [][Next]_leases
=============================================================================
