--------------------------- MODULE GameResources ---------------------------
(***************************************************************************)
(* What a game borrows, in the order of BaseTournament::playGame: a        *)
(* processor from the affinity manager, the engine with white and the one  *)
(* with black from the cache; the guards give them back in reverse.        *)
(***************************************************************************)
EXTENDS CachePool

CONSTANT Topologies    \* see AffinityManager

VARIABLES use_affinity, topology, cores, available, core_mutex, at, core, threw,  \* see AffinityManager
          stage,       \* how far playGame of each worker is
          white        \* the engine with white in the game of each worker

Cores == INSTANCE AffinityManager

ASSUME GameResourcesAssumption == Cores!AffinityAssumption

cacheVars == vars
coreVars == <<use_affinity, topology, cores, available, core_mutex, at, core, threw>>
gameVars == <<stage, white>>
allVars == <<cacheVars, coreVars, gameVars>>

-----------------------------------------------------------------------------

\* A step of consume() or of getEntry() of this worker.
InConsume(w) == (Cores!Pass(w) \/ Cores!Take(w)) /\ UNCHANGED <<cacheVars, gameVars>>

InGetEntry(w) == (Skip(w) \/ Take(w) \/ Emplace(w)) /\ UNCHANGED <<coreVars, gameVars>>

\* playGame begins with cores_->consume().
AskCore(w) ==
    /\ stage[w] = "idle"
    /\ Cores!MayConsume(w)
    /\ Cores!consume(w)
    /\ stage' = [stage EXCEPT ![w] = "core"]
    /\ UNCHANGED <<cacheVars, white>>

\* It threw: the game is over before it has an engine.
NoCores(w) ==
    /\ Cores!Throw(w)
    /\ stage' = [stage EXCEPT ![w] = "idle"]
    /\ UNCHANGED <<cacheVars, white>>

AskWhite(w) ==
    /\ stage[w] = "core"
    /\ core[w] # Cores!NoCore
    /\ \E id \in Ids :
          /\ getEntry(w, id)
          /\ white' = [white EXCEPT ![w] = id]
    /\ stage' = [stage EXCEPT ![w] = "white"]
    /\ UNCHANGED coreVars

AskBlack(w) ==
    /\ stage[w] = "white"
    /\ access_mutex # w
    /\ \E id \in Ids \ {white[w]} : getEntry(w, id)
    /\ stage' = [stage EXCEPT ![w] = "black"]
    /\ UNCHANGED <<coreVars, white>>

\* The game is over: ~lock2, ~lock1, and the guard of the core.
ReturnBlack(w) ==
    /\ stage[w] = "black"
    /\ access_mutex # w
    /\ \E i \in held[w] : cache[i].id # white[w] /\ release(w, i)
    /\ stage' = [stage EXCEPT ![w] = "return white"]
    /\ UNCHANGED <<coreVars, white>>

ReturnWhite(w) ==
    /\ stage[w] = "return white"
    /\ \E i \in held[w] : release(w, i)
    /\ stage' = [stage EXCEPT ![w] = "return core"]
    /\ UNCHANGED <<coreVars, white>>

ReturnCore(w) ==
    /\ stage[w] = "return core"
    /\ Cores!release(w)
    /\ stage' = [stage EXCEPT ![w] = "idle"]
    /\ UNCHANGED <<cacheVars, white>>

-----------------------------------------------------------------------------

GamesInit ==
    /\ Init
    /\ Cores!Init
    /\ stage = [w \in Workers |-> "idle"]
    /\ white \in [Workers -> Ids]

Games ==
    \E w \in Workers :
        \/ AskCore(w)
        \/ InConsume(w)
        \/ NoCores(w)
        \/ AskWhite(w)
        \/ AskBlack(w)
        \/ InGetEntry(w)
        \/ ReturnBlack(w)
        \/ ReturnWhite(w)
        \/ ReturnCore(w)

GamesSpec == GamesInit /\ [][Games]_allVars

-----------------------------------------------------------------------------

\* Every variable has its type, and a walk stays inside what it walks.
GamesTypeOK ==
    /\ TypeOK
    /\ Cores!TypeOK
    /\ stage \in [Workers -> {"idle", "core", "white", "black", "return white", "return core"}]
    /\ white \in [Workers -> Ids]

\* The properties of the manager (see there), with games that also borrow engines.
NeverExhausted == Cores!NeverExhausted
CoresApart == Cores!CoresApart
CoresLent == Cores!ImplementsLease
=============================================================================
