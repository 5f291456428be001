--------------------------- MODULE AffinityManager ---------------------------
(***************************************************************************)
(* affinity::AffinityManager (affinity/affinity_manager.hpp) with the      *)
(* ScopeGuard of the consumed core.  consume() walks the processors under  *)
(* core_mutex_, while release() only stores the atomic available_: each    *)
(* processor visited is a step.                                            *)
(***************************************************************************)
EXTENDS Naturals, Sequences, FiniteSets

CONSTANTS Workers,      \* the worker threads
          NoWorker,     \* core_mutex_ is free
          Topologies    \* the machines: for each physical core the number of its processors

\* Assumed by GameResources, which is built on this module.
AffinityAssumption ==
    /\ NoWorker \notin Workers
    /\ Topologies \subseteq Seq(Nat \ {0})

VARIABLES use_affinity,  \* use_affinity_ after the constructor
          topology,      \* getCpuInfo() of the machine at hand
          cores,         \* cores_: the processors in the order consume() looks at them
          available,     \* available_ of every processor
          core_mutex,    \* the thread inside consume()
          at,            \* the position of that thread's walk
          core,          \* the processor each thread has a guard for, NoCore or NullCore
          threw          \* the threads whose consume() threw "No cores available"

machine == <<use_affinity, topology, cores>>
vars == <<machine, available, core_mutex, at, core, threw>>

-----------------------------------------------------------------------------

\* A processor is named by its physical core and its index idx in that core.
ProcessorsOf(t) == UNION {{c} \X (0..(t[c] - 1)) : c \in DOMAIN t}
Processors == ProcessorsOf(topology)

NoCore == <<0, 0>>
NullCore == <<0, 1>>   \* null_core_, which every game gets without affinity

\* Faulty variant of Group: each core is used up before the next one.
GroupByCore(idx) == "HT_1"

\* The group setupCores gives to the idx-th processor of a core.
Group(idx) == IF idx % 2 = 0 THEN "HT_1" ELSE "HT_2"

\* The order in which consume() looks at the processors: the groups one after the
\* other, each filled core by core.
LooksFirst(p, q) ==
    \/ Group(p[2]) = "HT_1" /\ Group(q[2]) = "HT_2"
    \/ Group(p[2]) = Group(q[2]) /\ (p[1] < q[1] \/ (p[1] = q[1] /\ p[2] < q[2]))

\* setupCores: every processor, in that order (the one sequence in the set).
setupCores(t) ==
    {s \in [1..Cardinality(ProcessorsOf(t)) -> ProcessorsOf(t)] :
        \A i, j \in DOMAIN s : i < j => LooksFirst(s[i], s[j])}

-----------------------------------------------------------------------------

\* consume(): without affinity the null core, else the lock.
consume(w) ==
    IF ~use_affinity
      THEN /\ core' = [core EXCEPT ![w] = NullCore]
           /\ UNCHANGED <<machine, available, core_mutex, at, threw>>
      ELSE /\ core_mutex = NoWorker
           /\ core_mutex' = w
           /\ at' = 1
           /\ UNCHANGED <<machine, available, core, threw>>

\* A processor in use is passed over.
Pass(w) ==
    /\ core_mutex = w
    /\ at <= Len(cores)
    /\ ~available[cores[at]]
    /\ at' = at + 1
    /\ UNCHANGED <<machine, available, core_mutex, core, threw>>

\* Faulty variant of Take: the processor is not marked.
TakeUnmarked(w) ==
    /\ core_mutex = w
    /\ at <= Len(cores)
    /\ available[cores[at]]
    /\ core' = [core EXCEPT ![w] = cores[at]]
    /\ core_mutex' = NoWorker
    /\ UNCHANGED <<machine, available, at, threw>>

\* The first available processor.
Take(w) ==
    /\ core_mutex = w
    /\ at <= Len(cores)
    /\ available[cores[at]]
    /\ available' = [available EXCEPT ![cores[at]] = FALSE]
    /\ core' = [core EXCEPT ![w] = cores[at]]
    /\ core_mutex' = NoWorker
    /\ UNCHANGED <<machine, at, threw>>

\* throw std::runtime_error("No cores available"): no processor is left, or
\* there is none at all.
Throw(w) ==
    /\ core_mutex = w
    /\ at > Len(cores)
    /\ threw' = threw \cup {w}
    /\ core_mutex' = NoWorker
    /\ UNCHANGED <<machine, available, at, core>>

\* Faulty variant of release: the guard forgets its processor.
releaseNothing(w) ==
    /\ core[w] # NoCore
    /\ core' = [core EXCEPT ![w] = NoCore]
    /\ UNCHANGED <<machine, available, core_mutex, at, threw>>

\* ~ScopeGuard(): entry_.release(), without the mutex.
release(w) ==
    /\ core[w] # NoCore
    /\ available' = [p \in Processors |-> available[p] \/ p = core[w]]
    /\ core' = [core EXCEPT ![w] = NoCore]
    /\ UNCHANGED <<machine, core_mutex, at, threw>>

-----------------------------------------------------------------------------

\* A game consumes one core.
MayConsume(w) == core[w] = NoCore /\ core_mutex # w

Init ==
    /\ use_affinity \in BOOLEAN
    /\ topology \in Topologies
    /\ cores \in setupCores(topology)
    /\ available = [p \in Processors |-> TRUE]
    /\ core_mutex = NoWorker
    /\ at = 1
    /\ core = [w \in Workers |-> NoCore]
    /\ threw = {}

Next ==
    \E w \in Workers :
        \/ MayConsume(w) /\ consume(w)
        \/ Pass(w)
        \/ Take(w)
        \/ Throw(w)
        \/ release(w)

Spec == Init /\ [][Next]_vars

-----------------------------------------------------------------------------

\* Every variable has its type.
TypeOK ==
    /\ use_affinity \in BOOLEAN
    /\ topology \in Topologies
    /\ cores \in Seq(Processors)
    /\ available \in [Processors -> BOOLEAN]
    /\ core_mutex \in Workers \cup {NoWorker}
    /\ at \in 1..(Len(cores) + 1)
    /\ core \in [Workers -> Processors \cup {NoCore, NullCore}]
    /\ threw \subseteq Workers

\* consume() never throws while there are no more games than processors
\* (affinity_manager.hpp:63-88): sanitize and resize cap the workers by the
\* hardware threads, and a game whose consume() threw would be lost.
NeverExhausted == Cardinality(Workers) <= Cardinality(Processors) => threw = {}

\* With no more games than physical cores, no two games share a physical core:
\* the purpose the comment at affinity_manager.hpp:43-46 gives for the groups.
\* It needs cores of at most two processors: of four, two are in the first group.
CoresApart ==
    (/\ use_affinity
     /\ Cardinality(Workers) <= Len(topology)
     /\ \A c \in DOMAIN topology : topology[c] <= 2) =>
        \A v, w \in Workers :
            (v # w /\ core[v] # NoCore /\ core[w] # NoCore) => core[v][1] # core[w][1]

CoreLease == INSTANCE Lease WITH
    Holders <- Workers,
    Resources <- UNION {ProcessorsOf(t) : t \in Topologies},
    leases <- {lease \in Workers \X Processors : core[lease[1]] = lease[2]}

\* The manager implements the lease of a processor to one game at a time.
ImplementsLease == CoreLease!Spec
=============================================================================
