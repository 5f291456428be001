----------------------------- MODULE CachePool -----------------------------
(***************************************************************************)
(* util::CachePool (util/cache.hpp) with the ScopeGuard of each entry: the *)
(* workers borrow engines by name and give them back when the guard goes   *)
(* out of scope.  getEntry holds access_mutex_ while it walks the deque,   *)
(* but release() only stores the atomic available_, so an entry may become *)
(* free at any point of another thread's walk: each entry visited is a     *)
(* step of its own.                                                        *)
(***************************************************************************)
EXTENDS Naturals, Sequences, FiniteSets

CONSTANTS Workers,    \* the worker threads
          Ids,        \* engine names
          NoWorker    \* access_mutex_ is free

ASSUME CachePoolAssumption ==
    /\ NoWorker \notin Workers
    /\ IsFiniteSet(Workers)
    /\ IsFiniteSet(Ids)

VARIABLES cache,         \* cache_: the entries, each with its id and available_
          access_mutex,  \* the thread inside getEntry
          scan,          \* the identifier and the position of that thread's walk
          held           \* the entries each thread has a ScopeGuard for

vars == <<cache, access_mutex, scan, held>>

-----------------------------------------------------------------------------

\* The entry at the position of the walk can be taken.
Fits == cache[scan.at].available /\ cache[scan.at].id = scan.id

\* getEntry(identifier, ...): the lock.
getEntry(w, id) ==
    /\ access_mutex = NoWorker
    /\ access_mutex' = w
    /\ scan' = [id |-> id, at |-> 1]
    /\ UNCHANGED <<cache, held>>

\* Faulty variant of Skip: it passes over two entries at a time.
SkipTwo(w) ==
    /\ access_mutex = w
    /\ scan.at <= Len(cache)
    /\ ~Fits
    /\ scan' = [scan EXCEPT !.at = IF Len(cache) < @ + 2 THEN Len(cache) + 1 ELSE @ + 2]
    /\ UNCHANGED <<cache, access_mutex, held>>

\* An entry in use, or of another engine, is passed over.
Skip(w) ==
    /\ access_mutex = w
    /\ scan.at <= Len(cache)
    /\ ~Fits
    /\ scan' = [scan EXCEPT !.at = @ + 1]
    /\ UNCHANGED <<cache, access_mutex, held>>

\* Faulty variant of Take: the entry stays available.
TakeUnmarked(w) ==
    /\ access_mutex = w
    /\ scan.at <= Len(cache)
    /\ Fits
    /\ held' = [held EXCEPT ![w] = @ \cup {scan.at}]
    /\ access_mutex' = NoWorker
    /\ UNCHANGED <<cache, scan>>

\* The first entry that fits is blocked and returned.
Take(w) ==
    /\ access_mutex = w
    /\ scan.at <= Len(cache)
    /\ Fits
    /\ cache' = [cache EXCEPT ![scan.at].available = FALSE]
    /\ held' = [held EXCEPT ![w] = @ \cup {scan.at}]
    /\ access_mutex' = NoWorker
    /\ UNCHANGED scan

\* Faulty variant of Emplace: a new entry is born available.
EmplaceAvailable(w) ==
    /\ access_mutex = w
    /\ scan.at > Len(cache)
    /\ cache' = Append(cache, [id |-> scan.id, available |-> TRUE])
    /\ held' = [held EXCEPT ![w] = @ \cup {Len(cache) + 1}]
    /\ access_mutex' = NoWorker
    /\ UNCHANGED scan

\* No entry fits: cache_.emplace_back, which is born unavailable.
Emplace(w) ==
    /\ access_mutex = w
    /\ scan.at > Len(cache)
    /\ cache' = Append(cache, [id |-> scan.id, available |-> FALSE])
    /\ held' = [held EXCEPT ![w] = @ \cup {Len(cache) + 1}]
    /\ access_mutex' = NoWorker
    /\ UNCHANGED scan

\* ~ScopeGuard(): entry_.release(), without the mutex.
release(w, i) ==
    /\ i \in held[w]
    /\ cache' = [cache EXCEPT ![i].available = TRUE]
    /\ held' = [held EXCEPT ![w] = @ \ {i}]
    /\ UNCHANGED <<access_mutex, scan>>

-----------------------------------------------------------------------------

\* A game asks for one engine of each name, and for nothing inside getEntry.
MayAsk(w, id) == access_mutex # w /\ \A i \in held[w] : cache[i].id # id

Init ==
    /\ cache = << >>
    /\ access_mutex = NoWorker
    /\ scan \in [id : Ids, at : {1}]
    /\ held = [w \in Workers |-> {}]

Next ==
    \E w \in Workers :
        \/ \E id \in Ids : MayAsk(w, id) /\ getEntry(w, id)
        \/ Skip(w)
        \/ Take(w)
        \/ Emplace(w)
        \/ access_mutex # w /\ \E i \in held[w] : release(w, i)

Spec == Init /\ [][Next]_vars

-----------------------------------------------------------------------------

\* Every variable has its type: the walk stays inside the deque and guards
\* refer to entries that exist.
TypeOK ==
    /\ cache \in Seq([id : Ids, available : BOOLEAN])
    /\ access_mutex \in Workers \cup {NoWorker}
    /\ scan \in [id : Ids, at : 1..(Len(cache) + 1)]
    /\ held \in [Workers -> SUBSET DOMAIN cache]

\* Two games never talk to one engine process (cache.hpp:38-47): no entry has
\* two guards, although entries are released outside the mutex.
Exclusive == \A v, w \in Workers : v # w => held[v] \cap held[w] = {}

\* An entry is unavailable exactly while some guard refers to it: an engine is
\* neither handed out twice nor lost to the pool (scope_guard.hpp:29).
UnavailableIffHeld ==
    \A i \in DOMAIN cache : ~cache[i].available <=> \E w \in Workers : i \in held[w]

\* The pool starts at most one process of an engine per worker, however the
\* walks and the releases interleave (cache.hpp:41-50): a walk that misses a
\* release cannot miss all of them.
EnginesBounded ==
    \A id \in Ids :
        Cardinality({i \in DOMAIN cache : cache[i].id = id}) <= Cardinality(Workers)

-----------------------------------------------------------------------------

EngineLease == INSTANCE Lease WITH
    Holders <- Workers,
    Resources <- 1..(Cardinality(Workers) * Cardinality(Ids)),
    leases <- {lease \in Workers \X DOMAIN cache : lease[2] \in held[lease[1]]}

\* The pool implements the lease of a resource to one holder at a time.
ImplementsLease == EngineLease!Spec
=============================================================================
