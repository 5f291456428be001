------------------------ MODULE GameResources_proofs ------------------------
(***************************************************************************)
(* For any number of workers and engines: an engine process of the pool    *)
(* belongs to one game at a time, none is lost, the pool never starts more *)
(* processes of an engine than there are workers, and it implements Lease. *)
(* For any machines too: what playGame borrows is borrowed as the pool and *)
(* the manager expect it, so that a processor and an engine process are    *)
(* lent to one game at a time; no game fails for want of a processor, and  *)
(* games share no physical core while there is one for each.               *)
(***************************************************************************)
EXTENDS GameResources, FiniteSetTheorems, FunctionTheorems, TLAPS

-----------------------------------------------------------------------------
(* The pool: the inductive invariant.                                      *)

\* A worker holds one entry of an engine at most, and none of the engine it
\* is looking for: a game asks for each of its engines once.
OneOfEach ==
    \A w \in Workers : \A i, j \in held[w] : cache[i].id = cache[j].id => i = j

NoneOfAsked ==
    \A w \in Workers : \A i \in held[w] : access_mutex = w => cache[i].id # scan.id

\* The entries the walk has passed over, and the workers that hold one it has
\* not reached.  A passed entry had a holder, and nobody but the walker can
\* take an entry before the walk ends, so together they are never as many as
\* the workers.
Passed == {i \in 1..(scan.at - 1) : cache[i].id = scan.id}

Ahead == {w \in Workers : \E i \in held[w] : scan.at <= i /\ cache[i].id = scan.id}

WalkBound ==
    access_mutex # NoWorker =>
        Cardinality(Passed) + Cardinality(Ahead) < Cardinality(Workers)

\* The entries of one engine can be given to different workers, whoever holds
\* them now.
Seated(seat) ==
    \A i, j \in DOMAIN cache :
        cache[i].id = cache[j].id /\ seat[i] = seat[j] => i = j

EnoughSeats == \E seat \in [DOMAIN cache -> Workers] : Seated(seat)

Safe == TypeOK /\ UnavailableIffHeld /\ Exclusive

IInv == Safe /\ OneOfEach /\ NoneOfAsked /\ WalkBound /\ EnoughSeats

-----------------------------------------------------------------------------

LEMMA WalkFinite ==
    ASSUME TypeOK
    PROVE  /\ IsFiniteSet(Passed) /\ Cardinality(Passed) \in Nat
           /\ IsFiniteSet(Ahead) /\ Cardinality(Ahead) \in Nat
           /\ Cardinality(Workers) \in Nat
  <1>1. IsFiniteSet(1..(scan.at - 1))
    BY FS_Interval DEF TypeOK
  <1>2. IsFiniteSet(Passed)
    BY <1>1, FS_Subset DEF Passed
  <1>3. IsFiniteSet(Ahead)
    BY FS_Subset, CachePoolAssumption DEF Ahead
  <1> QED  BY <1>2, <1>3, FS_CardinalityType, CachePoolAssumption

Entry == [id : Ids, available : BOOLEAN]

\* Storing available_ leaves the deque and the names of its entries alone.
LEMMA Marked ==
    ASSUME NEW seq \in Seq(Entry), NEW k \in DOMAIN seq, NEW b \in BOOLEAN
    PROVE  LET marked == [seq EXCEPT ![k].available = b] IN
           /\ marked \in Seq(Entry)
           /\ Len(marked) = Len(seq)
           /\ DOMAIN marked = DOMAIN seq
           /\ marked[k].available = b
           /\ \A i \in DOMAIN seq : marked[i].id = seq[i].id
           /\ \A i \in DOMAIN seq \ {k} : marked[i] = seq[i]
  <1> DEFINE marked == [seq EXCEPT ![k] = [@ EXCEPT !.available = b]]
  <1>1. DOMAIN seq = 1..Len(seq) /\ Len(seq) \in Nat /\ \A i \in 1..Len(seq) : seq[i] \in Entry
    OBVIOUS
  <1>2. marked \in [1..Len(seq) -> Entry]
    BY <1>1 DEF Entry
  <1>3. marked \in Seq(Entry) /\ Len(marked) = Len(seq)
    BY <1>1, <1>2
  <1> QED  BY <1>1, <1>2, <1>3 DEF Entry

(* Types, availability and exclusive use are kept by every step.           *)
LEMMA SafeStep ==
    ASSUME Safe, [Next]_vars
    PROVE  Safe'
  <1> USE CachePoolAssumption DEF Safe
  <1>1. ASSUME NEW w \in Workers, NEW id \in Ids, getEntry(w, id)
        PROVE  Safe'
    BY <1>1 DEF getEntry, TypeOK, UnavailableIffHeld, Exclusive
  <1>2. ASSUME NEW w \in Workers, Skip(w)
        PROVE  Safe'
    BY <1>2 DEF Skip, TypeOK, UnavailableIffHeld, Exclusive
  <1>3. ASSUME NEW w \in Workers, Take(w)
        PROVE  Safe'
    <2> USE <1>3 DEF Take, Fits
    <2>1. scan.at \in DOMAIN cache /\ DOMAIN cache' = DOMAIN cache /\ Len(cache') = Len(cache)
      BY Marked DEF TypeOK, Entry
    <2>2. TypeOK'
      <3>1. cache' \in Seq([id : Ids, available : BOOLEAN])
        BY <2>1, Marked DEF TypeOK, Entry
      <3> QED  BY <2>1, <3>1 DEF TypeOK
    <2>3. \A v \in Workers : scan.at \notin held[v]
      BY <2>1 DEF UnavailableIffHeld
    <2>4. UnavailableIffHeld'
      BY <2>1 DEF UnavailableIffHeld, TypeOK
    <2>5. Exclusive'
      BY <2>3 DEF Exclusive, TypeOK
    <2> QED  BY <2>2, <2>4, <2>5
  <1>4. ASSUME NEW w \in Workers, Emplace(w)
        PROVE  Safe'
    <2> USE <1>4 DEF Emplace
    <2>1. /\ DOMAIN cache' = DOMAIN cache \cup {Len(cache) + 1}
          /\ Len(cache) + 1 \notin DOMAIN cache
          /\ Len(cache') = Len(cache) + 1
          /\ \A i \in DOMAIN cache : cache'[i] = cache[i]
          /\ cache'[Len(cache) + 1] = [id |-> scan.id, available |-> FALSE]
          /\ cache' \in Seq([id : Ids, available : BOOLEAN])
      BY DEF TypeOK
    <2>2. TypeOK'
      BY <2>1 DEF TypeOK
    <2>3. UnavailableIffHeld'
      BY <2>1 DEF UnavailableIffHeld, TypeOK
    <2>4. Exclusive'
      BY <2>1 DEF Exclusive, TypeOK
    <2> QED  BY <2>2, <2>3, <2>4
  <1>5. ASSUME NEW w \in Workers, NEW i \in held[w], release(w, i)
        PROVE  Safe'
    <2> USE <1>5 DEF release
    <2>1. i \in DOMAIN cache /\ DOMAIN cache' = DOMAIN cache /\ Len(cache') = Len(cache)
      BY Marked DEF TypeOK, Entry
    <2>2. TypeOK'
      <3>1. cache' \in Seq([id : Ids, available : BOOLEAN])
        BY <2>1, Marked DEF TypeOK, Entry
      <3> QED  BY <2>1, <3>1 DEF TypeOK
    <2>3. \A v \in Workers : i \notin held'[v]
      BY DEF Exclusive, TypeOK
    <2>4. UnavailableIffHeld'
      BY <2>1, <2>3 DEF UnavailableIffHeld, TypeOK
    <2>5. Exclusive'
      BY DEF Exclusive, TypeOK
    <2> QED  BY <2>2, <2>4, <2>5
  <1>6. CASE UNCHANGED vars
    BY <1>6 DEF vars, TypeOK, UnavailableIffHeld, Exclusive
  <1> QED  BY <1>1, <1>2, <1>3, <1>4, <1>5, <1>6 DEF Next

LEMMA SafeInit == Init => Safe
  BY DEF Init, Safe, TypeOK, UnavailableIffHeld, Exclusive

(* Two games never talk to one engine process, for any number of workers   *)
(* (cache.hpp:38-47, scope_guard.hpp:29).                                  *)
THEOREM OneGamePerEngine == Spec => []Exclusive
  <1>1. Safe => Exclusive
    BY DEF Safe
  <1> QED  BY <1>1, SafeInit, SafeStep, PTL DEF Spec

(* An entry is unavailable exactly while a guard refers to it, although    *)
(* guards are released outside the mutex (scope_guard.hpp:14,29).          *)
THEOREM NoEngineLost == Spec => [](TypeOK /\ UnavailableIffHeld)
  <1>1. Safe => TypeOK /\ UnavailableIffHeld
    BY DEF Safe
  <1> QED  BY <1>1, SafeInit, SafeStep, PTL DEF Spec

-----------------------------------------------------------------------------
(* The pool stays small.                                                   *)

(* A worker never holds two processes of one engine, nor one of the engine *)
(* it is looking for.                                                      *)
LEMMA RequestsStep ==
    ASSUME Safe, OneOfEach, NoneOfAsked, [Next]_vars, Safe'
    PROVE  OneOfEach' /\ NoneOfAsked'
  <1> USE CachePoolAssumption DEF OneOfEach, NoneOfAsked
  <1>1. ASSUME NEW w \in Workers, NEW id \in Ids, MayAsk(w, id), getEntry(w, id)
        PROVE  OneOfEach' /\ NoneOfAsked'
    BY <1>1 DEF getEntry, MayAsk, Safe, TypeOK
  <1>2. ASSUME NEW w \in Workers, Skip(w)
        PROVE  OneOfEach' /\ NoneOfAsked'
    BY <1>2 DEF Skip, Safe, TypeOK
  <1>3. ASSUME NEW w \in Workers, Take(w)
        PROVE  OneOfEach' /\ NoneOfAsked'
    <2> USE <1>3 DEF Take, Fits
    <2>1. /\ scan.at \in DOMAIN cache /\ cache[scan.at].id = scan.id
          /\ \A i \in DOMAIN cache : cache'[i].id = cache[i].id
      BY Marked DEF Safe, TypeOK, Entry
    <2> QED  BY <2>1 DEF Safe, TypeOK
  <1>4. ASSUME NEW w \in Workers, Emplace(w)
        PROVE  OneOfEach' /\ NoneOfAsked'
    <2> USE <1>4 DEF Emplace
    <2>1. /\ Len(cache) + 1 \notin DOMAIN cache
          /\ \A i \in DOMAIN cache : cache'[i] = cache[i]
          /\ cache'[Len(cache) + 1].id = scan.id
      BY DEF Safe, TypeOK
    <2> QED  BY <2>1 DEF Safe, TypeOK
  <1>5. ASSUME NEW w \in Workers, NEW i \in held[w], release(w, i)
        PROVE  OneOfEach' /\ NoneOfAsked'
    <2>1. \A j \in DOMAIN cache : cache'[j].id = cache[j].id
      BY <1>5, Marked DEF release, Safe, TypeOK, Entry
    <2> QED  BY <1>5, <2>1 DEF release, Safe, TypeOK
  <1>6. CASE UNCHANGED vars
    BY <1>6 DEF vars
  <1> QED  BY <1>1, <1>2, <1>3, <1>4, <1>5, <1>6 DEF Next

(* The walk can only reach the end when another entry is due: the workers  *)
(* that hold an entry it passed or is going to pass are others than the    *)
(* walker.                                                                 *)
LEMMA WalkStep ==
    ASSUME Safe, OneOfEach, NoneOfAsked, WalkBound, [Next]_vars, Safe'
    PROVE  WalkBound'
  <1> USE CachePoolAssumption
  <1>0. /\ IsFiniteSet(Passed) /\ Cardinality(Passed) \in Nat
        /\ IsFiniteSet(Ahead) /\ Cardinality(Ahead) \in Nat
        /\ Cardinality(Workers) \in Nat
    BY WalkFinite DEF Safe
  <1>1. ASSUME NEW w \in Workers, NEW id \in Ids, MayAsk(w, id), getEntry(w, id)
        PROVE  WalkBound'
    <2>1. Passed' = {}
      BY <1>1 DEF getEntry, Passed
    <2>2. Ahead' \subseteq Workers /\ w \notin Ahead'
      BY <1>1 DEF getEntry, MayAsk, Ahead
    <2>3. Cardinality(Ahead') < Cardinality(Workers)
      <3>1. Cardinality(Ahead') \in Nat /\ Cardinality(Ahead') <= Cardinality(Workers)
        BY <2>2, FS_Subset, FS_CardinalityType
      <3>2. Cardinality(Ahead') # Cardinality(Workers)
        BY <2>2, FS_Subset
      <3> QED  BY <1>0, <3>1, <3>2
    <2>4. Cardinality(Ahead') \in Nat
      BY <2>2, FS_Subset, FS_CardinalityType
    <2> QED  BY <1>0, <2>1, <2>3, <2>4, FS_EmptySet DEF WalkBound
  <1>2. ASSUME NEW w \in Workers, Skip(w)
        PROVE  WalkBound'
    <2>1. /\ scan.at \in DOMAIN cache /\ scan'.at = scan.at + 1 /\ scan'.id = scan.id
          /\ cache' = cache /\ held' = held /\ access_mutex' = access_mutex /\ access_mutex # NoWorker
      BY <1>2 DEF Skip, Safe, TypeOK
    <2>2. CASE cache[scan.at].id = scan.id
      <3>1. PICK v \in Workers : scan.at \in held[v]
        BY <1>2, <2>1, <2>2 DEF Skip, Fits, Safe, UnavailableIffHeld
      <3>2. Passed' = Passed \cup {scan.at} /\ scan.at \notin Passed
        BY <2>1, <2>2 DEF Passed, Safe, TypeOK
      <3>3. Ahead' = Ahead \ {v} /\ v \in Ahead
        <4>1. \A u \in Workers \ {v} : scan.at \notin held[u]
          BY <3>1 DEF Safe, Exclusive
        <4>2. \A i \in held[v] : cache[i].id = scan.id => i = scan.at
          BY <3>1, <2>2 DEF OneOfEach
        <4>3. \A u \in Workers : held[u] \subseteq 1..Len(cache) /\ scan.at \in 1..Len(cache)
          BY <2>1 DEF Safe, TypeOK
        <4>4. \A u \in Workers \ {v} : \A i \in held[u] : scan.at <= i <=> scan.at + 1 <= i
          BY <4>1, <4>3
        <4>5. \A i \in held[v] : ~(scan.at + 1 <= i /\ cache[i].id = scan.id)
          BY <4>2, <4>3
        <4>6. v \in Ahead
          BY <3>1, <2>2, <4>3 DEF Ahead
        <4> QED  BY <2>1, <4>4, <4>5, <4>6 DEF Ahead
      <3>4. Cardinality(Passed') = Cardinality(Passed) + 1
        BY <1>0, <3>2, FS_AddElement
      <3>5. Cardinality(Ahead') = Cardinality(Ahead) - 1
        BY <1>0, <3>3, FS_RemoveElement
      <3> QED  BY <1>0, <2>1, <3>4, <3>5 DEF WalkBound
    <2>3. CASE cache[scan.at].id # scan.id
      <3>1. Passed' = Passed
        BY <2>1, <2>3 DEF Passed, Safe, TypeOK
      <3>2. Ahead' = Ahead
        <4>1. \A u \in Workers : \A i \in held[u] :
                cache[i].id = scan.id => (scan.at <= i <=> scan.at + 1 <= i)
          BY <2>1, <2>3 DEF Safe, TypeOK
        <4> QED  BY <2>1, <4>1 DEF Ahead
      <3> QED  BY <2>1, <3>1, <3>2 DEF WalkBound
    <2> QED  BY <2>2, <2>3
  <1>3. ASSUME NEW w \in Workers, Take(w) \/ Emplace(w)
        PROVE  WalkBound'
    BY <1>3 DEF Take, Emplace, WalkBound
  <1>4. ASSUME NEW w \in Workers, NEW i \in held[w], release(w, i)
        PROVE  WalkBound'
    <2>1. /\ \A j \in DOMAIN cache : cache'[j].id = cache[j].id
          /\ \A u \in Workers : held'[u] \subseteq held[u] /\ held[u] \subseteq DOMAIN cache
          /\ scan' = scan /\ access_mutex' = access_mutex
      BY <1>4, Marked DEF release, Safe, TypeOK, Entry
    <2>2. Passed' = Passed
      <3>1. \A j \in 1..(scan.at - 1) : cache'[j].id = cache[j].id
        BY <2>1 DEF Safe, TypeOK
      <3> QED  BY <2>1, <3>1 DEF Passed
    <2>3. Ahead' \subseteq Ahead
      BY <2>1 DEF Ahead
    <2>4. Cardinality(Ahead') \in Nat /\ Cardinality(Ahead') <= Cardinality(Ahead)
      BY <1>0, <2>3, FS_Subset, FS_CardinalityType
    <2> QED  BY <1>0, <2>1, <2>2, <2>4 DEF WalkBound
  <1>5. CASE UNCHANGED vars
    <2>1. Passed' = Passed /\ Ahead' = Ahead
      BY <1>5 DEF vars, Passed, Ahead
    <2> QED  BY <1>5, <2>1 DEF vars, WalkBound
  <1> QED  BY <1>1, <1>2, <1>3, <1>4, <1>5 DEF Next

(* When a walk ends without an entry, all entries of the engine were       *)
(* passed over, so some worker has no seat yet: the new entry gets it.     *)
LEMMA SeatsStep ==
    ASSUME Safe, WalkBound, EnoughSeats, [Next]_vars, Safe'
    PROVE  EnoughSeats'
  <1> USE CachePoolAssumption
  <1>1. ASSUME NEW w \in Workers, Emplace(w)
        PROVE  EnoughSeats'
    <2> DEFINE n == Len(cache) + 1
    <2>1. PICK seat \in [DOMAIN cache -> Workers] : Seated(seat)
      BY DEF EnoughSeats
    <2>2. /\ scan.at = n /\ n \notin DOMAIN cache /\ DOMAIN cache = 1..(scan.at - 1)
          /\ DOMAIN cache' = DOMAIN cache \cup {n}
          /\ \A i \in DOMAIN cache : cache'[i] = cache[i]
          /\ cache'[n].id = scan.id
          /\ access_mutex # NoWorker
      BY <1>1 DEF Emplace, Safe, TypeOK
    <2> DEFINE taken == {seat[i] : i \in Passed}
    <2>3. taken # Workers
      <3> DEFINE f == [i \in Passed |-> seat[i]]
      <3> SUFFICES ASSUME taken = Workers PROVE FALSE
        OBVIOUS
      <3>1. Passed \subseteq DOMAIN cache
        BY <2>2 DEF Passed
      <3>2. f \in Surjection(Passed, Workers)
        BY <3>1 DEF Surjection
      <3>3. Cardinality(Workers) <= Cardinality(Passed)
        BY <3>2, WalkFinite, FS_Surjection DEF Safe
      <3>4. Cardinality(Passed) < Cardinality(Workers)
        BY <2>2, WalkFinite DEF WalkBound, Safe
      <3> QED  BY <3>3, <3>4, WalkFinite DEF Safe
    <2>4. taken \subseteq Workers
      BY <2>2 DEF Passed
    <2>5. PICK v \in Workers : v \notin taken
      BY <2>3, <2>4
    <2> DEFINE next == [i \in DOMAIN cache' |-> IF i = n THEN v ELSE seat[i]]
    <2>6. next \in [DOMAIN cache' -> Workers]
      BY <2>2
    <2>7. ASSUME NEW i \in DOMAIN cache', NEW j \in DOMAIN cache',
                 cache'[i].id = cache'[j].id, next[i] = next[j]
          PROVE  i = j
      <3>1. CASE i \in DOMAIN cache /\ j \in DOMAIN cache
        BY <2>1, <2>2, <2>7, <3>1 DEF Seated
      <3>2. ASSUME NEW k \in DOMAIN cache, cache'[k].id = scan.id
            PROVE  seat[k] # v
        BY <2>2, <2>5, <3>2 DEF Passed
      <3> QED  BY <2>2, <2>7, <3>1, <3>2
    <2> HIDE DEF next
    <2> QED  BY <2>6, <2>7 DEF EnoughSeats, Seated
  <1>2. ASSUME DOMAIN cache' = DOMAIN cache,
               \A i \in DOMAIN cache : cache'[i].id = cache[i].id
        PROVE  EnoughSeats'
    BY <1>2 DEF EnoughSeats, Seated
  <1>3. ASSUME NEW w \in Workers, Take(w)
        PROVE  EnoughSeats'
    <2>1. scan.at \in DOMAIN cache
      BY <1>3 DEF Take, Safe, TypeOK
    <2> QED  BY <1>2, <1>3, <2>1, Marked DEF Take, Safe, TypeOK, Entry
  <1>4. ASSUME NEW w \in Workers, NEW i \in held[w], release(w, i)
        PROVE  EnoughSeats'
    <2>1. i \in DOMAIN cache
      BY DEF Safe, TypeOK
    <2> QED  BY <1>2, <1>4, <2>1, Marked DEF release, Safe, TypeOK, Entry
  <1>5. ASSUME UNCHANGED cache
        PROVE  EnoughSeats'
    BY <1>2, <1>5
  <1>6. ASSUME NEW w \in Workers, Skip(w) \/ \E id \in Ids : getEntry(w, id)
        PROVE  EnoughSeats'
    BY <1>5, <1>6 DEF getEntry, Skip
  <1>7. CASE UNCHANGED vars
    BY <1>5, <1>7 DEF vars
  <1> QED  BY <1>1, <1>3, <1>4, <1>6, <1>7 DEF Next

LEMMA InitInv == Init => IInv
  <1> SUFFICES ASSUME Init PROVE IInv
    OBVIOUS
  <1>1. Safe /\ OneOfEach /\ NoneOfAsked /\ WalkBound
    BY SafeInit DEF Init, OneOfEach, NoneOfAsked, WalkBound
  <1>2. EnoughSeats
    <2> DEFINE none == [i \in {} |-> 0]
    <2>1. DOMAIN cache = {}
      BY DEF Init
    <2>2. none \in [DOMAIN cache -> Workers] /\ Seated(none)
      BY <2>1 DEF Seated
    <2> QED  BY <2>2 DEF EnoughSeats
  <1> QED  BY <1>1, <1>2 DEF IInv

LEMMA NextInv == IInv /\ [Next]_vars => IInv'
  <1> SUFFICES ASSUME IInv, [Next]_vars PROVE IInv'
    OBVIOUS
  <1>1. Safe'
    BY SafeStep DEF IInv
  <1> QED  BY <1>1, RequestsStep, WalkStep, SeatsStep DEF IInv

(* As many seats as workers for each engine: no more entries than that.    *)
LEMMA SeatsBound ==
    ASSUME Safe, EnoughSeats
    PROVE  EnginesBounded
  <1>1. PICK seat \in [DOMAIN cache -> Workers] : Seated(seat)
    BY DEF EnoughSeats
  <1> SUFFICES ASSUME NEW id \in Ids
               PROVE  Cardinality({i \in DOMAIN cache : cache[i].id = id}) <= Cardinality(Workers)
    BY DEF EnginesBounded
  <1> DEFINE entries == {i \in DOMAIN cache : cache[i].id = id}
  <1>2. [i \in entries |-> seat[i]] \in Injection(entries, Workers)
    BY <1>1 DEF Seated, Injection, IsInjective
  <1> QED  BY <1>2, FS_Injection, CachePoolAssumption

(* The pool starts at most one process of an engine per worker, however    *)
(* the walks and the releases interleave (cache.hpp:41-50).                *)
THEOREM PoolBounded == Spec => []EnginesBounded
  <1>1. IInv => EnginesBounded
    BY SeatsBound DEF IInv
  <1> QED  BY <1>1, InitInv, NextInv, PTL DEF Spec

-----------------------------------------------------------------------------
(* The pool implements Lease.                                              *)

Leases == {lease \in Workers \X DOMAIN cache : lease[2] \in held[lease[1]]}

LEMMA SeatsLength ==
    Safe /\ EnoughSeats =>
        DOMAIN cache \subseteq 1..(Cardinality(Workers) * Cardinality(Ids))
  <1> SUFFICES ASSUME Safe, EnoughSeats
               PROVE  DOMAIN cache \subseteq 1..(Cardinality(Workers) * Cardinality(Ids))
    OBVIOUS
  <1>1. PICK seat \in [DOMAIN cache -> Workers] : Seated(seat)
    BY DEF EnoughSeats
  <1> DEFINE place == [i \in DOMAIN cache |-> <<seat[i], cache[i].id>>]
             places == Workers \X Ids
             bound == Cardinality(Workers) * Cardinality(Ids)
             n == Len(cache)
  <1>2. place \in Injection(DOMAIN cache, places)
    <2>1. \A i \in DOMAIN cache : <<seat[i], cache[i].id>> \in places
      <3>1. cache \in Seq(Entry)
        BY DEF Safe, TypeOK, Entry
      <3>2. \A i \in DOMAIN cache : cache[i] \in Entry
        BY <3>1
      <3> QED  BY <3>2, <1>1 DEF Entry
    <2>2. \A i, j \in DOMAIN cache : place[i] = place[j] => i = j
      BY <1>1 DEF Seated
    <2>3. place \in [DOMAIN cache -> places]
      BY <2>1
    <2> QED  BY <2>2, <2>3 DEF Injection, IsInjective
  <1>3. IsFiniteSet(places) /\ Cardinality(places) = bound
    BY FS_Product, CachePoolAssumption
  <1>4. DOMAIN cache = 1..n /\ n \in Nat
    BY DEF Safe, TypeOK
  <1>5. bound \in Nat
    BY FS_CardinalityType, CachePoolAssumption
  <1> HIDE DEF place, places, bound, n
  <1>6. Cardinality(1..n) <= bound
    BY <1>2, <1>3, <1>4, FS_Injection
  <1>7. Cardinality(1..n) = n
    BY <1>4, FS_Interval
  <1>8. 1..n \subseteq 1..bound
    BY <1>4, <1>5, <1>6, <1>7
  <1> QED  BY <1>4, <1>8 DEF bound

(* Taking or adding an entry is a Grant of Lease, releasing one a Return,  *)
(* and the walk is invisible.                                              *)
LEMMA LeaseStep == IInv /\ IInv' /\ [Next]_vars => [EngineLease!Next]_Leases
  <1> SUFFICES ASSUME IInv, IInv', [Next]_vars PROVE [EngineLease!Next]_Leases
    OBVIOUS
  <1> USE CachePoolAssumption DEF EngineLease!Next, Leases
  <1> DEFINE Resources == 1..(Cardinality(Workers) * Cardinality(Ids))
  <1>1. /\ Safe /\ Safe'
        /\ DOMAIN cache \subseteq Resources /\ DOMAIN cache' \subseteq Resources
    <2>1. (Safe /\ EnoughSeats => DOMAIN cache \subseteq Resources)'
      BY SeatsLength, PTL
    <2> QED  BY <2>1, SeatsLength DEF IInv
  <1>2. ASSUME NEW w \in Workers, NEW r \in DOMAIN cache', \A v \in Workers : r \notin held[v],
               held' = [held EXCEPT ![w] = @ \cup {r}], DOMAIN cache \subseteq DOMAIN cache'
        PROVE  EngineLease!Grant(w, r)
    <2>1. Leases' = Leases \cup {<<w, r>>}
      BY <1>1, <1>2 DEF Safe, TypeOK
    <2>2. r \notin EngineLease!Held
      BY <1>2 DEF EngineLease!Held
    <2> QED  BY <2>1, <2>2 DEF EngineLease!Grant
  <1>3. ASSUME NEW w \in Workers, Take(w)
        PROVE  EngineLease!Next
    <2>1. /\ scan.at \in DOMAIN cache /\ DOMAIN cache' = DOMAIN cache
          /\ \A v \in Workers : scan.at \notin held[v]
          /\ held' = [held EXCEPT ![w] = @ \cup {scan.at}]
      BY <1>1, <1>3, Marked DEF Take, Fits, Safe, TypeOK, Entry, UnavailableIffHeld
    <2> QED  BY <1>1, <1>2, <2>1
  <1>4. ASSUME NEW w \in Workers, Emplace(w)
        PROVE  EngineLease!Next
    <2>1. /\ DOMAIN cache' = DOMAIN cache \cup {Len(cache) + 1}
          /\ \A v \in Workers : Len(cache) + 1 \notin held[v]
          /\ held' = [held EXCEPT ![w] = @ \cup {Len(cache) + 1}]
      BY <1>1, <1>4 DEF Emplace, Safe, TypeOK
    <2> QED  BY <1>1, <1>2, <2>1
  <1>5. ASSUME NEW w \in Workers, NEW i \in held[w], release(w, i)
        PROVE  EngineLease!Next
    <2>1. /\ i \in DOMAIN cache /\ DOMAIN cache' = DOMAIN cache
          /\ held' = [held EXCEPT ![w] = @ \ {i}]
      BY <1>1, <1>5, Marked DEF release, Safe, TypeOK, Entry
    <2>2. Leases' = Leases \ {<<w, i>>} /\ <<w, i>> \in Leases
      BY <1>1, <1>5, <2>1 DEF Safe, TypeOK
    <2> QED  BY <1>1, <2>1, <2>2 DEF EngineLease!Return
  <1>6. ASSUME NEW w \in Workers, Skip(w) \/ \E id \in Ids : getEntry(w, id)
        PROVE  UNCHANGED Leases
    BY <1>6 DEF getEntry, Skip
  <1>7. CASE UNCHANGED vars
    BY <1>7 DEF vars
  <1> QED  BY <1>3, <1>4, <1>5, <1>6, <1>7 DEF Next

(* The walks entry by entry and the releases without the mutex still lend  *)
(* each engine to one game at a time (cache.hpp:38-51, scope_guard.hpp:29).*)
THEOREM PoolLends == Spec => ImplementsLease
  <1>1. Init => EngineLease!Init
    BY DEF Init, EngineLease!Init
  <1>2. IInv /\ IInv' /\ [Next]_vars => [EngineLease!Next]_Leases
    BY LeaseStep
  <1> QED
    BY <1>1, <1>2, InitInv, NextInv, PTL
    DEF Spec, ImplementsLease, EngineLease!Spec, Leases

-----------------------------------------------------------------------------
(* The processors.                                                         *)

\* What the lease of the processors needs: a processor in use is marked, by
\* one game, and the game that walks has none.  Nothing is said of cores: the
\* order of a walk matters for UseInv below.
CoreInv ==
    /\ topology \in Topologies
    /\ available \in [Cores!Processors -> BOOLEAN]
    /\ core_mutex \in Workers \cup {NoWorker}
    /\ core = [w \in Workers |-> core[w]]
    /\ \A w \in Workers : core_mutex = w => core[w] = Cores!NoCore
    /\ \A w \in Workers : core[w] \in Cores!Processors => ~available[core[w]]
    /\ \A v, w \in Workers : (core[v] = core[w] /\ core[v] \in Cores!Processors) => v = w

CoreLeases == {lease \in Workers \X Cores!Processors : core[lease[1]] = lease[2]}

LEMMA LeaseNext ==
    ASSUME NEW w \in Workers, NEW t \in Topologies, NEW p \in Cores!ProcessorsOf(t),
           Cores!CoreLease!Grant(w, p) \/ Cores!CoreLease!Return(w, p)
    PROVE  Cores!CoreLease!Next
  <1> DEFINE resources == UNION {Cores!ProcessorsOf(u) : u \in Topologies}
  <1>1. p \in resources
    OBVIOUS
  <1>2. Cores!CoreLease!Next =
            \E h \in Workers, r \in resources :
                Cores!CoreLease!Grant(h, r) \/ Cores!CoreLease!Return(h, r)
    BY DEF Cores!CoreLease!Next
  <1> HIDE DEF resources
  <1> QED  BY <1>1, <1>2

\* Neither mark of a game without a processor is the name of one.
LEMMA NoProcessor ==
    ASSUME topology \in Topologies
    PROVE  Cores!NoCore \notin Cores!Processors /\ Cores!NullCore \notin Cores!Processors
  <1>1. topology \in Seq(Nat \ {0})
    BY GameResourcesAssumption DEF Cores!AffinityAssumption
  <1>2. 0 \notin DOMAIN topology
    BY <1>1
  <1> QED
    BY <1>2 DEF Cores!Processors, Cores!ProcessorsOf, Cores!NoCore, Cores!NullCore

LEMMA CoreInit == GamesInit => CoreInv
  <1> SUFFICES ASSUME GamesInit PROVE CoreInv
    OBVIOUS
  <1>1. Cores!Init
    BY DEF GamesInit
  <1>2. Cores!NoCore \notin Cores!Processors
    BY <1>1, NoProcessor DEF Cores!Init
  <1> QED
    BY <1>1, <1>2, GameResourcesAssumption DEF CoreInv, Cores!Init, Cores!AffinityAssumption

LEMMA CoreInitLease == GamesInit => Cores!CoreLease!Init
  <1> SUFFICES ASSUME GamesInit PROVE Cores!CoreLease!Init
    OBVIOUS
  <1>1. Cores!Init
    BY DEF GamesInit
  <1>2. Cores!NoCore \notin Cores!Processors
    BY <1>1, NoProcessor DEF Cores!Init
  <1> QED
    BY <1>1, <1>2 DEF Cores!Init, Cores!CoreLease!Init

(* A step of a game is one of the manager's, or does not touch it.         *)
LEMMA CoreUse == [Games]_allVars => [Cores!Next]_(Cores!vars)
  <1> SUFFICES ASSUME [Games]_allVars PROVE Cores!Next \/ UNCHANGED Cores!vars
    OBVIOUS
  <1>1. ASSUME NEW w \in Workers, AskCore(w)
        PROVE  Cores!Next
    BY <1>1 DEF AskCore, Cores!Next
  <1>2. ASSUME NEW w \in Workers, InConsume(w)
        PROVE  Cores!Next
    BY <1>2 DEF InConsume, Cores!Next
  <1>3. ASSUME NEW w \in Workers, NoCores(w)
        PROVE  Cores!Next
    BY <1>3 DEF NoCores, Cores!Next
  <1>4. ASSUME NEW w \in Workers, ReturnCore(w)
        PROVE  Cores!Next
    BY <1>4 DEF ReturnCore, Cores!Next
  <1>5. ASSUME NEW w \in Workers,
               AskWhite(w) \/ AskBlack(w) \/ InGetEntry(w) \/ ReturnBlack(w) \/ ReturnWhite(w)
        PROVE  UNCHANGED coreVars
    BY <1>5 DEF AskWhite, AskBlack, InGetEntry, ReturnBlack, ReturnWhite
  <1>6. CASE UNCHANGED allVars
    BY <1>6 DEF allVars, coreVars, Cores!vars, Cores!machine
  <1>7. UNCHANGED coreVars => UNCHANGED Cores!vars
    BY DEF coreVars, Cores!vars, Cores!machine
  <1> QED
    BY <1>1, <1>2, <1>3, <1>4, <1>5, <1>6, <1>7 DEF Games

\* The states between two steps of consume() are covered by the mutex, the
\* release by the guard it belongs to.
LEMMA CoreStep ==
    ASSUME CoreInv, [Cores!Next]_(Cores!vars)
    PROVE  CoreInv' /\ [Cores!CoreLease!Next]_CoreLeases
  <1> USE DEF CoreInv
  <1>0. /\ NoWorker \notin Workers
        /\ Cores!NoCore \notin Cores!Processors /\ Cores!NullCore \notin Cores!Processors
    BY NoProcessor, GameResourcesAssumption DEF Cores!AffinityAssumption
  <1>1. ASSUME NEW w \in Workers, Cores!MayConsume(w), Cores!consume(w)
        PROVE  CoreInv' /\ UNCHANGED CoreLeases
    <2>1. UNCHANGED <<topology, available, Cores!Processors>>
      BY <1>1 DEF Cores!consume, Cores!machine, Cores!Processors
    <2>2. CASE ~use_affinity
      BY <1>0, <1>1, <2>1, <2>2 DEF Cores!consume, Cores!MayConsume, CoreLeases
    <2>3. CASE use_affinity
      BY <1>0, <1>1, <2>1, <2>3 DEF Cores!consume, Cores!MayConsume, CoreLeases
    <2> QED  BY <2>2, <2>3
  <1>2. ASSUME NEW w \in Workers, Cores!Pass(w) \/ Cores!Throw(w)
        PROVE  CoreInv' /\ UNCHANGED CoreLeases
    <2>1. UNCHANGED <<topology, available, core, Cores!Processors>>
      BY <1>2 DEF Cores!Pass, Cores!Throw, Cores!machine, Cores!Processors
    <2>2. core_mutex' \in {core_mutex, NoWorker}
      BY <1>2 DEF Cores!Pass, Cores!Throw
    <2> QED  BY <1>0, <2>1, <2>2 DEF CoreLeases
  <1>3. ASSUME NEW w \in Workers, Cores!Take(w)
        PROVE  CoreInv' /\ (Cores!CoreLease!Next \/ UNCHANGED CoreLeases)
    <2>0. PICK c : c = cores[at]
      OBVIOUS
    <2>1. /\ UNCHANGED <<topology, Cores!Processors>>
          /\ core[w] = Cores!NoCore
          /\ available[c]
          /\ available' = [available EXCEPT ![c] = FALSE]
          /\ core' = [core EXCEPT ![w] = c]
          /\ core_mutex' = NoWorker
      BY <1>3, <2>0 DEF Cores!Take, Cores!machine, Cores!Processors
    <2>2. CoreInv'
      BY <1>0, <2>1
    <2>3. CASE c \in Cores!Processors
      <3>1. CoreLeases' = CoreLeases \cup {<<w, c>>}
        BY <1>0, <2>1, <2>3 DEF CoreLeases
      <3>2. \A v \in Workers : core[v] # c
        BY <2>1, <2>3
      <3>3. PICK t \in Topologies : c \in Cores!ProcessorsOf(t)
        BY <2>3 DEF Cores!Processors
      <3>4. Cores!CoreLease!Grant(w, c)
        BY <3>1, <3>2 DEF Cores!CoreLease!Grant, Cores!CoreLease!Held, CoreLeases
      <3>5. Cores!CoreLease!Next
        BY <3>3, <3>4, LeaseNext
      <3> QED  BY <2>2, <3>5
    <2>4. CASE c \notin Cores!Processors
      BY <1>0, <2>1, <2>2, <2>4 DEF CoreLeases
    <2> QED  BY <2>3, <2>4
  <1>4. ASSUME NEW w \in Workers, Cores!release(w)
        PROVE  CoreInv' /\ (Cores!CoreLease!Next \/ UNCHANGED CoreLeases)
    <2>0. PICK c : c = core[w]
      OBVIOUS
    <2>1. /\ UNCHANGED <<topology, core_mutex, Cores!Processors>>
          /\ core[w] = c /\ c # Cores!NoCore
          /\ available' = [p \in Cores!Processors |-> available[p] \/ p = c]
          /\ core' = [core EXCEPT ![w] = Cores!NoCore]
      BY <1>4, <2>0 DEF Cores!release, Cores!machine, Cores!Processors
    <2>2. CoreInv'
      BY <1>0, <2>1
    <2>3. CASE c \in Cores!Processors
      <3>1. CoreLeases' = CoreLeases \ {<<w, c>>} /\ <<w, c>> \in CoreLeases
        BY <1>0, <2>1, <2>3 DEF CoreLeases
      <3>2. PICK t \in Topologies : c \in Cores!ProcessorsOf(t)
        BY <2>3 DEF Cores!Processors
      <3>3. Cores!CoreLease!Return(w, c)
        BY <3>1 DEF Cores!CoreLease!Return, CoreLeases
      <3>4. Cores!CoreLease!Next
        BY <3>2, <3>3, LeaseNext
      <3> QED  BY <2>2, <3>4
    <2>4. CASE c \notin Cores!Processors
      BY <1>0, <2>1, <2>2, <2>4 DEF CoreLeases
    <2> QED  BY <2>3, <2>4
  <1>5. CASE UNCHANGED Cores!vars
    BY <1>5 DEF Cores!vars, Cores!machine, Cores!Processors, CoreLeases
  <1> QED
    BY <1>1, <1>2, <1>3, <1>4, <1>5 DEF Cores!Next

(* A processor belongs to one game at a time (affinity_manager.hpp:63-88), *)
(* although games give it back without the mutex.                          *)
THEOREM ProcessorsLent == GamesSpec => CoresLent
  <1>1. CoreInv /\ [Games]_allVars => CoreInv' /\ [Cores!CoreLease!Next]_CoreLeases
    BY CoreUse, CoreStep
  <1> QED
    BY <1>1, CoreInit, CoreInitLease, PTL
    DEF GamesSpec, CoresLent, Cores!ImplementsLease, Cores!CoreLease!Spec, CoreLeases

-----------------------------------------------------------------------------
(* The engines.                                                            *)

\* Where playGame is says which engines its worker has and may be asking for:
\* that is what the pool assumes of its callers (MayAsk).
OnlyWhite(w) == \A i \in held[w] : cache[i].id = white[w]

OneBlack(w) ==
    \A i, j \in held[w] : cache[i].id # white[w] /\ cache[j].id # white[w] => i = j

StageOf(w) ==
    /\ core_mutex = w => stage[w] = "core"
    /\ stage[w] \in {"idle", "core", "return core"} => held[w] = {}
    /\ stage[w] \in {"idle", "core", "return white", "return core"} => access_mutex # w
    /\ stage[w] \in {"white", "return white"} => OnlyWhite(w)
    /\ stage[w] = "white" /\ access_mutex = w => scan.id = white[w]
    /\ stage[w] = "black" =>
          /\ access_mutex = w => OnlyWhite(w) /\ scan.id # white[w]
          /\ OneBlack(w)

StageInv ==
    /\ stage \in [Workers -> {"idle", "core", "white", "black", "return white", "return core"}]
    /\ white \in [Workers -> Ids]
    /\ \A w \in Workers : StageOf(w)

\* An entry keeps its name, whatever is done with it.
LEMMA NamesKept ==
    ASSUME TypeOK, TypeOK', [Next]_vars
    PROVE  \A i \in DOMAIN cache : i \in DOMAIN cache' /\ cache'[i].id = cache[i].id
  <1>1. ASSUME NEW w \in Workers, Take(w)
        PROVE  \A i \in DOMAIN cache : i \in DOMAIN cache' /\ cache'[i].id = cache[i].id
    BY <1>1, Marked DEF Take, TypeOK, Entry
  <1>2. ASSUME NEW w \in Workers, Emplace(w)
        PROVE  \A i \in DOMAIN cache : i \in DOMAIN cache' /\ cache'[i].id = cache[i].id
    BY <1>2 DEF Emplace, TypeOK
  <1>3. ASSUME NEW w \in Workers, NEW i \in held[w], release(w, i)
        PROVE  \A j \in DOMAIN cache : j \in DOMAIN cache' /\ cache'[j].id = cache[j].id
    BY <1>3, Marked DEF release, TypeOK, Entry
  <1>4. ASSUME NEW w \in Workers, Skip(w) \/ \E id \in Ids : getEntry(w, id)
        PROVE  UNCHANGED cache
    BY <1>4 DEF Skip, getEntry
  <1>5. CASE UNCHANGED vars
    BY <1>5 DEF vars
  <1> QED
    BY <1>1, <1>2, <1>3, <1>4, <1>5 DEF Next

\* Every step of a game is one the pool allows.
LEMMA PoolUse ==
    ASSUME StageInv, [Games]_allVars
    PROVE  [Next]_vars
  <1>1. ASSUME NEW w \in Workers, AskWhite(w)
        PROVE  Next
    BY <1>1 DEF AskWhite, MayAsk, Next, StageInv, StageOf
  <1>2. ASSUME NEW w \in Workers, AskBlack(w)
        PROVE  Next
    BY <1>2 DEF AskBlack, MayAsk, Next, StageInv, StageOf, OnlyWhite
  <1>3. ASSUME NEW w \in Workers, InGetEntry(w)
        PROVE  Next
    BY <1>3 DEF InGetEntry, Next
  <1>4. ASSUME NEW w \in Workers, ReturnBlack(w)
        PROVE  Next
    BY <1>4 DEF ReturnBlack, Next
  <1>5. ASSUME NEW w \in Workers, ReturnWhite(w)
        PROVE  Next
    BY <1>5 DEF ReturnWhite, Next, StageInv, StageOf
  <1>6. ASSUME NEW w \in Workers, AskCore(w) \/ InConsume(w) \/ NoCores(w) \/ ReturnCore(w)
        PROVE  UNCHANGED vars
    BY <1>6 DEF AskCore, InConsume, NoCores, ReturnCore, cacheVars
  <1>7. CASE UNCHANGED allVars
    BY <1>7 DEF allVars, cacheVars
  <1> QED
    BY <1>1, <1>2, <1>3, <1>4, <1>5, <1>6, <1>7 DEF Games

LEMMA StageInit == GamesInit => StageInv
  BY GameResourcesAssumption
  DEF GamesInit, Init, Cores!Init, Cores!AffinityAssumption, StageInv, StageOf, OnlyWhite, OneBlack

(* The step of one worker does not disturb where the others are.           *)
LEMMA OthersKept ==
    ASSUME NEW v \in Workers, StageOf(v),
           held[v] \subseteq DOMAIN cache,
           \A i \in DOMAIN cache : cache'[i].id = cache[i].id,
           stage'[v] = stage[v], white'[v] = white[v], held'[v] = held[v],
           core_mutex' = v => core_mutex = v,
           access_mutex' = v => access_mutex = v /\ scan'.id = scan.id
    PROVE  StageOf(v)'
  BY DEF StageOf, OnlyWhite, OneBlack

LEMMA NewEntry ==
    ASSUME NEW w \in Workers, TypeOK, Emplace(w)
    PROVE  \E n \in DOMAIN cache' :
              cache'[n].id = scan.id /\ held' = [held EXCEPT ![w] = @ \cup {n}]
  <1>1. /\ Len(cache) + 1 \in DOMAIN cache'
        /\ cache'[Len(cache) + 1] = [id |-> scan.id, available |-> FALSE]
        /\ held' = [held EXCEPT ![w] = @ \cup {Len(cache) + 1}]
    BY DEF Emplace, TypeOK
  <1>2. cache'[Len(cache) + 1].id = scan.id
    BY <1>1
  <1> QED  BY <1>1, <1>2

LEMMA StageStep ==
    ASSUME StageInv, CoreInv, TypeOK, OneOfEach, TypeOK', [Games]_allVars
    PROVE  StageInv'
  <1>1. /\ NoWorker \notin Workers
        /\ \A i \in DOMAIN cache : i \in DOMAIN cache' /\ cache'[i].id = cache[i].id
        /\ \A w \in Workers : held[w] \subseteq DOMAIN cache
    BY PoolUse, NamesKept, CachePoolAssumption DEF TypeOK
  <1>2. ASSUME NEW w \in Workers, NEW now \in {"idle", "core", "white", "black", "return white", "return core"},
               stage' = [stage EXCEPT ![w] = now], white' \in [Workers -> Ids],
               \A v \in Workers \ {w} :
                  /\ white'[v] = white[v] /\ held'[v] = held[v]
                  /\ core_mutex' = v => core_mutex = v
                  /\ access_mutex' = v => access_mutex = v /\ scan'.id = scan.id,
               StageOf(w)'
        PROVE  StageInv'
    <2>1. ASSUME NEW v \in Workers \ {w}
          PROVE  StageOf(v)'
      BY <1>1, <1>2, OthersKept DEF StageInv
    <2> QED  BY <1>2, <2>1 DEF StageInv
  <1> USE DEF StageInv, StageOf
  <1>3. ASSUME NEW w \in Workers, AskCore(w)
        PROVE  StageInv'
    <2>1. /\ UNCHANGED vars /\ UNCHANGED white
          /\ core_mutex' \in {core_mutex, w}
          /\ stage[w] = "idle" /\ stage' = [stage EXCEPT ![w] = "core"]
      BY <1>3 DEF AskCore, Cores!consume, cacheVars
    <2>2. StageOf(w)'
      BY <2>1 DEF vars
    <2> QED  BY <1>1, <1>2, <2>1, <2>2 DEF vars
  <1>4. ASSUME NEW w \in Workers, InConsume(w)
        PROVE  StageInv'
    <2>1. /\ UNCHANGED vars /\ UNCHANGED <<stage, white>>
          /\ core_mutex' \in {core_mutex, NoWorker}
      BY <1>4 DEF InConsume, Cores!Pass, Cores!Take, cacheVars, gameVars
    <2> QED  BY <1>1, <2>1 DEF vars, OnlyWhite, OneBlack
  <1>5. ASSUME NEW w \in Workers, NoCores(w)
        PROVE  StageInv'
    <2>1. /\ UNCHANGED vars /\ UNCHANGED white
          /\ core_mutex = w /\ core_mutex' = NoWorker
          /\ stage' = [stage EXCEPT ![w] = "idle"]
      BY <1>5 DEF NoCores, Cores!Throw, cacheVars
    <2>2. StageOf(w)'
      BY <1>1, <2>1 DEF vars
    <2> QED  BY <1>1, <1>2, <2>1, <2>2 DEF vars
  <1>6. ASSUME NEW w \in Workers, AskWhite(w)
        PROVE  StageInv'
    <2>1. PICK id \in Ids : getEntry(w, id) /\ white' = [white EXCEPT ![w] = id]
      BY <1>6 DEF AskWhite
    <2>2. /\ held' = held /\ held[w] = {} /\ core_mutex' = core_mutex /\ core_mutex # w
          /\ access_mutex' = w /\ scan'.id = id
          /\ stage' = [stage EXCEPT ![w] = "white"]
      BY <1>6, <2>1 DEF AskWhite, getEntry, coreVars, CoreInv
    <2>3. StageOf(w)'
      BY <2>1, <2>2 DEF OnlyWhite
    <2> QED  BY <1>1, <1>2, <2>1, <2>2, <2>3
  <1>7. ASSUME NEW w \in Workers, AskBlack(w)
        PROVE  StageInv'
    <2>1. PICK id \in Ids \ {white[w]} : getEntry(w, id)
      BY <1>7 DEF AskBlack
    <2>2. /\ UNCHANGED <<held, cache, white, core_mutex>> /\ OnlyWhite(w) /\ core_mutex # w
          /\ access_mutex' = w /\ scan'.id = id
          /\ stage' = [stage EXCEPT ![w] = "black"]
      BY <1>7, <2>1 DEF AskBlack, getEntry, coreVars
    <2>3. StageOf(w)'
      BY <2>1, <2>2 DEF OnlyWhite, OneBlack
    <2> QED  BY <1>1, <1>2, <2>1, <2>2, <2>3
  <1>8. ASSUME NEW w \in Workers, InGetEntry(w)
        PROVE  StageInv'
    <2>1. /\ UNCHANGED <<stage, white, core_mutex>>
          /\ scan'.id = scan.id
          /\ access_mutex = w
      BY <1>8 DEF InGetEntry, Skip, Take, Emplace, coreVars, gameVars, TypeOK
    <2>2. CASE Skip(w)
      BY <1>1, <2>1, <2>2 DEF Skip, OnlyWhite, OneBlack
    <2>3. CASE Take(w) \/ Emplace(w)
      <3>1. PICK i : i \in DOMAIN cache' /\ cache'[i].id = scan.id
                     /\ held' = [held EXCEPT ![w] = @ \cup {i}] /\ access_mutex' = NoWorker
        <4>1. CASE Take(w)
          BY <1>1, <4>1 DEF Take, Fits, TypeOK
        <4>2. CASE Emplace(w)
          BY <4>2, NewEntry DEF Emplace
        <4> QED  BY <2>3, <4>1, <4>2
      <3>2. held'[w] = held[w] \cup {i}
        BY <3>1 DEF TypeOK
      <3>3. StageOf(w)'
        BY <1>1, <2>1, <3>1, <3>2 DEF OnlyWhite, OneBlack
      <3>4. \A v \in Workers \ {w} : held'[v] = held[v] /\ access_mutex' # v
        BY <1>1, <3>1 DEF TypeOK
      <3>5. \A v \in Workers \ {w} : StageOf(v)'
        BY <1>1, <2>1, <3>4, OthersKept
      <3> QED  BY <2>1, <3>3, <3>5
    <2> QED  BY <1>8, <2>2, <2>3 DEF InGetEntry
  <1>9. ASSUME NEW w \in Workers, ReturnBlack(w)
        PROVE  StageInv'
    <2>1. PICK i \in held[w] : cache[i].id # white[w] /\ release(w, i)
      BY <1>9 DEF ReturnBlack
    <2>2. /\ UNCHANGED <<white, core_mutex, access_mutex, scan>>
          /\ held' = [held EXCEPT ![w] = @ \ {i}]
          /\ stage[w] = "black" /\ access_mutex # w
          /\ stage' = [stage EXCEPT ![w] = "return white"]
      BY <1>9, <2>1 DEF ReturnBlack, release, coreVars
    <2>3. StageOf(w)'
      BY <1>1, <2>1, <2>2 DEF OnlyWhite, OneBlack, TypeOK
    <2> QED  BY <1>1, <1>2, <2>2, <2>3 DEF TypeOK
  <1>10. ASSUME NEW w \in Workers, ReturnWhite(w)
         PROVE  StageInv'
    <2>1. PICK i \in held[w] : release(w, i)
      BY <1>10 DEF ReturnWhite
    <2>2. /\ UNCHANGED <<white, core_mutex, access_mutex, scan>>
          /\ held' = [held EXCEPT ![w] = @ \ {i}]
          /\ stage[w] = "return white"
          /\ stage' = [stage EXCEPT ![w] = "return core"]
      BY <1>10, <2>1 DEF ReturnWhite, release, coreVars
    <2>3. held[w] = {i}
      BY <1>10, <2>2 DEF OnlyWhite, OneOfEach
    <2>4. StageOf(w)'
      BY <2>2, <2>3 DEF TypeOK
    <2> QED  BY <1>1, <1>2, <2>2, <2>4 DEF TypeOK
  <1>11. ASSUME NEW w \in Workers, ReturnCore(w)
         PROVE  StageInv'
    <2>1. /\ UNCHANGED vars /\ UNCHANGED <<white, core_mutex>>
          /\ stage[w] = "return core" /\ stage' = [stage EXCEPT ![w] = "idle"]
      BY <1>11 DEF ReturnCore, Cores!release, cacheVars
    <2>2. StageOf(w)'
      BY <2>1 DEF vars
    <2> QED  BY <1>1, <1>2, <2>1, <2>2 DEF vars
  <1>12. CASE UNCHANGED allVars
    BY <1>12 DEF allVars, cacheVars, coreVars, gameVars, vars, OnlyWhite, OneBlack
  <1> QED
    BY <1>3, <1>4, <1>5, <1>6, <1>7, <1>8, <1>9, <1>10, <1>11, <1>12 DEF Games

(* The requests that playGame really makes are those the pool expects.     *)
LEMMA GamesUsePool == GamesSpec => Spec
  <1>1. GamesInit => IInv /\ CoreInv /\ StageInv /\ Init
    BY InitInv, CoreInit, StageInit DEF GamesInit
  <1>2. IInv /\ CoreInv /\ StageInv /\ [Games]_allVars =>
            [Next]_vars /\ IInv' /\ CoreInv' /\ StageInv'
    <2> SUFFICES ASSUME IInv, CoreInv, StageInv, [Games]_allVars
                 PROVE  [Next]_vars /\ IInv' /\ CoreInv' /\ StageInv'
      OBVIOUS
    <2>1. [Next]_vars
      BY PoolUse
    <2>2. IInv'
      BY <2>1, NextInv
    <2>3. TypeOK /\ TypeOK' /\ OneOfEach
      BY <2>2 DEF IInv, Safe
    <2> QED  BY <2>1, <2>2, <2>3, CoreUse, CoreStep, StageStep
  <1> QED  BY <1>1, <1>2, PTL DEF GamesSpec, Spec

(* An engine process belongs to one game at a time, with the games of      *)
(* playGame as the users of the pool (tournament.cpp:65-74).               *)
THEOREM EnginesLent == GamesSpec => ImplementsLease
  BY GamesUsePool, PoolLends

(* Those games start at most one process of an engine per worker           *)
(* (cache.hpp:41-50).                                                      *)
THEOREM EnginesFew == GamesSpec => []EnginesBounded
  BY GamesUsePool, PoolBounded

-----------------------------------------------------------------------------
(* The walk over the processors.                                           *)

\* The number of elements AffinityManager counts is the one counted here.
LEMMA SameCount == ASSUME NEW S PROVE Cores!Cardinality(S) = Cardinality(S)
  BY DEF Cores!Cardinality, Cardinality

LEMMA Machine ==
    ASSUME topology \in Topologies
    PROVE  /\ Len(topology) \in Nat /\ DOMAIN topology = 1..Len(topology)
           /\ \A c \in DOMAIN topology : topology[c] \in Nat \ {0}
           /\ \A p \in Cores!Processors :
                 /\ p = <<p[1], p[2]>> /\ p[1] \in DOMAIN topology
                 /\ p[2] \in 0..(topology[p[1]] - 1) /\ p[2] \in Nat /\ p[1] \in Nat
           /\ \A c \in DOMAIN topology : <<c, 0>> \in Cores!Processors
  <1>1. topology \in Seq(Nat \ {0})
    BY GameResourcesAssumption DEF Cores!AffinityAssumption
  <1>2. QED  BY <1>1 DEF Cores!Processors, Cores!ProcessorsOf

LEMMA ProcessorsFinite ==
    ASSUME topology \in Topologies
    PROVE  IsFiniteSet(Cores!Processors) /\ Cardinality(Cores!Processors) \in Nat
  <1> DEFINE of == [c \in DOMAIN topology |-> {c} \X (0..(topology[c] - 1))]
             all == {{c} \X (0..(topology[c] - 1)) : c \in DOMAIN topology}
  <1>1. of \in Surjection(DOMAIN topology, all)
    <2>1. of \in [DOMAIN topology -> all]
      OBVIOUS
    <2>2. \A s \in all : \E c \in DOMAIN topology : of[c] = s
      OBVIOUS
    <2> HIDE DEF of, all
    <2>3. QED  BY <2>1, <2>2, Fun_IsSurj
  <1>2. IsFiniteSet(DOMAIN topology)
    <2>1. Len(topology) \in Int /\ 1 \in Int /\ DOMAIN topology = 1..Len(topology)
      BY Machine
    <2>2. IsFiniteSet(1..Len(topology))
      BY <2>1, FS_Interval
    <2>3. QED  BY <2>1, <2>2
  <1>3. \A s \in all : IsFiniteSet(s)
    <2> SUFFICES ASSUME NEW c \in DOMAIN topology PROVE IsFiniteSet({c} \X (0..(topology[c] - 1)))
      OBVIOUS
    <2>1. IsFiniteSet({c})
      BY FS_Singleton
    <2>2. topology[c] - 1 \in Int /\ 0 \in Int
      BY Machine
    <2>3. IsFiniteSet(0..(topology[c] - 1))
      BY <2>2, FS_Interval
    <2>4. QED  BY <2>1, <2>3, FS_Product
  <1> HIDE DEF of
  <1>4. IsFiniteSet(all)
    <2> HIDE DEF all
    <2>1. QED  BY <1>1, <1>2, FS_Surjection
  <1>5. Cores!Processors = UNION all
    BY DEF Cores!Processors, Cores!ProcessorsOf
  <1> HIDE DEF all
  <1>6. QED  BY <1>3, <1>4, <1>5, FS_UNION, FS_CardinalityType

\* consume() looks at every processor, and at each once.
LEMMA EachOnce ==
    ASSUME topology \in Topologies, cores \in Cores!setupCores(topology)
    PROVE  /\ Len(cores) = Cardinality(Cores!Processors) /\ Len(cores) \in Nat
           /\ \A i \in 1..Len(cores) : cores[i] \in Cores!Processors
           /\ \A i, j \in 1..Len(cores) : i < j => Cores!LooksFirst(cores[i], cores[j])
           /\ \A i, j \in 1..Len(cores) : cores[i] = cores[j] => i = j
           /\ \A p \in Cores!Processors : \E i \in 1..Len(cores) : cores[i] = p
  <1> DEFINE n == Cardinality(Cores!Processors)
  <1>1. n \in Nat /\ IsFiniteSet(Cores!Processors)
    BY ProcessorsFinite
  <1>2. /\ cores \in [1..n -> Cores!Processors]
        /\ \A i, j \in DOMAIN cores : i < j => Cores!LooksFirst(cores[i], cores[j])
    <2>1. cores \in {s \in [1..n -> Cores!Processors] :
                        \A i, j \in DOMAIN s : i < j => Cores!LooksFirst(s[i], s[j])}
      BY SameCount DEF Cores!setupCores, Cores!Processors
    <2> HIDE DEF n
    <2>2. QED  BY <2>1
  <1> HIDE DEF n
  <1>3. Len(cores) = n
    BY <1>1, <1>2
  <1>4. \A p \in Cores!Processors : ~Cores!LooksFirst(p, p)
    BY Machine DEF Cores!LooksFirst, Cores!Group
  <1>5. \A i, j \in 1..n : cores[i] = cores[j] => i = j
    <2> SUFFICES ASSUME NEW i \in 1..n, NEW j \in 1..n, cores[i] = cores[j], i # j PROVE FALSE
      OBVIOUS
    <2>1. i < j \/ j < i
      BY <1>1
    <2>2. cores[i] \in Cores!Processors
      BY <1>2
    <2>3. QED  BY <1>2, <1>4, <2>1, <2>2
  <1>6. cores \in Injection(1..n, Cores!Processors)
    BY <1>2, <1>5, Fun_IsInj
  <1>7. cores \in Surjection(1..n, Cores!Processors)
    <2>1. Cardinality(1..n) = n
      BY <1>1, FS_Interval
    <2>2. QED  BY <1>1, <1>6, <2>1, FS_Injection DEF n
  <1>8. \A p \in Cores!Processors : \E i \in 1..n : cores[i] = p
    BY <1>7 DEF Surjection
  <1>9. QED  BY <1>1, <1>2, <1>3, <1>5, <1>8 DEF n

\* The first processors it looks at are on different physical cores.
LEMMA FirstSeats ==
    ASSUME topology \in Topologies, cores \in Cores!setupCores(topology),
           \A c \in DOMAIN topology : topology[c] <= 2,
           NEW i \in 1..Len(cores), i <= Len(topology)
    PROVE  cores[i][2] = 0
  <1> SUFFICES ASSUME cores[i][2] # 0 PROVE FALSE
    OBVIOUS
  <1> DEFINE L == Len(topology)
             seat == [c \in 1..L |-> CHOOSE j \in 1..Len(cores) : cores[j] = <<c, 0>>]
  <1>1. L \in Nat /\ DOMAIN topology = 1..L /\ i \in Nat /\ i >= 1 /\ Len(cores) \in Nat
    BY Machine, EachOnce
  <1>2. cores[i] \in Cores!Processors /\ cores[i][2] = 1
    <2>1. cores[i] \in Cores!Processors
      BY EachOnce
    <2>2. QED  BY <2>1, Machine
  <1>3. Cores!Group(0) = "HT_1" /\ Cores!Group(1) = "HT_2"
    BY DEF Cores!Group
  <1>4. \A c \in 1..L : seat[c] \in 1..Len(cores) /\ cores[seat[c]] = <<c, 0>>
    <2> TAKE c \in 1..L
    <2>1. <<c, 0>> \in Cores!Processors
      BY <1>1, Machine
    <2>2. \E j \in 1..Len(cores) : cores[j] = <<c, 0>>
      BY <2>1, EachOnce
    <2>3. QED  BY <2>2
  <1> HIDE DEF seat, L
  <1>5. \A c \in 1..L : seat[c] \in 1..(i - 1)
    <2> TAKE c \in 1..L
    <2>1. cores[seat[c]][2] = 0 /\ seat[c] \in 1..Len(cores)
      BY <1>4
    <2>2. ~Cores!LooksFirst(cores[i], cores[seat[c]])
      BY <1>2, <1>3, <2>1 DEF Cores!LooksFirst
    <2>3. seat[c] # i
      BY <1>2, <2>1
    <2>4. ~(i < seat[c])
      BY <2>1, <2>2, EachOnce
    <2>5. QED  BY <1>1, <2>1, <2>3, <2>4
  <1>6. \A c, d \in 1..L : seat[c] = seat[d] => c = d
    BY <1>4
  <1>7. seat \in Injection(1..L, 1..(i - 1))
    <2>1. seat \in [1..L -> 1..(i - 1)]
      BY <1>5 DEF seat
    <2>2. QED  BY <1>6, <2>1, Fun_IsInj
  <1>8. /\ IsFiniteSet(1..L) /\ Cardinality(1..L) = L
        /\ IsFiniteSet(1..(i - 1)) /\ Cardinality(1..(i - 1)) = i - 1
    <2>1. L \in Int /\ i - 1 \in Int /\ 1 \in Int /\ ~(1 > L + 1) /\ ~(1 > i)
      BY <1>1
    <2>2. IsFiniteSet(1..L) /\ Cardinality(1..L) = IF 1 > L THEN 0 ELSE L - 1 + 1
      BY <2>1, FS_Interval
    <2>3. /\ IsFiniteSet(1..(i - 1))
          /\ Cardinality(1..(i - 1)) = IF 1 > i - 1 THEN 0 ELSE (i - 1) - 1 + 1
      BY <2>1, FS_Interval
    <2>4. QED  BY <1>1, <2>2, <2>3
  <1>9. Cardinality(1..L) <= Cardinality(1..(i - 1))
    BY <1>7, <1>8, FS_Injection
  <1>10. L <= i - 1 /\ i <= L
    BY <1>8, <1>9 DEF L
  <1>11. QED  BY <1>1, <1>10

\* The workers, other than the one that walks, with a processor it has still to look at.
InTheWay(w) == {v \in Workers \ {w} : \E j \in 1..Len(cores) : at <= j /\ core[v] = cores[j]}

Smt == \A c \in DOMAIN topology : topology[c] <= 2

\* Every processor that a walk has passed was in use by a worker that cannot get
\* another one before the walk is over: so it passes fewer than there are workers.
UseInv ==
    /\ use_affinity \in BOOLEAN
    /\ cores \in Cores!setupCores(topology)
    /\ at \in Nat \ {0}
    /\ \A w \in Workers : core[w] \in Cores!Processors \cup {Cores!NoCore, Cores!NullCore}
    /\ use_affinity => \A w \in Workers : core[w] # Cores!NullCore
    /\ \A p \in Cores!Processors : ~available[p] => \E v \in Workers : core[v] = p
    /\ \A w \in Workers : core_mutex = w => at + Cardinality(InTheWay(w)) <= Cardinality(Workers)
    /\ Cardinality(Workers) <= Cardinality(Cores!Processors) => threw = {}
    /\ (Cardinality(Workers) <= Len(topology) /\ Smt) =>
           \A w \in Workers : core[w] \in Cores!Processors => core[w][2] = 0

LEMMA WorkersFinite ==
    ASSUME NEW S \in SUBSET Workers
    PROVE  IsFiniteSet(S) /\ Cardinality(S) \in Nat /\ Cardinality(S) <= Cardinality(Workers)
  BY CachePoolAssumption, FS_Subset, FS_CardinalityType

LEMMA UseInit == GamesInit => UseInv
  <1> SUFFICES ASSUME GamesInit PROVE UseInv
    OBVIOUS
  <1>1. Cores!Init
    BY DEF GamesInit
  <1>2. NoWorker \notin Workers
    BY CachePoolAssumption
  <1>3. Cores!NoCore # Cores!NullCore /\ Cores!NoCore \notin Cores!Processors
    BY <1>1, NoProcessor DEF Cores!NoCore, Cores!NullCore, Cores!Init
  <1>4. QED  BY <1>1, <1>2, <1>3 DEF UseInv, Cores!Init

\* A step that takes no processor, by a worker outside the walk.
LEMMA UseQuiet ==
    ASSUME UseInv, UNCHANGED <<use_affinity, topology, cores>>, available' = available,
           core_mutex' \in {core_mutex, NoWorker}, at' = at, core' = core, threw' = threw
    PROVE  UseInv'
  <1>1. UNCHANGED Cores!Processors
    BY DEF Cores!Processors
  <1>2. \A w \in Workers : core_mutex' = w => core_mutex = w
    BY CachePoolAssumption
  <1>3. ASSUME NEW w \in Workers PROVE InTheWay(w)' = InTheWay(w)
    BY DEF InTheWay
  <1>4. QED  BY <1>1, <1>2, <1>3 DEF UseInv, Smt

LEMMA UseStep ==
    ASSUME CoreInv, UseInv, [Cores!Next]_(Cores!vars)
    PROVE  UseInv'
  <1>0. /\ NoWorker \notin Workers /\ topology \in Topologies
        /\ Cores!NoCore \notin Cores!Processors /\ Cores!NullCore \notin Cores!Processors
        /\ Cores!NoCore # Cores!NullCore
        /\ core = [w \in Workers |-> core[w]]
        /\ available \in [Cores!Processors -> BOOLEAN]
        /\ \A w \in Workers : core_mutex = w => core[w] = Cores!NoCore
    BY NoProcessor, CachePoolAssumption DEF CoreInv, Cores!NoCore, Cores!NullCore
  <1>1. /\ Len(cores) = Cardinality(Cores!Processors) /\ Len(cores) \in Nat
        /\ \A i \in 1..Len(cores) : cores[i] \in Cores!Processors
        /\ \A i, j \in 1..Len(cores) : cores[i] = cores[j] => i = j
    BY <1>0, EachOnce DEF UseInv
  <1>2. Cardinality(Workers) \in Nat
    BY WorkersFinite
  <1>3. ASSUME NEW w \in Workers, Cores!MayConsume(w), Cores!consume(w)
        PROVE  UseInv'
    <2>1. CASE ~use_affinity
      <3>1. /\ core' = [core EXCEPT ![w] = Cores!NullCore]
            /\ UNCHANGED <<use_affinity, topology, cores, available, core_mutex, at, threw>>
            /\ UNCHANGED Cores!Processors
        BY <1>3, <2>1 DEF Cores!consume, Cores!machine, Cores!Processors
      <3>2. \A v \in Workers : core'[v] = IF v = w THEN Cores!NullCore ELSE core[v]
        BY <1>0, <3>1
      <3>3. core[w] = Cores!NoCore
        BY <1>3 DEF Cores!MayConsume
      <3>4. \A p \in Cores!Processors : ~available[p] => \E v \in Workers : core'[v] = p
        BY <1>0, <3>2, <3>3 DEF UseInv
      <3>5. ASSUME NEW v \in Workers, core_mutex = v
            PROVE  at + Cardinality(InTheWay(v)') <= Cardinality(Workers)
        <4>1. InTheWay(v)' \subseteq InTheWay(v)
          BY <1>0, <1>1, <3>1, <3>2 DEF InTheWay
        <4>2. InTheWay(v) \subseteq Workers
          BY DEF InTheWay
        <4>3. Cardinality(InTheWay(v)') <= Cardinality(InTheWay(v))
          BY <4>1, <4>2, WorkersFinite, FS_Subset
        <4>4. Cardinality(InTheWay(v)') \in Nat /\ Cardinality(InTheWay(v)) \in Nat
          BY <4>1, <4>2, WorkersFinite
        <4>5. QED  BY <1>2, <3>5, <4>3, <4>4 DEF UseInv
      <3>6. QED  BY <1>0, <2>1, <3>1, <3>2, <3>4, <3>5 DEF UseInv, Smt
    <2>2. CASE use_affinity
      <3>1. /\ core_mutex' = w /\ at' = 1
            /\ UNCHANGED <<use_affinity, topology, cores, available, core, threw>>
            /\ UNCHANGED Cores!Processors
        BY <1>3, <2>2 DEF Cores!consume, Cores!machine, Cores!Processors
      <3>2. InTheWay(w)' \subseteq Workers \ {w}
        BY DEF InTheWay
      <3>3. Cardinality(InTheWay(w)') <= Cardinality(Workers) - 1
        <4>1. Cardinality(Workers \ {w}) = Cardinality(Workers) - 1 /\ IsFiniteSet(Workers \ {w})
          BY CachePoolAssumption, FS_RemoveElement
        <4>2. QED  BY <3>2, <4>1, FS_Subset
      <3>4. Cardinality(InTheWay(w)') \in Nat
        BY <3>2, WorkersFinite
      <3>5. 1 + Cardinality(InTheWay(w)') <= Cardinality(Workers)
        BY <1>2, <3>3, <3>4
      <3>6. QED  BY <3>1, <3>5 DEF UseInv, Smt
    <2>3. QED  BY <2>1, <2>2
  <1>4. ASSUME NEW w \in Workers, Cores!Pass(w)
        PROVE  UseInv'
    <2>1. /\ core_mutex = w /\ at <= Len(cores) /\ ~available[cores[at]] /\ at' = at + 1
          /\ UNCHANGED <<use_affinity, topology, cores, available, core_mutex, core, threw>>
          /\ UNCHANGED Cores!Processors
      BY <1>4 DEF Cores!Pass, Cores!machine, Cores!Processors
    <2>2. at \in 1..Len(cores) /\ cores[at] \in Cores!Processors
      BY <1>1, <2>1 DEF UseInv
    <2>3. PICK v \in Workers : core[v] = cores[at]
      BY <2>1, <2>2 DEF UseInv
    <2>4. v # w
      BY <1>0, <2>1, <2>2, <2>3
    <2>5. v \in InTheWay(w)
      BY <2>2, <2>3, <2>4 DEF InTheWay, UseInv
    <2>6. InTheWay(w)' \subseteq InTheWay(w) \ {v}
      <3> SUFFICES ASSUME NEW u \in InTheWay(w)' PROVE u \in InTheWay(w) /\ u # v
        OBVIOUS
      <3>1. PICK j \in 1..Len(cores) : at + 1 <= j /\ core[u] = cores[j]
        BY <2>1 DEF InTheWay
      <3>2. u \in Workers /\ u # w
        BY DEF InTheWay
      <3>3. at <= j /\ j # at
        BY <2>2, <3>1
      <3>4. QED  BY <1>1, <2>2, <2>3, <3>1, <3>2, <3>3 DEF InTheWay
    <2>7. Cardinality(InTheWay(w)') + 1 <= Cardinality(InTheWay(w))
      <3>1. InTheWay(w) \subseteq Workers
        BY DEF InTheWay
      <3>2. IsFiniteSet(InTheWay(w)) /\ Cardinality(InTheWay(w)) \in Nat
        BY <3>1, WorkersFinite
      <3>3. /\ IsFiniteSet(InTheWay(w) \ {v})
            /\ Cardinality(InTheWay(w) \ {v}) = Cardinality(InTheWay(w)) - 1
        BY <2>5, <3>2, FS_RemoveElement
      <3>4. Cardinality(InTheWay(w)') <= Cardinality(InTheWay(w) \ {v})
        BY <2>6, <3>3, FS_Subset
      <3>5. Cardinality(InTheWay(w)') \in Nat
        BY <2>6, <3>3, FS_Subset, FS_CardinalityType
      <3>6. QED  BY <3>2, <3>3, <3>4, <3>5
    <2>8. Cardinality(InTheWay(w)) \in Nat /\ Cardinality(InTheWay(w)') \in Nat
      <3>1. InTheWay(w) \subseteq Workers /\ InTheWay(w)' \subseteq Workers
        BY DEF InTheWay
      <3>2. QED  BY <3>1, WorkersFinite
    <2>9. at' + Cardinality(InTheWay(w)') <= Cardinality(Workers)
      BY <1>2, <2>1, <2>2, <2>7, <2>8 DEF UseInv
    <2>10. QED  BY <2>1, <2>9 DEF UseInv, Smt
  <1>5. ASSUME NEW w \in Workers, Cores!Take(w)
        PROVE  UseInv'
    <2>0. PICK c : c = cores[at]
      OBVIOUS
    <2>1. /\ core_mutex = w /\ at <= Len(cores) /\ available[c]
          /\ available' = [available EXCEPT ![c] = FALSE]
          /\ core' = [core EXCEPT ![w] = c]
          /\ core_mutex' = NoWorker
          /\ UNCHANGED <<use_affinity, topology, cores, at, threw>>
          /\ UNCHANGED Cores!Processors
      BY <1>5, <2>0 DEF Cores!Take, Cores!machine, Cores!Processors
    <2>2. at \in 1..Len(cores) /\ c \in Cores!Processors
      BY <1>1, <2>0, <2>1 DEF UseInv
    <2>3. \A v \in Workers : core'[v] = IF v = w THEN c ELSE core[v]
      BY <1>0, <2>1
    <2>4. \A p \in Cores!Processors : ~available'[p] => \E v \in Workers : core'[v] = p
      <3> TAKE p \in Cores!Processors
      <3>1. CASE p = c
        BY <2>3, <3>1
      <3>2. ASSUME p # c, ~available'[p] PROVE \E v \in Workers : core'[v] = p
        <4>1. ~available[p]
          BY <1>0, <2>1, <3>2
        <4>2. PICK v \in Workers : core[v] = p
          BY <4>1 DEF UseInv
        <4>3. v # w
          BY <1>0, <2>1, <4>2
        <4>4. QED  BY <2>3, <4>2, <4>3
      <3>3. QED  BY <3>1, <3>2
    <2>5. (Cardinality(Workers) <= Len(topology) /\ Smt) => c[2] = 0
      <3> SUFFICES ASSUME Cardinality(Workers) <= Len(topology), Smt PROVE c[2] = 0
        OBVIOUS
      <3>1. InTheWay(w) \subseteq Workers
        BY DEF InTheWay
      <3>2. Cardinality(InTheWay(w)) \in Nat
        BY <3>1, WorkersFinite
      <3>3. at <= Cardinality(Workers)
        BY <1>2, <2>1, <2>2, <3>2 DEF UseInv
      <3>4. at <= Len(topology)
        BY <1>0, <1>2, <2>2, <3>3, Machine
      <3>5. QED  BY <1>0, <2>0, <2>2, <3>4, FirstSeats DEF UseInv, Smt
    <2>6. QED  BY <1>0, <2>1, <2>2, <2>3, <2>4, <2>5 DEF UseInv, Smt
  <1>6. ASSUME NEW w \in Workers, Cores!Throw(w)
        PROVE  UseInv'
    <2>1. /\ core_mutex = w /\ at > Len(cores) /\ core_mutex' = NoWorker
          /\ UNCHANGED <<use_affinity, topology, cores, available, at, core>>
          /\ UNCHANGED Cores!Processors
      BY <1>6 DEF Cores!Throw, Cores!machine, Cores!Processors
    <2>2. InTheWay(w) \subseteq Workers
      BY DEF InTheWay
    <2>3. Cardinality(InTheWay(w)) \in Nat
      BY <2>2, WorkersFinite
    <2>4. ~(Cardinality(Workers) <= Cardinality(Cores!Processors))
      BY <1>1, <1>2, <2>1, <2>3 DEF UseInv
    <2>5. QED  BY <1>0, <2>1, <2>4 DEF UseInv, Smt
  <1>7. ASSUME NEW w \in Workers, Cores!release(w)
        PROVE  UseInv'
    <2>1. /\ core[w] # Cores!NoCore
          /\ available' = [p \in Cores!Processors |-> available[p] \/ p = core[w]]
          /\ core' = [core EXCEPT ![w] = Cores!NoCore]
          /\ UNCHANGED <<use_affinity, topology, cores, core_mutex, at, threw>>
          /\ UNCHANGED Cores!Processors
      BY <1>7 DEF Cores!release, Cores!machine, Cores!Processors
    <2>2. \A v \in Workers : core'[v] = IF v = w THEN Cores!NoCore ELSE core[v]
      BY <1>0, <2>1
    <2>3. \A p \in Cores!Processors : ~available'[p] => \E v \in Workers : core'[v] = p
      <3> SUFFICES ASSUME NEW p \in Cores!Processors, ~available'[p] PROVE \E v \in Workers : core'[v] = p
        OBVIOUS
      <3>1. ~available[p] /\ p # core[w]
        BY <2>1
      <3>2. PICK v \in Workers : core[v] = p
        BY <3>1 DEF UseInv
      <3>3. QED  BY <2>2, <3>1, <3>2
    <2>4. ASSUME NEW v \in Workers, core_mutex = v
          PROVE  at + Cardinality(InTheWay(v)') <= Cardinality(Workers)
      <3>1. InTheWay(v)' \subseteq InTheWay(v)
        BY <1>0, <1>1, <2>1, <2>2 DEF InTheWay
      <3>2. InTheWay(v) \subseteq Workers
        BY DEF InTheWay
      <3>3. Cardinality(InTheWay(v)') <= Cardinality(InTheWay(v))
        BY <3>1, <3>2, WorkersFinite, FS_Subset
      <3>4. Cardinality(InTheWay(v)') \in Nat /\ Cardinality(InTheWay(v)) \in Nat
        BY <3>1, <3>2, WorkersFinite
      <3>5. QED  BY <1>2, <2>4, <3>3, <3>4 DEF UseInv
    <2>5. QED  BY <1>0, <2>1, <2>2, <2>3, <2>4 DEF UseInv, Smt
  <1>8. CASE UNCHANGED Cores!vars
    BY <1>8, UseQuiet DEF Cores!vars, Cores!machine
  <1>9. QED
    BY <1>3, <1>4, <1>5, <1>6, <1>7, <1>8 DEF Cores!Next

LEMMA UseKept == GamesSpec => [](CoreInv /\ UseInv)
  <1>1. CoreInv /\ UseInv /\ [Games]_allVars => CoreInv' /\ UseInv'
    BY CoreUse, CoreStep, UseStep
  <1>2. QED  BY <1>1, CoreInit, UseInit, PTL DEF GamesSpec

(* No game is lost for want of a processor while there are no more games   *)
(* than processors, although processors come back behind a walk that has   *)
(* passed them (affinity_manager.hpp:63-88).                               *)
THEOREM NoGameWithoutCore == GamesSpec => []NeverExhausted
  <1>1. UseInv => NeverExhausted
    BY SameCount DEF UseInv, NeverExhausted, Cores!NeverExhausted
  <1>2. QED  BY <1>1, UseKept, PTL

(* On cores of at most two processors, games that are no more than the     *)
(* cores are each on a core of their own (affinity_manager.hpp:43-46).     *)
THEOREM GamesApart == GamesSpec => []CoresApart
  <1>1. CoreInv /\ UseInv => CoresApart
    <2> SUFFICES ASSUME CoreInv, UseInv, use_affinity, Cardinality(Workers) <= Len(topology), Smt,
                        NEW v \in Workers, NEW w \in Workers,
                        v # w, core[v] # Cores!NoCore, core[w] # Cores!NoCore, core[v][1] = core[w][1]
                 PROVE  FALSE
      BY SameCount DEF CoresApart, Cores!CoresApart, Smt
    <2>1. core[v] \in Cores!Processors /\ core[w] \in Cores!Processors
      BY DEF UseInv
    <2>2. core[v][2] = 0 /\ core[w][2] = 0
      BY <2>1 DEF UseInv
    <2>3. core[v] = <<core[v][1], core[v][2]>> /\ core[w] = <<core[w][1], core[w][2]>>
      BY <2>1, Machine DEF CoreInv
    <2>4. core[v] = core[w]
      BY <2>2, <2>3
    <2>5. QED  BY <2>1, <2>4 DEF CoreInv
  <1>2. QED  BY <1>1, UseKept, PTL
=============================================================================
