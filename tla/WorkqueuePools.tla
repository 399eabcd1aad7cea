--------------------------- MODULE WorkqueuePools ---------------------------
(***************************************************************************)
(* More proofs about Workqueue, for every number of CPUs, threads and      *)
(* items: accepted work is in one place, what the counters of a pool say   *)
(* of its threads, and that every sleeper is on its wait list.             *)
(***************************************************************************)
EXTENDS WorkqueueProofs, FiniteSetTheorems

-----------------------------------------------------------------------------
(* Pools *)

Points == LoopPoints \union {"none", "parked", "spawn", "bind"}

\* The workers of a pool, those that execute an item, and the one that its
\* manager has spawned and not yet bound.
Staff(c) == {t \in Threads : Cpu(t) = c /\ ~IsManager(t)}
Busy(c) == {t \in Threads : Cpu(t) = c /\ pc[t] \in {"notify", "run", "end"}}
Unbound(c) == {t \in Threads : Cpu(t) = c /\ Alive(t) /\ t \notin pinned}

PoolTypes ==
    /\ pc \in [Threads -> Points]
    /\ \A t \in Threads : IsManager(t) => pc[t] \notin {"pop", "begin", "notify", "run", "end"}
    /\ count \in [Cpus -> Nat] /\ workers \in [Cpus -> Nat] /\ left \in [Cpus -> Nat]
    /\ \A c \in Cpus : cfg.max[c] >= 1 /\ (pc[<<c, 0>>] = "none" => cfg.max[c] = 1)

\* ACTIVE and WORKERS are the sizes of those sets, and the manager never
\* spawns more than the pool may have.
Counts ==
    \A c \in Cpus :
        /\ count[c] = Cardinality(Busy(c))
        /\ workers[c] = Cardinality(Staff(c) \cap pinned) /\ workers[c] >= 1
        /\ workers[c] + left[c] <= cfg.max[c]
        /\ pc[<<c, 0>>] \in {"spawn", "bind"} => left[c] >= 1
        /\ pc[<<c, 0>>] = "bind" => \E u \in Staff(c) : Unbound(c) = {u}

\* What the manager sampled of the ring is kept only until it acts on it.
Sampled ==
    /\ DOMAIN seen = Cpus
    /\ \A c \in Cpus :
         \/ seen[c] = {}
         \/ /\ \E p \in 0 .. cfg.cap : seen[c] = {p}
            /\ pc[<<c, 0>>] \in {"test", "recheck"} \/ (pc[<<c, 0>>] = "yield" /\ <<c, 0>> \notin sleepy)

PoolInv == PoolTypes /\ Counts /\ Sampled

-----------------------------------------------------------------------------
(* Waiting *)

Lists == Cpus \X Kinds

\* A list holds threads of its own kind, none of them twice, and every sleeping
\* thread is on its list.
Enlisted ==
    /\ wait \in [Lists -> Seq(Threads)]
    /\ \A l \in Lists : Distinct(wait[l]) /\ \A t \in Elems(wait[l]) : List(t) = l
    /\ sleepy \subseteq Threads
    /\ \A t \in sleepy : t \in Elems(wait[List(t)])

Asleep == \A t \in sleepy : pc[t] \in {"recheck", "yield"}

-----------------------------------------------------------------------------
(* Where an item is *)

\* The places of an item on the rings and in the hands.
LEMMA PlacesCount ==
    ASSUME RingInv, ItemInv, NEW i \in Items
    PROVE  /\ Cardinality({p \in Cpus \X (1 .. cfg.cap) : p[2] <= Len(ring[p[1]]) /\ ring[p[1]][p[2]] = i})
                = IF \E c \in Cpus : i \in Elems(ring[c]) THEN 1 ELSE 0
           /\ Cardinality({t \in Threads : hand[t] = i}) = IF \E t \in Threads : hand[t] = i THEN 1 ELSE 0
  <1>t. HeldOnce
    BY Zenon DEF ItemInv
  <1> DEFINE R == {p \in Cpus \X (1 .. cfg.cap) : p[2] <= Len(ring[p[1]]) /\ ring[p[1]][p[2]] = i}
  <1> DEFINE H == {t \in Threads : hand[t] = i}
  <1>1. /\ \A c \in Cpus : Len(ring[c]) \in Nat /\ Len(ring[c]) <= cfg.cap
        /\ cfg.cap \in Nat
    BY DEF RingInv, RingTypes, Settings
  <1>2. \A c \in Cpus : \A k \in 1 .. cfg.cap : <<c, k>> \in R <=> (k \in 1 .. Len(ring[c]) /\ ring[c][k] = i)
    BY <1>1
  <1>3. \A p \in R : p = <<p[1], p[2]>> /\ p[1] \in Cpus /\ p[2] \in 1 .. cfg.cap
    OBVIOUS
  <1>4. \A c \in Cpus : \A k \in 1 .. Len(ring[c]) : k \in 1 .. cfg.cap
    BY <1>1
  <1> HIDE DEF R
  <1>5. ASSUME NEW c \in Cpus, i \in Elems(ring[c]) PROVE Cardinality(R) = 1
    <2>2. PICK k \in 1 .. Len(ring[c]) : ring[c][k] = i
      BY <1>5, Zenon DEF Elems
    <2>3. <<c, k>> \in R
      BY <1>2, <1>4, <2>2, Zenon
    <2>4. \A p \in R : p = <<c, k>>
      <3> SUFFICES ASSUME NEW p \in R PROVE p[1] = c /\ p[2] = k
        BY <1>3, Zenon
      <3>1. p[1] \in Cpus /\ p[2] \in 1 .. Len(ring[p[1]]) /\ ring[p[1]][p[2]] = i
        BY <1>2, <1>3, Zenon
      <3>2. i \in Elems(ring[p[1]])
        BY <3>1, Zenon DEF Elems
      <3>3. p[1] = c
        BY <1>t, <1>5, <3>1, <3>2, Zenon DEF HeldOnce
      <3>4. \A m, n \in 1 .. Len(ring[c]) : ring[c][m] = ring[c][n] => m = n
        BY <1>t, Zenon DEF HeldOnce, Distinct
      <3>5. p[2] \in 1 .. Len(ring[c]) /\ ring[c][p[2]] = i
        BY <3>1, <3>3
      <3> QED BY <2>2, <3>3, <3>4, <3>5, Zenon
    <2>5. R = {<<c, k>>}
      BY <2>3, <2>4, Zenon
    <2> QED BY <2>5, FS_Singleton, Zenon
  <1>6. ASSUME \A c \in Cpus : i \notin Elems(ring[c]) PROVE Cardinality(R) = 0
    <2>1. ASSUME NEW p \in R PROVE FALSE
      <3>1. p[1] \in Cpus /\ p[2] \in 1 .. Len(ring[p[1]]) /\ ring[p[1]][p[2]] = i
        BY <1>2, <1>3, <2>1, Zenon
      <3> QED BY <1>6, <3>1, Zenon DEF Elems
    <2>2. R = {}
      BY <2>1, Zenon
    <2> QED BY <2>2, FS_EmptySet, Zenon
  <1>7. Cardinality(H) = IF \E t \in Threads : hand[t] = i THEN 1 ELSE 0
    <2>1. CASE \E t \in Threads : hand[t] = i
      <3>1. PICK t \in Threads : hand[t] = i
        BY <2>1
      <3>2. i # NoItem
        BY NoItemIsNone, Zenon
      <3>3. H = {t}
        BY <1>t, <3>1, <3>2, Zenon DEF HeldOnce
      <3> QED BY <2>1, <3>3, FS_Singleton, Zenon
    <2>2. CASE ~\E t \in Threads : hand[t] = i
      <3>1. H = {}
        BY <2>2, Zenon
      <3> QED BY <2>2, <3>1, FS_EmptySet, Zenon
    <2> QED BY <2>1, <2>2
  <1> QED BY <1>5, <1>6, <1>7, Zenon DEF R

\* Work that queue_work_on accepted is on exactly one ring, in one worker's
\* hand, with the evacuation, or has run once, whatever the CPUs, items, threads
\* and capacities are: neither drain nor evacuate_offline_with loses or doubles
\* an item, also when a restored head goes back to the ring it came from.
THEOREM Conserved == Spec => []WorkConserved
  <1>1. Init => RingInv /\ ParkInv /\ ItemInv
    BY RingInit, ParkInit, ItemInit
  <1>2. RingInv /\ ParkInv /\ ItemInv /\ [Next]_vars => RingInv' /\ ParkInv' /\ ItemInv'
    BY RingNext, ParkNext, ItemNext DEF ParkInv
  <1>3. RingInv /\ ItemInv => WorkConserved
    <2> SUFFICES ASSUME RingInv, ItemInv, NEW i \in Items
                 PROVE  Places(i) = IF src[i] \in {"wake", "manage", "queued"} \/ moving = i THEN 1 ELSE 0
      BY Zenon DEF WorkConserved
    <2>t. ItemTypes /\ HeldOnce /\ HeldAccepted
      BY Zenon DEF ItemInv
    <2>1. ran[i] \in {0, 1} /\ i # NoItem
      BY <2>t, NoItemIsNone, Zenon DEF ItemTypes
    <2> DEFINE onRing == \E c \in Cpus : i \in Elems(ring[c])
    <2> DEFINE inHand == \E t \in Threads : hand[t] = i
    <2>2. Places(i) = (IF onRing THEN 1 ELSE 0) + (IF inHand THEN 1 ELSE 0)
                       + (IF moving = i /\ src[i] = "push" THEN 1 ELSE 0) + ran[i]
      BY PlacesCount, Zenon DEF Places
    <2>3. /\ ~(onRing /\ inHand)
          /\ onRing \/ inHand => src[i] \in Accepted /\ ran[i] = 0
          /\ src[i] \in Accepted => onRing \/ inHand \/ ran[i] = 1
          /\ ran[i] = 1 => src[i] \in Accepted
          /\ moving = i => src[i] \in Accepted \/ src[i] = "push"
      <3>1. ~(onRing /\ inHand)
        BY <2>t, Zenon DEF HeldOnce
      <3>2. Held(i) <=> onRing \/ inHand
        BY Zenon DEF Held
      <3>3. moving = i => src[i] \in Accepted \/ src[i] = "push"
        BY <2>t, <2>1, Zenon DEF HeldAccepted
      <3> HIDE DEF onRing, inHand
      <3> QED BY <2>t, <3>1, <3>2, <3>3, Zenon DEF HeldAccepted
    <2> HIDE DEF onRing, inHand
    <2> QED BY <2>1, <2>2, <2>3 DEF Accepted
  <1> QED BY <1>1, <1>2, <1>3, PTL DEF Spec

-----------------------------------------------------------------------------
(* The counters of a pool *)

\* worker_deficit never asks for more than the pool may have, and asks for none
\* only if nothing is pending, a worker is free or the pool is full.
LEMMA DeficitFits ==
    ASSUME NEW p \in Nat, NEW r \in Nat, NEW n \in Nat, NEW m \in Nat, n <= m
    PROVE  /\ Deficit(p, r, n, m) \in Nat /\ n + Deficit(p, r, n, m) <= m
           /\ Deficit(p, r, n, m) = 0 <=> p = 0 \/ r < n \/ n = m
  <1>1. CASE p = 0 \/ r < n
    <2>1. Deficit(p, r, n, m) = 0
      BY <1>1, Zenon DEF Deficit
    <2> QED BY <1>1, <2>1
  <1>2. CASE ~(p = 0 \/ r < n)
    <2> DEFINE S == {p, m - n}
    <2>1. \E x \in S : \A y \in S : x <= y
      <3>1. CASE p <= m - n
        BY <3>1
      <3>2. CASE ~(p <= m - n)
        BY <3>2
      <3> QED BY <3>1, <3>2
    <2>2. Min(S) \in S /\ \A y \in S : Min(S) <= y
      BY <2>1, Zenon DEF Min
    <2>3. Deficit(p, r, n, m) = Min(S)
      BY <1>2, Zenon DEF Deficit
    <2> QED BY <1>2, <2>2, <2>3
  <1> QED BY <1>1, <1>2

LEMMA ThreadsFinite == IsFiniteSet(Threads) /\ \A T \in SUBSET Threads : IsFiniteSet(T) /\ Cardinality(T) \in Nat
  <1>1. IsFiniteSet(0 .. MaxThreads)
    BY ThreadBound, FS_Interval
  <1>2. IsFiniteSet(Threads)
    BY <1>1, CpuNumbers, FS_Product, Zenon DEF Threads
  <1>3. ASSUME NEW T \in SUBSET Threads PROVE IsFiniteSet(T) /\ Cardinality(T) \in Nat
    BY <1>2, FS_Subset, FS_CardinalityType, Zenon
  <1> QED BY <1>2, <1>3, Zenon

\* One more or one less of the threads.
LEMMA OneMore ==
    ASSUME NEW T \in SUBSET Threads, NEW t \in Threads, t \notin T
    PROVE  Cardinality(T \union {t}) = Cardinality(T) + 1
  <1>1. IsFiniteSet(T)
    BY ThreadsFinite, Zenon
  <1> QED BY <1>1, FS_AddElement, Zenon

LEMMA OneLess ==
    ASSUME NEW T \in SUBSET Threads, NEW t \in T
    PROVE  Cardinality(T \ {t}) = Cardinality(T) - 1
  <1>1. IsFiniteSet(T)
    BY ThreadsFinite, Zenon
  <1> QED BY <1>1, FS_RemoveElement, Zenon

\* A manager by its CPU.
LEMMA ManagerOf ==
    ASSUME NEW c \in Cpus, NEW t \in Threads
    PROVE  /\ <<c, 0>> \in Threads /\ Cpu(<<c, 0>>) = c /\ IsManager(<<c, 0>>)
           /\ (t = <<c, 0>>) <=> (IsManager(t) /\ Cpu(t) = c)
  BY ThreadBound DEF Threads, Cpu, IsManager

\* Nothing of a pool's counters changes, and nobody goes to sleep.
LEMMA PoolSame ==
    ASSUME PoolInv, UNCHANGED <<pc, count, workers, left, seen, pinned>>, sleepy' \subseteq sleepy,
           cfg'.max = cfg.max, cfg'.cap = cfg.cap
    PROVE  PoolInv'
  <1>1. PoolTypes'
    BY Zenon DEF PoolInv, PoolTypes
  <1>2. Counts'
    <2>1. \A c \in Cpus : Busy(c)' = Busy(c) /\ Unbound(c)' = Unbound(c)
      BY Zenon DEF Busy, Unbound, Alive
    <2> QED BY <2>1, Zenon DEF PoolInv, Counts
  <1>3. Sampled'
    BY Zenon DEF PoolInv, Sampled
  <1> QED BY <1>1, <1>2, <1>3, Zenon DEF PoolInv

\* The manager's sample is used up or nobody touches it.
LEMMA SampledKept ==
    ASSUME Sampled, ThreadTypes, NEW t \in Threads, NEW p, Goto(t, p), cfg'.cap = cfg.cap,
           sleepy' \subseteq sleepy \union {t},
           \/ UNCHANGED seen /\ (IsManager(t) => pc[t] \notin {"test", "recheck", "yield"})
           \/ IsManager(t) /\ seen' = [seen EXCEPT ![Cpu(t)] = {}]
    PROVE  Sampled'
  <1>p. pc'[t] = p /\ \A u \in Threads : u # t => pc'[u] = pc[u]
    BY Goes, Zenon
  <1>c. Cpu(t) \in Cpus
    BY Homes, Zenon
  <1>d. DOMAIN seen' = Cpus /\ \A c \in Cpus : seen'[c] = seen[c] \/ seen'[c] = {}
    BY <1>c DEF Sampled
  <1> SUFFICES ASSUME NEW c \in Cpus, seen'[c] # {}
               PROVE  /\ \E n \in 0 .. cfg.cap : seen'[c] = {n}
                      /\ pc'[<<c, 0>>] \in {"test", "recheck"} \/ (pc'[<<c, 0>>] = "yield" /\ <<c, 0>> \notin sleepy')
    BY <1>d, Zenon DEF Sampled
  <1>1. /\ seen'[c] = seen[c] /\ \E n \in 0 .. cfg.cap : seen'[c] = {n}
        /\ pc[<<c, 0>>] \in {"test", "recheck"} \/ (pc[<<c, 0>>] = "yield" /\ <<c, 0>> \notin sleepy)
    BY <1>d, Zenon DEF Sampled
  <1>2. <<c, 0>> # t
    <2> SUFFICES ASSUME t = <<c, 0>> PROVE FALSE
      BY Zenon
    <2>1. IsManager(t) /\ Cpu(t) = c
      BY ManagerOf, Zenon
    <2>2. seen'[c] = {}
      BY <1>c, <1>1, <2>1 DEF Sampled
    <2> QED BY <2>2
  <1>3. <<c, 0>> \in Threads
    BY ManagerOf, Zenon
  <1> QED BY <1>p, <1>1, <1>2, <1>3, Zenon

\* A thread that is not about to spawn goes on, and ACTIVE with it.
WorkPoints == {"pop", "begin", "notify", "run", "end"}

LEMMA PoolMove ==
    ASSUME PoolInv, ThreadTypes, UNCHANGED <<workers, left, pinned>>, cfg'.max = cfg.max,
           NEW t \in Threads, NEW p \in Points, Goto(t, p), p \notin {"none", "spawn", "bind"}, pc[t] \notin {"none", "bind"},
           IsManager(t) => p \notin WorkPoints, count' \in [Cpus -> Nat],
           \A c \in Cpus : count'[c] = Cardinality(Busy(c)')
    PROVE  PoolTypes' /\ Counts'
  <1>t. PoolTypes /\ Counts
    BY Zenon DEF PoolInv
  <1>p. pc'[t] = p /\ (\A u \in Threads : u # t => pc'[u] = pc[u]) /\ DOMAIN pc' = Threads
    BY Goes, Zenon
  <1>a. \A u \in Threads : Alive(u)' = Alive(u)
    BY <1>p DEF Alive
  <1>m. \A c \in Cpus : <<c, 0>> \in Threads
    BY ManagerOf, Zenon
  <1>1. pc' \in [Threads -> Points]
    BY <1>t DEF PoolTypes, Goto
  <1>2. \A u \in Threads : IsManager(u) => pc'[u] \notin WorkPoints
    BY <1>t, <1>p, Zenon DEF PoolTypes, WorkPoints
  <1>3. \A c \in Cpus : cfg'.max[c] >= 1 /\ (pc'[<<c, 0>>] = "none" => cfg'.max[c] = 1)
    BY <1>t, <1>p, <1>m, Zenon DEF PoolTypes
  <1>4. PoolTypes'
    BY <1>t, <1>1, <1>2, <1>3, Zenon DEF PoolTypes, WorkPoints
  <1>5. \A c \in Cpus : Unbound(c)' = Unbound(c)
    BY <1>a, Zenon DEF Unbound
  <1>6. \A c \in Cpus : pc'[<<c, 0>>] = "bind" => pc[<<c, 0>>] = "bind"
    BY <1>p, <1>m, Zenon
  <1>7. \A c \in Cpus : pc'[<<c, 0>>] = "spawn" => pc[<<c, 0>>] = "spawn"
    BY <1>p, <1>m, Zenon
  <1>8. Counts'
    BY <1>t, <1>5, <1>6, <1>7, Zenon DEF Counts
  <1> QED BY <1>4, <1>8

\* The steps of a thread that leave ACTIVE alone.
Executing == {"notify", "run", "end"}

LEMMA PoolLoop ==
    ASSUME PoolInv, ThreadTypes, UNCHANGED <<workers, left, pinned, count>>, cfg'.max = cfg.max, cfg'.cap = cfg.cap,
           NEW t \in Threads, NEW p \in Points, Goto(t, p), p \notin {"none", "spawn", "bind"}, pc[t] \notin {"none", "bind"},
           IsManager(t) => p \notin WorkPoints, p \in Executing <=> pc[t] \in Executing,
           sleepy' \subseteq sleepy \union {t},
           \/ UNCHANGED seen /\ (IsManager(t) => pc[t] \notin {"test", "recheck", "yield"})
           \/ IsManager(t) /\ seen' = [seen EXCEPT ![Cpu(t)] = {}]
    PROVE  PoolInv'
  <1>p. pc'[t] = p /\ \A u \in Threads : u # t => pc'[u] = pc[u]
    BY Goes, Zenon
  <1>1. \A c \in Cpus : Busy(c)' = Busy(c)
    BY <1>p, Zenon DEF Busy, Executing
  <1>2. \A c \in Cpus : count'[c] = Cardinality(Busy(c)')
    BY <1>1, Zenon DEF PoolInv, Counts
  <1>3. PoolTypes' /\ Counts'
    BY <1>2, PoolMove, Zenon DEF PoolInv, PoolTypes
  <1>4. Sampled'
    BY SampledKept, Zenon DEF PoolInv
  <1> QED BY <1>3, <1>4, Zenon DEF PoolInv

LEMMA BeginPool ==
    ASSUME PoolInv, ThreadTypes, NEW t \in Threads, Begin(t)
    PROVE  PoolInv'
  <1>c. Cpu(t) \in Cpus
    BY Homes, Zenon
  <1>1. /\ pc[t] = "begin" /\ count' = [count EXCEPT ![Cpu(t)] = @ + 1] /\ Goto(t, "notify")
        /\ UNCHANGED <<cfg, workers, left, pinned, seen, sleepy>>
    BY Zenon DEF Begin, spawns, waits
  <1>p. pc'[t] = "notify" /\ \A u \in Threads : u # t => pc'[u] = pc[u]
    BY <1>1, Goes, Zenon
  <1>2. ~IsManager(t)
    BY <1>1 DEF PoolInv, PoolTypes
  <1>3. t \notin Busy(Cpu(t)) /\ Busy(Cpu(t))' = Busy(Cpu(t)) \union {t}
    BY <1>1, <1>p DEF Busy
  <1>4. \A c \in Cpus : c # Cpu(t) => Busy(c)' = Busy(c)
    BY <1>p, Zenon DEF Busy
  <1>5. Cardinality(Busy(Cpu(t))') = Cardinality(Busy(Cpu(t))) + 1
    BY <1>3, OneMore, Zenon DEF Busy
  <1>6. count' \in [Cpus -> Nat] /\ count'[Cpu(t)] = count[Cpu(t)] + 1 /\ \A c \in Cpus : c # Cpu(t) => count'[c] = count[c]
    BY <1>c, <1>1 DEF PoolInv, PoolTypes
  <1>7. \A c \in Cpus : count'[c] = Cardinality(Busy(c)')
    BY <1>c, <1>4, <1>5, <1>6, Zenon DEF PoolInv, Counts
  <1>8. PoolTypes' /\ Counts'
    BY <1>1, <1>2, <1>6, <1>7, PoolMove DEF Points, LoopPoints
  <1>9. Sampled'
    BY <1>1, <1>2, SampledKept, Zenon DEF PoolInv
  <1> QED BY <1>8, <1>9, Zenon DEF PoolInv

LEMMA EndPool ==
    ASSUME PoolInv, ThreadTypes, NEW t \in Threads, End(t)
    PROVE  PoolInv'
  <1>c. Cpu(t) \in Cpus
    BY Homes, Zenon
  <1>1. /\ pc[t] = "end" /\ count' = [count EXCEPT ![Cpu(t)] = @ - 1] /\ Goto(t, "pop")
        /\ UNCHANGED <<cfg, workers, left, pinned, seen, sleepy>>
    BY Zenon DEF End, spawns, waits
  <1>p. pc'[t] = "pop" /\ \A u \in Threads : u # t => pc'[u] = pc[u]
    BY <1>1, Goes, Zenon
  <1>2. ~IsManager(t)
    BY <1>1 DEF PoolInv, PoolTypes
  <1>3. t \in Busy(Cpu(t)) /\ Busy(Cpu(t))' = Busy(Cpu(t)) \ {t}
    BY <1>1, <1>p DEF Busy
  <1>4. \A c \in Cpus : c # Cpu(t) => Busy(c)' = Busy(c)
    BY <1>p, Zenon DEF Busy
  <1>5. Cardinality(Busy(Cpu(t))') = Cardinality(Busy(Cpu(t))) - 1 /\ Cardinality(Busy(Cpu(t))') \in Nat
    <2>1. Busy(Cpu(t)) \in SUBSET Threads /\ Busy(Cpu(t))' \in SUBSET Threads
      BY Zenon DEF Busy
    <2> QED BY <1>3, <2>1, OneLess, ThreadsFinite, Zenon
  <1>6. count[Cpu(t)] = Cardinality(Busy(Cpu(t)))
    BY <1>c, Zenon DEF PoolInv, Counts
  <1>7. count' \in [Cpus -> Nat] /\ count'[Cpu(t)] = Cardinality(Busy(Cpu(t))') /\ \A c \in Cpus : c # Cpu(t) => count'[c] = count[c]
    BY <1>c, <1>1, <1>5, <1>6 DEF PoolInv, PoolTypes
  <1>8. \A c \in Cpus : count'[c] = Cardinality(Busy(c)')
    BY <1>4, <1>7, Zenon DEF PoolInv, Counts
  <1>9. PoolTypes' /\ Counts'
    BY <1>1, <1>2, <1>7, <1>8, PoolMove DEF Points, LoopPoints
  <1>10. Sampled'
    BY <1>1, <1>2, SampledKept, Zenon DEF PoolInv
  <1> QED BY <1>9, <1>10, Zenon DEF PoolInv

LEMMA SamplePool ==
    ASSUME RingInv, PoolInv, NEW t \in Threads, Sample(t)
    PROVE  PoolInv'
  <1>c. Cpu(t) \in Cpus /\ t = <<Cpu(t), 0>>
    BY Homes, Zenon DEF Sample
  <1>1. /\ seen' = [seen EXCEPT ![Cpu(t)] = {Len(ring[Cpu(t)])}] /\ pc[t] \in {"test", "recheck", "yield"}
        /\ pc[t] = "yield" => t \notin sleepy
        /\ UNCHANGED <<cfg, pc, count, workers, left, pinned, sleepy>>
    BY Zenon DEF Sample, queues, spawns, waits
  <1>2. Len(ring[Cpu(t)]) \in 0 .. cfg.cap
    BY <1>c DEF RingInv, RingTypes, Settings
  <1>3. PoolTypes'
    BY <1>1, Zenon DEF PoolInv, PoolTypes
  <1>4. Counts'
    <2>1. \A c \in Cpus : Busy(c)' = Busy(c) /\ Unbound(c)' = Unbound(c)
      BY <1>1, Zenon DEF Busy, Unbound, Alive
    <2> QED BY <1>1, <2>1, Zenon DEF PoolInv, Counts
  <1>5. Sampled'
    <2>1. DOMAIN seen' = Cpus /\ seen'[Cpu(t)] = {Len(ring[Cpu(t)])} /\ \A c \in Cpus : c # Cpu(t) => seen'[c] = seen[c]
      BY <1>c, <1>1 DEF PoolInv, Sampled
    <2> QED BY <1>c, <1>1, <1>2, <2>1, Zenon DEF PoolInv, Sampled
  <1> QED BY <1>3, <1>4, <1>5, Zenon DEF PoolInv

\* The manager goes on with a number of workers to add that fits.
LEMMA DeficitPool ==
    ASSUME PoolInv, ThreadTypes, NEW t \in Threads, IsManager(t), NEW n \in Nat, left' = [left EXCEPT ![Cpu(t)] = n],
           workers[Cpu(t)] + n <= cfg.max[Cpu(t)], NEW p \in {"publish", "spawn"}, Goto(t, p), p = "spawn" => n >= 1,
           pc[t] \in {"test", "spawn"}, UNCHANGED <<workers, count, pinned>>, cfg'.max = cfg.max
    PROVE  PoolTypes' /\ Counts'
  <1>t. PoolTypes /\ Counts
    BY Zenon DEF PoolInv
  <1>c. Cpu(t) \in Cpus /\ t = <<Cpu(t), 0>>
    BY Homes, Zenon
  <1>p. pc'[t] = p /\ \A u \in Threads : u # t => pc'[u] = pc[u]
    BY Goes, Zenon
  <1>m. \A c \in Cpus : <<c, 0>> \in Threads /\ (c # Cpu(t) => <<c, 0>> # t)
    BY ManagerOf
  <1>1. pc' \in [Threads -> Points]
    BY <1>t DEF PoolTypes, Goto, Points, LoopPoints
  <1>l. left' \in [Cpus -> Nat] /\ left'[Cpu(t)] = n /\ \A c \in Cpus : c # Cpu(t) => left'[c] = left[c]
    BY <1>t, <1>c DEF PoolTypes
  <1>2. \A u \in Threads : IsManager(u) => pc'[u] \notin WorkPoints
    BY <1>t, <1>p DEF PoolTypes, WorkPoints
  <1>3. \A c \in Cpus : pc'[<<c, 0>>] = "none" => pc[<<c, 0>>] = "none"
    BY <1>p, <1>m
  <1>4. PoolTypes'
    BY <1>t, <1>1, <1>l, <1>2, <1>3, Zenon DEF PoolTypes, WorkPoints
  <1>5. \A c \in Cpus : Busy(c)' = Busy(c)
    BY <1>p DEF Busy
  <1>6. \A c \in Cpus : Unbound(c)' = Unbound(c)
    BY <1>p DEF Unbound, Alive
  <1>7. \A c \in Cpus : workers[c] + left'[c] <= cfg.max[c]
    BY <1>t, <1>l, Zenon DEF Counts
  <1>8. \A c \in Cpus : pc'[<<c, 0>>] \in {"spawn", "bind"} => left'[c] >= 1
    <2> SUFFICES ASSUME NEW c \in Cpus, pc'[<<c, 0>>] \in {"spawn", "bind"} PROVE left'[c] >= 1
      BY Zenon
    <2>1. CASE c = Cpu(t)
      BY <1>c, <1>p, <1>l, <2>1
    <2>2. CASE c # Cpu(t)
      BY <1>t, <1>m, <1>p, <1>l, <2>2, Zenon DEF Counts
    <2> QED BY <2>1, <2>2
  <1>9. \A c \in Cpus : pc'[<<c, 0>>] = "bind" => pc[<<c, 0>>] = "bind"
    BY <1>p, <1>m
  <1>10. Counts'
    BY <1>t, <1>5, <1>6, <1>7, <1>8, <1>9, Zenon DEF Counts
  <1> QED BY <1>4, <1>10

LEMMA DecidePool ==
    ASSUME RingInv, PoolInv, ThreadTypes, NEW t \in Threads, Decide(t)
    PROVE  PoolInv'
  <1>t. PoolTypes /\ Counts /\ Sampled
    BY Zenon DEF PoolInv
  <1>c. Cpu(t) \in Cpus /\ IsManager(t) /\ pc[t] = "test"
    BY Homes, Zenon DEF Decide
  <1>1. PICK p \in seen[Cpu(t)] :
          /\ left' = [left EXCEPT ![Cpu(t)] = Deficit(p, count[Cpu(t)], workers[Cpu(t)], cfg.max[Cpu(t)])]
          /\ Goto(t, IF Deficit(p, count[Cpu(t)], workers[Cpu(t)], cfg.max[Cpu(t)]) = 0 THEN "publish" ELSE "spawn")
    BY Zenon DEF Decide
  <1>2. seen' = [seen EXCEPT ![Cpu(t)] = {}] /\ UNCHANGED <<cfg, workers, count, pinned, sleepy>>
    BY <1>c, Zenon DEF Decide, Tested, queues, waits
  <1>3. PICK d : d = Deficit(p, count[Cpu(t)], workers[Cpu(t)], cfg.max[Cpu(t)])
    BY Zenon
  <1>4. p \in Nat
    <2>1. PICK q \in 0 .. cfg.cap : seen[Cpu(t)] = {q}
      BY <1>t, <1>c, <1>1, Zenon DEF Sampled
    <2> QED BY <1>1, <2>1
  <1>5. /\ count[Cpu(t)] \in Nat /\ workers[Cpu(t)] \in Nat /\ left[Cpu(t)] \in Nat /\ cfg.max[Cpu(t)] \in Nat
        /\ workers[Cpu(t)] + left[Cpu(t)] <= cfg.max[Cpu(t)]
    BY <1>t, <1>c DEF PoolTypes, Counts, RingInv, Settings
  <1>6. workers[Cpu(t)] <= cfg.max[Cpu(t)]
    BY <1>5
  <1>7. d \in Nat /\ workers[Cpu(t)] + d <= cfg.max[Cpu(t)]
    BY <1>3, <1>4, <1>5, <1>6, DeficitFits, Zenon
  <1>8. PICK q \in {"publish", "spawn"} : Goto(t, q) /\ (q = "spawn" => d >= 1)
    <2>1. CASE d = 0
      BY <1>1, <1>3, <2>1
    <2>2. CASE d # 0
      BY <1>1, <1>3, <1>7, <2>2
    <2> QED BY <2>1, <2>2
  <1>9. PoolTypes' /\ Counts'
    BY <1>c, <1>1, <1>2, <1>3, <1>7, <1>8, DeficitPool, Zenon
  <1>10. Sampled'
    BY <1>t, <1>c, <1>2, <1>8, SampledKept, Zenon
  <1> QED BY <1>9, <1>10, Zenon DEF PoolInv

LEMMA SpawnFailsPool ==
    ASSUME RingInv, PoolInv, ThreadTypes, Spawned, NEW t \in Threads, SpawnFails(t)
    PROVE  PoolInv'
  <1>t. PoolTypes /\ Counts /\ Sampled
    BY Zenon DEF PoolInv
  <1>s. cfg'.max = cfg.max /\ cfg'.cap = cfg.cap
    BY SettingsSame, Zenon
  <1>1. /\ pc[t] = "spawn" /\ left' = [left EXCEPT ![Cpu(t)] = 0] /\ Goto(t, "publish")
        /\ UNCHANGED <<workers, count, pinned, seen, sleepy>>
    BY Zenon DEF SpawnFails, queues, waits
  <1>c. Cpu(t) \in Cpus /\ IsManager(t)
    BY <1>1, Homes, Zenon DEF Spawned
  <1>2. workers[Cpu(t)] + 0 <= cfg.max[Cpu(t)]
    <2>1. workers[Cpu(t)] \in Nat /\ left[Cpu(t)] \in Nat /\ workers[Cpu(t)] + left[Cpu(t)] <= cfg.max[Cpu(t)]
      BY <1>t, <1>c, Zenon DEF PoolTypes, Counts
    <2>2. cfg.max[Cpu(t)] \in Nat
      BY <1>c DEF RingInv, Settings
    <2> QED BY <2>1, <2>2
  <1>3. PoolTypes' /\ Counts'
    BY <1>s, <1>c, <1>1, <1>2, DeficitPool
  <1>4. Sampled'
    BY <1>t, <1>s, <1>1, SampledKept
  <1> QED BY <1>3, <1>4, Zenon DEF PoolInv

\* The new thread is the one that its manager has still to bind.
LEMMA SpawnPool ==
    ASSUME PoolInv, ThreadTypes, Spawned, NEW t \in Threads, Spawn(t)
    PROVE  PoolInv'
  <1>t. PoolTypes /\ Counts /\ Sampled
    BY Zenon DEF PoolInv
  <1>1. UNCHANGED <<cfg, workers, count, left, pinned, seen, sleepy>> /\ pc[t] = "spawn"
    BY Zenon DEF Spawn, spawns, queues, waits
  <1>c. Cpu(t) \in Cpus /\ IsManager(t) /\ t = <<Cpu(t), 0>>
    BY <1>1, Homes, Zenon DEF Spawned
  <1>2. PICK u \in Fresh(Cpu(t)) : pc' = [pc EXCEPT ![u] = "head", ![t] = "bind"]
    BY Zenon DEF Spawn
  <1>3. u \in Threads /\ Cpu(u) = Cpu(t) /\ ~IsManager(u) /\ pc[u] = "none" /\ u # t
    BY <1>c, <1>2, Zenon DEF Fresh, Alive
  <1>p. /\ pc' \in [Threads -> Points] /\ pc'[t] = "bind" /\ pc'[u] = "head"
        /\ \A v \in Threads : v # t /\ v # u => pc'[v] = pc[v]
    BY <1>t, <1>2, <1>3 DEF PoolTypes, Points, LoopPoints
  <1>m. \A c \in Cpus : <<c, 0>> \in Threads /\ (c # Cpu(t) => <<c, 0>> # t) /\ <<c, 0>> # u
    BY <1>3, ManagerOf, Zenon
  <1>4. PoolTypes'
    <2>1. \A v \in Threads : IsManager(v) => pc'[v] \notin {"pop", "begin", "notify", "run", "end"}
      BY <1>t, <1>p, <1>3 DEF PoolTypes
    <2>2. \A c \in Cpus : pc'[<<c, 0>>] = "none" => pc[<<c, 0>>] = "none"
      BY <1>p, <1>m
    <2> QED BY <1>t, <1>1, <1>p, <2>1, <2>2, Zenon DEF PoolTypes
  <1>5. \A c \in Cpus : Busy(c)' = Busy(c)
    BY <1>1, <1>3, <1>p DEF Busy
  <1>6. \A c \in Cpus : c # Cpu(t) => Unbound(c)' = Unbound(c)
    BY <1>1, <1>3, <1>p DEF Unbound, Alive
  <1>7. Unbound(Cpu(t))' = {u} /\ u \in Staff(Cpu(t))
    <2>1. u \notin pinned
      BY <1>3, Zenon DEF ThreadTypes, Alive
    <2>2. ASSUME NEW v \in Threads, Cpu(v) = Cpu(t), v # u, v # t PROVE ~(Alive(v)' /\ v \notin pinned)
      <3>1. pc'[v] = pc[v]
        BY <1>p, <2>2, Zenon
      <3>2. pc[<<Cpu(v), 0>>] # "bind"
        BY <1>c, <1>1, <2>2
      <3> QED BY <3>1, <3>2, Zenon DEF Spawned, Alive
    <2>3. t \in pinned
      BY <1>1, <1>c DEF Spawned, Alive
    <2>4. Alive(u)'
      BY <1>p DEF Alive
    <2> QED BY <1>1, <1>3, <2>1, <2>2, <2>3, <2>4, Zenon DEF Unbound, Staff
  <1>8. \A c \in Cpus : pc'[<<c, 0>>] \in {"spawn", "bind"} => left[c] >= 1
    BY <1>t, <1>c, <1>1, <1>p, <1>m, Zenon DEF Counts
  <1>9. \A c \in Cpus : pc'[<<c, 0>>] = "bind" => \E v \in Staff(c) : Unbound(c)' = {v}
    BY <1>t, <1>6, <1>7, <1>p, <1>m, Zenon DEF Counts
  <1>10. Counts'
    BY <1>t, <1>1, <1>5, <1>8, <1>9, Zenon DEF Counts, Staff
  <1>11. Sampled'
    <2> SUFFICES ASSUME NEW c \in Cpus, seen[c] # {}
                 PROVE  pc'[<<c, 0>>] \in {"test", "recheck"} \/ (pc'[<<c, 0>>] = "yield" /\ <<c, 0>> \notin sleepy)
      BY <1>t, <1>1, Zenon DEF Sampled
    <2>1. pc[<<c, 0>>] \in {"test", "recheck"} \/ (pc[<<c, 0>>] = "yield" /\ <<c, 0>> \notin sleepy)
      BY <1>t, Zenon DEF Sampled
    <2>2. <<c, 0>> # t
      BY <1>1, <2>1
    <2> QED BY <1>m, <1>p, <2>1, <2>2, Zenon
  <1> QED BY <1>4, <1>10, <1>11, Zenon DEF PoolInv

\* WORKERS counts the thread that was bound.
LEMMA BindPool ==
    ASSUME RingInv, PoolInv, ThreadTypes, Spawned, NEW t \in Threads, Bind(t)
    PROVE  PoolInv'
  <1>t. PoolTypes /\ Counts /\ Sampled
    BY Zenon DEF PoolInv
  <1>1. /\ UNCHANGED <<cfg, count, seen, sleepy>> /\ pc[t] = "bind"
        /\ pinned' = pinned \union {u \in Threads : Cpu(u) = Cpu(t) /\ Alive(u)}
        /\ workers' = [workers EXCEPT ![Cpu(t)] = @ + 1] /\ left' = [left EXCEPT ![Cpu(t)] = @ - 1]
        /\ Goto(t, IF left[Cpu(t)] = 1 THEN "publish" ELSE "spawn")
    BY Zenon DEF Bind, queues, waits
  <1>c. Cpu(t) \in Cpus /\ IsManager(t) /\ t = <<Cpu(t), 0>>
    BY <1>1, Homes, Zenon DEF Spawned
  <1>n. /\ workers[Cpu(t)] \in Nat /\ left[Cpu(t)] \in Nat /\ left[Cpu(t)] >= 1 /\ cfg.max[Cpu(t)] \in Nat
        /\ workers[Cpu(t)] + left[Cpu(t)] <= cfg.max[Cpu(t)]
        /\ workers[Cpu(t)] = Cardinality(Staff(Cpu(t)) \cap pinned)
    <2>1. cfg.max[Cpu(t)] \in Nat
      BY <1>c DEF RingInv, Settings
    <2>2. left[Cpu(t)] >= 1
      BY <1>t, <1>c, <1>1, Zenon DEF Counts
    <2> QED BY <1>t, <1>c, <2>1, <2>2, Zenon DEF PoolTypes, Counts
  <1>2. PICK u \in Staff(Cpu(t)) : Unbound(Cpu(t)) = {u}
    BY <1>t, <1>c, <1>1, Zenon DEF Counts
  <1>q. PICK q \in {"publish", "spawn"} : Goto(t, q) /\ (q = "spawn" => left[Cpu(t)] # 1)
    BY <1>1, Zenon
  <1>p. pc'[t] = q /\ \A v \in Threads : v # t => pc'[v] = pc[v]
    BY <1>q, Goes, Zenon
  <1>m. \A c \in Cpus : <<c, 0>> \in Threads /\ (c # Cpu(t) => <<c, 0>> # t)
    BY ManagerOf
  <1>k. /\ workers' \in [Cpus -> Nat] /\ workers'[Cpu(t)] = workers[Cpu(t)] + 1
        /\ left' \in [Cpus -> Nat] /\ left'[Cpu(t)] = left[Cpu(t)] - 1
        /\ \A c \in Cpus : c # Cpu(t) => workers'[c] = workers[c] /\ left'[c] = left[c]
    BY <1>t, <1>c, <1>1, <1>n DEF PoolTypes
  <1>3. PoolTypes'
    <2>1. \A v \in Threads : IsManager(v) => pc'[v] \notin {"pop", "begin", "notify", "run", "end"}
      BY <1>t, <1>p DEF PoolTypes
    <2>2. \A c \in Cpus : pc'[<<c, 0>>] = "none" => pc[<<c, 0>>] = "none"
      BY <1>p, <1>m
    <2>3. pc' \in [Threads -> Points]
      BY <1>t, <1>q DEF PoolTypes, Goto, Points, LoopPoints
    <2> QED BY <1>t, <1>1, <1>k, <2>1, <2>2, <2>3, Zenon DEF PoolTypes
  <1>4. \A c \in Cpus : Busy(c)' = Busy(c)
    BY <1>1, <1>p DEF Busy
  <1>5. \A v \in Threads : Alive(v)' = Alive(v)
    BY <1>1, <1>p DEF Alive
  <1>6. \A c \in Cpus : c # Cpu(t) => Unbound(c)' = Unbound(c) /\ Staff(c) \cap pinned' = Staff(c) \cap pinned
    BY <1>1, <1>5, Zenon DEF Unbound, Staff
  <1>7. Staff(Cpu(t)) \cap pinned' = (Staff(Cpu(t)) \cap pinned) \union {u} /\ u \notin pinned
    <2>1. u \in Threads /\ Cpu(u) = Cpu(t) /\ Alive(u) /\ u \notin pinned
      BY <1>2, Zenon DEF Unbound
    <2>2. \A v \in Threads : Cpu(v) = Cpu(t) /\ Alive(v) => v = u \/ v \in pinned
      BY <1>2, Zenon DEF Unbound
    <2> QED BY <1>1, <1>2, <2>1, <2>2, Zenon DEF Staff
  <1>8. workers'[Cpu(t)] = Cardinality(Staff(Cpu(t)) \cap pinned')
    <2>1. Staff(Cpu(t)) \cap pinned \in SUBSET Threads /\ u \in Threads
      BY <1>2, Zenon DEF Staff
    <2> QED BY <1>n, <1>k, <1>7, <2>1, OneMore, Zenon
  <1>9. \A c \in Cpus : workers'[c] = Cardinality(Staff(c) \cap pinned')
    BY <1>t, <1>k, <1>6, <1>8, Zenon DEF Counts
  <1>10. workers'[Cpu(t)] >= 1 /\ workers'[Cpu(t)] + left'[Cpu(t)] <= cfg.max[Cpu(t)] /\ (q = "spawn" => left'[Cpu(t)] >= 1)
    BY <1>n, <1>k, <1>q
  <1>11. \A c \in Cpus : workers'[c] >= 1 /\ workers'[c] + left'[c] <= cfg.max[c]
    BY <1>t, <1>k, <1>10, Zenon DEF Counts
  <1>12. \A c \in Cpus : pc'[<<c, 0>>] \in {"spawn", "bind"} => left'[c] >= 1
    <2> SUFFICES ASSUME NEW c \in Cpus, pc'[<<c, 0>>] \in {"spawn", "bind"} PROVE left'[c] >= 1
      BY Zenon
    <2>1. CASE c = Cpu(t)
      BY <1>c, <1>p, <1>10, <2>1
    <2>2. CASE c # Cpu(t)
      BY <1>t, <1>m, <1>p, <1>k, <2>2, Zenon DEF Counts
    <2> QED BY <2>1, <2>2
  <1>13. \A c \in Cpus : pc'[<<c, 0>>] = "bind" => \E v \in Staff(c) : Unbound(c)' = {v}
    <2> SUFFICES ASSUME NEW c \in Cpus, pc'[<<c, 0>>] = "bind" PROVE \E v \in Staff(c) : Unbound(c)' = {v}
      BY Zenon
    <2>1. c # Cpu(t)
      BY <1>c, <1>p
    <2> QED BY <1>t, <1>m, <1>p, <1>6, <2>1, Zenon DEF Counts
  <1>14. Counts'
    BY <1>t, <1>1, <1>4, <1>9, <1>11, <1>12, <1>13, Zenon DEF Counts, Staff
  <1>15. Sampled'
    BY <1>t, <1>1, <1>q, SampledKept
  <1> QED BY <1>3, <1>14, <1>15, Zenon DEF PoolInv

\* A waker makes nobody sleep.
LEMMA WakesOnly ==
    ASSUME NEW l, WakeOne(l)
    PROVE  sleepy' \subseteq sleepy
  BY Zenon DEF WakeOne

LEMMA ThreadPool ==
    ASSUME RingInv, ParkInv, PoolInv, NEW t \in Threads, Thread(t)
    PROVE  PoolInv'
  <1>t. ThreadTypes /\ Spawned /\ PoolTypes
    BY Zenon DEF ParkInv, PoolInv
  <1>w. pc[t] \in WorkPoints => ~IsManager(t)
    BY <1>t, Zenon DEF PoolTypes, WorkPoints
  <1>1. CASE Publish(t)
    <2>1. /\ pc[t] = "publish" /\ Goto(t, "recheck") /\ sleepy' = sleepy \union {t}
          /\ UNCHANGED <<cfg, workers, left, pinned, count, seen>>
      BY <1>1, Zenon DEF Publish, spawns, queues
    <2> QED BY <1>t, <2>1, PoolLoop DEF Points, LoopPoints, WorkPoints, Executing
  <1>2. CASE Recheck(t) \/ Resume(t)
    <2>1. /\ UNCHANGED <<cfg, workers, left, pinned, count>> /\ pc[t] \in {"recheck", "yield"} /\ Tested(t)
          /\ \E p \in {"head", "yield", "publish"} : Goto(t, p)
      BY <1>2, Zenon DEF Recheck, Resume, EndWait, spawns, queues
    <2>2. sleepy' \subseteq sleepy
      BY <1>2, Zenon DEF Recheck, Resume, EndWait
    <2>3. (UNCHANGED seen /\ ~IsManager(t)) \/ (IsManager(t) /\ seen' = [seen EXCEPT ![Cpu(t)] = {}])
      BY <2>1, Zenon DEF Tested
    <2> QED BY <1>t, <2>1, <2>2, <2>3, PoolLoop DEF Points, LoopPoints, WorkPoints, Executing
  <1>3. CASE TestPending(t)
    <2>1. /\ UNCHANGED <<cfg, workers, left, pinned, count, seen, sleepy>> /\ pc[t] = "test" /\ ~IsManager(t)
          /\ \E p \in {"pop", "publish"} : Goto(t, p)
      BY <1>3, Zenon DEF TestPending, spawns, queues, waits
    <2> QED BY <1>t, <2>1, PoolLoop DEF Points, LoopPoints, Executing
  <1>4. CASE Pop(t)
    <2>1. /\ UNCHANGED <<cfg, workers, left, pinned, count, seen, sleepy>> /\ pc[t] = "pop"
          /\ \E p \in {"head", "begin"} : Goto(t, p)
      BY <1>4, Zenon DEF Pop, spawns, waits
    <2>2. ~IsManager(t)
      BY <1>w, <2>1 DEF WorkPoints
    <2> QED BY <1>t, <2>1, <2>2, PoolLoop DEF Points, LoopPoints, Executing
  <1>5. CASE Notify(t) \/ Run(t)
    <2>1. UNCHANGED <<cfg, workers, left, pinned, count, seen>> /\ sleepy' \subseteq sleepy
      <3>1. CASE Notify(t)
        BY <3>1, WakesOnly, Zenon DEF Notify, spawns, queues
      <3>2. CASE Run(t)
        BY <3>2, Zenon DEF Run, spawns, queues, waits
      <3> QED BY <1>5, <3>1, <3>2
    <2>2. \E p \in {"run", "end"} : Goto(t, p) /\ pc[t] \in {"notify", "run"}
      BY <1>5, Zenon DEF Notify, Run
    <2>3. ~IsManager(t)
      BY <1>w, <2>2 DEF WorkPoints
    <2> QED BY <1>t, <2>1, <2>2, <2>3, PoolLoop DEF Points, LoopPoints, Executing
  <1>6. CASE ParkIfRequested(t) \/ Unparked(t)
    <2>1. /\ UNCHANGED <<cfg, workers, left, pinned, count, seen, sleepy>> /\ pc[t] \in {"head", "parked"}
          /\ \E p \in {"parked", "test", "head"} : Goto(t, p)
      BY <1>6, Zenon DEF ParkIfRequested, Unparked, spawns, queues, waits
    <2> QED BY <1>t, <2>1, PoolLoop DEF Points, LoopPoints, Executing, WorkPoints
  <1>7. CASE Sample(t) \/ Begin(t) \/ End(t) \/ Decide(t) \/ Spawn(t) \/ Bind(t) \/ SpawnFails(t)
    BY <1>t, <1>7, SamplePool, BeginPool, EndPool, DecidePool, SpawnPool, BindPool, SpawnFailsPool, Zenon
  <1> QED BY <1>1, <1>2, <1>3, <1>4, <1>5, <1>6, <1>7, Zenon DEF Thread, Wait, Worker

LEMMA PoolInit ==
    ASSUME Init
    PROVE  PoolInv
  <1>1. cfg \in Settings /\ \A c \in Cpus : cfg.max[c] >= 1 /\ (c \notin cfg.managed => cfg.max[c] = 1)
    BY Filled, Zenon DEF Init
  <1>2. /\ pinned = First /\ count = [c \in Cpus |-> 0] /\ workers = [c \in Cpus |-> 1] /\ left = [c \in Cpus |-> 0]
        /\ seen = [c \in Cpus |-> {}] /\ pc = [t \in Threads |-> IF t \in First THEN "yield" ELSE "none"]
    BY Zenon DEF Init
  <1>3. PoolTypes
    <2>1. pc \in [Threads -> Points] /\ \A t \in Threads : pc[t] \in {"yield", "none"}
      BY <1>2 DEF Points, LoopPoints
    <2>2. \A c \in Cpus : pc[<<c, 0>>] = "none" => cfg.max[c] = 1
      <3> SUFFICES ASSUME NEW c \in Cpus, pc[<<c, 0>>] = "none" PROVE c \notin cfg.managed
        BY <1>1, Zenon
      <3>1. <<c, 0>> \in Threads /\ <<c, 0>> \notin First
        BY <1>2, ThreadBound DEF Threads
      <3> QED BY <3>1 DEF First, Cpu
    <2> QED BY <1>1, <1>2, <2>1, <2>2 DEF PoolTypes
  <1>4. ASSUME NEW c \in Cpus
        PROVE  Busy(c) = {} /\ Staff(c) \cap pinned = {<<c, 1>>}
    <2>1. Busy(c) = {}
      BY <1>2 DEF Busy
    <2>2. <<c, 1>> \in Staff(c) /\ <<c, 1>> \in pinned
      BY <1>2, ThreadBound DEF Staff, First, Threads, Cpu, IsManager
    <2>3. \A t \in Staff(c) \cap pinned : t = <<c, 1>>
      BY <1>2, ThreadBound DEF Staff, First, Threads, Cpu, IsManager
    <2> QED BY <2>1, <2>2, <2>3, Zenon
  <1>5. Counts
    <2> SUFFICES ASSUME NEW c \in Cpus
                 PROVE  /\ count[c] = Cardinality(Busy(c))
                        /\ workers[c] = Cardinality(Staff(c) \cap pinned) /\ workers[c] >= 1
                        /\ workers[c] + left[c] <= cfg.max[c]
                        /\ pc[<<c, 0>>] \notin {"spawn", "bind"}
      BY Zenon DEF Counts
    <2>1. count[c] = Cardinality(Busy(c)) /\ workers[c] = Cardinality(Staff(c) \cap pinned)
      BY <1>2, <1>4, FS_EmptySet, FS_Singleton, Zenon
    <2>2. workers[c] = 1 /\ left[c] = 0 /\ cfg.max[c] >= 1 /\ cfg.max[c] \in Nat
      BY <1>1, <1>2 DEF Settings
    <2>3. <<c, 0>> \in Threads
      BY ThreadBound DEF Threads
    <2>4. pc[<<c, 0>>] \notin {"spawn", "bind"}
      BY <1>2, <2>3
    <2> QED BY <2>1, <2>2, <2>4
  <1>6. Sampled
    BY <1>2 DEF Sampled
  <1> QED BY <1>3, <1>5, <1>6, Zenon DEF PoolInv

LEMMA PoolNext ==
    ASSUME RingInv, ParkInv, PoolInv, [Next]_vars
    PROVE  PoolInv'
  <1>1. ASSUME NEW i \in Items, Producer(i) PROVE PoolInv'
    <2>1. UNCHANGED <<cfg, pc, count, workers, left, seen, pinned>>
      BY <1>1, Zenon DEF Producer, Submit, Push, Refuse, WakeWorker, WakeManager, queues, spawns
    <2>2. sleepy' \subseteq sleepy
      <3>1. CASE Submit(i) \/ Push(i) \/ Refuse(i)
        BY <3>1, Zenon DEF Submit, Push, Refuse, waits
      <3>2. CASE WakeWorker(i) \/ WakeManager(i)
        BY <3>2, WakesOnly, Zenon DEF WakeWorker, WakeManager
      <3> QED BY <1>1, <3>1, <3>2, Zenon DEF Producer
    <2> QED BY <2>1, <2>2, PoolSame, Zenon
  <1>2. CASE \E t \in Threads : Thread(t)
    BY <1>2, ThreadPool, Zenon
  <1>3. CASE Request
    <2>1. UNCHANGED <<pc, count, workers, left, seen, pinned, sleepy>>
      BY <1>3, Zenon DEF Request, queues, spawns, waits
    <2>2. cfg'.max = cfg.max /\ cfg'.cap = cfg.cap /\ sleepy' \subseteq sleepy
      BY <1>3, <2>1, SettingsSame, Zenon
    <2> QED BY <2>1, <2>2, PoolSame, Zenon
  <1>4. CASE Stage
    <2>1. UNCHANGED <<cfg, pc, count, workers, left, seen, pinned>>
      <3>1. CASE Park \/ Parked \/ Rescan \/ Deactivate \/ EndGrace \/ Evacuate
        BY <3>1, Zenon DEF Park, Parked, Rescan, Deactivate, EndGrace, Evacuate, queues, spawns
      <3>2. CASE TakeHead \/ Evacuated \/ Moved \/ Restore \/ Check \/ Reopen \/ Unpark
        BY <3>2, Zenon DEF TakeHead, Evacuated, Moved, Restore, Check, Reopen, Unpark, queues, spawns
      <3> QED BY <1>4, <3>1, <3>2, Zenon DEF Stage
    <2>2. sleepy' \subseteq sleepy
      <3>1. CASE Park
        BY <3>1, Zenon DEF Park
      <3>2. CASE Parked \/ Rescan \/ Deactivate \/ EndGrace \/ Evacuate \/ Unpark
        BY <3>2, Zenon DEF Parked, Rescan, Deactivate, EndGrace, Evacuate, Unpark, waits
      <3>3. CASE TakeHead \/ Evacuated \/ Moved \/ Restore \/ Check \/ Reopen
        BY <3>3, Zenon DEF TakeHead, Evacuated, Moved, Restore, Check, Reopen, waits
      <3> QED BY <1>4, <3>1, <3>2, <3>3, Zenon DEF Stage
    <2> QED BY <2>1, <2>2, PoolSame, Zenon
  <1>5. CASE UNCHANGED vars
    <2>1. UNCHANGED <<cfg, pc, count, workers, left, seen, pinned, sleepy>>
      BY <1>5, Zenon DEF vars, queues, spawns, waits
    <2> QED BY <2>1, PoolSame, Zenon
  <1> QED BY <1>1, <1>2, <1>3, <1>4, <1>5, Zenon DEF Next

-----------------------------------------------------------------------------
(* The wait lists *)

\* What is left of a list behind one of its entries.
LEMMA BehindElems ==
    ASSUME NEW S, NEW s \in Seq(S), NEW k \in 1 .. Len(s)
    PROVE  /\ SubSeq(s, k + 1, Len(s)) \in Seq(S) /\ Elems(SubSeq(s, k + 1, Len(s))) \subseteq Elems(s)
           /\ Distinct(s) => Distinct(SubSeq(s, k + 1, Len(s)))
           /\ \A j \in 1 .. Len(s) : k <= j /\ j # k => s[j] \in Elems(SubSeq(s, k + 1, Len(s)))
  <1> DEFINE r == SubSeq(s, k + 1, Len(s))
  <1> DEFINE n == Len(s) - k
  <1>1. /\ r \in Seq(S) /\ n \in Nat /\ Len(r) = n
        /\ \A j \in 1 .. n : r[j] = s[j + k] /\ j + k \in 1 .. Len(s)
    OBVIOUS
  <1>2. \A i, j \in 1 .. n : i + k = j + k => i = j
    OBVIOUS
  <1>3. \A j \in 1 .. Len(s) : k <= j /\ j # k => j - k \in 1 .. n /\ j = (j - k) + k
    OBVIOUS
  <1> HIDE DEF r, n
  <1>4. Elems(r) \subseteq Elems(s)
    BY <1>1, Zenon DEF Elems
  <1>5. Distinct(s) => Distinct(r)
    BY <1>1, <1>2, Zenon DEF Distinct
  <1>6. ASSUME NEW j \in 1 .. Len(s), k <= j, j # k PROVE s[j] \in Elems(r)
    <2>1. PICK i \in 1 .. n : j = i + k
      BY <1>3, <1>6, Zenon
    <2> QED BY <1>1, <2>1, Zenon DEF Elems
  <1> QED BY <1>1, <1>4, <1>5, <1>6, Zenon DEF r

LEMMA Joined ==
    ASSUME NEW S, NEW f \in Seq(S), NEW b \in Seq(S)
    PROVE  /\ f \o b \in Seq(S) /\ Len(f \o b) = Len(f) + Len(b)
           /\ \A j \in 1 .. Len(f) : (f \o b)[j] = f[j]
           /\ \A j \in 1 .. Len(b) : (f \o b)[j + Len(f)] = b[j]
  OBVIOUS

\* What is left of it without one of its entries.
LEMMA BesideElems ==
    ASSUME NEW S, NEW s \in Seq(S), NEW k \in 1 .. Len(s), Distinct(s)
    PROVE  /\ SubSeq(s, 1, k - 1) \o SubSeq(s, k + 1, Len(s)) \in Seq(S)
           /\ Elems(SubSeq(s, 1, k - 1) \o SubSeq(s, k + 1, Len(s))) = Elems(s) \ {s[k]}
           /\ Distinct(SubSeq(s, 1, k - 1) \o SubSeq(s, k + 1, Len(s)))
  <1> DEFINE f == SubSeq(s, 1, k - 1)
  <1> DEFINE b == SubSeq(s, k + 1, Len(s))
  <1> DEFINE r == f \o b
  <1> DEFINE n == Len(s) - 1
  <1>1. /\ f \in Seq(S) /\ Len(f) = k - 1 /\ \A j \in 1 .. k - 1 : f[j] = s[j]
        /\ b \in Seq(S) /\ Len(b) = Len(s) - k /\ \A j \in 1 .. Len(s) - k : b[j] = s[j + k]
    OBVIOUS
  <1> HIDE DEF f, b
  <1>l. Len(s) \in Nat /\ k \in Nat /\ n \in Nat /\ (k - 1) + (Len(s) - k) = n
    OBVIOUS
  <1>2. r \in Seq(S) /\ Len(r) = n /\ n \in Nat
    <2>1. r \in Seq(S) /\ Len(r) = Len(f) + Len(b)
      BY <1>1, Joined, Zenon
    <2> QED BY <1>1, <1>l, <2>1
  <1>3. \A j \in 1 .. k - 1 : r[j] = s[j]
    BY <1>1
  <1>4. \A j \in k .. n : r[j] = s[j + 1]
    <2> SUFFICES ASSUME NEW j \in k .. n PROVE r[j] = s[j + 1]
      OBVIOUS
    <2>1. r[j] = b[j - (k - 1)]
      BY <1>1
    <2>2. j - (k - 1) \in 1 .. Len(s) - k /\ (j - (k - 1)) + k = j + 1
      OBVIOUS
    <2> QED BY <1>1, <2>1, <2>2
  <1> HIDE DEF r
  <1> DEFINE at(j) == IF j < k THEN j ELSE j + 1
  <1>5. \A j \in 1 .. n : at(j) \in 1 .. Len(s) /\ at(j) # k /\ r[j] = s[at(j)]
    BY <1>3, <1>4
  <1>6. \A i, j \in 1 .. n : at(i) = at(j) => i = j
    OBVIOUS
  <1>7. \A m \in 1 .. Len(s) : m # k => \E j \in 1 .. n : at(j) = m
    <2> SUFFICES ASSUME NEW m \in 1 .. Len(s), m # k PROVE \E j \in 1 .. n : at(j) = m
      OBVIOUS
    <2>1. CASE m < k
      BY <2>1
    <2>2. CASE m > k
      <3>1. m - 1 \in 1 .. n /\ at(m - 1) = m
        BY <2>2
      <3> QED BY <3>1
    <2> QED BY <2>1, <2>2
  <1> HIDE DEF at, n
  <1>8. Elems(r) = Elems(s) \ {s[k]}
    <2>1. ASSUME NEW x \in Elems(r) PROVE x \in Elems(s) /\ x # s[k]
      <3>1. PICK j \in 1 .. n : x = r[j]
        BY <1>2, <2>1, Zenon DEF Elems
      <3>2. at(j) \in 1 .. Len(s) /\ at(j) # k /\ x = s[at(j)]
        BY <1>5, <3>1, Zenon
      <3> QED BY <3>2, Zenon DEF Elems, Distinct
    <2>2. ASSUME NEW x \in Elems(s), x # s[k] PROVE x \in Elems(r)
      <3>1. PICK m \in 1 .. Len(s) : x = s[m]
        BY <2>2, Zenon DEF Elems
      <3>2. PICK j \in 1 .. n : at(j) = m
        BY <1>7, <2>2, <3>1, Zenon
      <3> QED BY <1>2, <1>5, <3>1, <3>2, Zenon DEF Elems
    <2> QED BY <2>1, <2>2, Zenon
  <1>9. Distinct(r)
    BY <1>2, <1>5, <1>6, Zenon DEF Distinct
  <1> QED BY <1>2, <1>8, <1>9, Zenon DEF r, f, b

\* retain drops the thread from the list and nobody else.
LEMMA OthersElems ==
    ASSUME Enlisted, NEW l \in Lists, NEW t
    PROVE  Others(l, t) \in Seq(Threads) /\ Elems(Others(l, t)) = Elems(wait[l]) \ {t} /\ Distinct(Others(l, t))
  <1> DEFINE s == wait[l]
  <1> DEFINE mine == {k \in 1 .. Len(s) : s[k] = t}
  <1>1. s \in Seq(Threads) /\ Distinct(s)
    BY Zenon DEF Enlisted
  <1>2. CASE mine = {}
    <2>1. Others(l, t) = s
      BY <1>2, Zenon DEF Others
    <2>2. t \notin Elems(s)
      BY <1>2, Zenon DEF Elems
    <2> QED BY <1>1, <2>1, <2>2, Zenon
  <1>3. CASE mine # {}
    <2>1. PICK k \in mine : k = CHOOSE j \in mine : TRUE
      BY <1>3, Zenon
    <2>2. Others(l, t) = SubSeq(s, 1, k - 1) \o SubSeq(s, k + 1, Len(s))
      BY <1>3, <2>1, Zenon DEF Others
    <2>3. k \in 1 .. Len(s) /\ s[k] = t
      BY <2>1, Zenon
    <2> HIDE DEF s, mine
    <2> QED BY <1>1, <2>2, <2>3, BesideElems, Zenon DEF s
  <1> QED BY <1>2, <1>3

\* A list changes and the sleepers stay on theirs.
LEMMA ListChange ==
    ASSUME Enlisted, NEW l \in Lists, NEW s \in Seq(Threads), Distinct(s), \A t \in Elems(s) : List(t) = l,
           wait' = [wait EXCEPT ![l] = s], sleepy' \subseteq Threads,
           \A t \in sleepy' : IF List(t) = l THEN t \in Elems(s) ELSE t \in sleepy
    PROVE  Enlisted'
  <1>1. wait' \in [Lists -> Seq(Threads)] /\ wait'[l] = s /\ \A k \in Lists : k # l => wait'[k] = wait[k]
    BY DEF Enlisted
  <1>2. \A t \in Threads : List(t) \in Lists
    BY Homes DEF List, Lists, Kinds
  <1>3. \A k \in Lists : Distinct(wait'[k]) /\ \A t \in Elems(wait'[k]) : List(t) = k
    BY <1>1, Zenon DEF Enlisted
  <1>4. \A t \in sleepy' : t \in Elems(wait'[List(t)])
    BY <1>1, <1>2, Zenon DEF Enlisted
  <1> QED BY <1>1, <1>3, <1>4, Zenon DEF Enlisted

\* wake_one wakes one thread of the list, or nobody on it sleeps.
LEMMA Woken ==
    ASSUME Enlisted, NEW l \in Lists, WakeOne(l)
    PROVE  /\ Enlisted'
           /\ \/ sleepy' = sleepy /\ \A t \in sleepy : List(t) # l
              \/ \E t \in sleepy : List(t) = l /\ sleepy' = sleepy \ {t}
  <1> DEFINE s == wait[l]
  <1> DEFINE awake == {k \in 1 .. Len(s) : s[k] \in sleepy}
  <1>t. s \in Seq(Threads) /\ Distinct(s) /\ (\A t \in Elems(s) : List(t) = l) /\ sleepy \subseteq Threads
    BY Zenon DEF Enlisted
  <1>i. \A t \in sleepy : List(t) = l => \E k \in awake : s[k] = t
    <2> SUFFICES ASSUME NEW t \in sleepy, List(t) = l PROVE \E k \in awake : s[k] = t
      BY Zenon
    <2>1. PICK k \in 1 .. Len(s) : t = s[k]
      BY Zenon DEF Enlisted, Elems
    <2> QED BY <2>1, Zenon
  <1>1. CASE awake = {}
    <2>1. wait' = [wait EXCEPT ![l] = <<>>] /\ sleepy' = sleepy
      BY <1>1, Zenon DEF WakeOne
    <2>2. \A t \in sleepy : List(t) # l
      BY <1>1, <1>i, Zenon
    <2>3. <<>> \in Seq(Threads) /\ Elems(<<>>) = {} /\ Distinct(<<>>)
      BY DEF Elems, Distinct
    <2>4. Enlisted'
      BY <1>t, <2>1, <2>2, <2>3, ListChange, Zenon
    <2> QED BY <2>1, <2>2, <2>4
  <1>2. CASE awake # {}
    <2>1. PICK k \in awake : /\ \A j \in awake : k <= j
                             /\ wait' = [wait EXCEPT ![l] = SubSeq(s, k + 1, Len(s))]
                             /\ sleepy' = sleepy \ {s[k]}
      BY <1>2, Zenon DEF WakeOne
    <2>2. k \in 1 .. Len(s) /\ s[k] \in sleepy /\ s[k] \in Elems(s)
      BY <2>1, Zenon DEF Elems
    <2> DEFINE r == SubSeq(s, k + 1, Len(s))
    <2>3. /\ r \in Seq(Threads) /\ Elems(r) \subseteq Elems(s) /\ Distinct(r)
          /\ \A j \in 1 .. Len(s) : k <= j /\ j # k => s[j] \in Elems(r)
      BY <1>t, <2>2, BehindElems, Zenon
    <2>4. ASSUME NEW t \in sleepy', List(t) = l PROVE t \in Elems(r)
      <3>1. PICK j \in awake : s[j] = t
        BY <1>i, <2>1, <2>4, Zenon
      <3>2. j \in 1 .. Len(s) /\ k <= j /\ j # k
        BY <2>1, <2>4, <3>1, Zenon
      <3> QED BY <2>3, <3>1, <3>2, Zenon
    <2> HIDE DEF r
    <2>5. Enlisted'
      <3>1. wait' = [wait EXCEPT ![l] = r]
        BY <2>1, Zenon DEF r
      <3>2. \A t \in Elems(r) : List(t) = l
        BY <1>t, <2>3, Zenon
      <3>3. sleepy' \subseteq Threads /\ \A t \in sleepy' : IF List(t) = l THEN t \in Elems(r) ELSE t \in sleepy
        BY <1>t, <2>1, <2>4, Zenon
      <3> QED BY <2>3, <3>1, <3>2, <3>3, ListChange, Zenon
    <2> QED BY <1>t, <2>1, <2>2, <2>5, Zenon
  <1> QED BY <1>1, <1>2

\* A thread's list, and the threads of a list.
LEMMA ListOf ==
    ASSUME NEW t \in Threads
    PROVE  /\ List(t) \in Lists
           /\ \A c \in Cpus : /\ List(t) = <<c, "worker">> <=> t \in Staff(c)
                              /\ List(t) = <<c, "manager">> <=> t = <<c, 0>>
  BY ManagerOf, Homes DEF List, Lists, Kinds, Staff

LEMMA PublishList ==
    ASSUME Enlisted, NEW t \in Threads, Publish(t)
    PROVE  Enlisted'
  <1> DEFINE l == List(t)
  <1> DEFINE o == Others(l, t)
  <1>1. /\ wait' = [wait EXCEPT ![l] = Append(o, t)] /\ sleepy' = sleepy \union {t}
    BY Zenon DEF Publish
  <1>2. l \in Lists
    BY ListOf, Zenon
  <1>3. o \in Seq(Threads) /\ Elems(o) = Elems(wait[l]) \ {t} /\ Distinct(o)
    BY <1>2, OthersElems, Zenon
  <1> HIDE DEF o
  <1>4. Append(o, t) \in Seq(Threads) /\ Elems(Append(o, t)) = Elems(o) \union {t} /\ Distinct(Append(o, t))
    <2>1. t \notin Elems(o)
      BY <1>3, Zenon
    <2> QED BY <1>3, <2>1, AppendElems
  <1>5. \A u \in Elems(Append(o, t)) : List(u) = l
    BY <1>2, <1>3, <1>4, Zenon DEF Enlisted
  <1>6. sleepy' \subseteq Threads /\ \A u \in sleepy' : IF List(u) = l THEN u \in Elems(Append(o, t)) ELSE u \in sleepy
    BY <1>1, <1>3, <1>4, Zenon DEF Enlisted
  <1> QED BY <1>1, <1>2, <1>4, <1>5, <1>6, ListChange, Zenon

LEMMA EndWaitList ==
    ASSUME Enlisted, NEW t \in Threads, EndWait(t)
    PROVE  Enlisted' /\ sleepy' = sleepy \ {t}
  <1> DEFINE l == List(t)
  <1> DEFINE o == Others(l, t)
  <1>1. /\ wait' = [wait EXCEPT ![l] = o] /\ sleepy' = sleepy \ {t}
    BY Zenon DEF EndWait
  <1>2. l \in Lists
    BY ListOf, Zenon
  <1>3. o \in Seq(Threads) /\ Elems(o) = Elems(wait[l]) \ {t} /\ Distinct(o)
    BY <1>2, OthersElems, Zenon
  <1> HIDE DEF o
  <1>4. \A u \in Elems(o) : List(u) = l
    BY <1>2, <1>3, Zenon DEF Enlisted
  <1>5. sleepy' \subseteq Threads /\ \A u \in sleepy' : IF List(u) = l THEN u \in Elems(o) ELSE u \in sleepy
    BY <1>1, <1>3, Zenon DEF Enlisted
  <1> QED BY <1>1, <1>2, <1>3, <1>4, <1>5, ListChange, Zenon

\* Somebody is woken without the list: its entry is stale.
LEMMA StaleList ==
    ASSUME Enlisted, UNCHANGED wait, sleepy' \subseteq sleepy
    PROVE  Enlisted'
  BY Zenon DEF Enlisted

=============================================================================
