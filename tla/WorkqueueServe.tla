--------------------------- MODULE WorkqueueServe ---------------------------
(***************************************************************************)
(* The proof that pending work is served, and type correctness of the      *)
(* whole of Workqueue, from the invariants of WorkqueueProofs and          *)
(* WorkqueuePools together with two of their own: Matched counts the       *)
(* workers on their way against the ring, and Managed says that a manager  *)
(* does not sleep through the moment at which it is needed.                *)
(***************************************************************************)
EXTENDS WorkqueuePools

-----------------------------------------------------------------------------
(* Who is on the way to the ring *)

Idle(t) == pc[t] = "yield" /\ t \in sleepy

\* A thread that will look at the ring before it sleeps.
Near(t) == pc[t] \in {"head", "test", "pop", "parked"} \/ (pc[t] \in {"recheck", "yield"} /\ t \notin sleepy)

\* The workers of a pool that will look at its ring, and the producers that are
\* about to wake one more.
Nearby(c) == {t \in Staff(c) : Near(t)}
Wakers(c) == {i \in Items : src[i] = "wake" /\ aim[i] = c}

\* As long as a worker of the pool is idle, every pending item has a worker on
\* its way to the ring or a producer that will wake one.
MatchedAt(c) ==
    \/ Len(ring[c]) <= Cardinality(Nearby(c)) + Cardinality(Wakers(c))
    \/ \A t \in Staff(c) : ~Idle(t)
Matched == \A c \in Cpus : MatchedAt(c)

Callers(c) == {i \in Items : src[i] \in {"wake", "manage"} /\ aim[i] = c}
Notifiers(c) == {t \in Staff(c) : pc[t] = "notify"}

\* A manager that sleeps, or is about to, while it has something to do will be
\* woken by a producer or by a worker that has just started an item.
ManagedAt(c) ==
    <<c, 0>> \in sleepy /\ ring[c] # <<>> =>
        /\ pc[<<c, 0>>] = "recheck" /\ seen[c] = {0} => Callers(c) # {}
        /\ pc[<<c, 0>>] = "yield" /\ count[c] >= workers[c] /\ workers[c] < cfg.max[c]
              => Callers(c) # {} \/ Notifiers(c) # {}
Managed == \A c \in Cpus : ManagedAt(c)

ServeInv == Enlisted /\ Asleep /\ Matched /\ Managed

-----------------------------------------------------------------------------
(* Every pending item has a worker *)

\* Sizes of sets of threads and of items.
LEMMA Sizes ==
    ASSUME NEW c
    PROVE  /\ Cardinality(Nearby(c)) \in Nat /\ Cardinality(Nearby(c)') \in Nat
           /\ Cardinality(Wakers(c)) \in Nat /\ Cardinality(Wakers(c)') \in Nat
           /\ Nearby(c) \subseteq Nearby(c)' => Cardinality(Nearby(c)) <= Cardinality(Nearby(c)')
           /\ Wakers(c) \subseteq Wakers(c)' => Cardinality(Wakers(c)) <= Cardinality(Wakers(c)')
  <1>1. Nearby(c) \in SUBSET Threads /\ Nearby(c)' \in SUBSET Threads
    BY Zenon DEF Nearby, Staff
  <1>2. /\ IsFiniteSet(Nearby(c)) /\ Cardinality(Nearby(c)) \in Nat
        /\ IsFiniteSet(Nearby(c)') /\ Cardinality(Nearby(c)') \in Nat
    BY <1>1, ThreadsFinite, Zenon
  <1>3. Wakers(c) \subseteq Items /\ Wakers(c)' \subseteq Items
    BY Zenon DEF Wakers
  <1>4. /\ IsFiniteSet(Wakers(c)) /\ Cardinality(Wakers(c)) \in Nat
        /\ IsFiniteSet(Wakers(c)') /\ Cardinality(Wakers(c)') \in Nat
    BY <1>3, NoItemIsNone, FS_Subset, FS_CardinalityType, Zenon
  <1>5. Nearby(c) \subseteq Nearby(c)' => Cardinality(Nearby(c)) <= Cardinality(Nearby(c)')
    BY <1>2, FS_Subset, Zenon
  <1>6. Wakers(c) \subseteq Wakers(c)' => Cardinality(Wakers(c)) <= Cardinality(Wakers(c)')
    BY <1>4, FS_Subset, Zenon
  <1> QED BY <1>2, <1>4, <1>5, <1>6, Zenon

LEMMA OneItemMore ==
    ASSUME NEW S \in SUBSET Items, NEW i \in Items, i \notin S
    PROVE  Cardinality(S \union {i}) = Cardinality(S) + 1 /\ Cardinality(S) \in Nat
  <1>1. IsFiniteSet(S)
    BY NoItemIsNone, FS_Subset, Zenon
  <1> QED BY <1>1, FS_AddElement, FS_CardinalityType, Zenon

\* The ring has not grown, nobody that was near it or will wake a worker is
\* lost, and no worker has gone to sleep.
LEMMA MatchedKept ==
    ASSUME RingTypes, RingTypes', NEW c \in Cpus, MatchedAt(c), ring'[c] = <<>> \/ Len(ring'[c]) <= Len(ring[c]),
           \A t \in Staff(c) : Near(t) => Near(t)', Wakers(c) \subseteq Wakers(c)',
           \A t \in Staff(c) : Idle(t)' => Idle(t)
    PROVE  MatchedAt(c)'
  <1>1. Len(ring[c]) \in Nat /\ Len(ring'[c]) \in Nat /\ (ring'[c] = <<>> => Len(ring'[c]) = 0)
    BY DEF RingTypes
  <1>2. Nearby(c) \subseteq Nearby(c)'
    BY Zenon DEF Nearby, Staff
  <1>3. CASE \A t \in Staff(c) : ~Idle(t)
    <2>1. \A t \in Staff(c) : ~Idle(t)'
      BY <1>3, Zenon
    <2> QED BY <2>1, Zenon DEF MatchedAt, Staff
  <1>4. CASE Len(ring[c]) <= Cardinality(Nearby(c)) + Cardinality(Wakers(c))
    <2>1. Len(ring'[c]) <= Cardinality(Nearby(c)') + Cardinality(Wakers(c)')
      BY <1>1, <1>2, <1>4, Sizes
    <2> QED BY <2>1, Zenon DEF MatchedAt
  <1> QED BY <1>3, <1>4, Zenon DEF MatchedAt

\* An empty ring needs nobody.
LEMMA EmptyMatched ==
    ASSUME NEW c \in Cpus, ring'[c] = <<>>
    PROVE  MatchedAt(c)'
  <1>1. Len(ring'[c]) = 0
    OBVIOUS
  <1>2. Len(ring'[c]) <= Cardinality(Nearby(c)') + Cardinality(Wakers(c)')
    BY <1>1, Sizes
  <1> QED BY <1>2, Zenon DEF MatchedAt

\* A pushed item comes with a producer that will wake a worker for it.
LEMMA PushMatched ==
    ASSUME RingInv, RingTypes', Matched, NEW i \in Items, Push(i)
    PROVE  Matched'
  <1>t. src \in [Items -> Sources] /\ aim \in [Items -> Cpus] /\ aim[i] \in Cpus /\ RingTypes
    BY Zenon DEF RingInv, CallTypes
  <1>1. /\ src[i] = "push" /\ ring' = [ring EXCEPT ![aim[i]] = Append(ring[aim[i]], i)] /\ src' = [src EXCEPT ![i] = "wake"]
        /\ UNCHANGED <<aim, pc, sleepy>>
    BY Zenon DEF Push, waits
  <1>2. src'[i] = "wake" /\ \A j \in Items : j # i => src'[j] = src[j]
    BY <1>t, <1>1
  <1>3. \A t \in Threads : (Near(t) <=> Near(t)') /\ (Idle(t) <=> Idle(t)')
    BY <1>1, Zenon DEF Near, Idle
  <1>4. ASSUME NEW c \in Cpus, c # aim[i] PROVE MatchedAt(c)'
    <2>1. ring'[c] = ring[c] /\ Len(ring'[c]) <= Len(ring[c])
      BY <1>t, <1>1, <1>4 DEF RingTypes
    <2>2. Wakers(c) \subseteq Wakers(c)'
      BY <1>1, <1>2, Zenon DEF Wakers
    <2> QED BY <1>t, <1>3, <2>1, <2>2, MatchedKept, Zenon DEF Matched, Staff
  <1>5. MatchedAt(aim[i])'
    <2> DEFINE c == aim[i]
    <2>1. ring[c] \in Seq(Items) /\ ring'[c] = Append(ring[c], i)
      BY <1>t, <1>1 DEF RingTypes
    <2>2. Len(ring'[c]) = Len(ring[c]) + 1 /\ Len(ring[c]) \in Nat
      BY <2>1, Ring
    <2>3. i \notin Wakers(c) /\ Wakers(c)' = Wakers(c) \union {i} /\ Wakers(c) \in SUBSET Items
      BY <1>1, <1>2 DEF Wakers
    <2>4. Cardinality(Wakers(c)') = Cardinality(Wakers(c)) + 1 /\ Cardinality(Wakers(c)) \in Nat
      BY <2>3, OneItemMore, Zenon
    <2>5. Nearby(c)' = Nearby(c) /\ Cardinality(Nearby(c)) \in Nat
      BY <1>1, <1>3, Sizes, Zenon DEF Nearby, Staff
    <2>6. CASE Len(ring[c]) <= Cardinality(Nearby(c)) + Cardinality(Wakers(c))
      <3>1. Len(ring'[c]) <= Cardinality(Nearby(c)') + Cardinality(Wakers(c)')
        BY <2>2, <2>4, <2>5, <2>6
      <3> QED BY <1>1, <3>1, Zenon DEF MatchedAt
    <2>7. CASE \A t \in Staff(c) : ~Idle(t)
      BY <1>1, <1>3, <2>7, Zenon DEF MatchedAt, Staff
    <2> QED BY <1>t, <2>6, <2>7, Zenon DEF Matched, MatchedAt
  <1> QED BY <1>1, <1>4, <1>5, Zenon DEF Matched

\* The producer's wake_one brings a worker near, or none of them sleeps.
LEMMA WakeWorkerMatched ==
    ASSUME RingInv, RingTypes', Enlisted, Asleep, Matched, NEW i \in Items, WakeWorker(i)
    PROVE  Matched'
  <1>t. src \in [Items -> Sources] /\ aim \in [Items -> Cpus] /\ RingTypes
    BY Zenon DEF RingInv, CallTypes
  <1>a. PICK a \in Cpus : a = aim[i]
    BY <1>t
  <1>1. /\ src[i] = "wake" /\ WakeOne(<<a, "worker">>) /\ src' = [src EXCEPT ![i] = "manage"]
        /\ UNCHANGED <<ring, aim, pc>>
    BY <1>a, Zenon DEF WakeWorker, queues
  <1>2. src'[i] = "manage" /\ \A j \in Items : j # i => src'[j] = src[j]
    BY <1>t, <1>1
  <1>l. <<a, "worker">> \in Lists
    BY DEF Lists, Kinds
  <1>w. \/ sleepy' = sleepy /\ \A t \in sleepy : List(t) # <<a, "worker">>
        \/ \E t \in sleepy : List(t) = <<a, "worker">> /\ sleepy' = sleepy \ {t}
    BY <1>1, <1>l, Woken, Zenon
  <1>s. sleepy' \subseteq sleepy /\ sleepy \subseteq Threads
    BY <1>w, Zenon DEF Enlisted
  <1>3. \A t \in Threads : (Near(t) => Near(t)') /\ (Idle(t)' => Idle(t))
    BY <1>1, <1>s, Zenon DEF Near, Idle
  <1>r. \A c \in Cpus : ring'[c] = ring[c] /\ Len(ring'[c]) <= Len(ring[c]) /\ Len(ring[c]) \in Nat
    BY <1>t, <1>1 DEF RingTypes
  <1>4. ASSUME NEW c \in Cpus, c # a PROVE MatchedAt(c)'
    <2>1. Wakers(c) \subseteq Wakers(c)'
      BY <1>a, <1>1, <1>2, <1>4, ZenonT(60) DEF Wakers
    <2> QED BY <1>t, <1>r, <1>3, <2>1, MatchedKept, ZenonT(60) DEF Matched, Staff
  <1>5. CASE \A t \in sleepy : List(t) # <<a, "worker">>
    <2>1. \A t \in Staff(a) : ~Idle(t)
      BY <1>5, ListOf, Zenon DEF Staff, Idle
    <2>2. MatchedAt(a)'
      BY <1>3, <2>1, Zenon DEF MatchedAt, Staff
    <2> QED BY <1>4, <2>2, Zenon DEF Matched
  <1>6. ASSUME NEW t \in sleepy, List(t) = <<a, "worker">>, sleepy' = sleepy \ {t} PROVE MatchedAt(a)'
    <2>1. t \in Staff(a) /\ t \in Threads
      BY <1>s, <1>6, ListOf, Zenon
    <2>2. pc[t] \in {"recheck", "yield"} /\ ~Near(t) /\ Near(t)'
      BY <1>1, <1>6 DEF Asleep, Near
    <2>3. Nearby(a) \union {t} \subseteq Nearby(a)' /\ t \notin Nearby(a)
      BY <1>3, <2>1, <2>2, Zenon DEF Nearby, Staff
    <2>4. Cardinality(Nearby(a) \union {t}) = Cardinality(Nearby(a)) + 1
      BY <2>1, <2>3, OneMore, Zenon DEF Nearby, Staff
    <2>5. Cardinality(Nearby(a) \union {t}) <= Cardinality(Nearby(a)')
      <3>1. IsFiniteSet(Nearby(a)')
        BY ThreadsFinite, Zenon DEF Nearby, Staff
      <3> QED BY <2>3, <3>1, FS_Subset, Zenon
    <2>6. i \notin Wakers(a)' /\ Wakers(a) = Wakers(a)' \union {i} /\ Wakers(a)' \in SUBSET Items
      BY <1>a, <1>1, <1>2 DEF Wakers
    <2>7. Cardinality(Wakers(a)) = Cardinality(Wakers(a)') + 1 /\ Cardinality(Wakers(a)') \in Nat
      BY <2>6, OneItemMore, Zenon
    <2>8. Cardinality(Nearby(a)) \in Nat /\ Cardinality(Nearby(a)') \in Nat
      BY Sizes, Zenon
    <2>9. CASE Len(ring[a]) <= Cardinality(Nearby(a)) + Cardinality(Wakers(a))
      <3>1. Len(ring'[a]) <= Cardinality(Nearby(a)') + Cardinality(Wakers(a)')
        BY <1>r, <2>4, <2>5, <2>7, <2>8, <2>9
      <3> QED BY <3>1, Zenon DEF MatchedAt
    <2>10. CASE \A u \in Staff(a) : ~Idle(u)
      BY <1>3, <2>10, Zenon DEF MatchedAt, Staff
    <2> QED BY <2>9, <2>10, Zenon DEF Matched, MatchedAt
  <1> QED BY <1>w, <1>4, <1>5, <1>6, Zenon DEF Matched

\* The other steps of a producer.
LEMMA ProducerMatched ==
    ASSUME RingInv, RingTypes', Enlisted, Asleep, Matched, NEW i \in Items, Producer(i)
    PROVE  Matched'
  <1>t. src \in [Items -> Sources] /\ aim \in [Items -> Cpus] /\ RingTypes
    BY Zenon DEF RingInv, CallTypes
  <1>1. CASE Submit(i) \/ Refuse(i) \/ WakeManager(i)
    <2>1. /\ src[i] # "wake" /\ UNCHANGED <<ring, pc>>
          /\ \E p \in {"push", "refused", "queued"} : src' = [src EXCEPT ![i] = p]
          /\ UNCHANGED aim \/ \E a \in Cpus : aim' = [aim EXCEPT ![i] = a]
      <3>1. CASE Submit(i)
        <4>1. PlaceOn(cfg.target[i]) \in Cpus
          BY Placed, Zenon DEF RingInv, DownTypes
        <4> QED BY <3>1, <4>1, Zenon DEF Submit, queues
      <3>2. CASE Refuse(i) \/ WakeManager(i)
        BY <3>2, Zenon DEF Refuse, WakeManager, queues
      <3> QED BY <1>1, <3>1, <3>2
    <2>2. \A j \in Items : j # i => src'[j] = src[j] /\ aim'[j] = aim[j]
      BY <1>t, <2>1
    <2>3. \A c \in Cpus : Wakers(c) \subseteq Wakers(c)'
      BY <2>1, <2>2, Zenon DEF Wakers
    <2>4. sleepy' \subseteq sleepy
      <3>1. CASE WakeManager(i)
        BY <3>1, WakesOnly, Zenon DEF WakeManager
      <3>2. CASE Submit(i) \/ Refuse(i)
        BY <3>2, Zenon DEF Submit, Refuse, waits
      <3> QED BY <1>1, <3>1, <3>2
    <2>5. \A t \in Threads : (Near(t) => Near(t)') /\ (Idle(t)' => Idle(t))
      BY <2>1, <2>4, Zenon DEF Near, Idle
    <2>6. \A c \in Cpus : Len(ring'[c]) <= Len(ring[c])
      BY <1>t, <2>1 DEF RingTypes
    <2> QED BY <1>t, <2>3, <2>5, <2>6, MatchedKept, ZenonT(60) DEF Matched, Staff
  <1> QED BY <1>1, PushMatched, WakeWorkerMatched, Zenon DEF Producer

\* A thread step that leaves the other workers alone: a manager's, one that
\* finds the ring empty, or one after which the worker is as near as before.
LEMMA StepMatched ==
    ASSUME RingTypes, RingTypes', Matched, NEW t \in Threads, UNCHANGED <<src, aim, ring>>,
           \A u \in Threads : u # t /\ ~IsManager(u) => pc'[u] = pc[u] /\ (u \in sleepy' <=> u \in sleepy),
           IsManager(t) \/ ring[Cpu(t)] = <<>> \/ ((Near(t) => Near(t)') /\ (Idle(t)' => Idle(t)))
    PROVE  Matched'
  <1>1. \A c \in Cpus : Wakers(c) \subseteq Wakers(c)' /\ ring'[c] = ring[c] /\ Len(ring'[c]) <= Len(ring[c])
    <2>1. \A c \in Cpus : Wakers(c) \subseteq Wakers(c)'
      BY Zenon DEF Wakers
    <2>2. \A c \in Cpus : Len(ring'[c]) <= Len(ring[c])
      BY DEF RingTypes
    <2> QED BY <2>1, <2>2, Zenon
  <1>2. \A u \in Threads : u # t /\ ~IsManager(u) => (Near(u) => Near(u)') /\ (Idle(u)' => Idle(u))
    BY Zenon DEF Near, Idle
  <1> SUFFICES ASSUME NEW c \in Cpus PROVE MatchedAt(c)'
    BY Zenon DEF Matched
  <1>3. CASE ring[c] = <<>>
    BY <1>1, <1>3, EmptyMatched, Zenon
  <1>4. CASE ring[c] # <<>>
    <2>1. \A u \in Staff(c) : (Near(u) => Near(u)') /\ (Idle(u)' => Idle(u))
      BY <1>2, <1>4, Zenon DEF Staff
    <2> QED BY <1>1, <2>1, MatchedKept, Zenon DEF Matched
  <1> QED BY <1>3, <1>4

\* A worker leaves the ring's neighbourhood with an item of it.
LEMMA PopMatched ==
    ASSUME RingInv, RingTypes', ThreadTypes, Matched, NEW t \in Threads, ~IsManager(t), Pop(t)
    PROVE  Matched'
  <1>t. RingTypes
    BY Zenon DEF RingInv
  <1>a. PICK a \in Cpus : a = Cpu(t)
    BY Homes, ZenonT(60)
  <1>1. UNCHANGED <<src, aim, sleepy>> /\ pc[t] = "pop"
    BY Zenon DEF Pop, calls, waits
  <1>s. t \in Staff(a)
    BY <1>a, Zenon DEF Staff
  <1>2. CASE ring[a] = <<>>
    <2>1. Goto(t, "head") /\ UNCHANGED ring
      BY <1>a, <1>2, Zenon DEF Pop
    <2>2. \A u \in Threads : u # t => pc'[u] = pc[u]
      BY <2>1, Goes, Zenon
    <2> QED BY <1>t, <1>a, <1>1, <1>2, <2>1, <2>2, StepMatched, Zenon
  <1>3. CASE ring[a] # <<>>
    <2>1. Goto(t, "begin") /\ ring' = [ring EXCEPT ![a] = Tail(ring[a])]
      BY <1>a, <1>3, Zenon DEF Pop
    <2>2. pc'[t] = "begin" /\ \A u \in Threads : u # t => pc'[u] = pc[u]
      BY <2>1, Goes, Zenon
    <2>3. \A u \in Threads : u # t => (Near(u) <=> Near(u)') /\ (Idle(u) <=> Idle(u)')
      BY <1>1, <2>2, Zenon DEF Near, Idle
    <2>4. Near(t) /\ ~Near(t)' /\ ~Idle(t)'
      BY <1>1, <2>2 DEF Near, Idle
    <2>5. \A c \in Cpus : Wakers(c)' = Wakers(c)
      BY <1>1, Zenon DEF Wakers
    <2>6. ASSUME NEW c \in Cpus, c # a PROVE MatchedAt(c)'
      <3>1. ring'[c] = ring[c] /\ Len(ring'[c]) <= Len(ring[c])
        BY <1>t, <2>1, <2>6 DEF RingTypes
      <3>2. \A u \in Staff(c) : (Near(u) => Near(u)') /\ (Idle(u)' => Idle(u))
        BY <1>a, <2>3, <2>6, Zenon DEF Staff
      <3> QED BY <1>t, <2>5, <3>1, <3>2, MatchedKept, ZenonT(60) DEF Matched
    <2>7. MatchedAt(a)'
      <3>1. Len(ring'[a]) = Len(ring[a]) - 1 /\ Len(ring[a]) \in Nat /\ Len(ring'[a]) \in Nat
        <4>1. ring[a] \in Seq(Items) /\ ring'[a] = Tail(ring[a])
          BY <1>t, <2>1 DEF RingTypes
        <4>2. Len(ring[a]) \in Nat /\ Len(Tail(ring[a])) = Len(ring[a]) - 1 /\ Tail(ring[a]) \in Seq(Items)
          BY <1>3, <4>1, Ring, Zenon
        <4>3. Len(Tail(ring[a])) \in Nat
          BY <4>2, Ring, Zenon
        <4> QED BY <4>1, <4>2, <4>3, Zenon
      <3>2. Nearby(a)' = Nearby(a) \ {t} /\ t \in Nearby(a) /\ Nearby(a) \in SUBSET Threads
        BY <1>s, <2>3, <2>4, Zenon DEF Nearby, Staff
      <3>3. Cardinality(Nearby(a)') = Cardinality(Nearby(a)) - 1
        BY <3>2, OneLess, Zenon
      <3>4. Cardinality(Nearby(a)) \in Nat /\ Cardinality(Wakers(a)) \in Nat
        BY Sizes, Zenon
      <3>5. CASE Len(ring[a]) <= Cardinality(Nearby(a)) + Cardinality(Wakers(a))
        <4>1. Len(ring'[a]) <= Cardinality(Nearby(a)') + Cardinality(Wakers(a)')
          BY <2>5, <3>1, <3>3, <3>4, <3>5
        <4> QED BY <4>1, Zenon DEF MatchedAt
      <3>6. CASE \A u \in Staff(a) : ~Idle(u)
        BY <2>3, <2>4, <3>6, Zenon DEF MatchedAt, Staff
      <3> QED BY <3>5, <3>6, Zenon DEF Matched, MatchedAt
    <2> QED BY <2>6, <2>7, Zenon DEF Matched
  <1> QED BY <1>2, <1>3

-----------------------------------------------------------------------------
(* The steps of a thread *)

LEMMA AsleepStep ==
    ASSUME Enlisted, Asleep, ThreadTypes, NEW t \in Threads, NEW p, Goto(t, p), sleepy' \subseteq sleepy \union {t},
           t \in sleepy' => p \in {"recheck", "yield"}
    PROVE  Asleep'
  <1>1. pc'[t] = p /\ \A u \in Threads : u # t => pc'[u] = pc[u]
    BY Goes, Zenon
  <1> QED BY <1>1, Zenon DEF Enlisted, Asleep

\* A spawn starts one worker; nobody else but the manager moves.
LEMMA Spawns ==
    ASSUME ThreadTypes, Spawned, NEW t \in Threads, Spawn(t)
    PROVE  /\ IsManager(t) /\ pc'[t] = "bind" /\ UNCHANGED <<ring, wait, sleepy, src, aim, seen, count, workers, cfg>>
           /\ \E u \in Threads : /\ ~IsManager(u) /\ pc[u] = "none" /\ pc'[u] = "head"
                                 /\ \A v \in Threads : v # u /\ v # t => pc'[v] = pc[v]
  <1>1. pc[t] = "spawn" /\ UNCHANGED <<ring, wait, sleepy, src, aim, seen, count, workers, cfg>>
    BY Zenon DEF Spawn, queues, waits, calls, spawns
  <1>2. IsManager(t)
    BY <1>1, Zenon DEF Spawned
  <1>3. PICK u \in Fresh(Cpu(t)) : pc' = [pc EXCEPT ![u] = "head", ![t] = "bind"]
    BY Zenon DEF Spawn
  <1>4. u \in Threads /\ ~IsManager(u) /\ pc[u] = "none"
    BY Zenon DEF Fresh, Alive
  <1>5. u # t
    BY <1>2, <1>4
  <1>6. pc'[t] = "bind" /\ pc'[u] = "head" /\ \A v \in Threads : v # u /\ v # t => pc'[v] = pc[v]
    BY <1>3, <1>4, <1>5 DEF ThreadTypes
  <1> QED BY <1>1, <1>2, <1>4, <1>6, Zenon

LEMMA ThreadList ==
    ASSUME ThreadTypes, Spawned, Enlisted, Asleep, NEW t \in Threads, Thread(t)
    PROVE  Enlisted' /\ Asleep'
  <1>1. CASE Publish(t)
    <2>1. Goto(t, "recheck") /\ sleepy' = sleepy \union {t}
      BY <1>1, Zenon DEF Publish
    <2> QED BY <1>1, <2>1, PublishList, AsleepStep, Zenon
  <1>2. CASE (Recheck(t) \/ Resume(t)) /\ EndWait(t)
    <2>1. Enlisted' /\ sleepy' = sleepy \ {t} /\ Goto(t, "head")
      BY <1>2, EndWaitList, Zenon DEF EndWait
    <2>2. sleepy' \subseteq sleepy \union {t} /\ t \notin sleepy'
      BY <2>1, Zenon
    <2> QED BY <2>1, <2>2, AsleepStep, Zenon
  <1>3. CASE (Recheck(t) \/ Resume(t)) /\ ~EndWait(t)
    <2>1. UNCHANGED <<wait, sleepy>> /\ \E p : Goto(t, p) /\ (t \in sleepy => p = "yield")
      BY <1>3, Zenon DEF Recheck, Resume
    <2> QED BY <2>1, AsleepStep, StaleList, Zenon
  <1>4. CASE Notify(t)
    <2>1. pc[t] = "notify" /\ WakeOne(<<Cpu(t), "manager">>) /\ Goto(t, "run")
      BY <1>4, Zenon DEF Notify
    <2>2. <<Cpu(t), "manager">> \in Lists /\ t \notin sleepy
      BY <2>1, Homes, ZenonT(60) DEF Lists, Kinds, Asleep
    <2>3. Enlisted' /\ sleepy' \subseteq sleepy
      BY <2>1, <2>2, Woken, WakesOnly, Zenon
    <2> QED BY <2>1, <2>2, <2>3, AsleepStep, Zenon
  <1>5. CASE Sample(t)
    BY <1>5, StaleList, Zenon DEF Sample, waits, Asleep
  <1>6. CASE Spawn(t)
    <2>1. PICK u \in Threads : pc[u] = "none" /\ \A v \in Threads : v # u /\ v # t => pc'[v] = pc[v]
      BY <1>6, Spawns, Zenon
    <2>2. UNCHANGED <<wait, sleepy>> /\ pc[t] = "spawn"
      BY <1>6, Zenon DEF Spawn, waits
    <2>3. u \notin sleepy /\ t \notin sleepy
      BY <2>1, <2>2 DEF Asleep
    <2> QED BY <2>1, <2>2, <2>3, StaleList, ZenonT(60) DEF Enlisted, Asleep
  <1>7. ASSUME UNCHANGED waits, pc[t] \notin {"recheck", "yield"}, \E p : Goto(t, p) PROVE Enlisted' /\ Asleep'
    <2>1. UNCHANGED <<wait, sleepy>> /\ t \notin sleepy
      BY <1>7, Zenon DEF waits, Asleep
    <2> QED BY <1>7, <2>1, AsleepStep, StaleList, Zenon
  <1>8. CASE TestPending(t) \/ Pop(t) \/ Begin(t) \/ Run(t) \/ End(t)
    <2>1. UNCHANGED waits /\ pc[t] \in {"test", "pop", "begin", "run", "end"} /\ \E p : Goto(t, p)
      BY <1>8, Zenon DEF TestPending, Pop, Begin, Run, End
    <2> QED BY <1>7, <2>1
  <1>9. CASE ParkIfRequested(t) \/ Unparked(t) \/ Decide(t) \/ Bind(t) \/ SpawnFails(t)
    <2>1. UNCHANGED waits /\ pc[t] \in {"head", "parked", "test", "bind", "spawn"} /\ \E p : Goto(t, p)
      BY <1>9, Zenon DEF ParkIfRequested, Unparked, Decide, Bind, SpawnFails
    <2> QED BY <1>7, <2>1
  <1> QED BY <1>1, <1>2, <1>3, <1>4, <1>5, <1>6, <1>8, <1>9, ZenonT(60) DEF Thread, Wait, Worker

LEMMA ThreadMatched ==
    ASSUME RingInv, RingTypes', ThreadTypes, Spawned, PoolTypes, Enlisted, Asleep, Matched, NEW t \in Threads, Thread(t)
    PROVE  Matched'
  <1>t. RingTypes
    BY Zenon DEF RingInv
  <1>g. ASSUME NEW p, Goto(t, p), UNCHANGED <<src, aim, ring>>, \A u \in Threads : u # t /\ ~IsManager(u) => (u \in sleepy' <=> u \in sleepy),
               IsManager(t) \/ ring[Cpu(t)] = <<>> \/ ((Near(t) => Near(t)') /\ (Idle(t)' => Idle(t)))
        PROVE  Matched'
    <2>1. \A u \in Threads : u # t => pc'[u] = pc[u]
      BY <1>g, Goes, Zenon
    <2> QED BY <1>t, <1>g, <2>1, StepMatched, Zenon
  <1>p. \A p : Goto(t, p) => pc'[t] = p
    BY Goes, Zenon
  <1>1. CASE Publish(t)
    <2>1. Goto(t, "recheck") /\ sleepy' = sleepy \union {t} /\ UNCHANGED <<src, aim, ring>> /\ pc[t] = "publish"
      BY <1>1, Zenon DEF Publish, queues, calls
    <2>2. ~Near(t) /\ ~Idle(t)'
      BY <1>p, <2>1 DEF Near, Idle
    <2> QED BY <1>g, <2>1, <2>2, Zenon
  <1>2. CASE Recheck(t) \/ Resume(t)
    <2>1. UNCHANGED <<src, aim, ring>> /\ (EndWait(t) \/ (~Ready(t) /\ UNCHANGED sleepy /\ \E p : Goto(t, p)))
      BY <1>2, Zenon DEF Recheck, Resume, queues, calls
    <2>2. CASE EndWait(t)
      <3>1. Goto(t, "head") /\ sleepy' = sleepy \ {t}
        BY <2>2, Zenon DEF EndWait
      <3>2. Near(t)' /\ ~Idle(t)'
        BY <1>p, <3>1 DEF Near, Idle
      <3> QED BY <1>g, <2>1, <3>1, <3>2, ZenonT(60)
    <2>3. CASE ~Ready(t) /\ UNCHANGED sleepy /\ \E p : Goto(t, p)
      <3>1. IsManager(t) \/ ring[Cpu(t)] = <<>>
        BY <2>3, Zenon DEF Ready
      <3> QED BY <1>g, <2>1, <2>3, <3>1, ZenonT(60)
    <2> QED BY <2>1, <2>2, <2>3
  <1>3. CASE TestPending(t)
    <2>1. UNCHANGED <<src, aim, ring, sleepy>> /\ Goto(t, IF ring[Cpu(t)] # <<>> THEN "pop" ELSE "publish")
      BY <1>3, Zenon DEF TestPending, queues, calls, waits
    <2>2. ring[Cpu(t)] = <<>> \/ (Near(t)' /\ ~Idle(t)')
      BY <1>p, <2>1 DEF Near, Idle
    <2> QED BY <1>g, <2>1, <2>2, Zenon
  <1>4. CASE Pop(t)
    <2>1. ~IsManager(t)
      BY <1>4, Zenon DEF Pop, PoolTypes
    <2> QED BY <1>4, <2>1, PopMatched, ZenonT(60)
  <1>5. CASE Notify(t)
    <2>1. pc[t] = "notify" /\ WakeOne(<<Cpu(t), "manager">>) /\ Goto(t, "run") /\ UNCHANGED <<src, aim, ring>>
      BY <1>5, Zenon DEF Notify, queues, calls
    <2>2. <<Cpu(t), "manager">> \in Lists /\ Cpu(t) \in Cpus
      BY <2>1, Homes, ZenonT(60) DEF Lists, Kinds
    <2>3. \A u \in Threads : ~IsManager(u) => List(u) # <<Cpu(t), "manager">>
      BY <2>2, ListOf, ManagerOf, Zenon
    <2>4. \A u \in Threads : ~IsManager(u) => (u \in sleepy' <=> u \in sleepy)
      BY <2>1, <2>2, <2>3, Woken, ZenonT(60)
    <2>5. ~Near(t) /\ ~Idle(t)'
      BY <1>p, <2>1 DEF Near, Idle
    <2> QED BY <1>g, <2>1, <2>4, <2>5, ZenonT(60)
  <1>6. CASE Begin(t) \/ Run(t)
    <2>1. UNCHANGED <<src, aim, ring, sleepy>> /\ pc[t] \in {"begin", "run"} /\ \E p \in {"notify", "end"} : Goto(t, p)
      BY <1>6, Zenon DEF Begin, Run, queues, calls, waits
    <2>2. ~Near(t) /\ ~Idle(t)'
      BY <1>p, <2>1 DEF Near, Idle
    <2> QED BY <1>g, <2>1, <2>2, ZenonT(60)
  <1>7. CASE End(t) \/ ParkIfRequested(t) \/ Unparked(t)
    <2>1. UNCHANGED <<src, aim, ring, sleepy>> /\ \E p \in {"pop", "parked", "test", "head"} : Goto(t, p)
      BY <1>7, Zenon DEF End, ParkIfRequested, Unparked, queues, calls, waits
    <2>2. Near(t)' /\ ~Idle(t)'
      BY <1>p, <2>1 DEF Near, Idle
    <2> QED BY <1>g, <2>1, <2>2, Zenon
  <1>8. CASE Decide(t) \/ Bind(t) \/ SpawnFails(t)
    <2>1. UNCHANGED <<src, aim, ring, sleepy>> /\ IsManager(t) /\ \E p : Goto(t, p)
      BY <1>8, Zenon DEF Decide, Bind, SpawnFails, queues, calls, waits, Spawned
    <2> QED BY <1>g, <2>1, Zenon
  <1>9. CASE Sample(t)
    <2>1. UNCHANGED <<src, aim, ring, sleepy, pc>> /\ IsManager(t)
      BY <1>9, Zenon DEF Sample, queues, calls, waits
    <2> QED BY <1>t, <2>1, StepMatched, ZenonT(60)
  <1>10. CASE Spawn(t)
    <2>1. PICK u \in Threads : /\ ~IsManager(u) /\ pc[u] = "none" /\ pc'[u] = "head"
                               /\ \A v \in Threads : v # u /\ v # t => pc'[v] = pc[v]
      BY <1>10, Spawns, Zenon
    <2>2. UNCHANGED <<ring, sleepy, src, aim>> /\ IsManager(t)
      BY <1>10, Spawns, Zenon
    <2>3. Near(u)' /\ ~Idle(u)'
      BY <2>1 DEF Near, Idle
    <2>4. \A v \in Threads : ~IsManager(v) => (Near(v) => Near(v)') /\ (Idle(v)' => Idle(v))
      BY <2>1, <2>2, <2>3, ZenonT(60) DEF Near, Idle
    <2>5. \A c \in Cpus : Wakers(c) \subseteq Wakers(c)'
      BY <2>2, Zenon DEF Wakers
    <2>6. \A c \in Cpus : Len(ring'[c]) <= Len(ring[c])
      BY <1>t, <2>2 DEF RingTypes
    <2> QED BY <1>t, <2>4, <2>5, <2>6, MatchedKept, ZenonT(60) DEF Matched, Staff
  <1> QED BY <1>1, <1>2, <1>3, <1>4, <1>5, <1>6, <1>7, <1>8, <1>9, <1>10, ZenonT(60) DEF Thread, Wait, Worker

-----------------------------------------------------------------------------
(* A sleeping manager has nothing to do *)

\* Nothing that could keep the manager awake is new.
LEMMA ManagedKept ==
    ASSUME NEW c \in Cpus, ManagedAt(c), <<c, 0>> \in sleepy' => <<c, 0>> \in sleepy /\ pc'[<<c, 0>>] = pc[<<c, 0>>],
           ring'[c] # <<>> => ring[c] # <<>>, seen'[c] = seen[c],
           count'[c] >= workers'[c] /\ workers'[c] < cfg'.max[c] => count[c] >= workers[c] /\ workers[c] < cfg.max[c],
           Callers(c) \subseteq Callers(c)', Notifiers(c) \subseteq Notifiers(c)'
    PROVE  ManagedAt(c)'
  <1>1. Callers(c) # {} => Callers(c)' # {}
    BY Zenon
  <1>2. Notifiers(c) # {} => Notifiers(c)' # {}
    BY Zenon
  <1> QED BY <1>1, <1>2, Zenon DEF ManagedAt

\* A producer with a pending call wakes the manager before it returns.
LEMMA ProducerManaged ==
    ASSUME RingInv, Enlisted, Managed, NEW i \in Items, Producer(i)
    PROVE  Managed'
  <1>t. src \in [Items -> Sources] /\ aim \in [Items -> Cpus] /\ RingTypes
    BY Zenon DEF RingInv, CallTypes
  <1>a. PICK a \in Cpus : a = aim[i]
    BY <1>t
  <1>u. UNCHANGED <<cfg, pc, count, workers, seen>>
    BY Zenon DEF Producer, Submit, Push, Refuse, WakeWorker, WakeManager, queues, spawns
  <1>n. \A c \in Cpus : Notifiers(c)' = Notifiers(c)
    BY <1>u, Zenon DEF Notifiers, Staff
  <1>k. ASSUME NEW c \in Cpus, sleepy' \subseteq sleepy, ring'[c] = ring[c], Callers(c) \subseteq Callers(c)' PROVE ManagedAt(c)'
    BY <1>u, <1>n, <1>k, ManagedKept, ZenonT(60) DEF Managed
  <1>1. CASE Submit(i) \/ Refuse(i)
    <2>1. /\ src[i] \notin {"wake", "manage"} /\ UNCHANGED <<ring, sleepy>>
          /\ \E p : src' = [src EXCEPT ![i] = p]
          /\ UNCHANGED aim \/ \E b : aim' = [aim EXCEPT ![i] = b]
      BY <1>1 DEF Submit, Refuse, queues, waits
    <2>2. \A j \in Items : j # i => src'[j] = src[j] /\ aim'[j] = aim[j]
      BY <1>t, <2>1
    <2>3. \A c \in Cpus : Callers(c) \subseteq Callers(c)'
      BY <2>1, <2>2, Zenon DEF Callers
    <2> QED BY <1>k, <2>1, <2>3, Zenon DEF Managed
  <1>2. CASE Push(i)
    <2>1. /\ src[i] = "push" /\ ring' = [ring EXCEPT ![a] = Append(@, i)] /\ src' = [src EXCEPT ![i] = "wake"]
          /\ UNCHANGED <<aim, sleepy>>
      BY <1>a, <1>2, Zenon DEF Push, waits
    <2>2. src'[i] = "wake" /\ \A j \in Items : j # i => src'[j] = src[j]
      BY <1>t, <2>1
    <2>3. i \in Callers(a)'
      BY <1>a, <2>1, <2>2 DEF Callers
    <2>5. ManagedAt(a)'
      BY <2>3, Zenon DEF ManagedAt
    <2>6. ASSUME NEW c \in Cpus, c # a PROVE ManagedAt(c)'
      <3>1. ring'[c] = ring[c]
        BY <1>t, <2>1, <2>6 DEF RingTypes
      <3>2. Callers(c) \subseteq Callers(c)'
        BY <2>1, <2>2, Zenon DEF Callers
      <3> QED BY <1>k, <2>1, <3>1, <3>2, ZenonT(60)
    <2> QED BY <2>5, <2>6, Zenon DEF Managed
  <1>3. CASE WakeWorker(i)
    <2>1. src[i] = "wake" /\ WakeOne(<<a, "worker">>) /\ src' = [src EXCEPT ![i] = "manage"] /\ UNCHANGED <<aim, ring>>
      BY <1>a, <1>3, Zenon DEF WakeWorker, queues
    <2>2. src'[i] = "manage" /\ \A j \in Items : j # i => src'[j] = src[j]
      BY <1>t, <2>1
    <2>3. \A c \in Cpus : Callers(c) \subseteq Callers(c)'
      BY <2>1, <2>2, Zenon DEF Callers
    <2>4. sleepy' \subseteq sleepy
      BY <2>1, WakesOnly, Zenon
    <2> QED BY <1>k, <2>1, <2>3, <2>4, ZenonT(60) DEF Managed
  <1>4. CASE WakeManager(i)
    <2>1. WakeOne(<<a, "manager">>) /\ src' = [src EXCEPT ![i] = "queued"] /\ UNCHANGED <<aim, ring>>
      BY <1>a, <1>4, Zenon DEF WakeManager, queues
    <2>2. \A j \in Items : j # i => src'[j] = src[j]
      BY <1>t, <2>1
    <2>3. <<a, "manager">> \in Lists /\ <<a, 0>> \in Threads /\ List(<<a, 0>>) = <<a, "manager">>
      BY ThreadBound DEF Lists, Kinds, Threads, List, Cpu, IsManager
    <2>4. sleepy' \subseteq sleepy /\ <<a, 0>> \notin sleepy'
      <3>1. sleepy' \subseteq sleepy /\ sleepy \subseteq Threads
        BY <2>1, WakesOnly, Zenon DEF Enlisted
      <3>2. CASE \A t \in sleepy : List(t) # <<a, "manager">>
        BY <2>3, <3>1, <3>2, ZenonT(60)
      <3>3. ASSUME NEW t \in sleepy, List(t) = <<a, "manager">>, sleepy' = sleepy \ {t} PROVE <<a, 0>> \notin sleepy'
        <4>1. t = <<a, 0>>
          BY <3>1, <3>3, ListOf, ZenonT(60)
        <4> QED BY <3>3, <4>1, Zenon
      <3> QED BY <2>1, <2>3, <3>1, <3>2, <3>3, Woken, ZenonT(60)
    <2>5. ManagedAt(a)'
      BY <2>4, Zenon DEF ManagedAt
    <2>6. ASSUME NEW c \in Cpus, c # a PROVE ManagedAt(c)'
      <3>1. Callers(c) \subseteq Callers(c)'
        BY <1>a, <2>1, <2>2, <2>6, ZenonT(60) DEF Callers
      <3> QED BY <1>k, <2>1, <2>4, <3>1, ZenonT(60)
    <2> QED BY <2>5, <2>6, Zenon DEF Managed
  <1> QED BY <1>1, <1>2, <1>3, <1>4, ZenonT(60) DEF Producer

\* A thread's step is confined to the pool of its CPU.
LEMMA ThreadElsewhere ==
    ASSUME RingInv, ThreadTypes, Spawned, PoolInv, Enlisted, NEW t \in Threads, Thread(t), NEW c \in Cpus, c # Cpu(t)
    PROVE  /\ ring'[c] = ring[c] /\ count'[c] = count[c] /\ workers'[c] = workers[c] /\ seen'[c] = seen[c]
           /\ \A u \in Threads : Cpu(u) = c => pc'[u] = pc[u] /\ (u \in sleepy' <=> u \in sleepy)
  <1>t. /\ DOMAIN ring = Cpus /\ DOMAIN count = Cpus /\ DOMAIN workers = Cpus /\ DOMAIN seen = Cpus /\ Cpu(t) \in Cpus
    BY Homes, ZenonT(60) DEF RingInv, RingTypes, PoolInv, PoolTypes, Sampled
  <1>n. \A u \in Threads : Cpu(u) = c => u # t
    BY Zenon
  <1>g. ASSUME NEW p, Goto(t, p) PROVE \A u \in Threads : Cpu(u) = c => pc'[u] = pc[u]
    BY <1>g, <1>n, Goes, Zenon
  <1>1. CASE Wait(t)
    <2>1. UNCHANGED <<ring, count, workers>>
      BY <1>1, Zenon DEF Wait, Publish, Sample, Recheck, Resume, queues, spawns
    <2>2. seen' = seen \/ \E x : seen' = [seen EXCEPT ![Cpu(t)] = x]
      BY <1>1, Zenon DEF Wait, Publish, Sample, Recheck, Resume, Tested
    <2>3. UNCHANGED pc \/ \E p : Goto(t, p)
      BY <1>1, Zenon DEF Wait, Publish, Sample, Recheck, Resume, EndWait
    <2>4. sleepy' \in {sleepy, sleepy \union {t}, sleepy \ {t}}
      BY <1>1, Zenon DEF Wait, Publish, Sample, Recheck, Resume, EndWait, waits
    <2>5. seen'[c] = seen[c]
      BY <1>t, <2>2
    <2> QED BY <1>n, <1>g, <2>1, <2>3, <2>4, <2>5, Zenon
  <1>2. CASE Worker(t)
    <2>1. UNCHANGED <<workers, seen>> /\ \E p : Goto(t, p)
      BY <1>2, Zenon DEF Worker, TestPending, Pop, Begin, Notify, Run, End, spawns
    <2>2. ring' = ring \/ ring' = [ring EXCEPT ![Cpu(t)] = Tail(@)]
      BY <1>2, Zenon DEF Worker, TestPending, Pop, Begin, Notify, Run, End, queues
    <2>3. count' = count \/ \E x : count' = [count EXCEPT ![Cpu(t)] = x]
      BY <1>2, Zenon DEF Worker, TestPending, Pop, Begin, Notify, Run, End, queues
    <2>4. sleepy' = sleepy \/ WakeOne(<<Cpu(t), "manager">>)
      BY <1>2, Zenon DEF Worker, TestPending, Pop, Begin, Notify, Run, End, waits
    <2>5. \A u \in Threads : Cpu(u) = c => (u \in sleepy' <=> u \in sleepy)
      <3>1. <<Cpu(t), "manager">> \in Lists
        BY <1>t DEF Lists, Kinds
      <3>2. \A u \in Threads : Cpu(u) = c => List(u) # <<Cpu(t), "manager">>
        BY DEF List
      <3> QED BY <2>4, <3>1, <3>2, Woken, Zenon
    <2>6. ring'[c] = ring[c] /\ count'[c] = count[c]
      BY <1>t, <2>2, <2>3
    <2> QED BY <1>g, <2>1, <2>5, <2>6, ZenonT(60)
  <1>3. CASE ParkIfRequested(t) \/ Unparked(t)
    <2>1. UNCHANGED <<ring, count, workers, seen, sleepy>> /\ \E p : Goto(t, p)
      BY <1>3, Zenon DEF ParkIfRequested, Unparked, queues, spawns, waits
    <2> QED BY <1>g, <2>1, Zenon
  <1>4. CASE Decide(t) \/ Bind(t) \/ SpawnFails(t)
    <2>1. UNCHANGED <<ring, count, sleepy>> /\ \E p : Goto(t, p)
      BY <1>4, Zenon DEF Decide, Bind, SpawnFails, queues, waits
    <2>2. workers' = workers \/ \E x : workers' = [workers EXCEPT ![Cpu(t)] = x]
      BY <1>4, Zenon DEF Decide, Bind, SpawnFails
    <2>3. seen' = seen \/ \E x : seen' = [seen EXCEPT ![Cpu(t)] = x]
      BY <1>4, Zenon DEF Decide, Bind, SpawnFails, Tested
    <2>4. workers'[c] = workers[c] /\ seen'[c] = seen[c]
      BY <1>t, <2>2, <2>3
    <2> QED BY <1>g, <2>1, <2>4, Zenon
  <1>5. CASE Spawn(t)
    <2>1. UNCHANGED <<ring, count, workers, seen, sleepy>>
      BY <1>5, Spawns, Zenon
    <2>2. PICK u \in Fresh(Cpu(t)) : pc' = [pc EXCEPT ![u] = "head", ![t] = "bind"]
      BY <1>5, Zenon DEF Spawn
    <2>3. \A v \in Threads : Cpu(v) = c => pc'[v] = pc[v]
      BY <1>n, <2>2 DEF Fresh, ThreadTypes
    <2> QED BY <2>1, <2>3, Zenon
  <1> QED BY <1>1, <1>2, <1>3, <1>4, <1>5, ZenonT(60) DEF Thread

\* A worker that has started an item wakes the manager next.
LEMMA WorkerManaged ==
    ASSUME RingInv, ThreadTypes, Spawned, PoolInv, Enlisted, Managed, NEW t \in Threads, ~IsManager(t), Thread(t)
    PROVE  ManagedAt(Cpu(t))'
  <1>c. PICK c \in Cpus : c = Cpu(t)
    BY Homes, ZenonT(60)
  <1>m. <<c, 0>> \in Threads /\ <<c, 0>> # t /\ t \in Staff(c) /\ List(<<c, 0>>) = <<c, "manager">>
    <2>1. <<c, 0>> \in Threads /\ <<c, 0>> # t /\ List(<<c, 0>>) = <<c, "manager">>
      BY ManagerOf, ListOf, Zenon
    <2> QED BY <1>c, <2>1, Zenon DEF Staff
  <1>n. count[c] \in Nat /\ workers[c] \in Nat
    BY DEF PoolInv, PoolTypes
  <1>k. ASSUME NEW p, Goto(t, p), pc[t] # "notify", UNCHANGED <<cfg, src, aim, seen, workers>>,
               <<c, 0>> \in sleepy' => <<c, 0>> \in sleepy, ring'[c] # <<>> => ring[c] # <<>>,
               count'[c] >= workers[c] => count[c] >= workers[c]
        PROVE  ManagedAt(c)'
    <2>1. pc'[<<c, 0>>] = pc[<<c, 0>>] /\ \A u \in Threads : u # t => pc'[u] = pc[u]
      BY <1>m, <1>k, Goes, ZenonT(60)
    <2>2. Callers(c) \subseteq Callers(c)' /\ Notifiers(c) \subseteq Notifiers(c)'
      BY <1>k, <2>1, Zenon DEF Callers, Notifiers, Staff
    <2> QED BY <1>k, <2>1, <2>2, ManagedKept, ZenonT(60) DEF Managed
  <1>1. CASE ParkIfRequested(t) \/ Unparked(t) \/ TestPending(t) \/ Run(t)
    <2>1. /\ UNCHANGED <<cfg, src, aim, seen, workers, sleepy, ring, count>> /\ pc[t] # "notify" /\ \E p : Goto(t, p)
      BY <1>1 DEF ParkIfRequested, Unparked, TestPending, Run, calls, spawns, waits, queues
    <2> QED BY <1>c, <1>k, <2>1, ZenonT(60)
  <1>2. CASE Publish(t) \/ Recheck(t) \/ Resume(t)
    <2>1. /\ UNCHANGED <<cfg, src, aim, workers, ring, count>> /\ pc[t] # "notify"
      BY <1>2 DEF Publish, Recheck, Resume, calls, spawns, queues
    <2>2. UNCHANGED seen /\ \E p : Goto(t, p)
      BY <1>2, Zenon DEF Publish, Recheck, Resume, EndWait, Tested
    <2>3. sleepy' \subseteq sleepy \union {t}
      BY <1>2, Zenon DEF Publish, Recheck, Resume, EndWait
    <2> QED BY <1>c, <1>m, <1>k, <2>1, <2>2, <2>3, ZenonT(60)
  <1>3. CASE Pop(t)
    <2>1. /\ UNCHANGED <<cfg, src, aim, seen, workers, sleepy, count>> /\ pc[t] # "notify" /\ \E p : Goto(t, p)
      BY <1>3 DEF Pop, calls, spawns, waits
    <2>2. ring[c] # <<>> \/ UNCHANGED ring
      BY <1>c, <1>3, Zenon DEF Pop
    <2> QED BY <1>c, <1>k, <2>1, <2>2, Zenon
  <1>4. CASE End(t)
    <2>1. /\ UNCHANGED <<cfg, src, aim, seen, workers, sleepy, ring>> /\ pc[t] # "notify" /\ Goto(t, "pop")
          /\ count' = [count EXCEPT ![c] = count[c] - 1]
      BY <1>c, <1>4 DEF End, calls, spawns, waits
    <2>2. count'[c] >= workers[c] => count[c] >= workers[c]
      BY <1>n, <2>1 DEF PoolInv, PoolTypes
    <2> QED BY <1>c, <1>k, <2>1, <2>2, ZenonT(60)
  <1>5. CASE Begin(t)
    <2>1. UNCHANGED <<src, aim, seen, sleepy, ring>> /\ Goto(t, "notify")
      BY <1>5, Zenon DEF Begin, calls, waits
    <2>2. pc'[t] = "notify" /\ pc'[<<c, 0>>] = pc[<<c, 0>>]
      BY <1>m, <2>1, Goes, Zenon
    <2>3. t \in Notifiers(c)' /\ Callers(c)' = Callers(c)
      BY <1>m, <2>1, <2>2, Zenon DEF Notifiers, Staff, Callers
    <2>4. ManagedAt(c)
      BY Zenon DEF Managed
    <2>5. ManagedAt(c)'
      BY <2>1, <2>2, <2>3, <2>4, ZenonT(60) DEF ManagedAt
    <2> QED BY <1>c, <2>5, Zenon
  <1>6. CASE Notify(t)
    <2>1. WakeOne(<<c, "manager">>)
      BY <1>c, <1>6, Zenon DEF Notify
    <2>2. <<c, "manager">> \in Lists /\ sleepy \subseteq Threads
      BY DEF Lists, Kinds, Enlisted
    <2>3. <<c, 0>> \notin sleepy'
      <3>1. CASE \A u \in sleepy : List(u) # <<c, "manager">>
        BY <1>m, <2>1, <3>1, WakesOnly, Zenon
      <3>2. ASSUME NEW u \in sleepy, List(u) = <<c, "manager">>, sleepy' = sleepy \ {u} PROVE <<c, 0>> \notin sleepy'
        <4>1. u = <<c, 0>>
          BY <2>2, <3>2, ListOf, ZenonT(60)
        <4> QED BY <3>2, <4>1, Zenon
      <3> QED BY <2>1, <2>2, <3>1, <3>2, Woken, ZenonT(60)
    <2>4. ManagedAt(c)'
      BY <2>3, Zenon DEF ManagedAt
    <2> QED BY <1>c, <2>4, Zenon
  <1>7. ~(Sample(t) \/ Decide(t) \/ Spawn(t) \/ Bind(t) \/ SpawnFails(t))
    BY Zenon DEF Sample, Decide, Spawn, Bind, SpawnFails, Spawned
  <1> QED BY <1>1, <1>2, <1>3, <1>4, <1>5, <1>6, <1>7, Zenon DEF Thread, Wait, Worker

\* The manager goes to sleep on what it has read: nothing was pending, and what
\* has come since has a producer in its call; or a worker was free, and one that
\* takes an item since will notify; or the pool is at its limit.
LEMMA ManagerManaged ==
    ASSUME RingInv, ThreadTypes, Spawned, PoolInv, Enlisted, Asleep', Managed, NEW t \in Threads, IsManager(t), Thread(t)
    PROVE  ManagedAt(Cpu(t))'
  <1>c. PICK c \in Cpus : c = Cpu(t) /\ t = <<c, 0>>
    BY Homes, ZenonT(60)
  <1>p. \A p : Goto(t, p) => pc'[t] = p
    BY Goes, Zenon
  <1>k. ASSUME pc'[t] \notin {"recheck", "yield"} PROVE ManagedAt(c)'
    BY <1>c, <1>k, Zenon DEF Asleep, ManagedAt
  <1>1. CASE Publish(t)
    <2>1. pc[t] = "publish" /\ pc'[t] = "recheck" /\ UNCHANGED seen
      BY <1>1, <1>p, Zenon DEF Publish
    <2>2. seen[c] = {}
      BY <1>c, <2>1 DEF PoolInv, Sampled
    <2>3. seen'[c] # {0} /\ pc'[t] # "yield"
      BY <2>1, <2>2
    <2>4. ManagedAt(c)'
      BY <1>c, <2>3, Zenon DEF ManagedAt
    <2> QED BY <1>c, <2>4, Zenon
  <1>2. CASE Sample(t)
    <2>1. /\ UNCHANGED <<pc, ring, sleepy>> /\ seen' = [seen EXCEPT ![c] = {Len(ring[c])}]
          /\ pc[t] = "yield" => t \notin sleepy
      BY <1>c, <1>2, Zenon DEF Sample, queues, waits
    <2>2. seen'[c] = {Len(ring[c])} /\ (ring[c] # <<>> => Len(ring[c]) # 0)
      BY <2>1 DEF PoolInv, Sampled, RingInv, RingTypes
    <2>3. ring[c] # <<>> => seen'[c] # {0}
      BY <2>2
    <2>4. ManagedAt(c)'
      BY <1>c, <2>1, <2>3, Zenon DEF ManagedAt
    <2> QED BY <1>c, <2>4, Zenon
  <1>3. CASE Recheck(t) /\ ~Ready(t)
    <2>1. /\ pc[t] = "recheck" /\ pc'[t] = "yield" /\ seen[c] # {}
          /\ UNCHANGED <<cfg, src, aim, ring, sleepy, count, workers>>
      BY <1>c, <1>3, <1>p, Zenon DEF Recheck, CanTest, calls, queues, spawns
    <2>2. PICK p \in 0 .. cfg.cap : seen[c] = {p}
      BY <2>1, Zenon DEF PoolInv, Sampled
    <2>3. p \in Nat /\ count[c] \in Nat /\ workers[c] \in Nat /\ cfg.max[c] \in Nat /\ workers[c] <= cfg.max[c]
      <3>1. workers[c] + left[c] <= cfg.max[c] /\ left[c] \in Nat
        BY Zenon DEF PoolInv, PoolTypes, Counts
      <3>2. cfg.max[c] \in Nat /\ count[c] \in Nat /\ workers[c] \in Nat /\ cfg.cap \in Nat
        BY DEF PoolInv, PoolTypes, RingInv, Settings
      <3> QED BY <3>1, <3>2
    <2>4. Deficit(p, count[c], workers[c], cfg.max[c]) = 0
      BY <1>c, <1>3, <2>2, Zenon DEF Ready
    <2>5. p = 0 \/ count[c] < workers[c] \/ workers[c] = cfg.max[c]
      BY <2>3, <2>4, DeficitFits, ZenonT(60)
    <2>6. p = 0 \/ ~(count[c] >= workers[c] /\ workers[c] < cfg.max[c])
      BY <2>3, <2>5
    <2>7. Callers(c)' = Callers(c)
      BY <2>1, Zenon DEF Callers
    <2>8. p = 0 => seen[c] = {0}
      BY <2>2
    <2>9. ManagedAt(c)
      BY Zenon DEF Managed
    <2>10. ManagedAt(c)'
      BY <1>c, <2>1, <2>6, <2>7, <2>8, <2>9, ZenonT(60) DEF ManagedAt
    <2> QED BY <1>c, <2>10, Zenon
  <1>4. CASE Resume(t) \/ (Recheck(t) /\ Ready(t))
    <2>1. pc'[t] \in {"head", "publish"}
      BY <1>4, <1>p, Zenon DEF Resume, Recheck, EndWait
    <2>2. ManagedAt(c)'
      BY <1>k, <2>1
    <2> QED BY <1>c, <2>2, Zenon
  <1>5. CASE ParkIfRequested(t) \/ Unparked(t) \/ Decide(t) \/ Bind(t) \/ SpawnFails(t)
    <2>1. \E p \in {"parked", "test", "head", "publish", "spawn"} : Goto(t, p)
      BY <1>5, Zenon DEF ParkIfRequested, Unparked, Decide, Bind, SpawnFails
    <2>2. ManagedAt(c)'
      BY <1>k, <1>p, <2>1
    <2> QED BY <1>c, <2>2, Zenon
  <1>6. CASE Spawn(t)
    <2>1. ManagedAt(c)'
      BY <1>6, <1>k, Spawns
    <2> QED BY <1>c, <2>1, Zenon
  <1>7. ~Worker(t)
    BY Zenon DEF Worker, TestPending, Pop, Begin, Notify, Run, End, PoolInv, PoolTypes
  <1> QED BY <1>1, <1>2, <1>3, <1>4, <1>5, <1>6, <1>7, ZenonT(60) DEF Thread, Wait

LEMMA ThreadManaged ==
    ASSUME RingInv, ThreadTypes, Spawned, PoolInv, Enlisted, Asleep', Managed, NEW t \in Threads, Thread(t)
    PROVE  Managed'
  <1>1. ASSUME NEW c \in Cpus, c # Cpu(t) PROVE ManagedAt(c)'
    <2>1. /\ ring'[c] = ring[c] /\ count'[c] = count[c] /\ workers'[c] = workers[c] /\ seen'[c] = seen[c]
          /\ \A u \in Threads : Cpu(u) = c => pc'[u] = pc[u] /\ (u \in sleepy' <=> u \in sleepy)
      BY <1>1, ThreadElsewhere, Zenon
    <2>2. UNCHANGED <<src, aim>> /\ cfg'.max = cfg.max
      <3>1. CASE SpawnFails(t)
        BY <3>1, SettingsSame, Zenon DEF SpawnFails, calls
      <3>2. CASE Wait(t) \/ Worker(t)
        BY <3>2, Zenon DEF Wait, Publish, Sample, Recheck, Resume, Worker, TestPending, Pop, Begin, Notify, Run, End, calls
      <3>3. CASE ParkIfRequested(t) \/ Unparked(t) \/ Decide(t) \/ Spawn(t) \/ Bind(t)
        BY <3>3, Zenon DEF ParkIfRequested, Unparked, Decide, Spawn, Bind, calls
      <3> QED BY <3>1, <3>2, <3>3, Zenon DEF Thread
    <2>3. <<c, 0>> \in Threads /\ Cpu(<<c, 0>>) = c
      BY ManagerOf, Zenon
    <2>4. Callers(c) \subseteq Callers(c)' /\ Notifiers(c) \subseteq Notifiers(c)'
      BY <2>1, <2>2, Zenon DEF Callers, Notifiers, Staff
    <2> QED BY <2>1, <2>2, <2>3, <2>4, ManagedKept, ZenonT(60) DEF Managed
  <1>2. ManagedAt(Cpu(t))'
    BY WorkerManaged, ManagerManaged, Zenon
  <1> QED BY <1>1, <1>2, Homes, Zenon DEF Managed

-----------------------------------------------------------------------------
(* The CPU-down *)

\* What the stages leave alone.
LEMMA StageFrame ==
    ASSUME RingInv, Request \/ Stage
    PROVE  UNCHANGED <<pc, wait, count, workers, seen>> /\ sleepy' \subseteq sleepy /\ cfg'.max = cfg.max
  <1>1. CASE Request
    BY <1>1, SettingsSame, Zenon DEF Request, queues, spawns, waits
  <1>2. CASE Park
    BY <1>2, Zenon DEF Park, queues, spawns
  <1>3. CASE Parked \/ Rescan \/ Deactivate \/ EndGrace \/ Evacuate \/ Unpark
    BY <1>3, Zenon DEF Parked, Rescan, Deactivate, EndGrace, Evacuate, Unpark, queues, spawns, waits
  <1>4. CASE TakeHead \/ Evacuated \/ Moved \/ Restore \/ Check \/ Reopen
    BY <1>4, Zenon DEF TakeHead, Evacuated, Moved, Restore, Check, Reopen, queues, spawns, waits
  <1> QED BY <1>1, <1>2, <1>3, <1>4, Zenon DEF Stage

\* The pool is as well served as before where the ring has not grown and the
\* calls that concern it go on.
LEMMA StageServed ==
    ASSUME RingInv, RingTypes', Enlisted, Asleep, Matched, Managed, Request \/ Stage, NEW c \in Cpus,
           ring'[c] = <<>> \/ Len(ring'[c]) <= Len(ring[c]), ring'[c] # <<>> => ring[c] # <<>>,
           Wakers(c) \subseteq Wakers(c)', Callers(c) \subseteq Callers(c)'
    PROVE  MatchedAt(c)' /\ ManagedAt(c)'
  <1>1. UNCHANGED <<pc, wait, count, workers, seen>> /\ sleepy' \subseteq sleepy /\ cfg'.max = cfg.max
    BY StageFrame, Zenon
  <1>2. \A t \in Staff(c) : (Near(t) => Near(t)') /\ (Idle(t)' => Idle(t))
    BY <1>1, Zenon DEF Near, Idle
  <1>3. Notifiers(c) \subseteq Notifiers(c)'
    BY <1>1, Zenon DEF Notifiers, Staff
  <1>4. MatchedAt(c)'
    BY <1>2, MatchedKept, Zenon DEF Matched, RingInv
  <1>5. ManagedAt(c)'
    BY <1>1, <1>3, ManagedKept, Zenon DEF Managed
  <1> QED BY <1>4, <1>5

\* The head of a closed ring has no call in progress.
LEMMA TakeHeadServed ==
    ASSUME RingInv, RingTypes', ItemInv, Enlisted, Asleep, Matched, Managed, TakeHead
    PROVE  Matched' /\ Managed'
  <1>v. PICK v \in Cpus : v = Victim
    BY DEF RingInv, Settings, Victim
  <1>t. /\ src \in [Items -> Sources] /\ aim \in [Items -> Cpus] /\ RingTypes /\ ring[v] \in Seq(Items)
    BY Zenon DEF RingInv, CallTypes, RingTypes
  <1>1. down = "next" /\ ring[v] # <<>>
    BY <1>v, Zenon DEF TakeHead
  <1>2. PICK h \in Items : h = Head(ring[v])
    BY <1>t, <1>1, Ring, Zenon
  <1>3. /\ ring' = [ring EXCEPT ![v] = Tail(ring[v])] /\ src' = [src EXCEPT ![h] = "push"]
        /\ aim' = [aim EXCEPT ![h] = PlaceOn(v)]
    BY <1>v, <1>2, Zenon DEF TakeHead
  <1>4. h \in Elems(ring[v])
    <2>1. Elems(ring[v]) = Elems(Tail(ring[v])) \union {Head(ring[v])}
      BY <1>t, <1>1, TailElems
    <2> QED BY <1>2, <2>1, Zenon
  <1>5. h \notin Guarded
    <2>1. h \in Guarded => aim[h] = v
      BY <1>4, Zenon DEF ItemInv, HeldAccepted
    <2>2. h \in Guarded /\ aim[h] = v => down \notin Closed
      BY <1>v, Zenon DEF RingInv, Aimed
    <2>3. down \in Closed
      BY <1>1 DEF Closed
    <2> QED BY <2>1, <2>2, <2>3, Zenon
  <1>6. src[h] \notin {"wake", "manage"} /\ \A j \in Items : j # h => src'[j] = src[j] /\ aim'[j] = aim[j]
    BY <1>t, <1>3, <1>5 DEF Guarded
  <1>7. \A c \in Cpus : Wakers(c) \subseteq Wakers(c)' /\ Callers(c) \subseteq Callers(c)'
    BY <1>6 DEF Wakers, Callers
  <1>8. \A c \in Cpus : Len(ring'[c]) <= Len(ring[c]) /\ (ring'[c] # <<>> => ring[c] # <<>>)
    <2>1. Len(Tail(ring[v])) = Len(ring[v]) - 1 /\ Len(ring[v]) \in Nat
      BY <1>t, <1>1, Ring, Zenon
    <2>2. \A c \in Cpus : ring'[c] = IF c = v THEN Tail(ring[v]) ELSE ring[c]
      BY <1>t, <1>3 DEF RingTypes
    <2>3. \A c \in Cpus : Len(ring[c]) \in Nat /\ Len(ring[c]) <= Len(ring[c])
      BY <1>t DEF RingTypes
    <2>4. Len(Tail(ring[v])) <= Len(ring[v])
      BY <2>1
    <2> QED BY <1>1, <2>2, <2>3, <2>4, ZenonT(60)
  <1>9. \A c \in Cpus : MatchedAt(c)' /\ ManagedAt(c)'
    BY <1>7, <1>8, StageServed, ZenonT(60) DEF Stage
  <1> QED BY <1>9, Zenon DEF Matched, Managed

\* An item goes back to a ring whose threads are all parked.
LEMMA RestoreServed ==
    ASSUME RingInv, RingTypes', ParkInv, Enlisted, Asleep, Matched, Managed, Restore
    PROVE  Matched' /\ Managed'
  <1>v. PICK v \in Cpus : v = Victim
    BY DEF RingInv, Settings, Victim
  <1>t. /\ src \in [Items -> Sources] /\ RingTypes
    BY Zenon DEF RingInv, CallTypes
  <1>1. down = "move" /\ src[moving] = "push" /\ UNCHANGED aim
    BY Zenon DEF Restore
  <1>m. moving \in Items
    BY <1>1, Zenon DEF RingInv, DownTypes
  <1>2. ~Full(v)
    BY <1>v, <1>1, <1>t DEF RingInv, Room, Full, RingTypes, Settings
  <1>3. ring' = [ring EXCEPT ![v] = <<moving>> \o @] /\ src' = [src EXCEPT ![moving] = "queued"]
    BY <1>v, <1>2, ZenonT(60) DEF Restore
  <1>4. \A j \in Items : j # moving => src'[j] = src[j]
    BY <1>t, <1>3
  <1>5. \A c \in Cpus : Wakers(c) \subseteq Wakers(c)' /\ Callers(c) \subseteq Callers(c)'
    BY <1>1, <1>4 DEF Wakers, Callers
  <1>6. ASSUME NEW c \in Cpus, c # v PROVE MatchedAt(c)' /\ ManagedAt(c)'
    <2>1. ring'[c] = ring[c] /\ Len(ring'[c]) <= Len(ring[c])
      BY <1>t, <1>3, <1>6 DEF RingTypes
    <2> QED BY <1>5, <2>1, StageServed, ZenonT(60) DEF Stage
  <1>7. \A t \in Threads : Cpu(t) = v => pc[t] \in {"none", "parked"}
    <2>1. down \notin Open
      BY <1>1 DEF Open
    <2> QED BY <1>v, <2>1, ZenonT(60) DEF ParkInv, Visited, ParkOrder, Mine, Alive
  <1>8. UNCHANGED <<pc, sleepy>>
    BY Zenon DEF Restore, waits
  <1>9. MatchedAt(v)'
    <2>1. \A t \in Staff(v) : ~Idle(t)'
      BY <1>7, <1>8 DEF Idle, Staff
    <2> QED BY <2>1, Zenon DEF MatchedAt, Staff
  <1>10. ManagedAt(v)'
    <2>1. <<v, 0>> \in Threads /\ Cpu(<<v, 0>>) = v
      BY ThreadBound DEF Threads, Cpu
    <2>2. <<v, 0>> \notin sleepy'
      BY <1>7, <1>8, <2>1 DEF Asleep
    <2> QED BY <2>2, Zenon DEF ManagedAt
  <1> QED BY <1>6, <1>9, <1>10, ZenonT(60) DEF Matched, Managed

LEMMA StageServe ==
    ASSUME RingInv, RingTypes', ParkInv, ItemInv, ServeInv, Request \/ Stage
    PROVE  ServeInv'
  <1>t. Enlisted /\ Asleep /\ Matched /\ Managed
    BY Zenon DEF ServeInv
  <1>1. UNCHANGED <<pc, wait, count, workers, seen>> /\ sleepy' \subseteq sleepy /\ cfg'.max = cfg.max
    BY StageFrame, Zenon
  <1>2. Enlisted' /\ Asleep'
    BY <1>t, <1>1, StaleList, Zenon DEF Asleep
  <1>3. ASSUME UNCHANGED <<ring, src, aim>> PROVE Matched' /\ Managed'
    <2>1. \A c \in Cpus : Wakers(c) \subseteq Wakers(c)' /\ Callers(c) \subseteq Callers(c)'
      BY <1>3, Zenon DEF Wakers, Callers
    <2>2. \A c \in Cpus : Len(ring'[c]) <= Len(ring[c]) /\ (ring'[c] # <<>> => ring[c] # <<>>)
      BY <1>3 DEF RingInv, RingTypes
    <2>3. \A c \in Cpus : MatchedAt(c)' /\ ManagedAt(c)'
      BY <1>t, <2>1, <2>2, StageServed, Zenon
    <2> QED BY <2>3, Zenon DEF Matched, Managed
  <1>4. CASE Request \/ Park \/ Parked \/ Rescan \/ Deactivate \/ EndGrace \/ Evacuate
    <2>1. UNCHANGED <<ring, src, aim>>
      BY <1>4, Zenon DEF Request, Park, Parked, Rescan, Deactivate, EndGrace, Evacuate, queues, calls
    <2> QED BY <1>2, <1>t, <1>3, <2>1, ZenonT(60) DEF ServeInv
  <1>5. CASE Evacuated \/ Moved \/ Check \/ Reopen \/ Unpark
    <2>1. UNCHANGED <<ring, src, aim>>
      BY <1>5, Zenon DEF Evacuated, Moved, Check, Reopen, Unpark, queues, calls
    <2> QED BY <1>2, <1>3, <2>1, ZenonT(60) DEF ServeInv
  <1>6. CASE TakeHead
    BY <1>t, <1>2, <1>6, TakeHeadServed, ZenonT(60) DEF ServeInv
  <1>7. CASE Restore
    BY <1>t, <1>2, <1>7, RestoreServed, Zenon DEF ServeInv
  <1> QED BY <1>4, <1>5, <1>6, <1>7, ZenonT(60) DEF Stage

-----------------------------------------------------------------------------
(* The properties *)

\* A pool whose ring holds items at the start has just been woken for them.
LEMMA ServeInit ==
    ASSUME Init
    PROVE  ServeInv
  <1>1. /\ cfg \in Settings /\ ring = cfg.rings /\ sleepy = Resting /\ seen = [c \in Cpus |-> {}]
        /\ pc = [t \in Threads |-> IF t \in First THEN "yield" ELSE "none"]
        /\ wait = [l \in Lists |->
                     LET t == <<l[1], IF l[2] = "manager" THEN 0 ELSE 1>> IN IF t \in Resting THEN <<t>> ELSE <<>>]
    BY Filled, Zenon DEF Init, Lists
  <1>2. Resting \subseteq First /\ First \subseteq Threads /\ \A t \in Resting : ring[Cpu(t)] = <<>>
    BY <1>1, Zenon DEF Resting, First
  <1>3. \A t \in First : t = <<t[1], IF List(t)[2] = "manager" THEN 0 ELSE 1>> /\ t[1] = List(t)[1] /\ List(t) \in Lists
    <2> SUFFICES ASSUME NEW t \in First
                 PROVE  t = <<t[1], IF List(t)[2] = "manager" THEN 0 ELSE 1>> /\ t[1] = List(t)[1] /\ List(t) \in Lists
      BY Zenon
    <2>1. t \in Threads /\ t = <<t[1], t[2]>> /\ t[1] \in Cpus /\ t[2] \in 0 .. MaxThreads /\ t[2] <= 1
      BY <1>2 DEF First, Threads
    <2>2. t[2] = 0 \/ t[2] = 1
      BY <2>1, ThreadBound
    <2> QED BY <2>1, <2>2, ListOf DEF List, IsManager, Cpu
  <1>4. Enlisted
    <2>1. ASSUME NEW l \in Lists
          PROVE  /\ wait[l] \in Seq(Threads) /\ Distinct(wait[l]) /\ \A t \in Elems(wait[l]) : List(t) = l
                 /\ \A t \in Resting : List(t) = l => t \in Elems(wait[l])
      <3> DEFINE u == <<l[1], IF l[2] = "manager" THEN 0 ELSE 1>>
      <3>1. wait[l] = IF u \in Resting THEN <<u>> ELSE <<>>
        BY <1>1
      <3>2. \A t \in Resting : List(t) = l => t = u
        BY <1>2, <1>3
      <3>3. List(u) = l
        <4>1. PICK c \in Cpus, k \in Kinds : l = <<c, k>>
          BY DEF Lists
        <4>2. CASE k = "manager"
          BY <4>1, <4>2 DEF List, Cpu, IsManager
        <4>3. CASE k = "worker"
          BY <4>1, <4>3 DEF List, Cpu, IsManager
        <4> QED BY <4>2, <4>3 DEF Kinds
      <3> HIDE DEF u
      <3>4. CASE u \in Resting
        <4>1. wait[l] = <<u>> /\ u \in Threads
          BY <1>2, <3>1, <3>4, Zenon
        <4>2. <<u>> \in Seq(Threads) /\ Distinct(<<u>>) /\ Elems(<<u>>) = {u}
          BY <4>1 DEF Distinct, Elems
        <4> QED BY <3>2, <3>3, <4>1, <4>2, ZenonT(60)
      <3>5. CASE u \notin Resting
        <4>1. wait[l] = <<>>
          BY <3>1, <3>5, Zenon
        <4>2. <<>> \in Seq(Threads) /\ Distinct(<<>>) /\ Elems(<<>>) = {}
          BY DEF Distinct, Elems
        <4> QED BY <3>2, <3>5, <4>1, <4>2, Zenon
      <3> QED BY <3>4, <3>5
    <2>2. wait \in [Lists -> Seq(Threads)]
      BY <1>1, <2>1, Zenon
    <2>3. \A t \in sleepy : t \in Elems(wait[List(t)])
      BY <1>1, <1>2, <1>3, <2>1, ZenonT(60)
    <2> QED BY <1>1, <1>2, <2>1, <2>2, <2>3, ZenonT(60) DEF Enlisted
  <1>5. Asleep
    BY <1>1, <1>2 DEF Asleep
  <1>6. \A t \in Threads : t \in sleepy => ring[Cpu(t)] = <<>>
    BY <1>1, <1>2, Zenon
  <1>7. Matched
    <2> SUFFICES ASSUME NEW c \in Cpus PROVE MatchedAt(c)
      BY Zenon DEF Matched
    <2>1. CASE ring[c] = <<>>
      <3>1. Len(ring[c]) = 0
        BY <2>1
      <3>2. Len(ring[c]) <= Cardinality(Nearby(c)) + Cardinality(Wakers(c))
        BY <3>1, Sizes
      <3> QED BY <3>2, Zenon DEF MatchedAt
    <2>2. CASE ring[c] # <<>>
      BY <1>6, <2>2, Zenon DEF MatchedAt, Idle, Staff
    <2> QED BY <2>1, <2>2
  <1>8. Managed
    <2>1. \A c \in Cpus : <<c, 0>> \in Threads /\ Cpu(<<c, 0>>) = c
      BY ThreadBound DEF Threads, Cpu
    <2> QED BY <1>6, <2>1, Zenon DEF Managed, ManagedAt
  <1> QED BY <1>4, <1>5, <1>7, <1>8, ZenonT(60) DEF ServeInv

LEMMA ServeNext ==
    ASSUME RingInv, ParkInv, ItemInv, PoolInv, ServeInv, [Next]_vars
    PROVE  ServeInv'
  <1>t. /\ RingTypes /\ ThreadTypes /\ Spawned /\ PoolTypes /\ Enlisted /\ Asleep /\ Matched /\ Managed
    BY Zenon DEF RingInv, ParkInv, PoolInv, ServeInv
  <1>r. RingTypes'
    BY RingNext, Zenon DEF RingInv
  <1>1. ASSUME NEW i \in Items, Producer(i) PROVE ServeInv'
    <2>1. Matched' /\ Managed'
      BY <1>t, <1>r, <1>1, ProducerMatched, ProducerManaged, ZenonT(60)
    <2>2. Enlisted' /\ sleepy' \subseteq sleepy /\ UNCHANGED pc
      <3>1. CASE Submit(i) \/ Push(i) \/ Refuse(i)
        BY <1>t, <3>1, StaleList, ZenonT(60) DEF Submit, Push, Refuse, waits
      <3>2. CASE WakeWorker(i) \/ WakeManager(i)
        <4>1. UNCHANGED pc /\ aim[i] \in Cpus /\ \E k \in Kinds : WakeOne(<<aim[i], k>>)
          BY <3>2 DEF WakeWorker, WakeManager, Kinds, RingInv, CallTypes
        <4>2. PICK k \in Kinds : WakeOne(<<aim[i], k>>)
          BY <4>1
        <4>3. <<aim[i], k>> \in Lists
          BY <4>1 DEF Lists
        <4> QED BY <1>t, <4>1, <4>2, <4>3, Woken, WakesOnly, ZenonT(60)
      <3> QED BY <1>1, <3>1, <3>2, Zenon DEF Producer
    <2>3. Asleep'
      BY <1>t, <2>2, Zenon DEF Asleep
    <2> QED BY <2>1, <2>2, <2>3, Zenon DEF ServeInv
  <1>2. ASSUME NEW t \in Threads, Thread(t) PROVE ServeInv'
    <2>1. Enlisted' /\ Asleep'
      BY <1>t, <1>2, ThreadList, Zenon
    <2>2. Matched' /\ Managed'
      BY <1>t, <1>r, <1>2, <2>1, ThreadMatched, ThreadManaged, ZenonT(60)
    <2> QED BY <2>1, <2>2, Zenon DEF ServeInv
  <1>3. CASE Request \/ Stage
    BY <1>r, <1>3, StageServe, Zenon
  <1>4. CASE UNCHANGED vars
    <2>1. UNCHANGED <<cfg, ring, count, workers, wait, pc, seen, sleepy, src, aim>>
      BY <1>4, Zenon DEF vars, queues, spawns, waits, calls
    <2>2. Enlisted' /\ Asleep'
      BY <1>t, <2>1, StaleList, Zenon DEF Asleep
    <2>3. \A t \in Threads : (Near(t) <=> Near(t)') /\ (Idle(t)' <=> Idle(t))
      BY <2>1, Zenon DEF Near, Idle
    <2>4. \A c \in Cpus : Nearby(c)' = Nearby(c) /\ Wakers(c)' = Wakers(c) /\ Callers(c)' = Callers(c) /\ Notifiers(c)' = Notifiers(c)
      BY <2>1, <2>3, Zenon DEF Nearby, Staff, Wakers, Callers, Notifiers
    <2>5. Matched'
      BY <1>t, <2>1, <2>3, <2>4, Zenon DEF Matched, MatchedAt, Staff
    <2>6. Managed'
      BY <1>t, <2>1, <2>4, Zenon DEF Managed, ManagedAt
    <2> QED BY <2>2, <2>5, <2>6, Zenon DEF ServeInv
  <1> QED BY <1>1, <1>2, <1>3, <1>4, ZenonT(60) DEF Next

\* All of the invariants together.
PoolsInv == RingInv /\ ParkInv /\ ItemInv /\ PoolInv /\ ServeInv /\ grace \subseteq Items /\ broken \in BOOLEAN

LEMMA PoolsInvariant == Spec => []PoolsInv
  <1>1. Init => PoolsInv
    <2>1. Init => grace \subseteq Items /\ broken \in BOOLEAN
      BY Zenon DEF Init
    <2> QED BY <2>1, RingInit, ParkInit, ItemInit, PoolInit, ServeInit, ZenonT(60) DEF PoolsInv
  <1>2. PoolsInv /\ [Next]_vars => PoolsInv'
    <2> SUFFICES ASSUME PoolsInv, [Next]_vars PROVE PoolsInv'
      BY Zenon
    <2>0. RingInv /\ ParkInv /\ ItemInv /\ PoolInv /\ ServeInv /\ grace \subseteq Items /\ broken \in BOOLEAN
      BY Zenon DEF PoolsInv
    <2>1. RingInv' /\ ParkInv'
      BY <2>0, RingNext, ParkNext, Zenon
    <2>2. ItemInv'
      BY <2>0, <2>1, ItemNext, Zenon DEF ParkInv
    <2>3. PoolInv' /\ ServeInv'
      BY <2>0, PoolNext, ServeNext, Zenon
    <2>4. grace' \subseteq Items /\ broken' \in BOOLEAN
      <3>1. CASE \E i \in Items : Producer(i)
        BY <2>0, <3>1, Zenon DEF Producer, Submit, Push, Refuse, WakeWorker, WakeManager, mask, coord
      <3>2. ASSUME NEW t \in Threads, Thread(t) PROVE grace' \subseteq Items /\ broken' \in BOOLEAN
        <4>1. CASE Wait(t) \/ Worker(t)
          BY <2>0, <4>1, Zenon DEF Wait, Publish, Sample, Recheck, Resume, Worker, TestPending, Pop, Begin, Notify, Run, End, mask, coord
        <4>2. CASE ParkIfRequested(t) \/ Unparked(t) \/ Decide(t) \/ Spawn(t) \/ Bind(t) \/ SpawnFails(t)
          BY <2>0, <4>2, Zenon DEF ParkIfRequested, Unparked, Decide, Spawn, Bind, SpawnFails, mask, coord
        <4> QED BY <3>2, <4>1, <4>2, Zenon DEF Thread
      <3>3. CASE Request \/ Park \/ Parked \/ Rescan \/ Deactivate \/ EndGrace \/ Evacuate
        BY <2>0, <3>3, Zenon DEF Request, Park, Parked, Rescan, Deactivate, CloseMask, Guarded, EndGrace, Evacuate, mask, coord
      <3>4. CASE TakeHead \/ Evacuated \/ Moved \/ Restore \/ Check \/ Reopen \/ Unpark
        BY <2>0, <3>4, Zenon DEF TakeHead, Evacuated, Moved, Restore, Check, Reopen, Unpark, mask, coord
      <3>5. CASE UNCHANGED vars
        BY <2>0, <3>5, Zenon DEF vars, mask, coord
      <3> QED BY <3>1, <3>2, <3>3, <3>4, <3>5, ZenonT(60) DEF Next, Stage
    <2> QED BY <2>1, <2>2, <2>3, <2>4, Zenon DEF PoolsInv
  <1> QED BY <1>1, <1>2, PTL DEF Spec

\* Type correctness for every number of CPUs, threads and items: WORKERS never
\* exceeds what MAX_WORKERS_PER_CPU allows the pool, also while its manager
\* spawns the rest of a deficit, ACTIVE is the number of the pool's threads that
\* execute an item, and only living threads sleep, are bound or are visited.
THEOREM TypeCorrect == Spec => []TypeOK
  <1>1. PoolsInv => TypeOK
    <2> SUFFICES ASSUME PoolsInv PROVE TypeOK
      OBVIOUS
    <2>t. /\ RingInv /\ ParkInv /\ ItemInv /\ PoolInv /\ ServeInv /\ grace \subseteq Items /\ broken \in BOOLEAN
          /\ RingTypes /\ CallTypes /\ DownTypes /\ ~broken /\ ThreadTypes /\ ItemTypes /\ PoolTypes /\ Counts /\ Sampled
          /\ Enlisted /\ Asleep /\ cfg \in Settings
      BY Zenon DEF PoolsInv, RingInv, ParkInv, ItemInv, PoolInv, ServeInv
    <2>1. cfg.downs \in Nat /\ cfg.fails \in Nat /\ cfg.cap \in Nat /\ \A c \in Cpus : cfg.max[c] \in Nat
      BY <2>t DEF Settings
    <2>2. ASSUME NEW c \in Cpus
          PROVE  /\ ring[c] \in Seq(Items) /\ Len(ring[c]) <= cfg.cap
                 /\ workers[c] \in 1 .. cfg.max[c]
                 /\ count[c] = Cardinality({t \in Threads : Cpu(t) = c /\ pc[t] \in {"notify", "run", "end"}})
                 /\ seen[c] \in SUBSET (0 .. cfg.cap) /\ left[c] \in 0 .. cfg.max[c]
      <3>1. ring[c] \in Seq(Items) /\ Len(ring[c]) <= cfg.cap
        BY <2>t, Zenon DEF RingTypes
      <3>2. workers[c] \in Nat /\ left[c] \in Nat /\ workers[c] >= 1 /\ workers[c] + left[c] <= cfg.max[c]
        BY <2>t, Zenon DEF PoolTypes, Counts
      <3>3. workers[c] \in 1 .. cfg.max[c] /\ left[c] \in 0 .. cfg.max[c]
        BY <2>1, <3>2
      <3>4. count[c] = Cardinality({t \in Threads : Cpu(t) = c /\ pc[t] \in {"notify", "run", "end"}})
        BY <2>t, Zenon DEF Counts, Busy
      <3>5. seen[c] \in SUBSET (0 .. cfg.cap)
        BY <2>t, Zenon DEF Sampled
      <3> QED BY <3>1, <3>3, <3>4, <3>5, ZenonT(60)
    <2>3. \A t \in Threads : hand[t] \in Items \union {NoItem}
      BY <2>t, Zenon DEF ItemTypes
    <2>4. wait \in [Cpus \X Kinds -> Seq(Threads)] /\ {park, parked} \subseteq [Threads -> BOOLEAN]
      BY <2>t, Zenon DEF Enlisted, Lists, ThreadTypes
    <2>5. sleepy \union pinned \union scan \subseteq {t \in Threads : Alive(t)}
      <3>1. sleepy \subseteq {t \in Threads : Alive(t)}
        BY <2>t DEF Enlisted, Asleep, Alive
      <3>2. pinned \subseteq {t \in Threads : Alive(t)} /\ scan \subseteq pinned
        BY <2>t, Zenon DEF ThreadTypes, Bound
      <3> QED BY <3>1, <3>2, Zenon
    <2>6. ran \in [Items -> Nat] /\ aim \in [Items -> Cpus]
          /\ src \in [Items -> {"absent", "new", "push", "wake", "manage", "queued", "refused"}]
      <3>1. ran \in [Items -> Nat]
        BY <2>t DEF ItemTypes
      <3> QED BY <2>t, <3>1, Zenon DEF CallTypes, Sources
    <2>7. /\ active \subseteq Cpus /\ Boot \in active /\ grace \subseteq Items /\ moving \in Items \union {NoItem}
          /\ {again, broken} \subseteq BOOLEAN
      BY <2>t, Zenon DEF DownTypes, ThreadTypes
    <2> QED BY <2>1, <2>2, <2>3, <2>4, <2>5, <2>6, <2>7, ZenonT(60) DEF TypeOK
  <1> QED BY <1>1, PoolsInvariant, PTL

\* Pending work of an open pool is never stranded, whatever the pools, their
\* limits, the items and the CPU-downs are: when no call that queued it is open
\* and every thread of the pool is asleep or blocked in an item, the pool runs as
\* many items as it may have workers (queue_work_on wakes a worker and then the
\* manager, drain's begin notifies the manager, worker_deficit).
THEOREM Served == Spec => []WorkServed
  <1>1. PoolsInv => WorkServed
    <2> SUFFICES ASSUME PoolsInv, NEW c \in active, ring[c] # <<>>, \A i \in Guarded : aim[i] # c,
                        \A t \in Threads : Cpu(t) = c /\ Alive(t) => Blocked(t)
                 PROVE  count[c] = cfg.max[c]
      BY Zenon DEF WorkServed
    <2>t. /\ RingTypes /\ DownTypes /\ Spawned /\ ThreadTypes /\ PoolTypes /\ Counts /\ Matched /\ Managed /\ cfg \in Settings
      BY Zenon DEF PoolsInv, RingInv, ParkInv, PoolInv, ServeInv
    <2>c. c \in Cpus /\ <<c, 0>> \in Threads /\ Cpu(<<c, 0>>) = c /\ IsManager(<<c, 0>>)
      BY <2>t, ThreadBound DEF DownTypes, Threads, Cpu, IsManager
    <2>1. \A t \in Threads : Cpu(t) = c /\ Alive(t) => Idle(t) \/ pc[t] = "run"
      BY Zenon DEF Blocked, Idle
    <2>2. Nearby(c) = {} /\ Wakers(c) = {} /\ Callers(c) = {} /\ Notifiers(c) = {}
      <3>1. \A t \in Staff(c) : ~Near(t) /\ pc[t] # "notify"
        BY <2>1 DEF Staff, Near, Idle, Alive
      <3>2. \A i \in Items : src[i] \in {"wake", "manage"} => aim[i] # c
        BY DEF Guarded
      <3> QED BY <3>1, <3>2 DEF Nearby, Notifiers, Wakers, Callers
    <2>3. \A t \in Staff(c) : ~Idle(t)
      <3>1. Len(ring[c]) \in Nat /\ Len(ring[c]) # 0
        BY <2>t, <2>c DEF RingTypes
      <3>2. ~(Len(ring[c]) <= Cardinality(Nearby(c)) + Cardinality(Wakers(c)))
        BY <2>2, <3>1, FS_EmptySet
      <3> QED BY <2>t, <2>c, <3>2, Zenon DEF Matched, MatchedAt
    <2>4. \A t \in Staff(c) : Alive(t) => pc[t] = "run"
      BY <2>1, <2>3, Zenon DEF Staff
    <2>5. pc[<<c, 0>>] # "bind"
      BY <2>1, <2>c DEF Idle, Alive
    <2>6. Busy(c) = Staff(c) \cap pinned
      <3>1. ASSUME NEW t \in Busy(c) PROVE t \in Staff(c) \cap pinned
        <4>1. t \in Threads /\ Cpu(t) = c /\ pc[t] \in {"notify", "run", "end"}
          BY Zenon DEF Busy
        <4>2. Alive(t) /\ ~IsManager(t)
          BY <2>t, <4>1 DEF Alive, PoolTypes
        <4> QED BY <2>t, <2>5, <4>1, <4>2, Zenon DEF Spawned, Staff
      <3>2. ASSUME NEW t \in Staff(c) \cap pinned PROVE t \in Busy(c)
        BY <2>t, <2>4, Zenon DEF Busy, Staff, ThreadTypes
      <3> QED BY <3>1, <3>2, Zenon
    <2>7. /\ count[c] = workers[c] /\ workers[c] \in Nat /\ workers[c] >= 1 /\ workers[c] + left[c] <= cfg.max[c] /\ left[c] \in Nat
          /\ cfg.max[c] \in Nat
      <3>1. cfg.max[c] \in Nat
        BY <2>t, <2>c DEF Settings
      <3> QED BY <2>t, <2>c, <2>6, <3>1, ZenonT(60) DEF Counts, PoolTypes
    <2>8. CASE ~Alive(<<c, 0>>)
      <3>1. cfg.max[c] = 1
        BY <2>t, <2>c, <2>8, ZenonT(60) DEF PoolTypes, Alive
      <3> QED BY <2>7, <3>1
    <2>9. CASE Alive(<<c, 0>>)
      <3>1. Idle(<<c, 0>>)
        BY <2>t, <2>1, <2>c, <2>9, ZenonT(60) DEF PoolTypes
      <3>2. count[c] >= workers[c]
        BY <2>7
      <3>3. ~(workers[c] < cfg.max[c])
        BY <2>t, <2>c, <2>2, <3>1, <3>2, ZenonT(60) DEF Managed, ManagedAt, Idle
      <3> QED BY <2>7, <3>3
    <2> QED BY <2>8, <2>9
  <1> QED BY <1>1, PoolsInvariant, PTL
=============================================================================
