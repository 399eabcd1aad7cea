---------------------------- MODULE MCWorkqueue ----------------------------
(* Small pools for TLC. *)
EXTENDS Workqueue, TLC

CONSTANTS a, b, d

Cfg(rings, items, target, after, cap, max, downs, fails) ==
    [rings |-> rings, items |-> items, target |-> target, after |-> after, cap |-> cap,
     max |-> max, managed |-> {c \in Cpus : max[c] > 1},
     downs |-> downs, fails |-> fails, victim |-> 1]

Nothing == [i \in Items |-> {}]
All(c) == [i \in Items |-> c]
Pair(x, y) == (0 :> x) @@ (1 :> y)

\* One pool; a sleeps until b has run, and one spawn fails.
Blocking == Cfg(Pair(<<>>, <<>>), {a, b}, All(0), (a :> {b}) @@ (b :> {}) @@ (d :> {}), 2, Pair(2, 1), 0, 1)

\* The victim's pool grows while it is taken down.
Growing == Cfg(Pair(<<>>, <<a, b, d>>), {}, All(1), (a :> {b}) @@ (b :> {}) @@ (d :> {}), 3, Pair(1, 3), 1, 1)

\* The survivor's ring is full while a late producer still sees the victim.
Crowded == Cfg(Pair(<<b>>, <<a>>), {d}, (a :> 1) @@ (b :> 0) @@ (d :> 1), Nothing, 1, Pair(1, 1), 1, 0)

PoolConfigs == {Blocking, Growing, Crowded}
=============================================================================
