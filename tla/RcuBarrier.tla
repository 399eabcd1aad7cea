----------------------------- MODULE RcuBarrier -----------------------------
(***************************************************************************)
(* The proof that rcu_barrier returns only after every callback committed  *)
(* before its flip has run.  A callback and the marker behind it travel    *)
(* through an incoming list, the drainer's hands, the waiting list and the *)
(* running batch: the invariant says in which of them each of the two can  *)
(* be, and that the marker is never in front.                              *)
(***************************************************************************)
EXTENDS RcuProofs

-----------------------------------------------------------------------------
(* rcu_barrier.  What the lists hold and in which order: In(s) is the set of *)
(* entries, Ahead says that every y in s has an x in front of it, and Late   *)
(* that it has one behind it (the incoming lists are newest first).          *)

In(s) == {s[i] : i \in DOMAIN s}
Ahead(s, x, y) == \A j \in DOMAIN s : s[j] = y => \E i \in DOMAIN s : i < j /\ s[i] = x
Late(s, x, y) == \A j \in DOMAIN s : s[j] = y => \E i \in DOMAIN s : j < i /\ s[i] = x

\* n is at least the number of elements of S, and 0 only if S is empty.
Covers(n, S) == n \in Nat /\ \E f \in [1 .. n -> Cbs] : \A x \in S : \E i \in 1 .. n : f[i] = x

LEMMA CoversAdd ==
    ASSUME NEW n, NEW S, NEW x \in Cbs, Covers(n, S)
    PROVE  Covers(n + 1, S \union {x})
  <1>0. n \in Nat /\ n + 1 \in Nat
    BY DEF Covers
  <1>1. PICK f \in [1 .. n -> Cbs] : \A y \in S : \E i \in 1 .. n : f[i] = y
    BY Zenon DEF Covers
  <1> DEFINE e == [i \in 1 .. (n + 1) |-> IF i = n + 1 THEN x ELSE f[i]]
  <1>2. e \in [1 .. (n + 1) -> Cbs]
    BY <1>0
  <1>3. \A i \in 1 .. n : i \in 1 .. (n + 1) /\ e[i] = f[i]
    BY <1>0
  <1>4. n + 1 \in 1 .. (n + 1) /\ e[n + 1] = x
    BY <1>0
  <1> HIDE DEF e
  <1>5. \A y \in S \union {x} : \E i \in 1 .. (n + 1) : e[i] = y
    BY Zenon, <1>1, <1>3, <1>4
  <1> QED BY Zenon, <1>0, <1>2, <1>5 DEF Covers

LEMMA CoversRemove ==
    ASSUME NEW n, NEW S, NEW x \in S, Covers(n, S)
    PROVE  Covers(n - 1, S \ {x})
  <1>0. n \in Nat
    BY DEF Covers
  <1>1. PICK f \in [1 .. n -> Cbs] : \A y \in S : \E i \in 1 .. n : f[i] = y
    BY Zenon DEF Covers
  <1>2. PICK k \in 1 .. n : f[k] = x
    BY Zenon, <1>1
  <1>3. n - 1 \in Nat
    BY <1>0, <1>2
  <1> DEFINE e == [i \in 1 .. (n - 1) |-> IF i < k THEN f[i] ELSE f[i + 1]]
  <1>4. e \in [1 .. (n - 1) -> Cbs]
    BY <1>0, <1>2
  <1>5. ASSUME NEW i \in 1 .. n, i # k
        PROVE  \E j \in 1 .. (n - 1) : e[j] = f[i]
    <2>1. CASE i < k
      <3>1. i \in 1 .. (n - 1) /\ e[i] = f[i]
        BY <1>0, <1>2, <2>1
      <3> QED BY Zenon, <3>1
    <2>2. CASE k < i
      <3>1. i - 1 \in 1 .. (n - 1) /\ e[i - 1] = f[i]
        BY <1>0, <1>2, <2>2
      <3> QED BY Zenon, <3>1
    <2> QED BY <1>0, <1>2, <1>5, <2>1, <2>2
  <1> HIDE DEF e
  <1>6. \A y \in S \ {x} : \E j \in 1 .. (n - 1) : e[j] = y
    BY Zenon, <1>1, <1>2, <1>5
  <1> QED BY Zenon, <1>3, <1>4, <1>6 DEF Covers

LEMMA CoversNone ==
    ASSUME NEW S, Covers(0, S)
    PROVE  S = {}
  BY DEF Covers

LEMMA CoversSame ==
    ASSUME NEW n, NEW S, NEW T, Covers(n, S), T \subseteq S
    PROVE  Covers(n, T)
  BY Zenon DEF Covers

\* <<z>> \o s: a push onto an incoming list.
LEMMA PushList ==
    ASSUME NEW T, NEW s \in Seq(T), NEW z \in T
    PROVE  /\ In(<<z>> \o s) = In(s) \union {z}
           /\ \A x, y : Late(s, x, y) /\ (z # y \/ x \in In(s)) => Late(<<z>> \o s, x, y)
  <1> DEFINE r == <<z>> \o s
  <1>1. /\ r[1] = z /\ DOMAIN r = 1 .. (Len(s) + 1) /\ DOMAIN s = 1 .. Len(s) /\ Len(s) \in Nat
        /\ \A i \in 1 .. Len(s) : r[i + 1] = s[i]
        /\ \A i \in 2 .. (Len(s) + 1) : r[i] = s[i - 1]
    OBVIOUS
  <1> HIDE DEF r
  <1>2. In(r) = In(s) \union {z}
    BY <1>1 DEF In
  <1>3. ASSUME NEW x, NEW y, Late(s, x, y), z # y \/ x \in In(s)
        PROVE  Late(r, x, y)
    <2> SUFFICES ASSUME NEW j \in DOMAIN r, r[j] = y
                 PROVE  \E i \in DOMAIN r : j < i /\ r[i] = x
      BY Zenon DEF Late
    <2>1. CASE j = 1
      <3>1. PICK i \in DOMAIN s : s[i] = x
        BY Zenon, <1>1, <1>3, <2>1 DEF In
      <3>2. i + 1 \in DOMAIN r /\ r[i + 1] = x /\ j < i + 1
        BY <1>1, <2>1, <3>1
      <3> QED BY Zenon, <3>2
    <2>2. CASE j # 1
      <3>1. j - 1 \in DOMAIN s /\ s[j - 1] = y
        BY <1>1, <2>2
      <3>2. PICK i \in DOMAIN s : j - 1 < i /\ s[i] = x
        BY Zenon, <1>3, <3>1 DEF Late
      <3>3. i + 1 \in DOMAIN r /\ r[i + 1] = x /\ j < i + 1
        BY <1>1, <3>2
      <3> QED BY Zenon, <3>3
    <2> QED BY Zenon, <2>1, <2>2
  <1> QED BY Zenon, <1>2, <1>3 DEF r

LEMMA AppendList ==
    ASSUME NEW T, NEW s \in Seq(T), NEW z \in T
    PROVE  /\ In(Append(s, z)) = In(s) \union {z}
           /\ \A x, y : Ahead(s, x, y) /\ (z # y \/ x \in In(s)) => Ahead(Append(s, z), x, y)
  <1> DEFINE r == Append(s, z)
  <1>1. /\ r[Len(s) + 1] = z /\ DOMAIN r = 1 .. (Len(s) + 1) /\ DOMAIN s = 1 .. Len(s) /\ Len(s) \in Nat
        /\ \A i \in 1 .. Len(s) : r[i] = s[i]
    OBVIOUS
  <1> HIDE DEF r
  <1>2. In(r) = In(s) \union {z}
    BY <1>1 DEF In
  <1>3. ASSUME NEW x, NEW y, Ahead(s, x, y), z # y \/ x \in In(s)
        PROVE  Ahead(r, x, y)
    BY <1>1, <1>3 DEF Ahead, In
  <1> QED BY Zenon, <1>2, <1>3 DEF r

LEMMA TailList ==
    ASSUME NEW T, NEW s \in Seq(T), s # <<>>
    PROVE  /\ Head(s) \in T
           /\ In(s) = In(Tail(s)) \union {Head(s)}
           /\ \A x, y : Ahead(s, x, y) => Head(s) # y /\ (Head(s) # x => Ahead(Tail(s), x, y))
  <1> DEFINE r == Tail(s)
  <1>1. /\ Head(s) = s[1] /\ Len(s) \in Nat \ {0} /\ DOMAIN s = 1 .. Len(s)
        /\ DOMAIN r = 1 .. (Len(s) - 1) /\ Head(s) \in T
        /\ \A i \in 1 .. (Len(s) - 1) : r[i] = s[i + 1]
        /\ \A i \in 2 .. Len(s) : r[i - 1] = s[i]
    OBVIOUS
  <1> HIDE DEF r
  <1>2. In(s) = In(r) \union {s[1]}
    <2>1. ASSUME NEW j \in DOMAIN s PROVE s[j] \in In(r) \union {s[1]}
      <3>1. j = 1 \/ (j - 1 \in DOMAIN r /\ r[j - 1] = s[j])
        BY <1>1
      <3> QED BY Zenon, <3>1 DEF In
    <2>2. ASSUME NEW j \in DOMAIN r PROVE r[j] \in In(s)
      <3>1. j + 1 \in DOMAIN s /\ r[j] = s[j + 1]
        BY <1>1
      <3> QED BY Zenon, <3>1 DEF In
    <2>3. s[1] \in In(s)
      BY <1>1 DEF In
    <2> QED BY Zenon, <2>1, <2>2, <2>3 DEF In
  <1>3. ASSUME NEW x, NEW y, Ahead(s, x, y)
        PROVE  s[1] # y /\ (s[1] # x => Ahead(r, x, y))
    <2>1. s[1] # y
      BY <1>1, <1>3 DEF Ahead
    <2>2. ASSUME s[1] # x PROVE Ahead(r, x, y)
      <3> SUFFICES ASSUME NEW j \in DOMAIN r, r[j] = y
                   PROVE  \E i \in DOMAIN r : i < j /\ r[i] = x
        BY Zenon DEF Ahead
      <3>1. j + 1 \in DOMAIN s /\ s[j + 1] = y
        BY <1>1
      <3>2. PICK i \in DOMAIN s : i < j + 1 /\ s[i] = x
        BY Zenon, <1>3, <3>1 DEF Ahead
      <3>3. i - 1 \in DOMAIN r /\ r[i - 1] = x /\ i - 1 < j
        BY <1>1, <2>2, <3>2
      <3> QED BY Zenon, <3>3
    <2> QED BY <2>1, <2>2
  <1> QED BY Zenon, <1>1, <1>2, <1>3 DEF r

\* drain_incoming appends the detached list oldest first.
LEMMA JoinList ==
    ASSUME NEW T, NEW s \in Seq(T), NEW t \in Seq(T)
    PROVE  /\ In(s \o Reverse(t)) = In(s) \union In(t)
           /\ \A x, y : Ahead(s, x, y) /\ (x \in In(s) \/ Late(t, x, y)) => Ahead(s \o Reverse(t), x, y)
  <1> DEFINE r == s \o Reverse(t)
             m == Len(s)
             n == Len(t)
  <1>0. m \in Nat /\ n \in Nat /\ DOMAIN s = 1 .. m /\ DOMAIN t = 1 .. n
    OBVIOUS
  <1>1. Reverse(t) \in Seq(T) /\ Len(Reverse(t)) = n /\ \A i \in 1 .. n : Reverse(t)[i] = t[n - i + 1]
    BY DEF Reverse
  <1>2. /\ DOMAIN r = 1 .. (m + n)
        /\ \A i \in 1 .. m : r[i] = s[i]
        /\ \A i \in 1 .. n : r[m + i] = Reverse(t)[i]
    BY <1>1
  <1> HIDE DEF r, m, n
  <1>3. /\ \A i \in 1 .. n : r[m + n - i + 1] = t[i]
        /\ \A i \in 1 .. (m + n) : i > m => r[i] = t[m + n - i + 1]
    <2>1. ASSUME NEW i \in 1 .. n PROVE r[m + n - i + 1] = t[i]
      <3>1. n - i + 1 \in 1 .. n /\ m + (n - i + 1) = m + n - i + 1 /\ n - (n - i + 1) + 1 = i
        BY <1>0
      <3>2. r[m + (n - i + 1)] = Reverse(t)[n - i + 1] /\ Reverse(t)[n - i + 1] = t[n - (n - i + 1) + 1]
        BY Zenon, <1>1, <1>2, <3>1
      <3> QED BY Zenon, <3>1, <3>2
    <2>2. ASSUME NEW i \in 1 .. (m + n), i > m PROVE r[i] = t[m + n - i + 1]
      <3>1. i - m \in 1 .. n /\ m + (i - m) = i /\ n - (i - m) + 1 = m + n - i + 1
        BY <1>0, <2>2
      <3>2. r[m + (i - m)] = Reverse(t)[i - m] /\ Reverse(t)[i - m] = t[n - (i - m) + 1]
        BY Zenon, <1>1, <1>2, <3>1
      <3> QED BY Zenon, <3>1, <3>2
    <2> QED BY <2>1, <2>2
  <1>4. In(r) = In(s) \union In(t)
    <2>1. ASSUME NEW j \in DOMAIN r PROVE r[j] \in In(s) \union In(t)
      <3>1. CASE j > m
        <4>1. m + n - j + 1 \in DOMAIN t /\ r[j] = t[m + n - j + 1]
          BY <1>0, <1>2, <1>3, <3>1
        <4> QED BY Zenon, <4>1 DEF In
      <3>2. CASE ~(j > m)
        <4>1. j \in DOMAIN s /\ r[j] = s[j]
          BY <1>0, <1>2, <3>2
        <4> QED BY Zenon, <4>1 DEF In
      <3> QED BY Zenon, <3>1, <3>2
    <2>2. ASSUME NEW j \in DOMAIN s PROVE s[j] \in In(r)
      BY <1>0, <1>2 DEF In
    <2>3. ASSUME NEW j \in DOMAIN t PROVE t[j] \in In(r)
      <3>1. m + n - j + 1 \in DOMAIN r /\ r[m + n - j + 1] = t[j]
        BY <1>0, <1>2, <1>3
      <3> QED BY Zenon, <3>1 DEF In
    <2> QED BY Zenon, <2>1, <2>2, <2>3 DEF In
  <1>5. ASSUME NEW x, NEW y, Ahead(s, x, y), x \in In(s) \/ Late(t, x, y)
        PROVE  Ahead(r, x, y)
    <2> SUFFICES ASSUME NEW j \in DOMAIN r, r[j] = y
                 PROVE  \E i \in DOMAIN r : i < j /\ r[i] = x
      BY Zenon DEF Ahead
    <2>1. CASE ~(j > m)
      <3>1. j \in DOMAIN s /\ s[j] = y
        BY <1>0, <1>2, <2>1
      <3>2. PICK i \in DOMAIN s : i < j /\ s[i] = x
        BY Zenon, <1>5, <3>1 DEF Ahead
      <3>3. i \in DOMAIN r /\ r[i] = x
        BY <1>0, <1>2, <3>2
      <3> QED BY Zenon, <3>2, <3>3
    <2>2. CASE j > m /\ x \in In(s)
      <3>1. PICK i \in DOMAIN s : s[i] = x
        BY Zenon, <2>2 DEF In
      <3>2. i \in DOMAIN r /\ r[i] = x /\ i < j
        BY <1>0, <1>2, <2>2, <3>1
      <3> QED BY Zenon, <3>2
    <2>3. CASE j > m /\ Late(t, x, y)
      <3>1. m + n - j + 1 \in DOMAIN t /\ t[m + n - j + 1] = y
        BY <1>0, <1>2, <1>3, <2>3
      <3>2. PICK i \in DOMAIN t : m + n - j + 1 < i /\ t[i] = x
        BY Zenon, <2>3, <3>1 DEF Late
      <3>3. m + n - i + 1 \in DOMAIN r /\ r[m + n - i + 1] = x /\ m + n - i + 1 < j
        BY <1>0, <1>2, <1>3, <3>2
      <3> QED BY Zenon, <3>3
    <2> QED BY Zenon, <1>5, <2>1, <2>2, <2>3
  <1> QED BY Zenon, <1>4, <1>5 DEF r

\* Where a barrier is: outside, holding BARRIER_ACTIVE before the flip, sealing
\* the flipped generation, waiting for its marker, past the wait.
Outside == {"start", "retry", "contended", "recheck", "await"}
Ready   == {"install", "flip"}
Sealing == {"seal", "mark", "push"}
Waits   == {"installed", "loop", "qs", "epoch", "drain", "draining", "drained", "wait"}
Left    == {"notify", "done"}
Holding == Ready \union Sealing \union Waits \union {"release"}
Marked  == Waits \union Left \union {"release"}

Batch == In(waiting) \union In(drain.scan)
Lists == In(incoming[0]) \union In(incoming[1])

\* The producers inside the section that INCOMING[g].publishing counts.
Section(g) ==
    {x \in Cbs : pc[x] \in {"recheck", "push", "withdraw", "retire"} /\ picked[x] = g}

\* BARRIER_ACTIVE admits one barrier at a time.
OneHolder == \A b, d \in Barriers :
    pc[b] \in Holding => barrierActive /\ (pc[d] \in Holding => d = b)

Counted == \A g \in {0, 1} : Covers(publishing[g], Section(g))

\* A producer that passed the recheck publishes in the open generation, or in
\* the one whose barrier still waits for publishing to reach zero.
Committed ==
    /\ \A x \in Cbs : pc[x] \in {"push", "retire"} =>
          picked[x] = generation \/ \E b \in Barriers : pc[b] = "seal" /\ picked[b] = picked[x]
    /\ \A b \in Barriers : pc[b] \in Sealing => picked[b] = 1 - generation

SealInv == OneHolder /\ Counted /\ Committed

\* A published callback is in a list or has run; a marker is in no list and has
\* not run before it is pushed, and is in its own generation's list at most
\* until a drainer takes that list.
Placed ==
    /\ \A x \in Cbs : /\ pc[x] \in {"retire", "queued"} => x \in invoked \union Batch \union Lists
                      /\ x \in Batch \union Lists => pc[x] \in {"retire", "queued"}
    /\ \A b \in Barriers :
          /\ b \in Batch \union Lists \union invoked => pc[b] \in Marked
          /\ \A g \in {0, 1} : b \in In(incoming[g]) => picked[b] = g /\ b \notin Batch \union invoked
          /\ pc[b] \in Left \union {"release"} => b \in invoked

\* The closed generation's list is empty unless its marker is due or in it.
SealedEmpty == incoming[1 - generation] = <<>>
    \/ \E b \in Barriers : pc[b] \in Sealing \/ b \in In(incoming[1 - generation])

\* While callbacks run, what went back to waiting is not due; otherwise no
\* vector is being walked.
Scanned ==
    /\ drain.by = NoOne => drain.at = "out"
    /\ IF drain.at = "run" THEN \A y \in In(waiting) : ~Due(y) ELSE drain.scan = <<>>

\* A marker's target is no smaller than the targets it must follow.
Targets ==
    /\ \A x \in Cbs : target[x] <= gpSeq + 2
    /\ \A b \in Barriers : \A x \in before[b] :
          /\ pc[x] \in {"push", "retire", "queued"}
          /\ pc[b] \in Marked \union {"push"} => target[x] <= target[b]

PlaceInv == Placed /\ SealedEmpty /\ Scanned /\ Targets

\* A callback x that barrier b must follow and that has not run: before the
\* marker is pushed it is where the marker will come after it; afterwards it is
\* ahead of the marker in the vector or list that holds the marker.
Behind(b, x) ==
    /\ pc[b] \in Sealing =>
          \/ x \in Batch \union In(incoming[picked[b]])
          \/ pc[b] = "seal" /\ pc[x] = "push" /\ picked[x] = picked[b]
    /\ Ahead(waiting, x, b)
    /\ x \in In(waiting) \/ Ahead(drain.scan, x, b)
    /\ \A g \in {0, 1} : x \in Batch \/ Late(incoming[g], x, b)

OrderInv == \A b \in Barriers : /\ \A x \in before[b] \ invoked : Behind(b, x)
                                /\ b \in invoked => before[b] \subseteq invoked

Kin(p, q) == p = q \/ \E R \in {Outside, Ready, Waits, Left} : p \in R /\ q \in R

\* A step that keeps every list, and every barrier in its region, keeps the
\* three invariants.
LEMMA KinSame ==
    ASSUME NEW p, NEW q, Kin(p, q)
    PROVE  /\ (p \in Holding) = (q \in Holding) /\ (p \in Sealing) = (q \in Sealing)
           /\ (p \in Marked) = (q \in Marked) /\ (p = "seal") = (q = "seal")
           /\ (p \in Left \union {"release"}) = (q \in Left \union {"release"})
           /\ (p \in Marked \union {"push"}) = (q \in Marked \union {"push"})
  BY DEF Kin, Holding, Sealing, Marked, Left, Ready, Waits, Outside

LEMMA BarrierFrame ==
    ASSUME TypeOK, SealInv, PlaceInv, OrderInv, Scanned',
           \A x \in Cbs : pc'[x] = pc[x] /\ target'[x] = target[x],
           \A b \in Barriers : Kin(pc'[b], pc[b]) /\ target'[b] = target[b],
           UNCHANGED <<picked, publishing, generation, barrierActive, incoming, waiting, invoked,
                       before>>,
           drain'.scan = drain.scan, gpSeq' \in {gpSeq, gpSeq + 1}
    PROVE  SealInv' /\ PlaceInv' /\ OrderInv'
  <1>1. \A b \in Barriers :
           /\ (pc'[b] \in Holding) = (pc[b] \in Holding) /\ (pc'[b] \in Sealing) = (pc[b] \in Sealing)
           /\ (pc'[b] \in Marked) = (pc[b] \in Marked) /\ (pc'[b] = "seal") = (pc[b] = "seal")
           /\ (pc'[b] \in Left \union {"release"}) = (pc[b] \in Left \union {"release"})
           /\ (pc'[b] \in Marked \union {"push"}) = (pc[b] \in Marked \union {"push"})
    BY KinSame
  <1>2. Batch' = Batch /\ Lists' = Lists /\ \A g : Section(g)' = Section(g)
    BY Zenon DEF Batch, Lists, Section
  <1>3. OneHolder' /\ Committed'
    BY ZenonT(60), <1>1 DEF SealInv, OneHolder, Committed
  <1>4. Counted'
    BY Zenon, <1>2 DEF SealInv, Counted
  <1>5. Placed' /\ SealedEmpty'
    BY Zenon, <1>1, <1>2 DEF PlaceInv, Placed, SealedEmpty
  <1>6. Targets'
    <2>1. ASSUME NEW x \in Cbs PROVE target'[x] <= gpSeq' + 2
      BY Disjoint DEF TypeOK, PlaceInv, Targets
    <2>2. \A b \in Barriers : \A x \in before[b] : x \in Cbs
      BY DEF TypeOK
    <2> QED BY Zenon, <1>1, <2>1, <2>2 DEF PlaceInv, Targets
  <1>8. OrderInv'
    <2>1. ASSUME NEW b \in Barriers, NEW x \in before[b] \ invoked
          PROVE  Behind(b, x)'
      <3>1. x \in Cbs /\ Behind(b, x)
        BY Zenon DEF OrderInv, TypeOK
      <3> QED BY Zenon, <1>1, <1>2, <3>1 DEF Behind
    <2> QED BY Zenon, <2>1 DEF OrderInv
  <1> QED BY Zenon, <1>3, <1>4, <1>5, <1>6, <1>8 DEF SealInv, PlaceInv

\* While a drainer is in no other vector, or in the same one, nothing becomes
\* due in waiting.
LEMMA ScanSame ==
    ASSUME TypeOK, Scanned, waiting' = waiting, drain'.scan = drain.scan,
           drain'.by = NoOne => drain'.at = "out",
           drain'.at = "run" <=> drain.at = "run",
           drain.at = "run" => gpSeq' = gpSeq,
           \A y \in Items : target'[y] = target[y]
    PROVE  Scanned'
  <1>1. \A y \in In(waiting) : y \in Items
    BY DEF In, TypeOK
  <1> QED BY Zenon, <1>1 DEF Scanned, Due

\* What a producer's step leaves alone.
LEMMA ProducerKeeps ==
    ASSUME TypeOK, NEW x \in Cbs, Producer(x)
    PROVE  /\ x \notin Barriers /\ x \in Actors /\ x \in Items
           /\ \A b \in Barriers : pc'[b] = pc[b] /\ picked'[b] = picked[b] /\ target'[b] = target[b]
           /\ \A y \in Cbs : y # x => pc'[y] = pc[y] /\ picked'[y] = picked[y] /\ target'[y] = target[y]
           /\ UNCHANGED <<generation, barrierActive, waiting, drain, invoked, before, gpSeq>>
  <1>1. x \notin Barriers /\ x \in Actors /\ x \in Items
    BY RcuAssumption DEF Actors, Items, Callers
  <1>2. /\ \A a \in Actors : a # x => pc'[a] = pc[a] /\ target'[a] = target[a]
        /\ \A a \in Items : a # x => picked'[a] = picked[a]
    BY ZenonT(60) DEF TypeOK, Producer, Unlink, CallRcu, SelectGeneration, Announce, RecheckGeneration,
       Push, Retire, Goto
  <1>3. UNCHANGED <<generation, barrierActive, waiting, drain, invoked, before, gpSeq>>
    BY Zenon DEF Producer, stateVars, gpVars
  <1> QED BY Zenon, <1>1, <1>2, <1>3 DEF Actors, Items, Callers

\* Only Announce enters the counted section and only Retire leaves it.
LEMMA ProducerCounted ==
    ASSUME TypeOK, NEW x \in Cbs, Producer(x), Counted
    PROVE  Counted'
  <1>0. x \in Actors /\ x \in Items /\ x \in DOMAIN pc /\ x \in DOMAIN picked /\ picked[x] \in {0, 1}
    BY ProducerKeeps DEF TypeOK
  <1>1. ASSUME NEW g \in {0, 1} PROVE Covers(publishing'[g], Section(g)')
    <2>0. Covers(publishing[g], Section(g)) /\ g \in DOMAIN publishing
      BY DEF Counted, TypeOK
    <2>1. \A y \in Cbs : y # x => (y \in Section(g)' <=> y \in Section(g))
      BY Zenon, ProducerKeeps DEF Section
    <2>2. Section(g)' \subseteq Cbs /\ Section(g) \subseteq Cbs
      BY Zenon DEF Section
    <2>3. CASE Announce(x) /\ g = picked[x]
      <3>1. publishing'[g] = publishing[g] + 1
        BY Zenon, <2>0, <2>3 DEF Announce
      <3>2. Section(g)' \subseteq Section(g) \union {x}
        BY Zenon, <2>1, <2>2
      <3>3. Covers(publishing[g] + 1, Section(g) \union {x})
        BY Zenon, <2>0, CoversAdd
      <3> QED BY Zenon, <3>1, <3>2, <3>3, CoversSame
    <2>4. CASE Retire(x) /\ g = picked[x]
      <3>1. publishing'[g] = publishing[g] - 1
        BY Zenon, <2>0, <2>4 DEF Retire
      <3>2. x \in Section(g) /\ x \notin Section(g)'
        BY <1>0, <2>4 DEF Retire, Goto, Section
      <3>3. Section(g)' \subseteq Section(g) \ {x}
        BY Zenon, <2>1, <2>2, <3>2
      <3>4. Covers(publishing[g] - 1, Section(g) \ {x})
        BY Zenon, <2>0, <3>2, CoversRemove
      <3> QED BY Zenon, <3>1, <3>3, <3>4, CoversSame
    <2>5. CASE ~(Announce(x) /\ g = picked[x]) /\ ~(Retire(x) /\ g = picked[x])
      <3>1. publishing'[g] = publishing[g]
        BY ZenonT(60), <1>0, <2>0, <2>5 DEF Producer, Unlink, CallRcu, SelectGeneration, Announce,
           RecheckGeneration, Push, Retire, TypeOK
      <3>2. x \in Section(g)' => x \in Section(g)
        BY <1>0, <2>5 DEF Producer, Unlink, CallRcu, SelectGeneration, Announce,
           RecheckGeneration, Push, Retire, Goto, Section
      <3>3. Section(g)' \subseteq Section(g)
        BY Zenon, <2>1, <2>2, <3>2
      <3> QED BY Zenon, <2>0, <3>1, <3>3, CoversSame
    <2> QED BY Zenon, <2>3, <2>4, <2>5
  <1> QED BY Zenon, <1>1 DEF Counted

LEMMA ProducerSeal ==
    ASSUME TypeOK, NEW x \in Cbs, Producer(x), SealInv
    PROVE  SealInv'
  <1>0. /\ \A b \in Barriers : pc'[b] = pc[b] /\ picked'[b] = picked[b]
        /\ \A y \in Cbs : y # x => pc'[y] = pc[y] /\ picked'[y] = picked[y]
        /\ generation' = generation /\ barrierActive' = barrierActive
    BY ProducerKeeps
  <1>1. OneHolder'
    BY Zenon, <1>0 DEF SealInv, OneHolder
  <1>2. Counted'
    BY Zenon, ProducerCounted DEF SealInv
  <1>3. pc'[x] \in {"push", "retire"} =>
           picked'[x] = picked[x] /\ (pc[x] \in {"push", "retire"} \/ picked[x] = generation)
    <2>1. x \in DOMAIN pc /\ x \in DOMAIN picked
      BY Zenon, ProducerKeeps DEF TypeOK
    <2> QED BY <2>1 DEF Producer, Unlink, CallRcu, SelectGeneration, Announce, RecheckGeneration,
           Push, Retire, Goto
  <1>4. Committed'
    <2>1. ASSUME NEW y \in Cbs, pc'[y] \in {"push", "retire"}
          PROVE  \/ picked'[y] = generation'
                 \/ \E b \in Barriers : pc'[b] = "seal" /\ picked'[b] = picked'[y]
      <3>1. picked'[y] = picked[y] /\ (pc[y] \in {"push", "retire"} \/ picked[y] = generation)
        BY Zenon, <1>0, <1>3, <2>1
      <3> QED BY ZenonT(60), <1>0, <3>1 DEF SealInv, Committed
    <2> QED BY Zenon, <1>0, <2>1 DEF SealInv, Committed
  <1> QED BY ZenonT(60), <1>1, <1>2, <1>4 DEF SealInv

\* Up to the recheck, and when it retires, a producer touches no list.
LEMMA ProducerQuiet ==
    ASSUME TypeOK, NEW x \in Cbs, Producer(x), PlaceInv, OrderInv,
           pc[x] # "push", incoming' = incoming,
           pc'[x] \in {"retire", "queued"} <=> pc[x] \in {"retire", "queued"},
           pc[x] \in {"retire", "queued"} => target'[x] = target[x],
           target'[x] <= gpSeq + 2
    PROVE  PlaceInv' /\ OrderInv'
  <1>1. Batch' = Batch /\ Lists' = Lists
    BY Zenon, ProducerKeeps DEF Batch, Lists
  <1>2. Placed' /\ SealedEmpty'
    BY ZenonT(60), <1>1, ProducerKeeps DEF PlaceInv, Placed, SealedEmpty
  <1>3. \A b \in Barriers : x \in before[b] => pc[x] \in {"retire", "queued"}
    BY Zenon DEF PlaceInv, Targets
  <1>4. Targets'
    <2>1. ASSUME NEW b \in Barriers, NEW y \in before[b]
          PROVE  y \in Cbs /\ pc'[y] \in {"push", "retire", "queued"} /\ target'[y] = target[y]
      <3>1. y \in Cbs
        BY DEF TypeOK
      <3>2. CASE y = x
        BY Zenon, <1>3, <3>1, <3>2
      <3>3. CASE y # x
        BY Zenon, <3>1, <3>3, ProducerKeeps DEF PlaceInv, Targets
      <3> QED BY Zenon, <3>2, <3>3
    <2> QED BY Zenon, <2>1, ProducerKeeps DEF PlaceInv, Targets
  <1>5. Scanned'
    <2>1. ASSUME NEW y \in In(waiting) PROVE target'[y] = target[y]
      <3>1. y \in Items
        BY DEF In, TypeOK
      <3>2. y = x => pc[x] \in {"retire", "queued"}
        BY Zenon DEF PlaceInv, Placed, Batch
      <3> QED BY Zenon, <3>1, <3>2, ProducerKeeps DEF Items
    <2> QED BY ZenonT(60), <2>1, ProducerKeeps DEF PlaceInv, Scanned, Due
  <1>6. OrderInv'
    <2>1. ASSUME NEW b \in Barriers, NEW y \in before[b] \ invoked
          PROVE  Behind(b, y)'
      <3>1. y \in Cbs /\ Behind(b, y)
        BY DEF OrderInv, TypeOK
      <3> QED BY Zenon, <1>1, <3>1, ProducerKeeps DEF Behind
    <2> QED BY Zenon, <2>1, ProducerKeeps DEF OrderInv
  <1> QED BY Zenon, <1>2, <1>4, <1>5, <1>6 DEF PlaceInv

\* A producer's push: in the generation it announced, in front of the list.
LEMMA ProducerPush ==
    ASSUME TypeOK, NEW x \in Cbs, Producer(x), Push(x), SealInv, PlaceInv, OrderInv
    PROVE  PlaceInv' /\ OrderInv'
  <1>0. /\ x \notin Barriers /\ x \in Actors /\ x \in Items
        /\ \A b \in Barriers : pc'[b] = pc[b] /\ picked'[b] = picked[b] /\ target'[b] = target[b]
        /\ \A y \in Cbs : y # x => pc'[y] = pc[y] /\ picked'[y] = picked[y] /\ target'[y] = target[y]
        /\ generation' = generation /\ waiting' = waiting /\ drain' = drain
        /\ invoked' = invoked /\ before' = before /\ gpSeq' = gpSeq
    BY ProducerKeeps, Zenon
  <1>1. /\ pc[x] = "push" /\ pc'[x] = "retire" /\ target' = target /\ picked' = picked
        /\ picked[x] \in {0, 1}
    BY <1>0, Zenon DEF Push, Goto, TypeOK
  <1> DEFINE h == picked[x]
  <1>2. /\ \A g \in {0, 1} : g # h => incoming'[g] = incoming[g]
        /\ incoming'[h] = <<x>> \o incoming[h] /\ incoming[h] \in Seq(Items)
    BY <1>1, ZenonT(60) DEF Push, PushIncoming, TypeOK
  <1>3. In(incoming'[h]) = In(incoming[h]) \union {x}
    BY <1>0, <1>2, PushList
  <1>4. \A b \in Barriers : \A y : Late(incoming[h], y, b) => Late(incoming'[h], y, b)
    BY <1>0, <1>2, PushList
  <1> HIDE DEF h
  <1>5. /\ \A g \in {0, 1} : g # h => In(incoming'[g]) = In(incoming[g])
        /\ \A g \in {0, 1} : In(incoming[g]) \subseteq In(incoming'[g])
        /\ \A g \in {0, 1} : In(incoming'[g]) \subseteq In(incoming[g]) \union {x}
    BY Zenon, <1>2, <1>3
  <1>6. Batch' = Batch /\ Lists' = Lists \union {x} /\ h \in {0, 1}
    <2>1. Batch' = Batch
      BY Zenon, <1>0 DEF Batch
    <2>2. h \in {0, 1}
      BY Zenon, <1>1 DEF h
    <2>3. Lists' = Lists \union {x}
      BY <2>2, <1>3, <1>5 DEF Lists
    <2> QED BY <2>1, <2>2, <2>3
  <1>7. Placed'
    <2>1. ASSUME NEW y \in Cbs
          PROVE  /\ pc'[y] \in {"retire", "queued"} => y \in invoked' \union Batch' \union Lists'
                 /\ y \in Batch' \union Lists' => pc'[y] \in {"retire", "queued"}
      <3>1. CASE y = x
        BY Zenon, <1>1, <1>6, <3>1
      <3>2. CASE y # x
        BY Zenon, <1>0, <1>6, <3>2 DEF PlaceInv, Placed
      <3> QED BY Zenon, <3>1, <3>2
    <2>2. ASSUME NEW b \in Barriers
          PROVE  /\ b \in Batch' \union Lists' \union invoked' => pc'[b] \in Marked
                 /\ \A g \in {0, 1} : b \in In(incoming'[g]) =>
                       picked'[b] = g /\ b \notin Batch' \union invoked'
                 /\ pc'[b] \in Left \union {"release"} => b \in invoked'
      <3>1. b # x /\ (b \in Lists' => b \in Lists)
            /\ \A g \in {0, 1} : b \in In(incoming'[g]) => b \in In(incoming[g])
        BY Zenon, <1>0, <1>5, <1>6
      <3> QED BY Zenon, <1>0, <1>1, <1>6, <3>1 DEF PlaceInv, Placed
    <2> QED BY Zenon, <2>1, <2>2 DEF Placed
  <1>8. SealedEmpty'
    <2>0. 1 - generation \in {0, 1} /\ generation \in {0, 1}
      BY DEF TypeOK
    <2>1. CASE h = 1 - generation
      <3>1. picked[x] # generation
        BY <2>0, <2>1 DEF h
      <3>2. \E b \in Barriers : pc[b] = "seal"
        BY Zenon, <1>1, <3>1 DEF SealInv, Committed
      <3> QED BY Zenon, <1>0, <3>2 DEF SealedEmpty, Sealing
    <2>2. CASE h # 1 - generation
      BY Zenon, <1>0, <1>2, <2>0, <2>2 DEF PlaceInv, SealedEmpty
    <2> QED BY Zenon, <2>1, <2>2
  <1>9. Scanned'
    BY Zenon, <1>0, <1>1 DEF PlaceInv, Scanned, Due
  <1>10. Targets'
    <2>1. ASSUME NEW b \in Barriers, NEW y \in before[b]
          PROVE  pc'[y] \in {"push", "retire", "queued"}
      <3>1. y \in Cbs
        BY DEF TypeOK
      <3> QED BY Zenon, <1>0, <1>1, <3>1 DEF PlaceInv, Targets
    <2> QED BY Zenon, <1>0, <1>1, <2>1 DEF PlaceInv, Targets
  <1>11. OrderInv'
    <2>1. ASSUME NEW b \in Barriers, NEW y \in before[b] \ invoked
          PROVE  Behind(b, y)'
      <3>1. y \in Cbs /\ Behind(b, y) /\ picked[b] \in {0, 1}
        BY DEF OrderInv, TypeOK, Items
      <3>2. ASSUME NEW g \in {0, 1} PROVE y \in Batch' \/ Late(incoming'[g], y, b)
        BY Zenon, <1>2, <1>4, <1>6, <3>1 DEF Behind
      <3>3. ASSUME pc'[b] \in Sealing
            PROVE  \/ y \in Batch' \union In(incoming'[picked'[b]])
                   \/ pc'[b] = "seal" /\ pc'[y] = "push" /\ picked'[y] = picked'[b]
        <4>1. \/ y \in Batch \union In(incoming[picked[b]])
              \/ pc[b] = "seal" /\ pc[y] = "push" /\ picked[y] = picked[b]
          BY Zenon, <1>0, <3>1, <3>3 DEF Behind
        <4>2. CASE y \in Batch \union In(incoming[picked[b]])
          BY Zenon, <1>1, <1>5, <1>6, <3>1, <4>2
        <4>3. CASE y # x /\ pc[b] = "seal" /\ pc[y] = "push" /\ picked[y] = picked[b]
          BY Zenon, <1>0, <3>1, <4>3
        <4>4. CASE y = x /\ picked[y] = picked[b]
          BY Zenon, <1>1, <1>3, <4>4 DEF h
        <4> QED BY Zenon, <4>1, <4>2, <4>3, <4>4
      <3> QED BY Zenon, <1>0, <3>1, <3>2, <3>3 DEF Behind
    <2> QED BY Zenon, <1>0, <2>1 DEF OrderInv
  <1> QED BY ZenonT(60), <1>7, <1>8, <1>9, <1>10, <1>11 DEF PlaceInv

LEMMA ProducerBarrier ==
    ASSUME TypeOK, NEW x \in Cbs, Producer(x), SealInv, PlaceInv, OrderInv
    PROVE  SealInv' /\ PlaceInv' /\ OrderInv'
  <1>1. CASE Push(x)
    BY Zenon, <1>1, ProducerPush, ProducerSeal
  <1>2. CASE ~Push(x)
    <2>1. x \in DOMAIN pc /\ x \in DOMAIN target /\ target[x] \in Nat /\ gpSeq \in Nat
          /\ target[x] <= gpSeq + 2
      BY ProducerKeeps, Zenon DEF TypeOK, PlaceInv, Targets
    <2>2. pc[x] # "push" /\ incoming' = incoming
      BY Zenon, <1>2, <2>1 DEF Producer, Unlink, CallRcu, SelectGeneration, Announce,
         RecheckGeneration, Push, Retire, Goto
    <2>3. pc'[x] \in {"retire", "queued"} <=> pc[x] \in {"retire", "queued"}
      BY <1>2, <2>1, ZenonT(60) DEF Producer, Unlink, CallRcu, SelectGeneration, Announce,
         RecheckGeneration, Push, Retire, Goto
    <2>4. /\ pc[x] \in {"retire", "queued"} => target'[x] = target[x]
          /\ target'[x] = target[x] \/ target'[x] = gpSeq + 2
      BY <1>2, <2>1 DEF Producer, Unlink, CallRcu, SelectGeneration, Announce,
         RecheckGeneration, Push, Retire, Goto
    <2>5. target'[x] <= gpSeq + 2
      BY <2>1, <2>4
    <2> QED BY Zenon, <2>2, <2>3, <2>4, <2>5, ProducerQuiet, ProducerSeal
  <1> QED BY Zenon, <1>1, <1>2

-----------------------------------------------------------------------------
(* The drainer *)

\* drain_incoming moves a list behind the waiting vector, oldest first.
LEMMA DrainIncomingBarrier ==
    ASSUME TypeOK, SealInv, PlaceInv, OrderInv, NEW g \in {0, 1}, DrainIncoming(g),
           drain.at # "run", drain'.at # "run", drain'.by = drain.by, drain'.scan = drain.scan,
           drain.at # "out",
           UNCHANGED <<pc, picked, publishing, generation, barrierActive, invoked, before, gpSeq, target>>
    PROVE  SealInv' /\ PlaceInv' /\ OrderInv'
  <1>0. waiting \in Seq(Items) /\ incoming[g] \in Seq(Items) /\ g \in DOMAIN incoming
    BY Zenon DEF TypeOK
  <1>1. /\ waiting' = waiting \o Reverse(incoming[g]) /\ incoming'[g] = <<>>
        /\ \A k \in {0, 1} : k # g => incoming'[k] = incoming[k]
    BY DEF DrainIncoming, TypeOK
  <1>2. /\ In(waiting') = In(waiting) \union In(incoming[g])
        /\ \A x, y : Ahead(waiting, x, y) /\ (x \in In(waiting) \/ Late(incoming[g], x, y)) =>
              Ahead(waiting', x, y)
    <2> DEFINE r == waiting \o Reverse(incoming[g])
    <2>1. /\ In(r) = In(waiting) \union In(incoming[g])
          /\ \A x, y : Ahead(waiting, x, y) /\ (x \in In(waiting) \/ Late(incoming[g], x, y)) =>
                Ahead(r, x, y)
      BY <1>0, JoinList
    <2>2. waiting' = r
      BY <1>1
    <2> HIDE DEF r
    <2> QED BY ZenonT(60), <2>1, <2>2
  <1>3. In(incoming'[g]) = {} /\ \A x, y : Late(incoming'[g], x, y)
    BY <1>1 DEF In, Late
  <1>4. drain.scan = <<>> /\ In(drain.scan) = {} /\ drain'.scan = <<>>
    BY DEF PlaceInv, Scanned, In
  <1>5. /\ Batch' = Batch \union In(incoming[g])
        /\ Batch' \union Lists' = Batch \union Lists
    <2>1. Batch' = Batch \union In(incoming[g])
      BY Zenon, <1>2 DEF Batch
    <2>2. Batch' \union Lists' = Batch \union Lists
      BY <2>1, <1>1, <1>3 DEF Lists
    <2> QED BY <2>1, <2>2
  <1>6. \A k \in {0, 1} : In(incoming'[k]) \subseteq In(incoming[k])
    BY Zenon, <1>1, <1>3
  <1>7. SealInv'
    BY Zenon DEF SealInv, OneHolder, Counted, Committed, Section
  <1>8. Placed'
    <2>1. \A x : x \in Batch' \union Lists' <=> x \in Batch \union Lists
      BY Zenon, <1>5
    <2>2. ASSUME NEW b \in Barriers, NEW k \in {0, 1}, b \in In(incoming'[k])
          PROVE  picked'[b] = k /\ b \notin Batch' \union invoked'
      <3>1. k # g /\ b \in In(incoming[k])
        BY Zenon, <1>3, <1>6, <2>2
      <3>2. picked[b] = k /\ b \notin Batch \union invoked
        BY Zenon, <3>1 DEF PlaceInv, Placed
      <3>3. b \notin In(incoming[g])
        BY Zenon, <3>1, <3>2 DEF PlaceInv, Placed
      <3> QED BY Zenon, <1>5, <3>2, <3>3
    <2> QED BY Zenon, <2>1, <2>2 DEF PlaceInv, Placed
  <1>9. SealedEmpty'
    <2>1. 1 - generation \in {0, 1}
      BY DEF TypeOK
    <2> QED BY ZenonT(60), <1>1, <2>1 DEF PlaceInv, SealedEmpty
  <1>10. Scanned'
    <2>1. drain.by # NoOne /\ drain'.by # NoOne
      BY Zenon DEF PlaceInv, Scanned
    <2> QED BY Zenon, <1>4, <2>1 DEF Scanned
  <1>11. Targets'
    BY Zenon DEF PlaceInv, Targets
  <1>12. OrderInv'
    <2>1. ASSUME NEW b \in Barriers, NEW x \in before[b] \ invoked
          PROVE  Behind(b, x)'
      <3>1. Behind(b, x) /\ picked[b] \in {0, 1}
        BY DEF OrderInv, TypeOK, Items
      <3>2. x \in Batch => x \in In(waiting)
        BY Zenon, <1>4 DEF Batch
      <3>3. Ahead(waiting', x, b)
        BY Zenon, <1>2, <3>1, <3>2 DEF Behind
      <3>4. x \in In(waiting') \/ Ahead(drain'.scan, x, b)
        BY Zenon, <1>2, <3>1 DEF Behind
      <3>5. ASSUME NEW k \in {0, 1} PROVE x \in Batch' \/ Late(incoming'[k], x, b)
        BY Zenon, <1>1, <1>3, <1>5, <3>1 DEF Behind
      <3>6. x \in Batch \union In(incoming[picked[b]]) => x \in Batch' \union In(incoming'[picked[b]])
        BY Zenon, <1>1, <1>5, <3>1
      <3> QED BY ZenonT(60), <3>1, <3>3, <3>4, <3>5, <3>6 DEF Behind
    <2> QED BY Zenon, <2>1 DEF OrderInv
  <1> QED BY Zenon, <1>7, <1>8, <1>9, <1>10, <1>11, <1>12 DEF PlaceInv

\* A step of the drainer that moves entries between waiting and the vector it
\* walks, and loses none, has only Scanned and the order to keep.
LEMMA BatchSame ==
    ASSUME TypeOK, SealInv, PlaceInv, OrderInv, Batch' = Batch, Scanned',
           UNCHANGED <<pc, picked, publishing, generation, barrierActive, incoming, invoked, before,
                       gpSeq, target>>,
           \A b \in Barriers : \A x : Behind(b, x) =>
              Ahead(waiting', x, b) /\ (x \in In(waiting') \/ Ahead(drain'.scan, x, b))
    PROVE  SealInv' /\ PlaceInv' /\ OrderInv'
  <1>1. SealInv'
    BY Zenon DEF SealInv, OneHolder, Counted, Committed, Section
  <1>2. Placed' /\ SealedEmpty' /\ Targets'
    BY Zenon DEF PlaceInv, Placed, SealedEmpty, Targets, Lists
  <1>3. OrderInv'
    <2>1. ASSUME NEW b \in Barriers, NEW x \in before[b] \ invoked
          PROVE  Behind(b, x)'
      <3>1. Behind(b, x)
        BY Zenon DEF OrderInv
      <3>2. Ahead(waiting', x, b) /\ (x \in In(waiting') \/ Ahead(drain'.scan, x, b))
        BY Zenon, <3>1
      <3> QED BY Zenon, <3>1, <3>2 DEF Behind
    <2> QED BY Zenon, <2>1 DEF OrderInv
  <1> QED BY Zenon, <1>1, <1>2, <1>3 DEF PlaceInv

LEMMA TakeWaitingBarrier ==
    ASSUME TypeOK, SealInv, PlaceInv, OrderInv, TakeWaiting,
           UNCHANGED <<pc, picked, publishing, generation, barrierActive, incoming, invoked, before,
                       gpSeq, target>>
    PROVE  SealInv' /\ PlaceInv' /\ OrderInv'
  <1>1. /\ drain'.at = "run" /\ drain'.scan = waiting /\ drain'.by = drain.by /\ waiting' = <<>>
        /\ drain.at \in {"open", "snap"}
    BY DEF TakeWaiting, TypeOK, DrainType
  <1>2. drain.scan = <<>> /\ drain.by # NoOne
    BY <1>1 DEF PlaceInv, Scanned
  <1>3. In(<<>>) = {} /\ \A x, y : Ahead(<<>>, x, y)
    BY DEF In, Ahead
  <1>4. Batch' = Batch
    BY Zenon, <1>1, <1>2, <1>3 DEF Batch
  <1>5. Scanned'
    BY Zenon, <1>1, <1>2, <1>3 DEF Scanned
  <1>6. \A b \in Barriers : \A x : Behind(b, x) =>
           Ahead(waiting', x, b) /\ (x \in In(waiting') \/ Ahead(drain'.scan, x, b))
    BY Zenon, <1>1, <1>3 DEF Behind
  <1> QED BY Zenon, <1>4, <1>5, <1>6, BatchSame

LEMMA KeepWaitingBarrier ==
    ASSUME TypeOK, SealInv, PlaceInv, OrderInv, KeepWaiting,
           UNCHANGED <<pc, picked, publishing, generation, barrierActive, incoming, invoked, before,
                       gpSeq, target>>
    PROVE  SealInv' /\ PlaceInv' /\ OrderInv'
  <1> DEFINE z == Head(drain.scan)
  <1>1. /\ drain.at = "run" /\ drain'.at = "run" /\ drain'.scan = Tail(drain.scan)
        /\ drain'.by = drain.by /\ waiting' = Append(waiting, z) /\ ~Due(z)
        /\ drain.scan \in Seq(Items) /\ drain.scan # <<>> /\ waiting \in Seq(Items)
    BY Zenon DEF KeepWaiting, TypeOK, DrainType
  <1>2. /\ z \in Items /\ In(drain.scan) = In(drain'.scan) \union {z}
        /\ \A x, y : Ahead(drain.scan, x, y) => z # y /\ (z # x => Ahead(drain'.scan, x, y))
    BY <1>1, TailList
  <1>3. /\ In(waiting') = In(waiting) \union {z}
        /\ \A x, y : Ahead(waiting, x, y) /\ (z # y \/ x \in In(waiting)) => Ahead(waiting', x, y)
    BY <1>1, <1>2, AppendList
  <1> HIDE DEF z
  <1>4. Batch' = Batch
    BY <1>2, <1>3 DEF Batch
  <1>5. Scanned'
    BY Zenon, <1>1, <1>3 DEF PlaceInv, Scanned, Due
  <1>6. \A b \in Barriers : \A x : Behind(b, x) =>
           Ahead(waiting', x, b) /\ (x \in In(waiting') \/ Ahead(drain'.scan, x, b))
    BY Zenon, <1>2, <1>3 DEF Behind
  <1> QED BY Zenon, <1>4, <1>5, <1>6, BatchSame

\* A marker that is due runs only when everything it must follow has run: what
\* is left of that would be in waiting, not due, with a smaller target.
LEMMA MarkerLast ==
    ASSUME TypeOK, PlaceInv, OrderInv, drain.at = "run", drain.scan # <<>>,
           Due(Head(drain.scan)), NEW b \in Barriers, Head(drain.scan) = b
    PROVE  before[b] \subseteq invoked
  <1>1. drain.scan \in Seq(Items)
    BY DEF TypeOK, DrainType
  <1>2. b \in In(drain.scan) /\ \A x : ~Ahead(drain.scan, x, b)
    BY ZenonT(60), <1>1, TailList
  <1>3. pc[b] \in Marked
    BY Zenon, <1>2 DEF PlaceInv, Placed, Batch
  <1>4. ASSUME NEW x \in before[b] \ invoked PROVE FALSE
    <2>1. x \in In(waiting)
      BY Zenon, <1>2 DEF OrderInv, Behind
    <2>2. ~(target[x] <= gpSeq)
      BY Zenon, <2>1 DEF PlaceInv, Scanned, Due
    <2>3. target[x] <= target[b] /\ target[b] <= gpSeq
      BY Zenon, <1>3 DEF PlaceInv, Targets, Due
    <2>4. target[x] \in Nat /\ target[b] \in Nat /\ gpSeq \in Nat
      BY Disjoint, Zenon DEF TypeOK
    <2> QED BY <2>2, <2>3, <2>4
  <1> QED BY <1>4

LEMMA RunCallbackBarrier ==
    ASSUME TypeOK, SealInv, PlaceInv, OrderInv, RunCallback,
           UNCHANGED <<pc, picked, publishing, generation, barrierActive, incoming, waiting, before,
                       gpSeq, target>>
    PROVE  SealInv' /\ PlaceInv' /\ OrderInv'
  <1> DEFINE z == Head(drain.scan)
  <1>1. /\ drain.at = "run" /\ drain'.at = "run" /\ drain'.scan = Tail(drain.scan)
        /\ drain'.by = drain.by /\ Due(z) /\ invoked' = invoked \union {z}
        /\ drain.scan \in Seq(Items) /\ drain.scan # <<>>
    BY Zenon DEF RunCallback, TypeOK, DrainType
  <1>2. /\ z \in Items /\ In(drain.scan) = In(drain'.scan) \union {z}
        /\ \A x, y : Ahead(drain.scan, x, y) => z # y /\ (z # x => Ahead(drain'.scan, x, y))
    BY <1>1, TailList
  <1>3. \A b \in Barriers : b = z => before[b] \subseteq invoked
    BY Zenon, <1>1, MarkerLast
  <1> HIDE DEF z
  <1>4. Batch = Batch' \union {z}
    <2>1. z \in In(drain.scan)
      BY Zenon, <1>2
    <2> QED BY Zenon, <1>2, <2>1 DEF Batch
  <1>5. SealInv'
    BY Zenon DEF SealInv, OneHolder, Counted, Committed, Section
  <1>6. Placed'
    <2>1. \A x : x \in Batch' => x \in Batch
      BY Zenon, <1>4
    <2>2. \A x : x \in invoked \union Batch => x \in invoked' \union Batch'
      BY Zenon, <1>1, <1>4
    <2>3. \A x : x \in invoked' \union Batch' => x \in invoked \union Batch
      BY Zenon, <1>1, <1>4
    <2>4. Lists' = Lists
      BY Zenon DEF Lists
    <2> QED BY Zenon, <1>1, <2>1, <2>2, <2>3, <2>4 DEF PlaceInv, Placed
  <1>7. SealedEmpty' /\ Targets'
    BY Zenon DEF PlaceInv, SealedEmpty, Targets
  <1>8. Scanned'
    BY Zenon, <1>1 DEF PlaceInv, Scanned, Due
  <1>9. OrderInv'
    <2>1. ASSUME NEW b \in Barriers, NEW x \in before[b] \ invoked'
          PROVE  Behind(b, x)'
      <3>1. Behind(b, x) /\ x # z /\ (x \in Batch <=> x \in Batch')
        BY Zenon, <1>1, <1>4 DEF OrderInv
      <3> QED BY Zenon, <1>2, <3>1 DEF Behind
    <2>2. \A b \in Barriers : b \in invoked' => before[b] \subseteq invoked'
      BY Zenon, <1>1, <1>3 DEF OrderInv
    <2> QED BY Zenon, <2>1, <2>2 DEF OrderInv
  <1> QED BY Zenon, <1>5, <1>6, <1>7, <1>8, <1>9 DEF PlaceInv

\* The steps of the drainer that move no entry.
LEMMA DrainMoves ==
    ASSUME TypeOK, GraceInv, SealInv, PlaceInv, OrderInv, Drain,
           ~DrainSealed, ~DrainCurrent, ~TakeWaiting, ~KeepWaiting, ~RunCallback
    PROVE  SealInv' /\ PlaceInv' /\ OrderInv'
  <1>0. UNCHANGED <<picked, publishing, generation, barrierActive, target, before, incoming,
                    waiting, invoked>>
    BY Zenon DEF Drain, actorVars, stateVars, CompletePeriod, NotifyWaiters, DrainExit, Snapshot
  <1>1. /\ \A x \in Cbs : pc'[x] = pc[x]
        /\ \A b \in Barriers : Kin(pc'[b], pc[b])
    <2>1. CASE DrainExit /\ drain.by \in Callers
      <3>1. pc[drain.by] = "draining" /\ pc' = [pc EXCEPT ![drain.by] = "drained"]
        BY <2>1 DEF DrainExit, GraceInv, DrainerWaits
      <3>2. \A a \in Actors : a # drain.by => pc'[a] = pc[a]
        BY ZenonT(60), <3>1 DEF TypeOK
      <3>3. \A b \in Barriers : b = drain.by => pc[b] = "draining" /\ pc'[b] = "drained"
        BY ZenonT(60), <3>1, Disjoint DEF TypeOK
      <3>4. Kin("drained", "draining")
        BY DEF Kin, Waits
      <3> QED BY Zenon, <2>1, <3>2, <3>3, <3>4, Disjoint DEF Kin
    <2>2. CASE ~(DrainExit /\ drain.by \in Callers)
      <3>1. pc' = pc
        BY Zenon, <2>2 DEF Drain, DrainExit
      <3> QED BY Zenon, <3>1 DEF Kin
    <2> QED BY Zenon, <2>1, <2>2
  <1>2. gpSeq' \in {gpSeq, gpSeq + 1} /\ (drain.at = "run" => gpSeq' = gpSeq)
    BY DEF Drain, CompletePeriod
  <1>3. CASE NotifyWaiters
    <2>1. drain'.scan = drain.scan /\ drain'.at = "exit" /\ drain.scan = <<>> /\ drain'.by = drain.by
          /\ drain.at = "run"
      BY <1>3 DEF NotifyWaiters, DrainGoto, TypeOK, DrainType
    <2>2. Scanned'
      BY Zenon, <2>1 DEF PlaceInv, Scanned
    <2> QED BY Zenon, <1>0, <1>1, <1>2, <2>1, <2>2, BarrierFrame
  <1>4. CASE DrainExit
    <2>1. drain'.scan = <<>> /\ drain'.by = NoOne /\ drain'.at = "out" /\ drain.at = "exit"
      BY <1>4 DEF DrainExit, Idle
    <2>2. drain'.scan = drain.scan
      BY <2>1 DEF PlaceInv, Scanned
    <2>3. Scanned'
      BY Zenon, <2>1 DEF Scanned
    <2> QED BY ZenonT(60), <1>0, <1>1, <1>2, <2>2, <2>3, BarrierFrame
  <1>5. CASE ~NotifyWaiters /\ ~DrainExit
    <2>1. /\ drain'.scan = drain.scan
          /\ drain'.at = "run" <=> drain.at = "run"
          /\ drain'.by = drain.by \/ (drain.by = NoOne /\ drain'.by = Tick)
      <3>0. PlaceInv => (drain.by = NoOne => drain.at # "run")
        BY DEF PlaceInv, Scanned
      <3> QED BY <3>0, <1>5, ZenonT(60) DEF Drain, DrainEnter, SampleInstall, SampleGeneration, RecheckInstall, DrainGoto,
           CheckQuiesced, BeginOpen, CompletePeriod, Snapshot, TypeOK, DrainType
    <2>2. drain'.by = NoOne => drain'.at = "out"
      <3>1. drain'.by = NoOne => drain.by = NoOne
        BY <2>1, RcuAssumption
      <3>2. drain.by = NoOne => drain.at = "out"
        BY Zenon DEF PlaceInv, Scanned
      <3>3. drain'.by = NoOne => drain'.by = drain.by
        BY <2>1, RcuAssumption, ZenonT(60)
      <3>4. drain.at = "out" => DrainEnter(Tick)
        BY <1>5 DEF Drain, SampleInstall, SampleGeneration, RecheckInstall, DrainGoto,
           CheckQuiesced, BeginOpen, CompletePeriod, Snapshot, DrainSealed, DrainCurrent,
           TakeWaiting, KeepWaiting, RunCallback
      <3>5. DrainEnter(Tick) => drain'.by = Tick
        BY DEF DrainEnter, TypeOK, DrainType
      <3> QED BY <3>1, <3>2, <3>4, <3>5, RcuAssumption
    <2>3. Scanned'
      BY Zenon, <1>0, <1>2, <2>1, <2>2, ScanSame DEF PlaceInv
    <2> QED BY ZenonT(60), <1>0, <1>1, <1>2, <2>1, <2>3, BarrierFrame
  <1> QED BY Zenon, <1>3, <1>4, <1>5

LEMMA DrainBarrier ==
    ASSUME TypeOK, GraceInv, SealInv, PlaceInv, OrderInv, Drain
    PROVE  SealInv' /\ PlaceInv' /\ OrderInv'
  <1>0. UNCHANGED <<picked, publishing, generation, barrierActive, target, before>>
    BY Zenon DEF Drain, actorVars
  <1>1. CASE DrainSealed \/ DrainCurrent
    <2>1. PICK g \in {0, 1} : DrainIncoming(g)
      <3>1. drain.gen \in {0, 1} /\ 1 - drain.gen \in {0, 1}
        BY DEF TypeOK, DrainType
      <3> QED BY Zenon, <1>1, <3>1 DEF DrainSealed, DrainCurrent
    <2>2. /\ drain.at \notin {"run", "out"} /\ drain'.at # "run"
          /\ drain'.by = drain.by /\ drain'.scan = drain.scan
      BY <1>1, Zenon DEF DrainSealed, DrainCurrent, DrainGoto, TypeOK, DrainType
    <2>3. UNCHANGED <<pc, invoked, gpSeq>>
      BY <1>1, <2>2, Zenon DEF Drain, DrainSealed, DrainCurrent, DrainGoto, DrainEnter, SampleInstall,
         SampleGeneration, RecheckInstall, CheckQuiesced, BeginOpen, CompletePeriod, Snapshot,
         TakeWaiting, KeepWaiting, RunCallback, NotifyWaiters, DrainExit, PlaceInv, Scanned
    <2> QED BY Zenon, <1>0, <2>1, <2>2, <2>3, DrainIncomingBarrier
  <1>2. CASE TakeWaiting
    <2>1. UNCHANGED <<pc, incoming, invoked, gpSeq>>
      BY <1>2, Zenon DEF Drain, DrainSealed, DrainCurrent, DrainGoto, DrainEnter, SampleInstall,
         SampleGeneration, RecheckInstall, CheckQuiesced, BeginOpen, CompletePeriod, Snapshot,
         TakeWaiting, KeepWaiting, RunCallback, NotifyWaiters, DrainExit, PlaceInv, Scanned
    <2> QED BY Zenon, <1>0, <1>2, <2>1, TakeWaitingBarrier
  <1>3. CASE KeepWaiting
    <2>1. UNCHANGED <<pc, incoming, invoked, gpSeq>>
      BY <1>3 DEF Drain, DrainSealed, DrainCurrent, DrainGoto, DrainEnter, SampleInstall,
         SampleGeneration, RecheckInstall, CheckQuiesced, BeginOpen, CompletePeriod, Snapshot,
         TakeWaiting, KeepWaiting, RunCallback, NotifyWaiters, DrainExit, PlaceInv, Scanned
    <2> QED BY ZenonT(60), <1>0, <1>3, <2>1, KeepWaitingBarrier
  <1>4. CASE RunCallback
    <2>1. UNCHANGED <<pc, incoming, waiting, gpSeq>>
      BY <1>4 DEF Drain, DrainSealed, DrainCurrent, DrainGoto, DrainEnter, SampleInstall,
         SampleGeneration, RecheckInstall, CheckQuiesced, BeginOpen, CompletePeriod, Snapshot,
         TakeWaiting, KeepWaiting, RunCallback, NotifyWaiters, DrainExit, stateVars, PlaceInv, Scanned
    <2> QED BY ZenonT(60), <1>0, <1>4, <2>1, RunCallbackBarrier
  <1> QED BY Zenon, <1>1, <1>2, <1>3, <1>4, DrainMoves

-----------------------------------------------------------------------------
(* Waiters and barriers *)

\* A caller may enter the drainer; that moves no entry.
LEMMA EnterScan ==
    ASSUME TypeOK, Scanned, UNCHANGED <<waiting, gpSeq>>,
           drain' = drain \/ (\E d \in Callers : DrainEnter(d)),
           \A y \in Items : target'[y] = target[y]
    PROVE  Scanned' /\ drain'.scan = drain.scan
  <1>1. CASE drain' = drain
    BY Zenon, <1>1, ScanSame DEF Scanned
  <1>2. CASE \E d \in Callers : DrainEnter(d)
    <2>1. PICK d \in Callers : DrainEnter(d)
      BY <1>2
    <2>2. drain.by = NoOne /\ drain'.by = d /\ drain'.at = "install" /\ drain'.scan = drain.scan
      BY <2>1, ZenonT(60) DEF DrainEnter, TypeOK, DrainType
    <2>3. drain.at = "out" /\ d # NoOne
      BY <2>2, RcuAssumption DEF Scanned
    <2> QED BY Zenon, <2>2, <2>3, ScanSame
  <1> QED BY Zenon, <1>1, <1>2

LEMMA SynchronizeBarrier ==
    ASSUME TypeOK, SealInv, PlaceInv, OrderInv, NEW s \in Syncs, Synchronize(s)
    PROVE  SealInv' /\ PlaceInv' /\ OrderInv'
  <1>0. /\ UNCHANGED <<picked, publishing, generation, barrierActive, incoming, waiting, invoked, before>>
        /\ s \in Callers /\ s \notin Cbs /\ s \notin Barriers /\ s \in Actors
    BY Zenon, Disjoint DEF Synchronize, listVars, stateVars
  <1>1. /\ gpSeq' = gpSeq
        /\ \A a \in Actors : a # s => pc'[a] = pc[a] /\ target'[a] = target[a]
        /\ drain' = drain \/ DrainEnter(s)
    BY Zenon, <1>0 DEF Synchronize, SyncStart, SyncRequest, SyncTest, CallerQs, CallDrain, SampleEpoch,
       WaitForProgress, Goto, TypeOK, gpVars
  <1>2. /\ \A x \in Cbs : pc'[x] = pc[x] /\ target'[x] = target[x]
        /\ \A b \in Barriers : pc'[b] = pc[b] /\ target'[b] = target[b]
        /\ \A y \in Items : target'[y] = target[y]
    BY Zenon, <1>0, <1>1, Disjoint DEF Items
  <1>3. Scanned' /\ drain'.scan = drain.scan
    BY Zenon, <1>0, <1>1, <1>2, EnterScan DEF PlaceInv
  <1>4. \A b \in Barriers : Kin(pc'[b], pc[b])
    BY Zenon, <1>2 DEF Kin
  <1>5. gpSeq' \in {gpSeq, gpSeq + 1}
    BY Zenon, <1>1
  <1> QED BY Zenon, <1>0, <1>2, <1>3, <1>4, <1>5, BarrierFrame

LEMMA ReaderBarrier ==
    ASSUME TypeOK, SealInv, PlaceInv, OrderInv,
           UNCHANGED <<gpVars, listVars, stateVars, drain, pc, invoked, actorVars>>
    PROVE  SealInv' /\ PlaceInv' /\ OrderInv'
  <1>1. UNCHANGED <<picked, publishing, generation, barrierActive, incoming, waiting, invoked, before,
                    drain, pc, target, gpSeq>>
    BY Zenon DEF gpVars, listVars, stateVars, actorVars
  <1>2. Scanned' /\ drain'.scan = drain.scan
    BY Zenon, <1>1, ScanSame DEF PlaceInv, Scanned
  <1>3. \A b \in Barriers : Kin(pc'[b], pc[b])
    BY Zenon, <1>1 DEF Kin
  <1>4. gpSeq' \in {gpSeq, gpSeq + 1}
    BY Zenon, <1>1
  <1> QED BY Zenon, <1>1, <1>2, <1>3, <1>4, BarrierFrame

\* What every step of a barrier leaves alone.
LEMMA BarrierKeeps ==
    ASSUME TypeOK, NEW b \in Barriers, Barrier(b)
    PROVE  /\ UNCHANGED <<waiting, invoked, gpSeq, publishing>>
           /\ b \in Actors /\ b \in Items /\ b \notin Cbs
           /\ \A x \in Cbs : pc'[x] = pc[x] /\ picked'[x] = picked[x] /\ target'[x] = target[x]
           /\ \A d \in Barriers : d # b => /\ pc'[d] = pc[d] /\ picked'[d] = picked[d]
                                           /\ target'[d] = target[d] /\ before'[d] = before[d]
           /\ drain' = drain \/ DrainEnter(b)
  <1>1. b \in Actors /\ b \in Items /\ b \notin Cbs
    BY Disjoint DEF Items
  <1>2. UNCHANGED <<waiting, invoked, gpSeq, publishing>> /\ (drain' = drain \/ DrainEnter(b))
    BY Zenon DEF Barrier, stateVars, listVars, gpVars, Claim, StepInstall, Flip, Sealed, MarkerTarget, PushMarker,
       BarrierTest, Release, NotifyBarriers, CallerQs, SampleEpoch, CallDrain, WaitForProgress
  <1>3. /\ \A a \in Actors : a # b => pc'[a] = pc[a] /\ target'[a] = target[a]
        /\ \A a \in Items : a # b => picked'[a] = picked[a]
        /\ \A d \in Barriers : d # b => before'[d] = before[d]
    BY Zenon DEF TypeOK, Barrier, listVars, gpVars, Claim, StepInstall, Flip, Sealed, MarkerTarget, PushMarker,
       BarrierTest, Release, NotifyBarriers, CallerQs, SampleEpoch, CallDrain, WaitForProgress, Goto
  <1> QED BY Zenon, <1>1, <1>2, <1>3, Disjoint DEF Items

LEMMA NotIn ==
    ASSUME NEW s, NEW y, y \notin In(s)
    PROVE  \A x : Ahead(s, x, y) /\ Late(s, x, y)
  BY Zenon DEF In, Ahead, Late

\* A step of a barrier that pushes and flips nothing.
LEMMA BarrierLocal ==
    ASSUME TypeOK, SealInv, PlaceInv, OrderInv, NEW b \in Barriers, Barrier(b),
           UNCHANGED <<incoming, generation, picked, before, drain>>, OneHolder', Committed', SealedEmpty',
           pc[b] \in Marked => pc'[b] \in Marked /\ target'[b] = target[b],
           pc'[b] \in Left \union {"release"} => b \in invoked,
           pc'[b] \in Marked \union {"push"} => \A x \in before[b] : target[x] <= target'[b],
           pc'[b] \in Sealing => \A x \in before[b] \ invoked :
              \/ x \in Batch \union In(incoming[picked[b]])
              \/ pc'[b] = "seal" /\ pc[x] = "push" /\ picked[x] = picked[b]
    PROVE  SealInv' /\ PlaceInv' /\ OrderInv'
  <1>0. /\ UNCHANGED <<waiting, invoked, gpSeq, publishing>>
        /\ \A x \in Cbs : pc'[x] = pc[x] /\ target'[x] = target[x]
        /\ \A d \in Barriers : d # b => pc'[d] = pc[d] /\ target'[d] = target[d]
    BY Zenon, BarrierKeeps
  <1>1. Batch' = Batch /\ Lists' = Lists /\ \A g : Section(g)' = Section(g)
    BY Zenon, <1>0 DEF Batch, Lists, Section
  <1>2. SealInv'
    BY Zenon, <1>0, <1>1 DEF SealInv, Counted
  <1>3. Placed'
    BY Zenon, <1>0, <1>1 DEF PlaceInv, Placed
  <1>4. Targets'
    <2>1. \A d \in Barriers : \A x \in before[d] : x \in Cbs
      BY DEF TypeOK
    <2> QED BY ZenonT(60), <1>0, <2>1 DEF PlaceInv, Targets
  <1>5. Scanned'
    <2>1. ASSUME NEW y \in In(waiting) PROVE target'[y] = target[y]
      <3>1. y \in Items /\ y \in Batch
        BY DEF In, TypeOK, Batch
      <3>2. y = b => pc[b] \in Marked
        BY Zenon, <3>1 DEF PlaceInv, Placed
      <3> QED BY ZenonT(60), <1>0, <3>1, <3>2 DEF Items
    <2> QED BY Zenon, <1>0, <2>1 DEF PlaceInv, Scanned, Due
  <1>6. OrderInv'
    <2>1. ASSUME NEW d \in Barriers, NEW x \in before[d] \ invoked
          PROVE  Behind(d, x)'
      <3>1. x \in Cbs /\ Behind(d, x)
        BY DEF OrderInv, TypeOK
      <3>2. pc'[d] \in Sealing =>
              \/ x \in Batch \union In(incoming[picked[d]])
              \/ pc'[d] = "seal" /\ pc[x] = "push" /\ picked[x] = picked[d]
        BY Zenon, <1>0, <3>1 DEF Behind
      <3> QED BY ZenonT(60), <1>0, <1>1, <3>1, <3>2 DEF Behind
    <2> QED BY Zenon, <1>0, <2>1 DEF OrderInv
  <1> QED BY Zenon, <1>2, <1>3, <1>4, <1>5, <1>6 DEF PlaceInv

\* A barrier that neither starts sealing nor leaves producers behind.
LEMMA CommittedKept ==
    ASSUME NEW b \in Barriers, UNCHANGED <<generation, picked, incoming>>, Committed, SealedEmpty,
           \A x \in Cbs : pc'[x] = pc[x], \A d \in Barriers : d # b => pc'[d] = pc[d],
           pc'[b] \in Sealing <=> pc[b] \in Sealing,
           \/ pc[b] # "seal"
           \/ \A x \in Cbs : pc[x] \in {"push", "retire"} => picked[x] # picked[b]
    PROVE  Committed' /\ SealedEmpty'
  <1>1. ASSUME NEW x \in Cbs, pc[x] \in {"push", "retire"}
        PROVE  picked[x] = generation \/ \E d \in Barriers : pc'[d] = "seal" /\ picked[d] = picked[x]
    <2>1. CASE picked[x] = generation
      BY <2>1
    <2>2. CASE \E d \in Barriers : pc[d] = "seal" /\ picked[d] = picked[x]
      <3>1. PICK d \in Barriers : pc[d] = "seal" /\ picked[d] = picked[x]
        BY <2>2
      <3>2. d # b
        BY Zenon, <1>1, <3>1
      <3> QED BY ZenonT(60), <3>1, <3>2
    <2> QED BY ZenonT(60), <1>1, <2>1, <2>2 DEF Committed
  <1>2. \A d \in Barriers : pc'[d] \in Sealing <=> pc[d] \in Sealing
    BY Zenon
  <1>3. Committed'
    BY Zenon, <1>1, <1>2 DEF Committed
  <1>4. SealedEmpty'
    BY Zenon, <1>2 DEF SealedEmpty
  <1> QED BY <1>3, <1>4

LEMMA ClaimBarrier ==
    ASSUME TypeOK, SealInv, PlaceInv, OrderInv, NEW b \in Barriers, Barrier(b), Claim(b),
           ~barrierActive, drain' = drain
    PROVE  SealInv' /\ PlaceInv' /\ OrderInv'
  <1>0. /\ pc[b] \in {"start", "retry"} /\ pc'[b] = "install" /\ barrierActive'
        /\ UNCHANGED <<incoming, generation, picked, target, before>>
        /\ \A x \in Cbs : pc'[x] = pc[x]
        /\ \A d \in Barriers : d # b => pc'[d] = pc[d]
    BY BarrierKeeps, ZenonT(60) DEF Claim, Goto, TypeOK
  <1>1. /\ pc[b] \notin Marked /\ pc'[b] \notin Left \union {"release"} /\ pc'[b] # "seal"
        /\ pc'[b] \notin Marked \union {"push"} /\ pc'[b] \notin Sealing
        /\ pc[b] \notin Sealing /\ pc[b] # "seal"
    BY <1>0 DEF Marked, Left, Sealing, Waits
  <1>2. OneHolder'
    BY Zenon, <1>0 DEF SealInv, OneHolder
  <1>3. Committed' /\ SealedEmpty'
    BY Zenon, <1>0, <1>1, CommittedKept DEF SealInv, PlaceInv
  <1> QED BY Zenon, <1>0, <1>1, <1>2, <1>3, BarrierLocal

\* publishing is zero: no producer is left inside the sealed generation.
LEMMA SealedBarrier ==
    ASSUME TypeOK, SealInv, PlaceInv, OrderInv, NEW b \in Barriers, Barrier(b), Sealed(b),
           drain' = drain
    PROVE  SealInv' /\ PlaceInv' /\ OrderInv'
  <1>0. /\ pc[b] = "seal" /\ pc'[b] = "mark" /\ publishing[picked[b]] = 0
        /\ UNCHANGED <<incoming, generation, barrierActive, picked, target, before>>
        /\ picked[b] \in {0, 1}
        /\ \A x \in Cbs : pc'[x] = pc[x]
        /\ \A d \in Barriers : d # b => pc'[d] = pc[d]
    BY BarrierKeeps, ZenonT(60) DEF Sealed, Goto, TypeOK, listVars
  <1>1. /\ pc[b] \notin Marked /\ pc'[b] \notin Left \union {"release"} /\ pc'[b] # "seal"
        /\ pc'[b] \notin Marked \union {"push"} /\ pc'[b] \in Sealing
        /\ pc[b] \in Sealing /\ pc[b] \in Holding /\ pc'[b] \in Holding
    BY <1>0 DEF Marked, Left, Sealing, Waits, Holding
  <1>2. Section(picked[b]) = {}
    <2>1. Covers(0, Section(picked[b]))
      BY Zenon, <1>0 DEF SealInv, Counted
    <2> QED BY Zenon, <2>1, CoversNone
  <1>3. \A x \in Cbs : pc[x] \in {"push", "retire"} => picked[x] # picked[b]
    BY Zenon, <1>2 DEF Section
  <1>4. OneHolder'
    BY Zenon, <1>0, <1>1 DEF SealInv, OneHolder
  <1>5. Committed' /\ SealedEmpty'
    BY ZenonT(60), <1>0, <1>1, <1>3, CommittedKept DEF SealInv, PlaceInv
  <1>6. \A x \in before[b] \ invoked : x \in Batch \union In(incoming[picked[b]])
    <2>1. \A x \in before[b] : x \in Cbs
      BY DEF TypeOK
    <2> QED BY ZenonT(60), <1>1, <1>3, <2>1 DEF OrderInv, Behind
  <1> QED BY ZenonT(60), <1>0, <1>1, <1>4, <1>5, <1>6, BarrierLocal

LEMMA MarkerTargetBarrier ==
    ASSUME TypeOK, SealInv, PlaceInv, OrderInv, NEW b \in Barriers, Barrier(b), MarkerTarget(b),
           drain' = drain
    PROVE  SealInv' /\ PlaceInv' /\ OrderInv'
  <1>0. /\ pc[b] = "mark" /\ pc'[b] = "push" /\ target'[b] = gpSeq + 2
        /\ UNCHANGED <<incoming, generation, barrierActive, picked, before>>
        /\ \A x \in Cbs : pc'[x] = pc[x]
        /\ \A d \in Barriers : d # b => pc'[d] = pc[d]
    BY BarrierKeeps, ZenonT(60) DEF MarkerTarget, Goto, TypeOK, listVars
  <1>1. /\ pc[b] \notin Marked /\ pc'[b] \notin Left \union {"release"} /\ pc'[b] # "seal"
        /\ pc'[b] \in Sealing /\ pc[b] # "seal"
        /\ pc[b] \in Sealing /\ pc[b] \in Holding /\ pc'[b] \in Holding
    BY <1>0 DEF Marked, Left, Sealing, Waits, Holding
  <1>2. OneHolder' /\ SealedEmpty' /\ Committed'
    BY Zenon, <1>0, <1>1, CommittedKept DEF SealInv, PlaceInv, OneHolder
  <1>3. \A x \in before[b] : target[x] <= target'[b]
    <2>1. \A x \in before[b] : x \in Cbs
      BY DEF TypeOK
    <2> QED BY ZenonT(60), <1>0, <2>1 DEF PlaceInv, Targets
  <1>4. \A x \in before[b] \ invoked : x \in Batch \union In(incoming[picked[b]])
    BY Zenon, <1>1 DEF OrderInv, Behind
  <1> QED BY ZenonT(60), <1>0, <1>1, <1>2, <1>3, <1>4, BarrierLocal

\* The last test of the marker's flag, and the release of BARRIER_ACTIVE.
LEMMA ReleaseBarrier ==
    ASSUME TypeOK, SealInv, PlaceInv, OrderInv, NEW b \in Barriers, Barrier(b), drain' = drain,
           \/ Release(b)
           \/ /\ Goto(b, "loop", "release") /\ b \in invoked
              /\ UNCHANGED <<listVars, picked, target, before>>
    PROVE  SealInv' /\ PlaceInv' /\ OrderInv'
  <1>0. /\ \/ pc[b] = "release" /\ pc'[b] = "notify"
           \/ pc[b] = "loop" /\ pc'[b] = "release" /\ b \in invoked /\ barrierActive' = barrierActive
        /\ UNCHANGED <<incoming, generation, picked, target, before>>
        /\ \A x \in Cbs : pc'[x] = pc[x]
        /\ \A d \in Barriers : d # b => pc'[d] = pc[d]
    BY BarrierKeeps, ZenonT(60) DEF Release, Goto, TypeOK, listVars
  <1>1. /\ pc[b] \in Marked /\ pc'[b] \in Marked /\ pc'[b] # "seal"
        /\ pc'[b] \notin Sealing /\ pc[b] # "seal" /\ pc[b] \notin Sealing
        /\ pc[b] \in Holding /\ (pc'[b] \in Holding => pc[b] = "loop")
        /\ pc[b] = "release" => pc[b] \in Left \union {"release"}
    BY <1>0 DEF Marked, Left, Sealing, Waits, Holding, Ready
  <1>2. b \in invoked
    BY Zenon, <1>0, <1>1 DEF PlaceInv, Placed
  <1>3. OneHolder'
    <2>1. CASE pc[b] = "release"
      BY <1>0, <1>1, <2>1 DEF SealInv, OneHolder
    <2>2. CASE pc[b] = "loop"
      <3>1. barrierActive' = barrierActive
        BY <1>0, <2>2
      <3> QED BY ZenonT(60), <1>0, <1>1, <3>1 DEF SealInv, OneHolder
    <2> QED BY ZenonT(60), <1>0, <2>1, <2>2
  <1>4. SealedEmpty' /\ Committed'
    BY Zenon, <1>0, <1>1, CommittedKept DEF SealInv, PlaceInv
  <1>5. \A x \in before[b] : target[x] <= target'[b]
    BY Zenon, <1>0, <1>1 DEF PlaceInv, Targets
  <1> QED BY ZenonT(60), <1>0, <1>1, <1>2, <1>3, <1>4, <1>5, BarrierLocal

\* The flip: nobody is committed to the generation that becomes open, and its
\* list is empty, so everything a barrier must follow is in the one it seals.
LEMMA FlipBarrier ==
    ASSUME TypeOK, SealInv, PlaceInv, OrderInv, NEW b \in Barriers, Barrier(b), Flip(b),
           drain' = drain
    PROVE  SealInv' /\ PlaceInv' /\ OrderInv'
  <1>0. /\ pc[b] = "flip" /\ pc'[b] = "seal" /\ picked'[b] = generation
        /\ generation' = 1 - generation /\ generation \in {0, 1} /\ 1 - generation' = generation
        /\ before'[b] = {x \in Cbs : pc[x] \in {"push", "retire", "queued"}}
        /\ incoming' = incoming /\ barrierActive' = barrierActive
        /\ target' = target
    BY BarrierKeeps DEF Flip, Goto, TypeOK
  <1>1. /\ UNCHANGED <<waiting, invoked, gpSeq, publishing>>
        /\ \A x \in Cbs : pc'[x] = pc[x] /\ picked'[x] = picked[x]
        /\ \A d \in Barriers : d # b => pc'[d] = pc[d] /\ picked'[d] = picked[d] /\ before'[d] = before[d]
    BY Zenon, BarrierKeeps
  <1>2. /\ pc[b] \notin Marked /\ pc'[b] \notin Left \union {"release"} /\ pc'[b] \notin Marked
        /\ pc'[b] \notin Marked \union {"push"} /\ pc'[b] \in Sealing /\ pc[b] \notin Sealing
        /\ pc[b] \in Holding /\ pc'[b] \in Holding
    BY <1>0 DEF Marked, Left, Sealing, Waits, Holding, Ready
  <1>3. \A d \in Barriers : d # b => pc[d] \notin Holding
    BY Zenon, <1>2 DEF SealInv, OneHolder
  <1>4. Sealing \subseteq Holding /\ "seal" \in Sealing /\ Marked \subseteq Holding \union Left
    BY DEF Sealing, Holding, Marked
  <1>5. \A d \in Barriers : pc[d] \notin Sealing
    BY Zenon, <1>2, <1>3, <1>4
  <1>6. \A x \in Cbs : pc[x] \in {"push", "retire"} => picked[x] = generation
    BY Zenon, <1>4, <1>5 DEF SealInv, Committed
  <1>7. incoming[1 - generation] = <<>>
    <2>1. ASSUME NEW d \in Barriers, d \in In(incoming[1 - generation]) PROVE FALSE
      <3>1. 1 - generation \in {0, 1}
        BY <1>0
      <3>2. d \in Lists
        BY <2>1, <3>1 DEF Lists
      <3>3. pc[d] \in Marked /\ d \notin invoked
        BY Zenon, <2>1, <3>1, <3>2 DEF PlaceInv, Placed
      <3>4. pc[d] \notin Left
        BY Zenon, <3>3 DEF PlaceInv, Placed
      <3> QED BY ZenonT(60), <1>2, <1>3, <1>4, <3>3, <3>4
    <2> QED BY Zenon, <1>5, <2>1 DEF PlaceInv, SealedEmpty
  <1>8. b \notin Batch \union Lists \union invoked
    BY Zenon, <1>2 DEF PlaceInv, Placed
  <1>9. Batch' = Batch /\ Lists' = Lists /\ \A g : Section(g)' = Section(g)
    BY ZenonT(60), <1>0, <1>1 DEF Batch, Lists, Section
  <1>10. OneHolder'
    BY Zenon, <1>0, <1>1, <1>2 DEF SealInv, OneHolder
  <1>11. Counted'
    BY Zenon, <1>1, <1>9 DEF SealInv, Counted
  <1>12. Committed'
    <2>1. \A x \in Cbs : pc'[x] \in {"push", "retire"} => pc'[b] = "seal" /\ picked'[b] = picked'[x]
      BY Zenon, <1>0, <1>1, <1>6
    <2>2. \A d \in Barriers : pc'[d] \in Sealing => d = b
      BY Zenon, <1>1, <1>5
    <2> QED BY Zenon, <1>0, <2>1, <2>2 DEF Committed
  <1>13. Placed'
    <2>1. \A g \in {0, 1} : b \notin In(incoming[g])
      BY Zenon, <1>8 DEF Lists
    <2> QED BY ZenonT(60), <1>0, <1>1, <1>2, <1>8, <1>9, <2>1 DEF PlaceInv, Placed
  <1>14. SealedEmpty' /\ Scanned'
    BY Zenon, <1>0, <1>1, <1>2 DEF PlaceInv, SealedEmpty, Scanned, Due
  <1>15. Targets'
    <2>1. \A d \in Barriers : \A x \in before[d] : x \in Cbs
      BY DEF TypeOK
    <2>2. ASSUME NEW x \in before'[b] PROVE pc'[x] \in {"push", "retire", "queued"}
      <3>1. x \in Cbs /\ pc[x] \in {"push", "retire", "queued"}
        BY <1>0
      <3> QED BY ZenonT(60), <1>1, <3>1
    <2>3. ASSUME NEW d \in Barriers, NEW x \in before'[d]
          PROVE  /\ pc'[x] \in {"push", "retire", "queued"}
                 /\ pc'[d] \in Marked \union {"push"} => target'[x] <= target'[d]
      <3>1. CASE d = b
        BY Zenon, <1>2, <2>2, <3>1
      <3>2. CASE d # b
        BY Zenon, <1>0, <1>1, <2>1, <3>2 DEF PlaceInv, Targets
      <3> QED BY Zenon, <3>1, <3>2
    <2> QED BY ZenonT(60), <1>0, <1>1, <2>3 DEF PlaceInv, Targets
  <1>16. ASSUME NEW x \in before'[b] \ invoked PROVE Behind(b, x)'
    <2>1. x \in Cbs /\ pc[x] \in {"push", "retire", "queued"}
      BY <1>0
    <2>4. \/ x \in Batch' \union In(incoming'[picked'[b]])
          \/ pc'[b] = "seal" /\ pc'[x] = "push" /\ picked'[x] = picked'[b]
      <3>1. CASE pc[x] = "push"
        BY ZenonT(60), <1>0, <1>1, <1>6, <2>1, <3>1
      <3>2. CASE pc[x] \in {"retire", "queued"}
        <4>1. x \in Batch \union Lists
          BY ZenonT(60), <2>1, <3>2 DEF PlaceInv, Placed
        <4>2. In(incoming[1 - generation]) = {}
          BY <1>7 DEF In
        <4>3. x \in Batch \union In(incoming[generation])
          BY <1>0, <4>1, <4>2 DEF Lists
        <4> QED BY ZenonT(60), <1>0, <1>9, <4>3
      <3> QED BY Zenon, <2>1, <3>1, <3>2
    <2>5. b \notin In(waiting) /\ b \notin In(drain.scan) /\ \A g \in {0, 1} : b \notin In(incoming[g])
      BY Zenon, <1>8 DEF Batch, Lists
    <2>6. /\ Ahead(waiting', x, b) /\ Ahead(drain'.scan, x, b)
          /\ \A g \in {0, 1} : Late(incoming'[g], x, b)
      BY Zenon, <1>0, <1>1, <2>5, NotIn
    <2> QED BY ZenonT(60), <2>4, <2>6 DEF Behind
  <1>17. OrderInv'
    <2>1. ASSUME NEW d \in Barriers, d # b, NEW x \in before[d] \ invoked
          PROVE  Behind(d, x)'
      <3>1. x \in Cbs /\ Behind(d, x) /\ pc'[d] \notin Sealing
        BY <1>1, <1>5, <2>1, ZenonT(60) DEF OrderInv, TypeOK
      <3> QED BY Zenon, <1>0, <1>1, <1>9, <3>1 DEF Behind
    <2> QED BY Zenon, <1>1, <1>8, <1>16, <2>1 DEF OrderInv
  <1> QED BY ZenonT(60), <1>10, <1>11, <1>12, <1>13, <1>14, <1>15, <1>17 DEF SealInv, PlaceInv

\* The marker goes in front of everything it must follow: newest first.
LEMMA PushMarkerBarrier ==
    ASSUME TypeOK, SealInv, PlaceInv, OrderInv, NEW b \in Barriers, Barrier(b), PushMarker(b),
           drain' = drain
    PROVE  SealInv' /\ PlaceInv' /\ OrderInv'
  <1> DEFINE h == picked[b]
  <1>0. /\ pc[b] = "push" /\ pc'[b] = "installed" /\ h \in {0, 1}
        /\ UNCHANGED <<generation, barrierActive, picked, target, before>>
        /\ incoming'[h] = <<b>> \o incoming[h] /\ incoming[h] \in Seq(Items)
        /\ \A g \in {0, 1} : g # h => incoming'[g] = incoming[g]
    BY BarrierKeeps DEF PushMarker, PushIncoming, Goto, TypeOK
  <1>1. /\ UNCHANGED <<waiting, invoked, gpSeq, publishing>> /\ b \in Items /\ b \notin Cbs
        /\ \A x \in Cbs : pc'[x] = pc[x]
        /\ \A d \in Barriers : d # b => pc'[d] = pc[d]
    BY Zenon, BarrierKeeps
  <1>2. /\ In(incoming'[h]) = In(incoming[h]) \union {b}
        /\ \A x, y : Late(incoming[h], x, y) /\ (b # y \/ x \in In(incoming[h])) => Late(incoming'[h], x, y)
    <2>1. PICK s \in Seq(Items) : s = incoming[h]
      BY <1>0, Zenon
    <2>2. /\ In(<<b>> \o s) = In(s) \union {b}
          /\ \A x, y : Late(s, x, y) /\ (b # y \/ x \in In(s)) => Late(<<b>> \o s, x, y)
      BY <1>1, PushList, Zenon
    <2> QED BY <1>0, <2>1, <2>2, Zenon
  <1>3. /\ pc[b] \notin Marked /\ pc'[b] \notin Left \union {"release"} /\ pc'[b] \in Marked
        /\ pc'[b] \notin Sealing /\ pc[b] \in Sealing /\ pc[b] # "seal" /\ pc'[b] # "seal"
        /\ pc[b] \in Holding /\ pc'[b] \in Holding /\ pc[b] \in Marked \union {"push"}
    BY <1>0, Zenon DEF Marked, Left, Sealing, Waits, Holding, Ready
  <1>4. b \notin Batch \union Lists \union invoked
    BY Zenon, <1>3 DEF PlaceInv, Placed
  <1>5. h = 1 - generation
    BY Zenon, <1>3 DEF SealInv, Committed
  <1> HIDE DEF h
  <1>6. /\ Batch' = Batch /\ Lists' = Lists \union {b}
        /\ \A g : Section(g)' = Section(g)
    <2>1. Batch' = Batch /\ \A g : Section(g)' = Section(g)
      BY Zenon, <1>0, <1>1 DEF Batch, Section
    <2>2. Lists' = Lists \union {b}
      BY <1>0, <1>2, Zenon DEF Lists
    <2> QED BY <2>1, <2>2
  <1>7. /\ \A g \in {0, 1} : In(incoming[g]) \subseteq In(incoming'[g])
        /\ \A g \in {0, 1} : g # h => In(incoming'[g]) = In(incoming[g])
    BY Zenon, <1>0, <1>2
  <1>8. OneHolder'
    BY ZenonT(60), <1>0, <1>1, <1>3 DEF SealInv, OneHolder
  <1>9. Counted'
    BY Zenon, <1>1, <1>6 DEF SealInv, Counted
  <1>10. Committed'
    <2>1. \A d \in Barriers : (pc[d] = "seal" => pc'[d] = "seal") /\ (pc'[d] \in Sealing => pc[d] \in Sealing)
      BY Zenon, <1>1, <1>3
    <2> QED BY Zenon, <1>0, <1>1, <2>1 DEF SealInv, Committed
  <1>11. Placed'
    <2>1. ASSUME NEW x \in Cbs
          PROVE  /\ pc'[x] \in {"retire", "queued"} => x \in invoked' \union Batch' \union Lists'
                 /\ x \in Batch' \union Lists' => pc'[x] \in {"retire", "queued"}
      BY Zenon, <1>1, <1>6 DEF PlaceInv, Placed
    <2>2. ASSUME NEW d \in Barriers
          PROVE  /\ d \in Batch' \union Lists' \union invoked' => pc'[d] \in Marked
                 /\ \A g \in {0, 1} : d \in In(incoming'[g]) =>
                       picked'[d] = g /\ d \notin Batch' \union invoked'
                 /\ pc'[d] \in Left \union {"release"} => d \in invoked'
      <3>1. CASE d = b
        <4>1. \A g \in {0, 1} : b \in In(incoming'[g]) => g = h
          BY Zenon, <1>4, <1>7 DEF Lists
        <4> QED BY ZenonT(60), <1>0, <1>1, <1>3, <1>4, <1>6, <3>1, <4>1 DEF h
      <3>2. CASE d # b
        <4>1. \A g \in {0, 1} : d \in In(incoming'[g]) => d \in In(incoming[g])
          BY Zenon, <1>2, <1>7, <3>2
        <4> QED BY ZenonT(60), <1>0, <1>1, <1>6, <3>2, <4>1 DEF PlaceInv, Placed
      <3> QED BY Zenon, <3>1, <3>2
    <2> QED BY Zenon, <2>1, <2>2 DEF Placed
  <1>12. SealedEmpty'
    BY Zenon, <1>0, <1>2, <1>5 DEF SealedEmpty
  <1>13. Scanned'
    BY Zenon, <1>0, <1>1 DEF PlaceInv, Scanned, Due
  <1>14. Targets'
    <2>1. \A d \in Barriers : \A x \in before[d] : x \in Cbs
      BY DEF TypeOK
    <2>2. \A d \in Barriers : pc'[d] \in Marked \union {"push"} => pc[d] \in Marked \union {"push"}
      BY Zenon, <1>1, <1>3
    <2> QED BY ZenonT(60), <1>0, <1>1, <2>1, <2>2 DEF PlaceInv, Targets
  <1>15. OrderInv'
    <2>1. ASSUME NEW d \in Barriers, NEW x \in before[d] \ invoked
          PROVE  Behind(d, x)'
      <3>1. x \in Cbs /\ Behind(d, x) /\ picked[d] \in {0, 1}
        BY DEF OrderInv, TypeOK, Items
      <3>2. d = b => x \in Batch \union In(incoming[h])
        BY Zenon, <1>3, <3>1 DEF Behind, h
      <3>3. ASSUME NEW g \in {0, 1} PROVE x \in Batch' \/ Late(incoming'[g], x, d)
        BY Zenon, <1>0, <1>2, <1>6, <3>1, <3>2 DEF Behind
      <3>4. pc'[d] \in Sealing =>
               \/ x \in Batch' \union In(incoming'[picked'[d]])
               \/ pc'[d] = "seal" /\ pc'[x] = "push" /\ picked'[x] = picked'[d]
        BY ZenonT(60), <1>0, <1>1, <1>3, <1>6, <1>7, <3>1 DEF Behind
      <3> QED BY ZenonT(60), <1>1, <3>1, <3>3, <3>4 DEF Behind
    <2> QED BY Zenon, <1>0, <1>1, <2>1 DEF OrderInv
  <1> QED BY ZenonT(60), <1>8, <1>9, <1>10, <1>11, <1>12, <1>13, <1>14, <1>15 DEF SealInv, PlaceInv

LEMMA KinPoints ==
    /\ Kin("contended", "start") /\ Kin("contended", "retry") /\ Kin("flip", "install")
    /\ Kin("loop", "installed") /\ Kin("qs", "loop") /\ Kin("loop", "drained") /\ Kin("wait", "drained")
    /\ Kin("await", "recheck") /\ Kin("retry", "recheck") /\ Kin("done", "notify") /\ Kin("epoch", "qs")
    /\ Kin("drain", "epoch") /\ Kin("draining", "drain") /\ Kin("drained", "drain") /\ Kin("loop", "wait")
    /\ Kin("recheck", "contended") /\ Kin("retry", "await")
  BY DEF Kin, Outside, Ready, Waits, Left

LEMMA BarrierQuiet ==
    ASSUME TypeOK, SealInv, PlaceInv, OrderInv, NEW b \in Barriers, Barrier(b),
           UNCHANGED <<picked, target, before, incoming, generation, barrierActive>>,
           Kin(pc'[b], pc[b])
    PROVE  SealInv' /\ PlaceInv' /\ OrderInv'
  <1>1. /\ UNCHANGED <<waiting, invoked, gpSeq, publishing>>
        /\ \A x \in Cbs : pc'[x] = pc[x]
        /\ \A d \in Barriers : d # b => pc'[d] = pc[d]
        /\ drain' = drain \/ DrainEnter(b)
    BY Zenon, BarrierKeeps
  <1>2. b \in Callers
    BY Zenon, Disjoint
  <1>3. Scanned' /\ drain'.scan = drain.scan
    BY Zenon, <1>1, <1>2, EnterScan DEF PlaceInv
  <1>4. \A d \in Barriers : Kin(pc'[d], pc[d])
    BY Zenon, <1>1 DEF Kin
  <1>5. gpSeq' \in {gpSeq, gpSeq + 1}
    BY Zenon, <1>1
  <1> QED BY Zenon, <1>1, <1>3, <1>4, <1>5, BarrierFrame

LEMMA BarrierStep ==
    ASSUME TypeOK, SealInv, PlaceInv, OrderInv, NEW b \in Barriers, Barrier(b)
    PROVE  SealInv' /\ PlaceInv' /\ OrderInv'
  <1>0. b \in DOMAIN pc /\ barrierActive \in BOOLEAN
    BY Disjoint DEF TypeOK
  <1>1. CASE (Claim(b) \/ Flip(b) \/ Sealed(b) \/ MarkerTarget(b) \/ PushMarker(b) \/ Release(b)) /\ drain' = drain
    <2>1. CASE Claim(b) /\ barrierActive
      <3>1. UNCHANGED <<picked, target, before, incoming, generation, barrierActive>>
        BY <1>0, <2>1 DEF Claim
      <3>2. Kin(pc'[b], pc[b])
        BY Zenon, <1>0, <2>1, KinPoints DEF Claim, Goto
      <3> QED BY Zenon, <3>1, <3>2, BarrierQuiet
    <2> QED BY ZenonT(60), <1>1, <2>1, ClaimBarrier, FlipBarrier, SealedBarrier, MarkerTargetBarrier, PushMarkerBarrier,
               ReleaseBarrier
  <1>2. CASE BarrierTest(b) /\ drain' = drain
    <2>1. CASE Goto(b, "loop", "release") /\ b \in invoked
      BY Zenon, <1>2, <2>1, ReleaseBarrier DEF BarrierTest
    <2>2. CASE ~(Goto(b, "loop", "release") /\ b \in invoked)
      <3>1. UNCHANGED <<picked, target, before, incoming, generation, barrierActive>>
        BY Zenon, <1>2 DEF BarrierTest, listVars
      <3>2. Kin(pc'[b], pc[b])
        <4>1. CASE Goto(b, "loop", IF b \in invoked THEN "release" ELSE "qs")
          BY Zenon, <1>0, <2>2, <4>1, KinPoints DEF Goto
        <4>2. CASE Goto(b, "drained", IF b \in invoked THEN "loop" ELSE "wait")
          BY Zenon, <1>0, <4>2, KinPoints DEF Goto
        <4>3. CASE Goto(b, "recheck", IF barrierActive THEN "await" ELSE "retry")
          BY Zenon, <1>0, <4>3, KinPoints DEF Goto
        <4> QED BY Zenon, <1>2, <4>1, <4>2, <4>3 DEF BarrierTest
      <3> QED BY Zenon, <3>1, <3>2, BarrierQuiet
    <2> QED BY Zenon, <2>1, <2>2
  <1>3. CASE StepInstall(b) \/ NotifyBarriers(b)
    <2>1. UNCHANGED <<picked, target, before, incoming, generation, barrierActive>>
      BY Zenon, <1>3 DEF StepInstall, NotifyBarriers, listVars
    <2>2. Kin(pc'[b], pc[b])
      BY Zenon, <1>0, <1>3, KinPoints DEF StepInstall, NotifyBarriers, Goto
    <2> QED BY Zenon, <2>1, <2>2, BarrierQuiet
  <1>4. CASE /\ \/ CallerQs(b, "epoch") \/ SampleEpoch(b, "epoch", "drain") \/ CallDrain(b)
                \/ WaitForProgress(b, "wait", "loop")
                \/ SampleEpoch(b, "contended", "recheck") \/ WaitForProgress(b, "await", "retry")
             /\ UNCHANGED <<listVars, picked, target, before>>
    <2>1. UNCHANGED <<picked, target, before, incoming, generation, barrierActive>>
      BY Zenon, <1>4 DEF listVars
    <2>2. Kin(pc'[b], pc[b])
      BY Zenon, <1>0, <1>4, KinPoints DEF CallerQs, SampleEpoch, CallDrain, WaitForProgress, Goto
    <2> QED BY Zenon, <2>1, <2>2, BarrierQuiet
  <1> QED BY ZenonT(60), <1>1, <1>2, <1>3, <1>4 DEF Barrier

LEMMA BarrierInit ==
    ASSUME Init
    PROVE  SealInv /\ PlaceInv /\ OrderInv
  <1>0. /\ \A a \in Actors : pc[a] = "start" /\ target[a] = 0
        /\ waiting = <<>> /\ drain.scan = <<>> /\ drain.by = NoOne /\ drain.at = "out"
        /\ incoming[0] = <<>> /\ incoming[1] = <<>> /\ publishing[0] = 0 /\ publishing[1] = 0
        /\ invoked = {} /\ generation = 0 /\ gpSeq = 0
        /\ \A b \in Barriers : before[b] = {}
    BY DEF Init, Idle
  <1>1. In(<<>>) = {}
    BY DEF In
  <1>2. Batch = {} /\ Lists = {}
    BY <1>0, <1>1, ZenonT(60) DEF Batch, Lists
  <1>3. \A g : Section(g) = {}
    BY <1>0, Disjoint DEF Section
  <1>4. Covers(0, {})
    <2>1. [i \in 1 .. 0 |-> CHOOSE x : x \in Cbs] \in [1 .. 0 -> Cbs]
      OBVIOUS
    <2> QED BY <2>1, Zenon DEF Covers
  <1>5. "start" \notin Holding /\ "start" \notin Sealing /\ "start" \notin Marked
        /\ "start" \notin Left \union {"release"} /\ "start" \notin Marked \union {"push"}
    BY DEF Holding, Ready, Sealing, Waits, Marked, Left
  <1>6. SealInv
    <2>1. OneHolder /\ Committed
      BY <1>0, <1>5, Disjoint, Zenon DEF OneHolder, Committed
    <2>2. Counted
      BY Zenon, <1>0, <1>3, <1>4 DEF Counted
    <2> QED BY <2>1, <2>2 DEF SealInv
  <1>7. PlaceInv
    <2>1. Placed
      BY <1>0, <1>1, <1>2, <1>5, Disjoint DEF Placed
    <2>2. SealedEmpty /\ Scanned
      BY <1>0 DEF SealedEmpty, Scanned
    <2>3. Targets
      BY <1>0, Disjoint DEF Targets
    <2> QED BY <2>1, <2>2, <2>3 DEF PlaceInv
  <1>8. OrderInv
    BY Zenon, <1>0 DEF OrderInv
  <1> QED BY <1>6, <1>7, <1>8, ZenonT(60)

\* rcu_barrier returns only after every callback that was committed to a list
\* when it flipped the generation has run: for every number of CPUs, callbacks,
\* waiters and contending barriers, whoever drains.
THEOREM BarrierComplete == Spec => []BarrierSafe
  <1>1. TypeOK /\ GraceInv /\ SealInv /\ PlaceInv /\ OrderInv /\ [Next]_vars =>
           SealInv' /\ PlaceInv' /\ OrderInv'
    <2> SUFFICES ASSUME TypeOK, GraceInv, SealInv, PlaceInv, OrderInv, [Next]_vars
                 PROVE  SealInv' /\ PlaceInv' /\ OrderInv'
      OBVIOUS
    <2>1. CASE \E c \in Cpus : Reader(c)
      BY Zenon, <2>1, ReaderBarrier DEF Reader
    <2>2. CASE UNCHANGED vars
      <3>1. UNCHANGED <<gpVars, listVars, stateVars, drain, pc, invoked, actorVars>>
        BY Zenon, <2>2 DEF vars, gpVars, listVars, stateVars, actorVars
      <3> QED BY Zenon, <3>1, ReaderBarrier
    <2> QED BY ZenonT(60), <2>1, <2>2, ProducerBarrier, DrainBarrier, SynchronizeBarrier, BarrierStep DEF Next
  <1>2. SealInv /\ PlaceInv /\ OrderInv => BarrierSafe
    BY Zenon DEF PlaceInv, Placed, OrderInv, BarrierSafe, Left
  <1> QED BY <1>1, <1>2, BarrierInit, TypeCorrect, GraceInvariant, PTL DEF Spec
=============================================================================
