--------------------------- MODULE WorkqueueProofs ---------------------------
(***************************************************************************)
(* Proofs about Workqueue, for every number of CPUs, threads and items: an *)
(* evacuation can always put the head back, a stopped pool is empty with   *)
(* all of its threads parked, and no item is in two places.                *)
(***************************************************************************)
EXTENDS Workqueue, TLAPS

-----------------------------------------------------------------------------
(* The rings and the grace period *)

\* The CPU-down before it closes the pool, while it waits for the producers
\* that saw the pool open, and after.
Open == {"idle", "scan", "wait", "unpark"}
Closed == {"evacuate", "next", "move", "check", "pending", "stopped", "cancel"}

Sources == {"absent", "new", "push", "wake", "manage", "queued", "refused"}

RingTypes == ring \in [Cpus -> Seq(Items)] /\ \A c \in Cpus : Len(ring[c]) <= cfg.cap

CallTypes == src \in [Items -> Sources] /\ aim \in [Items -> Cpus]

DownTypes ==
    /\ active \subseteq Cpus /\ Boot \in active
    /\ down \in Open \union {"grace"} \union Closed
    /\ down \notin Open => Victim \notin active
    /\ moving \in Items \union {NoItem} /\ (down = "move" <=> moving # NoItem)

\* The producers that still aim at the closed pool are the ones the grace
\* period waits for, and after it there are none.
Aimed ==
    \A i \in Guarded : aim[i] = Victim => /\ down \notin Closed
                                          /\ down = "grace" => i \in grace

\* The evacuation's own slot stays free, and a ring that was found empty stays so.
Room ==
    /\ down = "move" => Len(ring[Victim]) < cfg.cap
    /\ down = "stopped" => ring[Victim] = <<>>

RingInv == cfg \in Settings /\ RingTypes /\ CallTypes /\ DownTypes /\ Aimed /\ Room /\ ~broken

-----------------------------------------------------------------------------
(* The threads and the parking *)

Manager == <<Victim, 0>>
Mine(t) == Alive(t) /\ Cpu(t) = Victim

ThreadTypes ==
    /\ DOMAIN pc = Threads /\ pinned \subseteq {t \in Threads : Alive(t)} /\ scan \subseteq Bound
    /\ park \in [Threads -> BOOLEAN] /\ parked \in [Threads -> BOOLEAN]
    /\ again \in BOOLEAN

\* Only a manager spawns, and a thread that it has not bound yet keeps it busy.
Spawned ==
    \A t \in Threads :
        /\ pc[t] \in {"spawn", "bind"} => IsManager(t)
        /\ Alive(t) /\ t \notin pinned => ~IsManager(t) /\ pc[<<Cpu(t), 0>>] = "bind"

\* A parked thread stays where it is; one that is asked to park has done so,
\* except while the coordinator waits for it.
ParkOrder ==
    \A t \in Threads :
        /\ parked[t] => park[t] /\ pc[t] = "parked"
        /\ park[t] /\ down # "wait" => parked[t]

\* A pass that parked nobody has found every thread of the pool parked, or has
\* still to visit it or the manager that is about to bind it.
Visited ==
    /\ down = "wait" => again
    /\ down = "scan" /\ ~again =>
          \A t \in Threads : Mine(t) => t \in scan \/ parked[t] \/ (Manager \in scan /\ ~parked[Manager])
    /\ down \notin Open => \A t \in Threads : Mine(t) => parked[t]

ParkInv == ThreadTypes /\ Spawned /\ ParkOrder /\ Visited

\* What the operations of a ring make of it.
LEMMA Ring ==
    ASSUME NEW s \in Seq(Items)
    PROVE  /\ Len(s) \in Nat
           /\ s # <<>> => Head(s) \in Items /\ Tail(s) \in Seq(Items) /\ Len(Tail(s)) = Len(s) - 1
           /\ \A i \in Items : Append(s, i) \in Seq(Items) /\ Len(Append(s, i)) = Len(s) + 1
           /\ \A i \in Items : <<i>> \o s \in Seq(Items) /\ Len(<<i>> \o s) = Len(s) + 1
  OBVIOUS

\* The boot CPU stays active, so placement_guard finds an active CPU.
LEMMA Placed ==
    ASSUME DownTypes, NEW c
    PROVE  PlaceOn(c) \in active
  <1>1. Boot \in Cpus /\ \A b \in Cpus : Boot <= b
    BY CpuNumbers, Zenon DEF Boot, Min
  <1>2. \E x \in active : \A y \in active : x <= y
    BY <1>1, Zenon DEF DownTypes
  <1>3. Min(active) \in active
    BY <1>2, Zenon DEF Min
  <1> QED BY <1>3, Zenon DEF PlaceOn

\* What a step may change of the settings.
LEMMA Counted ==
    ASSUME NEW f \in Settings, NEW n \in Nat
    PROVE  /\ [f EXCEPT !.downs = n] \in Settings
           /\ [f EXCEPT !.downs = n].cap = f.cap /\ [f EXCEPT !.downs = n].victim = f.victim /\ [f EXCEPT !.downs = n].max = f.max
           /\ [f EXCEPT !.fails = n] \in Settings
           /\ [f EXCEPT !.fails = n].cap = f.cap /\ [f EXCEPT !.fails = n].victim = f.victim /\ [f EXCEPT !.fails = n].max = f.max
  <1>1. /\ [f EXCEPT !.downs = n] \in Settings
        /\ [f EXCEPT !.downs = n].cap = f.cap /\ [f EXCEPT !.downs = n].victim = f.victim /\ [f EXCEPT !.downs = n].max = f.max
    BY Zenon DEF Settings
  <1>2. /\ [f EXCEPT !.fails = n] \in Settings
        /\ [f EXCEPT !.fails = n].cap = f.cap /\ [f EXCEPT !.fails = n].victim = f.victim /\ [f EXCEPT !.fails = n].max = f.max
    BY Zenon DEF Settings
  <1> QED BY <1>1, <1>2

LEMMA SettingsSame ==
    ASSUME RingInv, Request \/ (\E t \in Threads : SpawnFails(t))
    PROVE  cfg' \in Settings /\ cfg'.cap = cfg.cap /\ cfg'.victim = cfg.victim /\ cfg'.max = cfg.max
  <1>1. cfg \in Settings /\ cfg.downs \in Nat /\ cfg.fails \in Nat
    BY DEF RingInv, Settings
  <1>2. CASE Request
    <2>1. cfg.downs - 1 \in Nat
      BY <1>1, <1>2 DEF Request
    <2> QED BY <1>1, <1>2, <2>1, Counted, Zenon DEF Request
  <1>3. ASSUME NEW t \in Threads, SpawnFails(t)
        PROVE  cfg' \in Settings /\ cfg'.cap = cfg.cap /\ cfg'.victim = cfg.victim /\ cfg'.max = cfg.max
    <2>1. cfg.fails - 1 \in Nat
      BY <1>1, <1>3 DEF SpawnFails
    <2> QED BY <1>1, <1>3, <2>1, Counted, Zenon DEF SpawnFails
  <1> QED BY <1>2, <1>3

\* The ring of c changes, and of the pool that is closed only while that is so.
LEMMA RingChange ==
    ASSUME RingInv, NEW c \in Cpus, NEW s \in Seq(Items), Len(s) <= cfg.cap, ring' = [ring EXCEPT ![c] = s], UNCHANGED cfg
    PROVE  RingTypes' /\ (c # Victim => ring'[Victim] = ring[Victim]) /\ ring'[c] = s
  <1>1. ring \in [Cpus -> Seq(Items)] /\ \A b \in Cpus : Len(ring[b]) <= cfg.cap
    BY Zenon DEF RingInv, RingTypes
  <1>2. ring' \in [Cpus -> Seq(Items)] /\ ring'[c] = s /\ \A b \in Cpus : b # c => ring'[b] = ring[b]
    BY <1>1
  <1>3. Victim \in Cpus
    BY DEF RingInv, Settings, Victim
  <1>4. \A b \in Cpus : Len(ring'[b]) <= cfg'.cap
    BY <1>1, <1>2, Zenon
  <1> QED BY <1>2, <1>3, <1>4, Zenon DEF RingTypes

\* No call starts or changes its CPU.
LEMMA AimedStays ==
    ASSUME RingInv, UNCHANGED <<cfg, aim, down, grace>>, \A j \in Items : j \in Guarded' => j \in Guarded
    PROVE  Aimed'
  BY Zenon DEF RingInv, Aimed, Guarded, Victim

LEMMA ProducerRing ==
    ASSUME RingInv, NEW i \in Items, Producer(i)
    PROVE  RingInv'
  <1>t. /\ cfg \in Settings /\ RingTypes /\ CallTypes /\ DownTypes /\ Aimed /\ Room /\ ~broken
        /\ src \in [Items -> Sources] /\ aim \in [Items -> Cpus] /\ aim[i] \in Cpus
    BY Zenon DEF RingInv, CallTypes
  <1>d. UNCHANGED <<cfg, active, grace, down, moving, broken>>
    BY Zenon DEF Producer, Submit, Push, Refuse, WakeWorker, WakeManager, mask, coord
  <1>1. DownTypes'
    BY <1>t, <1>d, Zenon DEF DownTypes, Victim
  <1>2. CASE Submit(i)
    <2>1. PlaceOn(cfg.target[i]) \in active /\ PlaceOn(cfg.target[i]) \in Cpus
      BY <1>t, Placed, Zenon DEF DownTypes
    <2>2. /\ UNCHANGED ring /\ aim'[i] \in active /\ \A j \in Items : j # i => src'[j] = src[j] /\ aim'[j] = aim[j]
          /\ src' \in [Items -> Sources] /\ aim' \in [Items -> Cpus]
      BY <1>t, <1>2, <2>1 DEF Submit, queues, Sources
    <2>3. aim'[i] = Victim => down \in Open
      BY <1>t, <2>2, Zenon DEF DownTypes
    <2>4. Aimed'
      BY <1>t, <1>d, <2>2, <2>3 DEF Aimed, Guarded, Victim, Open, Closed
    <2> QED BY <1>t, <1>d, <1>1, <2>2, <2>4, Zenon DEF RingInv, RingTypes, CallTypes, Room, Victim
  <1>3. CASE Push(i)
    <2>1. ring[aim[i]] \in Seq(Items) /\ Len(ring[aim[i]]) <= cfg.cap /\ cfg.cap \in Nat
      BY <1>t, Zenon DEF RingTypes, Settings
    <2>2. Append(ring[aim[i]], i) \in Seq(Items) /\ Len(Append(ring[aim[i]], i)) <= cfg.cap
      BY <1>3, <2>1, Ring DEF Push, Full
    <2>3. ring' = [ring EXCEPT ![aim[i]] = Append(ring[aim[i]], i)] /\ src' = [src EXCEPT ![i] = "wake"] /\ UNCHANGED aim
      BY <1>3, Zenon DEF Push
    <2>4. RingTypes' /\ (aim[i] # Victim => ring'[Victim] = ring[Victim])
      BY <1>t, <1>d, <2>2, <2>3, RingChange, Zenon
    <2>5. i \in Guarded
      BY <1>3, Zenon DEF Push, Guarded
    <2>6. Room'
      BY <1>t, <1>d, <2>4, <2>5, Zenon DEF Room, Aimed, Closed, Victim
    <2>7. CallTypes' /\ \A j \in Items : j \in Guarded' => j \in Guarded
      BY <1>t, <2>3, <2>5 DEF CallTypes, Guarded, Sources
    <2>8. Aimed'
      BY <1>d, <2>3, <2>7, AimedStays, Zenon
    <2> QED BY <1>t, <1>d, <1>1, <2>4, <2>6, <2>7, <2>8, Zenon DEF RingInv
  <1>4. CASE Refuse(i) \/ WakeWorker(i) \/ WakeManager(i)
    <2>1. UNCHANGED <<ring, aim>> /\ \E l \in Sources : src' = [src EXCEPT ![i] = l] /\ i \in Guarded
      BY <1>4, Zenon DEF Refuse, WakeWorker, WakeManager, Sources, Guarded, queues
    <2>2. CallTypes' /\ \A j \in Items : j \in Guarded' => j \in Guarded
      BY <1>t, <2>1 DEF CallTypes, Guarded, Sources
    <2>3. Aimed'
      BY <1>d, <2>1, <2>2, AimedStays, Zenon
    <2> QED BY <1>t, <1>d, <1>1, <2>1, <2>2, <2>3, Zenon DEF RingInv, RingTypes, Room, Victim
  <1> QED BY <1>2, <1>3, <1>4, Zenon DEF Producer

\* A step that leaves the rings, the calls and the CPU-down alone.
LEMMA RingSame ==
    ASSUME RingInv, UNCHANGED <<ring, src, aim, active, grace, down, moving, broken>>,
           cfg' \in Settings, cfg'.cap = cfg.cap, cfg'.victim = cfg.victim
    PROVE  RingInv'
  BY Zenon DEF RingInv, RingTypes, CallTypes, DownTypes, Aimed, Room, Guarded, Victim

\* Only a pop changes a ring, and only a failed spawn the settings.
LEMMA ThreadRing ==
    ASSUME RingInv, NEW t \in Threads, Thread(t)
    PROVE  RingInv'
  <1>t. cfg \in Settings /\ RingTypes /\ CallTypes /\ DownTypes /\ Aimed /\ Room /\ ~broken
    BY Zenon DEF RingInv
  <1>1. CASE SpawnFails(t)
    <2>1. UNCHANGED <<ring, src, aim, active, grace, down, moving, broken>>
      BY <1>1, Zenon DEF SpawnFails, queues, calls, mask, coord
    <2> QED BY <1>1, <2>1, SettingsSame, RingSame, Zenon
  <1>2. CASE Pop(t) /\ ring[Cpu(t)] # <<>>
    <2>1. UNCHANGED <<cfg, src, aim, active, grace, down, moving, broken>> /\ Cpu(t) \in Cpus
      BY <1>2 DEF Pop, calls, mask, coord, Threads, Cpu
    <2>2. ring[Cpu(t)] \in Seq(Items) /\ Len(ring[Cpu(t)]) <= cfg.cap /\ cfg.cap \in Nat
      BY <1>t, <2>1, Zenon DEF RingTypes, Settings
    <2>3. Tail(ring[Cpu(t)]) \in Seq(Items) /\ Len(Tail(ring[Cpu(t)])) <= cfg.cap /\ Len(Tail(ring[Cpu(t)])) < cfg.cap
      BY <1>2, <2>2, Ring
    <2>4. ring' = [ring EXCEPT ![Cpu(t)] = Tail(ring[Cpu(t)])]
      BY <1>2, Zenon DEF Pop
    <2>5. RingTypes' /\ (Cpu(t) # Victim => ring'[Victim] = ring[Victim]) /\ ring'[Cpu(t)] = Tail(ring[Cpu(t)])
      BY <2>1, <2>3, <2>4, RingChange, Zenon
    <2>6. Room'
      <3>1. CASE Cpu(t) # Victim
        BY <1>t, <2>1, <2>5, <3>1, Zenon DEF Room, Victim
      <3>2. CASE Cpu(t) = Victim
        <4>1. down # "stopped"
          BY <1>t, <1>2, <3>2, Zenon DEF Room
        <4>2. Len(ring'[Victim]) < cfg.cap
          BY <2>3, <2>5, <3>2, Zenon
        <4> QED BY <1>t, <2>1, <4>1, <4>2, Zenon DEF Room, Victim
      <3> QED BY <3>1, <3>2
    <2>7. CallTypes' /\ DownTypes' /\ Aimed'
      BY <1>t, <2>1, Zenon DEF CallTypes, DownTypes, Aimed, Guarded, Victim
    <2> QED BY <1>t, <2>1, <2>5, <2>6, <2>7, Zenon DEF RingInv
  <1>3. ASSUME ~SpawnFails(t), ~(Pop(t) /\ ring[Cpu(t)] # <<>>)
        PROVE  UNCHANGED <<cfg, ring, src, aim, active, grace, down, moving, broken>>
    <2>1. CASE Wait(t)
      BY <2>1, Zenon DEF Wait, Publish, Sample, Recheck, Resume, queues, calls, mask, coord
    <2>2. CASE Worker(t)
      BY <1>3, <2>2, Zenon DEF Worker, TestPending, Pop, Begin, Notify, Run, End, queues, calls, mask, coord
    <2>3. CASE ParkIfRequested(t) \/ Unparked(t) \/ Decide(t) \/ Spawn(t) \/ Bind(t)
      BY <2>3, Zenon DEF ParkIfRequested, Unparked, Decide, Spawn, Bind, queues, calls, mask, coord
    <2> QED BY <1>3, <2>1, <2>2, <2>3, Zenon DEF Thread
  <1> QED BY <1>t, <1>1, <1>2, <1>3, RingSame, Zenon

\* A stage that leaves the pool open or opens it.
LEMMA OpenStep ==
    ASSUME RingInv, UNCHANGED <<ring, src, aim, moving, broken>>, moving = NoItem,
           cfg' \in Settings, cfg'.cap = cfg.cap, cfg'.victim = cfg.victim,
           down' \in Open, active' \subseteq Cpus, Boot \in active'
    PROVE  RingInv'
  <1>1. down' \notin Closed /\ down' # "grace" /\ down' # "move" /\ down' # "stopped"
    BY DEF Open, Closed
  <1> QED BY <1>1, Zenon DEF RingInv, RingTypes, CallTypes, DownTypes, Aimed, Room, Guarded, Victim

\* A stage of a closed pool that moves no item.
LEMMA ClosedStep ==
    ASSUME RingInv, UNCHANGED <<cfg, ring, src, aim, active, broken>>, down \in Closed, down' \in Closed,
           down' # "move", moving' = NoItem, down' = "stopped" => ring[Victim] = <<>>
    PROVE  RingInv'
  <1>1. down \notin Open /\ down' \notin Open /\ down # "grace" /\ down' # "grace"
    BY DEF Open, Closed
  <1> QED BY <1>1, Zenon DEF RingInv, RingTypes, CallTypes, DownTypes, Aimed, Room, Guarded, Victim

\* The mask is cleared and the grace period covers the guards that are held.
LEMMA DeactivateRing ==
    ASSUME RingInv, Deactivate
    PROVE  RingInv'
  <1>1. Victim \in Cpus /\ Victim # Boot
    BY DEF RingInv, Settings, Victim
  <1>2. /\ UNCHANGED <<cfg, ring, src, aim, moving, broken>> /\ down = "scan" /\ down' = "grace"
        /\ active' = active \ {Victim} /\ grace' = Guarded
    BY Zenon DEF Deactivate, CloseMask, Down, queues, calls
  <1>3. DownTypes'
    BY <1>1, <1>2 DEF RingInv, DownTypes, Victim, Open
  <1>4. Aimed'
    BY <1>2 DEF Aimed, Guarded, Closed
  <1>5. Room' /\ RingTypes' /\ CallTypes'
    BY <1>2, Zenon DEF RingInv, RingTypes, CallTypes, Room
  <1> QED BY <1>2, <1>3, <1>4, <1>5, Zenon DEF RingInv

\* No guard that was held at the deactivation is left.
LEMMA EndGraceRing ==
    ASSUME RingInv, EndGrace
    PROVE  RingInv'
  <1>1. /\ UNCHANGED <<cfg, ring, src, aim, active, moving, broken>> /\ down = "grace" /\ down' = "evacuate"
        /\ grace \cap Guarded = {}
    BY Zenon DEF EndGrace, Down, queues, calls
  <1>2. DownTypes'
    BY <1>1 DEF RingInv, DownTypes, Victim, Open, Closed
  <1>3. \A i \in Guarded : aim[i] # Victim
    BY <1>1, Zenon DEF RingInv, Aimed
  <1>4. Aimed'
    BY <1>1, <1>3, Zenon DEF Aimed, Guarded, Victim
  <1>5. Room' /\ RingTypes' /\ CallTypes'
    BY <1>1, Zenon DEF RingInv, RingTypes, CallTypes, Room
  <1> QED BY <1>1, <1>2, <1>4, <1>5, Zenon DEF RingInv

\* The head leaves its slot free, and its own placement finds another CPU.
LEMMA TakeHeadRing ==
    ASSUME RingInv, TakeHead
    PROVE  RingInv'
  <1>t. /\ cfg \in Settings /\ RingTypes /\ CallTypes /\ DownTypes /\ Aimed /\ Room /\ ~broken
        /\ src \in [Items -> Sources] /\ aim \in [Items -> Cpus]
    BY Zenon DEF RingInv, CallTypes
  <1>v. Victim \in Cpus /\ cfg.cap \in Nat
    BY <1>t DEF Settings, Victim
  <1>r. ring[Victim] \in Seq(Items) /\ Len(ring[Victim]) <= cfg.cap
    BY <1>t, <1>v, Zenon DEF RingTypes
  <1>n. down = "next" /\ down' = "move" /\ ring[Victim] # <<>> /\ UNCHANGED <<cfg, active, grace, broken>>
    BY Zenon DEF TakeHead, Down, mask
  <1>c. down \in Closed /\ down' \in Closed /\ down \notin Open /\ down' \notin Open /\ down' # "grace" /\ down' # "stopped"
    BY <1>n DEF Open, Closed
  <1>1. PICK i \in Items : i = Head(ring[Victim])
    BY <1>r, <1>n, Ring, Zenon
  <1>2. Tail(ring[Victim]) \in Seq(Items) /\ Len(Tail(ring[Victim])) < cfg.cap /\ Len(Tail(ring[Victim])) <= cfg.cap
    BY <1>v, <1>r, <1>n, Ring
  <1>3. /\ moving' = i /\ ring' = [ring EXCEPT ![Victim] = Tail(ring[Victim])]
        /\ src' = [src EXCEPT ![i] = "push"] /\ aim' = [aim EXCEPT ![i] = PlaceOn(Victim)]
    BY <1>1, Zenon DEF TakeHead
  <1>4. PlaceOn(Victim) \in active /\ PlaceOn(Victim) # Victim /\ PlaceOn(Victim) \in Cpus
    BY <1>t, <1>c, Placed, Zenon DEF DownTypes
  <1>5. RingTypes' /\ ring'[Victim] = Tail(ring[Victim])
    BY <1>v, <1>n, <1>2, <1>3, RingChange, Zenon
  <1>6. Room'
    BY <1>n, <1>c, <1>2, <1>5, Zenon DEF Room, Victim
  <1>7. CallTypes' /\ aim'[i] = PlaceOn(Victim) /\ \A j \in Items : j # i => src'[j] = src[j] /\ aim'[j] = aim[j]
    BY <1>t, <1>3, <1>4 DEF CallTypes, Sources
  <1>8. \A j \in Guarded' : aim'[j] # Victim
    <2> SUFFICES ASSUME NEW j \in Guarded', j # i PROVE aim'[j] # Victim
      BY <1>4, <1>7, Zenon
    <2>1. j \in Items /\ j \in Guarded /\ aim'[j] = aim[j]
      BY <1>7, Zenon DEF Guarded
    <2> QED BY <1>t, <1>c, <2>1, Zenon DEF Aimed
  <1>9. Aimed'
    BY <1>n, <1>8, Zenon DEF Aimed, Victim
  <1>10. i # NoItem
    BY NoItemIsNone, Zenon
  <1>11. DownTypes'
    BY <1>t, <1>n, <1>c, <1>3, <1>10, Zenon DEF DownTypes, Victim
  <1> QED BY <1>t, <1>n, <1>5, <1>6, <1>7, <1>9, <1>11, Zenon DEF RingInv

\* Nobody has taken the slot, so the kassert on the restored head holds.
LEMMA RestoreRing ==
    ASSUME RingInv, Restore
    PROVE  RingInv'
  <1>t. /\ cfg \in Settings /\ RingTypes /\ CallTypes /\ DownTypes /\ Aimed /\ Room /\ ~broken
        /\ src \in [Items -> Sources] /\ aim \in [Items -> Cpus]
    BY Zenon DEF RingInv, CallTypes
  <1>v. Victim \in Cpus /\ cfg.cap \in Nat
    BY <1>t DEF Settings, Victim
  <1>r. ring[Victim] \in Seq(Items) /\ Len(ring[Victim]) < cfg.cap
    BY <1>t, <1>v, Zenon DEF RingTypes, Room, Restore
  <1>1. ~Full(Victim)
    BY <1>v, <1>r, Ring DEF Full
  <1>2. /\ down = "move" /\ down' = "check" /\ moving' = NoItem /\ UNCHANGED <<cfg, aim, active, grace, broken>>
        /\ ring' = [ring EXCEPT ![Victim] = <<moving>> \o ring[Victim]] /\ src' = [src EXCEPT ![moving] = "queued"]
    BY <1>1, Zenon DEF Restore, Down, mask
  <1>3. moving \in Items
    BY <1>t, <1>2, Zenon DEF DownTypes
  <1>4. <<moving>> \o ring[Victim] \in Seq(Items) /\ Len(<<moving>> \o ring[Victim]) <= cfg.cap
    BY <1>v, <1>r, <1>3, Ring
  <1>5. RingTypes'
    BY <1>v, <1>2, <1>4, RingChange, Zenon
  <1>6. CallTypes' /\ \A j \in Items : j \in Guarded' => j \in Guarded
    BY <1>t, <1>2, <1>3 DEF CallTypes, Guarded, Sources
  <1>7. Aimed'
    BY <1>t, <1>2, <1>6 DEF Aimed, Victim, Guarded, Closed
  <1>8. DownTypes' /\ Room'
    BY <1>t, <1>2 DEF DownTypes, Room, Victim, Open, Closed
  <1> QED BY <1>t, <1>2, <1>5, <1>6, <1>7, <1>8, Zenon DEF RingInv

\* The stages that leave the pool open or open it again.
LEMMA OpenRing ==
    ASSUME RingInv, Request \/ Park \/ Parked \/ Rescan \/ Reopen \/ Unpark
    PROVE  RingInv'
  <1>t. cfg \in Settings /\ DownTypes /\ Victim \in Cpus
    BY DEF RingInv, Settings, Victim
  <1>1. down # "move" /\ down' \in Open /\ UNCHANGED <<ring, src, aim, moving, broken>>
    <2>1. CASE Request \/ Parked \/ Rescan \/ Reopen
      BY <2>1, Zenon DEF Request, Parked, Rescan, Reopen, Down, Open, queues, calls
    <2>2. CASE Park \/ Unpark
      BY <2>2, Zenon DEF Park, Unpark, Down, Open, queues, calls
    <2> QED BY <2>1, <2>2
  <1>2. moving = NoItem
    BY <1>t, <1>1, Zenon DEF DownTypes
  <1>3. active' = active \/ active' = active \cup {Victim}
    BY Zenon DEF Request, Park, Parked, Rescan, Reopen, Unpark, mask
  <1>4. active' \subseteq Cpus /\ Boot \in active'
    BY <1>t, <1>3, Zenon DEF DownTypes
  <1>5. cfg' \in Settings /\ cfg'.cap = cfg.cap /\ cfg'.victim = cfg.victim
    <2>1. CASE Request
      BY <2>1, SettingsSame, Zenon
    <2>2. CASE ~Request
      BY <1>t, <2>2, Zenon DEF Park, Parked, Rescan, Reopen, Unpark
    <2> QED BY <2>1, <2>2
  <1> QED BY <1>1, <1>2, <1>4, <1>5, OpenStep, Zenon

\* The stages of a closed pool that move no item.
LEMMA ClosedRing ==
    ASSUME RingInv, Evacuate \/ Evacuated \/ Moved \/ Check
    PROVE  RingInv'
  <1>t. DownTypes
    BY Zenon DEF RingInv
  <1>1. /\ UNCHANGED <<cfg, ring, src, aim, active, broken>> /\ down \in Closed /\ down' \in Closed
        /\ down' # "move" /\ (down' = "stopped" => ring[Victim] = <<>>)
    <2>1. CASE Evacuate \/ Evacuated \/ Moved
      BY <2>1 DEF Evacuate, Evacuated, Moved, Down, Closed, queues, calls, mask
    <2>2. CASE Check
      BY <2>2 DEF Check, Down, Closed, queues, calls, mask
    <2> QED BY <2>1, <2>2
  <1>2. moving' = NoItem
    BY <1>t DEF DownTypes, Evacuate, Evacuated, Moved, Check
  <1> QED BY <1>1, <1>2, ClosedStep, Zenon

LEMMA RingInit ==
    ASSUME Init
    PROVE  RingInv
  <1>1. cfg \in Settings /\ \A c \in Cpus : Len(cfg.rings[c]) <= cfg.cap
    BY Filled, Zenon DEF Init
  <1>2. Boot \in Cpus
    BY CpuNumbers, Zenon DEF Boot, Min
  <1>3. RingTypes
    BY <1>1, Zenon DEF Init, RingTypes, Settings
  <1>4. CallTypes /\ Guarded = {}
    BY <1>2 DEF Init, CallTypes, Guarded, Sources
  <1>5. DownTypes
    BY <1>2 DEF Init, DownTypes, Open
  <1>6. Room /\ Aimed /\ ~broken
    BY <1>4 DEF Init, Room, Aimed
  <1> QED BY <1>1, <1>3, <1>4, <1>5, <1>6, Zenon DEF RingInv

LEMMA RingNext ==
    ASSUME RingInv, [Next]_vars
    PROVE  RingInv'
  <1>1. CASE \E i \in Items : Producer(i)
    BY <1>1, ProducerRing, Zenon
  <1>2. CASE \E t \in Threads : Thread(t)
    BY <1>2, ThreadRing, Zenon
  <1>3. CASE Request \/ Stage
    BY <1>3, OpenRing, ClosedRing, DeactivateRing, EndGraceRing, TakeHeadRing, RestoreRing, Zenon DEF Stage
  <1>4. CASE UNCHANGED vars
    BY <1>4, RingSame, Zenon DEF vars, queues, calls, mask, coord, RingInv
  <1> QED BY <1>1, <1>2, <1>3, <1>4, Zenon DEF Next

\* An evacuation that finds no room on another CPU can put the head back: the
\* kassert "closed workqueue lost its evacuated head" of evacuate_offline_with
\* never fires, for any number of CPUs, producers and items and any capacity.
\* The grace period is what makes it so: after it no producer aims at the
\* closed ring, so the slot that the head has left stays free.
THEOREM HeadFits == Spec => []HeadRestored
  <1>1. Init => RingInv
    BY RingInit
  <1>2. RingInv /\ [Next]_vars => RingInv'
    BY RingNext
  <1>3. RingInv => HeadRestored
    BY Zenon DEF RingInv, HeadRestored
  <1> QED BY <1>1, <1>2, <1>3, PTL DEF Spec

-----------------------------------------------------------------------------
(* Parking *)

\* A thread goes from one place to another.
LEMMA Goes ==
    ASSUME ThreadTypes, NEW t \in Threads, NEW p, Goto(t, p)
    PROVE  DOMAIN pc' = Threads /\ pc'[t] = p /\ \A u \in Threads : u # t => pc'[u] = pc[u]
  BY DEF ThreadTypes, Goto

\* A thread's CPU and its manager.
LEMMA Homes ==
    ASSUME NEW t \in Threads
    PROVE  Cpu(t) \in Cpus /\ <<Cpu(t), 0>> \in Threads /\ IsManager(<<Cpu(t), 0>>) /\ (IsManager(t) => t = <<Cpu(t), 0>>)
  BY ThreadBound DEF Threads, Cpu, IsManager

\* Nothing that the parking looks at changes.
LEMMA ParkSame ==
    ASSUME ParkInv, cfg'.victim = cfg.victim, UNCHANGED <<pc, pinned, park, parked, down, scan, again>>
    PROVE  ParkInv'
  BY ZenonT(60) DEF ParkInv, ThreadTypes, Spawned, ParkOrder, Visited, Mine, Manager, Alive, Bound, Victim

\* A thread that is not parked takes a step of its loop.
LEMMA ParkStep ==
    ASSUME ParkInv, cfg'.victim = cfg.victim, UNCHANGED <<pinned, park, parked, down, scan, again>>,
           NEW t \in Threads, NEW p, Goto(t, p), ~parked[t], Alive(t), pc[t] # "bind",
           p # "none", p # "bind", p = "spawn" => IsManager(t)
    PROVE  ParkInv'
  <1>t. ThreadTypes /\ Spawned /\ ParkOrder /\ Visited
    BY Zenon DEF ParkInv
  <1>p. DOMAIN pc' = Threads /\ pc'[t] = p /\ \A u \in Threads : u # t => pc'[u] = pc[u]
    BY <1>t, Goes, Zenon
  <1>a. \A u \in Threads : Alive(u)' = Alive(u)
    BY <1>p, Zenon DEF Alive
  <1>1. ThreadTypes'
    BY <1>t, <1>p, <1>a, ZenonT(60) DEF ThreadTypes, Bound, Victim
  <1>2. Spawned'
    <2> SUFFICES ASSUME NEW u \in Threads
                 PROVE  /\ pc'[u] \in {"spawn", "bind"} => IsManager(u)
                        /\ Alive(u) /\ u \notin pinned => ~IsManager(u) /\ pc'[<<Cpu(u), 0>>] = "bind"
      BY <1>a, Zenon DEF Spawned
    <2>1. pc'[u] \in {"spawn", "bind"} => IsManager(u)
      BY <1>t, <1>p, Zenon DEF Spawned
    <2>2. ASSUME Alive(u), u \notin pinned PROVE ~IsManager(u) /\ pc'[<<Cpu(u), 0>>] = "bind"
      BY <1>t, <1>p, <2>2, Homes, Zenon DEF Spawned
    <2> QED BY <2>1, <2>2
  <1>3. ParkOrder'
    BY <1>t, <1>p, Zenon DEF ParkOrder
  <1>4. Visited'
    BY <1>t, <1>a, Zenon DEF Visited, Mine, Manager, Victim
  <1> QED BY <1>1, <1>2, <1>3, <1>4, Zenon DEF ParkInv

\* The thread finds a request and acknowledges it, or finds none.
LEMMA AcknowledgeStep ==
    ASSUME ParkInv, NEW t \in Threads, ParkIfRequested(t)
    PROVE  ParkInv'
  <1>t. ThreadTypes /\ Spawned /\ ParkOrder /\ Visited
    BY Zenon DEF ParkInv
  <1>u. UNCHANGED <<cfg, pinned, park, down, scan, again>> /\ pc[t] = "head"
    BY Zenon DEF ParkIfRequested, spawns, coord
  <1>n. ~parked[t]
    BY <1>t, <1>u, Zenon DEF ParkOrder
  <1>1. CASE ~park[t]
    <2>1. parked' = parked
      BY <1>t, <1>n, <1>1 DEF ParkIfRequested, ThreadTypes
    <2>2. Goto(t, "test")
      BY <1>1, Zenon DEF ParkIfRequested
    <2> QED BY <1>u, <1>n, <2>1, <2>2, ParkStep DEF Alive
  <1>2. CASE park[t]
    <2>1. down = "wait"
      BY <1>t, <1>n, <1>2, Zenon DEF ParkOrder
    <2>2. Goto(t, "parked")
      BY <1>2, Zenon DEF ParkIfRequested
    <2>p. DOMAIN pc' = Threads /\ pc'[t] = "parked" /\ \A u \in Threads : u # t => pc'[u] = pc[u]
      BY <1>t, <2>2, Goes, Zenon
    <2>a. \A u \in Threads : Alive(u)' = Alive(u)
      BY <1>u, <2>p, Zenon DEF Alive
    <2>3. parked' \in [Threads -> BOOLEAN] /\ \A u \in Threads : u # t => parked'[u] = parked[u]
      BY <1>t DEF ParkIfRequested, ThreadTypes
    <2>4. ThreadTypes'
      BY <1>t, <1>u, <2>p, <2>a, <2>3, ZenonT(60) DEF ThreadTypes, Bound, Victim
    <2>5. Spawned'
      BY <1>t, <1>u, <2>p, <2>a, Homes DEF Spawned
    <2>6. ParkOrder'
      BY <1>t, <1>u, <1>2, <2>1, <2>p, <2>3, ZenonT(60) DEF ParkOrder
    <2>7. Visited'
      BY <1>t, <1>u, <2>1 DEF Visited, Open
    <2> QED BY <2>4, <2>5, <2>6, <2>7, Zenon DEF ParkInv
  <1> QED BY <1>1, <1>2

\* A new thread is one more that the coordinator has to find: its manager is
\* not parked, so the manager is still to be visited.
LEMMA SpawnStep ==
    ASSUME ParkInv, Victim \in Cpus, NEW t \in Threads, Spawn(t)
    PROVE  ParkInv'
  <1>t. ThreadTypes /\ Spawned /\ ParkOrder /\ Visited
    BY Zenon DEF ParkInv
  <1>u. UNCHANGED <<cfg, pinned, park, parked, down, scan, again>> /\ pc[t] = "spawn"
    BY Zenon DEF Spawn, spawns, parks, coord
  <1>n. ~parked[t] /\ IsManager(t) /\ t = <<Cpu(t), 0>> /\ Alive(t)
    BY <1>t, <1>u, Homes, Zenon DEF ParkOrder, Spawned, Alive
  <1>1. PICK u \in Fresh(Cpu(t)) : pc' = [pc EXCEPT ![u] = "head", ![t] = "bind"]
    BY Zenon DEF Spawn
  <1>2. u \in Threads /\ Cpu(u) = Cpu(t) /\ ~IsManager(u) /\ pc[u] = "none" /\ u # t
    BY <1>n, Zenon DEF Fresh, Alive
  <1>p. /\ DOMAIN pc' = Threads /\ pc'[t] = "bind" /\ pc'[u] = "head"
        /\ \A v \in Threads : v # t /\ v # u => pc'[v] = pc[v]
    BY <1>t, <1>1, <1>2 DEF ThreadTypes
  <1>a. Alive(u)' /\ Alive(t)' /\ \A v \in Threads : v # u => Alive(v)' = Alive(v)
    BY <1>n, <1>p DEF Alive
  <1>3. ThreadTypes'
    BY <1>t, <1>u, <1>p, <1>a, Zenon DEF ThreadTypes, Bound, Victim
  <1>4. Spawned'
    <2> SUFFICES ASSUME NEW v \in Threads
                 PROVE  /\ pc'[v] \in {"spawn", "bind"} => IsManager(v)
                        /\ Alive(v)' /\ v \notin pinned => ~IsManager(v) /\ pc'[<<Cpu(v), 0>>] = "bind"
      BY <1>u, Zenon DEF Spawned
    <2>1. pc'[v] \in {"spawn", "bind"} => IsManager(v)
      BY <1>t, <1>n, <1>p, Zenon DEF Spawned
    <2>2. ASSUME Alive(v)', v \notin pinned, v # u PROVE ~IsManager(v) /\ pc'[<<Cpu(v), 0>>] = "bind"
      <3>1. ~IsManager(v) /\ pc[<<Cpu(v), 0>>] = "bind" /\ <<Cpu(v), 0>> \in Threads
        BY <1>t, <1>a, <2>2, Homes, Zenon DEF Spawned
      <3>2. <<Cpu(v), 0>> # u /\ <<Cpu(v), 0>> # t
        BY <1>u, <1>2, <3>1
      <3> QED BY <1>p, <3>1, <3>2, Zenon
    <2> QED BY <1>n, <1>2, <1>p, <2>1, <2>2, Zenon
  <1>5. ParkOrder'
    <2>1. ~parked[u]
      BY <1>t, <1>2 DEF ParkOrder
    <2> QED BY <1>t, <1>u, <1>n, <1>p, <2>1, Zenon DEF ParkOrder
  <1>6. Visited'
    <2>1. CASE Cpu(t) # Victim
      BY <1>t, <1>u, <1>2, <1>a, <2>1, Zenon DEF Visited, Mine, Manager, Victim
    <2>2. CASE Cpu(t) = Victim
      <3>1. t = Manager /\ Mine(t)
        BY <1>n, <2>2, Zenon DEF Manager, Mine
      <3>2. down \in Open
        BY <1>t, <1>n, <3>1, Zenon DEF Visited
      <3>3. down = "scan" /\ ~again => Manager \in scan /\ ~parked[Manager]
        BY <1>t, <1>n, <3>1, Zenon DEF Visited
      <3> QED BY <1>t, <1>u, <3>2, <3>3, Zenon DEF Visited, Manager, Victim
    <2> QED BY <2>1, <2>2
  <1> QED BY <1>3, <1>4, <1>5, <1>6, Zenon DEF ParkInv

LEMMA BindStep ==
    ASSUME ParkInv, NEW t \in Threads, Bind(t)
    PROVE  ParkInv'
  <1>t. ThreadTypes /\ Spawned /\ ParkOrder /\ Visited
    BY Zenon DEF ParkInv
  <1>u. /\ UNCHANGED <<cfg, park, parked, down, scan, again>> /\ pc[t] = "bind"
        /\ pinned' = pinned \cup {u \in Threads : Cpu(u) = Cpu(t) /\ Alive(u)}
    BY Zenon DEF Bind, parks, coord
  <1>n. ~parked[t] /\ IsManager(t) /\ Alive(t)
    BY <1>t, <1>u, Zenon DEF ParkOrder, Spawned, Alive
  <1>1. PICK p \in {"publish", "spawn"} : Goto(t, p)
    BY Zenon DEF Bind
  <1>p. DOMAIN pc' = Threads /\ pc'[t] = p /\ \A u \in Threads : u # t => pc'[u] = pc[u]
    BY <1>t, <1>1, Goes, Zenon
  <1>a. \A u \in Threads : Alive(u)' = Alive(u)
    BY <1>n, <1>p DEF Alive
  <1>2. ThreadTypes'
    BY <1>t, <1>u, <1>p, <1>a, Zenon DEF ThreadTypes, Bound, Victim
  <1>3. Spawned'
    <2> SUFFICES ASSUME NEW v \in Threads
                 PROVE  /\ pc'[v] \in {"spawn", "bind"} => IsManager(v)
                        /\ Alive(v) /\ v \notin pinned' => ~IsManager(v) /\ pc'[<<Cpu(v), 0>>] = "bind"
      BY <1>a, Zenon DEF Spawned
    <2>1. pc'[v] \in {"spawn", "bind"} => IsManager(v)
      BY <1>t, <1>n, <1>p, Zenon DEF Spawned
    <2>2. ASSUME Alive(v), v \notin pinned' PROVE ~IsManager(v) /\ pc'[<<Cpu(v), 0>>] = "bind"
      <3>1. v \notin pinned /\ Cpu(v) # Cpu(t)
        BY <1>u, <2>2, Zenon
      <3>2. ~IsManager(v) /\ pc[<<Cpu(v), 0>>] = "bind" /\ <<Cpu(v), 0>> \in Threads
        BY <1>t, <2>2, <3>1, Homes, Zenon DEF Spawned
      <3>3. <<Cpu(v), 0>> # t
        BY <3>1 DEF Cpu
      <3> QED BY <1>p, <3>2, <3>3, Zenon
    <2> QED BY <2>1, <2>2
  <1>4. ParkOrder'
    BY <1>t, <1>u, <1>n, <1>p, Zenon DEF ParkOrder
  <1>5. Visited'
    BY <1>t, <1>u, <1>a, Zenon DEF Visited, Mine, Manager, Victim
  <1> QED BY <1>2, <1>3, <1>4, <1>5, Zenon DEF ParkInv

\* The places of a thread's loop, those of spawn_worker apart.
LoopPoints == {"head", "test", "publish", "recheck", "yield", "pop", "begin", "notify", "run", "end"}

LEMMA ThreadPark ==
    ASSUME ParkInv, cfg'.victim = cfg.victim, Victim \in Cpus, NEW t \in Threads, Thread(t)
    PROVE  ParkInv'
  <1>o. parked[t] => pc[t] = "parked"
    BY ZenonT(60) DEF ParkInv, ParkOrder
  <1>u. Wait(t) \/ Worker(t) \/ Unparked(t) \/ Decide(t) \/ SpawnFails(t) => UNCHANGED <<pinned, park, parked, down, scan, again>>
    <2>1. CASE Wait(t)
      BY <2>1, Zenon DEF Wait, Publish, Sample, Recheck, Resume, spawns, parks, coord
    <2>2. CASE Worker(t)
      BY <2>2, Zenon DEF Worker, TestPending, Pop, Begin, Notify, Run, End, spawns, parks, coord
    <2>3. CASE Unparked(t) \/ Decide(t) \/ SpawnFails(t)
      BY <2>3, Zenon DEF Unparked, Decide, SpawnFails, spawns, parks, coord
    <2> QED BY <2>1, <2>2, <2>3
  <1>1. CASE Sample(t)
    <2>1. UNCHANGED pc
      BY <1>1, Zenon DEF Sample
    <2> QED BY <1>u, <1>1, <2>1, ParkSame, Zenon DEF Wait
  <1>2. ASSUME NEW p \in LoopPoints \cup {"spawn"}, Goto(t, p), p = "spawn" => IsManager(t),
               pc[t] \in LoopPoints \cup {"spawn"} \/ (pc[t] = "parked" /\ ~parked[t]),
               Wait(t) \/ Worker(t) \/ Unparked(t) \/ Decide(t) \/ SpawnFails(t)
        PROVE  ParkInv'
    <2>1. ~parked[t] /\ Alive(t) /\ pc[t] # "bind" /\ p # "none" /\ p # "bind"
      BY <1>o, <1>2 DEF LoopPoints, Alive
    <2> QED BY <1>u, <1>2, <2>1, ParkStep, ZenonT(60)
  <1>3. CASE Wait(t) /\ ~Sample(t)
    <2>1. \E p \in LoopPoints : Goto(t, p)
      BY <1>3, Zenon DEF Wait, Publish, Recheck, Resume, EndWait, LoopPoints
    <2>2. pc[t] \in LoopPoints
      BY <1>3, Zenon DEF Wait, Publish, Recheck, Resume, LoopPoints
    <2>3. "spawn" \notin LoopPoints
      BY DEF LoopPoints
    <2> QED BY <1>2, <1>3, <2>1, <2>2, <2>3, Zenon
  <1>4. CASE Worker(t)
    <2>1. \E p \in LoopPoints : Goto(t, p)
      BY <1>4, Zenon DEF Worker, TestPending, Pop, Begin, Notify, Run, End, LoopPoints
    <2>2. pc[t] \in LoopPoints
      BY <1>4, Zenon DEF Worker, TestPending, Pop, Begin, Notify, Run, End, LoopPoints
    <2>3. "spawn" \notin LoopPoints
      BY DEF LoopPoints
    <2> QED BY <1>2, <1>4, <2>1, <2>2, <2>3, Zenon
  <1>5. CASE Unparked(t)
    BY <1>2, <1>5 DEF Unparked, LoopPoints
  <1>6. CASE Decide(t)
    <2>1. \E p \in {"publish", "spawn"} : Goto(t, p)
      BY <1>6, Zenon DEF Decide
    <2>2. pc[t] \in LoopPoints /\ IsManager(t)
      BY <1>6, Zenon DEF Decide, LoopPoints
    <2> QED BY <1>2, <1>6, <2>1, <2>2, Zenon DEF LoopPoints
  <1>7. CASE SpawnFails(t)
    BY <1>2, <1>7 DEF SpawnFails, LoopPoints
  <1> QED BY <1>1, <1>3, <1>4, <1>5, <1>6, <1>7, AcknowledgeStep, SpawnStep, BindStep, Zenon DEF Thread

\* What a snapshot of the bound threads misses: a thread whose manager is
\* about to bind it, and the manager is in the snapshot.
LEMMA Snapshot ==
    ASSUME ParkInv, Victim \in Cpus
    PROVE  \A u \in Threads : Mine(u) => u \in Bound \/ (Manager \in Bound /\ ~parked[Manager])
  <1> SUFFICES ASSUME NEW u \in Threads, Mine(u), u \notin pinned
               PROVE  Manager \in Bound /\ ~parked[Manager]
    BY Zenon DEF Mine, Bound
  <1>t. ThreadTypes /\ Spawned /\ ParkOrder
    BY Zenon DEF ParkInv
  <1>1. pc[Manager] = "bind" /\ Manager \in Threads /\ IsManager(Manager)
    BY <1>t, Homes, Zenon DEF Spawned, Mine, Manager
  <1>2. Alive(Manager) /\ ~parked[Manager] /\ Cpu(Manager) = Victim
    BY <1>t, <1>1 DEF ParkOrder, Alive, Manager, Cpu
  <1>3. Manager \in pinned
    BY <1>t, <1>1, <1>2, Zenon DEF Spawned
  <1> QED BY <1>2, <1>3, Zenon DEF Bound

LEMMA SnapshotStep ==
    ASSUME ParkInv, Victim \in Cpus, cfg'.victim = cfg.victim, Request \/ Rescan
    PROVE  ParkInv'
  <1>t. ThreadTypes /\ Spawned /\ ParkOrder /\ Visited
    BY Zenon DEF ParkInv
  <1>u. /\ UNCHANGED <<pc, pinned, park, parked>> /\ down # "wait" /\ down' = "scan"
        /\ scan' = Bound /\ again' = FALSE
    BY Zenon DEF Request, Rescan, Down, spawns, parks
  <1>1. ThreadTypes' /\ Spawned' /\ ParkOrder'
    BY <1>t, <1>u, Zenon DEF ThreadTypes, Spawned, ParkOrder, Alive, Bound, Victim
  <1>2. \A u \in Threads : Mine(u)' = Mine(u)
    BY <1>u, ZenonT(60) DEF Mine, Alive, Victim
  <1>3. Visited'
    BY <1>t, <1>u, <1>2, Snapshot DEF Visited, Open, Manager, Victim
  <1> QED BY <1>1, <1>3, Zenon DEF ParkInv

\* A parked thread is passed over; any other one makes the pass a busy one.
LEMMA ParkVisit ==
    ASSUME ParkInv, Park
    PROVE  ParkInv'
  <1>t. ThreadTypes /\ Spawned /\ ParkOrder /\ Visited
    BY Zenon DEF ParkInv
  <1>u. UNCHANGED <<cfg, pc, pinned, parked>> /\ down = "scan"
    BY Zenon DEF Park, spawns
  <1>1. PICK t \in scan : /\ scan' = scan \ {t}
                          /\ IF parked[t] THEN UNCHANGED <<park, sleepy, again, down>>
                             ELSE /\ park' = [park EXCEPT ![t] = TRUE]
                                  /\ sleepy' = sleepy \ {t}
                                  /\ again' = TRUE /\ Down("wait")
    BY Zenon DEF Park
  <1>2. Spawned' /\ \A u \in Threads : Mine(u)' = Mine(u)
    BY <1>t, <1>u, Zenon DEF Spawned, Mine, Alive, Victim
  <1>3. CASE parked[t]
    <2>1. ThreadTypes' /\ ParkOrder'
      BY <1>t, <1>u, <1>1, <1>3, Zenon DEF ThreadTypes, ParkOrder, Alive, Bound, Victim
    <2>2. Visited'
      <3>1. \A u : u \in scan => u \in scan' \/ u = t
        BY <1>1, Zenon
      <3>2. again' = again /\ down' = down /\ Manager' = Manager
        BY <1>u, <1>1, <1>3, Zenon DEF Manager, Victim
      <3> QED BY <1>t, <1>u, <1>2, <1>3, <3>1, <3>2, Zenon DEF Visited
    <2> QED BY <1>2, <2>1, <2>2, Zenon DEF ParkInv
  <1>4. CASE ~parked[t]
    <2>1. park' = [park EXCEPT ![t] = TRUE] /\ again' = TRUE /\ down' = "wait" /\ scan' = scan \ {t}
      BY <1>1, <1>4, Zenon DEF Down
    <2>2. park' \in [Threads -> BOOLEAN] /\ \A u \in Threads : park[u] => park'[u]
      BY <1>t, <2>1, Zenon DEF ThreadTypes
    <2>3. ThreadTypes' /\ ParkOrder'
      BY <1>t, <1>u, <2>1, <2>2, Zenon DEF ThreadTypes, ParkOrder, Alive, Bound, Victim
    <2>4. Visited'
      BY <2>1 DEF Visited, Open
    <2> QED BY <1>2, <2>3, <2>4, Zenon DEF ParkInv
  <1> QED BY <1>3, <1>4

\* The coordinator goes on once every thread it asked has parked.
LEMMA ParkedStep ==
    ASSUME ParkInv, Parked
    PROVE  ParkInv'
  <1>t. ThreadTypes /\ Spawned /\ ParkOrder /\ Visited
    BY Zenon DEF ParkInv
  <1>u. /\ UNCHANGED <<cfg, pc, pinned, park, parked, scan, again>> /\ down = "wait" /\ down' = "scan"
        /\ \A t \in Threads : park[t] => parked[t]
    BY Zenon DEF Parked, Acknowledged, Down, spawns, parks
  <1>1. ThreadTypes' /\ Spawned' /\ ParkOrder'
    BY <1>t, <1>u, Zenon DEF ThreadTypes, Spawned, ParkOrder, Alive, Bound, Victim
  <1>2. Visited'
    BY <1>t, <1>u DEF Visited, Open
  <1> QED BY <1>1, <1>2, Zenon DEF ParkInv

\* A pass that parked nobody ends: every thread of the pool is parked, and
\* stays so while the pool is closed.
LEMMA ClosedPark ==
    ASSUME ParkInv, Deactivate \/ EndGrace \/ Evacuate \/ TakeHead \/ Evacuated \/ Moved \/ Restore \/ Check
    PROVE  ParkInv'
  <1>t. ThreadTypes /\ Spawned /\ ParkOrder /\ Visited
    BY Zenon DEF ParkInv
  <1>u. UNCHANGED <<cfg, pc, pinned, park, parked, scan, again>>
    BY Zenon DEF Deactivate, EndGrace, Evacuate, TakeHead, Evacuated, Moved, Restore, Check, spawns, parks
  <1>d. down # "wait" /\ down' \notin Open
    <2>1. CASE Deactivate \/ EndGrace \/ Evacuate \/ TakeHead
      BY <2>1 DEF Deactivate, EndGrace, Evacuate, TakeHead, Down, Open
    <2>2. CASE Evacuated \/ Moved \/ Check
      BY <2>2, ZenonT(60) DEF Evacuated, Moved, Check, Down, Open
    <2>3. CASE Restore
      BY <2>3 DEF Restore, Down, Open
    <2> QED BY <2>1, <2>2, <2>3
  <1>1. \A t \in Threads : Mine(t) => parked[t]
    <2>1. CASE Deactivate
      BY <1>t, <2>1, Zenon DEF Deactivate, Visited
    <2>2. CASE ~Deactivate
      <3>1. down \notin Open
        BY <2>2 DEF EndGrace, Evacuate, TakeHead, Evacuated, Moved, Restore, Check, Open
      <3> QED BY <1>t, <3>1, ZenonT(60) DEF Visited
    <2> QED BY <2>1, <2>2
  <1>2. down' # "wait" /\ down' # "scan"
    BY <1>d DEF Open
  <1>3. ThreadTypes' /\ Spawned' /\ ParkOrder'
    BY <1>t, <1>u, <1>d, <1>2, Zenon DEF ThreadTypes, Spawned, ParkOrder, Alive, Bound, Victim
  <1>4. Visited'
    BY <1>u, <1>1, <1>2, Zenon DEF Visited, Mine, Alive, Victim
  <1> QED BY <1>3, <1>4, Zenon DEF ParkInv

\* The request and the acknowledgement of a thread are cleared together.
LEMMA ReopenPark ==
    ASSUME ParkInv, Reopen \/ Unpark
    PROVE  ParkInv'
  <1>t. ThreadTypes /\ Spawned /\ ParkOrder /\ Visited
    BY Zenon DEF ParkInv
  <1>u. UNCHANGED <<cfg, pc, pinned, again>> /\ down' \in {"idle", "unpark"} /\ down # "wait"
    <2>1. CASE Reopen
      BY <2>1, Zenon DEF Reopen, Down, spawns
    <2>2. CASE Unpark
      BY <2>2, Zenon DEF Unpark, Down, spawns
    <2> QED BY <2>1, <2>2
  <1>1. Spawned'
    BY <1>t, <1>u, Zenon DEF Spawned, Alive
  <1>2. Visited'
    BY <1>u DEF Visited, Open
  <1>3. ThreadTypes' /\ ParkOrder'
    <2>1. CASE Reopen
      <3>1. scan' = Bound /\ UNCHANGED <<park, parked>> /\ down' # "wait"
        BY <2>1 DEF Reopen, parks, Down
      <3> QED BY <1>t, <1>u, <3>1, ZenonT(60) DEF ThreadTypes, ParkOrder, Alive, Bound, Victim
    <2>2. CASE Unpark
      <3>1. PICK t \in scan : scan' = scan \ {t} /\ park' = [park EXCEPT ![t] = FALSE] /\ parked' = [parked EXCEPT ![t] = FALSE]
        BY <2>2, Zenon DEF Unpark
      <3>2. park' \in [Threads -> BOOLEAN] /\ parked' \in [Threads -> BOOLEAN]
        BY <1>t, <3>1, Zenon DEF ThreadTypes
      <3>3. \A u \in Threads : (~park'[u] /\ ~parked'[u]) \/ (park'[u] = park[u] /\ parked'[u] = parked[u])
        BY <1>t, <3>1 DEF ThreadTypes
      <3>4. ThreadTypes'
        BY <1>t, <1>u, <3>1, <3>2, Zenon DEF ThreadTypes, Alive, Bound, Victim
      <3>5. ParkOrder'
        BY <1>t, <1>u, <3>3, Zenon DEF ParkOrder
      <3> QED BY <3>4, <3>5
    <2> QED BY <2>1, <2>2
  <1> QED BY <1>1, <1>2, <1>3, Zenon DEF ParkInv

LEMMA ParkInit ==
    ASSUME Init
    PROVE  ParkInv
  <1>1. DOMAIN pc = Threads /\ pinned = First /\ scan = {} /\ again = FALSE /\ down = "idle" /\ First \subseteq Threads
    BY DEF Init, First
  <1>2. \A t \in Threads : pc[t] = IF t \in First THEN "yield" ELSE "none"
    BY ZenonT(60) DEF Init
  <1>3. park \in [Threads -> BOOLEAN] /\ parked \in [Threads -> BOOLEAN] /\ \A t \in Threads : ~park[t] /\ ~parked[t]
    BY DEF Init
  <1>4. \A t \in Threads : Alive(t) <=> t \in First
    BY <1>2 DEF Alive
  <1>5. ThreadTypes
    BY <1>1, <1>3, <1>4, Zenon DEF ThreadTypes
  <1>6. Spawned
    BY <1>1, <1>2, <1>4 DEF Spawned
  <1>7. ParkOrder
    BY <1>3, Zenon DEF ParkOrder
  <1>8. Visited
    BY <1>1 DEF Visited, Open
  <1> QED BY <1>5, <1>6, <1>7, <1>8, ZenonT(60) DEF ParkInv

LEMMA ParkNext ==
    ASSUME RingInv, ParkInv, [Next]_vars
    PROVE  ParkInv'
  <1>v. Victim \in Cpus
    BY DEF RingInv, Settings, Victim
  <1>1. CASE \E i \in Items : Producer(i)
    <2>1. UNCHANGED <<cfg, pc, pinned, park, parked, down, scan, again>>
      BY <1>1, Zenon DEF Producer, Submit, Push, Refuse, WakeWorker, WakeManager, spawns, parks, coord
    <2> QED BY <2>1, ParkSame, Zenon
  <1>2. ASSUME NEW t \in Threads, Thread(t) PROVE ParkInv'
    <2>1. CASE SpawnFails(t)
      BY <1>v, <1>2, <2>1, SettingsSame, ThreadPark, Zenon
    <2>2. CASE ~SpawnFails(t)
      <3>1. UNCHANGED cfg
        <4>1. CASE Wait(t) \/ Worker(t)
          BY <4>1, Zenon DEF Wait, Publish, Sample, Recheck, Resume, Worker, TestPending, Pop, Begin, Notify, Run, End
        <4>2. CASE ParkIfRequested(t) \/ Unparked(t) \/ Decide(t) \/ Spawn(t) \/ Bind(t)
          BY <4>2, Zenon DEF ParkIfRequested, Unparked, Decide, Spawn, Bind
        <4> QED BY <1>2, <2>2, <4>1, <4>2, Zenon DEF Thread
      <3> QED BY <1>v, <1>2, <3>1, ThreadPark, Zenon
    <2> QED BY <2>1, <2>2
  <1>3. CASE Request
    BY <1>v, <1>3, SettingsSame, SnapshotStep, Zenon
  <1>4. CASE Rescan
    <2>1. UNCHANGED cfg
      BY <1>4, Zenon DEF Rescan
    <2> QED BY <1>v, <1>4, <2>1, SnapshotStep, Zenon
  <1>5. CASE Stage /\ ~Rescan
    BY <1>5, ParkVisit, ParkedStep, ClosedPark, ReopenPark, Zenon DEF Stage
  <1>6. CASE UNCHANGED vars
    BY <1>6, ParkSame, Zenon DEF vars, spawns, parks, coord
  <1> QED BY <1>1, <1>2, <1>3, <1>4, <1>5, <1>6, Zenon DEF Next

\* When the CPU-down has its proof that the pool is quiescent
\* (offline_quiescent), the ring is empty, every thread of the pool is parked,
\* those included that its manager added while the others were being parked,
\* and no producer is on its way to the ring.  So for every number of CPUs,
\* threads and items, the snapshots of park_per_cpu_kthreads, repeated until a
\* pass parks nobody, miss no thread.
THEOREM StoppedEmpty == Spec => []StoppedPoolEmpty
  <1>1. Init => RingInv /\ ParkInv
    BY RingInit, ParkInit
  <1>2. RingInv /\ ParkInv /\ [Next]_vars => RingInv' /\ ParkInv'
    BY RingNext, ParkNext
  <1>3. RingInv /\ ParkInv => StoppedPoolEmpty
    <2> SUFFICES ASSUME RingInv, ParkInv, down = "stopped" PROVE StoppedPoolEmpty
      BY Zenon DEF StoppedPoolEmpty
    <2>1. ring[Victim] = <<>>
      BY Zenon DEF RingInv, Room
    <2>2. down \notin Open /\ down \in Closed
      BY DEF Open, Closed
    <2>3. \A t \in Threads : Cpu(t) = Victim /\ Alive(t) => Acknowledged(t)
      BY <2>2, Zenon DEF ParkInv, Visited, ParkOrder, Mine, Acknowledged
    <2>4. \A i \in Guarded : aim[i] # Victim
      BY <2>2, Zenon DEF RingInv, Aimed
    <2> QED BY <2>1, <2>3, <2>4, Zenon DEF StoppedPoolEmpty
  <1> QED BY <1>1, <1>2, <1>3, PTL DEF Spec

-----------------------------------------------------------------------------
(* Items *)

Accepted == {"wake", "manage", "queued"}

\* The entries of a queue, and that none of them occurs twice.
Elems(s) == {s[k] : k \in 1 .. Len(s)}
Distinct(s) == \A j, k \in 1 .. Len(s) : s[j] = s[k] => j = k

\* An item is on a ring or in a worker's hand.
Held(i) == (\E c \in Cpus : i \in Elems(ring[c])) \/ (\E t \in Threads : hand[t] = i)

\* Where a worker has an item in its hand.
Carrying == {"begin", "notify", "run"}

ItemTypes ==
    /\ hand \in [Threads -> Items \union {NoItem}] /\ ran \in [Items -> {0, 1}]
    /\ \A t \in Threads : pc[t] \in Carrying <=> hand[t] # NoItem

\* No item is held twice.
HeldOnce ==
    /\ \A c \in Cpus : Distinct(ring[c])
    /\ \A c, e \in Cpus : c # e => Elems(ring[c]) \cap Elems(ring[e]) = {}
    /\ \A t, u \in Threads : hand[t] = hand[u] /\ hand[t] # NoItem => t = u
    /\ \A c \in Cpus, t \in Threads : hand[t] \notin Elems(ring[c])

\* What is held was accepted and has not run; what was accepted is held or has run.
HeldAccepted ==
    /\ \A i \in Items : Held(i) => src[i] \in Accepted /\ ran[i] = 0
    /\ \A i \in Items : src[i] \in Accepted => Held(i) \/ ran[i] = 1
    /\ \A i \in Items : ran[i] = 1 => src[i] \in Accepted
    /\ moving # NoItem => src[moving] \in Accepted \union {"push"}
    /\ \A c \in Cpus : \A i \in Elems(ring[c]) : i \in Guarded => aim[i] = c

ItemInv == ItemTypes /\ HeldOnce /\ HeldAccepted

-----------------------------------------------------------------------------
(* Queues *)

\* What a queue holds after an entry was added at its tail.
LEMMA AppendElems ==
    ASSUME NEW S, NEW s \in Seq(S), NEW x \in S
    PROVE  /\ Append(s, x) \in Seq(S) /\ Elems(Append(s, x)) = Elems(s) \union {x}
           /\ Distinct(s) /\ x \notin Elems(s) => Distinct(Append(s, x))
  <1>1. /\ Append(s, x) \in Seq(S) /\ Len(Append(s, x)) = Len(s) + 1 /\ Len(s) \in Nat
        /\ \A k \in 1 .. Len(s) : Append(s, x)[k] = s[k]
        /\ Append(s, x)[Len(s) + 1] = x
    OBVIOUS
  <1>2. \A k \in 1 .. Len(s) + 1 : k \in 1 .. Len(s) \/ k = Len(s) + 1
    BY <1>1
  <1>3. \A k \in 1 .. Len(s) : k \in 1 .. Len(s) + 1
    BY <1>1
  <1>4. Len(s) + 1 \in 1 .. Len(s) + 1
    BY <1>1
  <1> DEFINE r == Append(s, x)
  <1> DEFINE n == Len(s)
  <1>5. /\ Len(r) = n + 1 /\ r[n + 1] = x /\ \A k \in 1 .. n : r[k] = s[k]
    BY <1>1
  <1> HIDE DEF r
  <1>6. Elems(r) = Elems(s) \union {x}
    BY <1>2, <1>3, <1>4, <1>5, Zenon DEF Elems
  <1>7. ASSUME Distinct(s), x \notin Elems(s) PROVE Distinct(r)
    BY <1>2, <1>5, <1>7, ZenonT(60) DEF Elems, Distinct
  <1> QED BY <1>1, <1>6, <1>7, Zenon DEF r

\* What it holds after its head was taken.
LEMMA TailElems ==
    ASSUME NEW S, NEW s \in Seq(S), s # <<>>
    PROVE  /\ Tail(s) \in Seq(S) /\ Head(s) \in S /\ Elems(s) = Elems(Tail(s)) \union {Head(s)}
           /\ Distinct(s) => Distinct(Tail(s)) /\ Head(s) \notin Elems(Tail(s))
  <1>1. /\ Tail(s) \in Seq(S) /\ Head(s) \in S /\ Len(Tail(s)) = Len(s) - 1 /\ Len(s) \in Nat /\ Len(s) >= 1
        /\ \A k \in 1 .. Len(s) - 1 : Tail(s)[k] = s[k + 1]
        /\ Head(s) = s[1]
    OBVIOUS
  <1> DEFINE r == Tail(s)
  <1> DEFINE h == Head(s)
  <1> DEFINE n == Len(s) - 1
  <1>2. n \in Nat /\ Len(s) = n + 1 /\ Len(r) = n /\ h = s[1] /\ \A k \in 1 .. n : r[k] = s[k + 1]
    BY <1>1
  <1> HIDE DEF r, h, n
  <1>3. 1 \in 1 .. n + 1 /\ \A k \in 1 .. n : k + 1 \in 1 .. n + 1 /\ k + 1 # 1
    BY <1>2
  <1>4. \A k \in 1 .. n + 1 : k = 1 \/ \E j \in 1 .. n : k = j + 1
    <2> SUFFICES ASSUME NEW k \in 1 .. n + 1, k # 1 PROVE k - 1 \in 1 .. n /\ k = (k - 1) + 1
      OBVIOUS
    <2> QED BY <1>2
  <1>5. \A j, k \in 1 .. n : j + 1 = k + 1 => j = k
    OBVIOUS
  <1>6. Elems(s) = Elems(r) \union {h}
    BY <1>2, <1>3, <1>4 DEF Elems
  <1>7. ASSUME Distinct(s) PROVE Distinct(r) /\ h \notin Elems(r)
    <2>1. Distinct(r)
      BY <1>2, <1>3, <1>5, <1>7, ZenonT(60) DEF Distinct
    <2>2. h \notin Elems(r)
      BY <1>2, <1>3, <1>7 DEF Distinct, Elems
    <2> QED BY <2>1, <2>2
  <1> QED BY <1>1, <1>6, <1>7, Zenon DEF r, h

\* What it holds after an entry was put back in front.
LEMMA FrontElems ==
    ASSUME NEW S, NEW s \in Seq(S), NEW x \in S
    PROVE  /\ <<x>> \o s \in Seq(S) /\ Elems(<<x>> \o s) = Elems(s) \union {x}
           /\ Distinct(s) /\ x \notin Elems(s) => Distinct(<<x>> \o s)
  <1>1. /\ <<x>> \o s \in Seq(S) /\ Len(<<x>> \o s) = Len(s) + 1 /\ Len(s) \in Nat
        /\ \A k \in 1 .. Len(s) : (<<x>> \o s)[k + 1] = s[k]
        /\ (<<x>> \o s)[1] = x
    OBVIOUS
  <1> DEFINE r == <<x>> \o s
  <1> DEFINE n == Len(s)
  <1>2. n \in Nat /\ Len(r) = n + 1 /\ r[1] = x /\ \A k \in 1 .. n : r[k + 1] = s[k]
    BY <1>1
  <1> HIDE DEF r
  <1>3. 1 \in 1 .. n + 1 /\ \A k \in 1 .. n : k + 1 \in 1 .. n + 1
    BY <1>2
  <1>4. \A k \in 1 .. n + 1 : k = 1 \/ \E j \in 1 .. n : k = j + 1
    <2> SUFFICES ASSUME NEW k \in 1 .. n + 1, k # 1 PROVE k - 1 \in 1 .. n /\ k = (k - 1) + 1
      OBVIOUS
    <2> QED BY <1>2
  <1>5. Elems(r) = Elems(s) \union {x}
    BY <1>2, <1>3, <1>4 DEF Elems
  <1>6. ASSUME Distinct(s), x \notin Elems(s) PROVE Distinct(r)
    <2> SUFFICES ASSUME NEW j \in 1 .. n + 1, NEW k \in 1 .. n + 1, r[j] = r[k] PROVE j = k
      BY <1>2, Zenon DEF Distinct
    <2>1. \A m \in 1 .. n : r[m + 1] # x
      BY <1>2, <1>6, ZenonT(60) DEF Elems
    <2>2. CASE j = 1 \/ k = 1
      BY <1>2, <1>4, <2>1, <2>2
    <2>3. CASE j # 1 /\ k # 1
      <3>1. PICK a \in 1 .. n : j = a + 1
        BY <1>4, <2>3, Zenon
      <3>2. PICK b \in 1 .. n : k = b + 1
        BY <1>4, <2>3, Zenon
      <3>3. s[a] = s[b]
        BY <1>2, <3>1, <3>2, Zenon
      <3> QED BY <1>6, <3>1, <3>2, <3>3, Zenon DEF Distinct
    <2> QED BY <2>2, <2>3
  <1> QED BY <1>1, <1>5, <1>6, Zenon DEF r

-----------------------------------------------------------------------------
(* Items are conserved *)

\* Nothing is queued, taken or finished.
LEMMA ItemSame ==
    ASSUME ItemInv, UNCHANGED <<ring, hand, ran, src, aim, moving>>,
           \A t \in Threads : pc'[t] \in Carrying <=> pc[t] \in Carrying
    PROVE  ItemInv'
  <1>1. ItemTypes'
    BY Zenon DEF ItemInv, ItemTypes
  <1>2. HeldOnce' /\ HeldAccepted'
    BY Zenon DEF ItemInv, HeldOnce, HeldAccepted, Held, Guarded
  <1> QED BY <1>1, <1>2 DEF ItemInv

\* A call goes on; it keeps its item, or others have it.
LEMMA ItemCall ==
    ASSUME RingInv, ItemInv, UNCHANGED <<ring, hand, ran, pc, moving>>, NEW i \in Items, NEW p,
           src' = [src EXCEPT ![i] = p], \A j \in Items : j # i => aim'[j] = aim[j],
           \/ src[i] \notin Accepted /\ p \notin Accepted /\ (moving = i => p = "push")
           \/ src[i] \in Accepted /\ p \in Accepted /\ i \in Guarded /\ UNCHANGED aim
    PROVE  ItemInv'
  <1>t. ItemTypes /\ HeldOnce /\ HeldAccepted
    BY Zenon DEF ItemInv
  <1>s. src'[i] = p /\ \A j \in Items : j # i => src'[j] = src[j]
    BY DEF RingInv, CallTypes
  <1>1. ItemTypes' /\ HeldOnce'
    BY <1>t, Zenon DEF ItemTypes, HeldOnce
  <1>h. \A j : Held(j)' = Held(j)
    BY Zenon DEF Held
  <1>2. \A j \in Items : src'[j] \in Accepted <=> src[j] \in Accepted
    BY <1>s, Zenon
  <1>3. moving' # NoItem => src'[moving'] \in Accepted \union {"push"}
    BY <1>t, <1>s, Zenon DEF HeldAccepted, RingInv, DownTypes
  <1>4. \A c \in Cpus : \A j \in Elems(ring[c]) : j \in Guarded' => aim'[j] = c
    <2> SUFFICES ASSUME NEW c \in Cpus, NEW j \in Elems(ring[c]), j \in Guarded' PROVE aim'[j] = c
      OBVIOUS
    <2>1. j \in Items /\ Held(j) /\ src[j] \in Accepted
      BY <1>t, Zenon DEF Guarded, Held, HeldAccepted
    <2>2. CASE j # i
      BY <1>t, <1>s, <2>1, <2>2, Zenon DEF HeldAccepted, Guarded
    <2>3. CASE j = i
      BY <1>t, <2>1, <2>3, ZenonT(60) DEF HeldAccepted
    <2> QED BY <2>2, <2>3
  <1>5. HeldAccepted'
    BY <1>t, <1>h, <1>2, <1>3, <1>4, Zenon DEF HeldAccepted
  <1> QED BY <1>1, <1>5, Zenon DEF ItemInv

\* A step that changes one ring.
LEMMA OneRing ==
    ASSUME RingInv, NEW c \in Cpus, NEW s, ring' = [ring EXCEPT ![c] = s]
    PROVE  ring'[c] = s /\ \A e \in Cpus : e # c => ring'[e] = ring[e]
  BY DEF RingInv, RingTypes

\* An item that is held nowhere enters a ring.
LEMMA ItemEnters ==
    ASSUME RingInv, ItemInv, NEW i \in Items, NEW c \in Cpus, NEW s, Elems(s) = Elems(ring[c]) \union {i}, Distinct(s),
           ring' = [ring EXCEPT ![c] = s], src[i] = "push", NEW p \in Accepted, src' = [src EXCEPT ![i] = p],
           p # "queued" => aim[i] = c, moving' \in {moving, NoItem}, UNCHANGED <<hand, ran, aim, pc>>
    PROVE  ItemInv'
  <1>t. ItemTypes /\ HeldOnce /\ HeldAccepted
    BY Zenon DEF ItemInv
  <1>s. src'[i] = p /\ \A j \in Items : j # i => src'[j] = src[j]
    BY DEF RingInv, CallTypes
  <1>r. ring'[c] = s /\ \A e \in Cpus : e # c => ring'[e] = ring[e]
    BY OneRing, ZenonT(60)
  <1>n. ~Held(i) /\ ran[i] = 0
    BY <1>t DEF HeldAccepted, Accepted, ItemTypes
  <1>1. ItemTypes'
    BY <1>t, Zenon DEF ItemTypes
  <1>e. \A e \in Cpus : \A x : x \in Elems(ring'[e]) <=> (x \in Elems(ring[e]) \/ (e = c /\ x = i))
    BY <1>r, Zenon
  <1>2. HeldOnce'
    <2>1. \A e \in Cpus : Distinct(ring'[e])
      BY <1>t, <1>r, Zenon DEF HeldOnce
    <2>2. \A e \in Cpus : i \notin Elems(ring[e])
      BY <1>n, ZenonT(60) DEF Held
    <2>3. \A e, f \in Cpus : \A x : e # f /\ x \in Elems(ring'[e]) => x \notin Elems(ring'[f])
      <3>1. \A e, f \in Cpus : \A x : e # f /\ x \in Elems(ring[e]) => x \notin Elems(ring[f])
        BY <1>t, Zenon DEF HeldOnce
      <3> SUFFICES ASSUME NEW e \in Cpus, NEW f \in Cpus, e # f, NEW x, x \in Elems(ring'[e]), x \in Elems(ring'[f]) PROVE FALSE
        BY Zenon
      <3>2. CASE x = i
        BY <1>e, <2>2, <3>2, ZenonT(60)
      <3>3. CASE x # i
        BY <1>e, <3>1, <3>3, Zenon
      <3> QED BY <3>2, <3>3
    <2>4. \A e \in Cpus, t \in Threads : hand[t] \notin Elems(ring'[e])
      BY <1>t, <1>e, <1>n, ZenonT(60) DEF HeldOnce, Held
    <2>5. \A e, f \in Cpus : e # f => Elems(ring'[e]) \cap Elems(ring'[f]) = {}
      BY <2>3, Zenon
    <2> QED BY <1>t, <2>1, <2>4, <2>5, Zenon DEF HeldOnce
  <1>h. Held(i)' /\ \A j \in Items : j # i => (Held(j)' <=> Held(j))
    BY <1>e, Zenon DEF Held
  <1>3. \A j \in Items : /\ Held(j)' => src'[j] \in Accepted /\ ran[j] = 0
                         /\ src'[j] \in Accepted => Held(j)' \/ ran[j] = 1
                         /\ ran[j] = 1 => src'[j] \in Accepted
    BY <1>t, <1>s, <1>n, <1>h, Zenon DEF HeldAccepted
  <1>4. moving' # NoItem => src'[moving'] \in Accepted \union {"push"}
    BY <1>t, <1>s, ZenonT(60) DEF HeldAccepted, RingInv, DownTypes
  <1>5. \A e \in Cpus : \A j \in Elems(ring'[e]) : j \in Guarded' => aim[j] = e
    <2> SUFFICES ASSUME NEW e \in Cpus, NEW j \in Elems(ring'[e]), j \in Guarded' PROVE aim[j] = e
      OBVIOUS
    <2>1. CASE j = i
      <3>1. p # "queued"
        BY <1>s, <2>1 DEF Guarded
      <3>2. e = c
        BY <1>e, <1>n, <2>1, Zenon DEF Held
      <3> QED BY <2>1, <3>1, <3>2, ZenonT(60)
    <2>2. CASE j # i
      BY <1>t, <1>s, <1>e, <2>2, Zenon DEF HeldAccepted, Guarded
    <2> QED BY <2>1, <2>2
  <1>6. HeldAccepted'
    BY <1>3, <1>4, <1>5, Zenon DEF HeldAccepted
  <1> QED BY <1>1, <1>2, <1>6, Zenon DEF ItemInv

\* The head of a ring leaves it; who takes it is the caller's.
LEMMA HeadLeaves ==
    ASSUME RingInv, ItemInv, NEW c \in Cpus, ring[c] # <<>>, ring' = [ring EXCEPT ![c] = Tail(ring[c])]
    PROVE  /\ Head(ring[c]) \in Items /\ Head(ring[c]) \in Elems(ring[c])
           /\ \A e \in Cpus : \A x : x \in Elems(ring'[e]) <=> (x \in Elems(ring[e]) /\ x # Head(ring[c]))
           /\ \A e \in Cpus : Distinct(ring'[e])
           /\ \A e, f \in Cpus : e # f => Elems(ring'[e]) \cap Elems(ring'[f]) = {}
  <1>t. HeldOnce
    BY Zenon DEF ItemInv
  <1>r. ring'[c] = Tail(ring[c]) /\ \A e \in Cpus : e # c => ring'[e] = ring[e]
    BY OneRing, Zenon
  <1>1. ring[c] \in Seq(Items) /\ Distinct(ring[c])
    BY <1>t, Zenon DEF RingInv, RingTypes, HeldOnce
  <1>2. /\ Head(ring[c]) \in Items /\ Elems(ring[c]) = Elems(ring'[c]) \union {Head(ring[c])}
        /\ Distinct(ring'[c]) /\ Head(ring[c]) \notin Elems(ring'[c])
    <2>1. /\ Tail(ring[c]) \in Seq(Items) /\ Head(ring[c]) \in Items /\ Elems(ring[c]) = Elems(Tail(ring[c])) \union {Head(ring[c])}
          /\ Distinct(ring[c]) => Distinct(Tail(ring[c])) /\ Head(ring[c]) \notin Elems(Tail(ring[c]))
      BY <1>1, TailElems
    <2> QED BY <1>r, <1>1, <2>1, Zenon
  <1>3. \A e, f \in Cpus : \A x : e # f /\ x \in Elems(ring[e]) => x \notin Elems(ring[f])
    BY <1>t, Zenon DEF HeldOnce
  <1>4. \A e \in Cpus : \A x : x \in Elems(ring'[e]) <=> (x \in Elems(ring[e]) /\ x # Head(ring[c]))
    BY <1>r, <1>2, <1>3, Zenon
  <1>5. \A e, f \in Cpus : e # f => Elems(ring'[e]) \cap Elems(ring'[f]) = {}
    BY <1>3, <1>4, Zenon
  <1> QED BY <1>t, <1>r, <1>2, <1>4, <1>5, Zenon DEF HeldOnce

\* Ring::pop: the worker has the item and the ring no longer.
LEMMA PopItem ==
    ASSUME RingInv, ItemInv, ThreadTypes, NEW t \in Threads, Pop(t), ring[Cpu(t)] # <<>>
    PROVE  ItemInv'
  <1>t. ItemTypes /\ HeldOnce /\ HeldAccepted
    BY Zenon DEF ItemInv
  <1>c. Cpu(t) \in Cpus
    BY Homes, Zenon
  <1>1. /\ pc[t] = "pop" /\ hand' = [hand EXCEPT ![t] = Head(ring[Cpu(t)])] /\ Goto(t, "begin")
        /\ ring' = [ring EXCEPT ![Cpu(t)] = Tail(ring[Cpu(t)])] /\ UNCHANGED <<ran, src, aim, moving>>
    BY Zenon DEF Pop, calls, coord
  <1>2. PICK i : i = Head(ring[Cpu(t)])
    BY Zenon
  <1>3. /\ i \in Items /\ i \in Elems(ring[Cpu(t)])
        /\ \A e \in Cpus : \A x : x \in Elems(ring'[e]) <=> (x \in Elems(ring[e]) /\ x # i)
        /\ \A e \in Cpus : Distinct(ring'[e])
        /\ \A e, f \in Cpus : e # f => Elems(ring'[e]) \cap Elems(ring'[f]) = {}
    BY <1>c, <1>1, <1>2, HeadLeaves, ZenonT(60)
  <1>4. /\ hand'[t] = i /\ (\A u \in Threads : u # t => hand'[u] = hand[u]) /\ i # NoItem
        /\ hand' \in [Threads -> Items \union {NoItem}]
    BY <1>t, <1>1, <1>2, <1>3, NoItemIsNone DEF ItemTypes
  <1>p. pc'[t] = "begin" /\ \A u \in Threads : u # t => pc'[u] = pc[u]
    BY <1>1, Goes, ZenonT(60)
  <1>5. ItemTypes'
    BY <1>t, <1>1, <1>4, <1>p DEF ItemTypes, Carrying
  <1>n. hand[t] = NoItem /\ \A u \in Threads : hand[u] # i
    BY <1>t, <1>c, <1>1, <1>3 DEF ItemTypes, Carrying, HeldOnce
  <1>6. HeldOnce'
    <2>1. \A u, v \in Threads : hand'[u] = hand'[v] /\ hand'[u] # NoItem => u = v
      BY <1>t, <1>4, <1>n, ZenonT(60) DEF HeldOnce
    <2>2. \A e \in Cpus, u \in Threads : hand'[u] \notin Elems(ring'[e])
      BY <1>t, <1>3, <1>4, Zenon DEF HeldOnce
    <2> QED BY <1>3, <2>1, <2>2, Zenon DEF HeldOnce
  <1>h. \A j \in Items : Held(j)' <=> Held(j)
    <2>1. Held(i)' /\ Held(i)
      BY <1>c, <1>3, <1>4, Zenon DEF Held
    <2>2. ASSUME NEW j \in Items, j # i PROVE Held(j)' <=> Held(j)
      <3>1. j # NoItem
        BY NoItemIsNone, Zenon
      <3>2. \A e \in Cpus : j \in Elems(ring'[e]) <=> j \in Elems(ring[e])
        BY <1>3, <2>2, Zenon
      <3>3. \A u \in Threads : hand'[u] = j <=> hand[u] = j
        BY <1>4, <1>n, <2>2, <3>1, Zenon
      <3> QED BY <3>2, <3>3, Zenon DEF Held
    <2> QED BY <2>1, <2>2, Zenon
  <1>7. \A e \in Cpus : \A j \in Elems(ring'[e]) : j \in Guarded' => aim'[j] = e
    BY <1>t, <1>1, <1>3, Zenon DEF HeldAccepted, Guarded
  <1>8. HeldAccepted'
    BY <1>t, <1>1, <1>h, <1>7, Zenon DEF HeldAccepted
  <1> QED BY <1>5, <1>6, <1>8, Zenon DEF ItemInv

\* The item's function returns.
LEMMA RunItem ==
    ASSUME RingInv, ItemInv, ThreadTypes, NEW t \in Threads, Run(t)
    PROVE  ItemInv'
  <1>t. ItemTypes /\ HeldOnce /\ HeldAccepted
    BY Zenon DEF ItemInv
  <1>1. /\ pc[t] = "run" /\ ran' = [ran EXCEPT ![hand[t]] = @ + 1] /\ hand' = [hand EXCEPT ![t] = NoItem] /\ Goto(t, "end")
        /\ UNCHANGED <<ring, src, aim, moving>>
    BY Zenon DEF Run, queues, calls, coord
  <1>2. PICK i \in Items : i = hand[t]
    BY <1>t, <1>1 DEF ItemTypes, Carrying
  <1>n. i # NoItem
    BY NoItemIsNone, Zenon
  <1>3. ran[i] = 0 /\ src[i] \in Accepted
    BY <1>t, <1>2, Zenon DEF HeldAccepted, Held
  <1>4. ran' \in [Items -> {0, 1}] /\ ran'[i] = 1 /\ \A j \in Items : j # i => ran'[j] = ran[j]
    BY <1>t, <1>1, <1>2, <1>3 DEF ItemTypes
  <1>5. hand' \in [Threads -> Items \union {NoItem}] /\ hand'[t] = NoItem /\ \A u \in Threads : u # t => hand'[u] = hand[u]
    BY <1>t, <1>1 DEF ItemTypes
  <1>p. pc'[t] = "end" /\ \A u \in Threads : u # t => pc'[u] = pc[u]
    BY <1>1, Goes, ZenonT(60)
  <1>6. ItemTypes'
    BY <1>t, <1>4, <1>5, <1>p DEF ItemTypes, Carrying
  <1>7. HeldOnce'
    <2>1. \A c \in Cpus : NoItem \notin Elems(ring[c])
      <3>1. \A c \in Cpus : ring[c] \in Seq(Items)
        BY Zenon DEF RingInv, RingTypes
      <3>2. \A c \in Cpus : \A k \in 1 .. Len(ring[c]) : ring[c][k] \in Items
        BY <3>1
      <3> QED BY <3>2, NoItemIsNone, Zenon DEF Elems
    <2> QED BY <1>t, <1>1, <1>5, <2>1, Zenon DEF HeldOnce
  <1>8. ~Held(i)'
    <2>1. \A c \in Cpus : i \notin Elems(ring'[c])
      BY <1>t, <1>1, <1>2, Zenon DEF HeldOnce
    <2>2. \A u \in Threads : hand'[u] # i
      BY <1>t, <1>2, <1>n, <1>5, Zenon DEF HeldOnce
    <2> QED BY <2>1, <2>2, Zenon DEF Held
  <1>9. \A j \in Items : j # i => (Held(j)' <=> Held(j))
    <2> SUFFICES ASSUME NEW j \in Items, j # i PROVE Held(j)' <=> Held(j)
      BY Zenon
    <2>1. j # NoItem
      BY NoItemIsNone, Zenon
    <2> QED BY <1>1, <1>2, <1>5, <2>1, Zenon DEF Held
  <1>10. \A j \in Items : /\ Held(j)' => src'[j] \in Accepted /\ ran'[j] = 0
                          /\ src'[j] \in Accepted => Held(j)' \/ ran'[j] = 1
                          /\ ran'[j] = 1 => src'[j] \in Accepted
    BY <1>t, <1>1, <1>3, <1>4, <1>8, <1>9, ZenonT(60) DEF HeldAccepted
  <1>11. HeldAccepted'
    BY <1>t, <1>1, <1>10, Zenon DEF HeldAccepted, Guarded
  <1> QED BY <1>6, <1>7, <1>11, Zenon DEF ItemInv

\* evacuate_offline takes the head: the item is with the evacuation only.
LEMMA TakeHeadItem ==
    ASSUME RingInv, ItemInv, TakeHead
    PROVE  ItemInv'
  <1>t. ItemTypes /\ HeldOnce /\ HeldAccepted
    BY Zenon DEF ItemInv
  <1>v. Victim \in Cpus
    BY DEF RingInv, Settings, Victim
  <1>1. /\ ring[Victim] # <<>> /\ ring' = [ring EXCEPT ![Victim] = Tail(ring[Victim])] /\ UNCHANGED <<pc, hand, ran>>
        /\ moving' = Head(ring[Victim]) /\ src' = [src EXCEPT ![Head(ring[Victim])] = "push"]
        /\ aim' = [aim EXCEPT ![Head(ring[Victim])] = PlaceOn(Victim)]
    BY Zenon DEF TakeHead
  <1>2. PICK i : i = Head(ring[Victim])
    BY Zenon
  <1>3. /\ i \in Items /\ i \in Elems(ring[Victim])
        /\ \A e \in Cpus : \A x : x \in Elems(ring'[e]) <=> (x \in Elems(ring[e]) /\ x # i)
        /\ \A e \in Cpus : Distinct(ring'[e])
        /\ \A e, f \in Cpus : e # f => Elems(ring'[e]) \cap Elems(ring'[f]) = {}
    BY <1>v, <1>1, <1>2, HeadLeaves, ZenonT(60)
  <1>4. src'[i] = "push" /\ \A j \in Items : j # i => src'[j] = src[j] /\ aim'[j] = aim[j]
    BY <1>1, <1>2, <1>3 DEF RingInv, CallTypes
  <1>5. ItemTypes'
    BY <1>t, <1>1, Zenon DEF ItemTypes
  <1>6. HeldOnce'
    BY <1>t, <1>1, <1>3, ZenonT(60) DEF HeldOnce
  <1>7. ~Held(i)' /\ ran[i] = 0
    <2>1. Held(i) /\ \A u \in Threads : hand[u] # i
      <3>1. \A u \in Threads : hand[u] \notin Elems(ring[Victim])
        BY <1>t, <1>v, Zenon DEF HeldOnce
      <3>2. Held(i)
        BY <1>v, <1>3, Zenon DEF Held
      <3> QED BY <1>3, <3>1, <3>2, ZenonT(60)
    <2>2. ran[i] = 0
      BY <1>t, <1>3, <2>1, Zenon DEF HeldAccepted
    <2>3. \A e \in Cpus : i \notin Elems(ring'[e])
      BY <1>3, Zenon
    <2> QED BY <1>1, <2>1, <2>2, <2>3, Zenon DEF Held
  <1>8. \A j \in Items : j # i => (Held(j)' <=> Held(j))
    BY <1>1, <1>3, Zenon DEF Held
  <1>9. "push" \notin Accepted
    BY DEF Accepted
  <1>10. \A j \in Items : /\ Held(j)' => src'[j] \in Accepted /\ ran'[j] = 0
                          /\ src'[j] \in Accepted => Held(j)' \/ ran'[j] = 1
                          /\ ran'[j] = 1 => src'[j] \in Accepted
    <2>1. \A j \in Items : j = i => ran'[j] # 1
      BY <1>1, <1>7
    <2> QED BY <1>t, <1>1, <1>4, <1>7, <1>8, <1>9, <2>1, ZenonT(60) DEF HeldAccepted
  <1>11. \A e \in Cpus : \A j \in Elems(ring'[e]) : j \in Guarded' => aim'[j] = e
    BY <1>t, <1>3, <1>4, ZenonT(60) DEF HeldAccepted, Guarded
  <1>12. HeldAccepted'
    BY <1>1, <1>2, <1>4, <1>10, <1>11, Zenon DEF HeldAccepted
  <1> QED BY <1>5, <1>6, <1>12, Zenon DEF ItemInv

LEMMA RestoreItem ==
    ASSUME RingInv, ItemInv, Restore
    PROVE  ItemInv'
  <1>v. Victim \in Cpus /\ ring[Victim] \in Seq(Items) /\ Distinct(ring[Victim])
    BY DEF RingInv, RingTypes, Settings, Victim, ItemInv, HeldOnce
  <1>1. CASE Full(Victim)
    BY <1>1, ItemSame, Zenon DEF Restore, mask
  <1>2. CASE ~Full(Victim)
    <2>1. /\ down = "move" /\ src[moving] = "push" /\ ring' = [ring EXCEPT ![Victim] = <<moving>> \o ring[Victim]]
          /\ src' = [src EXCEPT ![moving] = "queued"] /\ moving' = NoItem /\ UNCHANGED <<hand, ran, aim, pc>>
      BY <1>2, Zenon DEF Restore
    <2>2. moving \in Items
      BY <2>1, ZenonT(60) DEF RingInv, DownTypes
    <2>3. \A e \in Cpus : moving \notin Elems(ring[e])
      BY <2>1, <2>2 DEF ItemInv, HeldAccepted, Held, Accepted
    <2>4. Elems(<<moving>> \o ring[Victim]) = Elems(ring[Victim]) \union {moving} /\ Distinct(<<moving>> \o ring[Victim])
      BY <1>v, <2>2, <2>3, FrontElems, ZenonT(60)
    <2>5. "queued" \in Accepted
      BY DEF Accepted
    <2> QED BY <1>v, <2>1, <2>2, <2>4, <2>5, ItemEnters, Zenon
  <1> QED BY <1>1, <1>2

LEMMA ProducerItem ==
    ASSUME RingInv, ItemInv, NEW i \in Items, Producer(i)
    PROVE  ItemInv'
  <1>a. aim[i] \in Cpus /\ i # NoItem
    BY NoItemIsNone, Zenon DEF RingInv, CallTypes
  <1>u. UNCHANGED <<hand, ran, pc, moving>>
    BY Zenon DEF Producer, Submit, Push, Refuse, WakeWorker, WakeManager, coord
  <1>1. CASE Submit(i)
    <2>1. UNCHANGED ring /\ src[i] = "new" /\ src' = [src EXCEPT ![i] = "push"]
      BY <1>1, Zenon DEF Submit, queues
    <2>2. \A j \in Items : j # i => aim'[j] = aim[j]
      BY <1>1 DEF Submit, RingInv, CallTypes
    <2>3. src[i] \notin Accepted /\ "push" \notin Accepted
      BY <2>1 DEF Accepted
    <2> QED BY <1>u, <2>1, <2>2, <2>3, ItemCall, Zenon
  <1>2. CASE Push(i)
    <2>1. /\ ring' = [ring EXCEPT ![aim[i]] = Append(ring[aim[i]], i)] /\ UNCHANGED aim
          /\ src[i] = "push" /\ src' = [src EXCEPT ![i] = "wake"]
      BY <1>2, Zenon DEF Push
    <2>2. \A e \in Cpus : i \notin Elems(ring[e])
      BY <2>1 DEF ItemInv, HeldAccepted, Held, Accepted
    <2>3. ring[aim[i]] \in Seq(Items) /\ Distinct(ring[aim[i]])
      BY <1>a, Zenon DEF RingInv, RingTypes, ItemInv, HeldOnce
    <2>4. Elems(Append(ring[aim[i]], i)) = Elems(ring[aim[i]]) \union {i} /\ Distinct(Append(ring[aim[i]], i))
      BY <1>a, <2>2, <2>3, AppendElems, ZenonT(60)
    <2>5. "wake" \in Accepted /\ moving' \in {moving, NoItem}
      BY <1>u DEF Accepted
    <2> QED BY <1>a, <1>u, <2>1, <2>4, <2>5, ItemEnters, Zenon
  <1>3. CASE Refuse(i)
    <2>1. UNCHANGED <<ring, aim>> /\ src[i] = "push" /\ src' = [src EXCEPT ![i] = "refused"] /\ moving # i
      BY <1>3, Zenon DEF Refuse, queues
    <2>2. src[i] \notin Accepted /\ "refused" \notin Accepted
      BY <2>1 DEF Accepted
    <2> QED BY <1>u, <2>1, <2>2, ItemCall, Zenon
  <1>4. CASE WakeWorker(i) \/ WakeManager(i)
    <2>1. PICK p \in {"manage", "queued"} : UNCHANGED <<ring, aim>> /\ src[i] \in {"wake", "manage"} /\ src' = [src EXCEPT ![i] = p]
      BY <1>4, Zenon DEF WakeWorker, WakeManager, queues
    <2>2. src[i] \in Accepted /\ p \in Accepted /\ i \in Guarded
      BY <2>1 DEF Accepted, Guarded
    <2> QED BY <1>u, <2>1, <2>2, ItemCall, Zenon
  <1> QED BY <1>1, <1>2, <1>3, <1>4, Zenon DEF Producer

LEMMA ThreadItem ==
    ASSUME RingInv, ThreadTypes, ItemInv, NEW t \in Threads, Thread(t)
    PROVE  ItemInv'
  <1>1. CASE Pop(t) /\ ring[Cpu(t)] # <<>>
    BY <1>1, PopItem, Zenon
  <1>2. CASE Run(t)
    BY <1>2, RunItem, Zenon
  <1>3. ASSUME ~(Pop(t) /\ ring[Cpu(t)] # <<>>), ~Run(t)
        PROVE  UNCHANGED <<ring, hand, ran, src, aim, moving>>
    <2>1. CASE Wait(t)
      BY <2>1, Zenon DEF Wait, Publish, Sample, Recheck, Resume, queues, calls, coord
    <2>2. CASE Worker(t)
      BY <1>3, <2>2, Zenon DEF Worker, TestPending, Pop, Begin, Notify, End, queues, calls, coord
    <2>3. CASE ParkIfRequested(t) \/ Unparked(t) \/ Decide(t) \/ Spawn(t) \/ Bind(t) \/ SpawnFails(t)
      BY <2>3, Zenon DEF ParkIfRequested, Unparked, Decide, Spawn, Bind, SpawnFails, queues, calls, coord
    <2> QED BY <1>3, <2>1, <2>2, <2>3, Zenon DEF Thread
  <1>g. ASSUME NEW p, Goto(t, p), p \in Carrying <=> pc[t] \in Carrying
        PROVE  \A u \in Threads : pc'[u] \in Carrying <=> pc[u] \in Carrying
    BY <1>g, Goes, Zenon
  <1>4. ASSUME ~(Pop(t) /\ ring[Cpu(t)] # <<>>), ~Run(t)
        PROVE  \A u \in Threads : pc'[u] \in Carrying <=> pc[u] \in Carrying
    <2>1. CASE Sample(t)
      BY <2>1, Zenon DEF Sample
    <2>2. CASE Wait(t) /\ ~Sample(t)
      <3>1. \E p \in {"recheck", "yield", "publish", "head"} : Goto(t, p)
        BY <2>2, ZenonT(60) DEF Wait, Publish, Recheck, Resume, EndWait
      <3>2. pc[t] \notin Carrying
        BY <2>2 DEF Wait, Publish, Recheck, Resume, Carrying
      <3>3. \A p \in {"recheck", "yield", "publish", "head"} : p \notin Carrying
        BY DEF Carrying
      <3> QED BY <1>g, <3>1, <3>2, <3>3, Zenon
    <2>3. CASE Worker(t)
      <3>1. \/ \E p \in {"pop", "publish", "head"} : Goto(t, p) /\ pc[t] \in {"test", "pop", "end"}
            \/ Goto(t, "notify") /\ pc[t] = "begin"
            \/ Goto(t, "run") /\ pc[t] = "notify"
        BY <1>4, <2>3, ZenonT(60) DEF Worker, TestPending, Pop, Begin, Notify, End
      <3>2. CASE \E p \in {"pop", "publish", "head"} : Goto(t, p) /\ pc[t] \in {"test", "pop", "end"}
        BY <1>g, <3>2 DEF Carrying
      <3>3. CASE (Goto(t, "notify") /\ pc[t] = "begin") \/ (Goto(t, "run") /\ pc[t] = "notify")
        BY <1>g, <3>3 DEF Carrying
      <3> QED BY <3>1, <3>2, <3>3
    <2>4. CASE ParkIfRequested(t) \/ Unparked(t) \/ Decide(t) \/ Bind(t) \/ SpawnFails(t)
      <3>1. \E p \in {"parked", "test", "head", "publish", "spawn"} : Goto(t, p)
        BY <2>4, ZenonT(60) DEF ParkIfRequested, Unparked, Decide, Bind, SpawnFails
      <3>2. pc[t] \notin Carrying
        BY <2>4 DEF ParkIfRequested, Unparked, Decide, Bind, SpawnFails, Carrying
      <3>3. \A p \in {"parked", "test", "head", "publish", "spawn"} : p \notin Carrying
        BY DEF Carrying
      <3> QED BY <1>g, <3>1, <3>2, <3>3, Zenon
    <2>5. CASE Spawn(t)
      <3>1. PICK u \in Fresh(Cpu(t)) : pc' = [pc EXCEPT ![u] = "head", ![t] = "bind"]
        BY <2>5, Zenon DEF Spawn
      <3>2. pc[u] = "none" /\ pc[t] = "spawn" /\ u \in Threads
        BY <2>5, Zenon DEF Fresh, Alive, Spawn
      <3>3. \A v \in Threads : pc'[v] = pc[v] \/ (pc[v] \in {"none", "spawn"} /\ pc'[v] \in {"head", "bind"})
        BY <3>1, <3>2 DEF ThreadTypes
      <3> QED BY <3>3 DEF Carrying
    <2> QED BY <1>4, <2>1, <2>2, <2>3, <2>4, <2>5, Zenon DEF Thread
  <1> QED BY <1>1, <1>2, <1>3, <1>4, ItemSame, Zenon

LEMMA ItemInit ==
    ASSUME Init
    PROVE  ItemInv
  <1>1. /\ cfg \in Settings /\ ring = cfg.rings
        /\ \A c, e \in Cpus : \A j \in 1 .. Len(ring[c]), k \in 1 .. Len(ring[e]) : ring[c][j] = ring[e][k] => c = e /\ j = k
    <2>1. cfg \in Configs /\ ring = cfg.rings
      BY ZenonT(60) DEF Init
    <2>2. /\ cfg \in Settings
          /\ \A c, e \in Cpus : \A j \in 1 .. Len(cfg.rings[c]), k \in 1 .. Len(cfg.rings[e]) :
                cfg.rings[c][j] = cfg.rings[e][k] => c = e /\ j = k
      BY <2>1, Filled
    <2> QED BY <2>1, <2>2
  <1>2. \A c \in Cpus : ring[c] \in Seq(Items)
    BY <1>1, Zenon DEF Settings
  <1>3. \A c \in Cpus : Elems(ring[c]) \subseteq Items
    <2>1. \A c \in Cpus : \A k \in 1 .. Len(ring[c]) : ring[c][k] \in Items
      BY <1>2
    <2> QED BY <2>1, Zenon DEF Elems
  <1>4. Loaded = UNION {Elems(ring[c]) : c \in Cpus}
    <2>1. \A c \in Cpus : DOMAIN ring[c] = 1 .. Len(ring[c])
      BY <1>2
    <2>2. \A c \in Cpus : Range(ring[c]) = Elems(ring[c])
      BY <2>1, Zenon DEF Elems, Range
    <2>3. \A x : x \in Loaded <=> \E c \in Cpus : x \in Range(ring[c])
      BY <1>1, ZenonT(60) DEF Loaded
    <2>4. \A x : x \in UNION {Elems(ring[c]) : c \in Cpus} <=> \E c \in Cpus : x \in Elems(ring[c])
      BY Zenon
    <2> QED BY <2>2, <2>3, <2>4, Zenon
  <1>5. hand = [t \in Threads |-> NoItem] /\ ran = [i \in Items |-> 0] /\ moving = NoItem
    BY Zenon DEF Init
  <1>6. \A t \in Threads : pc[t] \notin Carrying
    BY DEF Init, Carrying
  <1>7. ItemTypes
    BY <1>5, <1>6 DEF ItemTypes
  <1>8. HeldOnce
    <2>1. \A c \in Cpus : Distinct(ring[c])
      <3> SUFFICES ASSUME NEW c \in Cpus, NEW j \in 1 .. Len(ring[c]), NEW k \in 1 .. Len(ring[c]), ring[c][j] = ring[c][k] PROVE j = k
        BY Zenon DEF Distinct
      <3> QED BY <1>1
    <2>2. \A c, e \in Cpus : c # e => Elems(ring[c]) \cap Elems(ring[e]) = {}
      <3> SUFFICES ASSUME NEW c \in Cpus, NEW e \in Cpus, c # e, NEW x \in Elems(ring[c]), x \in Elems(ring[e]) PROVE FALSE
        BY Zenon
      <3>1. PICK j \in 1 .. Len(ring[c]) : x = ring[c][j]
        BY Zenon DEF Elems
      <3>2. PICK k \in 1 .. Len(ring[e]) : x = ring[e][k]
        BY Zenon DEF Elems
      <3>3. ring[c][j] = ring[e][k]
        BY <3>1, <3>2
      <3> QED BY <1>1, <3>3
    <2>3. \A c \in Cpus, t \in Threads : hand[t] \notin Elems(ring[c])
      BY <1>3, <1>5, NoItemIsNone, Zenon
    <2> QED BY <1>5, <2>1, <2>2, <2>3, Zenon DEF HeldOnce
  <1>9. \A i \in Items : Held(i) <=> i \in Loaded
    BY <1>4, <1>5, NoItemIsNone, ZenonT(60) DEF Held
  <1>10. \A i \in Items : i \notin Guarded /\ (src[i] \in Accepted <=> i \in Loaded) /\ ran[i] = 0
    BY <1>5 DEF Init, Accepted, Guarded
  <1>11. HeldAccepted
    BY <1>3, <1>5, <1>9, <1>10 DEF HeldAccepted
  <1> QED BY <1>7, <1>8, <1>11, ZenonT(60) DEF ItemInv

LEMMA ItemNext ==
    ASSUME RingInv, ThreadTypes, ItemInv, [Next]_vars
    PROVE  ItemInv'
  <1>1. CASE \E i \in Items : Producer(i)
    BY <1>1, ProducerItem, Zenon
  <1>2. CASE \E t \in Threads : Thread(t)
    BY <1>2, ThreadItem, Zenon
  <1>3. CASE Request \/ Park \/ Parked \/ Rescan \/ Deactivate \/ EndGrace \/ Evacuate \/ Evacuated \/ Check \/ Reopen \/ Unpark
    <2>1. UNCHANGED <<ring, hand, ran, src, aim, moving, pc>>
      BY <1>3, Zenon DEF Request, Park, Parked, Rescan, Deactivate, EndGrace, Evacuate, Evacuated, Check, Reopen, Unpark, queues, calls
    <2> QED BY <2>1, ItemSame, Zenon
  <1>4. CASE Moved
    <2>1. UNCHANGED <<ring, hand, ran, src, aim, pc>> /\ moving' = NoItem
      BY <1>4, Zenon DEF Moved, queues, calls
    <2> QED BY <2>1, Zenon DEF ItemInv, ItemTypes, HeldOnce, HeldAccepted, Held, Guarded
  <1>5. CASE UNCHANGED vars
    <2>1. UNCHANGED <<ring, hand, ran, src, aim, moving, pc>>
      BY <1>5, Zenon DEF vars, queues, calls, coord
    <2> QED BY <2>1, ItemSame, Zenon
  <1> QED BY <1>1, <1>2, <1>3, <1>4, <1>5, TakeHeadItem, RestoreItem, ZenonT(60) DEF Next, Stage
=============================================================================
