----------------------------- MODULE Workqueue -----------------------------
(***************************************************************************)
(* The per-CPU workqueue pools (sched/src/live/workqueue.rs) with the park *)
(* protocol of their threads (live/kthread.rs) and the stages of a CPU-down*)
(* that concern them (live/cpu_hotplug.rs, cpu/src/smp.rs).                *)
(*                                                                         *)
(* Every CPU has a bounded ring, worker threads that drain it, and a       *)
(* manager thread that adds a worker when running items have blocked and   *)
(* work remains.  A producer reads the active mask inside an RCU read      *)
(* section, pushes, and wakes a worker and the manager.  A CPU-down parks  *)
(* the CPU's bound threads, takes it out of the active mask, waits for the *)
(* read sections that saw it there, and moves the ring's items elsewhere.  *)
(*                                                                         *)
(* A thread's wait follows wait_event_at (live/wait_event.rs): publish     *)
(* Sleeping and enlist, test, yield, test again, publish again.            *)
(***************************************************************************)
EXTENDS Naturals, Sequences, FiniteSetsExt

CONSTANTS
    Cpus,       \* logical CPUs, numbers; the boot CPU is the least one
    Items,      \* work items, each submitted at most once
    MaxThreads, \* bound on the workers of a pool
    NoItem,     \* no item in hand
    Configs     \* the configurations an instance covers

ASSUME CpuNumbers == Cpus \subseteq Nat /\ IsFiniteSet(Cpus) /\ \E b \in Cpus : \A c \in Cpus : b <= c
ASSUME ThreadBound == MaxThreads \in Nat \ {0}
ASSUME NoItemIsNone == NoItem \notin Items /\ IsFiniteSet(Items)

Boot == Min(Cpus)

\* The items on the rings at the start and those still to be submitted, whom
\* each asks for and waits for, the bounds of the pools, the CPU that may be
\* taken down (request_offline refuses the boot CPU), how often it is, and how
\* many spawns fail.
Settings ==
    [rings : [Cpus -> Seq(Items)], items : SUBSET Items, target : [Items -> Cpus],
     after : [Items -> SUBSET Items], cap : Nat, max : [Cpus -> Nat], managed : SUBSET Cpus,
     victim : Cpus \ {Boot}, downs : Nat, fails : Nat]

\* No item is on the rings twice, every pool may have its first worker, and a
\* pool that may have more has a manager.
ASSUME Filled ==
    \A f \in Configs :
        /\ f \in Settings
        /\ \A c \in Cpus : Len(f.rings[c]) <= f.cap /\ f.max[c] >= 1 /\ (c \notin f.managed => f.max[c] = 1)
        /\ \A c, e \in Cpus : \A j \in 1 .. Len(f.rings[c]), k \in 1 .. Len(f.rings[e]) :
              f.rings[c][j] = f.rings[e][k] => c = e /\ j = k

VARIABLES
    cfg,        \* the settings, with the downs and failures still to come
    ring,       \* QUEUE[cpu]
    count,      \* ACTIVE[cpu]: items being executed
    workers,    \* WORKERS[cpu]
    wait,       \* WAIT[cpu] and MANAGER_WAIT[cpu], by list <<cpu, kind>>
    pc,         \* where each thread is in its loop
    hand,       \* the item a worker has popped
    left,       \* how many workers the manager has still to spawn
    seen,       \* the pending count the manager has sampled, as a set
    sleepy,     \* threads in state Sleeping
    pinned,     \* threads bound to their CPU, which a CPU-down can see
    park,       \* kthread_park
    parked,     \* kthread_parked
    ran,        \* items executed, with how often
    src,        \* where the submission of each item is
    aim,        \* the CPU whose placement guard the submission holds
    active,     \* ACTIVE_MASK
    down,       \* the CPU-down coordinator
    scan,       \* the bound threads its snapshot has still to visit
    again,      \* whether the pass found a thread to park
    grace,      \* the read sections its grace period waits for
    moving,     \* the item its evacuation has taken off the ring
    broken      \* a kassert has failed

queues == <<ring, count>>
waits == <<wait, sleepy>>
spawns == <<workers, left, pinned>>
parks == <<park, parked>>
calls == <<src, aim>>
mask == <<active, grace>>
coord == <<down, scan, again, moving, broken>>
vars == <<cfg, queues, waits, spawns, seen, pc, hand, parks, ran, calls, mask, coord>>

\* Thread 0 of a CPU is its manager, the others are its workers.
Threads == Cpus \X (0 .. MaxThreads)
Cpu(t) == t[1]
IsManager(t) == t[2] = 0
Alive(t) == pc[t] # "none"
Kinds == {"worker", "manager"}
List(t) == <<Cpu(t), IF IsManager(t) THEN "manager" ELSE "worker">>

-----------------------------------------------------------------------------
(* Waking *)

\* WaitList::wake_one: the first entry that is still Sleeping is woken; the
\* stale ones in front of it are dropped.
WakeOne(l) ==
    LET awake == {k \in 1 .. Len(wait[l]) : wait[l][k] \in sleepy} IN
    IF awake = {} THEN wait' = [wait EXCEPT ![l] = <<>>] /\ UNCHANGED sleepy
    ELSE \E k \in awake :
         /\ \A j \in awake : k <= j
         /\ wait' = [wait EXCEPT ![l] = SubSeq(@, k + 1, Len(@))]
         /\ sleepy' = sleepy \ {wait[l][k]}

\* retain drops the entries of t, of which a list has one at most.
Others(l, t) ==
    LET mine == {k \in 1 .. Len(wait[l]) : wait[l][k] = t} IN
    IF mine = {} THEN wait[l]
    ELSE LET k == CHOOSE k \in mine : TRUE IN SubSeq(wait[l], 1, k - 1) \o SubSeq(wait[l], k + 1, Len(wait[l]))

-----------------------------------------------------------------------------
(* Producers: queue_work_on *)

\* The read section of the placement guard.
Guarded == {i \in Items : src[i] \in {"push", "wake", "manage"}}

\* placement_guard: the asked CPU if it is active, else the first active one.
PlaceOn(c) == IF c \in active THEN c ELSE Min(active)

Submit(i) ==
    /\ src[i] = "new"
    /\ src' = [src EXCEPT ![i] = "push"]
    /\ aim' = [aim EXCEPT ![i] = PlaceOn(cfg.target[i])]
    /\ UNCHANGED <<cfg, queues, waits, spawns, seen, pc, hand, parks, ran, mask,
                   coord>>

Full(c) == Len(ring[c]) = cfg.cap

\* Ring::push under the ring lock.
Push(i) ==
    /\ src[i] = "push"
    /\ ~Full(aim[i])
    /\ ring' = [ring EXCEPT ![aim[i]] = Append(@, i)]
    /\ src' = [src EXCEPT ![i] = "wake"]
    /\ UNCHANGED <<cfg, count, waits, spawns, seen, pc, hand, parks, ran, aim,
                   mask, coord>>

\* A full ring refuses the item and the caller keeps it.
Refuse(i) ==
    /\ src[i] = "push" /\ moving # i
    /\ Full(aim[i])
    /\ src' = [src EXCEPT ![i] = "refused"]
    /\ UNCHANGED <<cfg, queues, waits, spawns, seen, pc, hand, parks, ran, aim,
                   mask, coord>>

WakeWorker(i) ==
    /\ src[i] = "wake"
    /\ WakeOne(<<aim[i], "worker">>)
    /\ src' = [src EXCEPT ![i] = "manage"]
    /\ UNCHANGED <<cfg, queues, spawns, seen, pc, hand, parks, ran, aim, mask,
                   coord>>

\* The second wake; the guard is dropped and queue_work_on returns.
WakeManager(i) ==
    /\ src[i] = "manage"
    /\ WakeOne(<<aim[i], "manager">>)
    /\ src' = [src EXCEPT ![i] = "queued"]
    /\ UNCHANGED <<cfg, queues, spawns, seen, pc, hand, parks, ran, aim, mask,
                   coord>>

Producer(i) == Submit(i) \/ Push(i) \/ Refuse(i) \/ WakeWorker(i) \/ WakeManager(i)

-----------------------------------------------------------------------------
(* The loop head and the wait, shared by workers and managers *)

Goto(t, p) == pc' = [pc EXCEPT ![t] = p]

\* park_if_requested: under PARK_GATE the thread either enlists as parked or
\* goes on with kthread_parked cleared.
ParkIfRequested(t) ==
    /\ pc[t] = "head"
    /\ parked' = [parked EXCEPT ![t] = park[t]]
    /\ Goto(t, IF park[t] THEN "parked" ELSE "test")
    /\ UNCHANGED <<cfg, queues, waits, spawns, seen, hand, park, ran, calls,
                   mask, coord>>

\* unpark cleared the request and woke the thread, which looks again.
Unparked(t) ==
    /\ pc[t] = "parked" /\ ~parked[t]
    /\ Goto(t, "head")
    /\ UNCHANGED <<cfg, queues, waits, spawns, seen, hand, parks, ran, calls,
                   mask, coord>>

\* The manager reads pending_on before ACTIVE and WORKERS.
Sample(t) ==
    /\ IsManager(t) /\ pc[t] \in {"test", "recheck", "yield"}
    /\ pc[t] = "yield" => t \notin sleepy
    /\ seen[Cpu(t)] = {}
    /\ seen' = [seen EXCEPT ![Cpu(t)] = {Len(ring[Cpu(t)])}]
    /\ UNCHANGED <<cfg, queues, waits, spawns, pc, hand, parks, ran, calls,
                   mask, coord>>

\* worker_deficit
Deficit(pending, running, n, max) ==
    IF pending = 0 \/ running < n THEN 0 ELSE Min({pending, max - n})

\* What the thread's wait is for, from the values it has read.
Ready(t) ==
    LET c == Cpu(t) IN
    IF IsManager(t)
    THEN \E p \in seen[c] : Deficit(p, count[c], workers[c], cfg.max[c]) # 0
    ELSE ring[c] # <<>>

CanTest(t) == IsManager(t) => seen[Cpu(t)] # {}
Tested(t) == seen' = IF IsManager(t) THEN [seen EXCEPT ![Cpu(t)] = {}] ELSE seen

\* Set Sleeping and enlist at the tail, dropping an earlier entry.
Publish(t) ==
    /\ pc[t] = "publish"
    /\ wait' = [wait EXCEPT ![List(t)] = Append(Others(List(t), t), t)]
    /\ sleepy' = sleepy \cup {t}
    /\ Goto(t, "recheck")
    /\ UNCHANGED <<cfg, queues, spawns, seen, hand, parks, ran, calls, mask,
                   coord>>

\* A condition that holds ends the wait: the entry and the Sleeping state go.
EndWait(t) ==
    /\ wait' = [wait EXCEPT ![List(t)] = Others(List(t), t)]
    /\ sleepy' = sleepy \ {t}
    /\ Goto(t, "head")

Recheck(t) ==
    /\ pc[t] = "recheck" /\ CanTest(t)
    /\ IF Ready(t) THEN EndWait(t)
       ELSE Goto(t, "yield") /\ UNCHANGED <<wait, sleepy>>
    /\ Tested(t)
    /\ UNCHANGED <<cfg, queues, spawns, hand, parks, ran, calls, mask, coord>>

\* park_yield returns once a waker has made the thread runnable.
Resume(t) ==
    /\ pc[t] = "yield" /\ t \notin sleepy /\ CanTest(t)
    /\ IF Ready(t) THEN EndWait(t)
       ELSE Goto(t, "publish") /\ UNCHANGED <<wait, sleepy>>
    /\ Tested(t)
    /\ UNCHANGED <<cfg, queues, spawns, hand, parks, ran, calls, mask, coord>>

-----------------------------------------------------------------------------
(* kworker and drain *)

TestPending(t) ==
    /\ ~IsManager(t) /\ pc[t] = "test"
    /\ Goto(t, IF ring[Cpu(t)] # <<>> THEN "pop" ELSE "publish")
    /\ UNCHANGED <<cfg, queues, waits, spawns, seen, hand, parks, ran, calls,
                   mask, coord>>

\* Ring::pop; an empty ring ends the drain and the loop starts over.
Pop(t) ==
    LET c == Cpu(t) IN
    /\ pc[t] = "pop"
    /\ IF ring[c] = <<>> THEN Goto(t, "head") /\ UNCHANGED <<ring, hand>>
       ELSE /\ hand' = [hand EXCEPT ![t] = Head(ring[c])]
            /\ ring' = [ring EXCEPT ![c] = Tail(@)]
            /\ Goto(t, "begin")
    /\ UNCHANGED <<cfg, count, waits, spawns, seen, parks, ran, calls, mask,
                   coord>>

\* ACTIVE counts the item only after the ring lock was released.
Begin(t) ==
    /\ pc[t] = "begin"
    /\ count' = [count EXCEPT ![Cpu(t)] = @ + 1]
    /\ Goto(t, "notify")
    /\ UNCHANGED <<cfg, ring, waits, spawns, seen, hand, parks, ran, calls,
                   mask, coord>>

\* The item starts without waking the manager.
NotifyNobody(t) ==
    /\ pc[t] = "notify"
    /\ Goto(t, "run")
    /\ UNCHANGED <<cfg, queues, waits, spawns, seen, hand, parks, ran, calls,
                   mask, coord>>

Notify(t) ==
    /\ pc[t] = "notify"
    /\ WakeOne(<<Cpu(t), "manager">>)
    /\ Goto(t, "run")
    /\ UNCHANGED <<cfg, queues, spawns, seen, hand, parks, ran, calls, mask,
                   coord>>

\* The item's function returns; until the items it waits for have run, it
\* sleeps and keeps its worker.
Run(t) ==
    /\ pc[t] = "run"
    /\ \A j \in cfg.after[hand[t]] : ran[j] > 0
    /\ ran' = [ran EXCEPT ![hand[t]] = @ + 1]
    /\ hand' = [hand EXCEPT ![t] = NoItem]
    /\ Goto(t, "end")
    /\ UNCHANGED <<cfg, queues, waits, spawns, seen, parks, calls, mask, coord>>

\* The end of an item is not counted.
EndUncounted(t) ==
    /\ pc[t] = "end"
    /\ Goto(t, "pop")
    /\ UNCHANGED <<cfg, queues, waits, spawns, seen, hand, parks, ran, calls,
                   mask, coord>>

End(t) ==
    /\ pc[t] = "end"
    /\ count' = [count EXCEPT ![Cpu(t)] = @ - 1]
    /\ Goto(t, "pop")
    /\ UNCHANGED <<cfg, ring, waits, spawns, seen, hand, parks, ran, calls,
                   mask, coord>>

-----------------------------------------------------------------------------
(* kworker_manager and spawn_worker *)

Decide(t) ==
    LET c == Cpu(t) IN
    /\ IsManager(t) /\ pc[t] = "test" /\ CanTest(t)
    /\ \E p \in seen[c] :
         LET n == Deficit(p, count[c], workers[c], cfg.max[c]) IN
         left' = [left EXCEPT ![c] = n] /\ Goto(t, IF n = 0 THEN "publish" ELSE "spawn")
    /\ Tested(t)
    /\ UNCHANGED <<cfg, queues, waits, workers, pinned, hand, parks, ran, calls,
                   mask, coord>>

Fresh(c) == {t \in Threads : Cpu(t) = c /\ ~IsManager(t) /\ ~Alive(t)}

\* The thread exists and runs before it is bound to its CPU.
Spawn(t) ==
    LET c == Cpu(t) IN
    /\ pc[t] = "spawn"
    /\ \E u \in Fresh(c) :
         /\ \A v \in Fresh(c) : u[2] <= v[2]
         /\ pc' = [pc EXCEPT ![u] = "head", ![t] = "bind"]
    /\ UNCHANGED <<cfg, queues, waits, spawns, seen, hand, parks, ran, calls,
                   mask, coord>>

\* update_affinity, no_setaffinity, WORKERS; then the next one of the deficit.
Bind(t) ==
    LET c == Cpu(t) IN
    /\ pc[t] = "bind"
    /\ pinned' = pinned \cup {u \in Threads : Cpu(u) = c /\ Alive(u)}
    /\ workers' = [workers EXCEPT ![c] = @ + 1]
    /\ left' = [left EXCEPT ![c] = @ - 1]
    /\ Goto(t, IF left[c] = 1 THEN "publish" ELSE "spawn")
    /\ UNCHANGED <<cfg, queues, waits, seen, hand, parks, ran, calls, mask,
                   coord>>

\* spawn_kernel_thread has no memory: the loop over the deficit ends.
SpawnFails(t) ==
    /\ pc[t] = "spawn" /\ cfg.fails > 0
    /\ cfg' = [cfg EXCEPT !.fails = @ - 1]
    /\ left' = [left EXCEPT ![Cpu(t)] = 0]
    /\ Goto(t, "publish")
    /\ UNCHANGED <<queues, waits, workers, pinned, seen, hand, parks, ran,
                   calls, mask, coord>>

Worker(t) == TestPending(t) \/ Pop(t) \/ Begin(t) \/ Notify(t) \/ Run(t) \/ End(t)
Wait(t) == Publish(t) \/ Sample(t) \/ Recheck(t) \/ Resume(t)
Thread(t) ==
    \/ ParkIfRequested(t) \/ Unparked(t) \/ Wait(t) \/ Worker(t)
    \/ Decide(t) \/ Spawn(t) \/ Bind(t) \/ SpawnFails(t)

-----------------------------------------------------------------------------
(* CPU-down of cfg.victim, and the way back *)

Victim == cfg.victim
Bound == {t \in pinned : Cpu(t) = Victim}
Down(p) == down' = p

\* request_offline, then the first snapshot of park_per_cpu_kthreads.
Request ==
    /\ down = "idle" /\ cfg.downs > 0
    /\ cfg' = [cfg EXCEPT !.downs = @ - 1]
    /\ scan' = Bound /\ again' = FALSE /\ Down("scan")
    /\ UNCHANGED <<queues, waits, spawns, seen, pc, hand, parks, ran, calls,
                   mask, moving, broken>>

\* kthread::park: request, wake the target, and wait for it; a thread already
\* parked is passed over.
Park ==
    /\ down = "scan"
    /\ \E t \in scan :
         /\ scan' = scan \ {t}
         /\ IF parked[t] THEN UNCHANGED <<park, sleepy, again, down>>
            ELSE /\ park' = [park EXCEPT ![t] = TRUE]
                 /\ sleepy' = sleepy \ {t}
                 /\ again' = TRUE /\ Down("wait")
    /\ UNCHANGED <<cfg, queues, wait, spawns, seen, pc, hand, parked, ran,
                   calls, mask, moving, broken>>

\* park_acknowledged: parked and off its CPU.
Acknowledged(t) == parked[t] /\ pc[t] = "parked"

Parked ==
    /\ down = "wait"
    /\ \A t \in Threads : park[t] => Acknowledged(t)
    /\ Down("scan")
    /\ UNCHANGED <<cfg, queues, waits, spawns, seen, pc, hand, parks, ran,
                   calls, mask, scan, again, moving, broken>>

\* A pass that parked a thread is followed by another snapshot.
Rescan ==
    /\ down = "scan" /\ scan = {} /\ again
    /\ scan' = Bound /\ again' = FALSE
    /\ UNCHANGED <<cfg, queues, waits, spawns, seen, pc, hand, parks, ran,
                   calls, mask, down, moving, broken>>

\* deactivate: clear the mask, then wait for the read sections open now.
CloseMask(readers) ==
    /\ active' = active \ {Victim}
    /\ grace' = readers

\* One snapshot, whatever it found.
DeactivateAfterOnePass ==
    /\ down = "scan" /\ scan = {}
    /\ CloseMask(Guarded)
    /\ Down("grace")
    /\ UNCHANGED <<cfg, queues, waits, spawns, seen, pc, hand, parks, ran,
                   calls, scan, again, moving, broken>>

\* The mask is cleared and nobody is waited for.
DeactivateAtOnce ==
    /\ down = "scan" /\ scan = {} /\ ~again
    /\ CloseMask({})
    /\ Down("grace")
    /\ UNCHANGED <<cfg, queues, waits, spawns, seen, pc, hand, parks, ran,
                   calls, scan, again, moving, broken>>

Deactivate ==
    /\ down = "scan" /\ scan = {} /\ ~again
    /\ CloseMask(Guarded)
    /\ Down("grace")
    /\ UNCHANGED <<cfg, queues, waits, spawns, seen, pc, hand, parks, ran,
                   calls, scan, again, moving, broken>>

EndGrace ==
    /\ down = "grace" /\ grace \cap Guarded = {}
    /\ grace' = {} /\ Down("evacuate")
    /\ UNCHANGED <<cfg, queues, waits, spawns, seen, pc, hand, parks, ran,
                   calls, active, scan, again, moving, broken>>

\* evacuate_offline gives up while an item of the pool executes.
Evacuate ==
    /\ down = "evacuate"
    /\ Down(IF count[Victim] # 0 THEN "check" ELSE "next")
    /\ UNCHANGED <<cfg, queues, waits, spawns, seen, pc, hand, parks, ran,
                   calls, mask, scan, again, moving, broken>>

\* The head leaves the closed ring and is queued like any other work.
TakeHead ==
    LET v == Victim IN
    /\ down = "next" /\ ring[v] # <<>>
    /\ moving' = Head(ring[v])
    /\ ring' = [ring EXCEPT ![v] = Tail(@)]
    /\ src' = [src EXCEPT ![Head(ring[v])] = "push"]
    /\ aim' = [aim EXCEPT ![Head(ring[v])] = PlaceOn(v)]
    /\ Down("move")
    /\ UNCHANGED <<cfg, count, waits, spawns, seen, pc, hand, parks, ran, mask,
                   scan, again, broken>>

Evacuated ==
    /\ down = "next" /\ ring[Victim] = <<>>
    /\ Down("check")
    /\ UNCHANGED <<cfg, queues, waits, spawns, seen, pc, hand, parks, ran,
                   calls, mask, scan, again, moving, broken>>

Moved ==
    /\ down = "move" /\ src[moving] = "queued"
    /\ moving' = NoItem /\ Down("next")
    /\ UNCHANGED <<cfg, queues, waits, spawns, seen, pc, hand, parks, ran,
                   calls, mask, scan, again, broken>>

\* The item is given up instead.
RestoreNothing ==
    /\ down = "move" /\ src[moving] = "push" /\ Full(aim[moving])
    /\ src' = [src EXCEPT ![moving] = "queued"]
    /\ moving' = NoItem /\ Down("check")
    /\ UNCHANGED <<cfg, queues, waits, spawns, seen, pc, hand, parks, ran, aim,
                   mask, scan, again, broken>>

\* No room elsewhere: Ring::push_front, and a kassert that it found room.
Restore ==
    LET v == Victim IN
    /\ down = "move" /\ src[moving] = "push" /\ Full(aim[moving])
    /\ IF Full(v) THEN broken' = TRUE /\ UNCHANGED <<ring, src, moving, down>>
       ELSE /\ ring' = [ring EXCEPT ![v] = <<moving>> \o @]
            /\ src' = [src EXCEPT ![moving] = "queued"]
            /\ moving' = NoItem /\ Down("check") /\ UNCHANGED broken
    /\ UNCHANGED <<cfg, count, waits, spawns, seen, pc, hand, parks, ran, aim,
                   mask, scan, again>>

\* offline_quiescent reads ACTIVE and then the length of the ring; a failed
\* proof is retried until the spin limit.
Check ==
    /\ down \in {"check", "pending"}
    /\ IF down = "check" /\ count[Victim] = 0 THEN Down("pending")
       ELSE IF down = "pending" /\ ring[Victim] = <<>> THEN Down("stopped")
       ELSE Down("evacuate") \/ Down("cancel")
    /\ UNCHANGED <<cfg, queues, waits, spawns, seen, pc, hand, parks, ran,
                   calls, mask, scan, again, moving, broken>>

\* cancel_offline, or mark_online when the CPU comes back.
Reopen ==
    /\ down \in {"cancel", "stopped"}
    /\ active' = active \cup {Victim}
    /\ scan' = Bound /\ Down("unpark")
    /\ UNCHANGED <<cfg, queues, waits, spawns, seen, pc, hand, parks, ran,
                   calls, grace, again, moving, broken>>

Unpark ==
    /\ down = "unpark"
    /\ \E t \in scan :
         /\ scan' = scan \ {t}
         /\ park' = [park EXCEPT ![t] = FALSE]
         /\ parked' = [parked EXCEPT ![t] = FALSE]
         /\ Down(IF scan = {t} THEN "idle" ELSE "unpark")
    /\ UNCHANGED <<cfg, queues, waits, spawns, seen, pc, hand, ran, calls, mask,
                   again, moving, broken>>

Stage ==
    \/ Park \/ Parked \/ Rescan \/ Deactivate \/ EndGrace
    \/ Evacuate \/ TakeHead \/ Evacuated \/ Moved \/ Restore \/ Check
    \/ Reopen \/ Unpark

-----------------------------------------------------------------------------
(* The specification *)

\* spawn_kworkers has run.  A pool is idle, or an item has just been queued on
\* it and its threads woken.  The manager of a pool that is at its limit from
\* the start has nothing to do and may be left out.
First == {t \in Threads : t[2] <= 1 /\ (IsManager(t) => Cpu(t) \in cfg.managed)}

Loaded == UNION {Range(cfg.rings[c]) : c \in Cpus}
Resting == {t \in First : cfg.rings[Cpu(t)] = <<>>}

Init ==
    /\ cfg \in Configs
    /\ ring = cfg.rings
    /\ count = [c \in Cpus |-> 0]
    /\ workers = [c \in Cpus |-> 1]
    /\ wait = [l \in Cpus \X Kinds |->
                 LET t == <<l[1], IF l[2] = "manager" THEN 0 ELSE 1>> IN IF t \in Resting THEN <<t>> ELSE <<>>]
    /\ pc = [t \in Threads |-> IF t \in First THEN "yield" ELSE "none"]
    /\ hand = [t \in Threads |-> NoItem]
    /\ left = [c \in Cpus |-> 0]
    /\ seen = [c \in Cpus |-> {}]
    /\ sleepy = Resting
    /\ pinned = First
    /\ park = [t \in Threads |-> FALSE]
    /\ parked = [t \in Threads |-> FALSE]
    /\ ran = [i \in Items |-> 0]
    /\ src = [i \in Items |-> IF i \in Loaded THEN "queued"
                             ELSE IF i \in cfg.items THEN "new" ELSE "absent"]
    /\ aim = [i \in Items |-> Boot]
    /\ active = Cpus
    /\ down = "idle" /\ scan = {} /\ again = FALSE
    /\ grace = {} /\ moving = NoItem /\ broken = FALSE

Next ==
    \/ \E i \in Items : Producer(i)
    \/ \E t \in Threads : Thread(t)
    \/ Request \/ Stage

Spec == Init /\ [][Next]_vars

-----------------------------------------------------------------------------
(* Properties *)

\* Type correctness; a pool never has more threads than MAX_WORKERS_PER_CPU,
\* and ACTIVE is the number of its threads that execute an item.
TypeOK ==
    /\ cfg.downs \in Nat /\ cfg.fails \in Nat
    /\ \A c \in Cpus :
         /\ ring[c] \in Seq(Items) /\ Len(ring[c]) <= cfg.cap
         /\ workers[c] \in 1 .. cfg.max[c]
         /\ count[c] = Cardinality({t \in Threads :
                          Cpu(t) = c /\ pc[t] \in {"notify", "run", "end"}})
         /\ seen[c] \in SUBSET (0 .. cfg.cap) /\ left[c] \in 0 .. cfg.max[c]
    /\ \A t \in Threads : hand[t] \in Items \cup {NoItem}
    /\ wait \in [Cpus \X Kinds -> Seq(Threads)]
    /\ {park, parked} \subseteq [Threads -> BOOLEAN]
    /\ sleepy \cup pinned \cup scan \subseteq {t \in Threads : Alive(t)}
    /\ ran \in [Items -> Nat] /\ aim \in [Items -> Cpus]
    /\ src \in [Items -> {"absent", "new", "push", "wake", "manage", "queued", "refused"}]
    /\ active \subseteq Cpus /\ Boot \in active
    /\ grace \subseteq Items /\ moving \in Items \cup {NoItem}
    /\ {again, broken} \subseteq BOOLEAN

\* In how many places an item is: rings, hands, the evacuation, what has run.
Places(i) ==
    Cardinality({p \in Cpus \X (1 .. cfg.cap) :
                    p[2] <= Len(ring[p[1]]) /\ ring[p[1]][p[2]] = i})
    + Cardinality({t \in Threads : hand[t] = i})
    + (IF moving = i /\ src[i] = "push" THEN 1 ELSE 0) + ran[i]

\* Work that queue_work_on accepted is on one ring, in one worker's hand, in
\* the evacuation's hand, or has run, and it is in one place only: neither a
\* drain nor an evacuation loses or doubles it (drain, evacuate_offline_with).
WorkConserved ==
    \A i \in Items :
        Places(i) = IF src[i] \in {"wake", "manage", "queued"} \/ moving = i THEN 1 ELSE 0

\* An evacuation that finds no room elsewhere can always put the head back:
\* the kassert "closed workqueue lost its evacuated head" never fires.
HeadRestored == ~broken

\* When the CPU-down has its quiescence proof (offline_quiescent in
\* final_empty), the closed pool holds no work and none of its threads can
\* take any: all of them are parked, those its manager added during the
\* parking included.
StoppedPoolEmpty ==
    down = "stopped" =>
        /\ ring[Victim] = <<>>
        /\ \A t \in Threads : Cpu(t) = Victim /\ Alive(t) => Acknowledged(t)
        /\ \A i \in Guarded : aim[i] # Victim

\* Asleep in its wait, or in an item that waits for another one.
Blocked(t) ==
    \/ pc[t] = "yield" /\ t \in sleepy
    \/ pc[t] = "run" /\ \E j \in cfg.after[hand[t]] : ran[j] = 0

\* Pending work of an open pool is never stranded: once the calls that queued
\* it have returned, some thread of the pool is on its way or asked to park, or
\* every worker the pool may have is executing.  An idle worker is not left
\* asleep, and when the running items have blocked the manager adds a worker
\* ("one legitimate sleep cannot starve unrelated process-context work").
WorkServed ==
    \A c \in active :
        LET mine == {t \in Threads : Cpu(t) = c /\ Alive(t)} IN
        \/ ring[c] = <<>>
        \/ \E i \in Guarded : aim[i] = c
        \/ \E t \in mine : park[t] \/ ~Blocked(t)
        \/ count[c] = cfg.max[c]
=============================================================================
