----------------------------- MODULE WakeSwitch -----------------------------
(***************************************************************************)
(* Blocking, waking and switching in crates/kernel/sched: the wait_event   *)
(* loop over a WaitList, try_to_wake_up and the per-CPU wake lists, the    *)
(* context switch with its finish_task_switch handoff, queued migration    *)
(* (affinity and new-idle balance) and the idle loop.                      *)
(*                                                                         *)
(* A CPU is one thread of control: at[c] says what it is executing, and    *)
(* wk[c] holds the locals of the wake or migration it is in.  Every        *)
(* section under one runqueue lock is one step, except the switch, which   *)
(* hands the lock to the incoming task (at[c] = "switched").  TaskPi       *)
(* (task.pi_lock) is held by the CPU whose at[c] is one of PiSteps.  A     *)
(* failed kassert! stops the machine: it is recorded in panic.             *)
(***************************************************************************)
EXTENDS Integers, Sequences, FiniteSets

CONSTANTS Cpus,      \* the active CPUs
          Tasks,     \* the tasks
          Waiters,   \* the tasks that wait for an event
          Idle,      \* rq.current of a CPU that runs its idle task
          NoTask,    \* an empty slot
          Scenes     \* what may happen to the tasks: see scene

ASSUME WakeAssumption ==
    /\ {Idle, NoTask} \intersect Tasks = {} /\ Idle # NoTask
    /\ \A s \in Scenes :
          /\ s.contexts \subseteq {"hard", "tail", "inline", "process"}
          /\ s.masks \subseteq (SUBSET Cpus) \ {{}} /\ s.rousers \subseteq Cpus
          /\ s.tasks \subseteq Tasks /\ Waiters \subseteq s.tasks

VARIABLES
    state,    \* Task.state
    onRq,     \* Task.on_rq: off, queued or migrating
    onCpu,    \* Task.on_cpu
    cpu,      \* Task.cpu
    onList,   \* Task.on_wake_list
    allowed,  \* Task.cpus_allowed
    cond,     \* the condition a task waits for
    listed,   \* the task's entry is on its WaitList
    pc,       \* where the task is in wait_event
    tree,     \* class trees of each runqueue
    current,  \* rq.current
    token,    \* rq.switched_from
    parked,   \* PARKED[c]: the evicted task and its preferred CPU
    list,     \* WAKE_LISTS[c], newest first
    pending,  \* WAKE_PENDING[c]
    ipi,      \* a reschedule IPI is on its way to the CPU
    chain,    \* the wake-list nodes a CPU detached and has still to activate
    idle,     \* where the CPU's idle loop is
    at,       \* what the CPU is executing
    wk,       \* locals of the wake or migration the CPU executes
    panic,    \* the kassert! that failed, if any
    scene     \* tasks: the tasks there are; contexts: the contexts wakers run in;
              \* masks: the affinity masks set_user_affinity is called with;
              \* rousers: the CPUs that rouse sleepers by signal or deadline

taskVars == <<state, onRq, onCpu, cpu>>
waitVars == <<cond, listed, pc>>
rqVars   == <<tree, current, token, parked>>
listVars == <<list, pending, onList>>
cpuVars  == <<chain, idle, at, wk>>
vars == <<taskVars, waitVars, rqVars, listVars, cpuVars, ipi, allowed, panic>>

Present == scene.tasks

NoPark == [task |-> NoTask, target |-> NoTask]
NoWork == [task |-> NoTask, ctx |-> "hard", target |-> NoTask, kick |-> FALSE]

\* The locals of a queued migration of t to d.
Moving(t, d, kick) == [task |-> t, ctx |-> "process", target |-> d, kick |-> kick]

Init ==
    /\ scene \in Scenes
    /\ state = [t \in Present |-> "Runnable"]
    /\ onRq = [t \in Present |-> "queued"]
    /\ onCpu = [t \in Present |-> FALSE]
    /\ cpu \in [Present -> Cpus]
    /\ onList = [t \in Present |-> FALSE]
    /\ allowed = [t \in Present |-> Cpus]
    /\ cond = [t \in Present |-> FALSE]
    /\ listed = [t \in Present |-> FALSE]
    /\ pc = [t \in Present |-> "run"]
    /\ tree = [c \in Cpus |-> {t \in Present : cpu[t] = c}]
    /\ current = [c \in Cpus |-> Idle]
    /\ token = [c \in Cpus |-> NoTask]
    /\ parked = [c \in Cpus |-> NoPark]
    /\ list = [c \in Cpus |-> <<>>]
    /\ pending = [c \in Cpus |-> FALSE]
    /\ ipi = [c \in Cpus |-> FALSE]
    /\ chain = [c \in Cpus |-> <<>>]
    /\ idle = [c \in Cpus |-> "service"]
    /\ at = [c \in Cpus |-> "task"]
    /\ wk = [c \in Cpus |-> NoWork]
    /\ panic = "none"

-----------------------------------------------------------------------------
(* Locks, class trees and CPU selection *)

PiSteps == {"select", "decide", "link", "recheck", "place", "move", "attach"}

PiFree(t) == \A c \in Cpus : ~(at[c] \in PiSteps /\ wk[c].task = t)
RqFree(c) == at[c] # "switched"
InTree(t) == \E c \in Cpus : t \in tree[c]
Load(c)   == Cardinality(tree[c])

CompleteWake(s) == IF s = "Waking" THEN "Runnable" ELSE s

Goto(c, from, to) == at[c] = from /\ at' = [at EXCEPT ![c] = to]

Panic(why) ==
    /\ panic' = why
    /\ UNCHANGED <<taskVars, waitVars, rqVars, listVars, cpuVars, ipi, allowed>>

\* RunqueueInner::enqueue_raw: the class node is claimed by one tree only; a
\* losing enqueue leaves the owner alone but still completes the wake.
EnqueueRaw(c, t) ==
    /\ tree' = IF InTree(t) THEN tree ELSE [tree EXCEPT ![c] = @ \union {t}]
    /\ onRq' = [onRq EXCEPT ![t] = "queued"]
    /\ state' = [state EXCEPT ![t] = CompleteWake(@)]

\* select_task_rq: the previous CPU when its queue is empty, else the least
\* loaded allowed CPU, the local one on a tie.
SelectTaskRq(me, t) ==
    LET least == {c \in allowed[t] : \A d \in allowed[t] : Load(c) =< Load(d)}
    IN  IF cpu[t] \in allowed[t] /\ Load(cpu[t]) = 0 THEN {cpu[t]}
        ELSE IF me \in least THEN {me} ELSE least

\* destination_with: the preferred CPU while the mask allows it, else another.
Destination(t, preferred) == IF preferred \in allowed[t] THEN {preferred} ELSE allowed[t]

-----------------------------------------------------------------------------
(* wait_event on the running task *)

Runs(c, t) == at[c] = "task" /\ current[c] = t

Step(c, t, from, to) ==
    /\ Runs(c, t) /\ pc[t] = from
    /\ pc' = [pc EXCEPT ![t] = to]

\* The first test of the condition, before anything is published.
WaitEvent(c, t) ==
    /\ Step(c, t, "run", IF cond[t] THEN "run" ELSE "park")
    /\ cond' = [cond EXCEPT ![t] = FALSE]
    /\ UNCHANGED <<state, listed>>

\* park_with_wait_state_range: under the wait-list lock, drop a stale entry,
\* push the new one and publish Sleeping.
Park(c, t) ==
    /\ Step(c, t, "park", "check")
    /\ listed' = [listed EXCEPT ![t] = TRUE]
    /\ state' = [state EXCEPT ![t] = "Sleeping"]
    /\ UNCHANGED cond

\* A wait loop that trusts its publication and sleeps without a second test.
RecheckNothing(c, t) ==
    /\ Step(c, t, "check", "yield")
    /\ UNCHANGED <<state, listed, cond>>

Recheck(c, t) ==
    /\ Step(c, t, "check", IF cond[t] THEN "cancel" ELSE "yield")
    /\ UNCHANGED <<state, listed, cond>>

Woken(c, t) ==
    /\ Step(c, t, "woken", IF cond[t] THEN "cancel" ELSE "park")
    /\ UNCHANGED <<state, listed, cond>>

CancelPark(c, t) ==
    /\ Step(c, t, "cancel", "run")
    /\ listed' = [listed EXCEPT ![t] = FALSE]
    /\ state' = [state EXCEPT ![t] = "Runnable"]
    /\ UNCHANGED cond

TaskStep(c, t) ==
    /\ \/ Park(c, t) \/ Recheck(c, t) \/ Woken(c, t) \/ CancelPark(c, t)
       \/ t \in Waiters /\ WaitEvent(c, t)
    /\ UNCHANGED <<onRq, onCpu, cpu, rqVars, listVars, cpuVars, ipi, allowed, panic>>

-----------------------------------------------------------------------------
(* try_to_wake_up *)

\* A hard-IRQ handler or a softirq tail returns into the IRQ epilogue, which
\* services the wake list; the other contexts return to the running task.
Return(c) == IF wk[c].ctx \in {"hard", "tail"} THEN "irq" ELSE "task"

Done(c) ==
    /\ at' = [at EXCEPT ![c] = Return(c)]
    /\ wk' = [wk EXCEPT ![c] = NoWork]

\* Any interrupt ends a halt.
LeaveHalt(c) == idle' = [idle EXCEPT ![c] = IF @ = "halt" THEN "service" ELSE @]

\* A task that runs ordinary kernel code can be the waker itself; any CPU,
\* idle or not, can take the interrupt that wakes.
MayRun(c, ctx) ==
    at[c] = "task" /\ (ctx \in {"process", "inline"} => current[c] \in Present /\ pc[current[c]] = "run")

\* An event: the condition becomes true, then the wait list is woken.
Post(c, t, ctx) ==
    /\ MayRun(c, ctx) /\ ~cond[t] /\ (ctx \in {"process", "inline"} => current[c] # t)
    /\ cond' = [cond EXCEPT ![t] = TRUE]
    /\ at' = [at EXCEPT ![c] = "pop"]
    /\ wk' = [wk EXCEPT ![c] = [NoWork EXCEPT !.task = t, !.ctx = ctx]]
    /\ LeaveHalt(c)
    /\ UNCHANGED <<taskVars, listed, pc, rqVars, listVars, chain, ipi, allowed, panic>>

\* A signal or the deadline scanner wakes the task and leaves its entry.
Rouse(c, t) ==
    /\ c \in scene.rousers /\ at[c] = "task" /\ state[t] = "Sleeping"
    /\ at' = [at EXCEPT ![c] = "claim"]
    /\ wk' = [wk EXCEPT ![c] = [NoWork EXCEPT !.task = t]]
    /\ LeaveHalt(c)
    /\ UNCHANGED <<taskVars, waitVars, rqVars, listVars, chain, ipi, allowed, panic>>

\* WaitList::wake_all pops the entry, then wakes outside the list lock.
Pop(c) ==
    LET t == wk[c].task IN
    /\ at[c] = "pop"
    /\ listed' = [listed EXCEPT ![t] = FALSE]
    /\ IF listed[t] THEN Goto(c, "pop", "claim") /\ UNCHANGED wk ELSE Done(c)
    /\ UNCHANGED <<taskVars, cond, pc, rqVars, listVars, chain, idle, ipi, allowed, panic>>

\* claim_wake under TaskPi: exactly one waker moves Sleeping to Waking.
Claim(c) ==
    LET t == wk[c].task IN
    /\ at[c] = "claim" /\ PiFree(t)
    /\ IF state[t] = "Sleeping"
       THEN /\ state' = [state EXCEPT ![t] = "Waking"]
            /\ Goto(c, "claim", "select") /\ UNCHANGED wk
       ELSE Done(c) /\ UNCHANGED state
    /\ UNCHANGED <<onRq, onCpu, cpu, waitVars, rqVars, listVars, chain, idle, ipi, allowed, panic>>

\* place_runnable_locked: the first load of on_cpu and the choice of CPU.
SelectTarget(c) ==
    LET t == wk[c].task IN
    /\ Goto(c, "select", "decide")
    /\ \E d \in IF onCpu[t] THEN {cpu[t]} ELSE SelectTaskRq(c, t) :
          wk' = [wk EXCEPT ![c].target = d]
    /\ UNCHANGED <<taskVars, waitVars, rqVars, listVars, chain, idle, ipi, allowed, panic>>

MustDefer(c) ==
    LET w == wk[c] IN
    \/ w.ctx = "hard" \/ w.target # c \/ onCpu[w.task]
    \/ w.ctx \in {"tail", "inline"} /\ Load(w.target) = 0

\* A push that links the node without winning on_wake_list first.
DeferUnclaimed(c) ==
    LET t == wk[c].task  d == wk[c].target IN
    /\ at[c] = "decide" /\ MustDefer(c)
    /\ cpu' = [cpu EXCEPT ![t] = d]
    /\ onList' = [onList EXCEPT ![t] = TRUE]
    /\ pending' = [pending EXCEPT ![d] = TRUE]
    /\ wk' = [wk EXCEPT ![c].kick = ~pending[d]]
    /\ Goto(c, "decide", "link")
    /\ UNCHANGED <<state, onRq, onCpu, waitVars, rqVars, list, chain, idle, ipi, allowed, panic>>

\* publish_deferred and the head of wake_list_push_selected: task.cpu, the
\* node claim and the batch latch.  A task whose node is already claimed is
\* not linked again.
Defer(c) ==
    LET t == wk[c].task  d == wk[c].target IN
    /\ at[c] = "decide" /\ MustDefer(c)
    /\ cpu' = [cpu EXCEPT ![t] = d]
    /\ IF onList[t]
       THEN Done(c) /\ UNCHANGED listVars
       ELSE /\ onList' = [onList EXCEPT ![t] = TRUE]
            /\ pending' = [pending EXCEPT ![d] = TRUE]
            /\ wk' = [wk EXCEPT ![c].kick = ~pending[d]]
            /\ Goto(c, "decide", "link") /\ UNCHANGED list
    /\ UNCHANGED <<state, onRq, onCpu, waitVars, rqVars, chain, idle, ipi, allowed, panic>>

Link(c) ==
    /\ Goto(c, "link", "recheck")
    /\ list' = [list EXCEPT ![wk[c].target] = <<wk[c].task>> \o @]
    /\ UNCHANGED <<taskVars, waitVars, rqVars, pending, onList, chain, idle, wk, ipi, allowed, panic>>

\* The latch is looked at again after the link, and the target is kicked: an
\* IPI when it is remote, only need_resched when it is this CPU.
Kick(c) ==
    LET d == wk[c].target IN
    /\ at[c] = "recheck"
    /\ pending' = [pending EXCEPT ![d] = TRUE]
    /\ ipi' = [ipi EXCEPT ![d] = @ \/ (d # c /\ (wk[c].kick \/ ~pending[d]))]
    /\ Done(c)
    /\ UNCHANGED <<taskVars, waitVars, rqVars, list, onList, chain, idle, allowed, panic>>

\* A local, settled task is enqueued directly: wait for the rq lock ...
Direct(c) ==
    /\ at[c] = "decide" /\ ~MustDefer(c)
    /\ Goto(c, "decide", "place")
    /\ UNCHANGED <<taskVars, waitVars, rqVars, listVars, chain, idle, wk, ipi, allowed, panic>>

\* ... and publish task.cpu and the enqueue under it.
Place(c) ==
    LET t == wk[c].task IN
    /\ at[c] = "place"
    /\ cpu' = [cpu EXCEPT ![t] = c]
    /\ EnqueueRaw(c, t)
    /\ Done(c)
    /\ UNCHANGED <<onCpu, waitVars, current, token, parked, listVars, chain, idle, ipi, allowed, panic>>

Ttwu(c) == Pop(c) \/ Claim(c) \/ SelectTarget(c) \/ Defer(c) \/ Link(c) \/ Kick(c) \/ Direct(c) \/ Place(c)

-----------------------------------------------------------------------------
(* sched_ttwu_pending, from the IRQ epilogue and from the idle loop *)

\* service_current_cpu: wake_list_take detaches the whole list; an empty one
\* ends the service.
TakeList(c) ==
    /\ at' = [at EXCEPT ![c] = IF list[c] = <<>> THEN "task" ELSE "drain"]
    /\ chain' = [chain EXCEPT ![c] = list[c]]
    /\ list' = [list EXCEPT ![c] = <<>>]
    /\ UNCHANGED <<taskVars, waitVars, rqVars, pending, onList, wk, allowed, panic>>

\* Any interrupt ends in the epilogue that services the wake list.
Tick(c) == at[c] = "task" /\ TakeList(c) /\ LeaveHalt(c) /\ UNCHANGED ipi

Ipi(c) == at[c] = "task" /\ ipi[c] /\ TakeList(c) /\ LeaveHalt(c) /\ ipi' = [ipi EXCEPT ![c] = FALSE]

IrqExit(c) == at[c] = "irq" /\ TakeList(c) /\ UNCHANGED <<idle, ipi>>

IdleService(c) ==
    /\ at[c] = "task" /\ current[c] = Idle /\ idle[c] = "service"
    /\ TakeList(c)
    /\ idle' = [idle EXCEPT ![c] = "schedule"] /\ UNCHANGED ipi

\* pending_wake: a task already queued or running here needs no activation;
\* one that still runs elsewhere is put back on the list.
Activate(c) ==
    LET t == Head(chain[c]) IN
    /\ at[c] = "drain" /\ chain[c] # <<>> /\ cpu[t] = c
    /\ \/ /\ t = current[c] \/ onRq[t] # "off"
          /\ state' = [state EXCEPT ![t] = CompleteWake(@)]
          /\ UNCHANGED <<onRq, tree>>
       \/ /\ t # current[c] /\ onRq[t] = "off" /\ ~onCpu[t]
          /\ EnqueueRaw(c, t)
    /\ chain' = [chain EXCEPT ![c] = Tail(@)]
    /\ onList' = [onList EXCEPT ![t] = FALSE]
    /\ UNCHANGED <<onCpu, cpu, waitVars, current, token, parked, list, pending, idle, at, wk, ipi, allowed, panic>>

\* A drain that releases a wake it should have put back.
RequeueForgotten(c) ==
    LET t == Head(chain[c]) IN
    /\ at[c] = "drain" /\ chain[c] # <<>> /\ cpu[t] = c /\ PiFree(t)
    /\ t # current[c] /\ onRq[t] = "off" /\ onCpu[t]
    /\ chain' = [chain EXCEPT ![c] = Tail(@)]
    /\ onList' = [onList EXCEPT ![t] = FALSE]
    /\ UNCHANGED <<taskVars, waitVars, rqVars, list, pending, idle, at, wk, ipi, allowed, panic>>

\* wake_list_requeue_selected under TaskPi, with a local kick only.
Requeue(c) ==
    LET t == Head(chain[c]) IN
    /\ at[c] = "drain" /\ chain[c] # <<>> /\ cpu[t] = c /\ PiFree(t)
    /\ t # current[c] /\ onRq[t] = "off" /\ onCpu[t]
    /\ chain' = [chain EXCEPT ![c] = Tail(@)]
    /\ list' = [list EXCEPT ![c] = <<t>> \o @]
    /\ pending' = [pending EXCEPT ![c] = TRUE]
    /\ UNCHANGED <<taskVars, waitVars, rqVars, onList, idle, at, wk, ipi, allowed, panic>>

\* "deferred wake reached a non-owning runqueue"
StrayWake(c) ==
    /\ at[c] = "drain" /\ chain[c] # <<>> /\ cpu[Head(chain[c])] # c
    /\ Panic("owner")

\* wake_list_finish: the latch is cleared; a node that arrived meanwhile only
\* sets need_resched.
FinishDrain(c) ==
    /\ chain[c] = <<>> /\ Goto(c, "drain", "task")
    /\ pending' = [pending EXCEPT ![c] = FALSE]
    /\ UNCHANGED <<taskVars, waitVars, rqVars, list, onList, chain, idle, wk, ipi, allowed, panic>>

Service(c) == IrqExit(c) \/ Activate(c) \/ Requeue(c) \/ StrayWake(c) \/ FinishDrain(c)

-----------------------------------------------------------------------------
(* schedule_once, oxide_finish_task_switch and the idle loop *)

\* What the round does with the outgoing task: a Runnable or Waking one goes
\* back to the tree, or is parked when its mask lost this CPU.
StaysRunnable(c) == current[c] \in Present /\ state[current[c]] \in {"Runnable", "Waking"}
Evicted(c) == StaysRunnable(c) /\ c \notin allowed[current[c]] /\ parked[c] = NoPark
PutBack(c) == StaysRunnable(c) /\ ~Evicted(c)

\* put_prev_task: enqueue_raw names this CPU once it won the class node.
Requeued(c) == IF PutBack(c) /\ ~InTree(current[c]) THEN {current[c]} ELSE {}
Ready(c) == tree[c] \union Requeued(c)

PutPrev(c) ==
    LET prev == current[c] IN
    /\ onRq' = IF prev \notin Present THEN onRq
               ELSE [onRq EXCEPT ![prev] = IF PutBack(c) THEN "queued"
                                           ELSE IF Evicted(c) THEN "migrating" ELSE "off"]
    /\ state' = IF PutBack(c) THEN [state EXCEPT ![prev] = CompleteWake(@)] ELSE state
    /\ IF Evicted(c)
       THEN \E d \in SelectTaskRq(c, prev) : parked' = [parked EXCEPT ![c] = [task |-> prev, target |-> d]]
       ELSE UNCHANGED parked
    /\ pc' = IF prev \in Present /\ pc[prev] = "yield" THEN [pc EXCEPT ![prev] = "woken"] ELSE pc
    /\ idle' = IF prev = Idle THEN [idle EXCEPT ![c] = "balance"] ELSE idle

MaySchedule(c) ==
    /\ at[c] = "task"
    /\ IF current[c] = Idle THEN idle[c] = "schedule" ELSE pc[current[c]] \in {"run", "yield"}

\* A round that runs what it picked without claiming on_cpu.
SwitchUnclaimed(c, next) ==
    LET prev == current[c] IN
    /\ MaySchedule(c) /\ next # prev
    /\ next \in IF Ready(c) = {} THEN {Idle} ELSE Ready(c)
    /\ next \in Present => onRq[next] = "queued"
    /\ PutPrev(c)
    /\ tree' = [tree EXCEPT ![c] = Ready(c) \ {next}]
    /\ current' = [current EXCEPT ![c] = next]
    /\ onCpu' = IF next \in Present THEN [onCpu EXCEPT ![next] = TRUE] ELSE onCpu
    /\ cpu' = [t \in Present |-> IF t \in Requeued(c) \union {next} THEN c ELSE cpu[t]]
    /\ token' = [token EXCEPT ![c] = prev]
    /\ Goto(c, "task", "switched")
    /\ UNCHANGED <<cond, listed, listVars, chain, wk, ipi, allowed, panic>>

\* One scheduling round that picks next.  The rq lock stays held until the
\* incoming task finishes the switch.
Switch(c, next) ==
    LET prev == current[c] IN
    /\ MaySchedule(c) /\ next # prev
    /\ next \in IF Ready(c) = {} THEN {Idle} ELSE Ready(c)
    /\ next \in Present => ~onCpu[next] /\ onRq[next] = "queued"
    /\ PutPrev(c)
    /\ tree' = [tree EXCEPT ![c] = Ready(c) \ {next}]
    /\ current' = [current EXCEPT ![c] = next]
    /\ onCpu' = IF next \in Present THEN [onCpu EXCEPT ![next] = TRUE] ELSE onCpu
    /\ cpu' = [t \in Present |-> IF t \in Requeued(c) \union {next} THEN c ELSE cpu[t]]
    /\ token' = [token EXCEPT ![c] = prev]
    /\ Goto(c, "task", "switched")
    /\ UNCHANGED <<cond, listed, listVars, chain, wk, ipi, allowed, panic>>

\* The round picks the outgoing task again: no switch.
Stay(c) ==
    LET prev == current[c] IN
    /\ MaySchedule(c)
    /\ IF prev = Idle THEN Ready(c) = {} ELSE PutBack(c) /\ prev \in Ready(c)
    /\ PutPrev(c)
    /\ tree' = [tree EXCEPT ![c] = Ready(c) \ {prev}]
    /\ cpu' = [t \in Present |-> IF t \in Requeued(c) THEN c ELSE cpu[t]]
    /\ UNCHANGED <<onCpu, cond, listed, current, token, listVars, chain, at, wk, ipi, allowed, panic>>

\* "schedule picked task not canonically queued"
PickedUnqueued(c) ==
    /\ MaySchedule(c)
    /\ \E t \in Ready(c) : IF t = current[c] THEN ~PutBack(c) ELSE onRq[t] # "queued"
    /\ Panic("unqueued")

\* "schedule selected task already owned by another CPU"
PickedOwned(c) ==
    /\ MaySchedule(c)
    /\ \E t \in Ready(c) \ {current[c]} : onRq[t] = "queued" /\ onCpu[t]
    /\ Panic("owned")

\* finish_lock_switch_pending: on_cpu is cleared before the lock is dropped.
FinishSwitch(c) ==
    /\ Goto(c, "switched", IF parked[c] = NoPark THEN "task" ELSE "tail")
    /\ onCpu' = IF token[c] \in Present THEN [onCpu EXCEPT ![token[c]] = FALSE] ELSE onCpu
    /\ token' = [token EXCEPT ![c] = NoTask]
    /\ UNCHANGED <<state, onRq, cpu, waitVars, tree, current, parked, listVars, chain, idle, wk, ipi, allowed, panic>>

\* place_parked on the incoming task, with no rq lock held.
SwitchTail(c) ==
    LET p == parked[c].task IN
    /\ at[c] = "tail" /\ PiFree(p)
    /\ \E d \in Destination(p, parked[c].target) :
          cpu' = [cpu EXCEPT ![p] = d] /\ wk' = [wk EXCEPT ![c] = Moving(p, d, TRUE)]
    /\ parked' = [parked EXCEPT ![c] = NoPark]
    /\ Goto(c, "tail", "attach")
    /\ UNCHANGED <<state, onRq, onCpu, waitVars, tree, current, token, listVars, chain, idle, ipi, allowed, panic>>

Schedule(c) ==
    \/ \E next \in Present \union {Idle} : Switch(c, next)
    \/ Stay(c) \/ PickedOwned(c) \/ PickedUnqueued(c)

-----------------------------------------------------------------------------
(* Queued migration: set_user_affinity and newidle_balance *)

\* A mask composed with the previous one instead of replacing it.
SetAffinityComposed(c, t, mask) ==
    /\ MayRun(c, "process") /\ PiFree(t) /\ mask # allowed[t]
    /\ allowed' = [allowed EXCEPT ![t] = @ \intersect mask]
    /\ UNCHANGED <<taskVars, waitVars, rqVars, listVars, chain, idle, at, wk, ipi, panic>>

\* set_user_affinity: publish the mask and, when it lost task.cpu, relocate.
SetAffinity(c, t, mask) ==
    /\ MayRun(c, "process") /\ PiFree(t) /\ mask # allowed[t]
    /\ allowed' = [allowed EXCEPT ![t] = mask]
    /\ IF cpu[t] \in mask THEN UNCHANGED <<at, wk>>
       ELSE /\ at' = [at EXCEPT ![c] = "move"]
            /\ \E d \in mask : /\ \A e \in mask : Load(d) =< Load(e)
                              /\ wk' = [wk EXCEPT ![c] = Moving(t, d, TRUE)]
    /\ UNCHANGED <<taskVars, waitVars, rqVars, listVars, chain, idle, ipi, panic>>

\* newidle_balance: an idle CPU picks a victim on a CPU with two or more ...
Victims(c) == IF Load(c) > 0 THEN {} ELSE
    {t \in Present : ~onCpu[t] /\ c \in allowed[t] /\ \E d \in Cpus \ {c} : Load(d) > 1 /\ t \in tree[d]}

Balance(c) ==
    /\ current[c] = Idle /\ idle[c] = "balance" /\ at[c] = "task"
    /\ \/ /\ \E t \in Victims(c) : wk' = [wk EXCEPT ![c] = Moving(t, c, FALSE)]
          /\ at' = [at EXCEPT ![c] = "pull"]
          /\ idle' = [idle EXCEPT ![c] = "halt"]
       \/ /\ Victims(c) = {}
          /\ idle' = [idle EXCEPT ![c] = "halt"] /\ UNCHANGED <<at, wk>>
    /\ UNCHANGED <<taskVars, waitVars, rqVars, listVars, chain, ipi, allowed, panic>>

\* ... and takes its TaskPi before moving it.
Pull(c) ==
    /\ PiFree(wk[c].task)
    /\ Goto(c, "pull", "move")
    /\ UNCHANGED <<taskVars, waitVars, rqVars, listVars, chain, idle, wk, ipi, allowed, panic>>

\* move_queued_pi_locked: under the source rq lock a task that is queued and
\* not running is detached and marked migrating.  A running one is left to
\* its next switch, and an affinity writer nudges its CPU.
Move(c) ==
    LET t == wk[c].task  from == cpu[t] IN
    /\ at[c] = "move" /\ RqFree(from)
    /\ IF onRq[t] = "queued" /\ current[from] # t /\ t \in tree[from]
       THEN /\ tree' = [tree EXCEPT ![from] = @ \ {t}]
            /\ onRq' = [onRq EXCEPT ![t] = "migrating"]
            /\ \E d \in Destination(t, wk[c].target) :
                  cpu' = [cpu EXCEPT ![t] = d] /\ wk' = [wk EXCEPT ![c].target = d]
            /\ Goto(c, "move", "attach") /\ UNCHANGED ipi
       ELSE /\ ipi' = [ipi EXCEPT ![from] = @ \/ (wk[c].kick /\ current[from] = t /\ from # c)]
            /\ Done(c) /\ UNCHANGED <<tree, onRq, cpu>>
    /\ UNCHANGED <<state, onCpu, waitVars, current, token, parked, listVars, chain, idle, allowed, panic>>

\* place_detached: enqueue_migrated under the destination rq lock.  The idle
\* balancer goes round its loop again when it moved the task.
Attach(c) ==
    LET t == wk[c].task  d == wk[c].target IN
    /\ at[c] = "attach" /\ RqFree(d) /\ ~InTree(t)
    /\ EnqueueRaw(d, t)
    /\ ipi' = [ipi EXCEPT ![d] = @ \/ (wk[c].kick /\ d # c)]
    /\ idle' = [idle EXCEPT ![c] = IF wk[c].kick THEN @ ELSE "service"]
    /\ Done(c)
    /\ UNCHANGED <<onCpu, cpu, waitVars, current, token, parked, listVars, chain, allowed, panic>>

\* "queued migration destination rejected task"
AttachRejected(c) == at[c] = "attach" /\ RqFree(wk[c].target) /\ InTree(wk[c].task) /\ Panic("migrated")

\* A policy change on t: task_rq_lock asserts the shape of t's ownership and
\* sched_change takes a queued t out of its class tree and puts it back.
PolicyChange(c, t) ==
    /\ MayRun(c, "process") /\ PiFree(t) /\ RqFree(cpu[t]) /\ onRq[t] # "migrating"
    /\ \/ onList[t] /\ state[t] # "Waking" /\ Panic("shape")
       \/ InTree(t) /\ onRq[t] # "queued" /\ Panic("class")
       \/ InTree(t) /\ onRq[t] = "queued" /\ current[cpu[t]] # t /\ t \notin tree[cpu[t]] /\ Panic("lost")

Migrate(c) == Pull(c) \/ Move(c) \/ Attach(c) \/ AttachRejected(c)

-----------------------------------------------------------------------------

\* A stopped machine stays stopped.
Halted == panic # "none" /\ UNCHANGED vars

\* What a CPU goes on to do by itself.
Proceed(c) ==
    /\ panic = "none"
    /\ \/ Ttwu(c) \/ Service(c) \/ IdleService(c) \/ Schedule(c) \/ FinishSwitch(c)
       \/ SwitchTail(c) \/ Balance(c) \/ Migrate(c) \/ Ipi(c)
       \/ \E t \in Present : TaskStep(c, t)

\* What happens to it.
Happen(c) ==
    /\ panic = "none"
    /\ \/ Tick(c)
       \/ \E t \in Waiters : \/ \E ctx \in scene.contexts : Post(c, t, ctx)
                           \/ Rouse(c, t) \/ PolicyChange(c, t)
                           \/ \E m \in scene.masks : SetAffinity(c, t, m)

Next ==
    /\ Halted \/ \E c \in Cpus : Proceed(c) \/ Happen(c)
    /\ UNCHANGED scene

Spec == Init /\ [][Next]_<<vars, scene>>

\* A CPU does not stop between instructions, its accounting tick is armed even
\* in the idle loop, and the fair class picks every queued task in the end.
FairSpec ==
    /\ Spec
    /\ \A c \in Cpus : /\ WF_vars(Proceed(c)) /\ WF_vars(panic = "none" /\ Tick(c))
                       /\ \A t \in Tasks : SF_vars(panic = "none" /\ t \in Present /\ Switch(c, t))

-----------------------------------------------------------------------------
(* Properties *)

Works == [task : Present \union {NoTask}, ctx : {"hard", "tail", "inline", "process"},
          target : Cpus \union {NoTask}, kick : BOOLEAN]

\* Every variable holds a value of its type.
TypeOK ==
    /\ scene \in Scenes
    /\ state \in [Present -> {"Runnable", "Sleeping", "Waking"}]
    /\ onRq \in [Present -> {"off", "queued", "migrating"}]
    /\ onCpu \in [Present -> BOOLEAN] /\ cpu \in [Present -> Cpus]
    /\ onList \in [Present -> BOOLEAN] /\ allowed \in [Present -> (SUBSET Cpus) \ {{}}]
    /\ cond \in [Present -> BOOLEAN] /\ listed \in [Present -> BOOLEAN]
    /\ pc \in [Present -> {"run", "park", "check", "yield", "woken", "cancel"}]
    /\ tree \in [Cpus -> SUBSET Present]
    /\ current \in [Cpus -> Present \union {Idle}]
    /\ token \in [Cpus -> Present \union {Idle, NoTask}]
    /\ parked \in [Cpus -> [task : Present \union {NoTask}, target : Cpus \union {NoTask}]]
    /\ list \in [Cpus -> Seq(Present)] /\ chain \in [Cpus -> Seq(Present)]
    /\ pending \in [Cpus -> BOOLEAN] /\ ipi \in [Cpus -> BOOLEAN]
    /\ idle \in [Cpus -> {"service", "schedule", "balance", "halt"}]
    /\ at \in [Cpus -> PiSteps \union {"task", "irq", "drain", "switched", "tail", "pop", "claim", "pull"}]
    /\ wk \in [Cpus -> Works]
    /\ panic \in {"none", "owner", "owned", "unqueued", "shape", "class", "lost", "migrated"}

\* No task runs on two CPUs: while one CPU has it as rq.current, no other CPU
\* runs it or is still switching away from it.  schedule_once enforces this
\* with the on_cpu claim of pick_next_task_claim, whatever the wakers did.
RunsOnce ==
    \A c \in Cpus : current[c] \in Present =>
        \A d \in Cpus \ {c} : current[d] # current[c] /\ token[d] # current[c]

Linked(s, t) == {i \in DOMAIN s : s[i] = t}

\* Where the wake node of t is: linked on a CPU's list, in the chain that a CPU
\* detached, or claimed by a waker that is about to link it.
Nodes(t) ==
    (UNION {{<<"list", c, i>> : i \in Linked(list[c], t)}
              \union {<<"chain", c, i>> : i \in Linked(chain[c], t)} : c \in Cpus})
      \union {<<"waker", c, 0>> : c \in {d \in Cpus : at[d] = "link" /\ wk[d].task = t}}

\* on_wake_list is exactly the ownership of one wake node: a claimed task is on
\* one wake list or in one detached chain or about to be linked by one waker,
\* so that its intrusive link and the list's strong reference are never shared.
NodeOwnedOnce ==
    \A t \in Present : IF onList[t] THEN \E n \in Nodes(t) : Nodes(t) = {n} ELSE Nodes(t) = {}

\* A task that is Runnable or being woken always has an owner that will run
\* it: a CPU, a class tree, a wake list, a parked slot, or the CPU that holds
\* its TaskPi.  Nothing that completes, drops or defers a wake loses it.
NeverStranded ==
    panic = "none" => \A t \in Present : state[t] \in {"Runnable", "Waking"} =>
        \/ InTree(t) \/ onList[t] \/ ~PiFree(t)
        \/ \E c \in Cpus : current[c] = t \/ parked[c].task = t

\* wait_event returns: once the condition holds, the waiter gets back to its
\* caller, unless the machine stopped on an assertion.
WaitReturns == \A t \in Waiters : cond[t] /\ pc[t] # "run" ~> pc[t] = "run" \/ panic # "none"

\* sched_ttwu_pending asserts that a deferred wake is drained by the CPU that
\* task.cpu names.
DrainedByOwner == panic # "owner"
=============================================================================
