# A verification of oxide's kernel core

Oxide is a Linux-compatible kernel in Rust. This project keeps formal models of
the parts of it whose correctness depends on the order in which several CPUs,
interrupts and threads act: TLA+ modules, TLC configurations that check them on
small instances, and TLAPS proofs that hold for every instance.

| Part | Source | Modules | Proofs |
|---|---|---|---|
| RCU | `crates/shared/sync/src/rcu.rs`, `rcu/drain.rs` | `GracePeriod`, `Rcu`, `MCRcu`, `MCRcuLive` | `RcuProofs`, `RcuBarrier` |
| Block, wake, switch, migrate | `crates/kernel/sched/src/live` | `WakeSwitch`, `MCWake` | `WakeProofs` |
| Sleeping reader-writer semaphore | `crates/kernel/sched/src/rwsem.rs`, `rwsem/sleep.rs` | `RwSem`, `MCRwSem` | `RwSemProofs` |
| Futex and the expiry queue | `crates/kernel/ipc/src/live/futex`, `sched/src/hrtimeout` | `Futex`, `MCFutex` | `FutexProofs` |
| Workqueue pools across a CPU-down | `sched/src/live/workqueue.rs`, `kthread.rs`, `cpu_hotplug.rs` | `Workqueue`, `MCWorkqueue` | `WorkqueueProofs`, `WorkqueuePools`, `WorkqueueServe` |
| ext4 journal | `crates/kernel/ext4/src/journal.rs`, `journal/`, `jbd2/` | `Ext4Journal`, `MCExt4` | model-checked only |

Most runs cover several configurations at once: what is configured (the scene of
`WakeSwitch`, the volume of `Ext4Journal`, the calls of `Futex`, the pools of
`Workqueue`) is chosen in `Init` from a constant set and never changes.

## The system

Everything above the hardware layer rests on a few protocols. Later rows of the
table use the earlier ones: a file system sleeps on wait lists, CPU hotplug waits
for RCU grace periods before it evacuates a runqueue, and a futex wake is a
`try_to_wake_up`.

| Part | State | Operations | What is hard about it |
|---|---|---|---|
| RCU | `CPU_QS`, `GP_SEQ`, `GP_REQUESTED`, two `INCOMING` lists, `BARRIER_*`, `DrainState` | `rcu_read_lock`, `note_qs`, `call_rcu`, `synchronize_rcu`, `rcu_barrier`, `drain_once` | a period opened while readers run, a generation flipped under a producer, one drainer with early returns, sleeping waiters |
| Wake and switch | task state, `on_rq`, `on_cpu`, `cpu`, `on_wake_list`; class trees, `current`, `switched_from`, `PARKED`, `WAKE_LISTS`, `WAKE_PENDING` | `wait_event`, `try_to_wake_up`, `sched_ttwu_pending`, `schedule_once`, `finish_task_switch`, idle loop | a wake of a task that is still running, claims and latches read without the lock that guards them |
| Migration | `cpus_allowed`, runqueues | `set_user_affinity`, eviction at the switch, `newidle_balance` | a task between two runqueues |
| Sleeping locks | gates, wait lists | `read`, `write`, release | publication under the gate, writer preference |
| Softirq, workqueues | pending masks, rings, pools | raise, drain, queue, evacuate | full rings, items between pop and count |
| CPU hotplug | active and online masks | park, evacuate, `final_empty` | publishers that saw the old mask |
| Futex and IPC | `WAITERS`, user words | wait, wake, requeue | wake against timeout and signal |
| ext4 journal | log cursor, pending checkpoints, superblock | commit, checkpoint, recover | a crash between any two writes |
| Memory | buddy free lists, page state, page tables | allocate, free, map, fault | merge and split, shootdown |
| VFS, block, network, drivers, IPC, security, namespaces, TTY | large | large | see `PROJECT.json` |

`PROJECT.json` lists every part with its status, and under `hazards` the places
where an untested interleaving would hurt, with the properties that cover them.

## RCU

### The modules

- `GracePeriod` is what RCU promises. An object is linked, unlinked, reclaimed;
  a reader may use what was linked when its section began; nothing is reclaimed
  while a reader may use it.
- `Rcu` is the implementation. Each atomic access whose order matters is a step.
- `MCRcu` adds symmetry sets and `MCRcuLive` the casts for TLC; `RcuProofs` and
  `RcuBarrier` hold the theorems.

| Model | Code |
|---|---|
| `cpuQs`, `gpSeq`, `gpRequested` | `CPU_QS`, `GP_SEQ`, `GP_REQUESTED` |
| `incoming[g]`, `publishing[g]`, `generation` | `INCOMING[g].head`, `.publishing`, `INCOMING_GENERATION` |
| `install`, `barrierActive` | `BARRIER_INSTALL`, `BARRIER_ACTIVE` |
| `active`, `snap`, `waiting` | `DrainState` under `STATE` |
| `drain` | the one running `drain_once`: who, where, its locals (`DRAIN_ACTIVE` is `drain.by # NoOne`) |
| `fresh` | the callers whose sample of the wait epoch is still current (the epoch itself only grows) |
| `CallRcu`, `SelectGeneration`, `Announce`, `RecheckGeneration`, `Push`, `Retire` | `call_rcu`, `enqueue_callback` |
| `DrainEnter` .. `DrainExit` | `drain_once`, `advance_locked`; the snapshot and the check of `all_quiesced` go CPU by CPU |
| `SyncStart`, `SyncRequest`, `SyncTest` | `synchronize_rcu` |
| `Claim` .. `NotifyBarriers` | `rcu_barrier`, `seal_incoming` |

`held` and `before` are history variables: what a reader may still dereference,
and the callbacks committed before a barrier's flip. The code never reads them. A `synchronize_rcu` caller
counts as an object that its call unlinks and its return reclaims.

### What is checked

| Run | Instance | Properties |
|---|---|---|
| `rcu_grace` | two CPUs with readers, one callback, one `synchronize_rcu` | `GraceSafe`, `Refines` |
| `rcu_barrier` | two barriers, one callback | `TypeOK`, `BarrierSafe` |
| `rcu_live` | one CPU; in turn a callback among readers, a callback beside a barrier, two barriers | `CallbackRuns`, `BarrierReturns` |

The instances are the smallest in which the case arises. A grace period that is
too short needs a reader that begins after the snapshot of one CPU and before
that of another, hence two CPUs. The ABA of the generation index needs two flips
under one producer, hence two barriers. Quiescent counters stop `QsAhead` above
the last snapshot, since the code only asks whether a counter exceeds it.

The fairness is weak for every thread inside a call, for the running drainer and
for the tick that starts one; sections end (`preempt_enable`); and a CPU that
keeps entering sections still passes quiescent states between them, because the
tick makes it switch: that is strong fairness of `note_qs`.

`rcu_live` goes cast by cast (`MCRcuLive`): in each behaviour only the actors of
one cast ever start. Nobody has to start, so a cast removes behaviours and adds no
fairness. Readers are in the callback's cast only: readers that keep entering sections on a
barrier caller's CPU enable the caller's own quiescent-state step only now and
then, and weak fairness of that step says nothing about it.

Two statements about this code are false in the model and are kept as hazards, not
as runs. The comment at `rcu.rs:106` says drainers "cannot pull post-barrier
callbacks ahead of a still-unpublished marker"; they can, when the barrier starts
after the drainer's second sample, and `BarrierSafe` holds all the same.
`synchronize_rcu` samples the epoch after it tested the sequence, where
`rcu_barrier` samples before: if the tick completes the last period in between, the
caller sleeps on an epoch that only a later callback or waiter changes.

### What is proved

For any CPUs, callbacks, waiters and barriers, from `RcuAssumption` (the sets of
actors are disjoint, readers are CPUs, `QsAhead` is positive):

- `TypeCorrect`: `Spec => []TypeOK`.
- `GracePeriodSafety`: `Spec => []GraceSafe`.
- `Refinement`: `Spec => Refines`, that is, every step of `Rcu` is a step of
  `GracePeriod` or leaves its variables alone.
- `BarrierComplete`: `Spec => []BarrierSafe`.

`GraceSafe` is not inductive, because it does not mention the objects that are
still waiting. `GraceInv` adds why none of them can become due too early:

- `HeldLacksPeriod`: an object that a reader on CPU `c` may use lacks at least
  one period; if it lacks exactly one, and the current snapshot covers `c`, then
  `c` has not quiesced since that snapshot. This is where the `+ 2` of
  `call_rcu` is used: the period in flight may have sampled `c` before the
  section began, so its end must not count.
- `CheckedQuiesced`: the CPUs the drainer's check has passed have quiesced since
  the snapshot. Together the two say that a period does not end under a reader
  that still needs it.
- `HoldsInSection`: what is held is held inside a section, and sections contain
  no quiescent state.
- `TargetSet`, `ListsCalled`, `ReclaimedDue`, `DrainerWaits`: the bookkeeping
  that ties lists, targets and what was reclaimed to the calls that put them
  there.

There is one lemma per actor (`ReaderGrace`, `ProducerGrace`, `DrainGrace`,
`SynchronizeGrace`, `BarrierGrace`), and the same split for the refinement.

`BarrierSafe` speaks of the moment a barrier returns. `RcuBarrier` follows the
marker and the callbacks it must come after from the flip on, with three
invariants on top of `TypeOK` and `GraceInv`:

- `SealInv`: one barrier at a time is between its claim and its release; the
  counter `publishing[g]` covers the producers between announcement and retirement; and a
  producer that is past its recheck aims at the current generation, or at the one
  whose barrier still waits for that counter. The last part is what the ABA of the
  generation index threatens.
- `PlaceInv`: a published callback is in an incoming list, the drainer's hands or
  the waiting list, or has run; a marker is in none of them before it is pushed; and
  no callback a barrier must follow has a later target period than its marker.
- `OrderInv`: in whatever holds the marker, every callback it must follow that has
  not run is ahead of it. The incoming lists are newest first, so there it is behind.

Each step lemma says what an actor does to the three together (`ReaderBarrier`,
`ProducerBarrier`, `DrainBarrier`, `SynchronizeBarrier`, `BarrierStep`). The counter
is compared with the producers through `Covers`, an enumeration of at most that
many callbacks, so that no cardinality of a set of producers is needed.

Memory ordering is taken as sequential consistency throughout: the code uses
acquire and release, and no property has been checked for weaker interleavings.
`CallbackRuns` and `BarrierReturns` are model-checked only.

## Wake and switch

### The module

`WakeSwitch` models a task that waits for an event in `wait_event` and everything
that can happen to it until it returns. A CPU is one thread of control: `at[c]`
says what it executes and `wk[c]` holds the locals of the wake or migration it is
in. A section under one runqueue lock is one step, except the switch, where the
lock passes to the incoming task (`at[c] = "switched"`). `TaskPi` is held by the
CPU whose `at[c]` is in `PiSteps`. A failed `kassert!` is recorded in `panic` and
stops the machine.

| Model | Code |
|---|---|
| `state`, `onRq`, `onCpu`, `cpu`, `onList`, `allowed` | the fields of `Task` |
| `tree`, `current`, `token`, `parked` | class queues, `rq.current`, `rq.switched_from`, `PARKED` |
| `list`, `pending`, `chain` | `WAKE_LISTS`, `WAKE_PENDING`, the detached chain of a drain |
| `cond`, `listed`, `pc` | the condition, the wait-list entry and the point in `wait_event` |
| `WaitEvent`, `Park`, `Recheck`, `Woken`, `CancelPark` | `wait_event_uninterruptible`, `park`, `cancel_current_park` |
| `Post`, `Pop`, `Rouse` | an event that wakes a list; a signal or deadline |
| `Claim`, `SelectTarget`, `Defer`, `Link`, `Kick`, `Direct`, `Place` | `ttwu_inner`, `place_runnable_locked`, `wake_list_push_selected` |
| `Tick`, `Ipi`, `IrqExit`, `IdleService`, `Activate`, `Requeue`, `FinishDrain` | `service_current_cpu`, `sched_ttwu_pending` |
| `Switch`, `Stay`, `FinishSwitch`, `SwitchTail` | `schedule_once`, `oxide_finish_task_switch`, `place_parked` |
| `SetAffinity`, `Balance`, `Pull`, `Move`, `Attach` | `set_user_affinity`, `newidle_balance`, `move_queued_pi_locked_with`, `place_detached_with` |
| `PolicyChange` | `task_rq_lock` and its assertions; the task goes back where it was |

The class trees are sets: who is picked is left open, so every ordering a
scheduling class can choose is covered. Left out: freezing, the NT suspend word,
deadline throttling, the extra rounds `schedule()` takes when `need_resched` is
set on resume, `balance_once`, `update_affinity` waiting for a wake generation,
and changes of the active mask.

### What is checked

| Run | Instance | Properties |
|---|---|---|
| `wake_safe` | two CPUs, two scenes: two tasks of which one waits, process and inline-softirq wakers, masks {c1} and {c2}; and one task, hard-IRQ and softirq-tail wakers, signals and deadlines on both CPUs | `TypeOK`, `RunsOnce`, `NodeOwnedOnce`, `NeverStranded` |
| `wake_live` | two CPUs, two tasks; process and inline-softirq wakers | `WaitReturns` |
| `wake_owner` | two CPUs, two tasks, process wakers | `DrainedByOwner`, violated |

A wake that races a switch needs a CPU that wakes and one that switches; the
second task keeps one CPU busy, which makes the choice of CPU and the pull happen.
Three CPUs would add a third place to migrate to, no new kind of step.

`WaitReturns` assumes that a CPU does not stop between two instructions, that the
accounting tick stays armed on every CPU, also an idle one, and that the class
picks each queued task in the end (strong fairness of `Switch(c, t)`): a fair
class bounds how long a queued task is passed over. A behaviour that stops on an
assertion satisfies it, so read it together with the findings.

`wake_owner` ends in a violation. A task that a waker claimed while it was still
running can go on without that waker. It is picked again while its node is on the
list of another CPU, and the drain there fails `kassert!(task.cpu == cpu)` at
`ttwu.rs:94`. The same task is `Runnable` with its node listed, which a policy
change asserts against at `rq_locate.rs:70`.

The idle loop runs with interrupts enabled between `schedule()` and the park
(`lib.rs:386`), so a wake in that window waits for the next interrupt;
`WaitReturns` holds because the tick stays armed.

Two steps let a claimed task go on, and each by itself makes every assertion of
the model reachable: `cancel_current_park` stores `Runnable` over `Waking`
(`wait_list.rs:353`), and a scheduling round puts an outgoing `Waking` task back
into the tree (`round.rs:47`), although `state.rs:74` says the waker owns that
state. In a variant of the model in which the round leaves a `Waking` task alone
and a cancel waits for the wake to complete, none of them can fail in the
migrating scene.

`RunsOnce` and `NodeOwnedOnce` hold nevertheless, and in states reached without a
failed assertion so does `NeverStranded`: the claims (`on_cpu`, `on_wake_list`, the
class node) contain what the requeue lets through.

### What is proved

For any CPUs, tasks and scenes, from `WakeAssumption` (the names are distinct and a
scene speaks of existing CPUs and tasks, with affinity masks that are not empty):

- `TypeCorrect`: `Spec => []TypeOK`.
- `WakeNodeOwned`: `Spec => []NodeOwnedOnce`.
- `TaskRunsOnce`: `Spec => []RunsOnce`.
- `NoneStranded`: `Spec => []NeverStranded`.

`LInv` adds to the types what a program point says about the locals of its CPU: at a
point that uses a task or a target, the local holds one. The other three theorems
stand on it, each with an invariant of its own:

- `NodeInv`: the wake lists, the detached chains and the wakers about to link share
  no task and hold none twice, and they hold exactly the tasks with `on_wake_list`
  set. A wake that wins the claim of `on_wake_list` therefore finds the node free.
- `OnCpuOwned`: `on_cpu` is set for `current` and, until `finish_task_switch`, for
  the task switched away from; no two CPUs share one of these. Only a switch and its
  end write any of it.
- `Homes`: a runnable or waking task is in a class tree, running, parked, being
  attached, on a wake list, or with a CPU that is placing it; and a task with `on_rq`
  set is in one of these without counting the wake.

`DrainedByOwner` is false, see `wake_owner`; `WaitReturns` is model-checked only.

## Sleeping reader-writer semaphore

`RwSem` has one step per critical section of the gate spinlock. `readers`, `writer`
and `pending` are the fields of `Gate`; `wait` is the wait list; `pc` says where each
task is. A release wakes outside the gate, one waiter per step. The sleep itself is
"off the list means it runs again", which `WakeSwitch` is about.

| Model | Code |
|---|---|
| `read_ok`, `write_ok` | the gate's conditions |
| `ReadEnter`, `ReadPark` | `read`, `try_read` |
| `WriteFast`, `WriteQueue`, `WriteEnter`, `WritePark` | `write`, `try_write` |
| `ReleaseRead`, `ReleaseWrite`, `WakeOne`, `WakeDone` | guard drops, `wake_waiters` |

`rwsem_sleep` has three readers and two writers that acquire again and again. Two
readers show that only the last one out wakes; the third arrives while a writer is
queued; two writers compete for one wake. `WritersEnter` assumes only that a task
inside the lock code, or holding the lock, goes on.

Proved for all finite sets of readers and writers (`RwSemAssumption`):

- `TypeCorrect`: `Spec => []TypeOK`.
- `GuardsExclude`: `Spec => []Exclusion`.
- `NoSleeperForgotten`: `Spec => []NoneForgotten`.

The inductive invariant `IInv` is the type invariant, the two properties, and
`Places`: readers and writers stay in their own part of the code. Each property
needs the other parts. A last reader that leaves must be counted exactly, or its
release would not wake; a writer that finds the gate closed under `pending` is
covered by a holder, by a wake in progress, or by itself being awake. `CountStep`
says how the counts of holders and queued writers move with one task; the step
lemmas have one case per action. `WritersEnter` is model-checked only.

## Futex

`Futex` models `FUTEX_WAIT` with its bitset and its deadline, `futex_waitv`,
`FUTEX_WAKE` and compare-requeue, and under them the claim, placement and drain of a
wake and the expiry queue. A section of the `WAITERS` lock or of the `WAITV_GROUPS`
lock is one step; wakes follow outside it.

| Model | Code |
|---|---|
| `queued`, `grouped`, `woken` | `WAITERS`, `WAITV_GROUPS`, `WaitvGroup.woken_idx` |
| `st`, `node`, `target` | task state, wake list, who holds the task's `pi_lock` |
| `deadline`, `armed`, `popped`, `due` | `wakeup_deadline_ns`, `ARMED`, expiries a sweep took, the clock |
| `Load`, `Queue`, `Arm`, `Schedule`, `Awake`, `Classify`, `Remove` | one wait, from the first load of the word to its result |
| `Scan`, `Groups`, `Compare`, `Move` | wake and requeue |
| `Lose`, `Wake`, `Claim`, `LatePlace`, `Drain` | `ttwu_inner` and the drain of a deferred wake |
| `Elapse`, `Pop`, `Expire` | `hrtimeout` |

`took` is a history variable: the word under which a wake removed the task.

`futex_wait` covers seven configurations of two words, two tasks and two wakers: a
timed wait with wakes for its bits and for others, one with signals, a wait on two
words, a timed wait that is re-keyed while asleep, a requeue whose compared word
changes, two waits of which one is woken, or left where it is, and the other re-keyed,
and an untimed wait with a waker that is delayed between its claim and the rest of its
wake. Values are 0 and 1,
since the code only compares for equality. The fairness is weak: a running task goes
on, what the kernel began for a task ends, a waker finishes its call. Nobody has to
call, wake or signal.

- `WakeCounted`: a wait returns success exactly when a wake took it.
- `NoLostWake`: a task registered on a word that has changed has a waker on its way.
- `TakenReturns`, `TimedReturns`: a woken wait and a timed wait end.

Proved for any words, tasks and wakers and whatever they may call, from
`NameAssumption` (the empty slots are not words or tasks), `CountAssumption` (finitely
many tasks, at most half of `IntMax`, the wake count that means everyone; the code's
`INT_MAX` is far above any number of tasks) and `ConfigAssumption` (a wait names at
least one word, a requeue a second one):

- `TypeCorrect`: `Spec => []TypeOK`.
- `WaitsReportWakes`: `Spec => []WakeCounted`. `CountInv` says at every point of the
  wait what the registration, `woken_idx` and the history have to do with each other:
  inside the wait the registration is gone exactly when a wake took it.
- `NoWakeLost`: `Spec => [](Broadcasts => NoLostWake)`. The kernel can only promise
  this to programs that wake whom they change a word for. `Broadcasts` spells that
  out: who stores wakes everyone, with bits that meet every waiter's, or requeues
  all the others from a word that no multi-word wait names to one that is not itself
  requeued.
  Without it the statement is false of any futex; the seven configurations of the run
  satisfy it. `Origins` ties the arguments of a
  call in progress to the configuration, and `Covered` is the inductive form: a stale
  registration is still ahead of the waker that made it stale, in `WAITERS` or in
  `WAITV_GROUPS`, in the order in which the waker looks at them.

`futex_deadline` adds the delayed waker to a timed wait, and `TimedReturns` is
violated: `ttwu_inner` stores 0 into the deadline after the claim (`ttwu.rs:189`). The
task may by then be in its next timed wait. Its expiry is then skipped as stale, and
the late wake is dropped when it is drained under the running task. That combination
is the only one left out of `futex_wait`.

Two other behaviours are kept as hazards, not runs. A signal posted before the task
is `Sleeping` wakes nobody, and the wait does not look for one before it schedules
(`wait.rs:306`). A wake can take a multi-word wait between the load of `woken_idx` and
the removal of the group, and the call then reports index 0 (`waitv.rs:89`).

## Workqueue pools and CPU-down

`Workqueue` has the pools (ring, workers, manager), the wait of their threads as
`wait_event_at` does it, the park protocol of kernel threads, and the stages of a
CPU-down that concern a pool: park with its rescans, closing the active mask with the
grace period for producers that saw it open, evacuation, the quiescence check, and
the way back.

| Model | Code |
|---|---|
| `ring`, `count`, `workers`, `wait` | `QUEUE`, `ACTIVE`, `WORKERS`, `WAIT` and `MANAGER_WAIT` |
| `park`, `parked`, `pinned` | `kthread_park`, `kthread_parked`, the bound threads a CPU-down sees |
| `Submit`, `Push`, `Refuse`, `WakeWorker`, `WakeManager` | `queue_work_on` |
| `TestPending`, `Pop`, `Begin`, `Notify`, `Run`, `End` | `drain` |
| `Decide`, `Spawn`, `Bind`, `SpawnFails` | the manager |
| `Publish`, `Sample`, `Recheck`, `Resume`, `ParkIfRequested` | the wait and the park |
| `Request`, `Park`, `Parked`, `Rescan`, `Deactivate`, `EndGrace` | parking and closing the CPU |
| `Evacuate`, `TakeHead`, `Moved`, `Restore`, `Evacuated`, `Check`, `Reopen`, `Unpark` | `evacuate_offline_with`, `offline_quiescent`, cancellation |

`workqueue_pool` has three configurations on two CPUs with three items: items that
sleep until another has run, with one failing spawn; a pool that grows while its CPU
is taken down; and an evacuation that finds the survivor's ring full while a late
producer still aims at the victim. A ring of one to three entries reaches full and
empty. The run does not check deadlock, since a pool without work rests.

- `WorkConserved`: accepted work is in exactly one place.
- `HeadRestored`: the head an evacuation took can always be put back.
- `StoppedPoolEmpty`: after the quiescence check the pool holds no work and every
  thread of it is parked, those the manager added meanwhile included.
- `WorkServed`: pending work always has a thread that is on its way, unless the pool
  is at its limit.

All five properties of the run are proved for any CPUs, items, ring capacity and
configurations. Assumed are `CpuNumbers` (finitely many CPUs with a least number, the
boot CPU), `ThreadBound`, `NoItemIsNone` (finitely many items) and `Filled`: an
initial ring fits, no item is on the rings twice, every pool may have its first
worker, and one that may have more has a manager (`spawn_kworkers` gives every pool
both; a pool limited to one worker is modelled without its manager, which would find
nothing to do).

| Theorem | Module | Inductive invariant |
|---|---|---|
| `HeadFits`: `[]HeadRestored` | `WorkqueueProofs` | `RingInv` |
| `StoppedEmpty`: `[]StoppedPoolEmpty` | `WorkqueueProofs` | `RingInv`, `ParkInv` |
| `Conserved`: `[]WorkConserved` | `WorkqueuePools` | `RingInv`, `ItemInv` |
| `TypeCorrect`: `[]TypeOK` | `WorkqueueServe` | all of them |
| `Served`: `[]WorkServed` | `WorkqueueServe` | all of them |

- `RingInv`: after the mask is closed, the producers that still aim at the closed pool
  are the ones the grace period waits for. After it there are none, so the head that
  was taken finds its slot still free (`Room`).
- `ParkInv`: a pass that parked nobody has found every thread of the pool parked, or
  has still to visit it or the manager that is about to bind it; so the pass that ends
  the parking has missed nobody.
- `ItemInv`: an item is on one ring, in one hand, or has run, and was accepted;
  `PlacesCount` turns that into the sums of `WorkConserved`.
- `PoolInv`: `count` and `workers` are the sizes of the sets of executing and bound
  workers, and the manager never has more to spawn than the pool has room for.
- `ServeInv`: every sleeper is on its wait list, and two facts that the wakes rest on.
  `Matched`: while a worker of the pool is idle, the ring is no longer than the number
  of workers that will look at it plus the number of producers about to wake one.
  `Managed`: a manager that sleeps although it is needed, or that has sampled an empty
  ring and is about to sleep, has a producer or a worker on its way to wake it.

`WorkServed` alone says that somebody is on the way; one worker on the way to a ring
of two items could be the last one. `Matched` is therefore a count, and each push adds
a waker to it before it adds to the ring. Once no worker is idle, all of them execute
items, and `Managed` takes over: `count` reaches `workers`, and either the pool is at
its limit or the manager is awake.

The order of the stages comes from the contracts of the functions themselves: in the
sources `park_per_cpu_kthreads` and the two stages after it have no caller yet (the
wired path is `disable_secondary_cpus`, `request_offline`, the IPI and the offline
tail). The limit of the park spin is nondeterministic. An idle worker asked to park is
woken inside `wait_event`, which tests only the queue, and goes back to sleep
(`workqueue.rs:270`); it acknowledges after the next item. This is a hazard without a
property, so `WorkServed` counts a thread asked to park as being on its way.

## ext4 journal

`Ext4Journal` follows a transaction from the staged blocks through the log, the
superblock that anchors it, the deferred checkpoint and the clean marker, and a power
cut between any two writes with the recovery after it. An address of the device is
the sequence of values written since it was last known to be stable: a read returns
the last one, a power cut leaves any of them, and without a volatile cache the
sequence always has length one. Blocks are atomic, requests of several blocks are not.

| Model | Code |
|---|---|
| `jsb`, `log`, `home` | journal superblock, log slots, home blocks |
| `pending`, `cursor`, `used` | `pending_checkpoints`, `journal_cursor`, `journal_used` |
| `Begin`, `OverLog`, `MakeRoom`, `Reserve` | `commit_metadata_deferred` up to the reservation |
| `EmitBody`, `EmitCommit`, `Publish`, `RecordPending` | emission, anchor, pending list |
| `Background`, `Take`, `WriteHome`, `MarkClean`, `Retired`, `Restore` | `checkpoint_pending`, `checkpoint_staged` |
| `ScanStep`, `Recover`, `Scan`, `WriteTarget`, `Recovered`, `Refused` | `recover_journal`, `replay` |
| `Fault`, `PowerCut` | a refused request; loss of power |

`ext4_journal` covers seven volumes: with and without barriers, v1 and v3 checksums,
asynchronous commit with either, a volatile cache, one refused request (with v1, with
v3, and with v3 on a cache), up to two power cuts and three transactions. Seven log slots and payloads of one, two and five blocks make the
log wrap, fill up, and need more than one descriptor (two tags each). The fairness is
weak: the holder of the gate goes on, the periodic owner keeps calling, a volume that
went down is mounted again.

- `CrashConsistent`: mounted with nothing pending, the home blocks hold every
  acknowledged transaction and no part of any other without the rest (`Whole`). It is
  checked for power cuts on every volume and for a refused request where the log
  carries checksums.
- `WriteAhead`: home blocks are written only while the log on the medium restores them.
- `RefusedWhole`: with v3 a power cut can leave a descriptor without its data, and the
  mount then fails (`replay.rs:177`). What the failed replay has applied by then is
  every acknowledged transaction and no part of the torn one.
- `OrderedLogAccepted`: with v1, a synchronous commit on a device without a cache that
  has refused no request never leaves a log that fails the mount. Each condition is
  needed: an asynchronous v1 commit can put the commit record on the medium before its
  body (`replay.rs:99`), and so can a cache; a retry after a refused request overwrites
  a complete transaction. V1 is verified in the first pass, so such a mount has applied
  nothing.
- `PendingDrains`: acknowledged transactions leave the pending list.

`ext4_marker` gives the volume a volatile cache and three transactions.
`CrashConsistent` is violated: the clean marker is an ordinary write, and the next
transaction reuses the log before any flush. Of two checkpointed transactions the
second one's slot is overwritten, the power cut keeps the old superblock, and recovery
replays the first over the home blocks. `checkpoint.rs:102` says the marker "is allowed
to lag".

Two volumes outside the run violate `CrashConsistent`, and are recorded as hazards.
Without checksums, a refused flush after the commit record (`journal.rs:326`) leaves
complete records in the log; a power cut during the retry over the same slots leaves a
mix of both, and replay applies it. On a caching device a second power cut after a
recovery can keep the clean marker and lose the replayed blocks, which no flush
separates (`journal.rs:116`).

Assumed: a refused request has no effect; refusals and asynchronous commit are not
combined; home blocks are adjacent, so that a checkpoint is one request.

## Sizes

Distinct states and time, with two workers.

| Run | States | Time |
|---|---|---|
| `rcu_grace` | 549,923 | 1 min |
| `rcu_barrier` | 2,131,362 | 2 min |
| `rcu_live` | 174,746 | 3.5 min |
| `wake_safe` | 1,265,064 | 2.5 min |
| `wake_live` | 82,978 | 1 min |
| `ext4_journal` | 116,181 | 25 s |
| `rwsem_sleep` | 5,093 | 4 s |
| `futex_wait` | 72,344 | 1.5 min |
| `workqueue_pool` | 713,779 | 2.5 min |
| `wake_owner`, `ext4_marker`, `futex_deadline` | stop at the violation | seconds |

## Not modelled

`PROJECT.json` gives the reason for each part. In the modelled parts:

- Weak memory: every module assumes sequential consistency.
- RCU: CPUs that come and go during a grace period.
- Wake and switch: see above. In particular a CPU-down that overwrites the mask a
  concurrent writer just stored (`migration.rs:42`).
- Sleeping locks: the mutex and priority inheritance.
- Futex: `FUTEX_WAKE_OP` (two separate accesses to the user word, `ops.rs:110`), PI futexes, robust lists, restart blocks, the callbacks of
  io_uring, and how a key is computed from an address.
- Workqueue: spurious wakes of other parked threads, `begin_callfn_shutdown`, the
  evacuation of the runqueue and its part of `final_empty`.
- CPU hotplug: the final handshake of a dying CPU, its commit of the offline request,
  and a CPU that comes up after the restart timed out.
- ext4: revoke records, a remount that changes the checksum mode, the RECOVER flag,
  direct writes without a journal. A failing `ensure_checkpoint_recorded` stops the
  model. Recovery issues no flush between its home writes and the clean marker
  (`journal.rs:105-116`), and the model follows it.

## What is only model-checked

- Liveness under fairness is out of the prover's reach: `CallbackRuns`,
  `BarrierReturns`, `WaitReturns`, `WritersEnter`, `TakenReturns`, `TimedReturns`,
  `PendingDrains`.
- The safety properties of `Ext4Journal` (`TypeOK`, `CrashConsistent`, `WriteAhead`,
  `RefusedWhole`, `OrderedLogAccepted`). The records of a transaction are laid out by a recursion over its
  descriptors (`Body`). All of them need what it yields: that it fills exactly the
  `TxnBlocks` that were reserved, and that a scan over those records returns the
  blocks that were staged. Both are inductions over data, which the provers at hand
  cannot do.
- The three violations (`DrainedByOwner`, `TimedReturns` with a delayed waker,
  `CrashConsistent` with a volatile cache): counterexamples need no proof.

## Plan

1. `Ext4Journal`: an abstract atomic update of the home blocks, refined by the
   journal on devices without a volatile cache.
2. `Workqueue`: progress of the CPU-down, once `park_per_cpu_kthreads` has a caller.
3. The mutex with priority inheritance, CPU-down of the runqueue composed with
   `GracePeriod`, the buddy allocator, virtqueues, the epoll ready list.
