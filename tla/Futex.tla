------------------------------- MODULE Futex -------------------------------
(***************************************************************************)
(* FUTEX_WAIT, FUTEX_WAKE, requeue and futex_waitv of                      *)
(* crates/kernel/ipc/src/live/futex, with what a timed wait uses of the    *)
(* scheduler: the expiry queue (sched/src/hrtimeout) and the claim that    *)
(* begins a wake (ttwu_inner).  Each section of the WAITERS or of the      *)
(* WAITV_GROUPS lock is one step; the wakes follow outside the lock.       *)
(*                                                                         *)
(* WAITERS and WAITV_GROUPS are unordered here (swap_remove makes their    *)
(* order arbitrary), a bitset is a set of bits, and a key stands for its   *)
(* word.  A task that is not asleep runs on its CPU; the wake list of that *)
(* CPU (WakeSwitch models it) is node: a deferred wake, dropped when it is *)
(* drained under the running task.                                         *)
(***************************************************************************)
EXTENDS Integers, FiniteSets, Sequences

CONSTANTS Words,     \* the futex words
          Tasks,     \* the tasks that wait
          Wakers,    \* the threads that change words and wake
          Sender,    \* the sender of signals
          Irq,       \* the timer interrupt
          NoWord,    \* no key
          NoTask,
          IntMax,    \* the count of a wake that is for everyone
          Configs    \* what the tasks and the wakers may call

Values == 0..1
Bits == 0..31
Agents == Wakers \union {Sender, Irq}

Operations == [kind : {"wake", "requeue"}, src : Words, dst : Words \union {NoWord},
               n : Nat, moves : Nat, bits : SUBSET Bits, store : BOOLEAN, cmp : Values]

\* A wait names a word at least, and a requeue names where to; there are far
\* fewer tasks than a count can say.
ASSUME NameAssumption == NoWord \notin Words /\ NoTask \notin Tasks

ASSUME CountAssumption == IsFiniteSet(Tasks) /\ IntMax \in Nat /\ IntMax >= 2 * Cardinality(Tasks)

ASSUME ConfigAssumption ==
    \A f \in Configs :
       /\ \A t \in Tasks : \A c \in f.calls[t] :
             c.words \in Seq(Words) \ {<<>>} /\ c.bits \subseteq Bits /\ c.timed \in BOOLEAN
       /\ \A a \in Wakers : f.ops[a] \subseteq {o \in Operations : o.kind = "requeue" => o.dst \in Words}

VARIABLES
    cfg,       \* [calls, ops, signals, late]
    word,      \* the futex words
    queued,    \* the key under which WAITERS lists the task
    grouped,   \* WAITV_GROUPS lists the task's group
    woken,     \* WaitvGroup.woken_idx of the task's group, 0 for -1
    call,      \* the arguments of the task's call
    pc,        \* where the task is in it
    res,       \* what the last call returned: 0 for EAGAIN, ETIMEDOUT or a
               \* restart, else which of its words woke it, counted from 1
    took,      \* which of the call's words a wake removed the task under
    st,        \* Task.state
    due,       \* the deadline has elapsed
    deadline,  \* Task.wakeup_deadline_ns is set
    armed,     \* ARMED holds the task's expiry
    popped,    \* the tasks whose expiry a sweep took from ARMED
    sig,       \* a deliverable signal is pending
    node,      \* the task is on a wake list
    at,        \* where each agent is
    op,        \* the operation of each waker
    hits,      \* the tasks an agent has still to wake
    target     \* the task whose pi_lock the agent holds in ttwu_inner

listVars == <<queued, grouped, woken, took>>
waitVars == <<call, pc, res>>
timeVars == <<due, deadline, armed, popped>>
agentVars == <<at, op, hits, target>>
vars == <<cfg, word, listVars, waitVars, st, timeVars, sig, node, agentVars>>

NoCall == [words |-> <<>>, vals |-> <<>>, bits |-> {}, timed |-> FALSE]
NoOp == [kind |-> "wake", src |-> NoWord, dst |-> NoWord, n |-> 0, moves |-> 0, bits |-> {},
         store |-> FALSE, cmp |-> 0]

Init ==
    /\ cfg \in Configs
    /\ word = [w \in Words |-> 0]
    /\ queued = [t \in Tasks |-> NoWord] /\ grouped = [t \in Tasks |-> FALSE]
    /\ woken = [t \in Tasks |-> 0] /\ took = [t \in Tasks |-> 0]
    /\ call = [t \in Tasks |-> NoCall] /\ pc = [t \in Tasks |-> "user"]
    /\ res = [t \in Tasks |-> 0]
    /\ st = [t \in Tasks |-> "Runnable"]
    /\ due = [t \in Tasks |-> FALSE] /\ deadline = [t \in Tasks |-> FALSE]
    /\ armed = [t \in Tasks |-> FALSE] /\ popped = {}
    /\ sig = [t \in Tasks |-> FALSE] /\ node = [t \in Tasks |-> FALSE]
    /\ at = [a \in Wakers |-> "user"] /\ op = [a \in Wakers |-> NoOp]
    /\ hits = [a \in Agents |-> {}] /\ target = [a \in Agents |-> NoTask]

-----------------------------------------------------------------------------
(* The waiting task: wait_loop and dispatch_waitv_timed *)

CompleteWake(s) == IF s = "Waking" THEN "Runnable" ELSE s

IsVec(t) == Len(call[t].words) > 1

Changed(t) == \E i \in DOMAIN call[t].words : word[call[t].words[i]] # call[t].vals[i]

Goto(t, from, to) == pc[t] = from /\ pc' = [pc EXCEPT ![t] = to]

Quiet == UNCHANGED <<call, res, due, sig, woken>>

\* The call is over; a pending signal is delivered on the way to user mode.
Return(t, r) ==
    /\ pc' = [pc EXCEPT ![t] = "user"] /\ res' = [res EXCEPT ![t] = r]
    /\ call' = [call EXCEPT ![t] = NoCall] /\ woken' = [woken EXCEPT ![t] = 0]
    /\ due' = [due EXCEPT ![t] = FALSE] /\ sig' = [sig EXCEPT ![t] = FALSE]

\* A task reads the words it is going to wait on, and calls.
Call(t, c) ==
    /\ Goto(t, "user", "load") /\ c \in cfg.calls[t]
    /\ call' = [call EXCEPT ![t] = [words |-> c.words, vals |-> [i \in DOMAIN c.words |-> word[c.words[i]]],
                                    bits |-> c.bits, timed |-> c.timed]]
    /\ res' = [res EXCEPT ![t] = 0] /\ took' = [took EXCEPT ![t] = 0]
    /\ UNCHANGED <<cfg, word, queued, grouped, woken, st, timeVars, sig, node, agentVars>>

\* The first look at the words, with no lock held.
Load(t) ==
    /\ pc[t] = "load"
    /\ IF Changed(t) THEN Return(t, 0) ELSE Goto(t, "load", "queue") /\ Quiet
    /\ UNCHANGED <<cfg, word, queued, grouped, took, st, deadline, armed, popped, node, agentVars>>

Enqueue(t) ==
    /\ IF IsVec(t) THEN grouped' = [grouped EXCEPT ![t] = TRUE] /\ UNCHANGED queued
                   ELSE queued' = [queued EXCEPT ![t] = call[t].words[1]] /\ UNCHANGED grouped
    /\ st' = [st EXCEPT ![t] = "Sleeping"]
    /\ Goto(t, "queue", IF call[t].timed THEN "arm" ELSE "sched") /\ Quiet

\* (Mutant: the words are not looked at again under the queue lock.)
QueueUnchecked(t) ==
    /\ pc[t] = "queue" /\ Enqueue(t)
    /\ UNCHANGED <<cfg, word, took, deadline, armed, popped, node, agentVars>>

\* Under the queue lock: the second look, Sleeping, and the registration.
Queue(t) ==
    /\ pc[t] = "queue"
    /\ IF Changed(t) THEN Return(t, 0) /\ UNCHANGED <<queued, grouped, st>> ELSE Enqueue(t)
    /\ UNCHANGED <<cfg, word, took, deadline, armed, popped, node, agentVars>>

\* (Mutant: the expiry is queued and the task's own deadline is not stored.)
ArmUnpublished(t) ==
    /\ Goto(t, "arm", "sched") /\ armed' = [armed EXCEPT ![t] = TRUE]
    /\ UNCHANGED <<cfg, word, listVars, call, res, st, due, deadline, popped, sig, node, agentVars>>

\* hrtimeout::arm_current, once the task is Sleeping and listed.
Arm(t) ==
    /\ Goto(t, "arm", "sched")
    /\ deadline' = [deadline EXCEPT ![t] = TRUE] /\ armed' = [armed EXCEPT ![t] = TRUE]
    /\ UNCHANGED <<cfg, word, listVars, call, res, st, due, popped, sig, node, agentVars>>

\* schedule(): a task claimed meanwhile is put back and goes on.
Schedule(t) ==
    /\ Goto(t, "sched", IF st[t] = "Sleeping" THEN "asleep" ELSE "awake")
    /\ st' = [st EXCEPT ![t] = CompleteWake(@)]
    /\ UNCHANGED <<cfg, word, listVars, call, res, timeVars, sig, node, agentVars>>

\* disarm_current; a waitv call then reads woken_idx.
Awake(t) ==
    /\ pc[t] = "awake"
    /\ deadline' = [deadline EXCEPT ![t] = FALSE] /\ armed' = [armed EXCEPT ![t] = FALSE]
    /\ IF woken[t] # 0 THEN Return(t, woken[t]) ELSE Goto(t, "awake", "remove") /\ Quiet
    /\ UNCHANGED <<cfg, word, queued, grouped, took, st, popped, node, agentVars>>

\* Why the task woke, when no wake took it: its deadline, a signal, or nothing
\* at all, which is retried.
Classify(t) ==
    \/ due[t] /\ Return(t, 0)
    \/ ~due[t] /\ sig[t] /\ Return(t, 0)
    \/ ~due[t] /\ ~sig[t] /\ Goto(t, "remove", IF IsVec(t) THEN "queue" ELSE "load") /\ Quiet

\* (Mutant: an elapsed deadline is looked at before the registration.)
RemoveTimeoutFirst(t) ==
    /\ pc[t] = "remove"
    /\ queued' = [queued EXCEPT ![t] = NoWord] /\ grouped' = [grouped EXCEPT ![t] = FALSE]
    /\ IF queued[t] = NoWord /\ ~grouped[t] /\ ~due[t] THEN Return(t, 1) ELSE Classify(t)
    /\ UNCHANGED <<cfg, word, took, st, deadline, armed, popped, node, agentVars>>

\* remove_waiter, remove_waitv_group: a registration that is gone was taken by
\* a wake, and the call returns 0, the first index.
Remove(t) ==
    /\ pc[t] = "remove"
    /\ queued' = [queued EXCEPT ![t] = NoWord] /\ grouped' = [grouped EXCEPT ![t] = FALSE]
    /\ IF queued[t] = NoWord /\ ~grouped[t] THEN Return(t, 1) ELSE Classify(t)
    /\ UNCHANGED <<cfg, word, took, st, deadline, armed, popped, node, agentVars>>

\* A round of the scheduler that finds the task Sleeping takes it off its
\* runqueue, wherever it runs.
Preempt(t) ==
    /\ st[t] # "Runnable" /\ Goto(t, "user", IF st[t] = "Sleeping" THEN "lost" ELSE "user")
    /\ st' = [st EXCEPT ![t] = CompleteWake(@)]
    /\ UNCHANGED <<cfg, word, listVars, call, res, timeVars, sig, node, agentVars>>

TaskStep(t) == Load(t) \/ Queue(t) \/ Arm(t) \/ Schedule(t) \/ Awake(t) \/ Remove(t)

-----------------------------------------------------------------------------
(* ttwu_inner: the claim under pi_lock, the deadline and the placement *)

OffCpu(t) == pc[t] \in {"asleep", "lost"}
Resume(t) == [pc EXCEPT ![t] = IF @ = "lost" THEN "user" ELSE "awake"]

PiFree(t) == \A a \in Agents : target[a] # t

\* The rest of ttwu_inner, which finds the task in state s: the deadline is
\* cleared; a settled task may be enqueued at once, any other wake is deferred
\* to a wake list.
Place(t, s, force) ==
    /\ deadline' = [deadline EXCEPT ![t] = FALSE]
    /\ \/ /\ OffCpu(t) /\ ~force
          /\ pc' = Resume(t) /\ st' = [st EXCEPT ![t] = CompleteWake(s)] /\ UNCHANGED node
       \/ st' = [st EXCEPT ![t] = s] /\ node' = [node EXCEPT ![t] = TRUE] /\ UNCHANGED pc

Done(a) == at' = [at EXCEPT ![a] = "user"] /\ op' = [op EXCEPT ![a] = NoOp]

\* The agent is done with t; a waker returns after its last task.
Woke(a, t) ==
    /\ hits' = [hits EXCEPT ![a] = @ \ {t}]
    /\ target' = [target EXCEPT ![a] = NoTask]
    /\ IF a \in Wakers /\ hits[a] = {t} THEN Done(a) ELSE UNCHANGED <<at, op>>

MayClaim(a, t) == t \in hits[a] /\ (a \in Wakers => at[a] = "claim") /\ target[a] = NoTask /\ PiFree(t)

\* claim_wake fails: the task is not Sleeping, or another wake has it.
Lose(a, t) ==
    /\ MayClaim(a, t) /\ st[t] # "Sleeping" /\ Woke(a, t)
    /\ UNCHANGED <<cfg, word, listVars, waitVars, st, timeVars, sig, node>>

\* The whole of ttwu_inner at once ...
Wake(a, t) ==
    /\ MayClaim(a, t) /\ st[t] = "Sleeping" /\ ~cfg.late
    /\ Place(t, "Waking", a = Irq) /\ Woke(a, t)
    /\ UNCHANGED <<cfg, word, listVars, call, res, due, armed, popped, sig>>

\* ... or with the task running on between the claim and the rest.
Claim(a, t) ==
    /\ MayClaim(a, t) /\ st[t] = "Sleeping" /\ cfg.late
    /\ st' = [st EXCEPT ![t] = "Waking"] /\ target' = [target EXCEPT ![a] = t]
    /\ UNCHANGED <<cfg, word, listVars, waitVars, timeVars, sig, node, at, op, hits>>

LatePlace(a, t) ==
    /\ target[a] = t /\ Place(t, st[t], a = Irq) /\ Woke(a, t)
    /\ UNCHANGED <<cfg, word, listVars, call, res, due, armed, popped, sig>>

Ttwu(a, t) == Lose(a, t) \/ Wake(a, t) \/ Claim(a, t) \/ LatePlace(a, t)

\* (Mutant: a drain that only completes the state of the task.)
DrainInPlace(t) ==
    /\ node[t] /\ node' = [node EXCEPT ![t] = FALSE]
    /\ st' = [st EXCEPT ![t] = CompleteWake(@)]
    /\ UNCHANGED <<cfg, word, listVars, waitVars, timeVars, sig, agentVars>>

\* sched_ttwu_pending: a running task only has its wake completed, one that is
\* off its CPU is enqueued whatever its state.
Drain(t) ==
    /\ node[t] /\ node' = [node EXCEPT ![t] = FALSE]
    /\ st' = [st EXCEPT ![t] = CompleteWake(@)]
    /\ pc' = IF OffCpu(t) THEN Resume(t) ELSE pc
    /\ UNCHANGED <<cfg, word, listVars, call, res, timeVars, sig, agentVars>>

-----------------------------------------------------------------------------
(* hrtimeout::expire and signal_wake_up *)

\* The clock passes the deadline of the call.
Elapse(t) ==
    /\ pc[t] # "user" /\ call[t].timed /\ ~due[t]
    /\ due' = [due EXCEPT ![t] = TRUE]
    /\ UNCHANGED <<cfg, word, listVars, waitVars, st, deadline, armed, popped, sig, node, agentVars>>

Pop(t) ==
    /\ armed[t] /\ due[t]
    /\ armed' = [armed EXCEPT ![t] = FALSE] /\ popped' = popped \union {t}
    /\ UNCHANGED <<cfg, word, listVars, waitVars, st, due, deadline, sig, node, agentVars>>

\* An entry whose deadline the task no longer holds is stale, and skipped.
Expire(t) ==
    /\ t \in popped /\ popped' = popped \ {t}
    /\ hits' = [hits EXCEPT ![Irq] = IF deadline[t] THEN @ \union {t} ELSE @]
    /\ UNCHANGED <<cfg, word, listVars, waitVars, st, due, deadline, armed, sig, node, at, op, target>>

Sweep(t) == Pop(t) \/ Expire(t)

\* A signal is posted, and wakes the task if it finds it Sleeping.
Signal(t) ==
    /\ t \in cfg.signals /\ pc[t] \notin {"user", "lost"} /\ ~sig[t]
    /\ sig' = [sig EXCEPT ![t] = TRUE] /\ hits' = [hits EXCEPT ![Sender] = @ \union {t}]
    /\ UNCHANGED <<cfg, word, listVars, waitVars, st, timeVars, node, at, op, target>>

-----------------------------------------------------------------------------
(* FUTEX_WAKE and FUTEX_CMP_REQUEUE *)

\* A waker changes the word, or not, and calls.
Issue(a, o) ==
    LET value == IF o.store THEN 1 - word[o.src] ELSE word[o.src] IN
    /\ at[a] = "user" /\ o \in cfg.ops[a]
    /\ word' = [word EXCEPT ![o.src] = value]
    /\ op' = [op EXCEPT ![a] = [o EXCEPT !.cmp = value]]
    /\ at' = [at EXCEPT ![a] = IF o.kind = "requeue" THEN "compare" ELSE "scan"]
    /\ UNCHANGED <<cfg, listVars, waitVars, st, timeVars, sig, node, hits, target>>

\* Up to n_target of the matching registrations.
Picks(n, S) == {P \in SUBSET S : Cardinality(P) = n \/ (Cardinality(P) < n /\ P = S)}

\* The wakes follow, outside the locks.
Claims(a) == at' = [at EXCEPT ![a] = "claim"] /\ op' = [op EXCEPT ![a] = NoOp]

\* wake_key under WAITERS.
Scan(a) ==
    LET match == {t \in Tasks : queued[t] = op[a].src /\ call[t].bits \intersect op[a].bits # {}} IN
    /\ at[a] = "scan"
    /\ \E S \in Picks(op[a].n, match) :
          /\ queued' = [t \in Tasks |-> IF t \in S THEN NoWord ELSE queued[t]]
          /\ took' = [t \in Tasks |-> IF t \in S THEN 1 ELSE took[t]]
          /\ hits' = [hits EXCEPT ![a] = S]
          /\ IF Cardinality(S) < op[a].n THEN at' = [at EXCEPT ![a] = "groups"] /\ UNCHANGED op ELSE Claims(a)
    /\ UNCHANGED <<cfg, word, grouped, woken, waitVars, st, timeVars, sig, node, target>>

\* (Mutant: the number of keys looked at instead of the index of the last one.)
IndexPast(t, w) == 1 + CHOOSE i \in DOMAIN call[t].words : call[t].words[i] = w

Index(t, w) == CHOOSE i \in DOMAIN call[t].words : call[t].words[i] = w

\* wake_key under WAITV_GROUPS: woken_idx names the key that fired.
Groups(a) ==
    LET src == op[a].src
        match == {t \in Tasks : grouped[t] /\ \E i \in DOMAIN call[t].words : call[t].words[i] = src} IN
    /\ at[a] = "groups"
    /\ \E S \in Picks(op[a].n - Cardinality(hits[a]), match) :
          /\ grouped' = [t \in Tasks |-> grouped[t] /\ t \notin S]
          /\ woken' = [t \in Tasks |-> IF t \in S THEN Index(t, src) ELSE woken[t]]
          /\ took' = [t \in Tasks |-> IF t \in S THEN Index(t, src) ELSE took[t]]
          /\ hits' = [hits EXCEPT ![a] = @ \union S]
          /\ IF hits'[a] = {} THEN Done(a) ELSE Claims(a)
    /\ UNCHANGED <<cfg, word, queued, waitVars, st, timeVars, sig, node, target>>

\* cmp_requeue reads the word before it takes the lock.  A caller that gets
\* EAGAIN wakes everyone instead.
Compare(a) ==
    LET same == word[op[a].src] = op[a].cmp IN
    /\ at[a] = "compare"
    /\ at' = [at EXCEPT ![a] = IF same THEN "move" ELSE "scan"]
    /\ op' = [op EXCEPT ![a].n = IF same THEN @ ELSE IntMax]
    /\ UNCHANGED <<cfg, word, listVars, waitVars, st, timeVars, sig, node, hits, target>>

\* requeue under WAITERS: up to n are woken, and up to moves of the
\* others are re-keyed.
Move(a) ==
    LET match == {t \in Tasks : queued[t] = op[a].src} IN
    /\ at[a] = "move"
    /\ \E S \in Picks(op[a].n, match) : \E M \in Picks(op[a].moves, match \ S) :
          /\ queued' = [t \in Tasks |-> IF t \in S THEN NoWord ELSE IF t \in M THEN op[a].dst ELSE queued[t]]
          /\ took' = [t \in Tasks |-> IF t \in S THEN 1 ELSE took[t]]
          /\ hits' = [hits EXCEPT ![a] = S]
          /\ IF S = {} THEN Done(a) ELSE Claims(a)
    /\ UNCHANGED <<cfg, word, grouped, woken, waitVars, st, timeVars, sig, node, target>>

WakerStep(a) == Scan(a) \/ Groups(a) \/ Compare(a) \/ Move(a)

-----------------------------------------------------------------------------
Next ==
    \/ \E t \in Tasks : TaskStep(t) \/ Preempt(t) \/ (\E c \in cfg.calls[t] : Call(t, c))
    \/ \E t \in Tasks : Drain(t) \/ Elapse(t) \/ Sweep(t) \/ Signal(t)
    \/ \E a \in Agents, t \in Tasks : Ttwu(a, t)
    \/ \E a \in Wakers : WakerStep(a) \/ (\E o \in cfg.ops[a] : Issue(a, o))

Spec == Init /\ [][Next]_vars

\* What interrupts and wakes in progress do for a task, and its clock.
KernelStep(t) == Drain(t) \/ Elapse(t) \/ Sweep(t) \/ \E a \in Agents : Ttwu(a, t)

\* A running task goes on, what the kernel began for it ends, a waker finishes
\* its call.  Nobody has to call, to wake or to signal.
Fairness ==
    /\ \A t \in Tasks : WF_vars(TaskStep(t)) /\ WF_vars(KernelStep(t))
    /\ \A a \in Wakers : WF_vars(WakerStep(a))

FairSpec == Spec /\ Fairness

-----------------------------------------------------------------------------
\* Type correctness: a task is listed under at most one key, and woken_idx names
\* a word of the call it belongs to.
TypeOK ==
    /\ cfg \in Configs /\ word \in [Words -> Values]
    /\ queued \in [Tasks -> Words \union {NoWord}] /\ grouped \in [Tasks -> BOOLEAN]
    /\ woken \in [Tasks -> Nat] /\ \A t \in Tasks : woken[t] <= Len(call[t].words)
    /\ took \in [Tasks -> Nat] /\ res \in [Tasks -> Nat]
    /\ pc \in [Tasks -> {"user", "lost", "load", "queue", "arm", "sched", "asleep", "awake", "remove"}]
    /\ st \in [Tasks -> {"Runnable", "Sleeping", "Waking"}]
    /\ due \in [Tasks -> BOOLEAN] /\ deadline \in [Tasks -> BOOLEAN] /\ armed \in [Tasks -> BOOLEAN]
    /\ popped \subseteq Tasks /\ sig \in [Tasks -> BOOLEAN] /\ node \in [Tasks -> BOOLEAN]
    /\ at \in [Wakers -> {"user", "scan", "groups", "compare", "move", "claim"}]
    /\ hits \in [Agents -> SUBSET Tasks] /\ target \in [Agents -> Tasks \union {NoTask}]

\* A wait returns success exactly when a wake took its registration: a wake
\* that was counted is never reported as a timeout, a signal or a changed word,
\* and none of these is reported as a wake (remove_waiter, remove_waitv_group).
WakeCounted ==
    \A t \in Tasks : pc[t] = "user" => (res[t] # 0 <=> took[t] # 0)

Listed(t) == {w \in Words : queued[t] = w \/ (grouped[t] /\ \E i \in DOMAIN call[t].words : call[t].words[i] = w)}

\* No wake is lost between the check and the sleep: when a task is registered on
\* a word that no longer has the value it waits on, some thread that changed a
\* word has still to look at that queue (the second load under the queue lock).
\* A wait that was re-keyed is no longer about its own word.
NoLostWake ==
    \A t \in Tasks : \A i \in DOMAIN call[t].words :
        LET w == call[t].words[i] IN
        w \in Listed(t) /\ word[w] # call[t].vals[i]
            => \E a \in Wakers : at[a] \in {"scan", "groups", "compare", "move"} /\ op[a].src = w

\* A task that a wake has taken off its queue returns from the wait, however the
\* wake races with its deadline, a signal or its own way to sleep.
TakenReturns == \A t \in Tasks : took[t] # 0 ~> pc[t] = "user"

\* A timed wait ends, although its deadline is armed only once the task is
\* Sleeping and is cleared by every wake, whoever the wake is for.
TimedReturns == \A t \in Tasks : (pc[t] # "user" /\ call[t].timed) ~> pc[t] = "user"

=============================================================================
