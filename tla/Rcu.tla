-------------------------------- MODULE Rcu --------------------------------
(***************************************************************************)
(* The write side of RCU, crates/shared/sync/src/rcu.rs and rcu/drain.rs:  *)
(* per-CPU quiescent-state counters, the grace-period machine, the two     *)
(* generations of the lock-free incoming list, call_rcu, synchronize_rcu,  *)
(* rcu_barrier and the single drainer.  Every atomic load, store or        *)
(* read-modify-write whose order matters is a step of its own.             *)
(*                                                                         *)
(* A callback x of Cbs stands for one object: its updater unlinks the      *)
(* object and posts the callback that reclaims it.  A reader is a          *)
(* preemption-disabled section on a CPU; it may hold every object that     *)
(* was still linked when the section began.                                *)
(***************************************************************************)
EXTENDS Integers, Sequences

CONSTANTS Cpus,      \* the online CPUs
          Readers,   \* the CPUs that enter read-side sections
          Cbs,       \* callbacks, each posted once by call_rcu
          Syncs,     \* threads that call synchronize_rcu once
          Barriers,  \* threads that call rcu_barrier once
          Tick,      \* the periodic drainer (ksoftirqd and the 10 ms tick)
          NoOne,     \* nobody is draining
          QsAhead    \* how far a counter may run ahead of the last snapshot

Callers == Syncs \union Barriers
Items   == Cbs \union Barriers
Objects == Cbs \union Syncs
Actors  == Cbs \union Callers

ASSUME RcuAssumption ==
    /\ Cbs \intersect Callers = {} /\ Syncs \intersect Barriers = {}
    /\ Tick \notin Callers /\ NoOne \notin Callers \union {Tick}
    /\ Readers \subseteq Cpus /\ QsAhead \in Nat \ {0}

VARIABLES
    held,          \* held[c]: objects the reader on CPU c may still dereference
    reader,        \* reader[c]: CPU c is inside a read-side section
    cpuQs,         \* CPU_QS
    gpSeq,         \* GP_SEQ
    gpRequested,   \* GP_REQUESTED
    fresh,         \* callers whose sample of WAIT_EPOCH is still its value
    incoming,      \* INCOMING[g].head, newest first
    publishing,    \* INCOMING[g].publishing
    generation,    \* INCOMING_GENERATION
    install,       \* BARRIER_INSTALL
    barrierActive, \* BARRIER_ACTIVE
    active, snap, waiting,  \* STATE: DrainState
    drain,         \* drain_once: who runs it (DRAIN_ACTIVE), where, its locals
    pc,            \* where each caller is
    picked,        \* the generation a producer selected or a barrier sealed
    target,        \* the sequence a callback or waiter needs, 0 before the call
    invoked,       \* callbacks and barrier markers that have run
    before         \* callbacks committed to a generation when a barrier flipped it

readerVars == <<held, reader>>
gpVars     == <<gpSeq, gpRequested, fresh>>
listVars   == <<incoming, publishing, generation, install, barrierActive>>
stateVars  == <<active, snap, waiting>>
actorVars  == <<picked, target, before>>
vars == <<readerVars, cpuQs, gpVars, listVars, stateVars, drain, pc, invoked, actorVars>>

Idle == [by |-> NoOne, at |-> "out", install |-> 0, gen |-> 0,
         todo |-> {}, scan |-> <<>>, progress |-> FALSE]

Init ==
    /\ held = [c \in Cpus |-> {}]
    /\ reader = [c \in Cpus |-> FALSE]
    /\ cpuQs = [c \in Cpus |-> 0]
    /\ gpSeq = 0 /\ gpRequested = 0 /\ fresh = {}
    /\ incoming = [g \in {0, 1} |-> <<>>]
    /\ publishing = [g \in {0, 1} |-> 0]
    /\ generation = 0 /\ install = 0 /\ barrierActive = FALSE
    /\ active = FALSE /\ snap = [c \in Cpus |-> 0] /\ waiting = <<>>
    /\ drain = Idle
    /\ pc = [a \in Actors |-> "start"]
    /\ picked = [a \in Items |-> 0]
    /\ target = [a \in Actors |-> 0]
    /\ invoked = {}
    /\ before = [b \in Barriers |-> {}]

Goto(a, from, to) == pc[a] = from /\ pc' = [pc EXCEPT ![a] = to]

-----------------------------------------------------------------------------
(* Read side and quiescent states *)

\* An object is linked until its updater unlinks it; a synchronize_rcu caller
\* counts as an object that its own call unlinks.
Linked(o) == pc[o] = "start"

ReadLock(c) ==
    /\ c \in Readers /\ ~reader[c]
    /\ reader' = [reader EXCEPT ![c] = TRUE]
    /\ held' = [held EXCEPT ![c] = {o \in Objects : Linked(o)}]

ReadUnlock(c) ==
    /\ reader[c]
    /\ reader' = [reader EXCEPT ![c] = FALSE]
    /\ held' = [held EXCEPT ![c] = {}]

\* note_qs on CPU c, which is not inside a reader.  The code never tests more
\* than cpuQs[c] > snap[c], so the counter stops QsAhead above the snapshot.
NoteQs(c) ==
    /\ ~reader[c]
    /\ cpuQs' = [cpuQs EXCEPT ![c] = IF @ < snap[c] + QsAhead THEN @ + 1 ELSE @]

Reader(c) ==
    /\ \/ ReadLock(c) /\ UNCHANGED cpuQs
       \/ ReadUnlock(c) /\ UNCHANGED cpuQs
       \/ NoteQs(c) /\ UNCHANGED readerVars    \* context switch or idle loop
    /\ UNCHANGED <<gpVars, listVars, stateVars, drain, pc, invoked, actorVars>>

-----------------------------------------------------------------------------
(* call_rcu and enqueue_callback *)

Unlink(x) ==
    /\ Goto(x, "start", "call")
    /\ UNCHANGED <<target, picked, publishing, incoming>>

\* A plausible slip: one period, although one may already be open.
CallRcuOnePeriod(x) ==
    /\ Goto(x, "call", "select")
    /\ target' = [target EXCEPT ![x] = gpSeq + 1]
    /\ UNCHANGED <<picked, publishing, incoming>>

CallRcu(x) ==
    /\ Goto(x, "call", "select")
    /\ target' = [target EXCEPT ![x] = gpSeq + 2]
    /\ UNCHANGED <<picked, publishing, incoming>>

SelectGeneration(x) ==
    /\ Goto(x, "select", "announce")
    /\ picked' = [picked EXCEPT ![x] = generation]
    /\ UNCHANGED <<target, publishing, incoming>>

Announce(x) ==
    /\ Goto(x, "announce", "recheck")
    /\ publishing' = [publishing EXCEPT ![picked[x]] = @ + 1]
    /\ UNCHANGED <<target, picked, incoming>>

RecheckGeneration(x) ==
    /\ Goto(x, "recheck", IF generation = picked[x] THEN "push" ELSE "withdraw")
    /\ UNCHANGED <<target, picked, publishing, incoming>>

PushIncoming(x) == incoming' = [incoming EXCEPT ![picked[x]] = <<x>> \o @]

Push(x) ==
    /\ Goto(x, "push", "retire")
    /\ PushIncoming(x)
    /\ UNCHANGED <<target, picked, publishing>>

\* Leave the producer section: published, or to retry in the other generation.
Retire(x) ==
    /\ Goto(x, "retire", "queued") \/ Goto(x, "withdraw", "select")
    /\ publishing' = [publishing EXCEPT ![picked[x]] = @ - 1]
    /\ UNCHANGED <<target, picked, incoming>>

Producer(x) ==
    /\ \/ Unlink(x) \/ CallRcu(x) \/ SelectGeneration(x) \/ Announce(x)
       \/ RecheckGeneration(x) \/ Push(x) \/ Retire(x)
    /\ UNCHANGED <<readerVars, cpuQs, gpVars, generation, install, barrierActive,
                   stateVars, drain, invoked, before>>

-----------------------------------------------------------------------------
(* drain_once and advance_locked.  DRAIN_ACTIVE admits one drainer.         *)

DrainGoto(from, to) == drain.at = from /\ drain' = [drain EXCEPT !.at = to]

DrainEnter(d) ==
    /\ drain.by = NoOne
    /\ drain' = [drain EXCEPT !.by = d, !.at = "install"]

SampleInstall ==
    /\ drain.at = "install"
    /\ drain' = [drain EXCEPT !.install = install,
                              !.at = IF install % 2 = 0 THEN "generation" ELSE "exit"]

SampleGeneration ==
    /\ drain.at = "generation"
    /\ drain' = [drain EXCEPT !.gen = generation, !.at = "recheck"]

RecheckInstall ==
    DrainGoto("recheck", IF install = drain.install THEN "sealed" ELSE "exit")

Reverse(s) == [i \in 1..Len(s) |-> s[Len(s) - i + 1]]

\* drain_incoming: detach one list, append it in publication order.
DrainIncoming(g) ==
    /\ waiting' = waiting \o Reverse(incoming[g])
    /\ incoming' = [incoming EXCEPT ![g] = <<>>]

DrainSealed ==
    /\ DrainGoto("sealed", "current")
    /\ DrainIncoming(1 - drain.gen)

\* The second list; then advance_locked tests an open period.
DrainCurrent ==
    /\ drain.at = "current"
    /\ drain' = [drain EXCEPT !.at = IF active THEN "check" ELSE "open",
                              !.todo = IF active THEN Cpus ELSE {}]
    /\ DrainIncoming(drain.gen)

\* all_quiesced, CPU by CPU.
CheckQuiesced(c) ==
    /\ drain.at = "check" /\ c \in drain.todo
    /\ drain' = [drain EXCEPT !.todo = @ \ {c},
                              !.at = IF cpuQs[c] <= snap[c] THEN "open" ELSE "check"]

CompletePeriod ==
    /\ drain.at = "check" /\ drain.todo = {}
    /\ drain' = [drain EXCEPT !.at = "open", !.progress = TRUE]
    /\ gpSeq' = gpSeq + 1
    /\ active' = FALSE

\* Open the next period if someone needs one: snapshot every counter, CPU by
\* CPU.  Then take the waiting vector.
\* A plausible slip: only synchronous waiters open a period.
MustOpenForWaiters == ~active /\ gpSeq < gpRequested

MustOpen == ~active /\ (waiting # <<>> \/ gpSeq < gpRequested)

BeginOpen ==
    /\ drain.at = "open" /\ MustOpen
    /\ drain' = [drain EXCEPT !.at = "snap", !.todo = Cpus]

Snapshot(c) ==
    /\ drain.at = "snap" /\ c \in drain.todo
    /\ drain' = [drain EXCEPT !.todo = @ \ {c}]
    /\ snap' = [snap EXCEPT ![c] = cpuQs[c]]

TakeWaiting ==
    /\ \/ drain.at = "open" /\ ~MustOpen /\ UNCHANGED active
       \/ drain.at = "snap" /\ drain.todo = {} /\ active' = TRUE
    /\ drain' = [drain EXCEPT !.at = "run", !.todo = {}, !.scan = waiting]
    /\ waiting' = <<>>

\* Each entry in order runs if its period has elapsed and goes back otherwise.
\* Only the next drainer reads waiting, so the entries that go back may do so
\* while others run.
Due(x) == target[x] <= gpSeq

KeepWaiting ==
    /\ drain.at = "run" /\ drain.scan # <<>> /\ ~Due(Head(drain.scan))
    /\ drain' = [drain EXCEPT !.scan = Tail(@)]
    /\ waiting' = Append(waiting, Head(drain.scan))

RunCallback ==
    /\ drain.at = "run" /\ drain.scan # <<>> /\ Due(Head(drain.scan))
    /\ drain' = [drain EXCEPT !.scan = Tail(@), !.progress = TRUE]
    /\ invoked' = invoked \union {Head(drain.scan)}

NotifyWaiters ==
    /\ drain.scan = <<>> /\ DrainGoto("run", "exit")
    /\ fresh' = IF drain.progress THEN {} ELSE fresh

\* DRAIN_ACTIVE is cleared and rcu_process_callbacks returns to its caller.
DrainExit ==
    /\ drain.at = "exit"
    /\ drain' = Idle
    /\ pc' = IF drain.by \in Callers THEN [pc EXCEPT ![drain.by] = "drained"] ELSE pc

Drain ==
    /\ \/ /\ \/ DrainEnter(Tick) \/ SampleInstall \/ SampleGeneration \/ RecheckInstall
             \/ (\E c \in Cpus : CheckQuiesced(c)) \/ BeginOpen
          /\ UNCHANGED <<gpSeq, fresh, incoming, stateVars, invoked, pc>>
       \/ (DrainSealed \/ DrainCurrent) /\ UNCHANGED <<gpSeq, fresh, active, snap, invoked, pc>>
       \/ CompletePeriod /\ UNCHANGED <<fresh, incoming, snap, waiting, invoked, pc>>
       \/ \E c \in Cpus : Snapshot(c) /\ UNCHANGED <<gpSeq, fresh, incoming, active, waiting, invoked, pc>>
       \/ TakeWaiting /\ UNCHANGED <<gpSeq, fresh, incoming, snap, invoked, pc>>
       \/ KeepWaiting /\ UNCHANGED <<gpSeq, fresh, incoming, active, snap, invoked, pc>>
       \/ RunCallback /\ UNCHANGED <<gpSeq, fresh, incoming, stateVars, pc>>
       \/ NotifyWaiters /\ UNCHANGED <<gpSeq, incoming, stateVars, invoked, pc>>
       \/ DrainExit /\ UNCHANGED <<gpSeq, fresh, incoming, stateVars, invoked>>
    /\ UNCHANGED <<readerVars, cpuQs, gpRequested, publishing, generation, install,
                   barrierActive, actorVars>>

-----------------------------------------------------------------------------
(* What synchronize_rcu and rcu_barrier share *)

\* The caller records a quiescent state for the CPU it runs on.
CallerQs(a, to) ==
    /\ Goto(a, "qs", to)
    /\ \E c \in Cpus : NoteQs(c)
    /\ UNCHANGED <<gpVars, drain>>

SampleEpoch(a, from, to) ==
    /\ Goto(a, from, to)
    /\ fresh' = fresh \union {a}
    /\ UNCHANGED <<cpuQs, gpSeq, gpRequested, drain>>

\* rcu_process_callbacks: drain, or return at once if someone else does.
CallDrain(a) ==
    /\ \/ Goto(a, "drain", "draining") /\ DrainEnter(a)
       \/ drain.by # NoOne /\ Goto(a, "drain", "drained") /\ UNCHANGED drain
    /\ UNCHANGED <<cpuQs, gpVars>>

\* wait_for_progress: the scheduler wakes the caller once the epoch moved.
WaitForProgress(a, from, to) ==
    /\ a \notin fresh /\ Goto(a, from, to)
    /\ UNCHANGED <<cpuQs, gpVars, drain>>

-----------------------------------------------------------------------------
(* synchronize_rcu *)

Larger(m, n) == IF m >= n THEN m ELSE n

SyncStartOnePeriod(s) ==
    /\ Goto(s, "start", "request")
    /\ target' = [target EXCEPT ![s] = gpSeq + 1]
    /\ UNCHANGED <<cpuQs, gpVars, drain>>

SyncStart(s) ==
    /\ Goto(s, "start", "request")
    /\ target' = [target EXCEPT ![s] = gpSeq + 2]
    /\ UNCHANGED <<cpuQs, gpVars, drain>>

SyncRequest(s) ==
    /\ Goto(s, "request", "loop")
    /\ gpRequested' = Larger(gpRequested, target[s])
    /\ UNCHANGED <<cpuQs, gpSeq, fresh, drain, target>>

SyncTest(s, from, reached, notYet) ==
    /\ Goto(s, from, IF gpSeq >= target[s] THEN reached ELSE notYet)
    /\ UNCHANGED <<cpuQs, gpVars, drain, target>>

Synchronize(s) ==
    /\ \/ SyncStart(s)
       \/ SyncRequest(s)
       \/ SyncTest(s, "loop", "done", "qs")
       \/ SyncTest(s, "drained", "loop", "epoch")
       \/ /\ CallerQs(s, "drain") \/ CallDrain(s)
             \/ SampleEpoch(s, "epoch", "wait") \/ WaitForProgress(s, "wait", "loop")
          /\ UNCHANGED target
    /\ UNCHANGED <<readerVars, listVars, stateVars, invoked, picked, before>>

-----------------------------------------------------------------------------
(* rcu_barrier *)

Claim(b) ==
    /\ \E from \in {"start", "retry"} :
           Goto(b, from, IF barrierActive THEN "contended" ELSE "install")
    /\ barrierActive' = TRUE
    /\ UNCHANGED <<fresh, incoming, publishing, generation, install, picked, target, before>>

StepInstallOnce(b) ==
    /\ \/ Goto(b, "install", "flip") /\ install' = install + 1
       \/ Goto(b, "installed", "loop") /\ UNCHANGED install
    /\ UNCHANGED <<fresh, incoming, publishing, generation, barrierActive, picked, target, before>>

\* BARRIER_INSTALL becomes odd before the flip and even after the marker.
StepInstall(b) ==
    /\ Goto(b, "install", "flip") \/ Goto(b, "installed", "loop")
    /\ install' = install + 1
    /\ UNCHANGED <<fresh, incoming, publishing, generation, barrierActive, picked, target, before>>

FlipUnmasked(b) ==
    /\ Goto(b, "flip", "seal")
    /\ picked' = [picked EXCEPT ![b] = generation]
    /\ generation' = generation + 1
    /\ UNCHANGED <<fresh, incoming, publishing, install, barrierActive, target, before>>

\* seal_incoming: only the barrier that claimed BARRIER_ACTIVE flips.
Flip(b) ==
    /\ Goto(b, "flip", "seal")
    /\ picked' = [picked EXCEPT ![b] = generation]
    /\ generation' = 1 - generation
    /\ before' = [before EXCEPT ![b] = {x \in Cbs : pc[x] \in {"push", "retire", "queued"}}]
    /\ UNCHANGED <<fresh, incoming, publishing, install, barrierActive, target>>

SealedAtOnce(b) ==
    /\ Goto(b, "seal", "mark")
    /\ UNCHANGED <<fresh, listVars, picked, target, before>>

Sealed(b) ==
    /\ publishing[picked[b]] = 0 /\ Goto(b, "seal", "mark")
    /\ UNCHANGED <<fresh, listVars, picked, target, before>>

MarkerTarget(b) ==
    /\ Goto(b, "mark", "push")
    /\ target' = [target EXCEPT ![b] = gpSeq + 2]
    /\ UNCHANGED <<fresh, listVars, picked, before>>

PushMarker(b) ==
    /\ Goto(b, "push", "installed")
    /\ PushIncoming(b)
    /\ UNCHANGED <<fresh, publishing, generation, install, barrierActive, picked, target, before>>

\* A test of the marker's flag, or of BARRIER_ACTIVE while another barrier runs.
BarrierTest(b) ==
    /\ \/ Goto(b, "loop", IF b \in invoked THEN "release" ELSE "qs")
       \/ Goto(b, "drained", IF b \in invoked THEN "loop" ELSE "wait")
       \/ Goto(b, "recheck", IF barrierActive THEN "await" ELSE "retry")
    /\ UNCHANGED <<fresh, listVars, picked, target, before>>

Release(b) ==
    /\ Goto(b, "release", "notify")
    /\ barrierActive' = FALSE
    /\ UNCHANGED <<fresh, incoming, publishing, generation, install, picked, target, before>>

NotifyBarriers(b) ==
    /\ Goto(b, "notify", "done")
    /\ fresh' = {}
    /\ UNCHANGED <<listVars, picked, target, before>>

Barrier(b) ==
    /\ \/ /\ \/ Claim(b) \/ StepInstall(b) \/ Flip(b) \/ Sealed(b)
             \/ MarkerTarget(b) \/ PushMarker(b) \/ BarrierTest(b) \/ Release(b)
             \/ NotifyBarriers(b)
          /\ UNCHANGED <<cpuQs, gpSeq, gpRequested, drain>>
       \/ /\ \/ CallerQs(b, "epoch") \/ SampleEpoch(b, "epoch", "drain") \/ CallDrain(b)
             \/ WaitForProgress(b, "wait", "loop")
             \/ SampleEpoch(b, "contended", "recheck") \/ WaitForProgress(b, "await", "retry")
          /\ UNCHANGED <<listVars, picked, target, before>>
    /\ UNCHANGED <<readerVars, stateVars, invoked>>

-----------------------------------------------------------------------------
Next ==
    \/ \E c \in Cpus : Reader(c)
    \/ \E x \in Cbs : Producer(x)
    \/ Drain
    \/ \E s \in Syncs : Synchronize(s)
    \/ \E b \in Barriers : Barrier(b)

Spec == Init /\ [][Next]_vars

\* Every CPU keeps switching tasks or idling, so it passes quiescent states
\* however often readers run on it; sections end; the tick keeps draining; a
\* thread that can take a step takes it.
Fairness ==
    /\ \A c \in Cpus : /\ WF_vars(Reader(c) /\ reader[c])
                       /\ SF_vars(Reader(c) /\ cpuQs' # cpuQs)
    /\ WF_vars(Drain /\ drain.by = NoOne) /\ WF_vars(Drain /\ drain.by # NoOne)
    /\ \A x \in Cbs : WF_vars(Producer(x) /\ pc[x] # "start")
    /\ \A s \in Syncs : WF_vars(Synchronize(s) /\ pc[s] # "start")
    /\ \A b \in Barriers : WF_vars(Barrier(b) /\ pc[b] # "start")

FairSpec == Spec /\ Fairness

-----------------------------------------------------------------------------
(* Properties *)

DrainPoints == {"out", "install", "generation", "recheck", "sealed", "current",
                "check", "open", "snap", "run", "exit"}

CallerPoints == {"start", "call", "select", "announce", "recheck", "push", "withdraw",
                 "retire", "queued", "request", "loop", "qs", "epoch", "drain", "draining",
                 "drained", "wait", "contended", "await", "retry", "install", "flip", "seal",
                 "mark", "installed", "release", "notify", "done"}

DrainType ==
    [by : Callers \union {Tick, NoOne}, at : DrainPoints, install : Nat, gen : {0, 1},
     todo : SUBSET Cpus, scan : Seq(Items), progress : BOOLEAN]

\* Every variable has the type of the static or local it models.
TypeOK ==
    /\ held \in [Cpus -> SUBSET Objects]
    /\ reader \in [Cpus -> BOOLEAN]
    /\ cpuQs \in [Cpus -> Nat]
    /\ gpSeq \in Nat /\ gpRequested \in Nat /\ fresh \in SUBSET Callers
    /\ incoming \in [{0, 1} -> Seq(Items)]
    /\ publishing \in [{0, 1} -> Int]
    /\ generation \in {0, 1} /\ install \in Nat /\ barrierActive \in BOOLEAN
    /\ active \in BOOLEAN /\ snap \in [Cpus -> Nat] /\ waiting \in Seq(Items)
    /\ drain \in DrainType
    /\ pc \in [Actors -> CallerPoints]
    /\ picked \in [Items -> {0, 1}]
    /\ target \in [Actors -> Nat]
    /\ invoked \in SUBSET Items
    /\ before \in [Barriers -> SUBSET Cbs]

Reclaimed == (invoked \intersect Cbs) \union {s \in Syncs : pc[s] = "done"}

\* The grace-period guarantee: an object's callback has not run, and a
\* synchronize_rcu call has not returned, while a read-side section that began
\* before the unlink (or the call) is still in progress on some CPU.
GraceSafe == \A c \in Cpus : held[c] \intersect Reclaimed = {}

\* RCU implements the abstract grace period: a callback runs, or
\* synchronize_rcu returns, as a reclaim of an object no reader can use.
Status ==
    [o \in Objects |-> IF Linked(o) THEN "linked"
                       ELSE IF o \in Reclaimed THEN "reclaimed" ELSE "unlinked"]

GP == INSTANCE GracePeriod WITH status <- Status

Refines == GP!Spec

\* rcu_barrier returns only after every callback queued before the call ran,
\* whatever producers were in the middle of publishing, whoever drained, and
\* however many barriers flipped the generation meanwhile.
BarrierSafe ==
    \A b \in Barriers : pc[b] \in {"release", "notify", "done"} => before[b] \subseteq invoked

\* A posted callback eventually runs.
CallbackRuns == \A x \in Cbs : pc[x] = "queued" ~> x \in invoked

\* rcu_barrier eventually returns, also when barriers contend.
BarrierReturns == \A b \in Barriers : pc[b] # "start" ~> pc[b] = "done"

=============================================================================
