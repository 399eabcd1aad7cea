------------------------------- MODULE RwSem -------------------------------
(***************************************************************************)
(* The sleeping reader-writer semaphore, crates/kernel/sched/src/rwsem.rs  *)
(* and rwsem/sleep.rs.  Each critical section of the gate spinlock is one  *)
(* step; a release wakes outside the gate, one waiter at a time.  A task   *)
(* that finds the semaphore busy puts itself on the FIFO wait list under   *)
(* the gate, and runs again once it is off the list (WakeSwitch models     *)
(* how).                                                                   *)
(***************************************************************************)
EXTENDS Integers, Sequences, FiniteSets

CONSTANTS Readers,  \* tasks that acquire for reading, again and again
          Writers   \* tasks that acquire for writing, again and again

Tasks == Readers \union Writers

ASSUME RwSemAssumption ==
    IsFiniteSet(Readers) /\ IsFiniteSet(Writers) /\ Readers \intersect Writers = {}

VARIABLES readers, writer, pending,  \* Gate
          wait,                      \* the wait list, oldest first
          pc                         \* where each task is

vars == <<readers, writer, pending, wait, pc>>

Init ==
    /\ readers = 0 /\ writer = FALSE /\ pending = 0
    /\ wait = <<>> /\ pc = [t \in Tasks |-> "out"]

\* (Mutants: queued writers do not close the door; readers do not keep
\* writers out.)
read_ok_greedy   == ~writer
write_ok_careless == ~writer

read_ok  == ~writer /\ pending = 0
write_ok == ~writer /\ readers = 0

Goto(t, l) == pc' = [pc EXCEPT ![t] = l]

Listed(t) == \E i \in DOMAIN wait : wait[i] = t

\* A task at a loop head, or asleep and off the list again.
AtLoop(t, head, asleep) == pc[t] = head \/ (pc[t] = asleep /\ ~Listed(t))

-----------------------------------------------------------------------------
\* read, try_read: the gate admits the reader.
ReadEnter(t) ==
    /\ AtLoop(t, "out", "rsleep") /\ read_ok
    /\ readers' = readers + 1 /\ Goto(t, "reading")
    /\ UNCHANGED <<writer, pending, wait>>

\* read: busy, so the reader enqueues itself under the gate and schedules.
ReadPark(t) ==
    /\ AtLoop(t, "out", "rsleep") /\ ~read_ok
    /\ wait' = Append(wait, t) /\ Goto(t, "rsleep")
    /\ UNCHANGED <<readers, writer, pending>>

\* (Mutant: a writer that did not queue leaves the queue.)
WriteFastDequeues(t) ==
    /\ pc[t] = "out" /\ write_ok
    /\ writer' = TRUE /\ pending' = pending - 1 /\ Goto(t, "writing")
    /\ UNCHANGED <<readers, wait>>

\* write, try_write: the first look at the gate.
WriteFast(t) ==
    /\ pc[t] = "out" /\ write_ok
    /\ writer' = TRUE /\ Goto(t, "writing")
    /\ UNCHANGED <<readers, pending, wait>>

\* write: the task counts itself as a queued writer and drops the gate.
WriteQueue(t) ==
    /\ pc[t] = "out" /\ ~write_ok
    /\ pending' = pending + 1 /\ Goto(t, "queued")
    /\ UNCHANGED <<readers, writer, wait>>

WriteEnter(t) ==
    /\ AtLoop(t, "queued", "wsleep") /\ write_ok
    /\ writer' = TRUE /\ pending' = pending - 1 /\ Goto(t, "writing")
    /\ UNCHANGED <<readers, wait>>

WritePark(t) ==
    /\ AtLoop(t, "queued", "wsleep") /\ ~write_ok
    /\ wait' = Append(wait, t) /\ Goto(t, "wsleep")
    /\ UNCHANGED <<readers, writer, pending>>

\* (Mutant: the last reader is recognised one release too late.)
ReleaseReadLate(t) ==
    /\ pc[t] = "reading"
    /\ readers' = readers - 1 /\ Goto(t, IF readers = 0 THEN "wake" ELSE "out")
    /\ UNCHANGED <<writer, pending, wait>>

\* release_read under the gate: only the last reader out will wake.
ReleaseRead(t) ==
    /\ pc[t] = "reading"
    /\ readers' = readers - 1 /\ Goto(t, IF readers = 1 THEN "wake" ELSE "out")
    /\ UNCHANGED <<writer, pending, wait>>

\* release_write under the gate.
ReleaseWrite(t) ==
    /\ pc[t] = "writing"
    /\ writer' = FALSE /\ Goto(t, "wake")
    /\ UNCHANGED <<readers, pending, wait>>

\* wake_waiters, after the gate is dropped: wake_all pops until the list is
\* empty.
WakeOne(t) ==
    /\ pc[t] = "wake" /\ wait # <<>>
    /\ wait' = Tail(wait)
    /\ UNCHANGED <<readers, writer, pending, pc>>

WakeDone(t) ==
    /\ pc[t] = "wake" /\ wait = <<>>
    /\ Goto(t, "out")
    /\ UNCHANGED <<readers, writer, pending, wait>>

-----------------------------------------------------------------------------
Acquire(t) == \/ t \in Readers /\ (ReadEnter(t) \/ ReadPark(t))
              \/ t \in Writers /\ (WriteFast(t) \/ WriteQueue(t) \/ WriteEnter(t) \/ WritePark(t))
Release(t) == ReleaseRead(t) \/ ReleaseWrite(t) \/ WakeOne(t) \/ WakeDone(t)

Next == \E t \in Tasks : Acquire(t) \/ Release(t)

Spec == Init /\ [][Next]_vars

\* A task inside the lock code, or holding the semaphore, keeps running.
FairSpec == Spec /\ \A t \in Tasks : WF_vars((pc[t] # "out" /\ Acquire(t)) \/ Release(t))

-----------------------------------------------------------------------------
At(l) == { t \in Tasks : pc[t] = l }

\* Type invariant.
TypeOK ==
    /\ readers \in Nat /\ writer \in BOOLEAN /\ pending \in Nat
    /\ wait \in Seq(Tasks)
    /\ pc \in [Tasks -> {"out", "reading", "rsleep", "writing", "queued", "wsleep", "wake"}]

\* The gate is what the guards make of it: a write guard excludes every other
\* guard, and the counts are those of the holders and of the queued writers
\* (Gate, RwSemReadGuard, RwSemWriteGuard).
Exclusion ==
    /\ readers = Cardinality(At("reading"))
    /\ pending = Cardinality(At("queued") \union At("wsleep"))
    /\ writer <=> At("writing") # {}
    /\ \A t, u \in Tasks : pc[t] = "writing" /\ pc[u] \in {"reading", "writing"} => t = u

\* No sleeper is forgotten: while a task is on the wait list, somebody holds
\* the semaphore, or is about to wake the list, or a queued writer is awake
\* and will take its turn (release_read wakes only when it is the last reader).
NoneForgotten ==
    wait # <<>> => \/ readers > 0 \/ writer \/ At("wake") # {}
                 \/ \E t \in Writers : AtLoop(t, "queued", "wsleep")

\* A stream of readers does not starve the writers: while one is queued, a
\* writer eventually enters (read_ok closes the door on arriving readers).
WritersEnter == pending > 0 ~> writer
=============================================================================
