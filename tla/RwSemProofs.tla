---------------------------- MODULE RwSemProofs ----------------------------
(***************************************************************************)
(* Proofs about RwSem for every finite set of readers and of writers.  The *)
(* inductive invariant is the conjunction of the two invariants that TLC   *)
(* checks, the type invariant, and which program points a reader and a     *)
(* writer can be at: a queued task is a writer, and one that is asleep and *)
(* listed makes the list non-empty.                                        *)
(***************************************************************************)
EXTENDS RwSem, FiniteSetTheorems, TLAPS

\* Readers and writers stay in their own part of the code.
Places ==
    /\ \A t \in Readers : pc[t] \in {"out", "reading", "rsleep", "wake"}
    /\ \A t \in Writers : pc[t] \in {"out", "writing", "queued", "wsleep", "wake"}

IInv == TypeOK /\ Places /\ Exclusion /\ NoneForgotten

Queued == At("queued") \union At("wsleep")

\* Every set of tasks at a program point is finite.
LEMMA AtFinite == \A l : IsFiniteSet(At(l)) /\ At(l) \subseteq Tasks
<1>1. IsFiniteSet(Tasks)
  BY RwSemAssumption, FS_Union, Zenon DEF Tasks
<1>2. ASSUME NEW l PROVE At(l) \subseteq Tasks
  BY DEF At
<1> QED
  BY <1>1, <1>2, FS_Subset

\* Adding to and removing from a finite set.
LEMMA CardAdd ==
    ASSUME NEW S, IsFiniteSet(S), NEW x, x \notin S
    PROVE  Cardinality(S \union {x}) = Cardinality(S) + 1
BY FS_AddElement

LEMMA CardDrop ==
    ASSUME NEW S, IsFiniteSet(S), NEW x, x \in S
    PROVE  /\ Cardinality(S \ {x}) = Cardinality(S) - 1
           /\ Cardinality(S) \in Nat \ {0}
<1>1. Cardinality(S) \in Nat /\ Cardinality(S \ {x}) \in Nat
  BY FS_CardinalityType, FS_RemoveElement
<1>2. Cardinality(S \ {x}) = Cardinality(S) - 1
  BY FS_RemoveElement
<1> QED
  BY <1>1, <1>2

-----------------------------------------------------------------------------
\* The initial state.
LEMMA InitIInv == Init => IInv
<1> SUFFICES ASSUME Init PROVE IInv
  OBVIOUS
<1>1. \A l : l # "out" => At(l) = {}
  BY DEF Init, At
<1>a. wait \in Seq(Tasks)
  BY DEF Init
<1>b. pc \in [Tasks -> {"out", "reading", "rsleep", "writing", "queued", "wsleep", "wake"}]
  BY DEF Init
<1>2. TypeOK /\ Places
  BY <1>a, <1>b, Zenon DEF Init, TypeOK, Places, Tasks
<1>4. NoneForgotten
  BY DEF Init, NoneForgotten
<1>3. Exclusion
  BY <1>1, FS_EmptySet DEF Exclusion, Init
<1> QED
  BY <1>2, <1>3, <1>4 DEF IInv

\* The holders and the queued writers, counted.
LEMMA Counts ==
    ASSUME IInv
    PROVE  /\ IsFiniteSet(At("reading")) /\ IsFiniteSet(Queued)
           /\ readers = Cardinality(At("reading")) /\ pending = Cardinality(Queued)
           /\ readers = 0 => At("reading") = {}
           /\ pending # 0 => Queued # {}
<1>1. IsFiniteSet(At("reading")) /\ IsFiniteSet(Queued)
  BY AtFinite, FS_Union, Zenon DEF Queued
<1>2. readers = Cardinality(At("reading")) /\ pending = Cardinality(Queued)
  BY DEF IInv, Exclusion, Queued
<1> QED
  BY <1>1, <1>2, FS_EmptySet

\* Types and program points are preserved by every step.
LEMMA TypeStep == IInv /\ [Next]_vars => TypeOK' /\ Places'
<1> SUFFICES ASSUME IInv, [Next]_vars PROVE TypeOK' /\ Places'
  OBVIOUS
<1>a. TypeOK /\ Places
  BY DEF IInv
<1>b. /\ IsFiniteSet(At("reading")) /\ readers = Cardinality(At("reading"))
      /\ IsFiniteSet(Queued) /\ pending = Cardinality(Queued)
  BY Counts
<1>0. CASE UNCHANGED vars
  BY <1>a, <1>0 DEF vars, TypeOK, Places
<1>1. ASSUME NEW t \in Readers, ReadEnter(t) PROVE TypeOK' /\ Places'
  BY <1>a, <1>1, RwSemAssumption DEF ReadEnter, Goto, TypeOK, Places, Tasks
<1>2. ASSUME NEW t \in Readers, ReadPark(t) PROVE TypeOK' /\ Places'
  BY <1>a, <1>2, RwSemAssumption DEF ReadPark, Goto, TypeOK, Places, Tasks
<1>3. ASSUME NEW t \in Writers, WriteFast(t) PROVE TypeOK' /\ Places'
  BY <1>a, <1>3, RwSemAssumption DEF WriteFast, Goto, TypeOK, Places, Tasks
<1>4. ASSUME NEW t \in Writers, WriteQueue(t) PROVE TypeOK' /\ Places'
  BY <1>a, <1>4, RwSemAssumption DEF WriteQueue, Goto, TypeOK, Places, Tasks
<1>5. ASSUME NEW t \in Writers, WriteEnter(t) PROVE TypeOK' /\ Places'
  <2>1. t \in Queued
    BY <1>5 DEF WriteEnter, AtLoop, Queued, At, Tasks
  <2>3. Cardinality(Queued) \in Nat \ {0}
    BY <1>b, <2>1, CardDrop, Zenon
  <2>2. pending - 1 \in Nat
    BY <1>b, <2>3
  <2> QED
    BY <1>a, <1>5, <2>2, RwSemAssumption DEF WriteEnter, Goto, TypeOK, Places, Tasks
<1>6. ASSUME NEW t \in Writers, WritePark(t) PROVE TypeOK' /\ Places'
  BY <1>a, <1>6, RwSemAssumption DEF WritePark, Goto, TypeOK, Places, Tasks
<1>7. ASSUME NEW t \in Tasks, ReleaseRead(t) PROVE TypeOK' /\ Places'
  <2>1. t \in At("reading")
    BY <1>7 DEF ReleaseRead, At
  <2>3. Cardinality(At("reading")) \in Nat \ {0}
    BY <1>b, <2>1, CardDrop, Zenon
  <2>2. readers - 1 \in Nat
    BY <1>b, <2>3
  <2> QED
    BY <1>a, <1>7, <2>2, RwSemAssumption DEF ReleaseRead, Goto, TypeOK, Places, Tasks
<1>8. ASSUME NEW t \in Tasks, ReleaseWrite(t) PROVE TypeOK' /\ Places'
  BY <1>a, <1>8, RwSemAssumption, Zenon DEF ReleaseWrite, Goto, TypeOK, Places, Tasks
<1>9. ASSUME NEW t \in Tasks, WakeOne(t) PROVE TypeOK' /\ Places'
  BY <1>a, <1>9 DEF WakeOne, TypeOK, Places
<1>10. ASSUME NEW t \in Tasks, WakeDone(t) PROVE TypeOK' /\ Places'
  BY <1>a, <1>10, RwSemAssumption DEF WakeDone, Goto, TypeOK, Places, Tasks
<1> QED
  BY <1>0, <1>1, <1>2, <1>3, <1>4, <1>5, <1>6, <1>7, <1>8, <1>9, <1>10 DEF Next, Acquire, Release

\* A step leaves the counts right: every action that moves a task into or out
\* of a counted set changes the count by one, and no other action does either.
LEMMA CountStep ==
    IInv /\ [Next]_vars => readers' = Cardinality(At("reading")') /\ pending' = Cardinality(Queued')
<1> SUFFICES ASSUME IInv, [Next]_vars
             PROVE  readers' = Cardinality(At("reading")') /\ pending' = Cardinality(Queued')
  OBVIOUS
<1>a. TypeOK /\ Places
  BY DEF IInv
<1>b. /\ IsFiniteSet(At("reading")) /\ readers = Cardinality(At("reading"))
      /\ IsFiniteSet(Queued) /\ pending = Cardinality(Queued)
  BY Counts
<1> DEFINE Counted == readers' = Cardinality(At("reading")') /\ pending' = Cardinality(Queued')
<1>q. ASSUME At("reading")' = At("reading"), Queued' = Queued, UNCHANGED <<readers, pending>>
      PROVE  Counted
  BY <1>b, <1>q
<1>0. CASE UNCHANGED vars
  BY <1>b, <1>0 DEF vars, At, Queued
<1>1. ASSUME NEW t \in Readers, ReadEnter(t) PROVE Counted
  <2>1. /\ t \notin At("reading") /\ At("reading")' = At("reading") \union {t} /\ Queued' = Queued
        /\ readers' = readers + 1 /\ pending' = pending
    BY <1>1, <1>a, RwSemAssumption DEF ReadEnter, AtLoop, Goto, At, Queued, TypeOK, Places, Tasks
  <2>2. Cardinality(At("reading") \union {t}) = Cardinality(At("reading")) + 1
    BY <1>b, <2>1, CardAdd, Zenon
  <2> QED
    BY <1>b, <2>1, <2>2
<1>2. ASSUME NEW t \in Readers, ReadPark(t) PROVE Counted
  <2>1. At("reading")' = At("reading") /\ Queued' = Queued /\ UNCHANGED <<readers, pending>>
    BY <1>2, <1>a DEF ReadPark, AtLoop, Goto, At, Queued, TypeOK, Places, Tasks
  <2> QED
    BY <2>1, <1>q
<1>3. ASSUME NEW t \in Writers, WriteFast(t) PROVE Counted
  <2>1. At("reading")' = At("reading") /\ Queued' = Queued /\ UNCHANGED <<readers, pending>>
    BY <1>3, <1>a DEF WriteFast, Goto, At, Queued, TypeOK, Places, Tasks
  <2> QED
    BY <2>1, <1>q
<1>4. ASSUME NEW t \in Writers, WriteQueue(t) PROVE Counted
  <2>1. /\ t \notin Queued /\ Queued' = Queued \union {t} /\ At("reading")' = At("reading")
        /\ pending' = pending + 1 /\ readers' = readers
    BY <1>4, <1>a DEF WriteQueue, Goto, At, Queued, TypeOK, Places, Tasks
  <2>2. Cardinality(Queued \union {t}) = Cardinality(Queued) + 1
    BY <1>b, <2>1, CardAdd, Zenon
  <2> QED
    BY <1>b, <2>1, <2>2
<1>5. ASSUME NEW t \in Writers, WriteEnter(t) PROVE Counted
  <2>1. /\ t \in Queued /\ Queued' = Queued \ {t} /\ At("reading")' = At("reading")
        /\ pending' = pending - 1 /\ readers' = readers
    BY <1>5, <1>a DEF WriteEnter, AtLoop, Goto, At, Queued, TypeOK, Places, Tasks
  <2>2. Cardinality(Queued \ {t}) = Cardinality(Queued) - 1
    BY <1>b, <2>1, CardDrop, Zenon
  <2> QED
    BY <1>b, <2>1, <2>2
<1>6. ASSUME NEW t \in Writers, WritePark(t) PROVE Counted
  <2>1. At("reading")' = At("reading") /\ Queued' = Queued /\ UNCHANGED <<readers, pending>>
    BY <1>6, <1>a DEF WritePark, AtLoop, Goto, At, Queued, TypeOK, Places, Tasks
  <2> QED
    BY <2>1, <1>q
<1>7. ASSUME NEW t \in Tasks, ReleaseRead(t) PROVE Counted
  <2>1. /\ t \in At("reading") /\ At("reading")' = At("reading") \ {t} /\ Queued' = Queued
        /\ readers' = readers - 1 /\ pending' = pending
    BY <1>7, <1>a DEF ReleaseRead, Goto, At, Queued, TypeOK
  <2>2. Cardinality(At("reading") \ {t}) = Cardinality(At("reading")) - 1
    BY <1>b, <2>1, CardDrop, Zenon
  <2> QED
    BY <1>b, <2>1, <2>2
<1>8. ASSUME NEW t \in Tasks, ReleaseWrite(t) \/ WakeOne(t) \/ WakeDone(t) PROVE Counted
  <2>1. At("reading")' = At("reading") /\ Queued' = Queued /\ UNCHANGED <<readers, pending>>
    BY <1>8, <1>a DEF ReleaseWrite, WakeOne, WakeDone, Goto, At, Queued, TypeOK
  <2> QED
    BY <2>1, <1>q
<1> QED
  BY <1>0, <1>1, <1>2, <1>3, <1>4, <1>5, <1>6, <1>7, <1>8 DEF Next, Acquire, Release

\* A step leaves the guards exclusive.
LEMMA ExclusionStep == IInv /\ [Next]_vars => Exclusion'
<1> SUFFICES ASSUME IInv, [Next]_vars PROVE Exclusion'
  OBVIOUS
<1>a. TypeOK /\ Places
  BY DEF IInv
<1>c. readers = 0 => At("reading") = {}
  BY Counts
<1>d. /\ writer <=> At("writing") # {}
      /\ \A t, u \in Tasks : pc[t] = "writing" /\ pc[u] \in {"reading", "writing"} => t = u
  BY DEF IInv, Exclusion
<1> DEFINE Alone == /\ writer' <=> At("writing")' # {}
                    /\ \A t, u \in Tasks : pc'[t] = "writing" /\ pc'[u] \in {"reading", "writing"} => t = u
<1>0. ASSUME UNCHANGED vars PROVE Alone
  BY <1>a, <1>d, <1>0 DEF vars, At, TypeOK
<1>1. ASSUME NEW t \in Readers, ReadEnter(t) PROVE Alone
  <2>1. ~writer /\ writer' = writer /\ \A u \in Tasks : pc[u] # "writing"
    BY <1>1, <1>a, <1>d DEF ReadEnter, read_ok, At, TypeOK
  <2>2. \A u \in Tasks : pc'[u] # "writing"
    BY <1>1, <1>a, <2>1 DEF ReadEnter, Goto, TypeOK, Tasks
  <2> QED
    BY <2>1, <2>2 DEF At
<1>2. ASSUME NEW t \in Readers, ReadPark(t) PROVE Alone
  BY <1>2, <1>a, <1>d DEF ReadPark, AtLoop, Goto, At, TypeOK, Tasks
<1>3. ASSUME NEW t \in Writers, WriteFast(t) PROVE Alone
  BY <1>3, <1>a, <1>c, <1>d DEF WriteFast, write_ok, Goto, At, TypeOK, Tasks
<1>4. ASSUME NEW t \in Writers, WriteQueue(t) PROVE Alone
  BY <1>4, <1>a, <1>d DEF WriteQueue, Goto, At, TypeOK, Tasks
<1>5. ASSUME NEW t \in Writers, WriteEnter(t) PROVE Alone
  <2>1. \A u \in Tasks : pc[u] \notin {"reading", "writing"}
    BY <1>5, <1>c, <1>d DEF WriteEnter, write_ok, At
  <2>2. writer' /\ t \in Tasks /\ pc' = [pc EXCEPT ![t] = "writing"]
    BY <1>5 DEF WriteEnter, Goto, Tasks
  <2>3. \A u \in Tasks : pc'[u] = IF u = t THEN "writing" ELSE pc[u]
    BY <2>2, <1>a DEF TypeOK
  <2>4. t \in At("writing")'
    BY <2>2, <2>3 DEF At
  <2> QED
    BY <2>1, <2>2, <2>3, <2>4
<1>6. ASSUME NEW t \in Writers, WritePark(t) PROVE Alone
  BY <1>6, <1>a, <1>d DEF WritePark, AtLoop, Goto, At, TypeOK, Tasks
<1>7. ASSUME NEW t \in Tasks, ReleaseRead(t) PROVE Alone
  BY <1>7, <1>a, <1>d DEF ReleaseRead, Goto, At, TypeOK
<1>8. ASSUME NEW t \in Tasks, ReleaseWrite(t) PROVE Alone
  BY <1>8, <1>a, <1>d DEF ReleaseWrite, Goto, At, TypeOK
<1>9. ASSUME NEW t \in Tasks, WakeOne(t) \/ WakeDone(t) PROVE Alone
  BY <1>9, <1>a, <1>d DEF WakeOne, WakeDone, Goto, At, TypeOK
<1>10. Alone
  BY <1>0, <1>1, <1>2, <1>3, <1>4, <1>5, <1>6, <1>7, <1>8, <1>9 DEF Next, Acquire, Release
<1> QED
  BY <1>10, CountStep DEF Exclusion, Queued, At

\* A step forgets no sleeper.  The one step that puts a task to sleep with
\* nobody holding the semaphore is ReadPark, when a writer is queued: that
\* writer is awake, or it is listed and the invariant already held for it.
LEMMA ForgottenStep == IInv /\ [Next]_vars => NoneForgotten'
<1> SUFFICES ASSUME IInv, [Next]_vars, wait' # <<>>
             PROVE  \/ readers' > 0 \/ writer' \/ At("wake")' # {}
                    \/ \E t \in Writers : AtLoop(t, "queued", "wsleep")'
  BY DEF NoneForgotten
<1>a. TypeOK /\ Places /\ TypeOK'
  BY TypeStep DEF IInv
<1>b. /\ wait # <<>> => \/ readers > 0 \/ writer \/ At("wake") # {}
                        \/ \E t \in Writers : AtLoop(t, "queued", "wsleep")
      /\ pending # 0 => Queued # {}
  BY Counts DEF IInv, NoneForgotten
<1> DEFINE Kept == \/ readers' > 0 \/ writer' \/ At("wake")' # {}
                   \/ \E t \in Writers : AtLoop(t, "queued", "wsleep")'
<1>0. CASE UNCHANGED vars
  BY <1>b, <1>0 DEF vars, At, AtLoop, Listed
<1>1. ASSUME NEW t \in Readers, ReadEnter(t) PROVE Kept
  BY <1>1, <1>a DEF ReadEnter, TypeOK
<1>2. ASSUME NEW t \in Readers, ReadPark(t) PROVE Kept
  <2>1. /\ t \in Tasks /\ t \notin Writers /\ UNCHANGED <<readers, writer, pending>>
        /\ wait' = Append(wait, t) /\ pc[t] # "wake"
        /\ \A u \in Tasks : pc'[u] = IF u = t THEN "rsleep" ELSE pc[u]
    BY <1>2, <1>a, RwSemAssumption DEF ReadPark, AtLoop, Goto, TypeOK, Tasks
  <2>2. ASSUME NEW u \in Writers, AtLoop(u, "queued", "wsleep") PROVE AtLoop(u, "queued", "wsleep")'
    BY <2>1, <2>2, <1>a, RwSemAssumption DEF AtLoop, Listed, TypeOK, Tasks
  <2>3. CASE wait # <<>>
    BY <2>1, <2>2, <2>3, <1>b DEF At
  <2>4. CASE wait = <<>> /\ ~writer
    <3>1. Queued # {}
      BY <1>2, <2>4, <1>b DEF ReadPark, read_ok
    <3>2. PICK u \in Tasks : pc[u] \in {"queued", "wsleep"}
      BY <3>1 DEF Queued, At
    <3>3. u \in Writers /\ AtLoop(u, "queued", "wsleep")
      BY <3>2, <2>4, <1>a DEF Places, Tasks, AtLoop, Listed
    <3> QED
      BY <3>3, <2>2
  <2> QED
    BY <2>1, <2>3, <2>4
<1>3. ASSUME NEW t \in Writers, WriteFast(t) \/ WriteEnter(t) PROVE Kept
  BY <1>3 DEF WriteFast, WriteEnter
<1>4. ASSUME NEW t \in Writers, WriteQueue(t) PROVE Kept
  BY <1>4, <1>a DEF WriteQueue, Goto, AtLoop, TypeOK, Tasks
<1>6. ASSUME NEW t \in Writers, WritePark(t) PROVE Kept
  BY <1>6, <1>a DEF WritePark, write_ok, TypeOK
<1>7. ASSUME NEW t \in Tasks, ReleaseRead(t) PROVE Kept
  <2>1. readers = 1 => t \in At("wake")'
    BY <1>7, <1>a DEF ReleaseRead, Goto, At, TypeOK
  <2>2. readers # 1 => readers' > 0
    BY <1>7, <1>a DEF ReleaseRead, TypeOK
  <2> QED
    BY <2>1, <2>2
<1>8. ASSUME NEW t \in Tasks, ReleaseWrite(t) PROVE Kept
  <2>1. t \in At("wake")'
    BY <1>8, <1>a DEF ReleaseWrite, Goto, At, TypeOK
  <2> QED
    BY <2>1
<1>9. ASSUME NEW t \in Tasks, WakeOne(t) PROVE Kept
  <2>1. t \in At("wake")'
    BY <1>9 DEF WakeOne, At
  <2> QED
    BY <2>1
<1>10. ASSUME NEW t \in Tasks, WakeDone(t) PROVE Kept
  BY <1>10 DEF WakeDone
<1> QED
  BY <1>0, <1>1, <1>2, <1>3, <1>4, <1>6, <1>7, <1>8, <1>9, <1>10 DEF Next, Acquire, Release

-----------------------------------------------------------------------------
\* The inductive invariant holds in every reachable state.
LEMMA Inductive == Spec => []IInv
<1>1. IInv /\ [Next]_vars => IInv'
  BY TypeStep, ExclusionStep, ForgottenStep DEF IInv
<1> QED
  BY InitIInv, <1>1, PTL DEF Spec

\* For every number of readers and writers, the counts of Gate never go below
\* zero when a guard or a queued writer is taken off them, and the other fields
\* stay in their types.
THEOREM TypeCorrect == Spec => []TypeOK
<1>1. IInv => TypeOK
  BY DEF IInv
<1> QED
  BY Inductive, <1>1, PTL

\* For every number of readers and writers, a write guard excludes every other
\* guard and the gate's counts are those of its holders and queued writers.
THEOREM GuardsExclude == Spec => []Exclusion
<1>1. IInv => Exclusion
  BY DEF IInv
<1> QED
  BY Inductive, <1>1, PTL

\* For every number of readers and writers, no task stays on the wait list of
\* a semaphore that nobody holds, wakes or is about to take.
THEOREM NoSleeperForgotten == Spec => []NoneForgotten
<1>1. IInv => NoneForgotten
  BY DEF IInv
<1> QED
  BY Inductive, <1>1, PTL
=============================================================================
