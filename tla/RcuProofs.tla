----------------------------- MODULE RcuProofs -----------------------------
(***************************************************************************)
(* Proofs about Rcu, for every number of CPUs, callbacks, waiters and      *)
(* barriers: type correctness, the grace-period guarantee, and that Rcu    *)
(* implements GracePeriod.                                                 *)
(***************************************************************************)
EXTENDS Rcu, TLAPS

\* What the list operations of the drainer return.
LEMMA SeqFacts ==
    ASSUME NEW S, NEW s \in Seq(S), NEW t \in Seq(S)
    PROVE  /\ s \o Reverse(t) \in Seq(S)
           /\ \A x \in S : <<x>> \o s \in Seq(S) /\ Append(s, x) \in Seq(S)
  <1>1. Reverse(t) \in Seq(S)
    BY DEF Reverse
  <1>2. s \o Reverse(t) \in Seq(S)
    BY <1>1
  <1>3. ASSUME NEW x \in S
        PROVE  <<x>> \o s \in Seq(S) /\ Append(s, x) \in Seq(S)
    <2>1. <<x>> \in Seq(S)
      OBVIOUS
    <2> QED BY <2>1
  <1> QED BY <1>2, <1>3

LEMMA SeqHeadTail ==
    ASSUME NEW S, NEW s \in Seq(S), s # <<>>
    PROVE  Head(s) \in S /\ Tail(s) \in Seq(S)
  OBVIOUS

\* note_qs keeps the counters natural numbers.
LEMMA NoteQsType ==
    ASSUME TypeOK, NEW c \in Cpus, NoteQs(c)
    PROVE  /\ cpuQs' \in [Cpus -> Nat]
           /\ \A d \in Cpus : cpuQs'[d] >= cpuQs[d]
           /\ \A d \in Cpus : d # c => cpuQs'[d] = cpuQs[d]
  <1>1. cpuQs[c] \in Nat /\ cpuQs \in [Cpus -> Nat]
    BY DEF TypeOK
  <1> DEFINE n == IF cpuQs[c] < snap[c] + QsAhead THEN cpuQs[c] + 1 ELSE cpuQs[c]
  <1>2. n \in Nat /\ n >= cpuQs[c]
    BY <1>1
  <1>3. cpuQs' = [cpuQs EXCEPT ![c] = n]
    BY DEF NoteQs
  <1> HIDE DEF n
  <1> QED BY <1>1, <1>2, <1>3

\* A caller's step moves that caller only.
LEMMA GotoType ==
    ASSUME TypeOK, NEW a \in Actors, NEW from, NEW to \in CallerPoints, Goto(a, from, to)
    PROVE  pc' \in [Actors -> CallerPoints]
  BY DEF TypeOK, Goto

LEMMA ReaderType ==
    ASSUME TypeOK, NEW c \in Cpus, Reader(c)
    PROVE  TypeOK'
  <1> USE DEF TypeOK, readerVars, gpVars, listVars, stateVars, actorVars
  <1>1. CASE ReadLock(c) /\ UNCHANGED cpuQs
    BY <1>1 DEF Reader, ReadLock
  <1>2. CASE ReadUnlock(c) /\ UNCHANGED cpuQs
    BY <1>2 DEF Reader, ReadUnlock
  <1>3. CASE NoteQs(c) /\ UNCHANGED readerVars
    BY SMTT(30), <1>3, NoteQsType DEF Reader
  <1> QED BY Zenon, <1>1, <1>2, <1>3 DEF Reader

LEMMA ProducerType ==
    ASSUME TypeOK, NEW x \in Cbs, Producer(x)
    PROVE  TypeOK'
  <1> USE DEF TypeOK, readerVars, gpVars, listVars, stateVars, actorVars, Producer, Goto, CallerPoints
  <1>0. x \in Actors /\ x \in Items /\ picked[x] \in {0, 1}
    BY DEF Actors, Items
  <1>1. CASE Unlink(x)
    BY <1>0, <1>1 DEF Unlink
  <1>2. CASE CallRcu(x)
    BY <1>0, <1>2 DEF CallRcu
  <1>3. CASE SelectGeneration(x)
    BY <1>0, <1>3 DEF SelectGeneration
  <1>4. CASE Announce(x)
    BY <1>0, <1>4 DEF Announce
  <1>5. CASE RecheckGeneration(x)
    BY <1>0, <1>5 DEF RecheckGeneration
  <1>6. CASE Push(x)
    <2>1. <<x>> \o incoming[picked[x]] \in Seq(Items)
      BY <1>0, SeqFacts
    <2> QED BY <1>0, <1>6, <2>1 DEF Push, PushIncoming
  <1>7. CASE Retire(x)
    <2>1. pc' \in [Actors -> CallerPoints]
      BY Zenon, <1>0, <1>7 DEF Retire
    <2>2. publishing' \in [{0, 1} -> Int]
      BY <1>0, <1>7 DEF Retire
    <2> QED BY <1>7, <2>1, <2>2 DEF Retire
  <1> QED BY Zenon, <1>1, <1>2, <1>3, <1>4, <1>5, <1>6, <1>7

LEMMA DrainStepType ==
    ASSUME TypeOK, Drain
    PROVE  TypeOK'
  <1> USE DEF TypeOK, readerVars, gpVars, listVars, stateVars, actorVars
  <1> DEFINE Frame == UNCHANGED <<readerVars, cpuQs, gpRequested, publishing, generation,
                                  install, barrierActive, actorVars>>
  <1>0. Frame
    BY DEF Drain
  <1>1. CASE /\ \/ DrainEnter(Tick) \/ SampleInstall \/ SampleGeneration \/ RecheckInstall
                \/ (\E c \in Cpus : CheckQuiesced(c)) \/ BeginOpen
             /\ UNCHANGED <<gpSeq, fresh, incoming, stateVars, invoked, pc>>
    <2> USE DEF DrainType, DrainPoints
    <2> SUFFICES drain' \in DrainType
      BY <1>0, <1>1
    <2>1. CASE DrainEnter(Tick)
      BY Zenon, <2>1 DEF DrainEnter
    <2>2. CASE SampleInstall
      BY Zenon, <2>2 DEF SampleInstall
    <2>3. CASE SampleGeneration
      BY Zenon, <2>3 DEF SampleGeneration
    <2>4. CASE RecheckInstall
      BY Zenon, <2>4 DEF RecheckInstall, DrainGoto
    <2>5. CASE \E c \in Cpus : CheckQuiesced(c)
      <3>1. PICK c \in Cpus : CheckQuiesced(c)
        BY <2>5
      <3>2. drain.todo \ {c} \in SUBSET Cpus
        OBVIOUS
      <3> QED BY Zenon, <3>1, <3>2 DEF CheckQuiesced
    <2>6. CASE BeginOpen
      BY Zenon, <2>6 DEF BeginOpen
    <2> QED BY <1>1, <2>1, <2>2, <2>3, <2>4, <2>5, <2>6
  <1>2. CASE /\ DrainSealed \/ DrainCurrent
             /\ UNCHANGED <<gpSeq, fresh, active, snap, invoked, pc>>
    <2>1. drain' \in DrainType
      <3>1. CASE DrainSealed
        BY Zenon, <3>1 DEF DrainSealed, DrainGoto, DrainType, DrainPoints
      <3>2. CASE DrainCurrent
        <4>1. (IF active THEN "check" ELSE "open") \in DrainPoints
          BY DEF DrainPoints
        <4>2. (IF active THEN Cpus ELSE {}) \in SUBSET Cpus
          OBVIOUS
        <4> QED BY Zenon, <3>2, <4>1, <4>2 DEF DrainCurrent, DrainType
      <3> QED BY <1>2, <3>1, <3>2
    <2>2. PICK g \in {0, 1} : DrainIncoming(g)
      BY <1>2 DEF DrainSealed, DrainCurrent, DrainType
    <2>3. waiting \o Reverse(incoming[g]) \in Seq(Items) /\ <<>> \in Seq(Items)
      BY SeqFacts
    <2>4. waiting' \in Seq(Items) /\ incoming' \in [{0, 1} -> Seq(Items)]
      BY <2>2, <2>3 DEF DrainIncoming
    <2> QED BY <1>0, <1>2, <2>1, <2>4
  <1>3. CASE CompletePeriod /\ UNCHANGED <<fresh, incoming, snap, waiting, invoked, pc>>
    <2>1. drain' \in DrainType
      BY Zenon, <1>3 DEF CompletePeriod, DrainType, DrainPoints
    <2>2. gpSeq' \in Nat
      BY <1>3 DEF CompletePeriod
    <2>3. active' \in BOOLEAN
      BY <1>3, Zenon DEF CompletePeriod
    <2> QED BY <1>0, <1>3, <2>1, <2>2, <2>3
  <1>4. CASE \E c \in Cpus : Snapshot(c) /\ UNCHANGED <<gpSeq, fresh, incoming, active, waiting, invoked, pc>>
    <2>0. PICK c \in Cpus : Snapshot(c)
      BY <1>4
    <2>1. drain' \in DrainType
      <3>1. drain.todo \ {c} \in SUBSET Cpus
        BY DEF DrainType
      <3> QED BY Zenon, <2>0, <3>1 DEF Snapshot, DrainType
    <2>2. snap' \in [Cpus -> Nat]
      BY <2>0 DEF Snapshot
    <2> QED BY <1>0, <1>4, <2>1, <2>2
  <1>5. CASE TakeWaiting /\ UNCHANGED <<gpSeq, fresh, incoming, snap, invoked, pc>>
    <2>1. drain' \in DrainType
      <3>1. drain' = [drain EXCEPT !.at = "run", !.todo = {}, !.scan = waiting]
        BY <1>5 DEF TakeWaiting
      <3> QED BY Zenon, <3>1 DEF DrainType, DrainPoints
    <2>2. waiting' \in Seq(Items)
      BY <1>5 DEF TakeWaiting
    <2>3. active' \in BOOLEAN
      BY <1>5, Zenon DEF TakeWaiting
    <2> QED BY <1>0, <1>5, <2>1, <2>2, <2>3
  <1>6. CASE KeepWaiting /\ UNCHANGED <<gpSeq, fresh, incoming, active, snap, invoked, pc>>
    <2>1. Head(drain.scan) \in Items /\ Tail(drain.scan) \in Seq(Items)
      BY <1>6, SeqHeadTail DEF KeepWaiting, DrainType
    <2>2. drain' \in DrainType
      BY Zenon, <1>6, <2>1 DEF KeepWaiting, DrainType
    <2>3. waiting' \in Seq(Items)
      BY <1>6, <2>1, SeqFacts DEF KeepWaiting
    <2> QED BY <1>0, <1>6, <2>2, <2>3
  <1>7. CASE RunCallback /\ UNCHANGED <<gpSeq, fresh, incoming, stateVars, pc>>
    <2>1. Head(drain.scan) \in Items /\ Tail(drain.scan) \in Seq(Items)
      BY <1>7, SeqHeadTail DEF RunCallback, DrainType
    <2>2. drain' \in DrainType
      BY Zenon, <1>7, <2>1 DEF RunCallback, DrainType
    <2> QED BY Zenon, <1>0, <1>7, <2>1, <2>2 DEF RunCallback
  <1>8. CASE NotifyWaiters /\ UNCHANGED <<gpSeq, incoming, stateVars, invoked, pc>>
    <2>1. drain' \in DrainType
      BY Zenon, <1>8 DEF NotifyWaiters, DrainGoto, DrainType, DrainPoints
    <2>2. fresh' \in SUBSET Callers
      BY <1>8 DEF NotifyWaiters
    <2> QED BY <1>0, <1>8, <2>1, <2>2
  <1>9. CASE DrainExit /\ UNCHANGED <<gpSeq, fresh, incoming, stateVars, invoked>>
    <2>1. drain' \in DrainType
      BY <1>9 DEF DrainExit, Idle, DrainType, DrainPoints
    <2>2. pc' \in [Actors -> CallerPoints]
      BY Zenon, <1>9 DEF DrainExit, CallerPoints
    <2> QED BY <1>0, <1>9, <2>1, <2>2
  <1> QED BY Zenon, <1>1, <1>2, <1>3, <1>4, <1>5, <1>6, <1>7, <1>8, <1>9
             DEF Drain

\* What synchronize_rcu and rcu_barrier share keeps the types.
LEMMA CallerType ==
    ASSUME TypeOK, NEW a \in Callers, NEW from, NEW to \in CallerPoints,
           CallerQs(a, to) \/ SampleEpoch(a, from, to) \/ CallDrain(a) \/ WaitForProgress(a, from, to),
           UNCHANGED <<readerVars, listVars, stateVars, invoked, actorVars>>
    PROVE  TypeOK'
  <1> USE DEF TypeOK, readerVars, gpVars, listVars, stateVars, actorVars, Goto
  <1>0. a \in Actors
    BY DEF Actors
  <1>1. CASE CallerQs(a, to)
    <2>1. cpuQs' \in [Cpus -> Nat]
      BY <1>1, NoteQsType, Zenon DEF CallerQs
    <2> QED BY SMTT(30), <1>0, <1>1, <2>1 DEF CallerQs
  <1>2. CASE SampleEpoch(a, from, to)
    BY <1>0, <1>2 DEF SampleEpoch
  <1>3. CASE CallDrain(a)
    <2>1. drain' \in DrainType
      <3>1. CASE DrainEnter(a)
        BY Zenon, <3>1 DEF DrainEnter, DrainType, DrainPoints
      <3>2. CASE UNCHANGED drain
        BY <3>2
      <3> QED BY <1>3, <3>1, <3>2 DEF CallDrain
    <2>2. pc' \in [Actors -> CallerPoints]
      <3>1. Goto(a, "drain", "draining") \/ Goto(a, "drain", "drained")
        BY <1>3, Zenon DEF CallDrain
      <3>2. {"draining", "drained"} \subseteq CallerPoints
        BY DEF CallerPoints
      <3> HIDE DEF Goto
      <3> QED BY <1>0, <3>1, <3>2, GotoType
    <2> QED BY <1>3, <2>1, <2>2 DEF CallDrain
  <1>4. CASE WaitForProgress(a, from, to)
    BY <1>0, <1>4, Zenon DEF WaitForProgress
  <1> QED BY <1>1, <1>2, <1>3, <1>4

LEMMA SynchronizeType ==
    ASSUME TypeOK, NEW s \in Syncs, Synchronize(s)
    PROVE  TypeOK'
  <1> USE DEF TypeOK, readerVars, gpVars, listVars, stateVars, actorVars, Goto
  <1>0. s \in Actors /\ s \in Callers
    BY DEF Actors, Callers
  <1>1. CASE SyncStart(s)
    BY <1>0, <1>1 DEF SyncStart, Synchronize, CallerPoints
  <1>2. CASE SyncRequest(s)
    BY <1>0, <1>2 DEF SyncRequest, Synchronize, Larger, CallerPoints
  <1>3. CASE SyncTest(s, "loop", "done", "qs") \/ SyncTest(s, "drained", "loop", "epoch")
    BY Zenon, <1>0, <1>3 DEF SyncTest, Synchronize, CallerPoints
  <1>4. CASE /\ CallerQs(s, "drain") \/ CallDrain(s)
                \/ SampleEpoch(s, "epoch", "wait") \/ WaitForProgress(s, "wait", "loop")
             /\ UNCHANGED target
    <2>1. UNCHANGED <<readerVars, listVars, stateVars, invoked, actorVars>>
      BY <1>4 DEF Synchronize
    <2>2. {"drain", "wait", "loop"} \subseteq CallerPoints
      BY DEF CallerPoints
    <2> HIDE DEF TypeOK, Goto
    <2> QED BY <1>0, <1>4, <2>1, <2>2, CallerType
  <1> QED BY <1>1, <1>2, <1>3, <1>4 DEF Synchronize

LEMMA BarrierType ==
    ASSUME TypeOK, NEW b \in Barriers, Barrier(b)
    PROVE  TypeOK'
  <1> USE DEF readerVars, gpVars, listVars, stateVars, actorVars
  <1>0. b \in Actors /\ b \in Callers /\ b \in Items
    BY DEF Actors, Callers, Items
  <1>1. CASE /\ \/ Claim(b) \/ StepInstall(b) \/ Flip(b) \/ Sealed(b)
                \/ MarkerTarget(b) \/ PushMarker(b) \/ BarrierTest(b) \/ Release(b)
                \/ NotifyBarriers(b)
             /\ UNCHANGED <<cpuQs, gpSeq, gpRequested, drain>>
    <2> USE DEF TypeOK, Goto, CallerPoints
    <2>0. UNCHANGED <<readerVars, stateVars, invoked>>
      BY DEF Barrier
    <2>1. CASE Claim(b)
      <3>1. pc' \in [Actors -> CallerPoints]
        BY <1>0, <2>1 DEF Claim
      <3>2. barrierActive' \in BOOLEAN
        BY <2>1, Zenon DEF Claim
      <3> QED BY <1>1, <2>0, <2>1, <3>1, <3>2 DEF Claim
    <2>2. CASE StepInstall(b)
      <3>1. Goto(b, "install", "flip") \/ Goto(b, "installed", "loop")
        BY <2>2 DEF StepInstall
      <3>2. {"flip", "loop"} \subseteq CallerPoints
        OBVIOUS
      <3>3. pc' \in [Actors -> CallerPoints]
        BY Zenon, <1>0, <3>1, <3>2, GotoType
      <3> QED BY <1>1, <2>0, <2>2, <3>3 DEF StepInstall
    <2>3. CASE Flip(b)
      BY <1>0, <1>1, <2>0, <2>3 DEF Flip
    <2>4. CASE Sealed(b)
      BY <1>0, <1>1, <2>0, <2>4 DEF Sealed
    <2>5. CASE MarkerTarget(b)
      BY <1>0, <1>1, <2>0, <2>5 DEF MarkerTarget
    <2>6. CASE PushMarker(b)
      <3>1. <<b>> \o incoming[picked[b]] \in Seq(Items)
        BY <1>0, SeqFacts
      <3> QED BY <1>0, <1>1, <2>0, <2>6, <3>1 DEF PushMarker, PushIncoming
    <2>7. CASE BarrierTest(b)
      <3>1. pc' \in [Actors -> CallerPoints]
        <4>1. \E from, to \in CallerPoints : Goto(b, from, to)
          BY ZenonT(30), <2>7 DEF BarrierTest
        <4> HIDE DEF Goto
        <4> QED BY <1>0, <4>1, GotoType
      <3> QED BY <1>1, <2>0, <2>7, <3>1 DEF BarrierTest
    <2>8. CASE Release(b)
      <3>1. pc' \in [Actors -> CallerPoints]
        BY <1>0, <2>8 DEF Release
      <3>2. barrierActive' \in BOOLEAN
        BY <2>8, Zenon DEF Release
      <3> QED BY <1>1, <2>0, <2>8, <3>1, <3>2, Zenon DEF Release
    <2>9. CASE NotifyBarriers(b)
      BY <1>0, <1>1, <2>0, <2>9 DEF NotifyBarriers
    <2> QED BY Zenon, <1>1, <2>1, <2>2, <2>3, <2>4, <2>5, <2>6, <2>7, <2>8, <2>9
  <1>2. CASE /\ \/ CallerQs(b, "epoch") \/ SampleEpoch(b, "epoch", "drain") \/ CallDrain(b)
                \/ WaitForProgress(b, "wait", "loop")
                \/ SampleEpoch(b, "contended", "recheck") \/ WaitForProgress(b, "await", "retry")
             /\ UNCHANGED <<listVars, picked, target, before>>
    <2>1. UNCHANGED <<readerVars, listVars, stateVars, invoked, actorVars>>
      BY <1>2 DEF Barrier
    <2>2. {"epoch", "drain", "loop", "recheck", "retry"} \subseteq CallerPoints
      BY DEF CallerPoints
    <2> QED BY <1>0, <1>2, <2>1, <2>2, CallerType
  <1> QED BY <1>1, <1>2 DEF Barrier

\* The type invariant of Rcu holds for every value of the constants.
THEOREM TypeCorrect == Spec => []TypeOK
  <1>1. Init => TypeOK
    <2> SUFFICES ASSUME Init PROVE TypeOK
      OBVIOUS
    <2>1. drain \in DrainType
      <3>1. drain = Idle /\ <<>> \in Seq(Items) /\ {} \in SUBSET Cpus
        BY DEF Init
      <3>2. NoOne \in Callers \union {Tick, NoOne} /\ "out" \in DrainPoints /\ 0 \in Nat /\ 0 \in {0, 1}
        BY DEF DrainPoints
      <3>3. FALSE \in BOOLEAN
        OBVIOUS
      <3> QED BY <3>1, <3>2, <3>3, Zenon DEF Idle, DrainType
    <2>2. pc \in [Actors -> CallerPoints]
      BY DEF Init, CallerPoints
    <2>3. barrierActive \in BOOLEAN /\ active \in BOOLEAN /\ reader \in [Cpus -> BOOLEAN]
      BY Zenon DEF Init
    <2> QED BY <2>1, <2>2, <2>3 DEF Init, TypeOK
  <1>2. TypeOK /\ [Next]_vars => TypeOK'
    <2> SUFFICES ASSUME TypeOK, [Next]_vars PROVE TypeOK'
      OBVIOUS
    <2>1. CASE UNCHANGED vars
      BY <2>1 DEF TypeOK, vars, readerVars, gpVars, listVars, stateVars,
         actorVars
    <2> QED BY <2>1, ReaderType, ProducerType, DrainStepType, SynchronizeType,
               BarrierType DEF Next
  <1> QED BY <1>1, <1>2, PTL DEF Spec

-----------------------------------------------------------------------------
(* The grace-period guarantee.  GraceSafe is not inductive: it says nothing  *)
(* of a reader that holds an object whose callback still waits.              *)

\* Sections guard what they hold, and check runs only under an open period.
HoldsInSection == \A c \in Cpus : held[c] # {} => reader[c]

\* The drainer's walk has proved of every CPU behind it that it quiesced.
CheckedQuiesced ==
    drain.at = "check" => active /\ \A c \in Cpus \ drain.todo : cpuQs[c] > snap[c]

\* The snapshot of the open (or opening) period covers CPU c.
Snapped(c) == active \/ (drain.at = "snap" /\ c \notin drain.todo)

\* An object still held lacks at least one period; if it lacks exactly one, a
\* period that covers the holder's CPU cannot end before the section does.
HeldLacksPeriod ==
    \A c \in Cpus : \A o \in held[c] : target[o] # 0 =>
        /\ gpSeq + 1 <= target[o]
        /\ gpSeq + 1 = target[o] /\ Snapped(c) => cpuQs[c] <= snap[c]

\* A target is set by call_rcu, or on entry to synchronize_rcu.
TargetSet ==
    /\ \A x \in Cbs : target[x] = 0 <=> pc[x] \in {"start", "call"}
    /\ \A s \in Syncs : target[s] = 0 <=> pc[s] = "start"

\* What the lists may hold.
Called == {x \in Items : x \in Cbs => target[x] # 0}

ListsCalled ==
    /\ incoming \in [{0, 1} -> Seq(Called)]
    /\ waiting \in Seq(Called)
    /\ drain.scan \in Seq(Called)

\* Whatever was reclaimed has had its periods.
ReclaimedDue == \A o \in Reclaimed : target[o] # 0 /\ target[o] <= gpSeq

DrainerWaits == drain.by \in Callers => pc[drain.by] = "draining"

GraceInv ==
    /\ HoldsInSection /\ CheckedQuiesced /\ HeldLacksPeriod /\ TargetSet
    /\ ListsCalled /\ ReclaimedDue /\ DrainerWaits

PeriodInv == HoldsInSection /\ CheckedQuiesced /\ HeldLacksPeriod
periodVars == <<held, reader, cpuQs, gpSeq, active, snap, drain, target>>

LEMMA SeqMono ==
    ASSUME NEW S, NEW T, S \subseteq T, NEW s \in Seq(S)
    PROVE  s \in Seq(T)
  OBVIOUS

LEMMA Disjoint ==
    /\ \A x \in Cbs : x \in Objects /\ x \in Actors /\ x \notin Syncs /\ x \notin Callers
    /\ \A s \in Syncs : s \in Objects /\ s \in Actors /\ s \notin Cbs /\ s \notin Barriers /\ s \in Callers
    /\ \A b \in Barriers : b \notin Objects /\ b \in Actors /\ b \notin Cbs /\ b \notin Syncs /\ b \in Callers
  BY RcuAssumption DEF Objects, Actors, Callers

\* A quiescent state is never recorded on a CPU whose reader holds an object.
LEMMA NoteQsGrace ==
    ASSUME TypeOK, GraceInv, NEW c \in Cpus, NoteQs(c),
           UNCHANGED <<held, reader, gpSeq, active, snap, drain, target>>
    PROVE  PeriodInv'
  <1>1. held[c] = {}
    BY DEF GraceInv, HoldsInSection, NoteQs
  <1>2. /\ \A d \in Cpus : cpuQs'[d] >= cpuQs[d]
        /\ \A d \in Cpus : d # c => cpuQs'[d] = cpuQs[d]
        /\ cpuQs \in [Cpus -> Nat] /\ cpuQs' \in [Cpus -> Nat] /\ snap \in [Cpus -> Nat]
    BY NoteQsType DEF TypeOK
  <1>3. HoldsInSection'
    BY DEF GraceInv, HoldsInSection
  <1>4. CheckedQuiesced'
    BY <1>2 DEF GraceInv, CheckedQuiesced
  <1>5. HeldLacksPeriod'
    BY <1>1, <1>2 DEF GraceInv, HeldLacksPeriod, Snapped
  <1> QED BY <1>3, <1>4, <1>5 DEF PeriodInv

LEMMA PeriodFrame ==
    ASSUME GraceInv, UNCHANGED periodVars
    PROVE  PeriodInv'
  BY DEF GraceInv, PeriodInv, periodVars, HoldsInSection, CheckedQuiesced,
     HeldLacksPeriod, Snapped

LEMMA ListFrame ==
    ASSUME GraceInv, UNCHANGED <<incoming, waiting, drain>>, Called \subseteq Called'
    PROVE  ListsCalled'
  BY SeqMono DEF GraceInv, ListsCalled

LEMMA ReaderGrace ==
    ASSUME TypeOK, GraceInv, NEW c \in Cpus, Reader(c)
    PROVE  GraceInv'
  <1>0. UNCHANGED <<gpVars, listVars, stateVars, drain, pc, invoked, actorVars>>
    BY SMTT(30) DEF Reader
  <1>1. TargetSet' /\ ReclaimedDue' /\ DrainerWaits'
    BY <1>0 DEF GraceInv, TargetSet, ReclaimedDue, Reclaimed, DrainerWaits,
       gpVars, actorVars
  <1>2. ListsCalled'
    BY <1>0, ListFrame DEF Called, listVars, stateVars, actorVars
  <1>3. CASE ReadLock(c) /\ UNCHANGED cpuQs
    <2>1. HoldsInSection'
      BY SMTT(30), <1>3 DEF ReadLock, GraceInv, HoldsInSection, TypeOK
    <2>2. CheckedQuiesced'
      BY SMTT(30), <1>0, <1>3 DEF GraceInv, CheckedQuiesced, stateVars
    <2>3. \A o \in Objects : Linked(o) => target[o] = 0
      BY DEF GraceInv, TargetSet, Linked, Objects
    <2>4. \A d \in Cpus : d # c => held'[d] = held[d]
      BY <1>3 DEF ReadLock, TypeOK
    <2>5. \A o \in held'[c] : target[o] = 0
      BY <1>3, <2>3 DEF ReadLock, TypeOK
    <2>6. HeldLacksPeriod'
      BY <1>0, <1>3, <2>4, <2>5 DEF GraceInv, HeldLacksPeriod, Snapped,
         stateVars, gpVars, actorVars
    <2> QED BY <1>1, <1>2, <2>1, <2>2, <2>6 DEF GraceInv
  <1>4. CASE ReadUnlock(c) /\ UNCHANGED cpuQs
    <2>1. HoldsInSection'
      BY <1>4 DEF ReadUnlock, GraceInv, HoldsInSection, TypeOK
    <2>2. CheckedQuiesced'
      BY <1>0, <1>4 DEF GraceInv, CheckedQuiesced, stateVars
    <2>3. \A d \in Cpus : held'[d] \subseteq held[d]
      BY <1>4 DEF ReadUnlock, TypeOK
    <2>4. HeldLacksPeriod'
      BY <1>0, <1>4, <2>3 DEF GraceInv, HeldLacksPeriod, Snapped, stateVars,
         gpVars, actorVars
    <2> QED BY <1>1, <1>2, <2>1, <2>2, <2>4 DEF GraceInv
  <1>5. CASE NoteQs(c) /\ UNCHANGED readerVars
    <2>1. PeriodInv'
      BY <1>0, <1>5, NoteQsGrace DEF readerVars, gpVars, stateVars, actorVars
    <2> QED BY <1>1, <1>2, <2>1 DEF GraceInv, PeriodInv
  <1> QED BY <1>3, <1>4, <1>5 DEF Reader

LEMMA ProducerGrace ==
    ASSUME TypeOK, GraceInv, NEW x \in Cbs, Producer(x)
    PROVE  GraceInv'
  <1>0. UNCHANGED <<readerVars, cpuQs, gpVars, generation, install, barrierActive,
                    stateVars, drain, invoked, before>>
    BY DEF Producer
  <1>1. \A a \in Actors : a # x => pc'[a] = pc[a]
    BY DEF Producer, Unlink, CallRcu, SelectGeneration, Announce,
       RecheckGeneration, Push, Retire,
           Goto, TypeOK
  <1>2. DrainerWaits'
    BY ZenonT(30), <1>0, <1>1, Disjoint DEF GraceInv, DrainerWaits, TypeOK,
       Actors, Callers
  <1>3. CASE CallRcu(x)
    <2>1. target[x] = 0 /\ target' = [target EXCEPT ![x] = gpSeq + 2] /\ gpSeq \in Nat
      BY <1>3 DEF CallRcu, Goto, GraceInv, TargetSet, TypeOK
    <2>2. TargetSet'
      BY <1>1, <1>3, <2>1, Disjoint DEF GraceInv, TargetSet, CallRcu, Goto,
         TypeOK
    <2>3. HoldsInSection' /\ CheckedQuiesced'
      BY Zenon, <1>0 DEF GraceInv, HoldsInSection, CheckedQuiesced,
         readerVars, stateVars
    <2>4. HeldLacksPeriod'
      <3>1. target'[x] = gpSeq + 2 /\ \A o \in Actors : o # x => target'[o] = target[o]
        BY <2>1, Disjoint DEF TypeOK
      <3>2. UNCHANGED <<held, cpuQs, snap, gpSeq>> /\ gpSeq' + 1 <= target'[x] /\ gpSeq' + 1 # target'[x]
        BY <1>0, <2>1, <3>1 DEF readerVars, stateVars, gpVars
      <3>3. \A c \in Cpus : held[c] \subseteq Actors /\ (Snapped(c)' <=> Snapped(c))
        BY Zenon, <1>0 DEF Snapped, stateVars, TypeOK, Objects, Actors, Callers
      <3>4. ASSUME NEW c \in Cpus, NEW o \in held[c], target'[o] # 0
            PROVE  /\ gpSeq' + 1 <= target'[o]
                   /\ gpSeq' + 1 = target'[o] /\ Snapped(c)' => cpuQs'[c] <= snap'[c]
        <4>1. CASE o = x
          BY SMTT(30), <3>2, <4>1
        <4>2. CASE o # x
          BY <3>1, <3>2, <3>3, <3>4, <4>2 DEF GraceInv, HeldLacksPeriod
        <4> QED BY <4>1, <4>2
      <3> QED BY <3>2, <3>4 DEF HeldLacksPeriod
    <2>5. ListsCalled'
      BY <1>0, <1>3, <2>1, ListFrame, Disjoint DEF Called, CallRcu, stateVars,
         TypeOK
    <2>6. ReclaimedDue'
      BY <1>0, <1>1, <2>1, Disjoint DEF GraceInv, ReclaimedDue, Reclaimed,
         TypeOK, gpVars
    <2> QED BY <1>2, <2>2, <2>3, <2>4, <2>5, <2>6 DEF GraceInv
  <1>4. CASE Unlink(x) \/ SelectGeneration(x) \/ Announce(x) \/ RecheckGeneration(x) \/ Push(x) \/ Retire(x)
    <2>0. UNCHANGED target
      BY <1>4 DEF Unlink, SelectGeneration, Announce, RecheckGeneration, Push,
         Retire
    <2>1. PeriodInv'
      BY <1>0, <2>0, PeriodFrame, Zenon DEF periodVars, readerVars, gpVars, stateVars
    <2>2. TargetSet'
      <3>1. pc'[x] \in {"start", "call"} <=> pc[x] \in {"start", "call"}
        BY <1>4, Disjoint DEF TypeOK, Goto, Unlink, SelectGeneration,
           Announce, RecheckGeneration,
           Push, Retire
      <3> QED BY <1>1, <2>0, <3>1, Disjoint, Zenon DEF GraceInv, TargetSet
    <2>3. ReclaimedDue'
      BY Zenon, <1>0, <1>1, <2>0, Disjoint DEF GraceInv, ReclaimedDue,
         Reclaimed, gpVars
    <2>4. ListsCalled'
      <3>1. CASE Push(x)
        <4>1. x \in Called
          BY <3>1 DEF Push, Goto, Called, Items, GraceInv, TargetSet
        <4>2. <<x>> \o incoming[picked[x]] \in Seq(Called)
          BY <4>1, SeqFacts DEF GraceInv, ListsCalled, TypeOK, Called
        <4> QED BY Zenon, <1>0, <2>0, <3>1, <4>2
                DEF Push, PushIncoming, GraceInv, ListsCalled, Called, stateVars
      <3>2. CASE UNCHANGED incoming
        BY <1>0, <2>0, <3>2, ListFrame DEF Called, stateVars
      <3> QED BY <1>4, <3>1, <3>2 DEF Unlink, SelectGeneration, Announce,
                 RecheckGeneration, Retire
    <2> QED BY <1>2, <2>1, <2>2, <2>3, <2>4 DEF GraceInv, PeriodInv
  <1> QED BY <1>3, <1>4 DEF Producer

\* The heart of the argument: when the drainer completes a period, every CPU
\* quiesced since its snapshot, so no reader that an object lacking one last
\* period waits for can still be in its section.
LEMMA CompleteGrace ==
    ASSUME TypeOK, GraceInv, CompletePeriod,
           UNCHANGED <<held, reader, cpuQs, snap, target>>
    PROVE  PeriodInv'
  <1>1. drain' = [drain EXCEPT !.at = "open", !.progress = TRUE] /\ drain'.at = "open"
    BY DEF CompletePeriod, TypeOK, DrainType
  <1>2. HoldsInSection' /\ CheckedQuiesced'
    BY <1>1 DEF GraceInv, HoldsInSection, CheckedQuiesced
  <1>3. \A c \in Cpus : ~Snapped(c)'
    BY <1>1 DEF Snapped, CompletePeriod
  <1>4. ASSUME NEW c \in Cpus, NEW o \in held[c], target[o] # 0
        PROVE  gpSeq' + 1 <= target[o]
    <2>1. active /\ cpuQs[c] > snap[c]
      BY DEF CompletePeriod, GraceInv, CheckedQuiesced
    <2>2. o \in Actors /\ target[o] \in Nat /\ gpSeq \in Nat /\ cpuQs[c] \in Nat /\ snap[c] \in Nat
      BY DEF TypeOK, Objects, Actors, Callers
    <2>3. gpSeq + 1 <= target[o] /\ gpSeq + 1 # target[o]
      BY <1>4, <2>1, <2>2 DEF GraceInv, HeldLacksPeriod, Snapped
    <2> QED BY <2>2, <2>3 DEF CompletePeriod
  <1>5. HeldLacksPeriod'
    BY SMTT(30), <1>3, <1>4 DEF HeldLacksPeriod
  <1> QED BY <1>2, <1>5 DEF PeriodInv

LEMMA DrainGrace ==
    ASSUME TypeOK, GraceInv, Drain
    PROVE  GraceInv'
  <1>0. UNCHANGED <<held, reader, cpuQs, gpRequested, picked, target>> /\ Called' = Called
    BY DEF Drain, readerVars, actorVars, Called
  <1>1. CASE /\ \/ DrainEnter(Tick) \/ SampleInstall \/ SampleGeneration \/ RecheckInstall
                \/ (\E c \in Cpus : CheckQuiesced(c)) \/ BeginOpen
             /\ UNCHANGED <<gpSeq, fresh, incoming, stateVars, invoked, pc>>
    <2>1. HoldsInSection' /\ TargetSet' /\ ReclaimedDue'
      BY Zenon, <1>0, <1>1 DEF GraceInv, HoldsInSection, TargetSet, ReclaimedDue,
         Reclaimed
    <2>2. drain'.scan = drain.scan
      BY Zenon, <1>1 DEF DrainEnter, SampleInstall, SampleGeneration,
         RecheckInstall, DrainGoto,
                  CheckQuiesced, BeginOpen, TypeOK, DrainType
    <2>3. ListsCalled'
      BY Zenon, <1>0, <1>1, <2>2 DEF GraceInv, ListsCalled, stateVars
    <2>4. drain'.by = drain.by \/ drain'.by = Tick
      BY Zenon, <1>1 DEF DrainEnter, SampleInstall, SampleGeneration,
         RecheckInstall, DrainGoto,
                  CheckQuiesced, BeginOpen, TypeOK, DrainType
    <2>5. DrainerWaits'
      BY Zenon, <1>1, <2>4, RcuAssumption DEF GraceInv, DrainerWaits
    <2>6. \A c \in Cpus : Snapped(c)' => Snapped(c)
      BY ZenonT(30), <1>1 DEF DrainEnter, SampleInstall, SampleGeneration,
         RecheckInstall, DrainGoto,
                  CheckQuiesced, BeginOpen, TypeOK, DrainType, Snapped, stateVars
    <2>7. HeldLacksPeriod'
      BY Zenon, <1>0, <1>1, <2>6 DEF GraceInv, HeldLacksPeriod, stateVars
    <2>8. CheckedQuiesced'
      <3>1. CASE \E c \in Cpus : CheckQuiesced(c)
        <4>1. PICK c \in Cpus : CheckQuiesced(c)
          BY <3>1
        <4>2. cpuQs[c] \in Nat /\ snap[c] \in Nat
          BY DEF TypeOK
        <4>3. /\ drain.at = "check" /\ drain'.todo = drain.todo \ {c}
              /\ drain'.at = "check" => ~(cpuQs[c] <= snap[c])
          BY <4>1 DEF CheckQuiesced, TypeOK, DrainType
        <4>4. drain'.at = "check" => cpuQs[c] > snap[c]
          BY <4>2, <4>3
        <4> QED BY <1>0, <1>1, <4>3, <4>4 DEF GraceInv, CheckedQuiesced,
                   stateVars
      <3>2. CASE DrainEnter(Tick) \/ SampleInstall \/ SampleGeneration \/ RecheckInstall \/ BeginOpen
        <4>1. drain'.at # "check"
          BY Zenon, <3>2 DEF DrainEnter, SampleInstall, SampleGeneration,
             RecheckInstall, DrainGoto,
                      BeginOpen, TypeOK, DrainType
        <4> QED BY <4>1 DEF CheckedQuiesced
      <3> QED BY <1>1, <3>1, <3>2
    <2> QED BY SMTT(30), <2>1, <2>3, <2>5, <2>7, <2>8 DEF GraceInv
  <1>2. CASE /\ DrainSealed \/ DrainCurrent
             /\ UNCHANGED <<gpSeq, fresh, active, snap, invoked, pc>>
    <2>1. HoldsInSection' /\ TargetSet' /\ ReclaimedDue'
      BY Zenon, <1>0, <1>2 DEF GraceInv, HoldsInSection, TargetSet,
         ReclaimedDue, Reclaimed
    <2>2. /\ drain'.scan = drain.scan /\ drain'.by = drain.by /\ drain'.at # "snap"
          /\ drain'.at = "check" => active /\ drain'.todo = Cpus
      BY ZenonT(30), <1>2 DEF DrainSealed, DrainCurrent, DrainGoto, TypeOK,
         DrainType
    <2>3. CheckedQuiesced' /\ HeldLacksPeriod'
      BY Zenon, <1>0, <1>2, <2>2 DEF GraceInv, CheckedQuiesced,
         HeldLacksPeriod, Snapped
    <2>4. DrainerWaits'
      BY <1>2, <2>2 DEF GraceInv, DrainerWaits
    <2>5. PICK g \in {0, 1} : DrainIncoming(g)
      BY <1>2 DEF DrainSealed, DrainCurrent, TypeOK, DrainType
    <2>6. waiting \o Reverse(incoming[g]) \in Seq(Called) /\ <<>> \in Seq(Called)
      BY SeqFacts DEF GraceInv, ListsCalled
    <2>7. ListsCalled'
      BY <1>0, <2>2, <2>5, <2>6 DEF DrainIncoming, GraceInv, ListsCalled
    <2> QED BY <2>1, <2>3, <2>4, <2>7 DEF GraceInv
  <1>3. CASE CompletePeriod /\ UNCHANGED <<fresh, incoming, snap, waiting, invoked, pc>>
    <2>1. PeriodInv'
      BY <1>0, <1>3, CompleteGrace
    <2>2. gpSeq' = gpSeq + 1 /\ drain'.scan = drain.scan /\ drain'.by = drain.by
      BY <1>3 DEF CompletePeriod, TypeOK, DrainType
    <2>3. TargetSet' /\ DrainerWaits' /\ ListsCalled'
      BY <1>0, <1>3, <2>2 DEF GraceInv, TargetSet, DrainerWaits, ListsCalled
    <2>4. ReclaimedDue'
      <3>1. \A o \in Reclaimed : target[o] \in Nat
        BY DEF Reclaimed, TypeOK, Actors, Callers
      <3>2. Reclaimed' = Reclaimed /\ gpSeq \in Nat
        BY <1>3 DEF Reclaimed, TypeOK
      <3> QED BY <1>0, <2>2, <3>1, <3>2 DEF GraceInv, ReclaimedDue
    <2> QED BY <2>1, <2>3, <2>4 DEF GraceInv, PeriodInv
  <1>4. CASE \E c \in Cpus : Snapshot(c) /\ UNCHANGED <<gpSeq, fresh, incoming, active, waiting, invoked, pc>>
    <2>0. PICK c \in Cpus : Snapshot(c) /\ UNCHANGED <<gpSeq, fresh, incoming, active, waiting, invoked, pc>>
      BY <1>4
    <2>1. /\ drain'.scan = drain.scan /\ drain'.by = drain.by /\ drain.at = "snap" /\ drain'.at = "snap"
          /\ drain'.todo = drain.todo \ {c}
      BY <2>0, Zenon DEF Snapshot, TypeOK, DrainType
    <2>2. HoldsInSection' /\ TargetSet' /\ ReclaimedDue'
      BY SMTT(30), <1>0, <2>0 DEF GraceInv, HoldsInSection, TargetSet,
         ReclaimedDue, Reclaimed
    <2>3. CheckedQuiesced' /\ DrainerWaits' /\ ListsCalled'
      BY <1>0, <2>0, <2>1 DEF GraceInv, CheckedQuiesced, DrainerWaits,
         ListsCalled
    <2>4. snap'[c] = cpuQs[c] /\ \A d \in Cpus : d # c => snap'[d] = snap[d] /\ (Snapped(d)' => Snapped(d))
      BY <2>0, <2>1 DEF Snapshot, TypeOK, Snapped
    <2>5. cpuQs[c] <= snap'[c]
      BY <2>4 DEF TypeOK
    <2>6. HeldLacksPeriod'
      BY Zenon, <1>0, <2>0, <2>4, <2>5 DEF GraceInv, HeldLacksPeriod
    <2> QED BY <2>2, <2>3, <2>6 DEF GraceInv
  <1>5. CASE TakeWaiting /\ UNCHANGED <<gpSeq, fresh, incoming, snap, invoked, pc>>
    <2>1. /\ drain' = [drain EXCEPT !.at = "run", !.todo = {}, !.scan = waiting] /\ waiting' = <<>>
          /\ \A c \in Cpus : Snapped(c)' => Snapped(c)
      BY SMTT(30), <1>5 DEF TakeWaiting, Snapped, TypeOK, DrainType
    <2>2. drain'.at = "run" /\ drain'.scan = waiting /\ drain'.by = drain.by
      BY <2>1 DEF TypeOK, DrainType
    <2>3. HoldsInSection' /\ TargetSet' /\ ReclaimedDue' /\ CheckedQuiesced' /\ DrainerWaits'
      BY <1>0, <1>5, <2>2 DEF GraceInv, HoldsInSection, TargetSet,
         ReclaimedDue, Reclaimed,
                              CheckedQuiesced, DrainerWaits
    <2>4. HeldLacksPeriod'
      BY <1>0, <1>5, <2>1 DEF GraceInv, HeldLacksPeriod
    <2>5. ListsCalled'
      BY <1>0, <1>5, <2>1, <2>2 DEF GraceInv, ListsCalled
    <2> QED BY <2>3, <2>4, <2>5 DEF GraceInv
  <1>6. CASE KeepWaiting /\ UNCHANGED <<gpSeq, fresh, incoming, active, snap, invoked, pc>>
    <2>1. drain.at = "run" /\ drain'.at = "run" /\ drain'.scan = Tail(drain.scan) /\ drain'.by = drain.by
      BY <1>6 DEF KeepWaiting, TypeOK, DrainType
    <2>2. Head(drain.scan) \in Called /\ Tail(drain.scan) \in Seq(Called)
      BY SMTT(30), <1>6, SeqHeadTail DEF KeepWaiting, GraceInv, ListsCalled
    <2>3. HoldsInSection' /\ TargetSet' /\ ReclaimedDue' /\ CheckedQuiesced' /\ DrainerWaits'
      BY <1>0, <1>6, <2>1, Zenon DEF GraceInv, HoldsInSection, TargetSet,
         ReclaimedDue, Reclaimed,
                              CheckedQuiesced, DrainerWaits
    <2>4. HeldLacksPeriod'
      BY <1>0, <1>6, <2>1 DEF GraceInv, HeldLacksPeriod, Snapped
    <2>5. ListsCalled'
      BY <1>0, <1>6, <2>1, <2>2, SeqFacts DEF KeepWaiting, GraceInv, ListsCalled
    <2> QED BY <2>3, <2>4, <2>5 DEF GraceInv
  <1>7. CASE RunCallback /\ UNCHANGED <<gpSeq, fresh, incoming, stateVars, pc>>
    <2>1. drain.at = "run" /\ drain'.at = "run" /\ drain'.scan = Tail(drain.scan) /\ drain'.by = drain.by
      BY <1>7 DEF RunCallback, TypeOK, DrainType
    <2>2. Head(drain.scan) \in Called /\ Tail(drain.scan) \in Seq(Called)
      BY <1>7, SeqHeadTail DEF RunCallback, GraceInv, ListsCalled
    <2>3. HoldsInSection' /\ TargetSet' /\ CheckedQuiesced' /\ DrainerWaits' /\ ListsCalled'
      BY Zenon, <1>0, <1>7, <2>1, <2>2 DEF GraceInv, HoldsInSection,
         TargetSet, CheckedQuiesced, DrainerWaits,
                                    ListsCalled, stateVars
    <2>4. HeldLacksPeriod'
      BY <1>0, <1>7, <2>1 DEF GraceInv, HeldLacksPeriod, Snapped, stateVars
    <2>5. ReclaimedDue'
      BY <1>0, <1>7, <2>2 DEF RunCallback, Due, Called, GraceInv,
         ReclaimedDue, Reclaimed
    <2> QED BY <2>3, <2>4, <2>5 DEF GraceInv
  <1>8. CASE NotifyWaiters /\ UNCHANGED <<gpSeq, incoming, stateVars, invoked, pc>>
    <2>1. drain.at = "run" /\ drain'.at = "exit" /\ drain'.scan = drain.scan /\ drain'.by = drain.by
      BY SMTT(30), <1>8 DEF NotifyWaiters, DrainGoto, TypeOK, DrainType
    <2>2. HoldsInSection' /\ TargetSet' /\ ReclaimedDue' /\ CheckedQuiesced' /\ DrainerWaits' /\ ListsCalled'
      BY SMTT(30), <1>0, <1>8, <2>1 DEF GraceInv, HoldsInSection, TargetSet,
         ReclaimedDue, Reclaimed,
                              CheckedQuiesced, DrainerWaits, ListsCalled, stateVars
    <2>3. HeldLacksPeriod'
      BY <1>0, <1>8, <2>1 DEF GraceInv, HeldLacksPeriod, Snapped, stateVars
    <2> QED BY <2>2, <2>3 DEF GraceInv
  <1>9. CASE DrainExit /\ UNCHANGED <<gpSeq, fresh, incoming, stateVars, invoked>>
    <2>1. drain.at = "exit" /\ drain'.at = "out" /\ drain'.scan = <<>> /\ drain'.by = NoOne
      BY <1>9, Zenon DEF DrainExit, Idle
    <2>2. HoldsInSection' /\ CheckedQuiesced' /\ DrainerWaits'
      BY <1>0, <2>1, RcuAssumption DEF GraceInv, HoldsInSection,
         CheckedQuiesced, DrainerWaits
    <2>3. ListsCalled'
      <3>1. UNCHANGED <<incoming, waiting>> /\ <<>> \in Seq(Called)
        BY <1>9 DEF stateVars
      <3> QED BY <1>0, <2>1, <3>1 DEF GraceInv, ListsCalled
    <2>4. HeldLacksPeriod'
      BY <1>0, <1>9, <2>1, Zenon DEF GraceInv, HeldLacksPeriod, Snapped, stateVars
    <2>5. \A a \in Actors : pc'[a] = pc[a] \/ (a \in Callers /\ pc[a] = "draining" /\ pc'[a] = "drained")
      BY <1>9, Zenon DEF DrainExit, GraceInv, DrainerWaits, TypeOK
    <2>6. TargetSet' /\ ReclaimedDue'
      BY <1>0, <1>9, <2>5, Disjoint DEF GraceInv, TargetSet, ReclaimedDue,
         Reclaimed
    <2> QED BY <2>2, <2>3, <2>4, <2>6 DEF GraceInv
  <1> QED BY <1>1, <1>2, <1>3, <1>4, <1>5, <1>6, <1>7, <1>8, <1>9 DEF Drain

\* The steps that waiters and barriers share.
CallerStep(a, from, to) ==
    CallerQs(a, to) \/ SampleEpoch(a, from, to) \/ CallDrain(a) \/ WaitForProgress(a, from, to)

\* A caller is not in a reader when it records its quiescent state.
LEMMA CallerGrace ==
    ASSUME TypeOK, GraceInv, NEW a \in Callers, NEW from, NEW to,
           from \notin {"start", "draining"}, to \notin {"start", "done", "draining"},
           CallerStep(a, from, to),
           UNCHANGED <<readerVars, listVars, stateVars, invoked, actorVars>>
    PROVE  GraceInv'
  <1> USE DEF CallerStep, readerVars, gpVars, listVars, stateVars, actorVars
  <1>0. UNCHANGED <<held, reader, gpSeq, active, snap, target, incoming, waiting, invoked>>
    BY DEF CallerQs, SampleEpoch, CallDrain, WaitForProgress
  <1>1. /\ \A d \in Actors : d # a => pc'[d] = pc[d]
        /\ pc[a] \notin {"start", "draining"} /\ pc'[a] \notin {"start", "done"}
        /\ pc'[a] = "draining" => drain'.by = a
        /\ a \in Actors
    BY Zenon DEF CallerQs, SampleEpoch, CallDrain, WaitForProgress, Goto,
       TypeOK, DrainEnter, DrainType, Actors
  <1>2. TargetSet' /\ ReclaimedDue'
    BY Zenon, <1>0, <1>1, Disjoint DEF GraceInv, TargetSet, ReclaimedDue,
       Reclaimed
  <1>3. CASE UNCHANGED drain
    <2>1. ListsCalled'
      BY <1>0, <1>3, ListFrame DEF Called
    <2>2. DrainerWaits'
      BY Zenon, <1>1, <1>3, Disjoint DEF GraceInv, DrainerWaits, Actors
    <2>3. CASE UNCHANGED cpuQs
      BY <1>0, <1>2, <1>3, <2>1, <2>2, <2>3, PeriodFrame, Zenon DEF periodVars,
         PeriodInv, GraceInv
    <2>4. CASE \E c \in Cpus : NoteQs(c)
      BY <1>0, <1>2, <1>3, <2>1, <2>2, <2>4, NoteQsGrace DEF PeriodInv, GraceInv
    <2> QED BY <2>3, <2>4 DEF CallerQs, SampleEpoch, CallDrain, WaitForProgress
  <1>4. CASE Goto(a, "drain", "draining") /\ DrainEnter(a) /\ UNCHANGED cpuQs
    <2>1. drain'.by = a /\ drain'.at = "install" /\ drain'.scan = drain.scan
      BY <1>4 DEF DrainEnter, TypeOK, DrainType
    <2>2. DrainerWaits'
      <3>1. pc'[a] = "draining"
        BY <1>1, <1>4 DEF Goto, TypeOK
      <3> QED BY ZenonT(30), <2>1, <3>1 DEF DrainerWaits
    <2>3. ListsCalled'
      BY ZenonT(30), <1>0, <2>1 DEF GraceInv, ListsCalled, Called
    <2>4. HoldsInSection' /\ CheckedQuiesced'
      BY Zenon, <1>0, <2>1 DEF GraceInv, HoldsInSection, CheckedQuiesced
    <2>5. \A c \in Cpus : Snapped(c)' => Snapped(c)
      <3>1. drain'.at # "snap"
        BY Zenon, <2>1
      <3>2. active' = active
        BY <1>0
      <3>3. active' => active
        BY <3>2 DEF TypeOK
      <3> QED BY Zenon, <3>1, <3>3 DEF Snapped
    <2>6. HeldLacksPeriod'
      BY <1>0, <1>4, <2>5 DEF GraceInv, HeldLacksPeriod
    <2> QED BY <1>2, <2>2, <2>3, <2>4, <2>6 DEF GraceInv
  <1> QED BY <1>3, <1>4 DEF CallerQs, SampleEpoch, CallDrain, WaitForProgress

\* Any other step of a waiter or barrier leaves the period machine alone.
LEMMA StepGrace ==
    ASSUME TypeOK, GraceInv, NEW a \in Callers,
           UNCHANGED <<held, reader, cpuQs, gpSeq, active, snap, drain, waiting, invoked>>,
           \A d \in Actors : d # a => pc'[d] = pc[d],
           pc[a] # "draining",
           PeriodInv', TargetSet', ListsCalled', ReclaimedDue'
    PROVE  GraceInv'
  <1>1. DrainerWaits'
    BY Zenon DEF GraceInv, DrainerWaits, Actors
  <1> QED BY Zenon, <1>1 DEF GraceInv, PeriodInv

LEMMA SynchronizeGrace ==
    ASSUME TypeOK, GraceInv, NEW s \in Syncs, Synchronize(s)
    PROVE  GraceInv'
  <1> USE DEF readerVars, gpVars, listVars, stateVars, actorVars
  <1>0. s \in Actors /\ s \in Callers /\ s \notin Cbs /\ s \in Objects
    BY Disjoint
  <1>1. CASE SyncStart(s)
    <2>1. /\ UNCHANGED <<held, reader, cpuQs, gpSeq, active, snap, drain, waiting, incoming, invoked>>
          /\ pc[s] = "start" /\ pc' = [pc EXCEPT ![s] = "request"]
          /\ target' = [target EXCEPT ![s] = gpSeq + 2] /\ gpSeq \in Nat
      BY <1>1 DEF SyncStart, Synchronize, Goto, TypeOK
    <2>2. HoldsInSection' /\ CheckedQuiesced'
      BY Zenon, <2>1 DEF GraceInv, HoldsInSection, CheckedQuiesced
    <2>3. HeldLacksPeriod'
      <3>1. target'[s] = gpSeq + 2 /\ \A o \in Actors : o # s => target'[o] = target[o]
        BY <1>0, <2>1 DEF TypeOK
      <3>2. \A c \in Cpus : held[c] \subseteq Actors /\ (Snapped(c)' <=> Snapped(c))
        BY Zenon, <2>1 DEF Snapped, TypeOK, Objects, Actors, Callers
      <3>3. \A c \in Cpus : \A o \in held[c] : o # s => target'[o] = target[o]
        BY Zenon, <3>1, <3>2
      <3>4. gpSeq' + 1 <= target'[s] /\ gpSeq' + 1 # target'[s]
        BY <2>1, <3>1
      <3>5. ASSUME NEW c \in Cpus, NEW o \in held[c], target'[o] # 0
            PROVE  /\ gpSeq' + 1 <= target'[o]
                   /\ gpSeq' + 1 = target'[o] /\ Snapped(c)' => cpuQs'[c] <= snap'[c]
        <4>1. CASE o = s
          BY <3>4, <4>1
        <4>2. CASE o # s
          BY ZenonT(30), <2>1, <3>2, <3>3, <3>5, <4>2 DEF GraceInv,
             HeldLacksPeriod
        <4> QED BY <4>1, <4>2
      <3> QED BY Zenon, <2>1, <3>5 DEF HeldLacksPeriod
    <2>4. TargetSet'
      BY SMTT(30), <1>0, <2>1, Disjoint DEF GraceInv, TargetSet, TypeOK
    <2>5. ReclaimedDue'
      BY SMTT(30), <1>0, <2>1, Disjoint DEF GraceInv, ReclaimedDue, Reclaimed,
         TypeOK
    <2>6. ListsCalled'
      BY <1>0, <2>1, ListFrame, Disjoint DEF Called, TypeOK
    <2>7. \A d \in Actors : d # s => pc'[d] = pc[d]
      BY <2>1 DEF TypeOK
    <2> QED BY SMTT(30), <1>0, <2>1, <2>2, <2>3, <2>4, <2>5, <2>6, <2>7, StepGrace
               DEF PeriodInv
  <1>2. CASE \/ SyncRequest(s)
             \/ SyncTest(s, "loop", "done", "qs") \/ SyncTest(s, "drained", "loop", "epoch")
    <2>1. /\ UNCHANGED <<held, reader, cpuQs, gpSeq, active, snap, drain, waiting, incoming, invoked, target>>
          /\ \A d \in Actors : d # s => pc'[d] = pc[d]
          /\ pc[s] \notin {"start", "draining"} /\ pc'[s] # "start"
      BY Zenon, <1>0, <1>2 DEF SyncRequest, SyncTest, Synchronize, Goto, TypeOK
    <2>2. pc'[s] = "done" => target[s] <= gpSeq
      BY <1>0, <1>2 DEF SyncRequest, SyncTest, Goto, TypeOK
    <2>3. PeriodInv'
      BY Zenon, <2>1, PeriodFrame DEF periodVars
    <2>4. TargetSet'
      BY ZenonT(30), <1>0, <2>1, Disjoint DEF GraceInv, TargetSet
    <2>5. ReclaimedDue'
      BY Zenon, <1>0, <2>1, <2>2, Disjoint DEF GraceInv, ReclaimedDue,
         Reclaimed, TargetSet
    <2>6. ListsCalled'
      BY Zenon, <2>1, ListFrame DEF Called
    <2> QED BY Zenon, <1>0, <2>1, <2>3, <2>4, <2>5, <2>6, StepGrace
  <1>3. CASE /\ CallerQs(s, "drain") \/ CallDrain(s)
                \/ SampleEpoch(s, "epoch", "wait") \/ WaitForProgress(s, "wait", "loop")
             /\ UNCHANGED target
    <2>1. CallerStep(s, "qs", "drain") \/ CallerStep(s, "epoch", "wait") \/ CallerStep(s, "wait", "loop")
      BY <1>3 DEF CallerStep
    <2>2. UNCHANGED <<readerVars, listVars, stateVars, invoked, actorVars>>
      BY <1>3, Zenon DEF Synchronize
    <2> QED BY <1>0, <2>1, <2>2, CallerGrace
  <1> QED BY <1>1, <1>2, <1>3 DEF Synchronize

LEMMA BarrierGrace ==
    ASSUME TypeOK, GraceInv, NEW b \in Barriers, Barrier(b)
    PROVE  GraceInv'
  <1> USE DEF readerVars, gpVars, listVars, stateVars, actorVars
  <1>0. b \in Actors /\ b \in Callers /\ b \notin Cbs /\ b \notin Objects /\ b \notin Syncs /\ b \in Items
    BY Disjoint DEF Items
  <1>1. CASE /\ \/ Claim(b) \/ StepInstall(b) \/ Flip(b) \/ Sealed(b)
                \/ MarkerTarget(b) \/ PushMarker(b) \/ BarrierTest(b) \/ Release(b)
                \/ NotifyBarriers(b)
             /\ UNCHANGED <<cpuQs, gpSeq, gpRequested, drain>>
    <2>1. UNCHANGED <<held, reader, cpuQs, gpSeq, active, snap, drain, waiting, invoked>>
      BY <1>1 DEF Barrier
    <2>2. pc[b] # "draining" /\ \A d \in Actors : d # b => pc'[d] = pc[d]
      BY ZenonT(30), <1>0, <1>1 DEF Claim, StepInstall, Flip, Sealed,
         MarkerTarget, PushMarker, BarrierTest,
                        Release, NotifyBarriers, Goto, TypeOK
    <2>3. \A d \in Actors : d # b => target'[d] = target[d]
      BY Zenon, <1>0, <1>1 DEF Claim, StepInstall, Flip, Sealed, MarkerTarget,
         PushMarker, BarrierTest,
                        Release, NotifyBarriers, TypeOK
    <2>4. HoldsInSection' /\ CheckedQuiesced'
      BY Zenon, <2>1 DEF GraceInv, HoldsInSection, CheckedQuiesced
    <2>5. HeldLacksPeriod'
      <3>1. \A c \in Cpus : \A o \in held[c] : target'[o] = target[o]
        BY <1>0, <2>3 DEF TypeOK, Objects, Actors, Callers
      <3> QED BY Zenon, <2>1, <3>1 DEF GraceInv, HeldLacksPeriod, Snapped
    <2>6. TargetSet' /\ ReclaimedDue'
      BY Zenon, <2>1, <2>2, <2>3, Disjoint DEF GraceInv, TargetSet,
         ReclaimedDue, Reclaimed
    <2>7. ListsCalled'
      <3>1. Called' = Called /\ b \in Called
        BY Zenon, <1>0, <2>3, Disjoint DEF Called
      <3>2. CASE PushMarker(b)
        <4>1. <<b>> \o incoming[picked[b]] \in Seq(Called)
          BY <1>0, <3>1, SeqFacts DEF GraceInv, ListsCalled, TypeOK
        <4> QED BY Zenon, <2>1, <3>1, <3>2, <4>1 DEF PushMarker, PushIncoming,
                   GraceInv, ListsCalled
      <3>3. CASE UNCHANGED incoming
        BY <2>1, <3>1, <3>3, ListFrame
      <3> QED BY Zenon, <1>1, <3>2, <3>3 DEF Claim, StepInstall, Flip, Sealed,
                 MarkerTarget, BarrierTest,
                                      Release, NotifyBarriers
    <2> QED BY Zenon, <1>0, <2>1, <2>2, <2>4, <2>5, <2>6, <2>7, StepGrace
               DEF PeriodInv
  <1>2. CASE /\ \/ CallerQs(b, "epoch") \/ SampleEpoch(b, "epoch", "drain") \/ CallDrain(b)
                \/ WaitForProgress(b, "wait", "loop")
                \/ SampleEpoch(b, "contended", "recheck") \/ WaitForProgress(b, "await", "retry")
             /\ UNCHANGED <<listVars, picked, target, before>>
    <2>1. \/ CallerStep(b, "qs", "epoch") \/ CallerStep(b, "epoch", "drain")
          \/ CallerStep(b, "wait", "loop") \/ CallerStep(b, "contended", "recheck")
          \/ CallerStep(b, "await", "retry")
      BY <1>2, Zenon DEF CallerStep
    <2>2. UNCHANGED <<readerVars, listVars, stateVars, invoked, actorVars>>
      BY <1>2 DEF Barrier
    <2> QED BY <1>0, <2>1, <2>2, CallerGrace
  <1> QED BY <1>1, <1>2 DEF Barrier

LEMMA GraceInduction ==
    ASSUME TypeOK, GraceInv, [Next]_vars
    PROVE  GraceInv'
  <1>1. CASE UNCHANGED vars
    <2> USE <1>1 DEF vars, readerVars, gpVars, listVars, stateVars, actorVars
    <2>1. PeriodInv'
      BY PeriodFrame DEF periodVars
    <2>2. ListsCalled'
      BY ListFrame DEF Called
    <2>3. TargetSet' /\ ReclaimedDue' /\ DrainerWaits'
      BY Zenon DEF GraceInv, TargetSet, ReclaimedDue, Reclaimed, DrainerWaits
    <2> QED BY <2>1, <2>2, <2>3 DEF GraceInv, PeriodInv
  <1> QED BY <1>1, ReaderGrace, ProducerGrace, DrainGrace, SynchronizeGrace,
             BarrierGrace, Zenon DEF Next

\* The inductive invariant holds throughout.
THEOREM GraceInvariant == Spec => []GraceInv
  <1>1. Init => GraceInv
    <2> SUFFICES ASSUME Init PROVE GraceInv
      OBVIOUS
    <2>1. HoldsInSection /\ HeldLacksPeriod
      BY SMTT(30) DEF Init, HoldsInSection, HeldLacksPeriod
    <2>2. CheckedQuiesced /\ DrainerWaits
      BY RcuAssumption DEF Init, Idle, CheckedQuiesced, DrainerWaits
    <2>3. TargetSet /\ ReclaimedDue
      BY Disjoint DEF Init, TargetSet, ReclaimedDue, Reclaimed
    <2>4. ListsCalled
      <3>1. drain.scan = <<>> /\ waiting = <<>> /\ incoming = [g \in {0, 1} |-> <<>>]
        BY DEF Init, Idle
      <3>2. <<>> \in Seq(Called)
        OBVIOUS
      <3> QED BY SMTT(30), <3>1, <3>2 DEF ListsCalled
    <2> QED BY <2>1, <2>2, <2>3, <2>4 DEF GraceInv
  <1>2. TypeOK /\ GraceInv /\ [Next]_vars => GraceInv'
    BY GraceInduction
  <1> QED BY <1>1, <1>2, TypeCorrect, PTL DEF Spec

\* The grace-period guarantee, for every number of CPUs, callbacks, waiters and
\* barriers: no callback runs, and no synchronize_rcu returns, while a reader
\* that began before the unlink is still in its section.
THEOREM GracePeriodSafety == Spec => []GraceSafe
  <1>1. TypeOK /\ GraceInv => GraceSafe
    <2> SUFFICES ASSUME TypeOK, GraceInv, NEW c \in Cpus, NEW o \in held[c], o \in Reclaimed
                 PROVE  FALSE
      BY Zenon DEF GraceSafe
    <2>1. gpSeq \in Nat /\ target[o] \in Nat
      BY DEF TypeOK, Objects, Actors, Callers
    <2>2. target[o] # 0 /\ target[o] <= gpSeq
      BY DEF GraceInv, ReclaimedDue
    <2>3. gpSeq + 1 <= target[o]
      BY <2>2 DEF GraceInv, HeldLacksPeriod
    <2> QED BY <2>1, <2>2, <2>3
  <1> QED BY <1>1, TypeCorrect, GraceInvariant, PTL

-----------------------------------------------------------------------------
(* Rcu implements GracePeriod *)

\* A step that links, unlinks and reclaims nothing is a stutter.
LEMMA StatusStutter ==
    ASSUME UNCHANGED held,
           \A o \in Objects : (Linked(o)' <=> Linked(o)) /\ (o \in Reclaimed' <=> o \in Reclaimed)
    PROVE  UNCHANGED GP!vars
  BY DEF GP!vars, Status

\* An updater's unlink is the abstract one.
LEMMA StatusUnlink ==
    ASSUME UNCHANGED held, NEW o \in Objects, Linked(o), ~Linked(o)', o \notin Reclaimed',
           \A p \in Objects : p # o => (Linked(p)' <=> Linked(p)) /\ (p \in Reclaimed' <=> p \in Reclaimed)
    PROVE  GP!Unlink(o)
  BY Zenon DEF GP!Unlink, Status

\* A callback that runs, and a synchronize_rcu that returns, is an abstract
\* reclaim: its target has been reached, so no reader holds the object.
LEMMA StatusReclaim ==
    ASSUME TypeOK, GraceInv, UNCHANGED held, NEW o \in Objects,
           target[o] # 0, target[o] <= gpSeq, ~Linked(o), Reclaimed' = Reclaimed \union {o},
           \A p \in Objects : Linked(p)' <=> Linked(p)
    PROVE  [GP!Next]_(GP!vars)
  <1>1. \A c \in Cpus : o \notin held[c]
    <2> SUFFICES ASSUME NEW c \in Cpus, o \in held[c] PROVE FALSE
      OBVIOUS
    <2>1. gpSeq \in Nat /\ target[o] \in Nat
      BY DEF TypeOK, Objects, Actors, Callers
    <2>2. gpSeq + 1 <= target[o]
      BY Zenon DEF GraceInv, HeldLacksPeriod
    <2> QED BY <2>1, <2>2
  <1>2. CASE o \in Reclaimed
    BY <1>2, StatusStutter
  <1>3. CASE o \notin Reclaimed
    <2>1. GP!Reclaim(o)
      BY Zenon, <1>1, <1>3 DEF GP!Reclaim, Status
    <2> QED BY <2>1 DEF GP!Next
  <1> QED BY <1>2, <1>3, Zenon

LEMMA ReaderRefines ==
    ASSUME TypeOK, GraceInv, NEW c \in Cpus, Reader(c)
    PROVE  [GP!Next]_(GP!vars)
  <1>0. UNCHANGED <<pc, invoked>> /\ Status' = Status
    BY DEF Reader, Status, Linked, Reclaimed
  <1>1. CASE ReadLock(c)
    <2>1. held[c] = {}
      BY <1>1 DEF ReadLock, GraceInv, HoldsInSection
    <2>2. {o \in Objects : Linked(o)} = {o \in Objects : Status[o] = "linked"}
      BY DEF Status
    <2>3. GP!Enter(c)
      BY Zenon, <1>0, <1>1, <2>1, <2>2 DEF ReadLock, GP!Enter
    <2> QED BY <2>3 DEF GP!Next
  <1>2. CASE ReadUnlock(c)
    <2>1. GP!Leave(c)
      BY <1>0, <1>2 DEF ReadUnlock, GP!Leave
    <2> QED BY <2>1 DEF GP!Next
  <1>3. CASE UNCHANGED readerVars
    BY <1>0, <1>3 DEF readerVars, GP!vars
  <1> QED BY <1>1, <1>2, <1>3 DEF Reader

LEMMA ProducerRefines ==
    ASSUME TypeOK, GraceInv, NEW x \in Cbs, Producer(x)
    PROVE  [GP!Next]_(GP!vars)
  <1>0. UNCHANGED <<held, invoked>> /\ x \in Actors /\ x \in Objects /\ x \notin Syncs
    BY Disjoint, Zenon DEF Producer, readerVars
  <1>1. \A a \in Actors : a # x => pc'[a] = pc[a]
    BY DEF Producer, Unlink, CallRcu, SelectGeneration, Announce,
       RecheckGeneration, Push, Retire,
           Goto, TypeOK
  <1>2. /\ Objects \subseteq Actors
        /\ \A o \in Objects : o # x => (Linked(o)' <=> Linked(o))
        /\ Reclaimed' = Reclaimed
    BY Zenon, <1>0, <1>1, Disjoint DEF Linked, Reclaimed, Objects, Actors,
       Callers
  <1>3. CASE Unlink(x)
    <2>1. Linked(x) /\ ~Linked(x)' /\ target[x] = 0
      BY <1>0, <1>3 DEF Unlink, Goto, Linked, TypeOK, GraceInv, TargetSet
    <2>2. x \notin Reclaimed
      BY <2>1 DEF GraceInv, ReclaimedDue
    <2>3. GP!Unlink(x)
      BY <1>0, <1>2, <2>1, <2>2, StatusUnlink
    <2> QED BY <1>0, <2>3 DEF GP!Next
  <1>4. CASE CallRcu(x) \/ SelectGeneration(x) \/ Announce(x) \/ RecheckGeneration(x) \/ Push(x) \/ Retire(x)
    <2>1. ~Linked(x) /\ ~Linked(x)'
      BY SMTT(30), <1>0, <1>4 DEF CallRcu, SelectGeneration, Announce,
         RecheckGeneration, Push, Retire,
                        Goto, Linked, TypeOK
    <2> QED BY SMTT(30), <1>0, <1>2, <2>1, StatusStutter
  <1> QED BY <1>3, <1>4 DEF Producer

LEMMA DrainRefines ==
    ASSUME TypeOK, GraceInv, Drain
    PROVE  [GP!Next]_(GP!vars)
  <1>0. UNCHANGED held
    BY DEF Drain, readerVars
  <1>1. CASE RunCallback /\ UNCHANGED pc
    <2> DEFINE x == Head(drain.scan)
    <2>1. x \in Called /\ invoked' = invoked \union {x} /\ target[x] <= gpSeq
      BY <1>1, SeqHeadTail DEF RunCallback, Due, GraceInv, ListsCalled
    <2>2. \A o \in Objects : Linked(o)' <=> Linked(o)
      BY <1>1 DEF Linked
    <2> HIDE DEF x
    <2>3. CASE x \in Cbs
      <3>1. target[x] # 0 /\ x \in Objects /\ ~Linked(x)
        BY <2>1, <2>3, Disjoint DEF Called, GraceInv, TargetSet, Linked
      <3>2. Reclaimed' = Reclaimed \union {x}
        BY <1>1, <2>1, <2>3 DEF Reclaimed
      <3> QED BY <1>0, <2>1, <2>2, <3>1, <3>2, StatusReclaim, Zenon
    <2>4. CASE x \notin Cbs
      <3>1. Reclaimed' = Reclaimed
        BY <1>1, <2>1, <2>4 DEF Reclaimed
      <3> QED BY <1>0, <2>2, <3>1, StatusStutter
    <2> QED BY <2>3, <2>4
  <1>2. CASE UNCHANGED <<invoked, pc>>
    BY <1>0, <1>2, StatusStutter DEF Linked, Reclaimed
  <1>3. CASE DrainExit /\ UNCHANGED invoked
    <2>1. \A a \in Actors : pc'[a] = pc[a] \/ (pc[a] = "draining" /\ pc'[a] = "drained")
      BY <1>3 DEF DrainExit, GraceInv, DrainerWaits, TypeOK
    <2>2. Objects \subseteq Actors /\ Syncs \subseteq Actors
      BY DEF Objects, Actors, Callers
    <2>3. Reclaimed' = Reclaimed /\ \A o \in Objects : Linked(o)' <=> Linked(o)
      BY SMTT(30), <1>3, <2>1, <2>2 DEF Linked, Reclaimed
    <2> QED BY <1>0, <2>3, StatusStutter
  <1> QED BY <1>1, <1>2, <1>3, Zenon DEF Drain

LEMMA SynchronizeRefines ==
    ASSUME TypeOK, GraceInv, NEW s \in Syncs, Synchronize(s)
    PROVE  [GP!Next]_(GP!vars)
  <1>0. UNCHANGED <<held, invoked>> /\ s \in Actors /\ s \in Objects /\ s \notin Cbs
    BY Disjoint DEF Synchronize, readerVars
  <1>1. \A a \in Actors : a # s => pc'[a] = pc[a]
    BY Zenon, <1>0 DEF Synchronize, SyncStart, SyncRequest, SyncTest,
       CallerQs, SampleEpoch, CallDrain,
           WaitForProgress, Goto, TypeOK
  <1>2. /\ Objects \subseteq Actors
        /\ \A o \in Objects : o # s => /\ (Linked(o)' <=> Linked(o))
                                       /\ (o \in Reclaimed' <=> o \in Reclaimed)
    BY ZenonT(30), <1>0, <1>1, Disjoint DEF Linked, Reclaimed, Objects,
       Actors, Callers
  <1>3. CASE SyncStart(s)
    <2>1. Linked(s) /\ ~Linked(s)' /\ s \notin Reclaimed'
      BY <1>0, <1>3 DEF SyncStart, Goto, Linked, TypeOK, Reclaimed
    <2>2. GP!Unlink(s)
      BY <1>0, <1>2, <2>1, StatusUnlink
    <2> QED BY <1>0, <2>2 DEF GP!Next
  <1>4. CASE SyncTest(s, "loop", "done", "qs") /\ gpSeq >= target[s]
    <2>1. pc[s] = "loop" /\ pc'[s] = "done"
      BY SMTT(30), <1>0, <1>4 DEF SyncTest, Goto, TypeOK
    <2>2. ~Linked(s) /\ ~Linked(s)' /\ target[s] # 0 /\ target[s] <= gpSeq
      BY <1>0, <1>4, <2>1 DEF Linked, GraceInv, TargetSet, TypeOK
    <2>3. Reclaimed' = Reclaimed \union {s}
      <3>1. \A p \in Syncs : p # s => pc'[p] = pc[p]
        BY Zenon, <1>1, Disjoint
      <3> QED BY <1>0, <2>1, <3>1 DEF Reclaimed
    <2> QED BY SMTT(30), <1>0, <1>2, <2>2, <2>3, StatusReclaim
  <1>5. CASE pc[s] # "start" /\ pc'[s] # "start" /\ pc[s] # "done" /\ pc'[s] # "done"
    <2>1. s \notin Reclaimed /\ s \notin Reclaimed' /\ ~Linked(s) /\ ~Linked(s)'
      BY <1>0, <1>5 DEF Reclaimed, Linked
    <2> QED BY <1>0, <1>2, <2>1, StatusStutter, Zenon
  <1>6. SyncStart(s) \/ (SyncTest(s, "loop", "done", "qs") /\ gpSeq >= target[s])
        \/ (pc[s] # "start" /\ pc'[s] # "start" /\ pc[s] # "done" /\ pc'[s] # "done")
    BY Zenon, <1>0 DEF Synchronize, SyncStart, SyncRequest, SyncTest,
       CallerQs, SampleEpoch, CallDrain,
           WaitForProgress, Goto, TypeOK
  <1> QED BY <1>3, <1>4, <1>5, <1>6

LEMMA BarrierRefines ==
    ASSUME TypeOK, NEW b \in Barriers, Barrier(b)
    PROVE  [GP!Next]_(GP!vars)
  <1>0. UNCHANGED <<held, invoked>>
    BY DEF Barrier, readerVars
  <1>1. \A a \in Actors : a # b => pc'[a] = pc[a]
    BY Zenon DEF Barrier, Claim, StepInstall, Flip, Sealed, MarkerTarget,
       PushMarker, BarrierTest, Release,
           NotifyBarriers, CallerQs, SampleEpoch, CallDrain, WaitForProgress, Goto, TypeOK
  <1>2. /\ Reclaimed' = Reclaimed
        /\ \A o \in Objects : Linked(o)' <=> Linked(o)
    BY Zenon, <1>0, <1>1, Disjoint DEF Linked, Reclaimed, Objects, Actors,
       Callers
  <1> QED BY <1>0, <1>2, StatusStutter

\* Rcu implements the abstract grace period for every value of the constants.
THEOREM Refinement == Spec => Refines
  <1>1. Init => GP!Init
    <2> SUFFICES ASSUME Init PROVE GP!Init
      OBVIOUS
    <2>1. \A o \in Objects : Linked(o)
      BY Disjoint DEF Init, Linked, Objects
    <2> QED BY <2>1 DEF Init, GP!Init, Status
  <1>2. TypeOK /\ GraceInv /\ [Next]_vars => [GP!Next]_(GP!vars)
    <2> SUFFICES ASSUME TypeOK, GraceInv, [Next]_vars PROVE [GP!Next]_(GP!vars)
      OBVIOUS
    <2>1. CASE UNCHANGED vars
      BY <2>1, StatusStutter DEF vars, readerVars, Linked, Reclaimed
    <2> QED BY <2>1, ReaderRefines, ProducerRefines, DrainRefines,
               SynchronizeRefines,
               BarrierRefines DEF Next
  <1> QED BY <1>1, <1>2, TypeCorrect, GraceInvariant, PTL DEF Spec, Refines,
             GP!Spec

=============================================================================
