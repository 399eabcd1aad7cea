----------------------------- MODULE WakeProofs -----------------------------
(***************************************************************************)
(* Proofs about WakeSwitch, for every number of CPUs and tasks and every   *)
(* scene: type correctness, with what the program points say of a CPU's    *)
(* locals; on_wake_list owns one wake node; no task runs on two CPUs; and  *)
(* no runnable task is lost.                                               *)
(***************************************************************************)
EXTENDS WakeSwitch, TLAPS


\* The points at which the task, and the target, of the locals are set.
Working == PiSteps \union {"pop", "claim", "pull"}
Aimed == (PiSteps \union {"pull"}) \ {"select"}

-----------------------------------------------------------------------------
(* Types and locals *)

\* The conjuncts of TypeOK, by the variables that steps write together.
TaskTypes ==
    /\ state \in [Present -> {"Runnable", "Sleeping", "Waking"}]
    /\ onRq \in [Present -> {"off", "queued", "migrating"}]
    /\ onCpu \in [Present -> BOOLEAN] /\ cpu \in [Present -> Cpus]
WaitTypes ==
    /\ cond \in [Present -> BOOLEAN] /\ listed \in [Present -> BOOLEAN]
    /\ pc \in [Present -> {"run", "park", "check", "yield", "woken", "cancel"}]
RqTypes ==
    /\ tree \in [Cpus -> SUBSET Present]
    /\ current \in [Cpus -> Present \union {Idle}]
    /\ token \in [Cpus -> Present \union {Idle, NoTask}]
    /\ parked \in [Cpus -> [task : Present \union {NoTask}, target : Cpus \union {NoTask}]]
ListTypes ==
    /\ list \in [Cpus -> Seq(Present)] /\ chain \in [Cpus -> Seq(Present)]
    /\ onList \in [Present -> BOOLEAN]
    /\ pending \in [Cpus -> BOOLEAN] /\ ipi \in [Cpus -> BOOLEAN]
CpuTypes ==
    /\ idle \in [Cpus -> {"service", "schedule", "balance", "halt"}]
    /\ at \in [Cpus -> PiSteps \union {"task", "irq", "drain", "switched", "tail", "pop", "claim", "pull"}]
    /\ wk \in [Cpus -> Works]
RestTypes ==
    /\ scene \in Scenes /\ allowed \in [Present -> (SUBSET Cpus) \ {{}}]
    /\ panic \in {"none", "owner", "owned", "unqueued", "shape", "class", "lost", "migrated"}

Types == TaskTypes /\ WaitTypes /\ RqTypes /\ ListTypes /\ CpuTypes /\ RestTypes

\* The locals of a wake or migration are set at the points that use them, the
\* switch tail runs for a parked task only, and only a drain holds a chain.
WorkSet ==
    \A c \in Cpus : /\ at[c] \in Working => wk[c].task \in Present
                    /\ at[c] \in Aimed => wk[c].target \in Cpus
ParkSet ==
    \A c \in Cpus : /\ at[c] = "tail" => parked[c] # NoPark
                    /\ parked[c] # NoPark => parked[c].task \in Present /\ parked[c].target \in Cpus
ChainSet == \A c \in Cpus : at[c] # "drain" => chain[c] = <<>>

LInv == Types /\ WorkSet /\ ParkSet /\ ChainSet

\* What a step leaves alone keeps its type.
LEMMA Frame ==
    ASSUME LInv, UNCHANGED scene
    PROVE  /\ Present' = Present /\ Works' = Works
           /\ UNCHANGED taskVars => TaskTypes'
           /\ UNCHANGED waitVars => WaitTypes'
           /\ UNCHANGED rqVars => RqTypes'
           /\ UNCHANGED <<listVars, chain, ipi>> => ListTypes'
           /\ UNCHANGED <<idle, at, wk>> => CpuTypes' /\ WorkSet'
           /\ UNCHANGED <<allowed, panic>> => RestTypes'
           /\ UNCHANGED <<at, parked>> => ParkSet'
           /\ UNCHANGED <<at, chain>> => ChainSet'
  <1>1. Present' = Present /\ Works' = Works
    BY DEF Present, Works
  <1>2. UNCHANGED taskVars => TaskTypes'
    BY <1>1 DEF LInv, Types, taskVars, TaskTypes
  <1>3. UNCHANGED waitVars => WaitTypes'
    BY <1>1 DEF LInv, Types, waitVars, WaitTypes
  <1>4. UNCHANGED rqVars => RqTypes'
    BY <1>1 DEF LInv, Types, rqVars, RqTypes
  <1>5. UNCHANGED <<listVars, chain, ipi>> => ListTypes'
    BY <1>1 DEF LInv, Types, listVars, ListTypes
  <1>6. UNCHANGED <<idle, at, wk>> => CpuTypes' /\ WorkSet'
    BY <1>1 DEF LInv, Types, CpuTypes, WorkSet
  <1>7. UNCHANGED <<allowed, panic>> => RestTypes'
    BY <1>1 DEF LInv, Types, RestTypes
  <1>8. UNCHANGED <<at, parked>> => ParkSet'
    BY <1>1 DEF LInv, ParkSet
  <1>9. UNCHANGED <<at, chain>> => ChainSet'
    BY <1>1 DEF LInv, ChainSet
  <1> QED BY <1>1, <1>2, <1>3, <1>4, <1>5, <1>6, <1>7, <1>8, <1>9

Points == PiSteps \union {"task", "irq", "drain", "switched", "tail", "pop", "claim", "pull"}
IdlePoints == {"service", "schedule", "balance", "halt"}

\* A CPU moves to another point, with new locals where it sets them.
LEMMA Moves ==
    ASSUME LInv, UNCHANGED scene, NEW c \in Cpus, NEW l \in Points, at' = [at EXCEPT ![c] = l]
    PROVE  /\ UNCHANGED parked /\ (l = "tail" => parked[c] # NoPark) => ParkSet'
           /\ UNCHANGED chain /\ (at[c] # "drain" \/ chain[c] = <<>>) => ChainSet'
           /\ \A w \in Works :
                 /\ wk' = [wk EXCEPT ![c] = w] /\ idle' \in [Cpus -> IdlePoints]
                 /\ l \in Working => w.task \in Present /\ (l \in Aimed => w.target \in Cpus)
                 => CpuTypes' /\ WorkSet'
  <1>0. Present' = Present /\ Works' = Works
    BY Frame
  <1>1. at \in [Cpus -> Points] /\ wk \in [Cpus -> Works]
    BY DEF LInv, Types, CpuTypes, Points
  <1>a. at' \in [Cpus -> Points] /\ at'[c] = l /\ \A d \in Cpus \ {c} : at'[d] = at[d]
    BY <1>1
  <1>2. ASSUME UNCHANGED parked, l = "tail" => parked[c] # NoPark PROVE ParkSet'
    BY <1>0, <1>a, <1>2 DEF LInv, ParkSet
  <1>3. ASSUME UNCHANGED chain, at[c] # "drain" \/ chain[c] = <<>> PROVE ChainSet'
    BY <1>0, <1>a, <1>3 DEF LInv, ChainSet
  <1>4. ASSUME NEW w \in Works, wk' = [wk EXCEPT ![c] = w], idle' \in [Cpus -> IdlePoints],
               l \in Working => w.task \in Present /\ (l \in Aimed => w.target \in Cpus)
        PROVE  CpuTypes' /\ WorkSet'
    <2>1. wk' \in [Cpus -> Works] /\ wk'[c] = w /\ \A d \in Cpus \ {c} : wk'[d] = wk[d]
      BY <1>1, <1>4
    <2>2. CpuTypes'
      BY <1>0, <1>a, <1>4, <2>1 DEF CpuTypes, Points, IdlePoints
    <2>3. Aimed \subseteq Working
      BY DEF Aimed, Working
    <2>4. WorkSet'
      BY <1>0, <1>a, <1>4, <2>1, <2>3 DEF LInv, WorkSet
    <2> QED BY <2>2, <2>4
  <1> QED BY <1>2, <1>3, <1>4

\* The end of a wake or migration.
LEMMA DoneType ==
    ASSUME LInv, UNCHANGED scene, NEW c \in Cpus, Done(c), idle' \in [Cpus -> IdlePoints], at[c] # "drain"
    PROVE  /\ CpuTypes' /\ WorkSet'
           /\ UNCHANGED parked => ParkSet'
           /\ UNCHANGED chain => ChainSet'
  <1>1. NoWork \in Works
    BY DEF NoWork, Works
  <1>2. Return(c) \in Points /\ Return(c) \notin Working \union {"tail"}
    BY DEF Return, Points, PiSteps, Working, Aimed
  <1>3. at' = [at EXCEPT ![c] = Return(c)] /\ wk' = [wk EXCEPT ![c] = NoWork]
    BY DEF Done
  <1> QED BY <1>1, <1>2, <1>3, Moves, Zenon

\* A step of a wake that keeps the CPU's idle loop where it is.
LEMMA GotoType ==
    ASSUME LInv, UNCHANGED scene, NEW c \in Cpus, NEW from, NEW l \in Points, Goto(c, from, l),
           from # "drain", l # "tail", UNCHANGED <<parked, chain, idle>>,
           NEW w \in Works, wk' = [wk EXCEPT ![c] = w],
           l \in Working => w.task \in Present /\ (l \in Aimed => w.target \in Cpus)
    PROVE  CpuTypes' /\ WorkSet' /\ ParkSet' /\ ChainSet'
  <1>1. at' = [at EXCEPT ![c] = l] /\ at[c] = from
    BY DEF Goto
  <1>2. idle' \in [Cpus -> IdlePoints]
    BY DEF LInv, Types, CpuTypes, IdlePoints
  <1> QED BY <1>1, <1>2, Moves, Zenon

\* The locals of the CPU at the steps of a wake.
LEMMA AtWork ==
    ASSUME LInv, NEW c \in Cpus
    PROVE  /\ wk[c] \in Works /\ wk = [wk EXCEPT ![c] = wk[c]]
           /\ at[c] \in Working => wk[c].task \in Present
           /\ at[c] \in Aimed => wk[c].target \in Cpus
           /\ idle \in [Cpus -> IdlePoints]
  BY DEF LInv, Types, CpuTypes, WorkSet, IdlePoints

LEMMA EnqueueType ==
    ASSUME LInv, NEW c \in Cpus, NEW t \in Present, EnqueueRaw(c, t)
    PROVE  /\ state' \in [Present -> {"Runnable", "Sleeping", "Waking"}]
           /\ onRq' \in [Present -> {"off", "queued", "migrating"}]
           /\ tree' \in [Cpus -> SUBSET Present]
  BY DEF EnqueueRaw, CompleteWake, LInv, Types, TaskTypes, RqTypes

\* A chosen CPU is a CPU.
LEMMA ChosenCpu ==
    ASSUME LInv, NEW t \in Present, NEW c \in Cpus, NEW p
    PROVE  SelectTaskRq(c, t) \subseteq Cpus /\ Destination(t, p) \subseteq Cpus
  <1>1. allowed[t] \subseteq Cpus /\ cpu[t] \in Cpus
    BY Zenon DEF LInv, Types, TaskTypes, RestTypes
  <1> QED BY <1>1 DEF SelectTaskRq, Destination

LEMMA TaskStepType ==
    ASSUME LInv, UNCHANGED scene, NEW c \in Cpus, NEW t \in Present, TaskStep(c, t)
    PROVE  LInv'
  <1>1. UNCHANGED <<onRq, onCpu, cpu, rqVars, listVars, cpuVars, ipi, allowed, panic>>
    BY DEF TaskStep
  <1>a. /\ state' = state \/ \E s \in {"Runnable", "Sleeping"} : state' = [state EXCEPT ![t] = s]
        /\ cond' = cond \/ cond' = [cond EXCEPT ![t] = FALSE]
        /\ listed' = listed \/ \E b \in BOOLEAN : listed' = [listed EXCEPT ![t] = b]
    BY Zenon DEF TaskStep, Park, Recheck, Woken, CancelPark, WaitEvent
  <1>b. \E l \in {"run", "park", "check", "yield", "woken", "cancel"} : pc' = [pc EXCEPT ![t] = l]
    <2>1. CASE cond[t]
      BY <2>1 DEF TaskStep, Park, Recheck, Woken, CancelPark, WaitEvent, Step
    <2>2. CASE ~cond[t]
      BY <2>2, Zenon DEF TaskStep, Park, Recheck, Woken, CancelPark, WaitEvent, Step
    <2> QED BY <2>1, <2>2
  <1>c. TaskTypes'
    BY <1>1, <1>a, Frame DEF LInv, Types, TaskTypes
  <1>d. cond' \in [Present -> BOOLEAN] /\ listed' \in [Present -> BOOLEAN]
    BY <1>a, ZenonT(60) DEF LInv, Types, WaitTypes
  <1>e. pc' \in [Present -> {"run", "park", "check", "yield", "woken", "cancel"}]
    BY <1>b DEF LInv, Types, WaitTypes
  <1>2. TaskTypes' /\ WaitTypes'
    BY <1>c, <1>d, <1>e, Frame DEF WaitTypes
  <1> QED
    BY <1>1, <1>2, Frame DEF LInv, Types, cpuVars, rqVars

LEMMA PopType ==
    ASSUME LInv, UNCHANGED scene, NEW c \in Cpus, Pop(c)
    PROVE  LInv'
  <1>1. at[c] = "pop" /\ wk[c].task \in Present
    BY AtWork, Zenon DEF Pop, Working
  <1>2. WaitTypes'
    BY <1>1, Frame, Zenon DEF LInv, Types, WaitTypes, Pop
  <1>3. CpuTypes' /\ WorkSet' /\ ParkSet' /\ ChainSet'
    <2>1. CASE listed[wk[c].task]
      <3>1. Goto(c, "pop", "claim") /\ UNCHANGED wk /\ UNCHANGED <<parked, chain, idle>>
        BY <2>1 DEF Pop, rqVars
      <3> QED BY <1>1, <3>1, AtWork, GotoType DEF Points, PiSteps, Working, Aimed
    <2>2. CASE ~listed[wk[c].task]
      <3>1. Done(c) /\ UNCHANGED <<parked, chain, idle>>
        BY <2>2, Zenon DEF Pop, rqVars
      <3> QED BY <1>1, <3>1, AtWork, DoneType
    <2> QED BY <2>1, <2>2
  <1> QED
    BY <1>2, <1>3, Frame DEF LInv, Types, Pop

LEMMA ClaimType ==
    ASSUME LInv, UNCHANGED scene, NEW c \in Cpus, Claim(c)
    PROVE  LInv'
  <1>1. at[c] = "claim" /\ wk[c].task \in Present
    BY AtWork, Zenon DEF Claim, Working
  <1>2. TaskTypes'
    BY <1>1, Frame, ZenonT(60) DEF LInv, Types, TaskTypes, Claim
  <1>3. CpuTypes' /\ WorkSet' /\ ParkSet' /\ ChainSet'
    <2>1. CASE state[wk[c].task] = "Sleeping"
      <3>1. Goto(c, "claim", "select") /\ UNCHANGED wk /\ UNCHANGED <<parked, chain, idle>>
        BY <2>1 DEF Claim, rqVars
      <3> QED BY <1>1, <3>1, AtWork, GotoType, Zenon DEF Points, PiSteps, Working, Aimed
    <2>2. CASE state[wk[c].task] # "Sleeping"
      <3>1. Done(c) /\ UNCHANGED <<parked, chain, idle>>
        BY <2>2 DEF Claim, rqVars
      <3> QED BY <1>1, <3>1, AtWork, DoneType, Zenon
    <2> QED BY <2>1, <2>2
  <1> QED
    BY <1>2, <1>3, Frame DEF LInv, Types, Claim

LEMMA SelectType ==
    ASSUME LInv, UNCHANGED scene, NEW c \in Cpus, SelectTarget(c)
    PROVE  LInv'
  <1>1. at[c] = "select" /\ wk[c] \in Works /\ wk[c].task \in Present
    BY AtWork DEF SelectTarget, Goto, PiSteps, Working, Aimed
  <1>2. PICK d \in IF onCpu[wk[c].task] THEN {cpu[wk[c].task]} ELSE SelectTaskRq(c, wk[c].task) :
            wk' = [wk EXCEPT ![c].target = d]
    BY Zenon DEF SelectTarget
  <1>3. d \in Cpus
    BY <1>1, <1>2, ChosenCpu, ZenonT(60) DEF LInv, Types, TaskTypes
  <1> DEFINE w == [wk[c] EXCEPT !.target = d]
  <1>4. w \in Works /\ w.task = wk[c].task /\ w.target = d /\ wk' = [wk EXCEPT ![c] = w]
    BY <1>1, <1>2, <1>3 DEF Works
  <1>5. Goto(c, "select", "decide") /\ UNCHANGED <<parked, chain, idle>>
    BY DEF SelectTarget, rqVars
  <1> HIDE DEF w
  <1>6. CpuTypes' /\ WorkSet' /\ ParkSet' /\ ChainSet'
    BY <1>1, <1>3, <1>4, <1>5, GotoType, Zenon DEF Points, PiSteps, Working, Aimed
  <1> QED
    BY <1>6, Frame DEF LInv, Types, SelectTarget

LEMMA DeferType ==
    ASSUME LInv, UNCHANGED scene, NEW c \in Cpus, Defer(c)
    PROVE  LInv'
  <1>1. at[c] = "decide" /\ wk[c] \in Works /\ wk[c].task \in Present /\ wk[c].target \in Cpus
    BY AtWork DEF Defer, PiSteps, Working, Aimed
  <1>2. UNCHANGED <<state, onRq, onCpu, waitVars, rqVars, chain, idle, ipi, allowed, panic>>
    BY Zenon DEF Defer
  <1>3. TaskTypes'
    BY <1>1, <1>2, Frame DEF LInv, Types, TaskTypes, Defer
  <1>4. ListTypes' /\ CpuTypes' /\ WorkSet' /\ ParkSet' /\ ChainSet'
    <2>1. CASE onList[wk[c].task]
      <3>1. Done(c) /\ UNCHANGED <<parked, chain, idle>> /\ UNCHANGED <<listVars, chain, ipi>>
        BY <2>1, <1>2 DEF Defer, rqVars
      <3> QED BY <1>1, <3>1, AtWork, DoneType, Frame
    <2>2. CASE ~onList[wk[c].task]
      <3> DEFINE w == [wk[c] EXCEPT !.kick = ~pending[wk[c].target]]
      <3>1. /\ onList' = [onList EXCEPT ![wk[c].task] = TRUE]
            /\ pending' = [pending EXCEPT ![wk[c].target] = TRUE]
            /\ wk' = [wk EXCEPT ![c].kick = ~pending[wk[c].target]]
            /\ Goto(c, "decide", "link") /\ UNCHANGED list
        BY <2>2, Zenon DEF Defer
      <3>2. ListTypes'
        BY <1>1, <1>2, <3>1, Frame DEF LInv, Types, ListTypes
      <3>3. w \in Works /\ w.task = wk[c].task /\ w.target = wk[c].target
        BY <1>1, Zenon DEF Works
      <3>4. wk' = [wk EXCEPT ![c] = w]
        BY <3>1
      <3> HIDE DEF w
      <3>5. CpuTypes' /\ WorkSet' /\ ParkSet' /\ ChainSet'
        BY <1>1, <1>2, <3>1, <3>3, <3>4, GotoType, ZenonT(60) DEF Points, PiSteps, Working, Aimed, rqVars
      <3> QED BY <3>2, <3>5
    <2> QED BY <2>1, <2>2, Zenon
  <1> QED
    BY <1>2, <1>3, <1>4, Frame DEF LInv, Types

LEMMA LinkType ==
    ASSUME LInv, UNCHANGED scene, NEW c \in Cpus, Link(c)
    PROVE  LInv'
  <1>1. at[c] = "link" /\ wk[c] \in Works /\ wk[c].task \in Present /\ wk[c].target \in Cpus
    BY AtWork, ZenonT(60) DEF Link, Goto, PiSteps, Working, Aimed
  <1>2. ListTypes'
    BY <1>1, Frame DEF LInv, Types, ListTypes, Link
  <1>3. Goto(c, "link", "recheck") /\ UNCHANGED wk /\ UNCHANGED <<parked, chain, idle>>
    BY Zenon DEF Link, rqVars
  <1>4. CpuTypes' /\ WorkSet' /\ ParkSet' /\ ChainSet'
    BY <1>1, <1>3, AtWork, GotoType, Zenon DEF Points, PiSteps, Working, Aimed
  <1> QED
    BY <1>2, <1>4, Frame DEF LInv, Types, Link

LEMMA KickType ==
    ASSUME LInv, UNCHANGED scene, NEW c \in Cpus, Kick(c)
    PROVE  LInv'
  <1>1. at[c] = "recheck" /\ wk[c].task \in Present /\ wk[c].target \in Cpus
    BY AtWork DEF Kick, PiSteps, Working, Aimed
  <1>2. /\ pending \in [Cpus -> BOOLEAN] /\ ipi \in [Cpus -> BOOLEAN]
        /\ wk[c].kick \in BOOLEAN
    BY AtWork DEF LInv, Types, ListTypes, Works
  <1>3. pending' \in [Cpus -> BOOLEAN] /\ ipi' \in [Cpus -> BOOLEAN]
    BY <1>1, <1>2, Zenon DEF Kick
  <1>4. ListTypes'
    BY <1>3, Frame, Zenon DEF LInv, Types, ListTypes, Kick
  <1>5. Done(c) /\ UNCHANGED <<parked, chain, idle>>
    BY DEF Kick, rqVars
  <1>6. CpuTypes' /\ WorkSet' /\ ParkSet' /\ ChainSet'
    BY <1>1, <1>5, AtWork, DoneType
  <1> QED
    BY <1>4, <1>6, Frame, Zenon DEF LInv, Types, Kick

LEMMA PlaceType ==
    ASSUME LInv, UNCHANGED scene, NEW c \in Cpus, Direct(c) \/ Place(c)
    PROVE  LInv'
  <1>1. CASE Direct(c)
    <2>1. at[c] = "decide" /\ wk[c] \in Works /\ wk[c].task \in Present /\ wk[c].target \in Cpus
      BY <1>1, AtWork DEF Direct, PiSteps, Working, Aimed
    <2>2. Goto(c, "decide", "place") /\ UNCHANGED wk /\ UNCHANGED <<parked, chain, idle>>
      BY <1>1 DEF Direct, rqVars
    <2>3. CpuTypes' /\ WorkSet' /\ ParkSet' /\ ChainSet'
      BY <2>1, <2>2, AtWork, GotoType, ZenonT(60) DEF Points, PiSteps, Working, Aimed
    <2> QED BY <1>1, <2>3, Frame, Zenon DEF LInv, Types, Direct
  <1>2. CASE Place(c)
    <2>1. at[c] = "place" /\ wk[c].task \in Present
      BY <1>2, AtWork, Zenon DEF Place, PiSteps, Working, Aimed
    <2>2. TaskTypes' /\ RqTypes'
      BY <1>2, <2>1, EnqueueType, Frame, Zenon DEF LInv, Types, TaskTypes, RqTypes, Place
    <2>3. Done(c) /\ UNCHANGED <<parked, chain, idle>>
      BY <1>2, Zenon DEF Place
    <2>4. CpuTypes' /\ WorkSet' /\ ParkSet' /\ ChainSet'
      BY <2>1, <2>3, AtWork, DoneType
    <2> QED BY <1>2, <2>2, <2>4, Frame DEF LInv, Types, Place
  <1> QED BY <1>1, <1>2, Zenon

LEMMA TtwuType ==
    ASSUME LInv, UNCHANGED scene, NEW c \in Cpus, Ttwu(c)
    PROVE  LInv'
  BY PopType, ClaimType, SelectType, DeferType, LinkType, KickType, PlaceType DEF Ttwu

\* wake_list_take, whichever path runs it.
LEMMA TakeListType ==
    ASSUME LInv, UNCHANGED scene, NEW c \in Cpus, at[c] \in {"task", "irq"}, TakeList(c),
           idle' \in [Cpus -> IdlePoints], ipi' \in [Cpus -> BOOLEAN]
    PROVE  LInv'
  <1> DEFINE l == IF list[c] = <<>> THEN "task" ELSE "drain"
  <1>1. l \in Points /\ l \notin Working \union {"tail"}
    BY Zenon DEF Points, PiSteps, Working, Aimed
  <1>2. at' = [at EXCEPT ![c] = l] /\ UNCHANGED <<wk, parked>>
    BY DEF TakeList, rqVars
  <1>3. chain' = [chain EXCEPT ![c] = list[c]]
    BY Zenon DEF TakeList
  <1>a. list' \in [Cpus -> Seq(Present)] /\ chain' \in [Cpus -> Seq(Present)]
    BY <1>3 DEF LInv, Types, ListTypes, TakeList
  <1>4. ListTypes'
    BY <1>a, Frame, ZenonT(60) DEF LInv, Types, ListTypes, TakeList
  <1>5. ChainSet'
    BY <1>2, <1>3, Frame DEF LInv, Types, ListTypes, CpuTypes, ChainSet
  <1> HIDE DEF l
  <1>6. CpuTypes' /\ WorkSet' /\ ParkSet'
    BY <1>1, <1>2, AtWork, Moves, Zenon
  <1> QED
    BY <1>4, <1>5, <1>6, Frame, Zenon DEF LInv, Types, TakeList

LEMMA HaltType ==
    ASSUME LInv, NEW c \in Cpus, LeaveHalt(c)
    PROVE  idle' \in [Cpus -> IdlePoints]
  BY DEF LInv, Types, CpuTypes, LeaveHalt, IdlePoints

LEMMA TakersType ==
    ASSUME LInv, UNCHANGED scene, NEW c \in Cpus, Tick(c) \/ Ipi(c) \/ IrqExit(c) \/ IdleService(c)
    PROVE  LInv'
  <1>0. ipi \in [Cpus -> BOOLEAN] /\ idle \in [Cpus -> IdlePoints]
    BY Zenon DEF LInv, Types, ListTypes, CpuTypes, IdlePoints
  <1>1. at[c] \in {"task", "irq"} /\ TakeList(c)
    BY DEF Tick, Ipi, IrqExit, IdleService
  <1>2. ipi' \in [Cpus -> BOOLEAN]
    BY <1>0, Zenon DEF Tick, Ipi, IrqExit, IdleService
  <1>3. idle' \in [Cpus -> IdlePoints]
    BY <1>0, HaltType DEF Tick, Ipi, IrqExit, IdleService, IdlePoints
  <1> QED BY <1>1, <1>2, <1>3, TakeListType, Zenon

\* The head of a chain that is not empty.
LEMMA ChainHead ==
    ASSUME LInv, NEW c \in Cpus, chain[c] # <<>>
    PROVE  Head(chain[c]) \in Present /\ Tail(chain[c]) \in Seq(Present)
  BY DEF LInv, Types, ListTypes

LEMMA ActivateType ==
    ASSUME LInv, UNCHANGED scene, NEW c \in Cpus, Activate(c)
    PROVE  LInv'
  <1> DEFINE t == Head(chain[c])
  <1>1. at[c] = "drain" /\ t \in Present /\ Tail(chain[c]) \in Seq(Present)
    BY ChainHead, Zenon DEF Activate
  <1>2. UNCHANGED <<onCpu, cpu, waitVars, current, token, parked, list, pending, idle, at, wk, ipi, allowed, panic>>
    BY ZenonT(60) DEF Activate
  <1>3. chain' = [chain EXCEPT ![c] = Tail(@)] /\ onList' = [onList EXCEPT ![t] = FALSE]
    BY DEF Activate
  <1>4. \/ state' = [state EXCEPT ![t] = CompleteWake(@)] /\ UNCHANGED <<onRq, tree>>
        \/ EnqueueRaw(c, t)
    BY ZenonT(60) DEF Activate
  <1> HIDE DEF t
  <1>5. TaskTypes' /\ RqTypes'
    BY <1>1, <1>2, <1>4, EnqueueType, Frame DEF LInv, Types, TaskTypes, RqTypes, CompleteWake
  <1>6. ListTypes' /\ ChainSet'
    BY <1>1, <1>2, <1>3, Frame, ZenonT(60) DEF LInv, Types, ListTypes, ChainSet
  <1> QED
    BY <1>2, <1>5, <1>6, Frame, Zenon DEF LInv, Types

LEMMA RequeueType ==
    ASSUME LInv, UNCHANGED scene, NEW c \in Cpus, Requeue(c)
    PROVE  LInv'
  <1>1. at[c] = "drain" /\ Head(chain[c]) \in Present /\ Tail(chain[c]) \in Seq(Present)
    BY ChainHead, ZenonT(60) DEF Requeue
  <1>2. ListTypes' /\ ChainSet'
    <2>1. /\ list' = [list EXCEPT ![c] = <<Head(chain[c])>> \o @] /\ chain' = [chain EXCEPT ![c] = Tail(@)]
          /\ pending' = [pending EXCEPT ![c] = TRUE] /\ UNCHANGED <<onList, ipi, at>>
      BY Zenon DEF Requeue
    <2>2. list \in [Cpus -> Seq(Present)] /\ chain \in [Cpus -> Seq(Present)]
      BY Zenon DEF LInv, Types, ListTypes
    <2> DEFINE l == <<Head(chain[c])>> \o list[c]
               r == Tail(chain[c])
    <2>3. l \in Seq(Present) /\ r \in Seq(Present)
      BY <1>1, <2>2
    <2>4. list' = [list EXCEPT ![c] = l] /\ chain' = [chain EXCEPT ![c] = r]
      BY <2>1, Zenon
    <2> HIDE DEF l, r
    <2>5. list' \in [Cpus -> Seq(Present)] /\ chain' \in [Cpus -> Seq(Present)]
      BY <2>2, <2>3, <2>4, ZenonT(60)
    <2>6. ListTypes'
      <3>1. /\ onList \in [Present -> BOOLEAN] /\ pending \in [Cpus -> BOOLEAN] /\ ipi \in [Cpus -> BOOLEAN]
            /\ Present' = Present
        BY Frame, Zenon DEF LInv, Types, ListTypes
      <3>2. pending' \in [Cpus -> BOOLEAN]
        BY <2>1, <3>1, ZenonT(60)
      <3> QED BY <2>1, <2>5, <3>1, <3>2, ZenonT(60) DEF ListTypes
    <2>7. \A d \in Cpus \ {c} : chain'[d] = chain[d]
      BY <2>2, <2>4, ZenonT(60)
    <2>8. ChainSet'
      BY <1>1, <2>1, <2>7, ZenonT(60) DEF LInv, ChainSet
    <2> QED BY <2>6, <2>8, Zenon
  <1> QED
    BY <1>2, Frame DEF LInv, Types, Requeue, rqVars

\* A failed assertion changes nothing but panic.
LEMMA PanicType ==
    ASSUME LInv, UNCHANGED scene,
           NEW p \in {"owner", "owned", "unqueued", "shape", "class", "lost", "migrated"}, Panic(p)
    PROVE  LInv'
  <1>1. RestTypes'
    BY Frame DEF LInv, Types, RestTypes, Panic
  <1> QED BY <1>1, Frame, Zenon DEF LInv, Types, Panic, cpuVars, rqVars

LEMMA ServiceType ==
    ASSUME LInv, UNCHANGED scene, NEW c \in Cpus, Service(c)
    PROVE  LInv'
  <1>1. CASE FinishDrain(c)
    <2>1. ListTypes'
      BY <1>1, Frame, Zenon DEF LInv, Types, ListTypes, FinishDrain
    <2>2. at' = [at EXCEPT ![c] = "task"] /\ chain[c] = <<>> /\ UNCHANGED <<parked, chain, idle, wk>>
      BY <1>1 DEF FinishDrain, Goto, rqVars
    <2>3. CpuTypes' /\ WorkSet' /\ ParkSet' /\ ChainSet'
      <3>1. wk' = [wk EXCEPT ![c] = wk[c]] /\ wk[c] \in Works /\ idle' \in [Cpus -> IdlePoints]
        BY <2>2, AtWork
      <3>2. "task" \in Points /\ "task" \notin Working \union {"tail"}
        BY DEF Points, PiSteps, Working, Aimed
      <3> QED BY <2>2, <3>1, <3>2, Moves, Zenon
    <2> QED BY <1>1, <2>1, <2>3, Frame DEF LInv, Types, FinishDrain
  <1>2. CASE StrayWake(c)
    BY <1>2, PanicType, ZenonT(60) DEF StrayWake
  <1> QED
    BY <1>1, <1>2, TakersType, ActivateType, RequeueType, ZenonT(60) DEF Service

\* Where the outgoing task goes: what put_prev_task leaves behind.
LEMMA PutPrevType ==
    ASSUME LInv, UNCHANGED scene, NEW c \in Cpus, PutPrev(c), at[c] = "task"
    PROVE  /\ state' \in [Present -> {"Runnable", "Sleeping", "Waking"}]
           /\ onRq' \in [Present -> {"off", "queued", "migrating"}]
           /\ parked' \in [Cpus -> [task : Present \union {NoTask}, target : Cpus \union {NoTask}]]
           /\ pc' \in [Present -> {"run", "park", "check", "yield", "woken", "cancel"}]
           /\ idle' \in [Cpus -> IdlePoints]
           /\ \A d \in Cpus : \/ parked'[d] = parked[d]
                              \/ d = c /\ parked'[d].task \in Present /\ parked'[d].target \in Cpus
  <1>0. /\ state \in [Present -> {"Runnable", "Sleeping", "Waking"}]
        /\ onRq \in [Present -> {"off", "queued", "migrating"}]
        /\ parked \in [Cpus -> [task : Present \union {NoTask}, target : Cpus \union {NoTask}]]
        /\ pc \in [Present -> {"run", "park", "check", "yield", "woken", "cancel"}]
        /\ idle \in [Cpus -> IdlePoints]
    BY Zenon DEF LInv, Types, TaskTypes, RqTypes, WaitTypes, CpuTypes, IdlePoints
  <1>1. state' \in [Present -> {"Runnable", "Sleeping", "Waking"}]
    BY <1>0, Zenon DEF PutPrev, CompleteWake, PutBack, StaysRunnable
  <1>2. onRq' \in [Present -> {"off", "queued", "migrating"}]
    BY <1>0, Zenon DEF PutPrev
  <1>3. pc' \in [Present -> {"run", "park", "check", "yield", "woken", "cancel"}]
    BY <1>0, Zenon DEF PutPrev
  <1>4. idle' \in [Cpus -> IdlePoints]
    BY <1>0, ZenonT(60) DEF PutPrev, IdlePoints
  <1>5. CASE Evicted(c)
    <2>1. current[c] \in Present
      BY <1>5, Zenon DEF Evicted, StaysRunnable
    <2>2. PICK d \in SelectTaskRq(c, current[c]) : parked' = [parked EXCEPT ![c] = [task |-> current[c], target |-> d]]
      BY <1>5, Zenon DEF PutPrev
    <2>3. d \in Cpus
      BY <2>1, <2>2, ChosenCpu
    <2> QED BY <1>0, <1>1, <1>2, <1>3, <1>4, <2>1, <2>2, <2>3
  <1>6. CASE ~Evicted(c)
    <2>1. parked' = parked
      BY <1>6, ZenonT(60) DEF PutPrev
    <2> QED BY <1>0, <1>1, <1>2, <1>3, <1>4, <2>1, Zenon
  <1> QED BY <1>5, <1>6

LEMMA ReadyType ==
    ASSUME LInv, NEW c \in Cpus
    PROVE  Requeued(c) \subseteq Present /\ Ready(c) \subseteq Present
  <1>1. tree[c] \subseteq Present
    BY ZenonT(60) DEF LInv, Types, RqTypes
  <1> QED BY <1>1 DEF Ready, Requeued, PutBack, StaysRunnable

LEMMA SwitchType ==
    ASSUME LInv, UNCHANGED scene, NEW c \in Cpus, NEW next \in Present \union {Idle}, Switch(c, next)
    PROVE  LInv'
  <1>1. at[c] = "task" /\ PutPrev(c) /\ UNCHANGED <<chain, wk>> /\ at' = [at EXCEPT ![c] = "switched"]
    BY Zenon DEF Switch, MaySchedule, Goto
  <1>2. onCpu' \in [Present -> BOOLEAN] /\ cpu' \in [Present -> Cpus]
    BY Zenon DEF Switch, LInv, Types, TaskTypes
  <1>3. TaskTypes'
    BY <1>1, <1>2, PutPrevType, Frame, Zenon DEF TaskTypes
  <1>4. /\ tree' \in [Cpus -> SUBSET Present] /\ current' \in [Cpus -> Present \union {Idle}]
        /\ token' \in [Cpus -> Present \union {Idle, NoTask}]
    BY ReadyType, ZenonT(60) DEF Switch, LInv, Types, RqTypes
  <1>5. RqTypes'
    BY <1>1, <1>4, PutPrevType, Frame DEF RqTypes
  <1>6. WaitTypes'
    BY <1>1, PutPrevType, Frame, Zenon DEF WaitTypes, LInv, Types, Switch
  <1>7. "switched" \in Points /\ "switched" \notin Working \union {"tail"}
    BY Zenon DEF Points, PiSteps, Working, Aimed
  <1>8. wk' = [wk EXCEPT ![c] = wk[c]] /\ wk[c] \in Works
    BY <1>1, AtWork
  <1>9. CpuTypes' /\ WorkSet' /\ ChainSet'
    BY <1>1, <1>7, <1>8, PutPrevType, Moves, Zenon
  <1>10. ParkSet'
    <2>1. \A d \in Cpus : at'[d] = "tail" => at[d] = "tail" /\ d # c
      BY <1>1 DEF LInv, Types, CpuTypes
    <2> QED BY <2>1, <1>1, PutPrevType, Frame, Zenon DEF LInv, ParkSet
  <1> QED
    BY <1>3, <1>5, <1>6, <1>9, <1>10, Frame DEF LInv, Types, Switch

LEMMA StayType ==
    ASSUME LInv, UNCHANGED scene, NEW c \in Cpus, Stay(c)
    PROVE  LInv'
  <1>1. at[c] = "task" /\ PutPrev(c) /\ UNCHANGED <<chain, wk, at>>
    BY Zenon DEF Stay, MaySchedule
  <1>2. onCpu' \in [Present -> BOOLEAN] /\ cpu' \in [Present -> Cpus]
    BY Zenon DEF Stay, LInv, Types, TaskTypes
  <1>3. TaskTypes'
    BY <1>1, <1>2, PutPrevType, Frame, Zenon DEF TaskTypes
  <1>4. /\ tree' \in [Cpus -> SUBSET Present] /\ current' \in [Cpus -> Present \union {Idle}]
        /\ token' \in [Cpus -> Present \union {Idle, NoTask}]
    BY ReadyType, ZenonT(60) DEF Stay, LInv, Types, RqTypes
  <1>5. RqTypes'
    BY <1>1, <1>4, PutPrevType, Frame DEF RqTypes
  <1>6. WaitTypes'
    BY <1>1, PutPrevType, Frame, Zenon DEF WaitTypes, LInv, Types, Stay
  <1>9. CpuTypes' /\ WorkSet' /\ ChainSet'
    BY <1>1, PutPrevType, Frame, ZenonT(60) DEF LInv, Types, CpuTypes, WorkSet, IdlePoints
  <1>10. ParkSet'
    BY <1>1, PutPrevType, Frame DEF LInv, ParkSet
  <1> QED
    BY <1>3, <1>5, <1>6, <1>9, <1>10, Frame, ZenonT(60) DEF LInv, Types, Stay

LEMMA ScheduleType ==
    ASSUME LInv, UNCHANGED scene, NEW c \in Cpus, Schedule(c)
    PROVE  LInv'
  <1>1. CASE PickedOwned(c) \/ PickedUnqueued(c)
    BY <1>1, PanicType, ZenonT(60) DEF PickedOwned, PickedUnqueued
  <1> QED
    BY <1>1, SwitchType, StayType, Zenon DEF Schedule

LEMMA FinishType ==
    ASSUME LInv, UNCHANGED scene, NEW c \in Cpus, FinishSwitch(c)
    PROVE  LInv'
  <1> DEFINE l == IF parked[c] = NoPark THEN "task" ELSE "tail"
  <1>1. /\ at[c] = "switched" /\ at' = [at EXCEPT ![c] = l] /\ UNCHANGED <<parked, chain, idle, wk>>
        /\ l \in Points /\ l \notin Working /\ (l = "tail" => parked[c] # NoPark)
    BY Zenon DEF FinishSwitch, Goto, Points, PiSteps, Working, Aimed
  <1>2. TaskTypes' /\ RqTypes'
    BY Frame, Zenon DEF FinishSwitch, LInv, Types, TaskTypes, RqTypes
  <1>3. wk' = [wk EXCEPT ![c] = wk[c]] /\ wk[c] \in Works /\ idle' \in [Cpus -> IdlePoints]
    BY <1>1, AtWork
  <1> HIDE DEF l
  <1>4. CpuTypes' /\ WorkSet' /\ ParkSet' /\ ChainSet'
    BY <1>1, <1>3, Moves, ZenonT(60)
  <1> QED
    BY <1>2, <1>4, Frame DEF LInv, Types, FinishSwitch

\* The locals of a migration.
LEMMA MovingType ==
    ASSUME NEW t \in Present, NEW d \in Cpus, NEW k \in BOOLEAN
    PROVE  Moving(t, d, k) \in Works /\ Moving(t, d, k).task = t /\ Moving(t, d, k).target = d
  BY DEF Moving, Works

LEMMA TailType ==
    ASSUME LInv, UNCHANGED scene, NEW c \in Cpus, SwitchTail(c)
    PROVE  LInv'
  <1> DEFINE p == parked[c].task
  <1>1. at[c] = "tail" /\ p \in Present /\ UNCHANGED <<chain, idle>> /\ at' = [at EXCEPT ![c] = "attach"]
    BY Zenon DEF SwitchTail, Goto, LInv, ParkSet
  <1>2. PICK d \in Destination(p, parked[c].target) :
            cpu' = [cpu EXCEPT ![p] = d] /\ wk' = [wk EXCEPT ![c] = Moving(p, d, TRUE)]
    BY Zenon DEF SwitchTail
  <1>3. d \in Cpus
    BY <1>1, <1>2, ChosenCpu
  <1>4. TaskTypes'
    BY <1>1, <1>2, <1>3, Frame, Zenon DEF SwitchTail, LInv, Types, TaskTypes
  <1>5. parked' = [parked EXCEPT ![c] = NoPark] /\ NoPark \in [task : Present \union {NoTask}, target : Cpus \union {NoTask}]
    BY Zenon DEF SwitchTail, NoPark
  <1>6. RqTypes'
    <2>1. parked' \in [Cpus -> [task : Present \union {NoTask}, target : Cpus \union {NoTask}]]
      BY <1>5 DEF LInv, Types, RqTypes
    <2> QED BY <2>1, Frame, Zenon DEF SwitchTail, LInv, Types, RqTypes
  <1>7. ParkSet'
    <2>1. at'[c] = "attach" /\ \A e \in Cpus \ {c} : at'[e] = at[e] /\ parked'[e] = parked[e]
      BY <1>1, <1>5, Zenon DEF LInv, Types, RqTypes, CpuTypes
    <2>2. parked'[c] = NoPark
      BY <1>5, Zenon DEF LInv, Types, RqTypes
    <2> QED BY <2>1, <2>2, Frame, ZenonT(60) DEF LInv, ParkSet
  <1>8. CpuTypes' /\ WorkSet' /\ ChainSet'
    <2>1. "attach" \in Points /\ idle' \in [Cpus -> IdlePoints]
      BY <1>1, AtWork DEF Points, PiSteps
    <2>2. /\ Moving(p, d, TRUE) \in Works
          /\ Moving(p, d, TRUE).task \in Present /\ Moving(p, d, TRUE).target \in Cpus
      BY <1>1, <1>3, MovingType, Zenon
    <2> HIDE DEF p
    <2> QED BY <1>1, <1>2, <2>1, <2>2, Moves, Zenon
  <1> QED
    BY <1>4, <1>6, <1>7, <1>8, Frame, Zenon DEF LInv, Types, SwitchTail

LEMMA BalanceType ==
    ASSUME LInv, UNCHANGED scene, NEW c \in Cpus, Balance(c)
    PROVE  LInv'
  <1>1. at[c] = "task" /\ idle' = [idle EXCEPT ![c] = "halt"] /\ UNCHANGED <<parked, chain>>
    BY Zenon DEF Balance, rqVars
  <1>2. idle' \in [Cpus -> IdlePoints]
    BY <1>1, AtWork, ZenonT(60) DEF IdlePoints
  <1>3. CASE at' = [at EXCEPT ![c] = "pull"] /\ \E t \in Victims(c) : wk' = [wk EXCEPT ![c] = Moving(t, c, FALSE)]
    <2>1. PICK t \in Victims(c) : wk' = [wk EXCEPT ![c] = Moving(t, c, FALSE)]
      BY <1>3, Zenon
    <2>2. t \in Present
      BY <2>1 DEF Victims
    <2>3. "pull" \in Points
      BY DEF Points
    <2>4. CpuTypes' /\ WorkSet' /\ ParkSet' /\ ChainSet'
      <3>1. Moving(t, c, FALSE) \in Works /\ Moving(t, c, FALSE).task \in Present /\ Moving(t, c, FALSE).target \in Cpus
        BY <2>2, MovingType, Zenon
      <3> QED BY <1>1, <1>2, <1>3, <2>1, <2>3, <3>1, Moves, ZenonT(60)
    <2> QED BY <2>4, Frame DEF LInv, Types, Balance
  <1>4. CASE UNCHANGED <<at, wk>>
    <2>1. CpuTypes' /\ WorkSet'
      BY <1>2, <1>4, Frame DEF LInv, Types, CpuTypes, WorkSet, IdlePoints
    <2> QED BY <1>1, <1>4, <2>1, Frame, Zenon DEF LInv, Types, Balance
  <1> QED BY <1>3, <1>4, Zenon DEF Balance

LEMMA MoveType ==
    ASSUME LInv, UNCHANGED scene, NEW c \in Cpus, Move(c)
    PROVE  LInv'
  <1> DEFINE t == wk[c].task
             from == cpu[t]
  <1>1. at[c] = "move" /\ wk[c] \in Works /\ t \in Present /\ wk[c].target \in Cpus
    BY AtWork, ZenonT(60) DEF Move, PiSteps, Working, Aimed
  <1>2. from \in Cpus
    BY <1>1 DEF LInv, Types, TaskTypes
  <1>3. UNCHANGED <<state, onCpu, waitVars, current, token, parked, listVars, chain, idle, allowed, panic>>
    BY Zenon DEF Move
  <1>4. CASE onRq[t] = "queued" /\ current[from] # t /\ t \in tree[from]
    <2>1. /\ tree' = [tree EXCEPT ![from] = @ \ {t}] /\ onRq' = [onRq EXCEPT ![t] = "migrating"]
          /\ Goto(c, "move", "attach") /\ UNCHANGED ipi
      BY <1>4, ZenonT(60) DEF Move
    <2>2. PICK d \in Destination(t, wk[c].target) :
              cpu' = [cpu EXCEPT ![t] = d] /\ wk' = [wk EXCEPT ![c].target = d]
      BY <1>4 DEF Move
    <2>3. d \in Cpus
      BY <1>1, <2>2, ChosenCpu
    <2> DEFINE w == [wk[c] EXCEPT !.target = d]
    <2>4. w \in Works /\ w.task = t /\ w.target = d /\ wk' = [wk EXCEPT ![c] = w]
      BY <1>1, <2>2, <2>3, ZenonT(60) DEF Works
    <2>5. TaskTypes' /\ RqTypes'
      BY <1>1, <1>2, <1>3, <2>1, <2>2, <2>3, Frame DEF LInv, Types, TaskTypes, RqTypes
    <2> HIDE DEF w
    <2>6. CpuTypes' /\ WorkSet' /\ ParkSet' /\ ChainSet'
      BY <1>1, <1>3, <2>1, <2>3, <2>4, GotoType, ZenonT(60) DEF Points, PiSteps, Working, Aimed
    <2> QED BY <1>3, <2>1, <2>5, <2>6, Frame, Zenon DEF LInv, Types
  <1>5. CASE ~(onRq[t] = "queued" /\ current[from] # t /\ t \in tree[from])
    <2>1. /\ ipi' = [ipi EXCEPT ![from] = @ \/ (wk[c].kick /\ current[from] = t /\ from # c)]
          /\ Done(c) /\ UNCHANGED <<tree, onRq, cpu>>
      BY <1>5, Zenon DEF Move
    <2>2. ipi \in [Cpus -> BOOLEAN]
      BY DEF LInv, Types, ListTypes
    <2>3. ipi' \in [Cpus -> BOOLEAN]
      BY <1>2, <2>1, <2>2, Zenon
    <2>4. ListTypes'
      BY <1>3, <2>3, Frame, Zenon DEF LInv, Types, ListTypes, listVars
    <2>5. CpuTypes' /\ WorkSet' /\ ParkSet' /\ ChainSet'
      BY <1>1, <1>3, <2>1, AtWork, DoneType, Zenon
    <2>6. UNCHANGED taskVars /\ UNCHANGED rqVars
      BY <1>3, <2>1, Zenon DEF taskVars, rqVars
    <2> QED BY <1>3, <2>4, <2>5, <2>6, Frame DEF LInv, Types
  <1> QED BY <1>4, <1>5, Zenon

LEMMA AttachType ==
    ASSUME LInv, UNCHANGED scene, NEW c \in Cpus, Attach(c)
    PROVE  LInv'
  <1> DEFINE t == wk[c].task
             d == wk[c].target
  <1>1. at[c] = "attach" /\ wk[c] \in Works /\ t \in Present /\ d \in Cpus
    BY AtWork, Zenon DEF Attach, PiSteps, Working, Aimed
  <1>2. UNCHANGED <<onCpu, cpu, waitVars, current, token, parked, listVars, chain, allowed, panic>>
    BY DEF Attach
  <1>3. TaskTypes' /\ RqTypes'
    BY <1>1, <1>2, EnqueueType, Frame, ZenonT(60) DEF Attach, LInv, Types, TaskTypes, RqTypes
  <1>4. ipi' = [ipi EXCEPT ![d] = @ \/ (wk[c].kick /\ d # c)] /\ ipi \in [Cpus -> BOOLEAN]
    BY DEF Attach, LInv, Types, ListTypes
  <1>5. ipi' \in [Cpus -> BOOLEAN]
    BY <1>1, <1>4, Zenon
  <1>6. ListTypes'
    BY <1>2, <1>5, Frame, ZenonT(60) DEF LInv, Types, ListTypes, listVars
  <1>7. idle' \in [Cpus -> IdlePoints] /\ Done(c)
    BY AtWork DEF Attach, IdlePoints
  <1>8. CpuTypes' /\ WorkSet' /\ ParkSet' /\ ChainSet'
    BY <1>1, <1>2, <1>7, DoneType, Zenon
  <1> QED
    BY <1>2, <1>3, <1>6, <1>8, Frame, Zenon DEF LInv, Types

LEMMA MigrateType ==
    ASSUME LInv, UNCHANGED scene, NEW c \in Cpus, Migrate(c)
    PROVE  LInv'
  <1>1. CASE Pull(c)
    <2>1. /\ at[c] = "pull" /\ wk[c] \in Works /\ wk[c].task \in Present
          /\ wk[c].target \in Cpus
      BY <1>1, AtWork DEF Pull, Goto, Working, Aimed
    <2>2. Goto(c, "pull", "move") /\ UNCHANGED wk /\ UNCHANGED <<parked, chain, idle>>
      BY <1>1, Zenon DEF Pull, rqVars
    <2>3. CpuTypes' /\ WorkSet' /\ ParkSet' /\ ChainSet'
      BY <2>1, <2>2, AtWork, GotoType, ZenonT(60) DEF Points, PiSteps, Working, Aimed
    <2> QED BY <1>1, <2>3, Frame, ZenonT(60) DEF LInv, Types, Pull
  <1> QED
    BY <1>1, MoveType, AttachType, PanicType, Zenon DEF Migrate, AttachRejected

\* The tasks that events, signals and masks are about exist.
LEMMA SceneTypes ==
    ASSUME LInv
    PROVE  /\ Waiters \subseteq Present
           /\ scene.contexts \subseteq {"hard", "tail", "inline", "process"}
           /\ scene.masks \subseteq (SUBSET Cpus) \ {{}}
  BY WakeAssumption DEF LInv, Types, RestTypes, Present

LEMMA WakerType ==
    ASSUME LInv, UNCHANGED scene, NEW c \in Cpus, NEW t \in Waiters,
           Rouse(c, t) \/ \E ctx \in scene.contexts : Post(c, t, ctx)
    PROVE  LInv'
  <1>1. t \in Present
    BY SceneTypes, Zenon
  <1>2. CASE Rouse(c, t)
    <2> DEFINE w == [NoWork EXCEPT !.task = t]
    <2>1. /\ at[c] = "task" /\ at' = [at EXCEPT ![c] = "claim"] /\ LeaveHalt(c)
          /\ wk' = [wk EXCEPT ![c] = w] /\ UNCHANGED <<parked, chain>>
      BY <1>2 DEF Rouse, rqVars
    <2>2. "claim" \in Points /\ "claim" \notin Aimed /\ w \in Works /\ w.task = t
      BY <1>1, Zenon DEF Points, Aimed, PiSteps, NoWork, Works
    <2> HIDE DEF w
    <2>3. CpuTypes' /\ WorkSet' /\ ParkSet' /\ ChainSet'
      BY <1>1, <2>1, <2>2, HaltType, Moves, Zenon
    <2> QED BY <1>2, <2>3, Frame DEF LInv, Types, Rouse
  <1>3. ASSUME NEW ctx \in scene.contexts, Post(c, t, ctx) PROVE LInv'
    <2> DEFINE w == [NoWork EXCEPT !.task = t, !.ctx = ctx]
    <2>1. /\ at[c] = "task" /\ at' = [at EXCEPT ![c] = "pop"] /\ LeaveHalt(c)
          /\ wk' = [wk EXCEPT ![c] = w] /\ UNCHANGED <<parked, chain>>
      BY <1>3, ZenonT(60) DEF Post, MayRun, rqVars
    <2>2. ctx \in {"hard", "tail", "inline", "process"}
      BY SceneTypes
    <2>3. "pop" \in Points /\ "pop" \notin Aimed /\ w \in Works /\ w.task = t
      BY <1>1, <2>2, Zenon DEF Points, Aimed, PiSteps, NoWork, Works
    <2>4. WaitTypes'
      BY <1>1, <1>3, Frame, Zenon DEF LInv, Types, WaitTypes, Post
    <2> HIDE DEF w
    <2>5. CpuTypes' /\ WorkSet' /\ ParkSet' /\ ChainSet'
      BY <1>1, <2>1, <2>3, HaltType, Moves, ZenonT(60)
    <2> QED BY <1>3, <2>4, <2>5, Frame, ZenonT(60) DEF LInv, Types, Post
  <1> QED BY <1>2, <1>3, Zenon

LEMMA AffinityType ==
    ASSUME LInv, UNCHANGED scene, NEW c \in Cpus, NEW t \in Waiters, NEW m \in scene.masks, SetAffinity(c, t, m)
    PROVE  LInv'
  <1>1. t \in Present /\ m \subseteq Cpus /\ m # {}
    BY SceneTypes, Zenon
  <1>2. /\ at[c] = "task" /\ allowed' = [allowed EXCEPT ![t] = m]
        /\ UNCHANGED <<taskVars, waitVars, rqVars, listVars, chain, idle, ipi, panic>>
    BY Zenon DEF SetAffinity, MayRun
  <1>3. RestTypes'
    BY <1>1, <1>2, Frame, ZenonT(60) DEF LInv, Types, RestTypes
  <1>4. CASE cpu[t] \in m
    <2>1. UNCHANGED <<at, wk>>
      BY <1>4, Zenon DEF SetAffinity
    <2>2. UNCHANGED <<at, parked>> /\ UNCHANGED <<at, chain>> /\ UNCHANGED <<idle, at, wk>>
      BY <1>2, <2>1 DEF rqVars
    <2> QED BY <1>2, <1>3, <2>2, Frame DEF LInv, Types
  <1>5. CASE cpu[t] \notin m
    <2>1. at' = [at EXCEPT ![c] = "move"] /\ \E d \in m : wk' = [wk EXCEPT ![c] = Moving(t, d, TRUE)]
      BY <1>5, Zenon DEF SetAffinity
    <2>2. PICK d \in m : wk' = [wk EXCEPT ![c] = Moving(t, d, TRUE)]
      BY <2>1, Zenon
    <2>3. "move" \in Points /\ idle' \in [Cpus -> IdlePoints] /\ UNCHANGED <<parked, chain>>
      BY <1>2, AtWork DEF Points, PiSteps, rqVars
    <2>4. Moving(t, d, TRUE) \in Works /\ Moving(t, d, TRUE).task \in Present /\ Moving(t, d, TRUE).target \in Cpus
      BY <1>1, <2>2, MovingType, ZenonT(60)
    <2>5. CpuTypes' /\ WorkSet' /\ ParkSet' /\ ChainSet'
      BY <1>2, <2>1, <2>2, <2>3, <2>4, Moves, ZenonT(60)
    <2> QED BY <1>2, <1>3, <2>5, Frame, Zenon DEF LInv, Types
  <1> QED BY <1>4, <1>5

LEMMA InitType == Init => LInv
  <1> SUFFICES ASSUME Init PROVE LInv
    BY Zenon
  <1>1. TaskTypes /\ WaitTypes
    BY Zenon DEF Init, TaskTypes, WaitTypes
  <1>2. /\ NoPark \in [task : Present \union {NoTask}, target : Cpus \union {NoTask}]
        /\ NoWork \in Works
    BY Zenon DEF NoPark, NoWork, Works
  <1>3. RqTypes
    BY <1>2, ZenonT(60) DEF Init, RqTypes
  <1>4. ListTypes
    BY DEF Init, ListTypes
  <1>5. CpuTypes
    BY <1>2, Zenon DEF Init, CpuTypes
  <1>6. RestTypes
    <2>1. \A t \in Present : cpu[t] \in Cpus
      BY Zenon DEF Init
    <2>2. allowed \in [Present -> (SUBSET Cpus) \ {{}}]
      BY <2>1, Zenon DEF Init
    <2> QED BY <2>2, Zenon DEF Init, RestTypes
  <1>7. WorkSet
    BY Zenon DEF Init, WorkSet, Working, Aimed, PiSteps
  <1>8. ParkSet /\ ChainSet
    BY DEF Init, ParkSet, ChainSet
  <1> QED BY <1>1, <1>3, <1>4, <1>5, <1>6, <1>7, <1>8 DEF LInv, Types

LEMMA StepType == LInv /\ [Next]_<<vars, scene>> => LInv'
  <1> SUFFICES ASSUME LInv, [Next]_<<vars, scene>> PROVE LInv'
    BY Zenon
  <1>0. CASE UNCHANGED <<vars, scene>>
    BY <1>0, Frame, Zenon DEF vars, cpuVars, rqVars, LInv, Types
  <1>1. CASE Next
    <2>1. UNCHANGED scene
      BY <1>1, Zenon DEF Next
    <2>2. CASE Halted
      BY <2>1, <2>2, Frame, ZenonT(60) DEF Halted, vars, cpuVars, rqVars, LInv, Types
    <2>3. ASSUME NEW c \in Cpus, Proceed(c) PROVE LInv'
      BY <2>1, <2>3, TtwuType, ServiceType, TakersType, ScheduleType, FinishType, TailType, BalanceType,
         MigrateType, TaskStepType DEF Proceed
    <2>4. ASSUME NEW c \in Cpus, Happen(c) PROVE LInv'
      <3>1. ASSUME NEW t \in Waiters, PolicyChange(c, t) PROVE LInv'
        BY <2>1, <3>1, PanicType, Zenon DEF PolicyChange
      <3> QED BY <2>1, <2>4, <3>1, TakersType, WakerType, AffinityType, Zenon DEF Happen
    <2> QED BY <1>1, <2>2, <2>3, <2>4 DEF Next
  <1> QED BY <1>0, <1>1

\* For every number of CPUs and tasks, every variable keeps its type.
THEOREM TypeCorrect == Spec => []TypeOK
  <1>1. LInv => TypeOK
    BY ZenonT(60) DEF LInv, TypeOK, Types, TaskTypes, WaitTypes, RqTypes, ListTypes, CpuTypes, RestTypes
  <1> QED
    BY InitType, StepType, <1>1, PTL DEF Spec

-----------------------------------------------------------------------------
(* What a CPU does to the others *)

Others(c) == \A d \in Cpus \ {c} : at'[d] = at[d] /\ wk'[d] = wk[d]

\* A CPU writes its own program point and locals only.
LEMMA OwnPoint ==
    ASSUME LInv, NEW c \in Cpus, Proceed(c) \/ Happen(c)
    PROVE  Others(c)
  <1>0. at \in [Cpus -> Points] /\ wk \in [Cpus -> Works]
    BY Zenon DEF LInv, Types, CpuTypes, Points
  <1>w. ASSUME UNCHANGED at \/ (\E l : at' = [at EXCEPT ![c] = l]),
               UNCHANGED wk \/ (\E w : wk' = [wk EXCEPT ![c] = w])
        PROVE  Others(c)
    BY <1>0, <1>w DEF Others
  <1>1. CASE Ttwu(c)
    <2>1. \E l : at' = [at EXCEPT ![c] = l]
      BY <1>1, Zenon DEF Ttwu, Pop, Claim, SelectTarget, Defer, Link, Kick, Direct, Place, Goto, Done
    <2>2. UNCHANGED wk \/ \E w : wk' = [wk EXCEPT ![c] = w]
      BY <1>1, ZenonT(60) DEF Ttwu, Pop, Claim, SelectTarget, Defer, Link, Kick, Direct, Place, Done
    <2> QED BY <2>1, <2>2, <1>w, Zenon
  <1>2. CASE Service(c) \/ Tick(c) \/ Ipi(c) \/ IdleService(c)
    <2>1. UNCHANGED wk /\ (UNCHANGED at \/ \E l : at' = [at EXCEPT ![c] = l])
      BY <1>2, Zenon DEF Service, Tick, Ipi, IdleService, IrqExit, TakeList, Activate, Requeue, StrayWake, FinishDrain,
                  Panic, Goto, cpuVars
    <2> QED BY <2>1, <1>w
  <1>3. CASE Schedule(c) \/ FinishSwitch(c)
    <2>1. UNCHANGED wk /\ (UNCHANGED at \/ \E l : at' = [at EXCEPT ![c] = l])
      BY <1>3 DEF Schedule, Switch, Stay, PickedOwned, PickedUnqueued, FinishSwitch, Panic, Goto, cpuVars
    <2> QED BY <2>1, <1>w, ZenonT(60)
  <1>4. CASE SwitchTail(c) \/ Balance(c) \/ Migrate(c)
    <2>1. UNCHANGED at \/ \E l : at' = [at EXCEPT ![c] = l]
      BY <1>4, Zenon DEF SwitchTail, Balance, Migrate, Pull, Move, Attach, AttachRejected, Panic, Goto, Done, cpuVars
    <2>2. UNCHANGED wk \/ \E w : wk' = [wk EXCEPT ![c] = w]
      BY <1>4, Zenon DEF SwitchTail, Balance, Migrate, Pull, Move, Attach, AttachRejected, Panic, Done, cpuVars
    <2> QED BY <2>1, <2>2, <1>w
  <1>5. ASSUME NEW t, TaskStep(c, t) PROVE Others(c)
    BY <1>5, Zenon DEF TaskStep, cpuVars, Others
  <1>6. ASSUME NEW t \in Waiters, Rouse(c, t) \/ PolicyChange(c, t) \/ \E ctx \in scene.contexts : Post(c, t, ctx)
        PROVE  Others(c)
    <2>1. /\ UNCHANGED at \/ \E l : at' = [at EXCEPT ![c] = l]
          /\ UNCHANGED wk \/ \E w : wk' = [wk EXCEPT ![c] = w]
      BY <1>6, ZenonT(60) DEF Rouse, PolicyChange, Post, Panic, cpuVars
    <2> QED BY <2>1, <1>w
  <1>7. ASSUME NEW t \in Waiters, NEW m \in scene.masks, SetAffinity(c, t, m) PROVE Others(c)
    <2>1. /\ UNCHANGED at \/ \E l : at' = [at EXCEPT ![c] = l]
          /\ UNCHANGED wk \/ \E w : wk' = [wk EXCEPT ![c] = w]
      BY <1>7, Zenon DEF SetAffinity
    <2> QED BY <2>1, <1>w
  <1> QED
    BY <1>1, <1>2, <1>3, <1>4, <1>5, <1>6, <1>7, Zenon DEF Proceed, Happen


-----------------------------------------------------------------------------
(* The wake nodes *)

In(s) == {s[i] : i \in DOMAIN s}
NoDup(s) == \A i, j \in DOMAIN s : s[i] = s[j] => i = j
Links(c, t) == at[c] = "link" /\ wk[c].task = t

\* The wake lists, the detached chains and the wakers about to link share no
\* task and hold none twice ...
NodesApart ==
    \A c, d \in Cpus :
        /\ NoDup(list[c]) /\ NoDup(chain[c])
        /\ \A t : /\ t \in In(list[c]) => t \notin In(chain[d]) /\ ~Links(d, t)
                  /\ t \in In(chain[c]) => ~Links(d, t)
                  /\ c # d => /\ ~(t \in In(list[c]) /\ t \in In(list[d]))
                              /\ ~(t \in In(chain[c]) /\ t \in In(chain[d]))
                              /\ ~(Links(c, t) /\ Links(d, t))

\* ... and hold exactly the tasks with on_wake_list set.
Owned(t) == \E c \in Cpus : t \in In(list[c]) \/ t \in In(chain[c]) \/ Links(c, t)
NodesClaimed == \A t \in Present : onList[t] <=> Owned(t)

LEMMA Pushed ==
    ASSUME NEW S, NEW s \in Seq(S), NEW x \in S
    PROVE  /\ In(<<x>> \o s) = In(s) \union {x}
           /\ NoDup(s) /\ x \notin In(s) => NoDup(<<x>> \o s)
  <1> DEFINE r == <<x>> \o s
  <1>1. /\ r \in Seq(S) /\ Len(r) = Len(s) + 1 /\ Len(s) \in Nat
        /\ DOMAIN r = 1..Len(r) /\ DOMAIN s = 1..Len(s)
        /\ r[1] = x /\ \A i \in 1..Len(s) : r[i + 1] = s[i]
    OBVIOUS
  <1> HIDE DEF r
  <1>2. \A i \in DOMAIN r : i = 1 \/ (i - 1 \in DOMAIN s /\ r[i] = s[i - 1])
    BY <1>1
  <1>3. In(r) \subseteq In(s) \union {x}
    BY <1>1, <1>2 DEF In
  <1>4. In(s) \union {x} \subseteq In(r)
    BY <1>1 DEF In
  <1>5. ASSUME NoDup(s), x \notin In(s) PROVE NoDup(r)
    <2> SUFFICES ASSUME NEW i \in DOMAIN r, NEW j \in DOMAIN r, r[i] = r[j] PROVE i = j
      BY Zenon DEF NoDup
    <2>1. CASE i = 1 \/ j = 1
      BY <1>1, <1>2, <1>5, <2>1, ZenonT(60) DEF In
    <2>2. CASE i # 1 /\ j # 1
      BY <1>1, <1>2, <1>5, <2>2 DEF NoDup
    <2> QED BY <2>1, <2>2
  <1> QED BY <1>3, <1>4, <1>5 DEF r

LEMMA Popped ==
    ASSUME NEW S, NEW s \in Seq(S), s # <<>>, NoDup(s)
    PROVE  /\ Head(s) \in In(s) /\ NoDup(Tail(s))
           /\ In(Tail(s)) = In(s) \ {Head(s)}
  <1> DEFINE r == Tail(s)
  <1>1. /\ r \in Seq(S) /\ Len(s) \in Nat \ {0} /\ Len(r) = Len(s) - 1
        /\ DOMAIN r = 1..Len(r) /\ DOMAIN s = 1..Len(s)
        /\ Head(s) = s[1] /\ \A i \in 1..Len(r) : r[i] = s[i + 1]
    OBVIOUS
  <1> HIDE DEF r
  <1>2. Head(s) \in In(s)
    BY <1>1 DEF In
  <1>3. NoDup(r)
    <2> SUFFICES ASSUME NEW i \in DOMAIN r, NEW j \in DOMAIN r, r[i] = r[j] PROVE i = j
      BY Zenon DEF NoDup
    <2>1. /\ i + 1 \in DOMAIN s /\ j + 1 \in DOMAIN s /\ s[i + 1] = s[j + 1] /\ i \in Nat /\ j \in Nat
      BY <1>1
    <2>2. i + 1 = j + 1
      BY <2>1, Zenon DEF NoDup
    <2> QED BY <2>1, <2>2
  <1>4. In(r) \subseteq In(s) \ {Head(s)}
    <2> SUFFICES ASSUME NEW i \in DOMAIN r PROVE r[i] \in In(s) /\ r[i] # Head(s)
      BY Zenon DEF In
    <2>1. i + 1 \in DOMAIN s /\ r[i] = s[i + 1] /\ 1 \in DOMAIN s /\ i + 1 # 1
      BY <1>1
    <2> QED BY <1>1, <2>1, Zenon DEF In, NoDup
  <1>5. In(s) \ {Head(s)} \subseteq In(r)
    <2> SUFFICES ASSUME NEW i \in DOMAIN s, s[i] # Head(s) PROVE s[i] \in In(r)
      BY Zenon DEF In
    <2>1. i - 1 \in DOMAIN r /\ r[i - 1] = s[i]
      BY <1>1
    <2> QED BY <2>1, Zenon DEF In
  <1> QED BY <1>2, <1>3, <1>4, <1>5 DEF r

LEMMA EmptyIn == In(<<>>) = {} /\ NoDup(<<>>)
  BY DEF In, NoDup

\* The nodes of a task, read off the lists, chains and wakers.
LEMMA NodesSingle == NodesApart /\ NodesClaimed => NodeOwnedOnce
  <1> SUFFICES ASSUME NodesApart, NodesClaimed, NEW t \in Present
               PROVE  IF onList[t] THEN \E n \in Nodes(t) : Nodes(t) = {n} ELSE Nodes(t) = {}
    BY DEF NodeOwnedOnce
  <1> DEFINE OnL(n) == \E c \in Cpus : \E i \in DOMAIN list[c] : n = <<"list", c, i>> /\ list[c][i] = t
             OnC(n) == \E c \in Cpus : \E i \in DOMAIN chain[c] : n = <<"chain", c, i>> /\ chain[c][i] = t
             OnW(n) == \E c \in Cpus : n = <<"waker", c, 0>> /\ Links(c, t)
  <1>1. \A n : n \in Nodes(t) <=> OnL(n) \/ OnC(n) \/ OnW(n)
    <2> DEFINE A(c) == {<<"list", c, i>> : i \in Linked(list[c], t)}
               B(c) == {<<"chain", c, i>> : i \in Linked(chain[c], t)}
               W == {<<"waker", c, 0>> : c \in {d \in Cpus : at[d] = "link" /\ wk[d].task = t}}
               U == UNION {A(c) \union B(c) : c \in Cpus}
    <2>1. Nodes(t) = U \union W
      BY Zenon DEF Nodes
    <2>2. \A n : OnL(n) <=> \E c \in Cpus : n \in A(c)
      BY Zenon DEF Linked
    <2>3. \A n : OnC(n) <=> \E c \in Cpus : n \in B(c)
      BY Zenon DEF Linked
    <2>4. \A n : OnW(n) <=> n \in W
      BY DEF Links
    <2> HIDE DEF A, B, W, OnL, OnC, OnW
    <2>5. \A n : n \in U <=> \E c \in Cpus : n \in A(c) \/ n \in B(c)
      BY ZenonT(60)
    <2> HIDE DEF U
    <2>6. ASSUME NEW n PROVE n \in Nodes(t) <=> OnL(n) \/ OnC(n) \/ OnW(n)
      <3>1. n \in Nodes(t) <=> n \in U \/ n \in W
        BY <2>1
      <3>2. n \in U <=> OnL(n) \/ OnC(n)
        <4>1. OnL(n) <=> \E c \in Cpus : n \in A(c)
          BY <2>2
        <4>2. OnC(n) <=> \E c \in Cpus : n \in B(c)
          BY <2>3
        <4>3. n \in U <=> \E c \in Cpus : n \in A(c) \/ n \in B(c)
          BY <2>5, Zenon
        <4> QED BY <4>1, <4>2, <4>3, Zenon
      <3> QED BY <3>1, <3>2, <2>4, Zenon
    <2> QED BY <2>6, Zenon
  <1>2. ASSUME NEW m \in Nodes(t), NEW n \in Nodes(t) PROVE m = n
    <2>1. OnL(m) \/ OnC(m) \/ OnW(m)
      BY <1>1, Zenon
    <2>2. OnL(n) \/ OnC(n) \/ OnW(n)
      BY <1>1, Zenon
    <2>3. CASE OnL(m)
      BY <2>2, <2>3, SMTT(30) DEF NodesApart, In, NoDup
    <2>4. CASE OnC(m)
      BY <2>2, <2>4, SMTT(30) DEF NodesApart, In, NoDup
    <2>5. CASE OnW(m)
      BY <2>2, <2>5, SMTT(30) DEF NodesApart, In, NoDup
    <2> QED BY <2>1, <2>3, <2>4, <2>5, Zenon
  <1>3. Nodes(t) # {} => onList[t]
    BY <1>1 DEF NodesClaimed, Owned, In
  <1>4. ASSUME onList[t] PROVE Nodes(t) # {}
    <2>1. PICK c \in Cpus : t \in In(list[c]) \/ t \in In(chain[c]) \/ Links(c, t)
      BY <1>4 DEF NodesClaimed, Owned
    <2>2. CASE t \in In(list[c])
      <3>1. PICK i \in DOMAIN list[c] : list[c][i] = t
        BY <2>2, Zenon DEF In
      <3>2. OnL(<<"list", c, i>>)
        BY <3>1
      <3> QED BY <1>1, <3>2, Zenon
    <2>3. CASE t \in In(chain[c])
      <3>1. PICK i \in DOMAIN chain[c] : chain[c][i] = t
        BY <2>3, Zenon DEF In
      <3>2. OnC(<<"chain", c, i>>)
        BY <3>1
      <3> QED BY <1>1, <3>2, Zenon
    <2>4. CASE Links(c, t)
      <3>1. OnW(<<"waker", c, 0>>)
        BY <2>4
      <3> QED BY <1>1, <3>1, Zenon
    <2> QED BY <2>1, <2>2, <2>3, <2>4, ZenonT(60)
  <1> QED
    BY <1>2, <1>3, <1>4, Zenon

NodeInv == NodesApart /\ NodesClaimed

LEMMA NodesSame ==
    ASSUME NodeInv, UNCHANGED <<list, chain, onList, scene>>, \A d \in Cpus : \A t : Links(d, t)' <=> Links(d, t)
    PROVE  NodeInv'
  BY ZenonT(60) DEF NodeInv, NodesApart, NodesClaimed, Owned, Present

LEMMA NodesQuiet ==
    ASSUME NodeInv, UNCHANGED <<list, chain, onList, scene>>, NEW c \in Cpus, Others(c),
           at[c] # "link", at'[c] # "link"
    PROVE  NodeInv'
  BY NodesSame, Zenon DEF Links, Others

\* The push claims the node before it links it.
LEMMA NodesDefer ==
    ASSUME LInv, NodeInv, UNCHANGED scene, NEW c \in Cpus, Others(c), Defer(c)
    PROVE  NodeInv'
  <1>t. /\ onList \in [Present -> BOOLEAN] /\ at \in [Cpus -> Points] /\ wk \in [Cpus -> Works]
        /\ Present' = Present
    BY Zenon DEF LInv, Types, ListTypes, CpuTypes, Points, Present
  <1>1. PICK t \in Present : t = wk[c].task
    BY AtWork, Zenon DEF Defer, PiSteps, Working
  <1>2. at[c] = "decide" /\ UNCHANGED chain
    BY Zenon DEF Defer
  <1>3. CASE onList[t]
    <2>1. UNCHANGED <<list, chain, onList>> /\ at'[c] # "link"
      BY <1>t, <1>1, <1>3, Zenon DEF Defer, Done, Return, listVars
    <2> QED BY <1>2, <2>1, NodesQuiet
  <1>4. CASE ~onList[t]
    <2>1. /\ onList' = [onList EXCEPT ![t] = TRUE] /\ UNCHANGED <<list, chain>> /\ at'[c] = "link"
          /\ wk' = [wk EXCEPT ![c].kick = ~pending[wk[c].target]]
      BY <1>t, <1>1, <1>4 DEF Defer, Goto
    <2>2. wk'[c].task = t
      BY <1>t, <1>1, <2>1 DEF Works
    <2>3. \A d \in Cpus : \A u : Links(d, u)' <=> Links(d, u) \/ (d = c /\ u = t)
      BY <1>2, <2>1, <2>2, ZenonT(60) DEF Links, Others
    <2>4. \A d \in Cpus : t \notin In(list[d]) /\ t \notin In(chain[d]) /\ ~Links(d, t)
      BY <1>4 DEF NodeInv, NodesClaimed, Owned
    <2>5. NodesApart'
      BY <2>1, <2>3, <2>4 DEF NodeInv, NodesApart
    <2>6. NodesClaimed'
      BY <1>t, <2>1, <2>3 DEF NodeInv, NodesClaimed, Owned
    <2> QED BY <2>5, <2>6 DEF NodeInv
  <1> QED BY <1>3, <1>4, Zenon

\* The wake node of u is where it was.
NodeStays(u) ==
    \A d \in Cpus : /\ u \in In(list'[d]) <=> u \in In(list[d])
                    /\ u \in In(chain'[d]) <=> u \in In(chain[d])
                    /\ Links(d, u)' <=> Links(d, u)

\* A node that leaves its place for the wake list of e, with every other node
\* where it was, leaves the places apart.
LEMMA HandOver ==
    ASSUME NodesApart, NEW t, NEW e \in Cpus,
           \A d \in Cpus : NoDup(list'[d]) /\ NoDup(chain'[d]),
           \A d \in Cpus : (t \in In(list'[d]) <=> d = e) /\ t \notin In(chain'[d]) /\ ~Links(d, t)',
           \A u : u # t => NodeStays(u)
    PROVE  NodesApart'
  <1> SUFFICES ASSUME NEW d \in Cpus, NEW g \in Cpus, NEW u
               PROVE  /\ u \in In(list'[d]) => u \notin In(chain'[g]) /\ ~Links(g, u)'
                      /\ u \in In(chain'[d]) => ~Links(g, u)'
                      /\ d # g => /\ ~(u \in In(list'[d]) /\ u \in In(list'[g]))
                                  /\ ~(u \in In(chain'[d]) /\ u \in In(chain'[g]))
                                  /\ ~(Links(d, u)' /\ Links(g, u)')
    BY Zenon DEF NodesApart
  <1>1. CASE u = t
    BY <1>1, Zenon
  <1>2. CASE u # t
    <2>1. /\ u \in In(list'[d]) <=> u \in In(list[d])
          /\ u \in In(list'[g]) <=> u \in In(list[g])
          /\ u \in In(chain'[d]) <=> u \in In(chain[d])
          /\ u \in In(chain'[g]) <=> u \in In(chain[g])
          /\ (Links(d, u)' <=> Links(d, u)) /\ (Links(g, u)' <=> Links(g, u))
      BY <1>2, Zenon DEF NodeStays
    <2> QED BY <2>1, Zenon DEF NodesApart
  <1> QED BY <1>1, <1>2, Zenon

LEMMA NodesLink ==
    ASSUME LInv, NodeInv, UNCHANGED scene, NEW c \in Cpus, Others(c), Link(c)
    PROVE  NodeInv'
  <1>t. list \in [Cpus -> Seq(Present)] /\ at \in [Cpus -> Points] /\ Present' = Present
    BY Zenon DEF LInv, Types, ListTypes, CpuTypes, Points, Present
  <1>1. PICK t \in Present : t = wk[c].task
    BY AtWork, Zenon DEF Link, Goto, PiSteps, Working
  <1>2. PICK e \in Cpus : e = wk[c].target
    BY AtWork, Zenon DEF Link, Goto, PiSteps, Aimed
  <1>3. /\ list' = [list EXCEPT ![e] = <<t>> \o @] /\ UNCHANGED <<chain, onList, wk>>
        /\ at[c] = "link" /\ at'[c] = "recheck"
    BY <1>t, <1>1, <1>2, ZenonT(60) DEF Link, Goto
  <1>4. \A d \in Cpus : \A u : Links(d, u)' <=> Links(d, u) /\ d # c
    BY <1>3 DEF Links, Others
  <1>5. Links(c, t) /\ \A d \in Cpus : t \notin In(list[d]) /\ t \notin In(chain[d])
    BY <1>1, <1>3, Zenon DEF Links, NodeInv, NodesApart
  <1>6. /\ In(list'[e]) = In(list[e]) \union {t} /\ NoDup(list'[e])
        /\ \A d \in Cpus \ {e} : list'[d] = list[d]
    <2>1. list'[e] = <<t>> \o list[e] /\ \A d \in Cpus \ {e} : list'[d] = list[d]
      BY <1>t, <1>3, ZenonT(60)
    <2>2. list[e] \in Seq(Present) /\ NoDup(list[e])
      BY <1>t DEF NodeInv, NodesApart
    <2>3. /\ In(<<t>> \o list[e]) = In(list[e]) \union {t}
          /\ NoDup(list[e]) /\ t \notin In(list[e]) => NoDup(<<t>> \o list[e])
      BY <2>2, Pushed, Zenon
    <2> QED BY <1>5, <2>1, <2>2, <2>3, Zenon
  <1>7. \A u : Links(c, u) <=> u = t
    BY <1>1, <1>3, Zenon DEF Links
  <1>8. NodesApart'
    <2>1. \A d \in Cpus : NoDup(list'[d]) /\ NoDup(chain'[d])
      BY <1>3, <1>6, Zenon DEF NodeInv, NodesApart
    <2>2. \A d \in Cpus : (t \in In(list'[d]) <=> d = e) /\ t \notin In(chain'[d]) /\ ~Links(d, t)'
      <3>1. \A d \in Cpus \ {c} : ~Links(d, t)
        BY <1>5, Zenon DEF NodeInv, NodesApart
      <3> QED BY <1>3, <1>4, <1>5, <1>6, <3>1, Zenon
    <2>3. \A u : u # t => NodeStays(u)
      BY <1>3, <1>4, <1>6, <1>7, ZenonT(60) DEF NodeStays
    <2> QED BY <2>1, <2>2, <2>3, HandOver, ZenonT(60) DEF NodeInv
  <1>9. \A u : Owned(u)' <=> Owned(u)
    <2>1. ASSUME NEW u, Owned(u) PROVE Owned(u)'
      BY <1>3, <1>4, <1>6, <1>7, <2>1, Zenon DEF Owned
    <2>2. ASSUME NEW u, Owned(u)' PROVE Owned(u)
      BY <1>3, <1>4, <1>6, <1>7, <2>2, Zenon DEF Owned
    <2> QED BY <2>1, <2>2
  <1>10. NodesClaimed'
    BY <1>t, <1>3, <1>9, Zenon DEF NodeInv, NodesClaimed
  <1> QED BY <1>8, <1>10, Zenon DEF NodeInv

LEMMA NodesTake ==
    ASSUME LInv, NodeInv, UNCHANGED scene, NEW c \in Cpus, Others(c), at[c] \in {"task", "irq"}, TakeList(c)
    PROVE  NodeInv'
  <1>t. /\ list \in [Cpus -> Seq(Present)] /\ chain \in [Cpus -> Seq(Present)]
        /\ at \in [Cpus -> Points] /\ Present' = Present
    BY Zenon DEF LInv, Types, ListTypes, CpuTypes, Points, Present
  <1>1. /\ chain'[c] = list[c] /\ list'[c] = <<>> /\ UNCHANGED onList
        /\ \A d \in Cpus \ {c} : chain'[d] = chain[d] /\ list'[d] = list[d]
    BY <1>t, Zenon DEF TakeList
  <1>2. chain[c] = <<>>
    BY Zenon DEF LInv, ChainSet
  <1>3. \A d \in Cpus : \A u : Links(d, u)' <=> Links(d, u)
    BY <1>t DEF TakeList, Links, Others
  <1>4. NodesApart'
    BY <1>1, <1>2, <1>3, EmptyIn, ZenonT(60) DEF NodeInv, NodesApart
  <1>5. NodesClaimed'
    BY <1>t, <1>1, <1>2, <1>3, EmptyIn, Zenon DEF NodeInv, NodesClaimed, Owned
  <1> QED BY <1>4, <1>5, Zenon DEF NodeInv

LEMMA NodesDrain ==
    ASSUME LInv, NodeInv, UNCHANGED scene, NEW c \in Cpus, Activate(c) \/ Requeue(c)
    PROVE  NodeInv'
  <1>t. /\ list \in [Cpus -> Seq(Present)] /\ chain \in [Cpus -> Seq(Present)]
        /\ onList \in [Present -> BOOLEAN] /\ Present' = Present
    BY Zenon DEF LInv, Types, ListTypes, Present
  <1>1. PICK t \in Present : t = Head(chain[c])
    BY ChainHead, Zenon DEF Activate, Requeue
  <1>2. /\ UNCHANGED <<at, wk>> /\ chain'[c] = Tail(chain[c]) /\ chain[c] # <<>>
        /\ \A d \in Cpus \ {c} : chain'[d] = chain[d]
    BY <1>t, Zenon DEF Activate, Requeue
  <1>3. /\ t \in In(chain[c]) /\ NoDup(chain'[c]) /\ In(chain'[c]) = In(chain[c]) \ {t}
    <2>1. chain[c] \in Seq(Present) /\ NoDup(chain[c])
      BY <1>t, ZenonT(60) DEF NodeInv, NodesApart
    <2> QED BY <1>1, <1>2, <2>1, Popped, Zenon
  <1>4. \A d \in Cpus : \A u : Links(d, u)' <=> Links(d, u)
    BY <1>2 DEF Links
  <1>5. \A d \in Cpus : t \notin In(list[d]) /\ ~Links(d, t) /\ (d # c => t \notin In(chain[d]))
    BY <1>3, Zenon DEF NodeInv, NodesApart
  <1>6. CASE Activate(c)
    <2>1. onList' = [onList EXCEPT ![t] = FALSE] /\ UNCHANGED list
      BY <1>1, <1>6, Zenon DEF Activate
    <2>2. NodesApart'
      BY <1>2, <1>3, <1>4, <2>1, ZenonT(60) DEF NodeInv, NodesApart
    <2>3. \A u : Owned(u)' <=> Owned(u) /\ u # t
      <3>1. ASSUME NEW u, Owned(u), u # t PROVE Owned(u)'
        BY <1>2, <1>3, <1>4, <2>1, <3>1, Zenon DEF Owned
      <3>2. ASSUME NEW u, Owned(u)' PROVE Owned(u) /\ u # t
        BY <1>2, <1>3, <1>4, <1>5, <2>1, <3>2, Zenon DEF Owned
      <3> QED BY <3>1, <3>2, Zenon
    <2>4. NodesClaimed'
      BY <1>t, <2>1, <2>3, Zenon DEF NodeInv, NodesClaimed
    <2> QED BY <2>2, <2>4 DEF NodeInv
  <1>7. CASE Requeue(c)
    <2>1. /\ list'[c] = <<t>> \o list[c] /\ UNCHANGED onList
          /\ \A d \in Cpus \ {c} : list'[d] = list[d]
      BY <1>t, <1>1, <1>7, Zenon DEF Requeue
    <2>2. In(list'[c]) = In(list[c]) \union {t} /\ NoDup(list'[c])
      <3>1. list[c] \in Seq(Present) /\ NoDup(list[c])
        BY <1>t DEF NodeInv, NodesApart
      <3> QED BY <1>5, <2>1, <3>1, Pushed
    <2>3. /\ \A d \in Cpus : \A u : u \in In(list'[d]) <=> u \in In(list[d]) \/ (d = c /\ u = t)
          /\ \A d \in Cpus : \A u : u \in In(chain'[d]) <=> u \in In(chain[d]) /\ ~(d = c /\ u = t)
      BY <1>2, <1>3, <2>1, <2>2, ZenonT(60)
    <2>4. \A d \in Cpus : NoDup(list'[d]) /\ NoDup(chain'[d])
      BY <1>2, <1>3, <2>1, <2>2, ZenonT(60) DEF NodeInv, NodesApart
    <2>5. NodesApart'
      <3>1. \A d \in Cpus : (t \in In(list'[d]) <=> d = c) /\ t \notin In(chain'[d]) /\ ~Links(d, t)'
        <4>1. \A d \in Cpus \ {c} : t \notin In(chain[d])
          BY <1>3, ZenonT(60) DEF NodeInv, NodesApart
        <4> QED BY <1>4, <1>5, <2>3, <4>1, ZenonT(60)
      <3>2. \A u : u # t => NodeStays(u)
        BY <1>4, <2>3, Zenon DEF NodeStays
      <3> QED BY <2>4, <3>1, <3>2, HandOver, ZenonT(60) DEF NodeInv
    <2>6. \A u : Owned(u)' <=> Owned(u)
      <3>1. ASSUME NEW u, Owned(u) PROVE Owned(u)'
        BY <1>4, <2>3, <3>1 DEF Owned
      <3>2. ASSUME NEW u, Owned(u)' PROVE Owned(u)
        BY <1>3, <1>4, <2>3, <3>2, ZenonT(60) DEF Owned
      <3> QED BY <3>1, <3>2, ZenonT(60)
    <2>7. NodesClaimed'
      BY <1>t, <2>1, <2>6, Zenon DEF NodeInv, NodesClaimed
    <2> QED BY <2>5, <2>7, Zenon DEF NodeInv
  <1> QED BY <1>6, <1>7, Zenon

LEMMA NodesStep ==
    ASSUME LInv, NodeInv, [Next]_<<vars, scene>>
    PROVE  NodeInv'
  <1>0. CASE UNCHANGED <<list, chain, onList, scene>> /\ UNCHANGED <<at, wk>>
    BY <1>0, NodesSame, ZenonT(60) DEF Links
  <1>1. CASE UNCHANGED <<vars, scene>> \/ (Next /\ Halted)
    BY <1>0, <1>1 DEF Next, Halted, vars, listVars, cpuVars
  <1>2. ASSUME Next, NEW c \in Cpus, Proceed(c) \/ Happen(c) PROVE NodeInv'
    <2>0. UNCHANGED scene /\ Others(c) /\ at \in [Cpus -> Points]
      BY <1>2, OwnPoint, Zenon DEF Next, LInv, Types, CpuTypes, Points
    <2>p. ASSUME NEW p, Panic(p) PROVE NodeInv'
      BY <2>0, <2>p, <1>0, ZenonT(60) DEF Panic, listVars, cpuVars
    <2>1. CASE Ttwu(c)
      <3>1. CASE Pop(c) \/ Claim(c) \/ SelectTarget(c) \/ Kick(c) \/ Direct(c) \/ Place(c)
        <4>1. UNCHANGED <<list, chain, onList>>
          BY <3>1, Zenon DEF Pop, Claim, SelectTarget, Kick, Direct, Place, listVars
        <4>2. at[c] # "link" /\ at'[c] # "link"
          BY <2>0, <3>1, Zenon DEF Pop, Claim, SelectTarget, Kick, Direct, Place, Goto, Done, Return
        <4> QED BY <2>0, <4>1, <4>2, NodesQuiet, Zenon
      <3> QED BY <2>0, <2>1, <3>1, NodesDefer, NodesLink, ZenonT(60) DEF Ttwu
    <2>2. CASE Service(c) \/ Tick(c) \/ Ipi(c) \/ IdleService(c)
      <3>1. CASE Tick(c) \/ Ipi(c) \/ IdleService(c) \/ IrqExit(c)
        BY <2>0, <3>1, NodesTake, Zenon DEF Tick, Ipi, IdleService, IrqExit
      <3>2. CASE FinishDrain(c)
        <4>1. UNCHANGED <<list, chain, onList>> /\ at[c] # "link" /\ at'[c] # "link"
          BY <2>0, <3>2, Zenon DEF FinishDrain, Goto
        <4> QED BY <2>0, <4>1, NodesQuiet, Zenon
      <3> QED BY <2>0, <2>2, <2>p, <3>1, <3>2, NodesDrain, Zenon DEF Service, StrayWake
    <2>3. CASE Schedule(c) \/ FinishSwitch(c)
      <3>1. ASSUME NEW next, Switch(c, next) PROVE NodeInv'
        <4>1. UNCHANGED <<list, chain, onList>> /\ at[c] # "link" /\ at'[c] # "link"
          BY <2>0, <3>1, Zenon DEF Switch, Goto, listVars
        <4> QED BY <2>0, <4>1, NodesQuiet, Zenon
      <3>2. CASE FinishSwitch(c)
        <4>1. UNCHANGED <<list, chain, onList>> /\ at[c] # "link" /\ at'[c] # "link"
          BY <2>0, <3>2 DEF FinishSwitch, Goto, listVars
        <4> QED BY <2>0, <4>1, NodesQuiet, ZenonT(60)
      <3>3. CASE Stay(c)
        BY <1>0, <2>0, <3>3, ZenonT(60) DEF Stay, listVars
      <3> QED BY <2>3, <2>p, <3>1, <3>2, <3>3, Zenon DEF Schedule, PickedOwned, PickedUnqueued
    <2>4. CASE SwitchTail(c) \/ Balance(c) \/ Pull(c) \/ Move(c) \/ Attach(c)
      <3>1. UNCHANGED <<list, chain, onList>>
        BY <2>4, Zenon DEF SwitchTail, Balance, Pull, Move, Attach, listVars
      <3>2. at[c] # "link" /\ at'[c] # "link"
        BY <2>0, <2>4, Zenon DEF SwitchTail, Balance, Pull, Move, Attach, Goto, Done, Return
      <3> QED BY <2>0, <3>1, <3>2, NodesQuiet
    <2>5. CASE AttachRejected(c)
      BY <2>5, <2>p, Zenon DEF AttachRejected
    <2>6. ASSUME NEW t, TaskStep(c, t) PROVE NodeInv'
      BY <1>0, <2>0, <2>6, ZenonT(60) DEF TaskStep, listVars, cpuVars
    <2>7. ASSUME NEW t \in Waiters, Rouse(c, t) \/ \E ctx \in scene.contexts : Post(c, t, ctx) PROVE NodeInv'
      <3>1. UNCHANGED <<list, chain, onList>> /\ at[c] # "link" /\ at'[c] # "link"
        BY <2>0, <2>7, ZenonT(60) DEF Rouse, Post, MayRun, listVars
      <3> QED BY <2>0, <3>1, NodesQuiet
    <2>8. ASSUME NEW t \in Waiters, NEW m \in scene.masks, SetAffinity(c, t, m) PROVE NodeInv'
      <3>1. UNCHANGED <<list, chain, onList>> /\ at[c] # "link" /\ at'[c] # "link"
        BY <2>0, <2>8, ZenonT(60) DEF SetAffinity, MayRun, listVars
      <3> QED BY <2>0, <3>1, NodesQuiet
    <2>9. ASSUME NEW t \in Waiters, PolicyChange(c, t) PROVE NodeInv'
      BY <2>9, <2>p DEF PolicyChange
    <2> QED
      BY <1>2, <2>1, <2>2, <2>3, <2>4, <2>5, <2>6, <2>7, <2>8, <2>9, ZenonT(60) DEF Proceed, Happen, Migrate
  <1> QED BY <1>1, <1>2, Zenon DEF Next

LEMMA InitNodes == Init => NodeInv
  <1> SUFFICES ASSUME Init PROVE NodeInv
    BY Zenon
  <1>1. \A c \in Cpus : list[c] = <<>> /\ chain[c] = <<>> /\ \A t : ~Links(c, t)
    BY Zenon DEF Init, Links
  <1>2. NodesApart
    BY <1>1, EmptyIn, ZenonT(60) DEF NodesApart
  <1>3. NodesClaimed
    BY <1>1, EmptyIn DEF NodesClaimed, Owned, Init
  <1> QED BY <1>2, <1>3 DEF NodeInv

\* For every number of CPUs and tasks, a task whose on_wake_list is set is on
\* one wake list, in one detached chain or with one waker about to link it, and
\* in none of them otherwise: its intrusive link is never shared.
THEOREM WakeNodeOwned == Spec => []NodeOwnedOnce
  <1>1. LInv /\ NodeInv /\ [Next]_<<vars, scene>> => LInv' /\ NodeInv'
    BY StepType, NodesStep
  <1>2. NodeInv => NodeOwnedOnce
    BY NodesSingle DEF NodeInv
  <1> QED
    BY InitType, InitNodes, <1>1, <1>2, PTL DEF Spec

-----------------------------------------------------------------------------
(* The running and the runnable tasks *)

\* on_cpu covers rq.current and, until finish_task_switch, the task that the
\* CPU switches away from; no two CPUs share one of them.
OnCpuOwned ==
    \A c \in Cpus :
        /\ token[c] # NoTask => at[c] = "switched" /\ current[c] # token[c]
        /\ current[c] \in Present => onCpu[current[c]]
        /\ token[c] \in Present => onCpu[token[c]]
        /\ \A d \in Cpus \ {c} : \A t \in Present :
              ~(t \in {current[c], token[c]} /\ t \in {current[d], token[d]})

\* The CPU that holds TaskPi of t for a wake and has still to queue it; a
\* waker that is past the link does not count.
Placing(t) == \E c \in Cpus : at[c] \in {"select", "decide", "place"} /\ wk[c].task = t

\* What a task with on_rq set is held by: a class tree, a CPU that runs it, a
\* parked slot or a migration that is in flight.
Backed(t) ==
    \/ InTree(t)
    \/ \E c \in Cpus : current[c] = t \/ parked[c].task = t \/ (at[c] = "attach" /\ wk[c].task = t)

\* A task that is runnable or being woken is held by those, or by its wake node
\* or a waker; on_rq is set for a task that is held without a wake only.
Homes ==
    \A t \in Present :
        /\ state[t] \in {"Runnable", "Waking"} => Backed(t) \/ onList[t] \/ Placing(t)
        /\ onRq[t] # "off" => Backed(t)

-----------------------------------------------------------------------------
(* No task runs on two CPUs *)

\* A step that is not part of a switch.
Quiet ==
    /\ UNCHANGED <<onCpu, current, token>>
    /\ \A c \in Cpus : at[c] = "switched" => at'[c] = "switched"

\* Only a switch and its end write on_cpu, rq.current and rq.switched_from.
LEMMA OnlySwitches ==
    ASSUME LInv, NEW c \in Cpus, Proceed(c) \/ Happen(c)
    PROVE  \/ Quiet \/ FinishSwitch(c)
           \/ \E next \in Present \union {Idle} : Switch(c, next)
  <1>0. at \in [Cpus -> Points]
    BY Zenon DEF LInv, Types, CpuTypes, Points
  <1>d. ASSUME at[c] # "switched", Done(c) PROVE \A e \in Cpus : at[e] = "switched" => at'[e] = "switched"
    BY <1>0, <1>d, Zenon DEF Done
  <1>g. ASSUME NEW from, NEW to, from # "switched", Goto(c, from, to)
        PROVE  \A e \in Cpus : at[e] = "switched" => at'[e] = "switched"
    BY <1>0, <1>g, Zenon DEF Goto
  <1>t. ASSUME at[c] # "switched", NEW l, at' = [at EXCEPT ![c] = l]
        PROVE  \A e \in Cpus : at[e] = "switched" => at'[e] = "switched"
    BY <1>0, <1>t
  <1>1. CASE Ttwu(c)
    <2>1. UNCHANGED <<onCpu, current, token>>
      BY <1>1, Zenon DEF Ttwu, Pop, Claim, SelectTarget, Defer, Link, Kick, Direct, Place, taskVars, rqVars
    <2>2. at[c] # "switched" /\ (Done(c) \/ \E from, to : from # "switched" /\ Goto(c, from, to))
      BY <1>1, Zenon DEF Ttwu, Pop, Claim, SelectTarget, Defer, Link, Kick, Direct, Place, Goto
    <2> QED BY <2>1, <2>2, <1>d, <1>g, Zenon DEF Quiet
  <1>2. CASE Service(c) \/ Tick(c) \/ Ipi(c) \/ IdleService(c)
    <2>1. UNCHANGED <<onCpu, current, token>>
      BY <1>2, ZenonT(60) DEF Service, Tick, Ipi, IdleService, IrqExit, TakeList, Activate, Requeue, StrayWake, FinishDrain,
                  Panic, taskVars, rqVars
    <2>2. at[c] # "switched" /\ (UNCHANGED at \/ \E l : at' = [at EXCEPT ![c] = l])
      BY <1>2, Zenon DEF Service, Tick, Ipi, IdleService, IrqExit, TakeList, Activate, Requeue, StrayWake, FinishDrain,
                  Panic, Goto, cpuVars
    <2> QED BY <2>1, <2>2, <1>t, Zenon DEF Quiet
  <1>3. CASE Stay(c) \/ PickedOwned(c) \/ PickedUnqueued(c)
    BY <1>3, ZenonT(60) DEF Stay, PickedOwned, PickedUnqueued, Panic, taskVars, rqVars, cpuVars, Quiet
  <1>4. CASE SwitchTail(c) \/ Balance(c) \/ Migrate(c)
    <2>1. UNCHANGED <<onCpu, current, token>>
      BY <1>4, Zenon DEF SwitchTail, Balance, Migrate, Pull, Move, Attach, AttachRejected, Panic, taskVars, rqVars
    <2>2. at[c] # "switched" /\ (UNCHANGED at \/ \E l : at' = [at EXCEPT ![c] = l])
      BY <1>4, Zenon DEF SwitchTail, Balance, Migrate, Pull, Move, Attach, AttachRejected, Panic, Goto, Done, cpuVars
    <2> QED BY <2>1, <2>2, <1>t DEF Quiet
  <1>5. ASSUME NEW t, TaskStep(c, t) PROVE Quiet
    BY <1>5, ZenonT(60) DEF TaskStep, rqVars, cpuVars, Quiet
  <1>6. ASSUME NEW t \in Waiters, Rouse(c, t) \/ PolicyChange(c, t) \/ \E ctx \in scene.contexts : Post(c, t, ctx)
        PROVE  Quiet
    <2>1. UNCHANGED <<onCpu, current, token>>
      BY <1>6, Zenon DEF Rouse, PolicyChange, Post, Panic, taskVars, rqVars
    <2>2. at[c] # "switched" /\ (UNCHANGED at \/ \E l : at' = [at EXCEPT ![c] = l])
      BY <1>6, Zenon DEF Rouse, PolicyChange, Post, Panic, MayRun, cpuVars
    <2> QED BY <2>1, <2>2, <1>t DEF Quiet
  <1>7. ASSUME NEW t \in Waiters, NEW m \in scene.masks, SetAffinity(c, t, m) PROVE Quiet
    <2>1. UNCHANGED <<onCpu, current, token>>
      BY <1>7 DEF SetAffinity, taskVars, rqVars
    <2>2. at[c] # "switched" /\ (UNCHANGED at \/ \E l : at' = [at EXCEPT ![c] = l])
      BY <1>7, Zenon DEF SetAffinity, MayRun
    <2> QED BY <2>1, <2>2, <1>t, ZenonT(60) DEF Quiet
  <1> QED
    BY <1>1, <1>2, <1>3, <1>4, <1>5, <1>6, <1>7, ZenonT(60) DEF Proceed, Happen, Schedule

LEMMA OwnedStep ==
    ASSUME LInv, OnCpuOwned, [Next]_<<vars, scene>>
    PROVE  OnCpuOwned'
  <1>t. /\ current \in [Cpus -> Present \union {Idle}] /\ token \in [Cpus -> Present \union {Idle, NoTask}]
        /\ onCpu \in [Present -> BOOLEAN] /\ at \in [Cpus -> Points]
    BY Zenon DEF LInv, Types, RqTypes, TaskTypes, CpuTypes, Points
  <1>s. Present' = Present
    BY DEF Next, Present
  <1>p. Idle \notin Present /\ NoTask \notin Present /\ Idle # NoTask
    BY WakeAssumption, Zenon DEF LInv, Types, RestTypes, Present
  <1>1. CASE Quiet
    BY <1>1, <1>s, ZenonT(60) DEF Quiet, OnCpuOwned
  <1>2. ASSUME NEW c \in Cpus, FinishSwitch(c) PROVE OnCpuOwned'
    <2>1. /\ token' = [token EXCEPT ![c] = NoTask] /\ current' = current
          /\ at[c] = "switched" /\ \A d \in Cpus \ {c} : at'[d] = at[d]
          /\ onCpu' = IF token[c] \in Present THEN [onCpu EXCEPT ![token[c]] = FALSE] ELSE onCpu
      BY <1>2, <1>t, ZenonT(60) DEF FinishSwitch, Goto
    <2>2. ASSUME NEW t \in Present, NEW d \in Cpus, current'[d] = t \/ token'[d] = t
          PROVE  onCpu'[t] /\ (current[d] = t \/ token[d] = t)
      <3>1. current[d] = t \/ token[d] = t
        BY <1>t, <1>p, <2>1, <2>2
      <3>2. t # token[c]
        <4>1. CASE d = c
          <5>1. current[c] = t
            BY <1>t, <1>p, <2>1, <2>2, <4>1
          <5> QED BY <1>p, <5>1, ZenonT(60) DEF OnCpuOwned
        <4>2. CASE d # c
          BY <3>1, <4>2, ZenonT(60) DEF OnCpuOwned
        <4> QED BY <4>1, <4>2, Zenon
      <3>3. onCpu[t]
        BY <3>1, ZenonT(60) DEF OnCpuOwned
      <3> QED BY <1>t, <2>1, <3>1, <3>2, <3>3
    <2> QED BY <1>t, <1>s, <1>p, <2>1, <2>2 DEF OnCpuOwned
  <1>3. ASSUME NEW c \in Cpus, NEW next \in Present \union {Idle}, Switch(c, next) PROVE OnCpuOwned'
    <2>1. /\ at[c] = "task" /\ at' = [at EXCEPT ![c] = "switched"] /\ next # current[c]
          /\ next \in Present => ~onCpu[next]
          /\ current' = [current EXCEPT ![c] = next] /\ token' = [token EXCEPT ![c] = current[c]]
          /\ onCpu' = IF next \in Present THEN [onCpu EXCEPT ![next] = TRUE] ELSE onCpu
      BY <1>3, Zenon DEF Switch, MaySchedule, Goto
    <2>2. token[c] = NoTask
      BY <2>1, Zenon DEF OnCpuOwned
    <2>3. /\ current'[c] = next /\ token'[c] = current[c] /\ at'[c] = "switched"
          /\ \A d \in Cpus \ {c} : current'[d] = current[d] /\ token'[d] = token[d] /\ at'[d] = at[d]
      BY <1>t, <2>1, Zenon
    <2>4. \A t \in Present : onCpu[t] => onCpu'[t]
      BY <1>t, <2>1, ZenonT(60)
    <2>5. next \in Present => onCpu'[next] /\ \A d \in Cpus : current[d] # next /\ token[d] # next
      BY <1>t, <2>1 DEF OnCpuOwned
    <2> QED BY <1>t, <1>s, <1>p, <2>1, <2>2, <2>3, <2>4, <2>5 DEF OnCpuOwned
  <1>4. CASE UNCHANGED <<vars, scene>>
    BY <1>4, <1>1, ZenonT(60) DEF vars, taskVars, rqVars, cpuVars, Quiet
  <1>5. CASE Halted
    BY <1>5, <1>1 DEF Halted, vars, taskVars, rqVars, cpuVars, Quiet
  <1> QED
    BY <1>1, <1>2, <1>3, <1>4, <1>5, OnlySwitches, ZenonT(60) DEF Next

LEMMA InitOwned == Init => OnCpuOwned
  <1> SUFFICES ASSUME Init PROVE OnCpuOwned
    OBVIOUS
  <1>1. \A c \in Cpus : token[c] = NoTask /\ current[c] = Idle
    BY Zenon DEF Init
  <1>2. NoTask \notin Present /\ Idle \notin Present
    BY WakeAssumption, Zenon DEF Init, Present
  <1> QED BY <1>1, <1>2, Zenon DEF OnCpuOwned

\* For every number of CPUs and tasks, whatever wakers and migrations do, no
\* task is rq.current of a CPU while another CPU runs it or has not finished
\* switching away from it.
THEOREM TaskRunsOnce == Spec => []RunsOnce
  <1>1. LInv /\ OnCpuOwned /\ [Next]_<<vars, scene>> => LInv' /\ OnCpuOwned'
    BY StepType, OwnedStep, Zenon
  <1>2. OnCpuOwned => RunsOnce
    BY ZenonT(60) DEF OnCpuOwned, RunsOnce
  <1> QED
    BY InitType, InitOwned, <1>1, <1>2, PTL DEF Spec

-----------------------------------------------------------------------------
(* No runnable task is lost *)

\* A step of c that touches no tree, no rq.current and no parked slot, and is
\* not the end of a migration, takes no task from its holder; one that is not
\* the end of a wake takes none from its waker.
LEMMA Holding ==
    ASSUME NEW c \in Cpus, Others(c)
    PROVE  /\ UNCHANGED <<tree, current, parked>> /\ at[c] # "attach" => \A t : Backed(t) => Backed(t)'
           /\ \A t : at[c] \notin {"select", "decide", "place"} \/ wk[c].task # t => (Placing(t) => Placing(t)')
           /\ \A t : at'[c] \in {"select", "decide", "place"} /\ wk'[c].task = wk[c].task => (Placing(t) => Placing(t)')
  <1>1. ASSUME UNCHANGED <<tree, current, parked>>, at[c] # "attach", NEW t, Backed(t) PROVE Backed(t)'
    <2>1. InTree(t) => InTree(t)'
      BY <1>1, Zenon DEF InTree
    <2> QED BY <1>1, <2>1, Zenon DEF Backed, Others
  <1>2. ASSUME NEW t, at[c] \notin {"select", "decide", "place"} \/ wk[c].task # t, Placing(t) PROVE Placing(t)'
    BY <1>2, ZenonT(60) DEF Placing, Others
  <1>3. ASSUME NEW t, at'[c] \in {"select", "decide", "place"}, wk'[c].task = wk[c].task, Placing(t) PROVE Placing(t)'
    BY <1>3 DEF Placing, Others
  <1>4. UNCHANGED <<tree, current, parked>> /\ at[c] # "attach" => \A t : Backed(t) => Backed(t)'
    BY <1>1, ZenonT(60)
  <1>5. \A t : at[c] \notin {"select", "decide", "place"} \/ wk[c].task # t => (Placing(t) => Placing(t)')
    BY <1>2, ZenonT(60)
  <1>6. \A t : at'[c] \in {"select", "decide", "place"} /\ wk'[c].task = wk[c].task => (Placing(t) => Placing(t)')
    BY <1>3
  <1> QED BY <1>4, <1>5, <1>6, Zenon

\* What a step must do for each task to keep Homes.
Keeps(t) ==
    /\ Backed(t) => Backed(t)' \/ (state'[t] = "Sleeping" /\ onRq'[t] = "off")
    /\ state'[t] \in {"Runnable", "Waking"} =>
          state[t] \in {"Runnable", "Waking"} \/ Backed(t)' \/ Placing(t)'
    /\ onRq'[t] # "off" => onRq[t] # "off" \/ Backed(t)'
    /\ onList[t] => onList'[t] \/ Backed(t)'
    /\ Placing(t) => Placing(t)' \/ onList'[t] \/ Backed(t)'

LEMMA HomesFrom ==
    ASSUME Homes, Present' = Present, \A t \in Present : Keeps(t)
    PROVE  Homes'
  <1> SUFFICES ASSUME NEW t \in Present
               PROVE  /\ state'[t] \in {"Runnable", "Waking"} => Backed(t)' \/ onList'[t] \/ Placing(t)'
                      /\ onRq'[t] # "off" => Backed(t)'
    BY Zenon DEF Homes
  <1> QED BY Zenon DEF Homes, Keeps

LEMMA HomesQuiet ==
    ASSUME LInv, Homes, UNCHANGED scene, NEW c \in Cpus, Others(c),
           UNCHANGED <<tree, current, parked, state, onRq, onList>>,
           at[c] \notin {"attach", "select", "decide", "place"}
    PROVE  Homes'
  <1>1. \A t \in Present : Keeps(t)
    BY Holding, ZenonT(60) DEF Keeps
  <1> QED BY <1>1, HomesFrom DEF Present

LEMMA HomesPanic ==
    ASSUME Homes, UNCHANGED scene, NEW p, Panic(p)
    PROVE  Homes'
  <1>1. UNCHANGED <<state, onRq, onList, tree, current, parked, at, wk>>
    BY ZenonT(60) DEF Panic, taskVars, rqVars, listVars, cpuVars
  <1>2. Present' = Present
    BY Zenon DEF Present
  <1>3. ASSUME NEW t PROVE (Backed(t) => Backed(t)') /\ (Placing(t) => Placing(t)')
    <2>1. InTree(t) => InTree(t)'
      BY <1>1, Zenon DEF InTree
    <2>2. Backed(t) => Backed(t)'
      BY <1>1, <2>1, ZenonT(60) DEF Backed
    <2>3. Placing(t) => Placing(t)'
      BY <1>1, ZenonT(60) DEF Placing
    <2> QED BY <2>2, <2>3, Zenon
  <1> QED BY <1>1, <1>2, <1>3, ZenonT(60) DEF Homes

\* enqueue_raw leaves the task in a tree, and every other task where it was.
LEMMA Enqueued ==
    ASSUME LInv, NEW c \in Cpus, NEW t \in Present, EnqueueRaw(c, t)
    PROVE  /\ InTree(t)' /\ \A u : InTree(u) => InTree(u)'
           /\ \A u \in Present \ {t} : state'[u] = state[u] /\ onRq'[u] = onRq[u]
  <1>1. /\ tree \in [Cpus -> SUBSET Present]
        /\ state \in [Present -> {"Runnable", "Sleeping", "Waking"}]
        /\ onRq \in [Present -> {"off", "queued", "migrating"}]
    BY Zenon DEF LInv, Types, RqTypes, TaskTypes
  <1>2. InTree(t)' /\ \A u : InTree(u) => InTree(u)'
    <2>1. CASE InTree(t)
      BY <2>1, Zenon DEF EnqueueRaw, InTree
    <2>2. CASE ~InTree(t)
      <3>1. /\ tree'[c] = tree[c] \union {t}
            /\ \A d \in Cpus \ {c} : tree'[d] = tree[d]
        BY <1>1, <2>2, Zenon DEF EnqueueRaw
      <3> QED BY <3>1, Zenon DEF InTree
    <2> QED BY <2>1, <2>2, Zenon
  <1>3. \A u \in Present \ {t} : state'[u] = state[u] /\ onRq'[u] = onRq[u]
    BY <1>1, ZenonT(60) DEF EnqueueRaw
  <1> QED BY <1>2, <1>3, Zenon

LEMMA HomesWake ==
    ASSUME LInv, Homes, UNCHANGED scene, NEW c \in Cpus, Others(c), Ttwu(c)
    PROVE  Homes'
  <1>0. /\ state \in [Present -> {"Runnable", "Sleeping", "Waking"}] /\ onList \in [Present -> BOOLEAN]
        /\ onRq \in [Present -> {"off", "queued", "migrating"}]
        /\ at \in [Cpus -> Points] /\ wk \in [Cpus -> Works] /\ Present' = Present
    BY Zenon DEF LInv, Types, TaskTypes, ListTypes, CpuTypes, Points, Present
  <1>1. CASE Pop(c) \/ Link(c) \/ Kick(c)
    BY <1>1, HomesQuiet, Zenon DEF Pop, Link, Kick, Goto, taskVars, rqVars, listVars
  <1>2. CASE Claim(c)
    <2>1. at[c] = "claim" /\ UNCHANGED <<tree, current, parked, onRq, onList>> /\ wk[c].task \in Present
      BY <1>2, AtWork, Zenon DEF Claim, rqVars, listVars, Working
    <2>2. CASE state[wk[c].task] = "Sleeping"
      <3>1. /\ state' = [state EXCEPT ![wk[c].task] = "Waking"] /\ at'[c] = "select" /\ wk' = wk
        BY <1>0, <1>2, <2>2, Zenon DEF Claim, Goto
      <3>2. Placing(wk[c].task)'
        BY <3>1, ZenonT(60) DEF Placing
      <3>3. \A t \in Present : Keeps(t)
        BY <1>0, <2>1, <3>1, <3>2, Holding DEF Keeps
      <3> QED BY <1>0, <3>3, HomesFrom, Zenon
    <2>3. CASE state[wk[c].task] # "Sleeping"
      BY <1>2, <2>1, <2>3, HomesQuiet, Zenon DEF Claim
    <2> QED BY <2>2, <2>3, Zenon
  <1>3. CASE SelectTarget(c) \/ Direct(c)
    <2>1. UNCHANGED <<tree, current, parked, state, onRq, onList>> /\ at[c] # "attach"
      BY <1>3, ZenonT(60) DEF SelectTarget, Direct, Goto, taskVars, rqVars, listVars
    <2>2. at'[c] \in {"select", "decide", "place"} /\ wk'[c].task = wk[c].task
      <3>1. CASE SelectTarget(c)
        <4>1. PICK d : wk' = [wk EXCEPT ![c].target = d]
          BY <3>1, Zenon DEF SelectTarget
        <4>2. wk'[c].task = wk[c].task
          BY <1>0, <4>1 DEF Works
        <4> QED BY <1>0, <3>1, <4>2 DEF SelectTarget, Goto
      <3>2. CASE Direct(c)
        BY <1>0, <3>2, Zenon DEF Direct, Goto
      <3> QED BY <1>3, <3>1, <3>2
    <2>3. \A t \in Present : Keeps(t)
      BY <2>1, <2>2, Holding, Zenon DEF Keeps
    <2> QED BY <1>0, <2>3, HomesFrom, Zenon
  <1>4. CASE Defer(c)
    <2>1. UNCHANGED <<tree, current, parked, state, onRq>> /\ at[c] = "decide" /\ wk[c].task \in Present
      BY <1>4, AtWork, Zenon DEF Defer, rqVars, PiSteps, Working
    <2>2. onList'[wk[c].task] /\ \A t \in Present : onList[t] => onList'[t]
      BY <1>0, <1>4, <2>1 DEF Defer, listVars
    <2>3. \A t \in Present : Keeps(t)
      BY <2>1, <2>2, Holding, Zenon DEF Keeps
    <2> QED BY <1>0, <2>3, HomesFrom, Zenon
  <1>5. CASE Place(c)
    <2>1. PICK t \in Present : t = wk[c].task
      BY <1>5, AtWork DEF Place, PiSteps, Working
    <2>2. at[c] = "place" /\ EnqueueRaw(c, t) /\ UNCHANGED <<current, parked, onList>>
      BY <1>5, <2>1, Zenon DEF Place, listVars
    <2>3. InTree(t)' /\ \A u : InTree(u) => InTree(u)'
      BY <2>2, Enqueued, Zenon
    <2>4. \A u \in Present \ {t} : state'[u] = state[u] /\ onRq'[u] = onRq[u]
      BY <2>2, Enqueued, ZenonT(60)
    <2>5. Backed(t)' /\ \A u : Backed(u) => Backed(u)'
      BY <2>2, <2>3 DEF Backed, Others
    <2>6. \A u : u # t => (Placing(u) => Placing(u)')
      BY <2>1, Holding, Zenon
    <2>7. ASSUME NEW u \in Present PROVE Keeps(u)
      BY <2>2, <2>4, <2>5, <2>6, ZenonT(60) DEF Keeps
    <2> QED BY <1>0, <2>7, HomesFrom, ZenonT(60)
  <1> QED
    BY <1>1, <1>2, <1>3, <1>4, <1>5 DEF Ttwu

LEMMA HomesActivate ==
    ASSUME LInv, Homes, UNCHANGED scene, NEW c \in Cpus, Activate(c)
    PROVE  Homes'
  <1>1. PICK t \in Present : t = Head(chain[c])
    BY ChainHead, Zenon DEF Activate
  <1>2. /\ UNCHANGED <<current, parked, at, wk>> /\ onList' = [onList EXCEPT ![t] = FALSE]
        /\ \/ /\ t = current[c] \/ onRq[t] # "off"
              /\ state' = [state EXCEPT ![t] = CompleteWake(@)] /\ UNCHANGED <<onRq, tree>>
           \/ EnqueueRaw(c, t)
    BY <1>1, Zenon DEF Activate
  <1>3. onList \in [Present -> BOOLEAN] /\ state \in [Present -> {"Runnable", "Sleeping", "Waking"}]
    BY Zenon DEF LInv, Types, TaskTypes, ListTypes
  <1>4. /\ Backed(t)' /\ \A u : Backed(u) => Backed(u)'
        /\ \A u \in Present \ {t} : state'[u] = state[u] /\ onRq'[u] = onRq[u]
    <2>1. CASE EnqueueRaw(c, t)
      <3>1. InTree(t)' /\ \A u : InTree(u) => InTree(u)'
        BY <2>1, Enqueued
      <3>2. \A u \in Present \ {t} : state'[u] = state[u] /\ onRq'[u] = onRq[u]
        BY <2>1, Enqueued, Zenon
      <3> QED BY <1>2, <3>1, <3>2, ZenonT(60) DEF Backed
    <2>2. CASE /\ t = current[c] \/ onRq[t] # "off"
               /\ state' = [state EXCEPT ![t] = CompleteWake(@)] /\ UNCHANGED <<onRq, tree>>
      <3>1. Backed(t)
        BY <2>2, Zenon DEF Backed, Homes
      <3>2. \A u : Backed(u) => Backed(u)'
        BY <1>2, <2>2, Zenon DEF Backed, InTree
      <3> QED BY <1>3, <2>2, <3>1, <3>2, ZenonT(60)
    <2> QED BY <1>2, <2>1, <2>2, Zenon
  <1>5. \A u : Placing(u) => Placing(u)'
    BY <1>2, ZenonT(60) DEF Placing
  <1>6. \A u \in Present \ {t} : onList[u] => onList'[u]
    BY <1>2, <1>3
  <1>7. ASSUME NEW u \in Present PROVE Keeps(u)
    BY <1>4, <1>5, <1>6, Zenon DEF Keeps
  <1> QED BY <1>7, HomesFrom, Zenon DEF Present

\* A round that keeps the outgoing task, evicts it or lets it sleep.
LEMMA HomesSwitch ==
    ASSUME LInv, Homes, UNCHANGED scene, NEW c \in Cpus, Others(c),
           NEW next \in Present \union {Idle}, Switch(c, next)
    PROVE  Homes'
  <1>t. /\ tree \in [Cpus -> SUBSET Present] /\ current \in [Cpus -> Present \union {Idle}]
        /\ parked \in [Cpus -> [task : Present \union {NoTask}, target : Cpus \union {NoTask}]]
        /\ state \in [Present -> {"Runnable", "Sleeping", "Waking"}]
        /\ onRq \in [Present -> {"off", "queued", "migrating"}]
        /\ Idle \notin Present /\ NoTask \notin Present
    BY WakeAssumption, Zenon DEF LInv, Types, RqTypes, TaskTypes, RestTypes, Present
  <1>1. PICK prev : prev = current[c]
    BY Zenon
  <1>2. /\ at[c] = "task" /\ next # prev /\ UNCHANGED <<onList, wk>> /\ PutPrev(c)
        /\ tree' = [tree EXCEPT ![c] = Ready(c) \ {next}] /\ current' = [current EXCEPT ![c] = next]
    BY <1>1, ZenonT(60) DEF Switch, MaySchedule, listVars
  <1>3. /\ \A u \in Present \ {prev} : state'[u] = state[u] /\ onRq'[u] = onRq[u]
        /\ prev \in Present /\ state'[prev] \in {"Runnable", "Waking"} => state[prev] \in {"Runnable", "Waking"}
    BY <1>t, <1>1, <1>2, ZenonT(60) DEF PutPrev, PutBack, StaysRunnable, CompleteWake
  <1>4. \A d \in Cpus : parked'[d] = parked[d] \/ (d = c /\ parked[c] = NoPark)
    <2>1. CASE Evicted(c)
      BY <1>t, <1>2, <2>1, Zenon DEF PutPrev, Evicted
    <2>2. CASE ~Evicted(c)
      BY <1>2, <2>2, ZenonT(60) DEF PutPrev
    <2> QED BY <2>1, <2>2, Zenon
  <1>5. \A u : InTree(u) => InTree(u)' \/ u = next
    <2>1. /\ tree'[c] = Ready(c) \ {next} /\ tree[c] \subseteq Ready(c)
          /\ \A d \in Cpus \ {c} : tree'[d] = tree[d]
      BY <1>t, <1>2, Zenon DEF Ready
    <2> QED BY <2>1 DEF InTree
  <1>6. current'[c] = next /\ \A d \in Cpus \ {c} : current'[d] = current[d]
    BY <1>t, <1>2, Zenon
  <1>7. ASSUME NEW u \in Present, Backed(u), u # prev PROVE Backed(u)'
    <2>1. \A d \in Cpus : parked[d].task = u => parked'[d].task = u
      BY <1>4, <1>t, <1>7 DEF NoPark
    <2>2. \A d \in Cpus : current[d] = u => current'[d] = u
      BY <1>1, <1>6, <1>7
    <2>3. \A d \in Cpus : at[d] = "attach" /\ wk[d].task = u => at'[d] = "attach" /\ wk'[d].task = u
      BY <1>2, Zenon DEF Others
    <2> QED BY <1>5, <1>6, <1>7, <2>1, <2>2, <2>3, ZenonT(60) DEF Backed
  <1>8. prev \in Present => Backed(prev)' \/ (state'[prev] = "Sleeping" /\ onRq'[prev] = "off")
    <2> SUFFICES ASSUME prev \in Present PROVE Backed(prev)' \/ (state'[prev] = "Sleeping" /\ onRq'[prev] = "off")
      BY Zenon
    <2>1. CASE PutBack(c)
      <3>1. InTree(prev)'
        <4>1. CASE InTree(prev)
          BY <1>2, <1>5, <4>1, Zenon
        <4>2. CASE ~InTree(prev)
          <5>1. prev \in Ready(c) \ {next}
            BY <1>1, <1>2, <2>1, <4>2, ZenonT(60) DEF Ready, Requeued
          <5> QED BY <1>t, <1>2, <5>1, Zenon DEF InTree
        <4> QED BY <4>1, <4>2, Zenon
      <3> QED BY <3>1, Zenon DEF Backed
    <2>2. CASE Evicted(c)
      <3>1. parked'[c].task = prev
        BY <1>t, <1>1, <1>2, <2>2 DEF PutPrev
      <3> QED BY <3>1, ZenonT(60) DEF Backed
    <2>3. CASE ~PutBack(c) /\ ~Evicted(c)
      <3>1. state[prev] = "Sleeping"
        BY <1>t, <1>1, <2>3, ZenonT(60) DEF PutBack, StaysRunnable
      <3> QED BY <1>t, <1>1, <1>2, <2>3, <3>1, ZenonT(60) DEF PutPrev
    <2> QED BY <2>1, <2>2, <2>3, Zenon
  <1>9. \A u : Placing(u) => Placing(u)'
    BY <1>2, Holding
  <1>10. ASSUME NEW u \in Present PROVE Keeps(u)
    <2>1. CASE u = prev
      BY <1>2, <1>3, <1>8, <1>9, <2>1, ZenonT(60) DEF Keeps
    <2>2. CASE u # prev
      BY <1>2, <1>3, <1>7, <1>9, <2>2, ZenonT(60) DEF Keeps
    <2> QED BY <2>1, <2>2, Zenon
  <1> QED BY <1>10, HomesFrom, Zenon DEF Present

LEMMA HomesStay ==
    ASSUME LInv, Homes, UNCHANGED scene, NEW c \in Cpus, Stay(c)
    PROVE  Homes'
  <1>t. /\ tree \in [Cpus -> SUBSET Present] /\ current \in [Cpus -> Present \union {Idle}]
        /\ state \in [Present -> {"Runnable", "Sleeping", "Waking"}]
        /\ onRq \in [Present -> {"off", "queued", "migrating"}] /\ Idle \notin Present
    BY WakeAssumption, Zenon DEF LInv, Types, RqTypes, TaskTypes, RestTypes, Present
  <1>1. PICK prev : prev = current[c]
    OBVIOUS
  <1>2. /\ UNCHANGED <<onList, wk, at, current>> /\ PutPrev(c)
        /\ tree' = [tree EXCEPT ![c] = Ready(c) \ {prev}]
        /\ prev # Idle => PutBack(c)
    BY <1>1, Zenon DEF Stay, listVars
  <1>3. UNCHANGED parked
    BY <1>t, <1>1, <1>2, Zenon DEF PutPrev, PutBack, Evicted, StaysRunnable
  <1>4. \A u \in Present \ {prev} : state'[u] = state[u] /\ onRq'[u] = onRq[u]
    BY <1>t, <1>1, <1>2, Zenon DEF PutPrev, PutBack, StaysRunnable, CompleteWake
  <1>5. Backed(prev)'
    BY <1>1, <1>2, ZenonT(60) DEF Backed
  <1>6. \A u : InTree(u) => InTree(u)' \/ u = prev
    <2>1. /\ tree'[c] = Ready(c) \ {prev} /\ tree[c] \subseteq Ready(c)
          /\ \A d \in Cpus \ {c} : tree'[d] = tree[d]
      BY <1>t, <1>2, ZenonT(60) DEF Ready
    <2> QED BY <2>1 DEF InTree
  <1>7. \A u : u # prev => (Backed(u) => Backed(u)')
    BY <1>2, <1>3, <1>6, ZenonT(60) DEF Backed
  <1>8. \A u : Placing(u) => Placing(u)'
    BY <1>2 DEF Placing
  <1>9. ASSUME NEW u \in Present PROVE Keeps(u)
    <2>1. CASE u = prev
      BY <1>2, <1>5, <1>8, <2>1, Zenon DEF Keeps
    <2>2. CASE u # prev
      BY <1>2, <1>4, <1>7, <1>8, <2>2, ZenonT(60) DEF Keeps
    <2> QED BY <2>1, <2>2, Zenon
  <1> QED BY <1>9, HomesFrom DEF Present

LEMMA HomesMigrate ==
    ASSUME LInv, Homes, UNCHANGED scene, NEW c \in Cpus, Others(c), SwitchTail(c) \/ Move(c) \/ Attach(c)
    PROVE  Homes'
  <1>t. /\ tree \in [Cpus -> SUBSET Present] /\ at \in [Cpus -> Points] /\ wk \in [Cpus -> Works]
        /\ parked \in [Cpus -> [task : Present \union {NoTask}, target : Cpus \union {NoTask}]]
        /\ onRq \in [Present -> {"off", "queued", "migrating"}] /\ cpu \in [Present -> Cpus]
    BY ZenonT(60) DEF LInv, Types, RqTypes, TaskTypes, CpuTypes, Points
  <1>1. CASE SwitchTail(c)
    <2>1. PICK p \in Present : p = parked[c].task
      BY <1>1, Zenon DEF SwitchTail, LInv, ParkSet
    <2>2. /\ at[c] = "tail" /\ at'[c] = "attach" /\ wk'[c].task = p
          /\ parked' = [parked EXCEPT ![c] = NoPark] /\ UNCHANGED <<state, onRq, onList, tree, current>>
      <3>1. /\ at[c] = "tail" /\ at' = [at EXCEPT ![c] = "attach"]
            /\ \E d : wk' = [wk EXCEPT ![c] = Moving(p, d, TRUE)]
            /\ parked' = [parked EXCEPT ![c] = NoPark] /\ UNCHANGED <<state, onRq, onList, tree, current>>
        BY <1>1, <2>1, ZenonT(60) DEF SwitchTail, Goto, listVars
      <3>2. at'[c] = "attach"
        BY <1>t, <3>1, ZenonT(60)
      <3>3. wk'[c].task = p
        BY <1>t, <3>1 DEF Moving
      <3> QED BY <3>1, <3>2, <3>3, Zenon
    <2>3. Backed(p)'
      BY <2>2, Zenon DEF Backed
    <2>4. ASSUME NEW u, Backed(u), u # p PROVE Backed(u)'
      <3>1. \A d \in Cpus : parked[d].task = u => parked'[d].task = u
        BY <1>t, <2>1, <2>2, <2>4, ZenonT(60)
      <3> QED BY <2>2, <2>4, <3>1, ZenonT(60) DEF Backed, Others, InTree
    <2>5. \A u : Placing(u) => Placing(u)'
      BY <2>2, Holding, Zenon
    <2>6. ASSUME NEW u \in Present PROVE Keeps(u)
      BY <2>2, <2>3, <2>4, <2>5, Zenon DEF Keeps
    <2> QED BY <2>6, HomesFrom DEF Present
  <1>2. CASE Move(c)
    <2>1. PICK t \in Present : t = wk[c].task
      BY <1>2, AtWork, Zenon DEF Move, PiSteps, Working
    <2>2. PICK from \in Cpus : from = cpu[t]
      BY <1>t, <2>1, Zenon
    <2>3. CASE onRq[t] = "queued" /\ current[from] # t /\ t \in tree[from]
      <3>1. /\ at[c] = "move" /\ UNCHANGED <<state, current, parked, onList>>
            /\ tree' = [tree EXCEPT ![from] = @ \ {t}] /\ onRq' = [onRq EXCEPT ![t] = "migrating"]
            /\ at'[c] = "attach" /\ \E d : wk' = [wk EXCEPT ![c].target = d]
        BY <1>2, <1>t, <2>1, <2>2, <2>3, ZenonT(60) DEF Move, Goto, listVars
      <3>2. wk'[c].task = t
        BY <1>t, <2>1, <3>1 DEF Works
      <3>3. Backed(t)'
        BY <3>1, <3>2, Zenon DEF Backed
      <3>4. \A u : InTree(u) => InTree(u)' \/ u = t
        <4>1. tree'[from] = tree[from] \ {t} /\ \A d \in Cpus \ {from} : tree'[d] = tree[d]
          BY <1>t, <3>1
        <4> QED BY <4>1, Zenon DEF InTree
      <3>5. \A u : u # t => (Backed(u) => Backed(u)')
        BY <3>1, <3>4 DEF Backed, Others
      <3>6. \A u : Placing(u) => Placing(u)'
        BY <3>1, Holding
      <3>7. \A u \in Present \ {t} : onRq'[u] = onRq[u]
        BY <1>t, <3>1
      <3>8. ASSUME NEW u \in Present PROVE Keeps(u)
        BY <3>1, <3>3, <3>5, <3>6, <3>7, ZenonT(60) DEF Keeps
      <3> QED BY <3>8, HomesFrom, Zenon DEF Present
    <2>4. CASE ~(onRq[t] = "queued" /\ current[from] # t /\ t \in tree[from])
      <3>1. /\ at[c] = "move" /\ UNCHANGED <<state, current, parked, onList>> /\ UNCHANGED <<tree, onRq>>
        BY <1>2, <2>1, <2>2, <2>4, ZenonT(60) DEF Move, listVars
      <3> QED BY <3>1, HomesQuiet
    <2> QED BY <2>3, <2>4, Zenon
  <1>3. CASE Attach(c)
    <2>1. PICK t \in Present : t = wk[c].task
      BY <1>3, AtWork, ZenonT(60) DEF Attach, PiSteps, Working
    <2>2. PICK d \in Cpus : d = wk[c].target
      BY <1>3, AtWork DEF Attach, PiSteps, Aimed
    <2>3. at[c] = "attach" /\ EnqueueRaw(d, t) /\ UNCHANGED <<current, parked, onList>>
      BY <1>3, <2>1, <2>2, Zenon DEF Attach, listVars
    <2>4. InTree(t)' /\ \A u : InTree(u) => InTree(u)'
      BY <2>3, Enqueued, Zenon
    <2>5. \A u \in Present \ {t} : state'[u] = state[u] /\ onRq'[u] = onRq[u]
      BY <2>3, Enqueued, Zenon
    <2>6. Backed(t)' /\ \A u : Backed(u) => Backed(u)'
      BY <2>1, <2>3, <2>4, Zenon DEF Backed, Others
    <2>7. \A u : Placing(u) => Placing(u)'
      BY <2>3, Holding, Zenon
    <2>8. ASSUME NEW u \in Present PROVE Keeps(u)
      BY <2>3, <2>5, <2>6, <2>7, ZenonT(60) DEF Keeps
    <2> QED BY <2>8, HomesFrom, Zenon DEF Present
  <1> QED BY <1>1, <1>2, <1>3, Zenon

LEMMA HomesTask ==
    ASSUME LInv, Homes, UNCHANGED scene, NEW c \in Cpus, NEW t \in Present, TaskStep(c, t)
    PROVE  Homes'
  <1>1. current[c] = t /\ UNCHANGED <<onRq, onList, tree, current, parked, at, wk>>
    BY ZenonT(60) DEF TaskStep, Park, Recheck, Woken, CancelPark, WaitEvent, Step, Runs, rqVars, listVars, cpuVars
  <1>2. \A u \in Present \ {t} : state'[u] = state[u]
    BY DEF TaskStep, Park, Recheck, Woken, CancelPark, WaitEvent, LInv, Types, TaskTypes
  <1>3. Backed(t)' /\ \A u : (Backed(u) => Backed(u)') /\ (Placing(u) => Placing(u)')
    BY <1>1, Zenon DEF Backed, InTree, Placing
  <1>4. ASSUME NEW u \in Present PROVE Keeps(u)
    BY <1>1, <1>2, <1>3, Zenon DEF Keeps
  <1> QED BY <1>4, HomesFrom, Zenon DEF Present

LEMMA HomesStep ==
    ASSUME LInv, Homes, [Next]_<<vars, scene>>
    PROVE  Homes'
  <1>s. UNCHANGED <<scene, state, onRq, onList, tree, current, parked, at, wk>> => Homes'
    <2> SUFFICES ASSUME UNCHANGED <<scene, state, onRq, onList, tree, current, parked, at, wk>> PROVE Homes'
      BY Zenon
    <2>1. \A t : (Backed(t)' <=> Backed(t)) /\ (Placing(t)' <=> Placing(t))
      BY Zenon DEF Backed, InTree, Placing
    <2>2. Present' = Present
      BY Zenon DEF Present
    <2> QED BY <2>1, <2>2, Zenon DEF Homes
  <1>0. CASE UNCHANGED <<vars, scene>>
    BY <1>s, <1>0, Zenon DEF vars, taskVars, rqVars, listVars, cpuVars
  <1>1. CASE Next /\ Halted
    BY <1>s, <1>1, Zenon DEF Next, Halted, vars, taskVars, rqVars, listVars, cpuVars
  <1>2. ASSUME Next, NEW c \in Cpus, Proceed(c) \/ Happen(c) PROVE Homes'
    <2>0. UNCHANGED scene /\ Others(c)
      BY <1>2, OwnPoint, Zenon DEF Next
    <2>1. CASE Service(c) \/ Tick(c) \/ Ipi(c) \/ IdleService(c)
      <3>1. CASE Tick(c) \/ Ipi(c) \/ IdleService(c) \/ IrqExit(c)
        BY <2>0, <3>1, HomesQuiet, ZenonT(60) DEF Tick, Ipi, IdleService, IrqExit, TakeList, taskVars, rqVars
      <3>2. CASE Requeue(c) \/ FinishDrain(c)
        BY <2>0, <3>2, HomesQuiet, Zenon DEF Requeue, FinishDrain, Goto, taskVars, rqVars
      <3>3. CASE StrayWake(c)
        BY <2>0, <3>3, HomesPanic, ZenonT(60) DEF StrayWake
      <3> QED BY <2>0, <2>1, <3>1, <3>2, <3>3, HomesActivate, ZenonT(60) DEF Service
    <2>2. CASE Schedule(c) \/ FinishSwitch(c)
      <3>1. CASE FinishSwitch(c)
        BY <2>0, <3>1, HomesQuiet DEF FinishSwitch, Goto, listVars
      <3>2. CASE PickedOwned(c) \/ PickedUnqueued(c)
        BY <2>0, <3>2, HomesPanic, ZenonT(60) DEF PickedOwned, PickedUnqueued
      <3> QED BY <2>0, <2>2, <3>1, <3>2, HomesSwitch, HomesStay, ZenonT(60) DEF Schedule
    <2>3. CASE SwitchTail(c) \/ Balance(c) \/ Migrate(c)
      <3>1. CASE Balance(c) \/ Pull(c)
        BY <2>0, <3>1, HomesQuiet, Zenon DEF Balance, Pull, Goto, taskVars, rqVars, listVars
      <3>2. CASE AttachRejected(c)
        BY <2>0, <3>2, HomesPanic, Zenon DEF AttachRejected
      <3> QED BY <2>0, <2>3, <3>1, <3>2, HomesMigrate DEF Migrate
    <2>4. ASSUME NEW t \in Waiters, Rouse(c, t) \/ PolicyChange(c, t) \/ \E ctx \in scene.contexts : Post(c, t, ctx)
          PROVE  Homes'
      <3>1. CASE PolicyChange(c, t)
        BY <2>0, <3>1, HomesPanic, ZenonT(60) DEF PolicyChange
      <3>2. CASE Rouse(c, t) \/ \E ctx \in scene.contexts : Post(c, t, ctx)
        BY <2>0, <3>2, HomesQuiet, Zenon DEF Rouse, Post, MayRun, taskVars, rqVars, listVars
      <3> QED BY <2>4, <3>1, <3>2, ZenonT(60)
    <2>5. ASSUME NEW t \in Waiters, NEW m \in scene.masks, SetAffinity(c, t, m) PROVE Homes'
      BY <2>0, <2>5, HomesQuiet, Zenon DEF SetAffinity, MayRun, taskVars, rqVars, listVars
    <2> QED
      BY <1>2, <2>0, <2>1, <2>2, <2>3, <2>4, <2>5, HomesWake, HomesTask, ZenonT(60) DEF Proceed, Happen
  <1> QED BY <1>0, <1>1, <1>2, Zenon DEF Next

LEMMA InitHomes == Init => Homes
  <1> SUFFICES ASSUME Init, NEW t \in Present PROVE Backed(t)
    BY ZenonT(60) DEF Homes
  <1>1. cpu[t] \in Cpus /\ t \in tree[cpu[t]]
    BY DEF Init
  <1> QED BY <1>1, Zenon DEF Backed, InTree

\* For every number of CPUs and tasks, a task that is runnable or being woken
\* is in a class tree, on a wake list, parked, running, or held by the CPU that
\* has its TaskPi: no interleaving of wakes, switches and migrations loses it.
THEOREM NoneStranded == Spec => []NeverStranded
  <1>1. LInv /\ Homes /\ [Next]_<<vars, scene>> => LInv' /\ Homes'
    BY StepType, HomesStep
  <1>2. Homes => NeverStranded
    <2> SUFFICES ASSUME Homes, NEW t \in Present, Backed(t) \/ onList[t] \/ Placing(t)
                 PROVE  \/ InTree(t) \/ onList[t] \/ ~PiFree(t)
                        \/ \E c \in Cpus : current[c] = t \/ parked[c].task = t
      BY DEF Homes, NeverStranded
    <2> QED BY ZenonT(60) DEF Backed, Placing, PiFree, PiSteps
  <1> QED
    BY InitType, InitHomes, <1>1, <1>2, PTL DEF Spec
=============================================================================
