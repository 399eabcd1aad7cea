----------------------------- MODULE FutexProofs -----------------------------
(***************************************************************************)
(* Proofs about Futex, for every number of words, tasks and wakers and     *)
(* whatever they call: type correctness; a wait reports a wake exactly     *)
(* when one took it; and, where those who change a word wake all who wait  *)
(* on it, no task stays registered on a changed word without a waker.      *)
(***************************************************************************)
EXTENDS Futex, FiniteSetTheorems, TLAPS

\* A wake count of INT_MAX is enough for all of k tasks, also after h of them.
LEMMA Plenty ==
    ASSUME NEW k \in Nat, NEW m \in Nat, m >= 2 * k, NEW n \in Nat, n >= m
    PROVE  /\ n \in Int /\ n >= k /\ \A h \in Nat : h <= k => n - h \in Int /\ n - h >= k
           /\ k # 0 => \A h \in Nat : h <= k => h < n
  <1>1. n \in Int /\ n >= k /\ \A h \in Nat : h <= k => n - h \in Int /\ n - h >= k
    OBVIOUS
  <1>2. k # 0 => \A h \in Nat : h <= k => h < n
    OBVIOUS
  <1> QED BY <1>1, <1>2

-----------------------------------------------------------------------------
(* Type correctness, by groups of variables *)

Outside == {"user", "lost"}
Waiting == {"arm", "sched", "asleep", "awake", "remove"}
Points == Outside \union {"load", "queue"} \union Waiting
Active == {"scan", "groups", "compare", "move"}

ListTypes ==
    /\ queued \in [Tasks -> Words \union {NoWord}] /\ grouped \in [Tasks -> BOOLEAN]
    /\ took \in [Tasks -> Nat]

\* woken_idx is 0 or the index of a word of the call; a call names a word.
CallTypes ==
    /\ pc \in [Tasks -> Points] /\ res \in [Tasks -> Nat] /\ woken \in [Tasks -> Nat]
    /\ DOMAIN call = Tasks
    /\ \A t \in Tasks : call[t].words \in Seq(Words) /\ woken[t] <= Len(call[t].words)
    /\ \A t \in Tasks : pc[t] \in Outside <=> call[t].words = <<>>

StateTypes ==
    /\ st \in [Tasks -> {"Runnable", "Sleeping", "Waking"}]
    /\ deadline \in [Tasks -> BOOLEAN] /\ armed \in [Tasks -> BOOLEAN] /\ popped \subseteq Tasks
    /\ node \in [Tasks -> BOOLEAN]

FlagTypes == due \in [Tasks -> BOOLEAN] /\ sig \in [Tasks -> BOOLEAN]

\* A waker that is inside its call has an operation.
AgentTypes ==
    /\ at \in [Wakers -> Active \union {"user", "claim"}]
    /\ op \in [Wakers -> Operations \union {NoOp}]
    /\ \A a \in Wakers : at[a] \in Active => op[a] \in Operations
    /\ \A a \in Wakers : at[a] \in {"compare", "move"} => op[a].dst \in Words

HitTypes == hits \in [Agents -> SUBSET Tasks] /\ target \in [Agents -> Tasks \union {NoTask}]

RestTypes == cfg \in Configs /\ word \in [Words -> Values]

Types == ListTypes /\ CallTypes /\ StateTypes /\ FlagTypes /\ AgentTypes /\ HitTypes /\ RestTypes

\* The words of a call are words of the program.
LEMMA Named ==
    ASSUME NEW s \in Seq(Words), NEW i \in DOMAIN s
    PROVE  s[i] \in Words /\ s[i] # NoWord
  BY NameAssumption

LEMMA Nonzero == 1 # 0
  OBVIOUS

\* A group that a step leaves alone keeps its types.
LEMMA Frame ==
    ASSUME Types
    PROVE  /\ UNCHANGED <<queued, grouped, took>> => ListTypes'
           /\ UNCHANGED <<call, pc, res, woken>> => CallTypes'
           /\ UNCHANGED <<st, deadline, armed, popped, node>> => StateTypes'
           /\ UNCHANGED <<due, sig>> => FlagTypes'
           /\ UNCHANGED <<at, op>> => AgentTypes'
           /\ UNCHANGED <<hits, target>> => HitTypes'
           /\ UNCHANGED <<cfg, word>> => RestTypes'
  <1>1. UNCHANGED <<queued, grouped, took>> => ListTypes'
    BY DEF Types, ListTypes
  <1>2. UNCHANGED <<call, pc, res, woken>> => CallTypes'
    BY DEF Types, CallTypes
  <1>3. UNCHANGED <<st, deadline, armed, popped, node>> => StateTypes'
    BY DEF Types, StateTypes
  <1>4. UNCHANGED <<due, sig>> => FlagTypes'
    BY DEF Types, FlagTypes
  <1>5. UNCHANGED <<at, op>> => AgentTypes'
    BY DEF Types, AgentTypes
  <1>6. UNCHANGED <<hits, target>> => HitTypes'
    BY DEF Types, HitTypes
  <1>7. UNCHANGED <<cfg, word>> => RestTypes'
    BY DEF Types, RestTypes
  <1> QED BY <1>1, <1>2, <1>3, <1>4, <1>5, <1>6, <1>7

\* The two ways on of a waiting task.
LEMMA ReturnType ==
    ASSUME Types, NEW t \in Tasks, NEW r \in Nat, Return(t, r)
    PROVE  CallTypes' /\ FlagTypes'
  <1>1. CallTypes'
    BY DEF Types, CallTypes, Return, NoCall, Points, Outside
  <1>2. FlagTypes'
    BY DEF Types, FlagTypes, Return
  <1> QED BY <1>1, <1>2, Zenon

LEMMA GotoType ==
    ASSUME Types, NEW t \in Tasks, NEW l \in Points, pc' = [pc EXCEPT ![t] = l],
           pc[t] \in Outside <=> l \in Outside, UNCHANGED <<call, res, woken>>
    PROVE  CallTypes'
  BY DEF Types, CallTypes

LEMMA TaskType ==
    ASSUME Types, NEW t \in Tasks, TaskStep(t)
    PROVE  Types'
  <1>t. pc \in [Tasks -> Points] /\ woken \in [Tasks -> Nat]
    BY DEF Types, CallTypes
  <1>1. CASE Load(t)
    <2>1. CallTypes' /\ FlagTypes'
      BY <1>1, <1>t, ReturnType, GotoType, Frame DEF Load, Goto, Quiet, Points, Outside
    <2> QED BY <1>1, <2>1, Frame DEF Load, agentVars, Types
  <1>2. CASE Queue(t)
    <2>1. CallTypes' /\ FlagTypes'
      BY <1>2, <1>t, ReturnType, GotoType, Frame DEF Queue, Enqueue, Goto, Quiet, Points, Outside, Waiting
    <2>2. CASE Changed(t)
      BY <1>2, <2>1, <2>2, Frame DEF Queue, agentVars, Types
    <2>3. CASE ~Changed(t)
      <3>1. ListTypes'
        <4>1. call[t].words \in Seq(Words) /\ call[t].words # <<>>
          BY <1>2, Zenon DEF Queue, Types, CallTypes, Outside
        <4>2. call[t].words[1] \in Words
          BY <4>1
        <4> QED BY <1>2, <2>3, <4>2, Zenon DEF Queue, Enqueue, Types, ListTypes
      <3>2. StateTypes'
        BY <1>2, <2>3 DEF Queue, Enqueue, Types, StateTypes
      <3> QED BY <1>2, <2>1, <3>1, <3>2, Frame DEF Queue, agentVars, Types
    <2> QED BY <2>2, <2>3, Zenon
  <1>3. CASE Arm(t)
    <2>1. CallTypes'
      BY <1>3, GotoType, Zenon DEF Arm, Goto, listVars, Points, Outside, Waiting
    <2>2. StateTypes'
      BY <1>3 DEF Arm, Types, StateTypes
    <2> QED BY <1>3, <2>1, <2>2, Frame DEF Arm, listVars, agentVars, Types
  <1>4. CASE Schedule(t)
    <2>1. CallTypes'
      BY <1>4, GotoType, Zenon DEF Schedule, Goto, listVars, Points, Outside, Waiting
    <2>2. StateTypes'
      BY <1>4, Zenon DEF Schedule, Types, StateTypes, CompleteWake, timeVars
    <2> QED BY <1>4, <2>1, <2>2, Frame DEF Schedule, listVars, timeVars, agentVars, Types
  <1>5. CASE Awake(t)
    <2>1. CallTypes' /\ FlagTypes'
      BY <1>5, <1>t, ReturnType, GotoType, Frame, ZenonT(60) DEF Awake, Goto, Quiet, Points, Outside, Waiting
    <2>2. StateTypes'
      BY <1>5 DEF Awake, Types, StateTypes
    <2> QED BY <1>5, <2>1, <2>2, Frame, Zenon DEF Awake, agentVars, Types
  <1>6. CASE Remove(t)
    <2>1. CallTypes' /\ FlagTypes'
      BY <1>6, <1>t, ReturnType, GotoType, Frame DEF Remove, Classify, Goto, Quiet, Points, Outside, Waiting
    <2>2. ListTypes'
      BY <1>6, ZenonT(60) DEF Remove, Types, ListTypes
    <2> QED BY <1>6, <2>1, <2>2, Frame, ZenonT(60) DEF Remove, agentVars, Types
  <1> QED BY <1>1, <1>2, <1>3, <1>4, <1>5, <1>6 DEF TaskStep

LEMMA OtherType ==
    ASSUME Types, NEW t \in Tasks
    PROVE  /\ Preempt(t) => Types'
           /\ \A c \in cfg.calls[t] : Call(t, c) => Types'
           /\ Drain(t) \/ Elapse(t) \/ Sweep(t) \/ Signal(t) => Types'
  <1>t. pc \in [Tasks -> Points]
    BY DEF Types, CallTypes
  <1>1. ASSUME Preempt(t) PROVE Types'
    <2>1. CallTypes'
      BY <1>1, GotoType, Zenon DEF Preempt, Goto, listVars, Points, Outside
    <2>2. StateTypes'
      BY <1>1, Zenon DEF Preempt, Types, StateTypes, CompleteWake, timeVars
    <2> QED BY <1>1, <2>1, <2>2, Frame DEF Preempt, listVars, timeVars, agentVars, Types
  <1>2. ASSUME NEW c \in cfg.calls[t], Call(t, c) PROVE Types'
    <2>1. CallTypes'
      <3>1. c.words \in Seq(Words) /\ c.words # <<>>
        BY ConfigAssumption, ZenonT(60) DEF Types, RestTypes
      <3>2. /\ \A u \in Tasks : call'[u].words = IF u = t THEN c.words ELSE call[u].words
            /\ DOMAIN call' = Tasks /\ UNCHANGED woken
        BY <1>2 DEF Call, Types, CallTypes
      <3>3. woken[t] = 0
        <4>1. call[t].words = <<>>
          BY <1>2, Zenon DEF Call, Goto, Types, CallTypes, Outside
        <4>2. woken[t] \in Nat /\ woken[t] <= Len(call[t].words)
          BY Zenon DEF Types, CallTypes
        <4> QED BY <4>1, <4>2
      <3> QED BY <1>2, <3>1, <3>2, <3>3 DEF Call, Goto, Types, CallTypes, Points, Outside
    <2>2. ListTypes'
      BY <1>2, Zenon DEF Call, Types, ListTypes
    <2> QED BY <1>2, <2>1, <2>2, Frame, ZenonT(60) DEF Call, timeVars, agentVars, Types
  <1>3. ASSUME Drain(t) PROVE Types'
    <2>1. CallTypes'
      <3>1. CASE OffCpu(t)
        BY <1>3, <1>t, <3>1, GotoType, Zenon DEF Drain, OffCpu, Resume, listVars, Points, Outside, Waiting
      <3>2. CASE ~OffCpu(t)
        BY <1>3, <3>2, Frame DEF Drain, listVars
      <3> QED BY <3>1, <3>2
    <2>2. StateTypes'
      BY <1>3, Zenon DEF Drain, Types, StateTypes, CompleteWake, timeVars
    <2> QED BY <1>3, <2>1, <2>2, Frame DEF Drain, listVars, timeVars, agentVars, Types
  <1>4. ASSUME Elapse(t) PROVE Types'
    <2>1. FlagTypes'
      BY <1>4, ZenonT(60) DEF Elapse, Types, FlagTypes
    <2> QED BY <1>4, <2>1, Frame DEF Elapse, listVars, waitVars, agentVars, Types
  <1>5. ASSUME Pop(t) PROVE Types'
    <2>1. StateTypes'
      BY <1>5, Zenon DEF Pop, Types, StateTypes
    <2> QED BY <1>5, <2>1, Frame DEF Pop, listVars, waitVars, agentVars, Types
  <1>6. ASSUME Expire(t) PROVE Types'
    <2>1. StateTypes'
      BY <1>6 DEF Expire, Types, StateTypes
    <2>2. HitTypes'
      BY <1>6, Zenon DEF Expire, Types, HitTypes
    <2> QED BY <1>6, <2>1, <2>2, Frame DEF Expire, listVars, waitVars, Types
  <1>7. ASSUME Signal(t) PROVE Types'
    <2>1. FlagTypes'
      BY <1>7 DEF Signal, Types, FlagTypes, timeVars
    <2>2. HitTypes'
      BY <1>7, Zenon DEF Signal, Types, HitTypes
    <2> QED BY <1>7, <2>1, <2>2, Frame, ZenonT(60) DEF Signal, listVars, waitVars, timeVars, Types
  <1> QED BY <1>1, <1>2, <1>3, <1>4, <1>5, <1>6, <1>7 DEF Sweep

LEMMA PlaceType ==
    ASSUME Types, NEW t \in Tasks, NEW s \in {"Runnable", "Sleeping", "Waking"}, NEW force, Place(t, s, force),
           UNCHANGED <<call, res, woken, armed, popped>>
    PROVE  CallTypes' /\ StateTypes'
  <1>t. pc \in [Tasks -> Points]
    BY DEF Types, CallTypes
  <1>1. CallTypes'
    <2>1. CASE UNCHANGED pc
      BY <2>1, Frame
    <2>2. CASE OffCpu(t) /\ pc' = Resume(t)
      BY <1>t, <2>2, GotoType, Zenon DEF OffCpu, Resume, Points, Outside, Waiting
    <2> QED BY <2>1, <2>2, Zenon DEF Place
  <1>2. StateTypes'
    BY Zenon DEF Place, Types, StateTypes, CompleteWake
  <1> QED BY <1>1, <1>2, ZenonT(60)

LEMMA WokeType ==
    ASSUME Types, NEW a \in Agents, NEW t \in Tasks, Woke(a, t)
    PROVE  AgentTypes' /\ HitTypes'
  <1>1. AgentTypes'
    BY DEF Woke, Done, Types, AgentTypes, Active
  <1>2. HitTypes'
    BY DEF Woke, Types, HitTypes
  <1> QED BY <1>1, <1>2, Zenon

LEMMA TtwuType ==
    ASSUME Types, NEW a \in Agents, NEW t \in Tasks, Ttwu(a, t)
    PROVE  Types'
  <1>1. CASE Lose(a, t)
    BY <1>1, WokeType, Frame, Zenon DEF Lose, listVars, waitVars, timeVars, Types
  <1>2. CASE Wake(a, t)
    BY <1>2, WokeType, PlaceType, Frame, Zenon DEF Wake, listVars, Types
  <1>3. CASE Claim(a, t)
    <2>1. StateTypes'
      BY <1>3 DEF Claim, Types, StateTypes, timeVars
    <2>2. HitTypes'
      BY <1>3, ZenonT(60) DEF Claim, Types, HitTypes
    <2> QED BY <1>3, <2>1, <2>2, Frame, Zenon DEF Claim, listVars, waitVars, timeVars, Types
  <1>4. CASE LatePlace(a, t)
    <2>1. st[t] \in {"Runnable", "Sleeping", "Waking"}
      BY DEF Types, StateTypes
    <2> QED BY <1>4, <2>1, WokeType, PlaceType, Frame DEF LatePlace, listVars, Types
  <1> QED BY <1>1, <1>2, <1>3, <1>4, Zenon DEF Ttwu

\* What a waker works on while it is inside its call.
LEMMA AtWork ==
    ASSUME Types, NEW a \in Wakers, at[a] \in Active
    PROVE  op[a] \in Operations /\ op[a].src \in Words /\ op[a].n \in Nat /\ op[a].src # NoWord
  <1>1. op[a] \in Operations
    BY DEF Types, AgentTypes
  <1> QED BY <1>1, NameAssumption DEF Operations

LEMMA DoneType ==
    ASSUME Types, NEW a \in Wakers, Done(a) \/ Claims(a)
    PROVE  AgentTypes'
  BY ZenonT(60) DEF Done, Claims, Types, AgentTypes, Active

LEMMA IndexType ==
    ASSUME Types, NEW t \in Tasks, NEW w, \E i \in DOMAIN call[t].words : call[t].words[i] = w
    PROVE  Index(t, w) \in 1 .. Len(call[t].words) /\ call[t].words[Index(t, w)] = w
  <1>1. DOMAIN call[t].words = 1 .. Len(call[t].words)
    BY DEF Types, CallTypes
  <1>2. Index(t, w) \in DOMAIN call[t].words /\ call[t].words[Index(t, w)] = w
    BY Zenon DEF Index
  <1> QED BY <1>1, <1>2, Zenon

LEMMA WakerType ==
    ASSUME Types, NEW a \in Wakers, WakerStep(a)
    PROVE  Types'
  <1>a. a \in Agents
    BY ZenonT(60) DEF Agents
  <1>1. CASE Scan(a)
    <2> DEFINE match == {t \in Tasks : queued[t] = op[a].src /\ call[t].bits \intersect op[a].bits # {}}
    <2>1. PICK S \in Picks(op[a].n, match) :
            /\ queued' = [t \in Tasks |-> IF t \in S THEN NoWord ELSE queued[t]]
            /\ took' = [t \in Tasks |-> IF t \in S THEN 1 ELSE took[t]]
            /\ hits' = [hits EXCEPT ![a] = S]
            /\ IF Cardinality(S) < op[a].n THEN at' = [at EXCEPT ![a] = "groups"] /\ UNCHANGED op ELSE Claims(a)
      BY <1>1, Zenon DEF Scan
    <2>2. S \subseteq Tasks
      BY ZenonT(60) DEF Picks
    <2> HIDE DEF match
    <2>3. ListTypes'
      BY <1>1, <2>1 DEF Scan, Types, ListTypes
    <2>4. HitTypes'
      BY <1>1, <1>a, <2>1, <2>2, ZenonT(60) DEF Scan, Types, HitTypes
    <2>5. AgentTypes'
      <3>1. CASE at' = [at EXCEPT ![a] = "groups"] /\ UNCHANGED op
        BY <1>1, <3>1, AtWork, ZenonT(60) DEF Scan, Types, AgentTypes, Active
      <3> QED BY <2>1, <3>1, DoneType, Zenon
    <2> QED BY <1>1, <2>3, <2>4, <2>5, Frame DEF Scan, waitVars, timeVars, Types
  <1>2. CASE Groups(a)
    <2> DEFINE src == op[a].src
    <2> DEFINE match == {t \in Tasks : grouped[t] /\ \E i \in DOMAIN call[t].words : call[t].words[i] = src}
    <2>1. PICK S \in Picks(op[a].n - Cardinality(hits[a]), match) :
            /\ grouped' = [t \in Tasks |-> grouped[t] /\ t \notin S]
            /\ woken' = [t \in Tasks |-> IF t \in S THEN Index(t, src) ELSE woken[t]]
            /\ took' = [t \in Tasks |-> IF t \in S THEN Index(t, src) ELSE took[t]]
            /\ hits' = [hits EXCEPT ![a] = @ \union S]
            /\ Done(a) \/ Claims(a)
      BY <1>2, ZenonT(60) DEF Groups
    <2>2. /\ S \subseteq Tasks
          /\ \A t \in S : \E i \in DOMAIN call[t].words : call[t].words[i] = src
      BY DEF Picks
    <2> HIDE DEF match, src
    <2>3. \A t \in S : Index(t, src) \in Nat /\ Index(t, src) <= Len(call[t].words)
      <3>1. \A t \in S : Index(t, src) \in 1 .. Len(call[t].words) /\ Len(call[t].words) \in Nat
        BY <2>2, IndexType DEF Types, CallTypes
      <3> QED BY <3>1
    <2>4. ListTypes'
      BY <1>2, <2>1, <2>3, Zenon DEF Groups, Types, ListTypes
    <2>5. CallTypes'
      BY <1>2, <2>1, <2>3, Zenon DEF Groups, waitVars, Types, CallTypes
    <2>6. HitTypes'
      BY <1>2, <1>a, <2>1, <2>2, Zenon DEF Groups, Types, HitTypes
    <2> QED BY <1>2, <2>1, <2>4, <2>5, <2>6, DoneType, Frame DEF Groups, timeVars, Types
  <1>3. CASE Compare(a)
    <2>1. AgentTypes'
      <3>1. op[a] \in Operations /\ op[a].dst \in Words
        BY <1>3, AtWork DEF Compare, Active, Types, AgentTypes
      <3>2. IntMax \in Nat
        BY CountAssumption
      <3>3. PICK n \in Nat : op' = [op EXCEPT ![a] = [op[a] EXCEPT !.n = n]]
        BY <1>3, <3>1, <3>2, Zenon DEF Compare, Operations, Types, AgentTypes
      <3>4. [op[a] EXCEPT !.n = n] \in Operations /\ [op[a] EXCEPT !.n = n].dst \in Words
        BY <3>1, ZenonT(60) DEF Operations
      <3> QED BY <1>3, <3>3, <3>4 DEF Compare, Types, AgentTypes, Active
    <2> QED BY <1>3, <2>1, Frame, ZenonT(60) DEF Compare, listVars, waitVars, timeVars, Types
  <1>4. CASE Move(a)
    <2> DEFINE match == {t \in Tasks : queued[t] = op[a].src}
    <2>1. PICK S \in Picks(op[a].n, match), M \in SUBSET match :
            /\ queued' = [t \in Tasks |-> IF t \in S THEN NoWord ELSE IF t \in M THEN op[a].dst ELSE queued[t]]
            /\ took' = [t \in Tasks |-> IF t \in S THEN 1 ELSE took[t]]
            /\ hits' = [hits EXCEPT ![a] = S]
            /\ Done(a) \/ Claims(a)
      BY <1>4, ZenonT(60) DEF Move, Picks
    <2>2. S \subseteq Tasks
      BY DEF Picks
    <2> HIDE DEF match
    <2>3. ListTypes'
      <3>1. op[a].dst \in Words
        BY <1>4, ZenonT(60) DEF Move, Types, AgentTypes
      <3> QED BY <1>4, <2>1, <3>1, Zenon DEF Move, Types, ListTypes
    <2>4. HitTypes'
      BY <1>4, <1>a, <2>1, <2>2 DEF Move, Types, HitTypes
    <2> QED BY <1>4, <2>1, <2>3, <2>4, DoneType, Frame DEF Move, waitVars, timeVars, Types
  <1> QED BY <1>1, <1>2, <1>3, <1>4 DEF WakerStep

LEMMA IssueType ==
    ASSUME Types, NEW a \in Wakers, NEW o \in cfg.ops[a], Issue(a, o)
    PROVE  Types'
  <1>1. o \in Operations /\ (o.kind = "requeue" => o.dst \in Words)
    BY ConfigAssumption, ZenonT(60) DEF Types, RestTypes
  <1> DEFINE v == IF o.store THEN 1 - word[o.src] ELSE word[o.src]
  <1>0. v \in Values
    BY <1>1 DEF Types, RestTypes, Values, Operations
  <1>2. word' = [word EXCEPT ![o.src] = v] /\ op' = [op EXCEPT ![a] = [o EXCEPT !.cmp = v]]
    BY DEF Issue
  <1> HIDE DEF v
  <1>3. [o EXCEPT !.cmp = v] \in Operations /\ [o EXCEPT !.cmp = v].dst = o.dst
    BY <1>0, <1>1, ZenonT(60) DEF Operations
  <1>4. AgentTypes'
    BY <1>1, <1>2, <1>3 DEF Issue, Types, AgentTypes, Active, Operations
  <1>5. RestTypes'
    <2>1. UNCHANGED cfg
      BY DEF Issue
    <2> QED BY <1>0, <1>2, <2>1, Zenon DEF Types, RestTypes
  <1> QED BY <1>4, <1>5, Frame, Zenon DEF Issue, listVars, waitVars, timeVars, Types

\* Init establishes the types and every step keeps them.
LEMMA InitType == Init => Types
  <1> SUFFICES ASSUME Init PROVE Types
    BY Zenon
  <1>1. ListTypes
    BY Zenon DEF Init, ListTypes
  <1>0. FlagTypes /\ RestTypes
    BY DEF Init, FlagTypes, RestTypes, Values
  <1>2. CallTypes
    <2>1. NoCall.words = <<>> /\ <<>> \in Seq(Words) /\ 0 <= Len(<<>>)
      BY DEF NoCall
    <2>2. \A t \in Tasks : call[t].words = <<>> /\ woken[t] = 0 /\ pc[t] = "user"
      BY <2>1 DEF Init
    <2>3. pc \in [Tasks -> Points] /\ res \in [Tasks -> Nat] /\ woken \in [Tasks -> Nat] /\ DOMAIN call = Tasks
      BY DEF Init, Points, Outside
    <2>4. \A t \in Tasks : call[t].words \in Seq(Words) /\ woken[t] <= Len(call[t].words)
      BY <2>1, <2>2, Zenon
    <2> QED BY <2>2, <2>3, <2>4 DEF CallTypes, Outside
  <1>3. StateTypes /\ HitTypes
    BY ZenonT(60) DEF Init, StateTypes, HitTypes
  <1>4. AgentTypes
    BY DEF Init, AgentTypes, Active
  <1> QED BY <1>0, <1>1, <1>2, <1>3, <1>4 DEF Types

LEMMA StepType == Types /\ [Next]_vars => Types'
  <1> SUFFICES ASSUME Types, [Next]_vars PROVE Types'
    BY ZenonT(60)
  <1>1. CASE UNCHANGED vars
    BY <1>1, Frame DEF vars, listVars, waitVars, timeVars, agentVars, Types
  <1>2. CASE Next
    BY <1>2, TaskType, OtherType, TtwuType, WakerType, IssueType, Zenon DEF Next
  <1> QED BY <1>1, <1>2

\* For every number of words, tasks and wakers and whatever they call: a task is
\* listed under at most one key, woken_idx names a word of the call it belongs
\* to, and every other field stays in its type.
THEOREM TypeCorrect == Spec => []TypeOK
  <1>1. Types => TypeOK
    BY ZenonT(60) DEF Types, ListTypes, CallTypes, StateTypes, FlagTypes, AgentTypes, HitTypes, RestTypes, TypeOK,
           Points, Outside, Waiting, Active
  <1> QED
    BY InitType, StepType, <1>1, PTL DEF Spec

-----------------------------------------------------------------------------
(* A wait reports a wake exactly when one took it *)

Registered(t) == queued[t] # NoWord \/ grouped[t]

\* A task is registered in one list at most, and only while it waits; there,
\* its registration is gone exactly when a wake has taken it.
Counted(t) ==
    /\ queued[t] # NoWord => ~grouped[t]
    /\ pc[t] \in {"load", "queue"} => ~Registered(t) /\ took[t] = 0 /\ woken[t] = 0
    /\ pc[t] \in Waiting => (Registered(t) <=> took[t] = 0) /\ (woken[t] # 0 => took[t] # 0)
    /\ pc[t] \in Outside => ~Registered(t) /\ (res[t] # 0 <=> took[t] # 0)

CountInv == \A t \in Tasks : Counted(t)

\* What Counted depends on is the same for u.
Same(u) ==
    /\ queued'[u] = queued[u] /\ grouped'[u] = grouped[u] /\ took'[u] = took[u]
    /\ woken'[u] = woken[u] /\ pc'[u] = pc[u] /\ res'[u] = res[u]

LEMMA SameCounted ==
    ASSUME NEW u, Counted(u), Same(u)
    PROVE  Counted(u)'
  BY Zenon DEF Counted, Same, Registered

\* The variables of Counted are functions on the tasks.
Maps ==
    /\ queued \in [Tasks -> Words \union {NoWord}] /\ grouped \in [Tasks -> BOOLEAN]
    /\ took \in [Tasks -> Nat] /\ woken \in [Tasks -> Nat]
    /\ pc \in [Tasks -> Points] /\ res \in [Tasks -> Nat]

LEMMA TypedMaps == Types => Maps
  BY DEF Types, ListTypes, CallTypes, Maps

\* Steps of one task.
LEMMA CountOwn ==
    ASSUME Types, Maps, CountInv, NEW t \in Tasks, Counted(t),
           Load(t) \/ Queue(t) \/ Arm(t) \/ Schedule(t) \/ Preempt(t) \/ Drain(t)
    PROVE  CountInv'
  <1>1. ASSUME NEW u \in Tasks \ {t} PROVE Same(u)
    <2>1. CASE Load(t) \/ Queue(t)
      BY <2>1, ZenonT(60) DEF Load, Queue, Enqueue, Return, Goto, Quiet, Same, Maps
    <2>2. CASE Arm(t) \/ Schedule(t) \/ Preempt(t)
      BY <2>2, Zenon DEF Arm, Schedule, Preempt, Goto, Same, Maps, listVars
    <2>3. CASE Drain(t)
      BY <2>3 DEF Drain, Resume, Same, Maps, listVars
    <2> QED BY <2>1, <2>2, <2>3
  <1>2. Counted(t)'
    <2>1. CASE Load(t)
      BY <2>1, ZenonT(60) DEF Load, Return, Goto, Quiet, Counted, Registered, Maps, Outside, Waiting
    <2>2. CASE Queue(t) /\ Changed(t)
      BY <2>2, ZenonT(60) DEF Queue, Return, Counted, Registered, Maps, Outside, Waiting
    <2>3. CASE Queue(t) /\ ~Changed(t)
      <3>1. pc[t] = "queue" /\ pc'[t] \in {"arm", "sched"} /\ UNCHANGED <<took, woken>>
        BY <2>3, Zenon DEF Queue, Enqueue, Goto, Quiet, Maps
      <3>2. IF IsVec(t) THEN grouped'[t] /\ queued'[t] = queued[t]
                        ELSE grouped'[t] = grouped[t] /\ queued'[t] = call[t].words[1]
        BY <2>3, ZenonT(60) DEF Queue, Enqueue, Maps
      <3>3. call[t].words[1] # NoWord
        <4>1. call[t].words \in Seq(Words) /\ call[t].words # <<>>
          BY <3>1, Zenon DEF Types, CallTypes, Outside
        <4> QED BY <4>1, NameAssumption
      <3>4. ~Registered(t) /\ took[t] = 0 /\ woken[t] = 0
        BY <3>1, ZenonT(60) DEF Counted
      <3> QED BY <3>1, <3>2, <3>3, <3>4, Zenon DEF Counted, Registered, Outside, Waiting
    <2>4. CASE Arm(t) \/ Schedule(t)
      BY <2>4 DEF Arm, Schedule, Goto, Counted, Registered, Maps, listVars, Outside, Waiting
    <2>5. CASE Preempt(t)
      BY <2>5, ZenonT(60) DEF Preempt, Goto, Counted, Registered, Maps, listVars, Outside, Waiting
    <2>6. CASE Drain(t)
      BY <2>6 DEF Drain, Resume, OffCpu, Counted, Registered, Maps, listVars, Outside, Waiting
    <2> QED BY <2>1, <2>2, <2>3, <2>4, <2>5, <2>6, ZenonT(60)
  <1> QED BY <1>1, <1>2, SameCounted DEF CountInv

\* disarm and the two reads that decide what the wait returns.
LEMMA CountWoken ==
    ASSUME Maps, CountInv, NEW t \in Tasks, Counted(t), Awake(t) \/ Remove(t)
    PROVE  CountInv'
  <1>1. ASSUME NEW u \in Tasks \ {t} PROVE Same(u)
    <2>1. CASE Awake(t)
      BY <2>1, ZenonT(60) DEF Awake, Return, Goto, Quiet, Same, Maps
    <2>2. CASE Remove(t)
      BY <2>2 DEF Remove, Classify, Return, Goto, Quiet, Same, Maps
    <2> QED BY <2>1, <2>2
  <1>2. Counted(t)'
    <2>1. CASE Awake(t) /\ woken[t] # 0
      <3>1. took[t] # 0 /\ ~Registered(t)
        BY <2>1, Zenon DEF Awake, Counted, Waiting
      <3>2. pc'[t] = "user" /\ res'[t] # 0 /\ UNCHANGED <<queued, grouped, took>>
        BY <2>1, ZenonT(60) DEF Awake, Return, Maps
      <3> QED BY <3>1, <3>2, Zenon DEF Counted, Registered, Outside, Waiting
    <2>2. CASE Awake(t) /\ woken[t] = 0
      BY <2>2 DEF Awake, Goto, Quiet, Counted, Registered, Maps, Outside, Waiting
    <2>3. CASE Remove(t) /\ ~Registered(t)
      <3>1. took[t] # 0
        BY <2>3, ZenonT(60) DEF Remove, Counted, Waiting
      <3>2. pc'[t] = "user" /\ res'[t] # 0 /\ queued'[t] = NoWord /\ ~grouped'[t] /\ UNCHANGED took
        BY <2>3 DEF Remove, Registered, Return, Maps
      <3> QED BY <3>1, <3>2, Zenon DEF Counted, Registered, Outside, Waiting
    <2>4. CASE Remove(t) /\ Registered(t)
      <3>1. took[t] = 0 /\ woken[t] = 0
        BY <2>4, ZenonT(60) DEF Remove, Counted, Waiting
      <3>2. /\ queued'[t] = NoWord /\ grouped'[t] = FALSE /\ UNCHANGED took
            /\ \/ pc'[t] = "user" /\ res'[t] = 0
               \/ pc'[t] \in {"queue", "load"} /\ UNCHANGED woken
        BY <2>4 DEF Remove, Registered, Classify, Return, Goto, Quiet, Maps
      <3> QED BY <3>1, <3>2, Zenon DEF Counted, Registered, Outside, Waiting
    <2> QED BY <2>1, <2>2, <2>3, <2>4
  <1> QED BY <1>1, <1>2, SameCounted DEF CountInv

LEMMA CountCall ==
    ASSUME Types, Maps, CountInv, NEW t \in Tasks, NEW c \in cfg.calls[t], Call(t, c)
    PROVE  CountInv'
  <1>1. ASSUME NEW u \in Tasks \ {t} PROVE Same(u)
    BY Zenon DEF Call, Goto, Same, Maps
  <1>2. Counted(t)'
    <2>1. pc[t] = "user" /\ pc'[t] = "load" /\ took'[t] = 0 /\ UNCHANGED <<queued, grouped, woken>>
      BY Zenon DEF Call, Goto, Maps
    <2>2. ~Registered(t)
      BY <2>1, Zenon DEF CountInv, Counted, Outside
    <2>3. woken[t] = 0
      <3>1. call[t].words = <<>>
        BY <2>1, ZenonT(60) DEF Types, CallTypes, Outside
      <3>2. woken[t] \in Nat /\ woken[t] <= Len(call[t].words)
        BY DEF Types, CallTypes
      <3> QED BY <3>1, <3>2, SMTT(20)
    <2> QED BY <2>1, <2>2, <2>3, Zenon DEF Counted, Registered, Outside, Waiting
  <1> QED BY <1>1, <1>2, SameCounted, ZenonT(60) DEF CountInv

\* ttwu_inner resumes a task that is off its CPU, and changes nothing else.
LEMMA CountTtwu ==
    ASSUME Maps, CountInv, NEW a \in Agents, NEW t \in Tasks, Ttwu(a, t)
    PROVE  CountInv'
  <1>1. /\ UNCHANGED <<queued, grouped, took, woken, res>>
        /\ UNCHANGED pc \/ (OffCpu(t) /\ pc' = Resume(t))
    BY DEF Ttwu, Lose, Wake, Claim, LatePlace, Place, listVars, waitVars
  <1>2. CASE UNCHANGED pc
    BY <1>1, <1>2, SameCounted, Zenon DEF Same, CountInv
  <1>3. CASE OffCpu(t) /\ pc' = Resume(t)
    <2>1. ASSUME NEW u \in Tasks \ {t} PROVE Same(u)
      BY <1>1, <1>3 DEF Resume, Same, Maps
    <2>2. Counted(t)'
      <3>1. \/ pc[t] = "lost" /\ pc'[t] = "user"
            \/ pc[t] = "asleep" /\ pc'[t] = "awake"
        BY <1>3 DEF OffCpu, Resume, Maps
      <3>2. Counted(t)
        BY ZenonT(60) DEF CountInv
      <3> QED BY <1>1, <3>1, <3>2, ZenonT(60) DEF Counted, Registered, Outside, Waiting
    <2> QED BY <2>1, <2>2, SameCounted, ZenonT(60) DEF CountInv
  <1> QED BY <1>1, <1>2, <1>3, ZenonT(60)

LEMMA Queued ==
    ASSUME CountInv, NEW t \in Tasks, queued[t] # NoWord
    PROVE  Registered(t) /\ ~grouped[t]
  BY DEF CountInv, Counted, Registered

\* A wake takes registrations away, and says so.
LEMMA CountTaken ==
    ASSUME Maps, CountInv, NEW S \in SUBSET Tasks,
           \A t \in S : Registered(t),
           \A t \in S : queued'[t] = NoWord /\ ~grouped'[t] /\ took'[t] # 0,
           \A t \in Tasks \ S : /\ (queued'[t] # NoWord <=> queued[t] # NoWord)
                                /\ grouped'[t] = grouped[t]
                                /\ took'[t] = took[t] /\ woken'[t] = woken[t],
           UNCHANGED <<pc, res>>
    PROVE  CountInv'
  <1> SUFFICES ASSUME NEW t \in Tasks PROVE Counted(t)'
    BY Zenon DEF CountInv
  <1>c. Counted(t)
    BY DEF CountInv
  <1>1. CASE t \in S
    <2>1. pc[t] \in Waiting
      BY <1>1, <1>c DEF Counted, Maps, Points
    <2> QED BY <1>1, <2>1, ZenonT(60) DEF Counted, Registered, Outside, Waiting
  <1>2. CASE t \notin S
    BY <1>2, <1>c, Zenon DEF Counted, Registered
  <1> QED BY <1>1, <1>2, Zenon

LEMMA CountWaker ==
    ASSUME Types, Maps, CountInv, NEW a \in Wakers, Scan(a) \/ Groups(a) \/ Move(a)
    PROVE  CountInv'
  <1>w. op[a].src \in Words /\ op[a].src # NoWord
    BY AtWork DEF Scan, Groups, Move, Active
  <1>1. CASE Scan(a)
    <2> DEFINE match == {t \in Tasks : queued[t] = op[a].src /\ call[t].bits \intersect op[a].bits # {}}
    <2>1. PICK S \in Picks(op[a].n, match) :
            /\ queued' = [t \in Tasks |-> IF t \in S THEN NoWord ELSE queued[t]]
            /\ took' = [t \in Tasks |-> IF t \in S THEN 1 ELSE took[t]]
      BY <1>1, Zenon DEF Scan
    <2>2. S \in SUBSET Tasks /\ \A t \in S : queued[t] = op[a].src
      BY Zenon DEF Picks
    <2> HIDE DEF match
    <2>3. \A t \in S : Registered(t) /\ ~grouped[t]
      BY <1>w, <2>2, Queued, Zenon
    <2>4. UNCHANGED <<grouped, woken, pc, res>>
      BY <1>1, Zenon DEF Scan, waitVars
    <2>5. \A t \in S : queued'[t] = NoWord /\ ~grouped'[t] /\ took'[t] # 0
      BY Nonzero, <2>1, <2>2, <2>3, <2>4, Zenon
    <2>6. \A t \in Tasks \ S : queued'[t] = queued[t] /\ took'[t] = took[t]
      BY <2>1, Zenon
    <2> QED BY <2>2, <2>3, <2>4, <2>5, <2>6, CountTaken, ZenonT(60)
  <1>2. CASE Groups(a)
    <2> DEFINE src == op[a].src
    <2> DEFINE match == {t \in Tasks : grouped[t] /\ \E i \in DOMAIN call[t].words : call[t].words[i] = src}
    <2>1. PICK S \in Picks(op[a].n - Cardinality(hits[a]), match) :
            /\ grouped' = [t \in Tasks |-> grouped[t] /\ t \notin S]
            /\ woken' = [t \in Tasks |-> IF t \in S THEN Index(t, src) ELSE woken[t]]
            /\ took' = [t \in Tasks |-> IF t \in S THEN Index(t, src) ELSE took[t]]
      BY <1>2, Zenon DEF Groups
    <2>2. S \in SUBSET Tasks /\ \A t \in S : grouped[t] /\ \E i \in DOMAIN call[t].words : call[t].words[i] = src
      BY Zenon DEF Picks
    <2> HIDE DEF match, src
    <2>3. \A t \in S : Registered(t) /\ queued[t] = NoWord
      BY <2>2, ZenonT(60) DEF Registered, CountInv, Counted
    <2>4. \A t \in S : Index(t, src) # 0
      <3>1. \A t \in S : Index(t, src) \in 1 .. Len(call[t].words)
        BY <2>2, IndexType
      <3> QED BY <3>1
    <2>5. UNCHANGED <<queued, pc, res>>
      BY <1>2, Zenon DEF Groups, waitVars
    <2>6. \A t \in S : queued'[t] = NoWord /\ ~grouped'[t] /\ took'[t] # 0
      BY <2>1, <2>2, <2>3, <2>4, <2>5, ZenonT(60)
    <2>7. \A t \in Tasks \ S : grouped'[t] = grouped[t] /\ took'[t] = took[t] /\ woken'[t] = woken[t]
      BY <2>1 DEF Maps
    <2> QED BY <2>2, <2>3, <2>5, <2>6, <2>7, CountTaken, ZenonT(60)
  <1>3. CASE Move(a)
    <2> DEFINE match == {t \in Tasks : queued[t] = op[a].src}
    <2>1. PICK S \in Picks(op[a].n, match), M \in SUBSET match :
            /\ queued' = [t \in Tasks |-> IF t \in S THEN NoWord ELSE IF t \in M THEN op[a].dst ELSE queued[t]]
            /\ took' = [t \in Tasks |-> IF t \in S THEN 1 ELSE took[t]]
      BY <1>3, ZenonT(60) DEF Move, Picks
    <2>2. S \in SUBSET Tasks /\ \A t \in S : queued[t] = op[a].src
      BY DEF Picks
    <2>3. \A t \in S : Registered(t) /\ ~grouped[t]
      BY <1>w, <2>2, Queued, ZenonT(60)
    <2>4. UNCHANGED <<grouped, woken, pc, res>>
      BY <1>3, Zenon DEF Move, waitVars
    <2>5. op[a].dst # NoWord
      BY <1>3, NameAssumption, Zenon DEF Move, Types, AgentTypes
    <2>6. \A t \in Tasks \ S : queued'[t] # NoWord <=> queued[t] # NoWord
      BY <1>w, <2>1, <2>5, Zenon
    <2>7. \A t \in S : queued'[t] = NoWord /\ ~grouped'[t] /\ took'[t] # 0
      BY Nonzero, <2>1, <2>2, <2>3, <2>4, ZenonT(60)
    <2>8. \A t \in Tasks \ S : took'[t] = took[t]
      BY <2>1
    <2> QED BY <2>2, <2>3, <2>4, <2>6, <2>7, <2>8, CountTaken, ZenonT(60)
  <1> QED BY <1>1, <1>2, <1>3, ZenonT(60)

LEMMA CountStep == Types /\ CountInv /\ [Next]_vars => CountInv'
  <1> SUFFICES ASSUME Types, CountInv, [Next]_vars PROVE CountInv'
    BY ZenonT(60)
  <1>0. ASSUME UNCHANGED <<listVars, waitVars>> PROVE CountInv'
    BY <1>0, SameCounted DEF Same, CountInv, listVars, waitVars
  <1>1. CASE UNCHANGED vars
    BY <1>0, <1>1, ZenonT(60) DEF vars
  <1>2. ASSUME NEW t \in Tasks, TaskStep(t) \/ Preempt(t) \/ Drain(t) PROVE CountInv'
    <2>1. Maps /\ Counted(t)
      BY TypedMaps, ZenonT(60) DEF CountInv
    <2> QED BY <1>2, <2>1, CountOwn, CountWoken DEF TaskStep
  <1>3. ASSUME NEW t \in Tasks, Elapse(t) \/ Sweep(t) \/ Signal(t) PROVE CountInv'
    BY <1>0, <1>3 DEF Elapse, Sweep, Pop, Expire, Signal
  <1>4. ASSUME NEW a \in Wakers, Compare(a) \/ \E o \in cfg.ops[a] : Issue(a, o) PROVE CountInv'
    BY <1>0, <1>4, ZenonT(60) DEF Compare, Issue
  <1>5. ASSUME NEW a \in Wakers, WakerStep(a) PROVE CountInv'
    BY <1>4, <1>5, TypedMaps, CountWaker DEF WakerStep
  <1> QED BY <1>1, <1>2, <1>3, <1>4, <1>5, TypedMaps, CountCall, CountTtwu, ZenonT(60) DEF Next

\* For every number of words, tasks and wakers, a wait returns success exactly
\* when a wake took its registration: a wake that wake_key or requeue counted
\* is never reported as a timeout, a signal or a changed word, and none of
\* these as a wake.
THEOREM WaitsReportWakes == Spec => []WakeCounted
  <1>1. Init => CountInv
    BY DEF Init, CountInv, Counted, Registered, Outside, Waiting
  <1>2. CountInv => WakeCounted
    BY ZenonT(60) DEF CountInv, Counted, WakeCounted, Outside
  <1> QED
    BY InitType, StepType, CountStep, <1>1, <1>2, PTL DEF Spec

AllOps == UNION {cfg.ops[a] : a \in Wakers}
AllCalls == UNION {cfg.calls[t] : t \in Tasks}
Requeues == {o \in AllOps : o.kind = "requeue"}

\* Whoever changes a word then wakes everybody who waits on it: FUTEX_WAKE with
\* INT_MAX and a bitset that meets every waiter's, or a requeue of all the rest
\* of a word that no futex_waitv names, to a word that is not itself requeued.
Broadcasts ==
    /\ \A o \in AllOps : o.store => IF o.kind = "wake" THEN o.n >= IntMax ELSE o.moves >= IntMax
    /\ \A o \in AllOps, c \in AllCalls : o.store => c.bits \intersect o.bits # {}
    /\ \A o \in Requeues, c \in AllCalls :
          o.store /\ Len(c.words) > 1 => \A i \in DOMAIN c.words : c.words[i] # o.src
    /\ \A o, p \in Requeues : o.dst # p.src

\* Where the arguments of a call in progress come from, and under which key the
\* task is listed.
Origin(t) ==
    /\ pc[t] \notin Outside => \E c \in cfg.calls[t] : call[t].words = c.words /\ call[t].bits = c.bits
    /\ queued[t] # NoWord => /\ Len(call[t].words) = 1
                             /\ queued[t] = call[t].words[1] \/ \E o \in Requeues : queued[t] = o.dst
    /\ grouped[t] => Len(call[t].words) > 1

\* The operation a waker works on is one that it issued.
Issued(a, o) ==
    /\ op[a].kind = o.kind /\ op[a].src = o.src /\ op[a].dst = o.dst
    /\ op[a].bits = o.bits /\ op[a].store = o.store /\ op[a].moves = o.moves
    /\ at[a] \in {"scan", "groups"} => op[a].n = IntMax \/ (op[a].n = o.n /\ o.kind = "wake")
    /\ at[a] \in {"compare", "move"} => o.kind = "requeue"

Source(a) ==
    /\ at[a] \in Active => \E o \in cfg.ops[a] : Issued(a, o)
    /\ target[a] # NoTask => at[a] = "claim"

Origins == (\A t \in Tasks : Origin(t)) /\ \A a \in Wakers : Source(a)

\* A waker that has changed w and has still to pass the list.
Pending(w, points) == \E a \in Wakers : at[a] \in points /\ op[a].src = w /\ op[a].store

Stale(t, i) == word[call[t].words[i]] # call[t].vals[i]

\* A registration whose word has changed is still ahead of the waker that
\* changed it: in WAITERS, or in WAITV_GROUPS, which the waker looks at last.
Ahead(t, i) ==
    Stale(t, i) => /\ queued[t] = call[t].words[i] => Pending(call[t].words[i], {"scan", "compare", "move"})
                   /\ grouped[t] => Pending(call[t].words[i], {"scan", "groups"})

Covered == \A t \in Tasks : \A i \in DOMAIN call[t].words : Ahead(t, i)

LEMMA CfgSame == [Next]_vars => UNCHANGED cfg
  <1>1. ASSUME NEW t \in Tasks, TaskStep(t) \/ Preempt(t) \/ \E c \in cfg.calls[t] : Call(t, c) PROVE UNCHANGED cfg
    BY <1>1, Zenon DEF TaskStep, Load, Queue, Arm, Schedule, Awake, Remove, Preempt, Call
  <1>2. ASSUME NEW t \in Tasks, Drain(t) \/ Elapse(t) \/ Sweep(t) \/ Signal(t) PROVE UNCHANGED cfg
    BY <1>2, Zenon DEF Drain, Elapse, Sweep, Pop, Expire, Signal
  <1>3. ASSUME NEW a \in Agents, NEW t \in Tasks, Ttwu(a, t) PROVE UNCHANGED cfg
    BY <1>3, ZenonT(60) DEF Ttwu, Lose, Wake, Claim, LatePlace
  <1>4. ASSUME NEW a \in Wakers, WakerStep(a) \/ \E o \in cfg.ops[a] : Issue(a, o) PROVE UNCHANGED cfg
    BY <1>4 DEF WakerStep, Scan, Groups, Compare, Move, Issue
  <1> QED BY <1>1, <1>2, <1>3, <1>4 DEF Next, vars

\* A step that does not register u.
Kept(u) ==
    /\ call'[u] = call[u] /\ (pc[u] \in Outside => pc'[u] \in Outside)
    /\ queued'[u] \in {NoWord, queued[u]} /\ (grouped'[u] => grouped[u])

LEMMA KeptOrigin ==
    ASSUME NEW u, Origin(u), Kept(u), UNCHANGED cfg
    PROVE  Origin(u)'
  <1>1. UNCHANGED Requeues
    BY DEF Requeues, AllOps
  <1> QED BY <1>1, Zenon DEF Origin, Kept

LEMMA OutsideOrigin ==
    ASSUME NEW u \in Tasks, CountInv', pc'[u] \in Outside
    PROVE  Origin(u)'
  BY Zenon DEF Origin, CountInv, Counted, Registered

\* What the steps of a task do to the registrations: they end at most.
LEMMA TaskKept ==
    ASSUME Types, NEW t \in Tasks, NEW u \in Tasks,
           \/ Load(t) \/ (Queue(t) /\ Changed(t)) \/ Arm(t) \/ Schedule(t) \/ Awake(t) \/ Remove(t)
           \/ Preempt(t) \/ Drain(t) \/ Elapse(t) \/ Sweep(t) \/ Signal(t)
    PROVE  Kept(u) \/ pc'[u] \in Outside
  <1>t. Maps /\ DOMAIN call = Tasks
    BY TypedMaps, Zenon DEF Types, CallTypes
  <1>1. CASE Load(t) \/ (Queue(t) /\ Changed(t)) \/ Awake(t)
    BY <1>t, <1>1, ZenonT(60) DEF Load, Queue, Awake, Return, Goto, Quiet, Kept, Maps, Outside
  <1>2. CASE Remove(t)
    BY <1>t, <1>2, Zenon DEF Remove, Classify, Return, Goto, Quiet, Kept, Maps, Outside
  <1>3. CASE Arm(t) \/ Schedule(t) \/ Preempt(t) \/ Drain(t)
    BY <1>t, <1>3, ZenonT(60) DEF Arm, Schedule, Preempt, Drain, OffCpu, Resume, Goto, Kept, Maps, Outside, listVars
  <1>4. CASE Elapse(t) \/ Sweep(t) \/ Signal(t)
    BY <1>4, Zenon DEF Elapse, Sweep, Pop, Expire, Signal, Kept, listVars, waitVars
  <1> QED BY <1>1, <1>2, <1>3, <1>4

LEMMA EnqueueOrigin ==
    ASSUME Types, CountInv, NEW t \in Tasks, Queue(t), ~Changed(t), \A u \in Tasks : Origin(u), UNCHANGED cfg
    PROVE  \A u \in Tasks : Origin(u)'
  <1>t. Maps
    BY TypedMaps, Zenon
  <1>1. /\ pc[t] = "queue" /\ pc'[t] \notin Outside /\ UNCHANGED call
        /\ \A u \in Tasks \ {t} : pc'[u] = pc[u] /\ queued'[u] = queued[u] /\ grouped'[u] = grouped[u]
    BY <1>t, ZenonT(60) DEF Queue, Enqueue, Goto, Quiet, Maps, Outside
  <1>2. IF IsVec(t) THEN grouped'[t] /\ queued'[t] = queued[t]
                    ELSE grouped'[t] = grouped[t] /\ queued'[t] = call[t].words[1]
    BY <1>t, Zenon DEF Queue, Enqueue, Maps
  <1>3. ~Registered(t)
    BY <1>1, ZenonT(60) DEF CountInv, Counted
  <1>4. Len(call[t].words) \in Nat /\ Len(call[t].words) # 0
    <2>1. call[t].words \in Seq(Words) /\ call[t].words # <<>>
      BY <1>1, ZenonT(60) DEF Types, CallTypes, Outside
    <2> QED BY <2>1
  <1>5. \E c \in cfg'.calls[t] : call'[t].words = c.words /\ call'[t].bits = c.bits
    BY <1>1 DEF Origin, Outside
  <1>6. Origin(t)'
    <2>1. CASE IsVec(t)
      BY <1>1, <1>2, <1>3, <1>5, <2>1 DEF Origin, IsVec, Registered
    <2>2. CASE ~IsVec(t)
      <3>1. Len(call[t].words) = 1
        <4>1. PICK n \in Nat : n = Len(call[t].words)
          BY <1>4
        <4>2. ~(n > 1) /\ n # 0
          BY <1>4, <2>2, <4>1, ZenonT(60) DEF IsVec
        <4>3. n = 1
          BY <4>2
        <4> QED BY <4>1, <4>3
      <3>2. queued'[t] = call'[t].words[1] /\ ~grouped'[t]
        BY <1>1, <1>2, <1>3, <2>2, ZenonT(60) DEF Registered
      <3> QED BY <1>1, <1>5, <3>1, <3>2, ZenonT(60) DEF Origin
    <2> QED BY <2>1, <2>2, ZenonT(60)
  <1>7. ASSUME NEW u \in Tasks \ {t} PROVE Origin(u)'
    BY <1>1, KeptOrigin, Zenon DEF Kept
  <1> QED BY <1>6, <1>7

LEMMA CallOrigin ==
    ASSUME Types, CountInv', NEW t \in Tasks, NEW c \in cfg.calls[t], Call(t, c), \A u \in Tasks : Origin(u), UNCHANGED cfg
    PROVE  \A u \in Tasks : Origin(u)'
  <1>t. Maps /\ DOMAIN call = Tasks
    BY TypedMaps DEF Types, CallTypes
  <1>1. /\ pc'[t] = "load" /\ call'[t].words = c.words /\ call'[t].bits = c.bits /\ UNCHANGED <<queued, grouped>>
        /\ \A u \in Tasks \ {t} : call'[u] = call[u] /\ pc'[u] = pc[u]
    BY <1>t, Zenon DEF Call, Goto, Maps
  <1>2. Origin(t)'
    <2>1. queued'[t] = NoWord /\ ~grouped'[t]
      BY <1>1, Zenon DEF CountInv, Counted, Registered
    <2> QED BY <1>1, <2>1, Zenon DEF Origin
  <1>3. ASSUME NEW u \in Tasks \ {t} PROVE Origin(u)'
    BY <1>1, KeptOrigin, ZenonT(60) DEF Kept
  <1> QED BY <1>2, <1>3, ZenonT(60)

LEMMA TtwuKept ==
    ASSUME Types, NEW a \in Agents, NEW t \in Tasks, Ttwu(a, t), NEW u \in Tasks
    PROVE  Kept(u)
  <1>t. Maps
    BY TypedMaps, Zenon
  <1>1. /\ UNCHANGED <<queued, grouped, call>>
        /\ UNCHANGED pc \/ (OffCpu(t) /\ pc' = Resume(t))
    BY Zenon DEF Ttwu, Lose, Wake, Claim, LatePlace, Place, listVars, waitVars
  <1> QED BY <1>t, <1>1 DEF OffCpu, Resume, Kept, Maps, Outside

\* The three sections of a wake under a list lock, as the registrations see
\* them.
LEMMA WakerKept ==
    ASSUME Types, NEW a \in Wakers, Scan(a) \/ Groups(a) \/ Compare(a), NEW u \in Tasks
    PROVE  Kept(u)
  <1>t. Maps
    BY TypedMaps, ZenonT(60)
  <1>1. UNCHANGED <<call, pc>>
    BY DEF Scan, Groups, Compare, waitVars
  <1>2. CASE Scan(a)
    <2>1. queued'[u] \in {NoWord, queued[u]} /\ UNCHANGED grouped
      BY <1>2, ZenonT(60) DEF Scan
    <2> QED BY <1>1, <2>1, Zenon DEF Kept
  <1>3. CASE Groups(a)
    <2>1. UNCHANGED queued /\ (grouped'[u] => grouped[u])
      BY <1>3, Zenon DEF Groups
    <2> QED BY <1>1, <2>1 DEF Kept
  <1>4. CASE Compare(a)
    BY <1>1, <1>4 DEF Compare, listVars, Kept
  <1> QED BY <1>2, <1>3, <1>4

LEMMA MoveOrigin ==
    ASSUME Types, NEW a \in Wakers, Move(a), Origins, UNCHANGED cfg
    PROVE  \A u \in Tasks : Origin(u)'
  <1>1. PICK o \in Requeues : op[a].dst = o.dst
    <2>1. at[a] = "move" /\ at[a] \in Active
      BY Zenon DEF Move, Active
    <2>2. PICK o \in cfg.ops[a] : Issued(a, o)
      BY <2>1, ZenonT(60) DEF Origins, Source
    <2> QED BY <2>1, <2>2, ZenonT(60) DEF Issued, Requeues, AllOps
  <1>2. \A u \in Tasks : \/ queued'[u] \in {NoWord, queued[u]}
                         \/ queued[u] = op[a].src /\ queued'[u] = op[a].dst
    <2>1. PICK S, M \in SUBSET {t \in Tasks : queued[t] = op[a].src} :
            queued' = [t \in Tasks |-> IF t \in S THEN NoWord ELSE IF t \in M THEN op[a].dst ELSE queued[t]]
      BY ZenonT(60) DEF Move, Picks
    <2> QED BY <2>1, ZenonT(60)
  <1>3. op[a].src # NoWord
    BY AtWork, ZenonT(60) DEF Move, Active
  <1>4. UNCHANGED <<call, pc, grouped, Requeues>>
    <2>1. UNCHANGED <<call, pc, grouped>>
      BY ZenonT(60) DEF Move, waitVars
    <2>2. Requeues' = Requeues
      BY ZenonT(60) DEF Requeues, AllOps
    <2> QED BY <2>1, <2>2
  <1> SUFFICES ASSUME NEW u \in Tasks PROVE Origin(u)'
    BY ZenonT(60)
  <1>5. CASE queued'[u] \in {NoWord, queued[u]}
    BY <1>4, <1>5, KeptOrigin DEF Kept, Origins
  <1>6. CASE queued[u] = op[a].src /\ queued'[u] = op[a].dst
    BY <1>1, <1>3, <1>4, <1>6, ZenonT(60) DEF Origin, Origins
  <1> QED BY <1>2, <1>5, <1>6, ZenonT(60)

LEMMA OriginStep ==
    ASSUME Types, CountInv, CountInv', Origins, [Next]_vars
    PROVE  \A u \in Tasks : Origin(u)'
  <1>c. UNCHANGED cfg
    BY CfgSame, Zenon
  <1>k. ASSUME \A u \in Tasks : Kept(u) \/ pc'[u] \in Outside PROVE \A u \in Tasks : Origin(u)'
    BY <1>c, <1>k, KeptOrigin, OutsideOrigin, ZenonT(60) DEF Origins
  <1>1. CASE UNCHANGED vars
    BY <1>k, <1>1 DEF vars, listVars, waitVars, Kept
  <1>2. ASSUME NEW t \in Tasks, TaskStep(t) \/ Preempt(t) \/ Drain(t) \/ Elapse(t) \/ Sweep(t) \/ Signal(t)
        PROVE  \A u \in Tasks : Origin(u)'
    <2>1. CASE Queue(t) /\ ~Changed(t)
      BY <1>c, <2>1, EnqueueOrigin, ZenonT(60) DEF Origins
    <2>2. CASE ~(Queue(t) /\ ~Changed(t))
      BY <1>k, <1>2, <2>2, TaskKept, ZenonT(60) DEF TaskStep
    <2> QED BY <2>1, <2>2
  <1>3. ASSUME NEW t \in Tasks, NEW c \in cfg.calls[t], Call(t, c) PROVE \A u \in Tasks : Origin(u)'
    BY <1>c, <1>3, CallOrigin, Zenon DEF Origins
  <1>4. ASSUME NEW a \in Agents, NEW t \in Tasks, Ttwu(a, t) PROVE \A u \in Tasks : Origin(u)'
    BY <1>k, <1>4, TtwuKept, ZenonT(60)
  <1>5. ASSUME NEW a \in Wakers, WakerStep(a) PROVE \A u \in Tasks : Origin(u)'
    BY <1>c, <1>k, <1>5, WakerKept, MoveOrigin DEF WakerStep
  <1>6. ASSUME NEW a \in Wakers, NEW o \in cfg.ops[a], Issue(a, o) PROVE \A u \in Tasks : Origin(u)'
    BY <1>k, <1>6, ZenonT(60) DEF Issue, listVars, waitVars, Kept
  <1> QED BY <1>1, <1>2, <1>3, <1>4, <1>5, <1>6, ZenonT(60) DEF Next

LEMMA SourceStep ==
    ASSUME Types, Origins, [Next]_vars
    PROVE  \A b \in Wakers : Source(b)'
  <1>c. UNCHANGED cfg
    BY CfgSame, Zenon
  <1>t. /\ at \in [Wakers -> Active \union {"user", "claim"}] /\ op \in [Wakers -> Operations \union {NoOp}]
        /\ target \in [Agents -> Tasks \union {NoTask}] /\ Wakers \subseteq Agents
    BY ZenonT(60) DEF Types, AgentTypes, HitTypes, Agents
  <1>k. ASSUME NEW b \in Wakers, at'[b] = at[b], op'[b] = op[b], target'[b] = target[b] PROVE Source(b)'
    <2>1. Source(b)
      BY Zenon DEF Origins
    <2> QED BY <1>c, <1>k, <2>1, ZenonT(60) DEF Source, Issued
  <1>d. ASSUME NEW b \in Wakers, at'[b] \in {"user", "claim"}, target'[b] = NoTask PROVE Source(b)'
    BY <1>d, ZenonT(60) DEF Source, Active
  <1>0. ASSUME UNCHANGED <<at, op, target>> PROVE \A b \in Wakers : Source(b)'
    BY <1>0, <1>k
  <1>1. CASE UNCHANGED vars
    BY <1>0, <1>1, ZenonT(60) DEF vars, agentVars
  <1>2. ASSUME NEW t \in Tasks, TaskStep(t) \/ Preempt(t) \/ \E c \in cfg.calls[t] : Call(t, c)
        PROVE  \A b \in Wakers : Source(b)'
    BY <1>0, <1>2, ZenonT(60) DEF TaskStep, Load, Queue, Arm, Schedule, Awake, Remove, Preempt, Call, agentVars
  <1>3. ASSUME NEW t \in Tasks, Drain(t) \/ Elapse(t) \/ Sweep(t) \/ Signal(t) PROVE \A b \in Wakers : Source(b)'
    BY <1>0, <1>3, ZenonT(60) DEF Drain, Elapse, Sweep, Pop, Expire, Signal, agentVars
  <1>4. ASSUME NEW a \in Agents, NEW t \in Tasks, Ttwu(a, t) PROVE \A b \in Wakers : Source(b)'
    <2>1. CASE Woke(a, t) /\ (a \in Wakers => at[a] = "claim")
      <3> SUFFICES ASSUME NEW b \in Wakers PROVE Source(b)'
        BY Zenon
      <3>1. CASE b # a
        BY <1>t, <1>k, <2>1, <3>1, ZenonT(60) DEF Woke, Done
      <3>2. CASE b = a
        BY <1>t, <1>d, <2>1, <3>2 DEF Woke, Done
      <3> QED BY <3>1, <3>2
    <2>2. CASE Claim(a, t)
      <3> SUFFICES ASSUME NEW b \in Wakers PROVE Source(b)'
        OBVIOUS
      <3>1. CASE b # a
        BY <1>t, <1>k, <2>2, <3>1, ZenonT(60) DEF Claim
      <3>2. CASE b = a
        BY <1>t, <2>2, <3>2, ZenonT(60) DEF Claim, MayClaim, Source, Active
      <3> QED BY <3>1, <3>2
    <2>3. CASE LatePlace(a, t)
      <3>1. a \in Wakers => at[a] = "claim"
        BY <2>3, NameAssumption DEF LatePlace, Origins, Source
      <3> QED BY <2>1, <2>3, <3>1, ZenonT(60) DEF LatePlace
    <2> QED BY <1>4, <2>1, <2>2, <2>3, ZenonT(60) DEF Ttwu, Lose, Wake, MayClaim
  <1>5. ASSUME NEW a \in Wakers, WakerStep(a) PROVE \A b \in Wakers : Source(b)'
    <2> SUFFICES ASSUME NEW b \in Wakers PROVE Source(b)'
      BY Zenon
    <2>0. UNCHANGED target /\ at[a] \in Active /\ target[a] = NoTask
      BY <1>5, ZenonT(60) DEF WakerStep, Scan, Groups, Compare, Move, Origins, Source, Active
    <2>1. CASE b # a
      <3>1. at'[b] = at[b] /\ op'[b] = op[b]
        BY <1>t, <1>5, <2>1, ZenonT(60) DEF WakerStep, Scan, Groups, Compare, Move, Claims, Done
      <3> QED BY <1>k, <2>0, <3>1
    <2>2. CASE b = a /\ (Done(a) \/ Claims(a))
      BY <1>t, <1>d, <2>0, <2>2 DEF Done, Claims
    <2>3. CASE b = a /\ Scan(a) /\ at' = [at EXCEPT ![a] = "groups"] /\ UNCHANGED op
      <3>1. at[a] = "scan" /\ at'[a] = "groups" /\ op'[a] = op[a]
        BY <1>t, <2>3, ZenonT(60) DEF Scan
      <3> QED BY <1>c, <2>0, <2>3, <3>1, ZenonT(60) DEF Origins, Source, Issued, Active
    <2>4. CASE b = a /\ Compare(a)
      <3>1. PICK o \in cfg.ops[a] : Issued(a, o) /\ o.kind = "requeue"
        BY <2>0, <2>4, ZenonT(60) DEF Compare, Origins, Source, Issued
      <3>2. op[a] \in Operations
        BY <2>0, AtWork
      <3>3. \/ at'[a] = "move" /\ op'[a] = [op[a] EXCEPT !.n = op[a].n]
            \/ at'[a] = "scan" /\ op'[a] = [op[a] EXCEPT !.n = IntMax]
        BY <1>t, <2>4 DEF Compare
      <3>4. /\ at'[a] \in {"move", "scan"} /\ (at'[a] = "scan" => op'[a].n = IntMax)
            /\ op'[a].kind = op[a].kind /\ op'[a].src = op[a].src /\ op'[a].dst = op[a].dst
            /\ op'[a].bits = op[a].bits /\ op'[a].store = op[a].store /\ op'[a].moves = op[a].moves
        BY <3>2, <3>3, ZenonT(60) DEF Operations
      <3> QED BY <1>c, <2>0, <2>4, <3>1, <3>4 DEF Source, Issued
    <2> QED BY <1>5, <2>1, <2>2, <2>3, <2>4, ZenonT(60) DEF WakerStep, Scan, Groups, Move
  <1>6. ASSUME NEW a \in Wakers, NEW o \in cfg.ops[a], Issue(a, o) PROVE \A b \in Wakers : Source(b)'
    <2> SUFFICES ASSUME NEW b \in Wakers PROVE Source(b)'
      OBVIOUS
    <2>1. CASE b # a
      BY <1>t, <1>k, <1>6, <2>1, ZenonT(60) DEF Issue
    <2>2. CASE b = a
      <3>1. o \in Operations
        BY ConfigAssumption DEF Types, RestTypes
      <3>2. PICK v : op'[a] = [o EXCEPT !.cmp = v]
        BY <1>t, <1>6, ZenonT(60) DEF Issue
      <3>3. /\ op'[a].kind = o.kind /\ op'[a].src = o.src /\ op'[a].dst = o.dst
            /\ op'[a].bits = o.bits /\ op'[a].store = o.store /\ op'[a].n = o.n /\ op'[a].moves = o.moves
            /\ o.kind \in {"wake", "requeue"}
        BY <3>1, <3>2 DEF Operations
      <3>4. /\ at'[a] = IF o.kind = "requeue" THEN "compare" ELSE "scan"
            /\ at[a] = "user" /\ UNCHANGED target
        BY <1>t, <1>6, ZenonT(60) DEF Issue
      <3>5. target'[a] = NoTask
        BY <3>4 DEF Origins, Source
      <3>6. Issued(a, o)'
        BY <3>3, <3>4, ZenonT(60) DEF Issued
      <3> QED BY <1>c, <2>2, <3>5, <3>6, ZenonT(60) DEF Source
    <2> QED BY <2>1, <2>2, ZenonT(60)
  <1> QED BY <1>1, <1>2, <1>3, <1>4, <1>5, <1>6, ZenonT(60) DEF Next

\* No stale wait is registered, no word changes and no waker moves on.
LEMMA KeptCovered ==
    ASSUME Covered, UNCHANGED word,
           \A u \in Tasks : \/ Kept(u) \/ (queued'[u] = NoWord /\ ~grouped'[u])
                            \/ \A i \in DOMAIN call'[u].words : ~Stale(u, i)',
           \A u \in Tasks : NoWord \notin {call'[u].words[i] : i \in DOMAIN call'[u].words},
           \A a \in Wakers : at[a] \in Active => at'[a] = at[a] /\ op'[a] = op[a]
    PROVE  Covered'
  <1> SUFFICES ASSUME NEW u \in Tasks, NEW i \in DOMAIN call'[u].words PROVE Ahead(u, i)'
    BY ZenonT(60) DEF Covered
  <1>1. \A w : \A points \in SUBSET Active : Pending(w, points) => Pending(w, points)'
    BY DEF Pending
  <1>2. CASE queued'[u] = NoWord /\ ~grouped'[u]
    BY <1>2, Zenon DEF Ahead
  <1>4. CASE ~Stale(u, i)'
    BY <1>4, Zenon DEF Ahead
  <1>3. CASE Kept(u)
    <2>1. call'[u] = call[u] /\ Ahead(u, i) /\ (Stale(u, i)' <=> Stale(u, i))
      BY <1>3, Zenon DEF Kept, Covered, Stale
    <2>2. queued'[u] = call'[u].words[i] => queued[u] = call[u].words[i]
      BY <1>3, ZenonT(60) DEF Kept
    <2>3. grouped'[u] => grouped[u]
      BY <1>3, Zenon DEF Kept
    <2> QED BY <1>1, <2>1, <2>2, <2>3, ZenonT(60) DEF Ahead, Active
  <1> QED BY <1>2, <1>3, <1>4

\* A count that reaches every task takes every registration that matches.
LEMMA PicksAll ==
    ASSUME NEW match \in SUBSET Tasks, NEW n \in Int, n >= Cardinality(Tasks), NEW S \in Picks(n, match)
    PROVE  S = match
  <1>1. S \subseteq match /\ (Cardinality(S) = n \/ S = match)
    BY Zenon DEF Picks
  <1>2. CASE Cardinality(S) = n
    <2>1. /\ IsFiniteSet(Tasks) /\ Cardinality(Tasks) \in Nat
      BY CountAssumption, FS_CardinalityType, Zenon
    <2>2. S \in SUBSET Tasks /\ Cardinality(S) <= Cardinality(Tasks) /\ (Cardinality(Tasks) = Cardinality(S) => Tasks = S)
      BY <1>1, <2>1, FS_Subset, ZenonT(60)
    <2>3. Cardinality(Tasks) = Cardinality(S)
      BY <1>2, <2>1, <2>2
    <2> QED BY <1>1, <2>2, <2>3, Zenon
  <1> QED BY <1>1, <1>2, Zenon

\* A waker that has changed its word reaches every task that waits on it.
LEMMA Reach ==
    ASSUME Types, Origins, Broadcasts, NEW a \in Wakers, at[a] \in Active, op[a].store
    PROVE  /\ at[a] \in {"scan", "groups"} => op[a].n \in Nat /\ op[a].n >= IntMax
           /\ at[a] = "move" => op[a].moves \in Nat /\ op[a].moves >= IntMax
           /\ \A t \in Tasks : pc[t] \notin Outside => call[t].bits \intersect op[a].bits # {}
  <1>1. PICK o \in cfg.ops[a] : Issued(a, o)
    BY Zenon DEF Origins, Source
  <1>2. o \in AllOps /\ o.store
    BY <1>1, ZenonT(60) DEF AllOps, Issued
  <1>3. ASSUME at[a] \in {"scan", "groups"} PROVE op[a].n \in Nat /\ op[a].n >= IntMax
    <2>1. op[a].n \in Nat /\ IntMax \in Nat
      BY AtWork, CountAssumption, FS_CardinalityType, ZenonT(60)
    <2> QED BY <1>1, <1>2, <1>3, <2>1 DEF Issued, Broadcasts
  <1>4. ASSUME NEW t \in Tasks, pc[t] \notin Outside PROVE call[t].bits \intersect op[a].bits # {}
    <2>1. PICK c \in AllCalls : call[t].bits = c.bits
      BY <1>4, ZenonT(60) DEF Origins, Origin, AllCalls
    <2> QED BY <1>1, <1>2, <2>1, ZenonT(60) DEF Broadcasts, Issued
  <1>5. ASSUME at[a] = "move" PROVE op[a].moves \in Nat /\ op[a].moves >= IntMax
    <2>1. op[a].moves \in Nat
      BY AtWork, ZenonT(60) DEF Operations
    <2>2. op[a].moves = o.moves /\ o.kind = "requeue"
      BY <1>1, <1>5, ZenonT(60) DEF Issued
    <2>3. o.moves >= IntMax
      BY <1>2, <2>2 DEF Broadcasts
    <2> QED BY <2>1, <2>2, <2>3, Zenon
  <1> QED BY <1>3, <1>4, <1>5, Zenon

\* The wakers other than a keep what they have still to pass.
LEMMA OthersPending ==
    ASSUME NEW a \in Wakers, NEW w, NEW points, Pending(w, points), ~(at[a] \in points /\ op[a].src = w /\ op[a].store),
           \A b \in Wakers \ {a} : at'[b] = at[b] /\ op'[b] = op[b]
    PROVE  Pending(w, points)'
  BY DEF Pending

LEMMA ScanCovered ==
    ASSUME Types, CountInv, Origins, Broadcasts, Covered, NEW a \in Wakers, Scan(a)
    PROVE  Covered'
  <1> DEFINE match == {t \in Tasks : queued[t] = op[a].src /\ call[t].bits \intersect op[a].bits # {}}
  <1>1. PICK S \in Picks(op[a].n, match) :
          /\ queued' = [t \in Tasks |-> IF t \in S THEN NoWord ELSE queued[t]]
          /\ IF Cardinality(S) < op[a].n THEN at' = [at EXCEPT ![a] = "groups"] /\ UNCHANGED op ELSE Claims(a)
    BY Zenon DEF Scan
  <1>2. at[a] = "scan" /\ UNCHANGED <<word, grouped, call>>
    BY ZenonT(60) DEF Scan, waitVars
  <1>3. \A b \in Wakers \ {a} : at'[b] = at[b] /\ op'[b] = op[b]
    BY <1>1 DEF Claims, Types, AgentTypes
  <1>4. Cardinality(Tasks) \in Nat /\ IsFiniteSet(Tasks)
    BY CountAssumption, FS_CardinalityType, Zenon
  <1>5. op[a].store => S = match
    <2>1. op[a].store => op[a].n \in Int /\ op[a].n >= Cardinality(Tasks)
      BY <1>2, <1>4, Reach, Plenty, CountAssumption, ZenonT(60) DEF Active
    <2> QED BY <2>1, PicksAll, Zenon
  <1> SUFFICES ASSUME NEW u \in Tasks, NEW i \in DOMAIN call[u].words, Stale(u, i)
               PROVE  /\ queued'[u] = call[u].words[i] => Pending(call[u].words[i], {"scan", "compare", "move"})'
                      /\ grouped[u] => Pending(call[u].words[i], {"scan", "groups"})'
    BY <1>2, Zenon DEF Covered, Ahead, Stale
  <1>w. PICK w \in Words : w = call[u].words[i]
    BY Named, Zenon DEF Types, CallTypes
  <1>6. ASSUME queued'[u] = w PROVE Pending(w, {"scan", "compare", "move"})'
    <2>1. u \notin S /\ queued[u] = w /\ w # NoWord
      BY <1>1, <1>6, NameAssumption, ZenonT(60)
    <2>2. Pending(w, {"scan", "compare", "move"})
      BY <1>w, <2>1, Zenon DEF Covered, Ahead
    <2>3. ~(op[a].src = w /\ op[a].store)
      <3> SUFFICES ASSUME op[a].src = w, op[a].store PROVE FALSE
        BY Zenon
      <3>1. pc[u] \notin Outside
        BY <2>1, Zenon DEF CountInv, Counted, Registered
      <3>2. call[u].bits \intersect op[a].bits # {}
        BY <1>2, <3>1, Reach, ZenonT(60) DEF Active
      <3> QED BY <1>5, <2>1, <3>2, ZenonT(60)
    <2> QED BY <1>3, <2>2, <2>3, OthersPending, ZenonT(60)
  <1>7. ASSUME grouped[u] PROVE Pending(w, {"scan", "groups"})'
    <2>1. PICK b \in Wakers : at[b] \in {"scan", "groups"} /\ op[b].src = w /\ op[b].store
      <3>1. Pending(w, {"scan", "groups"})
        BY <1>w, <1>7, Zenon DEF Covered, Ahead
      <3> QED BY <3>1, Zenon DEF Pending
    <2>2. CASE b # a
      BY <1>3, <2>1, <2>2, ZenonT(60) DEF Pending
    <2>3. CASE b = a
      <3>1. Cardinality(S) < op[a].n
        <4>1. S \in SUBSET Tasks
          BY <1>5, <2>1, <2>3, ZenonT(60)
        <4>2. Cardinality(S) <= Cardinality(Tasks) /\ Cardinality(S) \in Nat
          BY <1>4, <4>1, FS_Subset, FS_CardinalityType, ZenonT(60)
        <4>3. Cardinality(Tasks) # 0
          BY <1>4, FS_EmptySet, Zenon
        <4>4. op[a].n \in Nat /\ op[a].n >= IntMax
          BY <2>1, <2>3, Reach, ZenonT(60) DEF Active
        <4> QED BY <1>4, <4>2, <4>3, <4>4, Plenty, CountAssumption, ZenonT(60)
      <3>2. at'[a] = "groups" /\ op'[a] = op[a]
        BY <1>1, <3>1, ZenonT(60) DEF Types, AgentTypes
      <3> QED BY <2>1, <2>3, <3>2, ZenonT(60) DEF Pending
    <2> QED BY <2>2, <2>3, Zenon
  <1>8. w = call'[u].words[i]
    BY <1>2, <1>w, ZenonT(60)
  <1> QED BY <1>w, <1>6, <1>7, <1>8, ZenonT(60)

LEMMA GroupsCovered ==
    ASSUME Types, Origins, Broadcasts, Covered, NEW a \in Wakers, Groups(a)
    PROVE  Covered'
  <1> DEFINE src == op[a].src
  <1> DEFINE match == {t \in Tasks : grouped[t] /\ \E i \in DOMAIN call[t].words : call[t].words[i] = src}
  <1>1. PICK S \in Picks(op[a].n - Cardinality(hits[a]), match) :
          grouped' = [t \in Tasks |-> grouped[t] /\ t \notin S] /\ (Done(a) \/ Claims(a))
    BY Zenon DEF Groups
  <1>2. at[a] = "groups" /\ UNCHANGED <<word, queued, call>>
    BY Zenon DEF Groups, waitVars
  <1>3. \A b \in Wakers \ {a} : at'[b] = at[b] /\ op'[b] = op[b]
    BY <1>1, Zenon DEF Done, Claims, Types, AgentTypes
  <1>5. op[a].store => S = match
    <2>0. Cardinality(Tasks) \in Nat /\ IsFiniteSet(Tasks)
      BY CountAssumption, FS_CardinalityType, ZenonT(60)
    <2>1. hits[a] \in SUBSET Tasks
      BY Zenon DEF Types, HitTypes, Agents
    <2>2. Cardinality(hits[a]) <= Cardinality(Tasks) /\ Cardinality(hits[a]) \in Nat
      BY <2>0, <2>1, FS_Subset, FS_CardinalityType, ZenonT(60)
    <2>3. op[a].store => op[a].n \in Nat /\ op[a].n >= IntMax
      BY <1>2, Reach, Zenon DEF Active
    <2>4. op[a].store => /\ op[a].n - Cardinality(hits[a]) \in Int
                         /\ op[a].n - Cardinality(hits[a]) >= Cardinality(Tasks)
      BY <2>0, <2>2, <2>3, Plenty, CountAssumption, ZenonT(60)
    <2> QED BY <2>4, PicksAll, Zenon
  <1> SUFFICES ASSUME NEW u \in Tasks, NEW i \in DOMAIN call[u].words, Stale(u, i)
               PROVE  /\ queued[u] = call[u].words[i] => Pending(call[u].words[i], {"scan", "compare", "move"})'
                      /\ grouped'[u] => Pending(call[u].words[i], {"scan", "groups"})'
    BY <1>2, Zenon DEF Covered, Ahead, Stale
  <1>w. PICK w \in Words : w = call[u].words[i]
    BY Named, Zenon DEF Types, CallTypes
  <1>6. ASSUME queued[u] = w PROVE Pending(w, {"scan", "compare", "move"})'
    <2>1. Pending(w, {"scan", "compare", "move"})
      BY <1>w, <1>6, Zenon DEF Covered, Ahead
    <2> QED BY <1>2, <1>3, <2>1, OthersPending, ZenonT(60)
  <1>7. ASSUME grouped'[u] PROVE Pending(w, {"scan", "groups"})'
    <2>1. grouped[u] /\ u \notin S
      BY <1>1, <1>7, ZenonT(60)
    <2>2. Pending(w, {"scan", "groups"})
      BY <1>w, <2>1, ZenonT(60) DEF Covered, Ahead
    <2>3. ~(op[a].src = w /\ op[a].store)
      BY <1>w, <1>5, <2>1, ZenonT(60)
    <2> QED BY <1>3, <2>2, <2>3, OthersPending, ZenonT(60)
  <1>8. w = call'[u].words[i]
    BY <1>2, <1>w
  <1> QED BY <1>w, <1>6, <1>7, <1>8, ZenonT(60)

LEMMA CompareCovered ==
    ASSUME Types, Covered, NEW a \in Wakers, Compare(a)
    PROVE  Covered'
  <1>1. at[a] = "compare" /\ at'[a] \in {"move", "scan"} /\ UNCHANGED <<word, queued, grouped, call>>
    BY DEF Compare, listVars, waitVars, Types, AgentTypes
  <1>2. op'[a].src = op[a].src /\ op'[a].store = op[a].store
    <2>1. op[a] \in Operations
      BY <1>1, AtWork DEF Active
    <2>2. PICK n : op'[a] = [op[a] EXCEPT !.n = n]
      BY Zenon DEF Compare, Types, AgentTypes
    <2> QED BY <2>1, <2>2, ZenonT(60) DEF Operations
  <1>3. \A b \in Wakers \ {a} : at'[b] = at[b] /\ op'[b] = op[b]
    BY DEF Compare, Types, AgentTypes
  <1>4. \A w : Pending(w, {"scan", "compare", "move"}) => Pending(w, {"scan", "compare", "move"})'
    BY <1>1, <1>2, <1>3, ZenonT(60) DEF Pending
  <1>5. \A w : Pending(w, {"scan", "groups"}) => Pending(w, {"scan", "groups"})'
    BY <1>1, <1>3 DEF Pending
  <1> SUFFICES ASSUME NEW u \in Tasks, NEW i \in DOMAIN call[u].words PROVE Ahead(u, i)'
    BY <1>1, ZenonT(60) DEF Covered
  <1>6. Ahead(u, i) /\ (Stale(u, i)' <=> Stale(u, i)) /\ call'[u].words[i] = call[u].words[i]
    BY <1>1 DEF Covered, Stale
  <1> QED BY <1>1, <1>4, <1>5, <1>6, ZenonT(60) DEF Ahead

LEMMA MoveCovered ==
    ASSUME Types, Origins, Broadcasts, Covered, NEW a \in Wakers, Move(a)
    PROVE  Covered'
  <1>1. at[a] = "move" /\ UNCHANGED <<word, grouped, call>>
    BY Zenon DEF Move, waitVars
  <1>2. \A b \in Wakers \ {a} : at'[b] = at[b] /\ op'[b] = op[b]
    BY ZenonT(60) DEF Move, Done, Claims, Types, AgentTypes
  <1>3. \A u \in Tasks : \/ queued'[u] \in {NoWord, queued[u]} /\ (op[a].store => queued'[u] # op[a].src)
                         \/ queued[u] = op[a].src /\ queued'[u] = op[a].dst
    <2> DEFINE match == {t \in Tasks : queued[t] = op[a].src}
    <2>1. PICK S \in Picks(op[a].n, match) : \E M \in Picks(op[a].moves, match \ S) :
            queued' = [t \in Tasks |-> IF t \in S THEN NoWord ELSE IF t \in M THEN op[a].dst ELSE queued[t]]
      BY ZenonT(60) DEF Move
    <2>2. PICK M \in Picks(op[a].moves, match \ S) :
            queued' = [t \in Tasks |-> IF t \in S THEN NoWord ELSE IF t \in M THEN op[a].dst ELSE queued[t]]
      BY <2>1, Zenon
    <2>3. M \subseteq match
      BY Zenon DEF Picks
    <2>4. op[a].store => M = match \ S
      <3>1. Cardinality(Tasks) \in Nat
        BY CountAssumption, FS_CardinalityType, Zenon
      <3>2. op[a].store => op[a].moves \in Int /\ op[a].moves >= Cardinality(Tasks)
        BY <1>1, <3>1, Reach, Plenty, CountAssumption, ZenonT(60) DEF Active
      <3>3. match \ S \in SUBSET Tasks
        BY Zenon
      <3> QED BY <3>2, <3>3, PicksAll, ZenonT(60)
    <2>5. op[a].src # NoWord
      BY <1>1, AtWork, ZenonT(60) DEF Active
    <2> SUFFICES ASSUME NEW u \in Tasks
                 PROVE  \/ queued'[u] \in {NoWord, queued[u]} /\ (op[a].store => queued'[u] # op[a].src)
                        \/ queued[u] = op[a].src /\ queued'[u] = op[a].dst
      BY ZenonT(60)
    <2>6. CASE u \in S
      BY <2>2, <2>5, <2>6, ZenonT(60)
    <2>7. CASE u \notin S /\ u \in M
      BY <2>2, <2>3, <2>7, ZenonT(60)
    <2>8. CASE u \notin S /\ u \notin M
      <3>1. queued'[u] = queued[u]
        BY <2>2, <2>8, ZenonT(60)
      <3>2. op[a].store => queued[u] # op[a].src
        BY <2>4, <2>8, ZenonT(60)
      <3> QED BY <3>1, <3>2, ZenonT(60)
    <2> QED BY <2>6, <2>7, <2>8, Zenon
  <1>4. PICK o \in Requeues : op[a].src = o.src /\ op[a].dst = o.dst
    BY <1>1 DEF Origins, Source, Issued, Active, Requeues, AllOps
  <1> SUFFICES ASSUME NEW u \in Tasks, NEW i \in DOMAIN call[u].words, Stale(u, i)
               PROVE  /\ queued'[u] = call[u].words[i] => Pending(call[u].words[i], {"scan", "compare", "move"})'
                      /\ grouped[u] => Pending(call[u].words[i], {"scan", "groups"})'
    BY <1>1, ZenonT(60) DEF Covered, Ahead, Stale
  <1>w. PICK w \in Words : w = call[u].words[i] /\ w # NoWord
    BY Named, ZenonT(60) DEF Types, CallTypes
  <1>6. ASSUME queued'[u] = w PROVE Pending(w, {"scan", "compare", "move"})'
    <2>1. ~(queued[u] = op[a].src /\ queued'[u] = op[a].dst)
      <3> SUFFICES ASSUME queued[u] = op[a].src, queued'[u] = op[a].dst PROVE FALSE
        BY ZenonT(60)
      <3>1. w = o.dst
        BY <1>4, <1>6, Zenon
      <3>2. queued[u] # NoWord
        BY <1>1, AtWork, ZenonT(60) DEF Active
      <3>3. call[u].words[i] = call[u].words[1]
        BY <3>2 DEF Origins, Origin, Types, CallTypes
      <3>4. \A p \in Requeues : p.dst # o.src
        BY ZenonT(60) DEF Broadcasts
      <3> QED BY <1>4, <1>w, <3>1, <3>2, <3>3, <3>4, ZenonT(60) DEF Origins, Origin
    <2>2. queued[u] = w /\ ~(op[a].src = w /\ op[a].store)
      BY <1>3, <1>w, <1>6, <2>1, ZenonT(60)
    <2>3. Pending(w, {"scan", "compare", "move"})
      BY <1>w, <2>2, Zenon DEF Covered, Ahead
    <2> QED BY <1>2, <2>2, <2>3, OthersPending, ZenonT(60)
  <1>7. ASSUME grouped[u] PROVE Pending(w, {"scan", "groups"})'
    <2>1. Pending(w, {"scan", "groups"})
      BY <1>w, <1>7 DEF Covered, Ahead
    <2> QED BY <1>1, <1>2, <2>1, OthersPending, ZenonT(60)
  <1>8. w = call'[u].words[i]
    BY <1>1, <1>w, ZenonT(60)
  <1> QED BY <1>w, <1>6, <1>7, <1>8, ZenonT(60)

LEMMA IssueCovered ==
    ASSUME Types, CountInv, Origins, Broadcasts, Covered, NEW a \in Wakers, NEW o \in cfg.ops[a], Issue(a, o)
    PROVE  Covered'
  <1>0. o \in Operations /\ o \in AllOps
    BY ConfigAssumption DEF Types, RestTypes, AllOps
  <1>1. at[a] = "user" /\ UNCHANGED <<queued, grouped, call>>
    BY DEF Issue, listVars, waitVars
  <1>2. /\ op'[a].src = o.src /\ op'[a].store = o.store
        /\ at'[a] = IF o.kind = "requeue" THEN "compare" ELSE "scan"
    <2>1. PICK v : op'[a] = [o EXCEPT !.cmp = v]
      BY Zenon DEF Issue, Types, AgentTypes
    <2>2. at'[a] = IF o.kind = "requeue" THEN "compare" ELSE "scan"
      BY DEF Issue, Types, AgentTypes
    <2> QED BY <1>0, <2>1, <2>2 DEF Operations
  <1>3. \A b \in Wakers \ {a} : at'[b] = at[b] /\ op'[b] = op[b]
    BY DEF Issue, Types, AgentTypes
  <1>4. \A w \in Words : w # o.src \/ ~o.store => word'[w] = word[w]
    BY <1>0, Zenon DEF Issue, Types, RestTypes, Operations
  <1> SUFFICES ASSUME NEW u \in Tasks, NEW i \in DOMAIN call[u].words PROVE Ahead(u, i)'
    BY <1>1, ZenonT(60) DEF Covered
  <1>w. PICK w \in Words : w = call[u].words[i] /\ w = call'[u].words[i] /\ call'[u].vals = call[u].vals
    BY <1>1 DEF Types, CallTypes
  <1>5. CASE w = o.src /\ o.store
    <2>1. Pending(w, {"scan", "compare", "move"})'
      BY <1>2, <1>5, ZenonT(60) DEF Pending
    <2>2. grouped[u] => Pending(w, {"scan", "groups"})'
      <3> SUFFICES ASSUME grouped[u] PROVE Pending(w, {"scan", "groups"})'
        BY Zenon
      <3>1. Len(call[u].words) > 1 /\ pc[u] \notin Outside
        BY ZenonT(60) DEF Origins, Origin, CountInv, Counted, Registered
      <3>2. PICK c \in AllCalls : call[u].words = c.words
        BY <3>1 DEF Origins, Origin, AllCalls
      <3>3. o.kind # "requeue"
        BY <1>0, <1>w, <1>5, <3>1, <3>2, ZenonT(60) DEF Broadcasts, Requeues
      <3> QED BY <1>2, <1>5, <3>3, ZenonT(60) DEF Pending
    <2> QED BY <1>1, <1>w, <2>1, <2>2, ZenonT(60) DEF Ahead
  <1>6. CASE ~(w = o.src /\ o.store)
    <2>1. Stale(u, i)' <=> Stale(u, i)
      BY <1>4, <1>6, <1>w, Zenon DEF Stale
    <2>2. /\ Pending(w, {"scan", "compare", "move"}) => Pending(w, {"scan", "compare", "move"})'
          /\ Pending(w, {"scan", "groups"}) => Pending(w, {"scan", "groups"})'
      BY <1>1, <1>3, OthersPending, ZenonT(60)
    <2>3. Ahead(u, i)
      BY Zenon DEF Covered
    <2> QED BY <1>1, <1>w, <2>1, <2>2, <2>3, Zenon DEF Ahead
  <1> QED BY <1>5, <1>6, ZenonT(60)

\* What moves a waker outside its own sections is the end of its call.
LEMMA ActiveStays ==
    ASSUME Types, Origins, NEW a \in Agents, NEW t \in Tasks, Ttwu(a, t), NEW b \in Wakers, at[b] \in Active
    PROVE  at'[b] = at[b] /\ op'[b] = op[b]
  <1>1. UNCHANGED <<at, op>> \/ Woke(a, t)
    BY DEF Ttwu, Lose, Wake, Claim, LatePlace
  <1>2. b # a
    BY NameAssumption, Zenon DEF Ttwu, Lose, Wake, Claim, LatePlace, MayClaim, Origins, Source, Active
  <1> QED BY <1>1, <1>2, ZenonT(60) DEF Woke, Done, Types, AgentTypes

LEMMA CoveredStep ==
    ASSUME Types, Types', CountInv, CountInv', Origins, Broadcasts, Covered, [Next]_vars
    PROVE  Covered'
  <1>w. \A u \in Tasks : NoWord \notin {call'[u].words[i] : i \in DOMAIN call'[u].words}
    BY Named, ZenonT(60) DEF Types, CallTypes
  <1>o. \A u \in Tasks : pc'[u] \in Outside \union {"load"} => queued'[u] = NoWord /\ ~grouped'[u]
    BY DEF CountInv, Counted, Registered
  <1>k. ASSUME UNCHANGED word, \A u \in Tasks : Kept(u) \/ pc'[u] \in Outside,
               \A b \in Wakers : at[b] \in Active => at'[b] = at[b] /\ op'[b] = op[b]
        PROVE  Covered'
    <2>1. \A u \in Tasks : Kept(u) \/ (queued'[u] = NoWord /\ ~grouped'[u])
      BY <1>k, <1>o, Zenon
    <2> QED BY <1>k, <1>w, <2>1, KeptCovered, ZenonT(60)
  <1>1. CASE UNCHANGED vars
    BY <1>k, <1>1, ZenonT(60) DEF vars, listVars, waitVars, agentVars, Kept
  <1>2. ASSUME NEW t \in Tasks, TaskStep(t) \/ Preempt(t) \/ Drain(t) \/ Elapse(t) \/ Sweep(t) \/ Signal(t)
        PROVE  Covered'
    <2>0. UNCHANGED <<word, at, op>>
      BY <1>2, ZenonT(60) DEF TaskStep, Load, Queue, Arm, Schedule, Awake, Remove, Preempt, Drain, Elapse, Sweep, Pop, Expire,
                  Signal, agentVars
    <2>1. CASE Queue(t) /\ ~Changed(t)
      <3>1. \A u \in Tasks \ {t} : Kept(u)
        BY <2>1, TypedMaps, ZenonT(60) DEF Queue, Enqueue, Goto, Quiet, Maps, Kept
      <3>2. \A i \in DOMAIN call'[t].words : ~Stale(t, i)'
        BY <2>0, <2>1, ZenonT(60) DEF Queue, Changed, Enqueue, Quiet, Stale
      <3> QED BY <1>w, <2>0, <3>1, <3>2, KeptCovered, ZenonT(60)
    <2>2. CASE ~(Queue(t) /\ ~Changed(t))
      <3>1. \A u \in Tasks : Kept(u) \/ pc'[u] \in Outside
        BY <1>2, <2>2, TaskKept DEF TaskStep
      <3> QED BY <1>k, <2>0, <3>1, ZenonT(60)
    <2> QED BY <2>1, <2>2
  <1>3. ASSUME NEW t \in Tasks, NEW c \in cfg.calls[t], Call(t, c) PROVE Covered'
    <2>1. UNCHANGED <<word, at, op>> /\ pc'[t] = "load"
      BY <1>3, TypedMaps, ZenonT(60) DEF Call, Goto, Maps, agentVars
    <2>2. \A u \in Tasks \ {t} : Kept(u)
      BY <1>3, TypedMaps, ZenonT(60) DEF Call, Goto, Maps, Kept, Types, CallTypes
    <2>3. queued'[t] = NoWord /\ ~grouped'[t]
      BY <1>o, <2>1, ZenonT(60)
    <2> QED BY <1>w, <2>1, <2>2, <2>3, KeptCovered, ZenonT(60)
  <1>4. ASSUME NEW a \in Agents, NEW t \in Tasks, Ttwu(a, t) PROVE Covered'
    <2>1. UNCHANGED word
      BY <1>4, ZenonT(60) DEF Ttwu, Lose, Wake, Claim, LatePlace
    <2> QED BY <1>k, <1>4, <2>1, TtwuKept, ActiveStays, ZenonT(60)
  <1>5. ASSUME NEW a \in Wakers, WakerStep(a) PROVE Covered'
    BY <1>5, ScanCovered, GroupsCovered, CompareCovered, MoveCovered DEF WakerStep
  <1> QED BY <1>1, <1>2, <1>3, <1>4, <1>5, IssueCovered, ZenonT(60) DEF Next

\* For every number of words, tasks and wakers that wake whom they change the
\* word of, no wake is lost between the check and the sleep: a task registered
\* on a word that no longer has the value it waits on still has a waker ahead
\* (the second load of wait_loop under the queue lock).
THEOREM NoWakeLost == Spec => [](Broadcasts => NoLostWake)
  <1> DEFINE Inv == Types /\ CountInv /\ Origins /\ (Broadcasts => Covered)
  <1>1. Init => Inv
    <2> SUFFICES ASSUME Init PROVE Inv
      BY ZenonT(60)
    <2>1. CountInv
      BY DEF Init, CountInv, Counted, Registered, Outside, Waiting
    <2>2. Origins
      <3>1. \A t \in Tasks : Origin(t)
        BY DEF Init, Origin, Outside
      <3>2. \A a \in Wakers : Source(a)
        BY ZenonT(60) DEF Init, Source, Active, Agents
      <3> QED BY <3>1, <3>2, ZenonT(60) DEF Origins
    <2>3. Covered
      BY NameAssumption DEF Init, Covered, Ahead, NoCall
    <2> QED BY <2>1, <2>2, <2>3, InitType
  <1>2. Inv /\ [Next]_vars => Inv'
    <2> SUFFICES ASSUME Inv, [Next]_vars PROVE Inv'
      OBVIOUS
    <2>1. Types' /\ CountInv'
      BY StepType, CountStep
    <2>2. Origins'
      BY <2>1, OriginStep, SourceStep, ZenonT(60) DEF Origins
    <2>3. UNCHANGED Broadcasts
      BY CfgSame, ZenonT(60) DEF Broadcasts, AllOps, AllCalls, Requeues
    <2>4. Broadcasts => Covered'
      BY <2>1, CoveredStep, Zenon
    <2> QED BY <2>1, <2>2, <2>3, <2>4, ZenonT(60)
  <1>3. Inv => (Broadcasts => NoLostWake)
    <2> SUFFICES ASSUME Inv, Broadcasts, NEW t \in Tasks, NEW i \in DOMAIN call[t].words,
                        call[t].words[i] \in Listed(t), Stale(t, i)
                 PROVE  \E a \in Wakers : at[a] \in Active /\ op[a].src = call[t].words[i]
      BY Zenon DEF NoLostWake, Stale, Active
    <2>1. Ahead(t, i)
      BY Zenon DEF Covered
    <2>2. queued[t] = call[t].words[i] \/ grouped[t]
      BY Zenon DEF Listed
    <2> QED BY <2>1, <2>2, Zenon DEF Ahead, Pending, Active
  <1> QED
    BY <1>1, <1>2, <1>3, PTL DEF Spec
=============================================================================
