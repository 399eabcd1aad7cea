------------------------------- MODULE MCWake -------------------------------
(***************************************************************************)
(* WakeSwitch for TLC, scene by scene: wakes by other tasks while the mask *)
(* changes, and wakes of a lone waiter by interrupts of either CPU.        *)
(***************************************************************************)
EXTENDS WakeSwitch, TLC

ByTasks == [tasks |-> Tasks, contexts |-> {"process", "inline"}, masks |-> {}, rousers |-> {}]
Migrating == [ByTasks EXCEPT !.masks = {{c} : c \in Cpus}]
ByInterrupts == [tasks |-> Waiters, contexts |-> {"hard", "tail"}, masks |-> {}, rousers |-> Cpus]

SafetyScenes == {Migrating, ByInterrupts}
LiveScenes == {ByTasks}
ProcessScenes == {[ByTasks EXCEPT !.contexts = {"process"}]}

CpuSymmetry == Permutations(Cpus)
=============================================================================
