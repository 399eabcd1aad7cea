------------------------------- MODULE MCRcu -------------------------------
(* Small instances of Rcu for TLC. *)
EXTENDS Rcu, TLC

CpuSymmetry == Permutations(Cpus)
BarrierSymmetry == Permutations(Barriers)
=============================================================================
