-------------------------- MODULE MCCapabilityBroker --------------------------
(* Small instances of CapabilityBroker for TLC. *)
EXTENDS CapabilityBroker, TLC

Symmetry == Permutations(Process) \cup Permutations(Thread)
              \cup Permutations(Origin) \cup Permutations(Authority)
===============================================================================
