--------------------------- MODULE MCFoundryQueue ---------------------------
(* FoundryQueue for TLC: the names of the processes and the symmetries. *)
EXTENDS FoundryQueue, TLC

(* Every process writes its own name, as the charts deploy them. *)
OwnNames == [w \in Workers |-> w]

(* Every process was given the same S2P_FOUNDRY_WORKER_ID. *)
SharedName == [w \in Workers |-> CHOOSE o \in Owners : TRUE]

Symmetric == Permutations(Docs) \cup Permutations(Workers) \cup Permutations(Tokens)
=============================================================================
