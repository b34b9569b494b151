--------------------------- MODULE MCMetricsPoller ---------------------------
(* Instances of MetricsPoller for TLC. *)
EXTENDS MetricsPoller, TLC

CONSTANT User

\* All inverters of an instance belong to one user.
SameOwner == [i \in Inverters |-> User]

Symmetry == Permutations(Inverters)
=============================================================================
