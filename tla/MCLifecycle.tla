---------------------------- MODULE MCLifecycle ----------------------------
(* Lifecycle on small instances. *)
EXTENDS Lifecycle, TLC

CONSTANTS f1, f2

MCRemote == [f \in Forwarders |-> f]
MCConfigs == {<<f1, f2>>}

\* Nothing in the specification orders the requests, and what it CHOOSEs by
\* them is unique: the connection that has a descriptor.
Symmetry == Permutations(Requests)

=============================================================================
