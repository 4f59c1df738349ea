------------------------------- MODULE MCDote ------------------------------
(* Dote on small instances. *)
EXTENDS Dote

CONSTANTS f1, f2, f3

MCRemote == [f \in Forwarders |-> f]
MCConfigs == {<<f1, f2>>}

\* Two configurations that overlap, for runs that reload.
MCReloads == {<<f1, f2, f3>>, <<f3, f1>>}

=============================================================================
