----------------------- MODULE MCForwarderConnection -----------------------
(* ForwarderConnection on a small instance. *)
EXTENDS ForwarderConnection

CONSTANTS f1, f2, f3

MCRemote == [f \in Forwarders |-> f]
MCConfigs == {<<f1, f2, f3>>, <<f3, f1>>}

=============================================================================
