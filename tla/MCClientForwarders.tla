------------------------- MODULE MCClientForwarders ------------------------
(* ClientForwarders on a small instance. *)
EXTENDS ClientForwarders

=============================================================================
