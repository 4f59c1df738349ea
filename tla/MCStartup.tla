----------------------------- MODULE MCStartup -----------------------------
(* Startup on small instances. *)
EXTENDS Startup

CONSTANTS p1, p2, p3, address1, address2, address3

\* Two that want the same addresses, and one with another.
MCServers == [p \in Processes |-> IF p = p3 THEN <<address3>> ELSE <<address1, address2>>]

=============================================================================
