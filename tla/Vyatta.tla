------------------------------- MODULE Vyatta ------------------------------
(***************************************************************************)
(* The configuration of a VyOS router (src/src/vyatta.cpp), which is added *)
(* to that of the command line.                                            *)
(*                                                                         *)
(* A router's configuration is what the entries dote-server0, dote-server1 *)
(* ... and dote-forwarder0, dote-forwarder1 ... hold, up to the first that *)
(* is not there; a pin or a host name may be NotSet.  Where the library is *)
(* missing or does not answer, every entry is empty.                       *)
(***************************************************************************)
EXTENDS ConfigParser

NoEntries == [servers |-> <<>>, forwarders |-> <<>>]

\* loadServers(): one parseConfig() for each entry.
LoadServers(p, router) ==
    FoldLeft(LAMBDA q, server :
                 ParseConfig(q, <<[flag |-> "s", address |-> server]>>, FALSE),
             p, router.servers)

\* The arguments loadForwarders() makes of an entry.  A pin and a host name
\* are passed on where they are empty.
ForwarderOptions(entry) ==
    <<[flag |-> "f", address |-> entry.address]>>
        \o (IF entry.pin = NotSet THEN <<[flag |-> "p", text |-> entry.pin]>> ELSE <<>>)
        \o (IF entry.host = NotSet THEN <<[flag |-> "h", text |-> entry.host]>> ELSE <<>>)

LoadForwarders(p, router) ==
    FoldLeft(LAMBDA q, entry : ParseConfig(q, ForwarderOptions(entry), FALSE),
             p, router.forwarders)

LoadConfig(p, router) == LoadForwarders(LoadServers(p, router), router)

\* loadDefaults() in main.cpp and VyattaCheck::workingConfig().
WorkingConfig(commandLine, router) == SetDefaults(LoadConfig(commandLine, router))

=============================================================================
