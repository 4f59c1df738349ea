----------------------------- MODULE Lifecycle -----------------------------
(***************************************************************************)
(* The end of the process: the signals of src/src/main.cpp on top of the   *)
(* running proxy of module Dote.                                           *)
(*                                                                         *)
(* shutdownHandler() takes the server sockets out of the loop and puts the *)
(* signal's default action back, so that a second one kills the process.   *)
(* It runs between any two steps of Dote, which are coarser than           *)
(* instructions: that it may also run while the loop is inside one of its  *)
(* maps, or inside Server::handleDnsRequest(), is not modelled.  poll() is *)
(* never restarted after a handler: it fails with EINTR and ends run().    *)
(***************************************************************************)
EXTENDS Dote

CONSTANT Signals    \* SIGINT and SIGTERM

VARIABLES
    disposition,    \* of each signal
    ended           \* how: "drained" and "interrupted" if main() returned

lifeVars == <<disposition, ended>>

-----------------------------------------------------------------------------

\* Dote::shutdown(): the server's registrations go with it.
StopListening ==
    /\ readFns' = [h \in Handles |->
                    IF h \in Listening \ {ConfigWatch} THEN NotRegistered
                    ELSE readFns[h]]
    /\ UNCHANGED <<forwarders, reported, conn, writeFns, exceptFns, delivered>>

\* shutdownHandler(), during poll() or not.
ShutdownHandler(s) ==
    /\ disposition[s] = "handler"
    /\ disposition' = [disposition EXCEPT ![s] = "default"]
    /\ StopListening
    /\ \/ UNCHANGED ended
       \/ pc = "poll" /\ ended' = "interrupted"
    /\ UNCHANGED <<forwarderVars, loopVars>>

\* The default action of SIGINT and SIGTERM.
Kill(s) ==
    /\ disposition[s] = "default"
    /\ ended' = "killed"
    /\ UNCHANGED <<vars, disposition>>

\* The condition of the loop fails: the poll set is empty.
RunReturns ==
    /\ pc = "poll" /\ fds = <<>>
    /\ ended' = "drained"
    /\ UNCHANGED <<vars, disposition>>

\* The proxy goes on; poll() is called only with a poll set.
ProxyStep ==
    /\ pc = "poll" => fds # <<>>
    /\ Next
    /\ UNCHANGED lifeVars

LifeInit ==
    /\ Init
    /\ disposition = [s \in Signals |-> "handler"]
    /\ ended = "no"

LifeNext ==
    /\ ended = "no"
    /\ \/ ProxyStep
       \/ RunReturns
       \/ \E s \in Signals : ShutdownHandler(s) \/ Kill(s)

LifeSpec == LifeInit /\ [][LifeNext]_<<vars, lifeVars>>

-----------------------------------------------------------------------------

Stopped == \E s \in Signals : disposition[s] = "default"

(***************************************************************************)
(* The loop ends by itself only when there is nothing left to do: no       *)
(* connection, no queued request, although its poll set was built before   *)
(* the timeouts that may have opened connections, and the server sockets   *)
(* may have left it at any moment.                                         *)
(***************************************************************************)
DrainsFirst == ended = "drained" => active = {} /\ queue = <<>> /\ call = Idle

(***************************************************************************)
(* After the shutdown signal no request is taken, not even one whose       *)
(* arrival poll() had reported before it; those that had been taken are    *)
(* still sent and finished.                                                *)
(***************************************************************************)
TakesNoMore == [][Stopped => Received' = Received]_<<vars, lifeVars>>

(***************************************************************************)
(* "Stop listening, which will cause us to exit when no more requests are  *)
(* in progress" (main.cpp:35): the process does not end by the shutdown    *)
(* signal with requests in progress.                                       *)
(***************************************************************************)
ExitsWhenDone ==
    ended \in {"drained", "interrupted"} => active = {} /\ queue = <<>>

=============================================================================
