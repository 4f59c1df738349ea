------------------------------ MODULE Startup ------------------------------
(***************************************************************************)
(* From the start of a process to its end (main() in src/src/main.cpp)     *)
(* with what it shares with other DoTe processes on the machine: the PID   *)
(* file and the addresses it listens on.  A process may be killed at any   *)
(* moment, and started again: as another process.                          *)
(*                                                                         *)
(* The configuration is valid (module VyattaCheck has the others).  What   *)
(* the process does in run(), and how that ends, is in module Lifecycle.   *)
(***************************************************************************)
EXTENDS PidFile, Sequences

CONSTANTS
    Addresses,
    Servers,        \* ConfigParser::servers() of each process
    WithPidFile     \* the processes that are given the file's name

ASSUME StartupAssumption ==
    /\ Servers \in [Processes -> Seq(Addresses)]
    /\ WithPidFile \subseteq Processes

VARIABLES
    pc,             \* where main() is
    boundTo,        \* the process that is bound to each address
    tried,          \* Dote::listen(): servers of the list dealt with
    result,         \* Dote::listen(): its result
    dropped         \* the process has given up its privileges

processVars == <<pc, boundTo, tried, result, dropped>>
vars == <<fileVars, processVars>>

Places == {"not started", "daemonise", "pid file", "listen", "privileges",
           "run", "destructors", "ended"}

Goto(p, place) == pc' = [pc EXCEPT ![p] = place]

\* The sockets of p but those in kept are closed.
Unbind(p, kept) ==
    boundTo' = [a \in Addresses |->
                   IF boundTo[a] = p /\ a \notin kept THEN Nobody ELSE boundTo[a]]

BoundBy(p) == {a \in Addresses : boundTo[a] = p}

-----------------------------------------------------------------------------

\* With a configuration, and perhaps without `-d'.
Start(p) ==
    /\ pc[p] = "not started"
    /\ \E place \in {"daemonise", "pid file"} : Goto(p, place)
    /\ UNCHANGED <<fileVars, boundTo, tried, result, dropped>>

\* Both fork(), setsid() and chdir() worked, or not.
Daemonise(p) ==
    /\ pc[p] = "daemonise"
    /\ \E place \in {"pid file", "ended"} : Goto(p, place)
    /\ UNCHANGED <<fileVars, boundTo, tried, result, dropped>>

\* The constructor of the PID file.
MakePidFile(p) ==
    /\ pc[p] = "pid file" /\ p \in WithPidFile
    /\ \/ Open(p) \/ OpenFails(p)
       \/ Lock(p) \/ LockFails(p)
       \/ Write(p) \/ WriteFails(p)
       \/ stage[p] = "abandoned" /\ (Unlink(p) \/ UnlinkFails(p))
    /\ UNCHANGED processVars

PidFileMade(p) ==
    /\ pc[p] = "pid file"
    /\ \/ HasPidFile(p) /\ Goto(p, "listen")
       \/ p \notin WithPidFile /\ Goto(p, "listen")
       \/ stage[p] = "done" /\ Goto(p, "ended")
    /\ UNCHANGED <<fileVars, boundTo, tried, result, dropped>>

\* Mutant: the last address decides.
AddServerForgets(p) ==
    /\ pc[p] = "listen" /\ tried[p] < Len(Servers[p])
    /\ LET a == Servers[p][tried[p] + 1]
       IN  \/ /\ boundTo[a] = Nobody
              /\ boundTo' = [boundTo EXCEPT ![a] = p]
              /\ result' = [result EXCEPT ![p] = TRUE]
           \/ /\ result' = [result EXCEPT ![p] = FALSE]
              /\ UNCHANGED boundTo
    /\ tried' = [tried EXCEPT ![p] = @ + 1]
    /\ UNCHANGED <<fileVars, pc, dropped>>

\* listen() tries every address.  One that is taken cannot be bound, by the
\* same process neither; and one may not be allowed, or not be there.
AddServer(p) ==
    /\ pc[p] = "listen" /\ tried[p] < Len(Servers[p])
    /\ LET a == Servers[p][tried[p] + 1]
       IN  \/ /\ boundTo[a] = Nobody
              /\ boundTo' = [boundTo EXCEPT ![a] = p]
              /\ UNCHANGED result
           \/ /\ result' = [result EXCEPT ![p] = FALSE]
              /\ UNCHANGED boundTo
    /\ tried' = [tried EXCEPT ![p] = @ + 1]
    /\ UNCHANGED <<fileVars, pc, dropped>>

Listen(p) ==
    /\ pc[p] = "listen" /\ tried[p] = Len(Servers[p])
    /\ IF result[p]
       THEN Goto(p, "privileges") /\ UNCHANGED boundTo
       ELSE Goto(p, "destructors") /\ Unbind(p, {})
    /\ UNCHANGED <<fileVars, tried, result, dropped>>

\* Only root has some to drop.  After this, the signal handlers and the
\* configuration watch are set up, and the loop is run.
DropPriviledges(p) ==
    /\ pc[p] = "privileges"
    /\ dropped' \in {dropped, [dropped EXCEPT ![p] = TRUE]}
    /\ Goto(p, "run")
    /\ UNCHANGED <<fileVars, boundTo, tried, result>>

\* run() returns.  A socket is still there if requests that came in by it are.
RunReturns(p) ==
    /\ pc[p] = "run"
    /\ \E kept \in SUBSET BoundBy(p) : Unbind(p, kept)
    /\ Goto(p, "destructors")
    /\ UNCHANGED <<fileVars, tried, result, dropped>>

\* The PID file is a local of main(), and goes before the static g_dote.
Destructors(p) ==
    /\ pc[p] = "destructors"
    /\ \/ /\ Close(p) \/ Unlink(p) \/ (dropped[p] /\ UnlinkFails(p))
          /\ UNCHANGED processVars
       \/ /\ stage[p] = "done" \/ p \notin WithPidFile
          /\ Unbind(p, {})
          /\ Goto(p, "ended")
          /\ UNCHANGED <<fileVars, tried, result, dropped>>

\* _exit(), when privileges cannot be dropped; or a signal, before there is a
\* handler, or one that cannot be handled.
Die(p) ==
    /\ pc[p] \notin {"not started", "ended"}
    /\ Vanish(p)
    /\ Unbind(p, {})
    /\ Goto(p, "ended")
    /\ UNCHANGED <<tried, result, dropped>>

Init ==
    /\ FileInit
    /\ pc = [p \in Processes |-> "not started"]
    /\ boundTo = [a \in Addresses |-> Nobody]
    /\ tried = [p \in Processes |-> 0]
    /\ result = [p \in Processes |-> TRUE]
    /\ dropped = [p \in Processes |-> FALSE]

Next ==
    \E p \in Processes :
        \/ Start(p)
        \/ Daemonise(p)
        \/ MakePidFile(p)
        \/ PidFileMade(p)
        \/ AddServer(p)
        \/ Listen(p)
        \/ DropPriviledges(p)
        \/ RunReturns(p)
        \/ Destructors(p)
        \/ Die(p)

Spec == Init /\ [][Next]_vars

-----------------------------------------------------------------------------

StartTypeOK ==
    /\ FileTypeOK /\ HandlesFitStages
    /\ pc \in [Processes -> Places]
    /\ boundTo \in [Addresses -> Processes \cup {Nobody}]
    /\ tried \in [Processes -> Nat]
    /\ {result, dropped} \subseteq [Processes -> BOOLEAN]

Serving(p) == pc[p] \in {"privileges", "run"}

(***************************************************************************)
(* A process serves with all the addresses it was given, or not at all,    *)
(* whichever of them are taken, and by whom; nobody serves with an address *)
(* of another.                                                             *)
(***************************************************************************)
AllOrNothing ==
    \A p \in Processes : Serving(p) =>
        \A i \in DOMAIN Servers[p] : boundTo[Servers[p][i]] = p

(***************************************************************************)
(* As long as no other process has removed it, the file by that name holds *)
(* the PID of the process that serves, and only that process has it        *)
(* locked: processes that are started meanwhile leave it alone, and what   *)
(* earlier ones left behind does not matter.                               *)
(***************************************************************************)
FileNamesServer ==
    \A p \in WithPidFile : Serving(p) /\ ~orphaned[p] =>
        /\ named = handle[p]
        /\ contents[handle[p]] = p
        /\ lockedBy[handle[p]] = p

(***************************************************************************)
(* Only a process that has had a file of the name locked removes the name. *)
(* One that came too late does not, however it ends.                       *)
(***************************************************************************)
OnlyOwnersRemove ==
    [][named # NoFile /\ named' # named =>
        \E p \in WithPidFile : stage'[p] # stage[p] /\ owned[p]]_vars

=============================================================================
