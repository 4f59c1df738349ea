---------------------------- MODULE Startup_proof ---------------------------
(***************************************************************************)
(* Theorems about module Startup, for any number of processes, files and   *)
(* addresses, and whatever addresses each process is given.                *)
(*                                                                         *)
(* The inductive invariant has a part about the PID file, which only the   *)
(* system calls of module PidFile can disturb, and one about the addresses *)
(* and the places in main().                                               *)
(***************************************************************************)
EXTENDS Startup, TLAPS

-----------------------------------------------------------------------------

\* A lock is of a file that its owner has open.
LocksHeld ==
    \A p \in Processes, i \in Files : lockedBy[i] = p => handle[p] = i

\* The file of a process still has the name, unless another removed it.
NameKept ==
    \A p \in Processes : handle[p] # NoFile /\ ~orphaned[p] => named = handle[p]

\* The PID in a file is that of the process that has written it last, and no
\* other can have written since.
PidKept ==
    \A p \in Processes : stage[p] = "written" => contents[handle[p]] = p

\* Whoever will remove the name has had the lock.
OwnersOnly ==
    \A p \in Processes :
        stage[p] \in {"locked", "written", "abandoned", "closed"} => owned[p]

FileInv ==
    /\ FileTypeOK /\ HandlesFitStages /\ LocksHeld
    /\ NameKept /\ PidKept /\ OwnersOnly

\* How far the PID file is at each place of main().
StagesFitPlaces ==
    \A p \in Processes :
        /\ p \notin WithPidFile => stage[p] \in {"new", "done"}
        /\ p \in WithPidFile /\ pc[p] \in {"listen", "privileges", "run"}
              => stage[p] = "written"

\* Between two passes of the loop in listen(), and after it.
BoundSoFar ==
    \A p \in Processes :
        /\ pc[p] \in {"not started", "daemonise", "pid file"} => tried[p] = 0
        /\ pc[p] = "listen" /\ result[p] =>
            \A i \in 1..tried[p] : boundTo[Servers[p][i]] = p
        /\ tried[p] <= Len(Servers[p])

PlaceInv ==
    /\ pc \in [Processes -> Places]
    /\ boundTo \in [Addresses -> Processes \cup {Nobody}]
    /\ tried \in [Processes -> Nat]
    /\ {result, dropped} \subseteq [Processes -> BOOLEAN]

IInv == FileInv /\ PlaceInv /\ StagesFitPlaces /\ BoundSoFar /\ AllOrNothing

-----------------------------------------------------------------------------

\* One of the system calls of a PID file, or the end of its process.
FileStep(p) ==
    \/ Open(p) \/ OpenFails(p) \/ Lock(p) \/ LockFails(p)
    \/ Write(p) \/ WriteFails(p) \/ Close(p) \/ Unlink(p) \/ UnlinkFails(p)
    \/ Vanish(p)

(***************************************************************************)
(* The constructor's open(): it finds the file that has the name, or makes *)
(* one that nobody has open.                                               *)
(***************************************************************************)
LEMMA OpenKeeps ==
    ASSUME NEW p \in Processes, FileInv, Open(p)
    PROVE  FileInv'
<1> USE PidFileAssumption
<1>1. PICK i \in Files :
        /\ handle' = [handle EXCEPT ![p] = i]
        /\ named' = i
        /\ \/ i = named /\ contents' = contents
           \/ named = NoFile /\ i \in Unused /\ contents' = [contents EXCEPT ![i] = Nobody]
  <2>1. CASE named # NoFile
    BY <2>1 DEF Open, FileInv, FileTypeOK
  <2>2. CASE named = NoFile
    BY <2>2 DEF Open, Unused
  <2> QED
    BY <2>1, <2>2
<1>2. /\ stage[p] = "new" /\ stage' = [stage EXCEPT ![p] = "opened"]
      /\ UNCHANGED <<lockedBy, owned, orphaned>>
  BY DEF Open, history
<1>3. FileTypeOK'
  BY <1>1, <1>2 DEF FileInv, FileTypeOK, Stages
<1>4. HandlesFitStages' /\ LocksHeld'
  <2>1. handle[p] = NoFile /\ \A j \in Files : lockedBy[j] # p
    BY <1>2 DEF FileInv, FileTypeOK, HandlesFitStages, LocksHeld
  <2>2. \A q \in Processes \ {p} : stage'[q] = stage[q] /\ handle'[q] = handle[q]
    BY <1>1, <1>2 DEF FileInv, FileTypeOK
  <2>3. handle'[p] = i /\ stage'[p] = "opened" /\ lockedBy' = lockedBy
    BY <1>1, <1>2 DEF FileInv, FileTypeOK
  <2>4. LocksHeld'
    BY <2>1, <2>2, <2>3 DEF FileInv, LocksHeld
  <2>5. HandlesFitStages'
    BY <2>1, <2>2, <2>3 DEF FileInv, HandlesFitStages
  <2> QED
    BY <2>4, <2>5
<1>5. NameKept'
  BY <1>1, <1>2 DEF FileInv, FileTypeOK, NameKept
<1>6. PidKept'
  <2> SUFFICES ASSUME NEW q \in Processes, stage'[q] = "written"
               PROVE  contents'[handle'[q]] = q
    BY DEF PidKept
  <2>1. q # p /\ stage[q] = "written" /\ handle'[q] = handle[q]
    BY <1>1, <1>2 DEF FileInv, FileTypeOK
  <2>2. handle[q] \in Files /\ contents[handle[q]] = q
    BY <2>1 DEF FileInv, FileTypeOK, HandlesFitStages, PidKept
  <2>3. i \in Unused => i # handle[q]
    BY DEF Unused
  <2> QED
    BY <1>1, <2>1, <2>2, <2>3 DEF FileInv, FileTypeOK
<1>7. OwnersOnly'
  BY <1>1, <1>2 DEF FileInv, FileTypeOK, OwnersOnly
<1> QED
  BY <1>3, <1>4, <1>5, <1>6, <1>7 DEF FileInv

(***************************************************************************)
(* lockf(), by one process: no other has the lock.                         *)
(***************************************************************************)
LEMMA LockKeeps ==
    ASSUME NEW p \in Processes, FileInv, Lock(p)
    PROVE  FileInv'
<1> USE PidFileAssumption
<1>1. handle[p] \in Files
  BY DEF Lock, FileInv, FileTypeOK, HandlesFitStages
<1>2. FileTypeOK'
  BY <1>1 DEF Lock, FileInv, FileTypeOK, Stages
<1>3. HandlesFitStages' /\ LocksHeld'
  BY <1>1 DEF Lock, FileInv, FileTypeOK, HandlesFitStages, LocksHeld
<1>4. NameKept' /\ PidKept' /\ OwnersOnly'
  BY DEF Lock, FileInv, FileTypeOK, NameKept, PidKept, OwnersOnly
<1> QED
  BY <1>2, <1>3, <1>4 DEF FileInv

(***************************************************************************)
(* write(): a process writes only what it has locked, and so not over the  *)
(* PID of another.                                                         *)
(***************************************************************************)
LEMMA WriteKeeps ==
    ASSUME NEW p \in Processes, FileInv, Write(p)
    PROVE  FileInv'
<1> USE PidFileAssumption
<1>1. handle[p] \in Files /\ lockedBy[handle[p]] = p
  BY DEF Write, FileInv, FileTypeOK, HandlesFitStages
<1>2. FileTypeOK'
  BY <1>1 DEF Write, FileInv, FileTypeOK, Stages, history
<1>3. HandlesFitStages' /\ LocksHeld'
  BY DEF Write, FileInv, FileTypeOK, HandlesFitStages, LocksHeld, history
<1>4. NameKept' /\ OwnersOnly'
  BY DEF Write, FileInv, FileTypeOK, NameKept, OwnersOnly, history
<1>5. PidKept'
  <2> SUFFICES ASSUME NEW q \in Processes, stage'[q] = "written"
               PROVE  contents'[handle'[q]] = q
    BY DEF PidKept
  <2>1. CASE q = p
    BY <2>1, <1>1 DEF Write, FileInv, FileTypeOK
  <2>2. CASE q # p
    <3>1. stage[q] = "written"
      BY <2>2 DEF Write, FileInv, FileTypeOK
    <3>2. lockedBy[handle[q]] = q
      BY <3>1 DEF FileInv, HandlesFitStages
    <3> QED
      BY <3>1, <3>2, <2>2, <1>1 DEF Write, FileInv, FileTypeOK, PidKept
  <2> QED
    BY <2>1, <2>2
<1> QED
  BY <1>2, <1>3, <1>4, <1>5 DEF FileInv

(***************************************************************************)
(* Closing a handle takes nothing from the other processes.                *)
(***************************************************************************)
LEMMA ReleaseKeeps ==
    ASSUME NEW p \in Processes, FileInv, Release(p),
           NEW place \in {"abandoned", "closed", "done"},
           stage' = [stage EXCEPT ![p] = place],
           place # "done" => owned[p],
           UNCHANGED <<named, contents, history>>
    PROVE  FileInv'
<1> USE PidFileAssumption
<1>1. FileTypeOK'
  BY DEF Release, FileInv, FileTypeOK, Stages, history
<1>2. HandlesFitStages'
  <2> SUFFICES ASSUME NEW q \in Processes
               PROVE  /\ stage'[q] \in {"opened", "locked", "written"} <=> handle'[q] # NoFile
                      /\ stage'[q] \in {"locked", "written"}
                            <=> \E i \in Files : lockedBy'[i] = q /\ handle'[q] = i
    BY DEF HandlesFitStages
  <2>1. CASE q = p
    BY <2>1 DEF Release, FileInv, FileTypeOK
  <2>2. CASE q # p
    <3>1. stage'[q] = stage[q] /\ handle'[q] = handle[q]
      BY <2>2 DEF Release, FileInv, FileTypeOK
    <3>2. \A i \in Files : lockedBy'[i] = q <=> lockedBy[i] = q
      BY <2>2 DEF Release
    <3> QED
      BY <3>1, <3>2 DEF FileInv, HandlesFitStages
  <2> QED
    BY <2>1, <2>2
<1>3. LocksHeld'
  BY DEF Release, FileInv, FileTypeOK, LocksHeld
<1>4. NameKept' /\ PidKept' /\ OwnersOnly'
  BY DEF Release, FileInv, FileTypeOK, NameKept, PidKept, OwnersOnly, history
<1> QED
  BY <1>1, <1>2, <1>3, <1>4 DEF FileInv

(***************************************************************************)
(* unlink(): those that have the file open remember that it has gone.      *)
(***************************************************************************)
LEMMA UnlinkKeeps ==
    ASSUME NEW p \in Processes, FileInv, Unlink(p)
    PROVE  FileInv'
<1> USE PidFileAssumption
<1>1. FileTypeOK'
  BY DEF Unlink, FileInv, FileTypeOK, Stages
<1>2. HandlesFitStages' /\ LocksHeld'
  BY DEF Unlink, FileInv, FileTypeOK, HandlesFitStages, LocksHeld
<1>3. NameKept' /\ PidKept' /\ OwnersOnly'
  BY DEF Unlink, FileInv, FileTypeOK, NameKept, PidKept, OwnersOnly
<1> QED
  BY <1>1, <1>2, <1>3 DEF FileInv

\* Whatever a process does to the PID file, what is said of it stays true.
LEMMA FileStepKeeps ==
    ASSUME NEW p \in Processes, FileInv, FileStep(p)
    PROVE  FileInv'
<1>1. CASE Open(p)
  BY <1>1, OpenKeeps
<1>2. CASE Lock(p)
  BY <1>2, LockKeeps
<1>3. CASE Write(p)
  BY <1>3, WriteKeeps
<1>4. CASE LockFails(p) \/ Vanish(p)
  BY <1>4, ReleaseKeeps DEF LockFails, Vanish
<1>5. CASE WriteFails(p)
  BY <1>5, ReleaseKeeps DEF WriteFails, FileInv, OwnersOnly
<1>6. CASE Close(p)
  BY <1>6, ReleaseKeeps DEF Close, FileInv, OwnersOnly
<1>7. CASE Unlink(p)
  BY <1>7, UnlinkKeeps
<1>8. CASE OpenFails(p) \/ UnlinkFails(p)
  BY <1>8 DEF OpenFails, UnlinkFails, history, FileInv, FileTypeOK, Stages,
              HandlesFitStages, LocksHeld, NameKept, PidKept, OwnersOnly
<1> QED
  BY <1>1, <1>2, <1>3, <1>4, <1>5, <1>6, <1>7, <1>8 DEF FileStep

\* It moves that process's own object alone.
LEMMA FileStepLocal ==
    ASSUME NEW p \in Processes, FileInv, FileStep(p)
    PROVE  \A q \in Processes \ {p} : stage'[q] = stage[q]
BY DEF FileStep, Open, OpenFails, Lock, LockFails, Write, WriteFails, Close,
       Unlink, UnlinkFails, Vanish, history, FileInv, FileTypeOK

\* The file of a process that is not asked to do anything stays as it is.
LEMMA FileUnchanged ==
    ASSUME FileInv, UNCHANGED fileVars
    PROVE  FileInv'
BY DEF fileVars, history, FileInv, FileTypeOK, HandlesFitStages, LocksHeld,
       NameKept, PidKept, OwnersOnly

-----------------------------------------------------------------------------

\* The list of servers is one.
LEMMA ServersType ==
    ASSUME NEW p \in Processes
    PROVE  /\ Len(Servers[p]) \in Nat /\ 0 <= Len(Servers[p])
           /\ DOMAIN Servers[p] = 1..Len(Servers[p])
           /\ \A i \in 1..Len(Servers[p]) : Servers[p][i] \in Addresses
BY StartupAssumption

(***************************************************************************)
(* A step in main() that leaves sockets alone.  If it enters listen(),     *)
(* nothing has been tried yet; if it leaves it to serve, all is bound.     *)
(***************************************************************************)
LEMMA GotoKeeps ==
    ASSUME NEW p \in Processes, IInv, NEW place \in Places, Goto(p, place),
           UNCHANGED fileVars, UNCHANGED <<boundTo, tried, result>>,
           dropped' \in [Processes -> BOOLEAN],
           pc[p] \notin {"listen", "privileges"} => place # "privileges",
           pc[p] # "privileges" => place # "run",
           pc[p] = "listen" => result[p] /\ tried[p] = Len(Servers[p]),
           place \in {"not started", "daemonise", "pid file", "listen"}
               => tried[p] = 0,
           place = "listen" /\ p \in WithPidFile => stage[p] = "written",
           place \in {"privileges", "run"}
               => pc[p] \in {"listen", "privileges", "run"}
    PROVE  IInv'
<1>1. FileInv'
  BY FileUnchanged DEF IInv
<1>2. PlaceInv'
  BY DEF IInv, PlaceInv, Goto
<1>3. \A q \in Processes : pc'[q] = IF q = p THEN place ELSE pc[q]
  BY DEF IInv, PlaceInv, Goto
<1>4. StagesFitPlaces'
  BY <1>3 DEF IInv, StagesFitPlaces, fileVars
<1>5. BoundSoFar'
  <2> SUFFICES ASSUME NEW q \in Processes
               PROVE  /\ pc'[q] \in {"not started", "daemonise", "pid file"} => tried[q] = 0
                      /\ pc'[q] = "listen" /\ result[q] =>
                            \A i \in 1..tried[q] : boundTo[Servers[q][i]] = q
                      /\ tried[q] <= Len(Servers[q])
    BY DEF BoundSoFar
  <2>1. CASE q # p
    BY <1>3, <2>1 DEF IInv, BoundSoFar
  <2>2. CASE q = p
    <3>1. pc'[p] = place /\ tried[p] <= Len(Servers[p])
      BY <1>3 DEF IInv, BoundSoFar
    <3>2. tried[p] = 0 => \A i \in 1..tried[p] : FALSE
      OBVIOUS
    <3> QED
      BY <2>2, <3>1, <3>2
  <2> QED
    BY <2>1, <2>2
<1>6. AllOrNothing'
  <2> SUFFICES ASSUME NEW q \in Processes, Serving(q)',
                      NEW i \in DOMAIN Servers[q]
               PROVE  boundTo'[Servers[q][i]] = q
    BY DEF AllOrNothing
  <2>1. CASE Serving(q)
    BY <2>1 DEF IInv, AllOrNothing
  <2>2. CASE ~Serving(q)
    <3>1. q = p /\ pc[p] = "listen"
      BY <2>2, <1>3 DEF Serving
    <3> QED
      BY <3>1, ServersType DEF IInv, BoundSoFar
  <2> QED
    BY <2>1, <2>2
<1> QED
  BY <1>1, <1>2, <1>4, <1>5, <1>6 DEF IInv

(***************************************************************************)
(* A step that closes sockets of a process which will not serve any more.  *)
(***************************************************************************)
LEMMA UnbindKeeps ==
    ASSUME NEW p \in Processes, IInv, NEW kept, Unbind(p, kept), FileInv',
           NEW place \in {"destructors", "ended"}, Goto(p, place),
           UNCHANGED <<tried, result, dropped>>,
           \A q \in Processes \ {p} : stage'[q] = stage[q],
           p \notin WithPidFile => stage'[p] \in {"new", "done"}
    PROVE  IInv'
<1>1. PlaceInv'
  BY DEF IInv, PlaceInv, Goto, Unbind, Places
<1>2. \A q \in Processes : pc'[q] = IF q = p THEN place ELSE pc[q]
  BY DEF IInv, PlaceInv, Goto
<1>3. \A q \in Processes \ {p}, a \in Addresses : boundTo[a] = q => boundTo'[a] = q
  BY DEF Unbind
<1>4. StagesFitPlaces'
  BY <1>2 DEF IInv, StagesFitPlaces
<1>5. BoundSoFar'
  <2> SUFFICES ASSUME NEW q \in Processes
               PROVE  /\ pc'[q] \in {"not started", "daemonise", "pid file"} => tried[q] = 0
                      /\ pc'[q] = "listen" /\ result[q] =>
                            \A i \in 1..tried[q] : boundTo'[Servers[q][i]] = q
                      /\ tried[q] <= Len(Servers[q])
    BY DEF BoundSoFar
  <2>1. tried[q] \in Nat /\ tried[q] <= Len(Servers[q])
    BY DEF IInv, BoundSoFar, PlaceInv
  <2>2. \A i \in 1..tried[q] : Servers[q][i] \in Addresses
    BY <2>1, ServersType
  <2> QED
    BY <1>2, <1>3, <2>1, <2>2 DEF IInv, BoundSoFar
<1>6. AllOrNothing'
  <2> SUFFICES ASSUME NEW q \in Processes, Serving(q)',
                      NEW i \in DOMAIN Servers[q]
               PROVE  boundTo'[Servers[q][i]] = q
    BY DEF AllOrNothing
  <2>1. q # p /\ Serving(q)
    BY <1>2 DEF Serving
  <2>2. boundTo[Servers[q][i]] = q /\ Servers[q][i] \in Addresses
    BY <2>1, ServersType DEF IInv, AllOrNothing
  <2> QED
    BY <1>3, <2>1, <2>2
<1> QED
  BY <1>1, <1>4, <1>5, <1>6 DEF IInv

(***************************************************************************)
(* addServer() takes an address from nobody: what others have bound, and   *)
(* what this process has bound before, stays.                              *)
(***************************************************************************)
LEMMA AddServerKeeps ==
    ASSUME NEW p \in Processes, IInv, AddServer(p)
    PROVE  IInv'
<1> USE PidFileAssumption
<1>0. PICK a \in Addresses :
        /\ a = Servers[p][tried[p] + 1]
        /\ \/ /\ boundTo[a] = Nobody
              /\ boundTo' = [boundTo EXCEPT ![a] = p]
              /\ UNCHANGED result
           \/ /\ result' = [result EXCEPT ![p] = FALSE]
              /\ UNCHANGED boundTo
  <2>1. Servers[p][tried[p] + 1] \in Addresses
    BY ServersType DEF AddServer, IInv, PlaceInv
  <2> QED
    BY <2>1 DEF AddServer
<1>1. /\ pc[p] = "listen" /\ tried[p] < Len(Servers[p])
      /\ tried' = [tried EXCEPT ![p] = @ + 1]
      /\ UNCHANGED <<pc, dropped>> /\ UNCHANGED fileVars
  BY DEF AddServer
<1>2. FileInv'
  BY <1>1, FileUnchanged DEF IInv
<1>3. PlaceInv'
  <2>1. boundTo' \in [Addresses -> Processes \cup {Nobody}]
    BY <1>0 DEF IInv, PlaceInv
  <2>2. result' \in [Processes -> BOOLEAN]
    BY <1>0 DEF IInv, PlaceInv
  <2>3. tried' \in [Processes -> Nat]
    BY <1>1 DEF IInv, PlaceInv
  <2> QED
    BY <1>1, <2>1, <2>2, <2>3 DEF IInv, PlaceInv
<1>4. StagesFitPlaces'
  BY <1>1 DEF IInv, StagesFitPlaces, fileVars
<1>5. \A q \in Processes, b \in Addresses : boundTo[b] = q => boundTo'[b] = q
  BY <1>0 DEF IInv, PlaceInv
<1>6. BoundSoFar'
  <2> SUFFICES ASSUME NEW q \in Processes
               PROVE  /\ pc'[q] \in {"not started", "daemonise", "pid file"} => tried'[q] = 0
                      /\ pc'[q] = "listen" /\ result'[q] =>
                            \A i \in 1..tried'[q] : boundTo'[Servers[q][i]] = q
                      /\ tried'[q] <= Len(Servers[q])
    BY DEF BoundSoFar
  <2>1. /\ tried[q] \in Nat /\ tried[q] <= Len(Servers[q])
        /\ \A i \in 1..Len(Servers[q]) : Servers[q][i] \in Addresses
        /\ Len(Servers[q]) \in Nat
    BY ServersType DEF IInv, BoundSoFar, PlaceInv
  <2>2. CASE q # p
    <3>1. tried'[q] = tried[q] /\ result'[q] = result[q] /\ pc'[q] = pc[q]
      BY <1>0, <1>1, <2>2 DEF IInv, PlaceInv
    <3>2. \A i \in 1..tried[q] : Servers[q][i] \in Addresses
      BY <2>1
    <3> QED
      BY <2>1, <3>1, <3>2, <1>5 DEF IInv, BoundSoFar
  <2>3. CASE q = p
    <3>1. tried'[p] = tried[p] + 1 /\ pc'[p] = "listen"
      BY <1>1 DEF IInv, PlaceInv
    <3>2. ASSUME result'[p], NEW i \in 1..tried'[p]
          PROVE  boundTo'[Servers[p][i]] = p
      <4>1. result[p] /\ boundTo' = [boundTo EXCEPT ![a] = p]
        BY <1>0, <3>2 DEF IInv, PlaceInv
      <4>2. CASE i = tried[p] + 1
        BY <4>1, <4>2, <1>0 DEF IInv, PlaceInv
      <4>3. CASE i \in 1..tried[p]
        <5>1. boundTo[Servers[p][i]] = p
          BY <4>1, <4>3, <1>1 DEF IInv, BoundSoFar
        <5>2. Servers[p][i] \in Addresses
          BY <4>3, <2>1, <2>3
        <5> QED
          BY <5>1, <5>2, <1>5
      <4> QED
        BY <4>2, <4>3, <3>1, <2>1, <2>3
    <3>3. tried'[p] <= Len(Servers[p])
      BY <1>1, <2>1, <2>3, <3>1
    <3> QED
      BY <2>3, <3>1, <3>2, <3>3
  <2> QED
    BY <2>2, <2>3
<1>7. AllOrNothing'
  BY <1>1, <1>5, ServersType DEF IInv, AllOrNothing, Serving
<1> QED
  BY <1>2, <1>3, <1>4, <1>6, <1>7 DEF IInv

(***************************************************************************)
(* The PID file's system calls in main(): while it is made, and in the     *)
(* end.  Nobody serves while he makes or removes his file.                 *)
(***************************************************************************)
LEMMA FileStepInMain ==
    ASSUME NEW p \in Processes, IInv, FileStep(p), UNCHANGED processVars,
           pc[p] \notin {"listen", "privileges", "run"}, p \in WithPidFile
    PROVE  IInv'
<1>1. FileInv'
  BY FileStepKeeps DEF IInv
<1>2. PlaceInv' /\ BoundSoFar'
  BY DEF IInv, PlaceInv, BoundSoFar, processVars
<1>3. StagesFitPlaces'
  <2>1. \A q \in Processes \ {p} : stage'[q] = stage[q]
    BY FileStepLocal DEF IInv
  <2> QED
    BY <2>1 DEF IInv, StagesFitPlaces, processVars
<1>4. AllOrNothing'
  BY DEF IInv, AllOrNothing, Serving, processVars
<1> QED
  BY <1>1, <1>2, <1>3, <1>4 DEF IInv

\* Leaving a place of main() that has to do with no other process.
LEMMA MainSteps ==
    ASSUME NEW p \in Processes, IInv,
           Start(p) \/ Daemonise(p) \/ PidFileMade(p) \/ DropPriviledges(p)
    PROVE  IInv'
<1>1. CASE Start(p)
  <2>1. PICK place \in {"daemonise", "pid file"} : Goto(p, place)
    BY <1>1 DEF Start
  <2>2. pc[p] = "not started" /\ tried[p] = 0
    BY <1>1 DEF Start, IInv, BoundSoFar
  <2> QED
    BY <1>1, <2>1, <2>2, GotoKeeps DEF Start, Places, IInv, PlaceInv
<1>2. CASE Daemonise(p)
  <2>1. PICK place \in {"pid file", "ended"} : Goto(p, place)
    BY <1>2 DEF Daemonise
  <2>2. pc[p] = "daemonise" /\ tried[p] = 0
    BY <1>2 DEF Daemonise, IInv, BoundSoFar
  <2> QED
    BY <1>2, <2>1, <2>2, GotoKeeps DEF Daemonise, Places, IInv, PlaceInv
<1>3. CASE PidFileMade(p)
  <2>1. PICK place \in {"listen", "ended"} :
          /\ Goto(p, place)
          /\ place = "listen" /\ p \in WithPidFile => stage[p] = "written"
    BY <1>3 DEF PidFileMade, HasPidFile
  <2>2. pc[p] = "pid file" /\ tried[p] = 0
    BY <1>3 DEF PidFileMade, IInv, BoundSoFar
  <2> QED
    BY <1>3, <2>1, <2>2, GotoKeeps DEF PidFileMade, Places, IInv, PlaceInv
<1>4. CASE DropPriviledges(p)
  <2>1. pc[p] = "privileges" /\ Goto(p, "run")
    BY <1>4 DEF DropPriviledges
  <2>2. dropped' \in [Processes -> BOOLEAN]
    BY <1>4 DEF DropPriviledges, IInv, PlaceInv
  <2> QED
    BY <1>4, <2>1, <2>2, GotoKeeps DEF DropPriviledges, Places
<1> QED
  BY <1>1, <1>2, <1>3, <1>4

\* The end of listen(), well or badly.
LEMMA ListenKeeps ==
    ASSUME NEW p \in Processes, IInv, Listen(p)
    PROVE  IInv'
<1>1. CASE result[p]
  BY <1>1, GotoKeeps DEF Listen, Places, IInv, PlaceInv
<1>2. CASE ~result[p]
  <2>1. FileInv' /\ UNCHANGED stage
    BY FileUnchanged DEF Listen, IInv, fileVars
  <2> QED
    BY <1>2, <2>1, UnbindKeeps DEF Listen, IInv, StagesFitPlaces
<1> QED
  BY <1>1, <1>2

\* The end of the process, in whichever way.
LEMMA EndKeeps ==
    ASSUME NEW p \in Processes, IInv,
           RunReturns(p) \/ Destructors(p) \/ Die(p)
    PROVE  IInv'
<1>1. CASE RunReturns(p)
  <2>1. FileInv' /\ UNCHANGED stage
    BY <1>1, FileUnchanged DEF RunReturns, IInv, fileVars
  <2> QED
    BY <1>1, <2>1, UnbindKeeps DEF RunReturns, IInv, StagesFitPlaces
<1>2. CASE /\ pc[p] = "destructors" /\ UNCHANGED processVars
           /\ Close(p) \/ Unlink(p) \/ UnlinkFails(p)
  <2>1. p \in WithPidFile
    BY <1>2 DEF Close, Unlink, UnlinkFails, IInv, StagesFitPlaces
  <2> QED
    BY <1>2, <2>1, FileStepInMain DEF FileStep
<1>3. CASE /\ Unbind(p, {}) /\ Goto(p, "ended")
           /\ UNCHANGED fileVars /\ UNCHANGED <<tried, result, dropped>>
  <2>1. FileInv' /\ UNCHANGED stage
    BY <1>3, FileUnchanged DEF IInv, fileVars
  <2> QED
    BY <1>3, <2>1, UnbindKeeps DEF IInv, StagesFitPlaces
<1>4. CASE Die(p)
  <2>1. FileInv' /\ \A q \in Processes \ {p} : stage'[q] = stage[q]
    BY <1>4, FileStepKeeps, FileStepLocal DEF Die, FileStep, IInv
  <2>2. stage'[p] = "done"
    BY <1>4 DEF Die, Vanish, IInv, FileInv, FileTypeOK
  <2> QED
    BY <1>4, <2>1, <2>2, UnbindKeeps DEF Die
<1> QED
  BY <1>1, <1>2, <1>3, <1>4 DEF Destructors

\* The inductive invariant holds in the beginning.
LEMMA InitHolds == Init => IInv
<1> SUFFICES ASSUME Init
             PROVE  IInv
  OBVIOUS
<1> USE PidFileAssumption DEF Init, FileInit
<1>1. FileInv
  BY DEF FileInv, FileTypeOK, HandlesFitStages, LocksHeld, NameKept, PidKept,
         OwnersOnly, Stages
<1>2. PlaceInv
  BY DEF PlaceInv, Places
<1>3. StagesFitPlaces
  BY DEF StagesFitPlaces
<1>4. BoundSoFar
  <2> SUFFICES ASSUME NEW p \in Processes
               PROVE  /\ tried[p] = 0 /\ pc[p] # "listen"
                      /\ 0 <= Len(Servers[p])
    BY DEF BoundSoFar
  <2>1. tried[p] = 0 /\ pc[p] # "listen"
    OBVIOUS
  <2>2. 0 <= Len(Servers[p])
    BY ServersType
  <2> QED
    BY <2>1, <2>2
<1>5. AllOrNothing
  BY DEF AllOrNothing, Serving
<1> QED
  BY <1>1, <1>2, <1>3, <1>4, <1>5 DEF IInv

\* Every step of every process keeps it.
LEMMA StepKeeps == IInv /\ [Next]_vars => IInv'
<1> SUFFICES ASSUME IInv, [Next]_vars
             PROVE  IInv'
  OBVIOUS
<1>1. CASE UNCHANGED vars
  <2>1. FileInv'
    BY <1>1, FileUnchanged DEF IInv, vars
  <2> QED
    BY <1>1, <2>1 DEF vars, fileVars, processVars, IInv, PlaceInv,
                      StagesFitPlaces, BoundSoFar, AllOrNothing, Serving
<1>2. CASE Next
  <2> PICK p \in Processes :
        \/ Start(p) \/ Daemonise(p) \/ PidFileMade(p) \/ DropPriviledges(p)
        \/ MakePidFile(p)
        \/ AddServer(p)
        \/ Listen(p)
        \/ RunReturns(p) \/ Destructors(p) \/ Die(p)
    BY <1>2 DEF Next
  <2>1. CASE Start(p) \/ Daemonise(p) \/ PidFileMade(p) \/ DropPriviledges(p)
    BY <2>1, MainSteps
  <2>2. CASE MakePidFile(p)
    <3>1. FileStep(p) /\ pc[p] = "pid file" /\ p \in WithPidFile
            /\ UNCHANGED processVars
      BY <2>2 DEF MakePidFile, FileStep
    <3> QED
      BY <3>1, FileStepInMain
  <2>3. CASE AddServer(p)
    BY <2>3, AddServerKeeps
  <2>4. CASE Listen(p)
    BY <2>4, ListenKeeps
  <2>5. CASE RunReturns(p) \/ Destructors(p) \/ Die(p)
    BY <2>5, EndKeeps
  <2> QED
    BY <2>1, <2>2, <2>3, <2>4, <2>5
<1> QED
  BY <1>1, <1>2

(***************************************************************************)
(* What main() and the PID file rely on, in every reachable state.         *)
(***************************************************************************)
THEOREM Invariant == Spec => []IInv
  BY InitHolds, StepKeeps, PTL DEF Spec

(***************************************************************************)
(* The state of the processes and of the PID file keeps its type, and an   *)
(* object of class PidFile has a handle and the lock just when it should.  *)
(***************************************************************************)
THEOREM TypeCorrect == Spec => []StartTypeOK
<1>1. IInv => StartTypeOK
  BY DEF IInv, FileInv, PlaceInv, StartTypeOK
<1> QED
  BY <1>1, Invariant, PTL

(***************************************************************************)
(* Dote::listen(): a process serves with all of its addresses or not at    *)
(* all.                                                                    *)
(***************************************************************************)
THEOREM ServesAllOrNothing == Spec => []AllOrNothing
<1>1. IInv => AllOrNothing
  BY DEF IInv
<1> QED
  BY <1>1, Invariant, PTL

(***************************************************************************)
(* PidFile: as long as nobody else removed it, the file by that name is    *)
(* that of the process that serves, holds its PID, and is locked by it.    *)
(***************************************************************************)
THEOREM PidFileNamesServer == Spec => []FileNamesServer
<1>1. IInv => FileNamesServer
  <2> SUFFICES ASSUME IInv, NEW p \in WithPidFile, Serving(p), ~orphaned[p]
               PROVE  /\ named = handle[p]
                      /\ contents[handle[p]] = p
                      /\ lockedBy[handle[p]] = p
    BY DEF FileNamesServer
  <2>1. p \in Processes /\ stage[p] = "written"
    BY StartupAssumption DEF IInv, StagesFitPlaces, Serving
  <2>2. handle[p] # NoFile /\ lockedBy[handle[p]] = p
    BY <2>1 DEF IInv, FileInv, HandlesFitStages
  <2> QED
    BY <2>1, <2>2 DEF IInv, FileInv, NameKept, PidKept
<1> QED
  BY <1>1, Invariant, PTL

(***************************************************************************)
(* PidFile: the name is removed only by a process that has had a file of   *)
(* that name locked, and never by one whose lockf() failed.                *)
(***************************************************************************)
THEOREM OwnersRemove == Spec => OnlyOwnersRemove
<1> DEFINE Removed == named # NoFile /\ named' # named
           ByOwner == \E p \in WithPidFile : stage'[p] # stage[p] /\ owned[p]
<1>1. IInv /\ [Next]_vars => [Removed => ByOwner]_vars
  <2> SUFFICES ASSUME IInv, Next, Removed
               PROVE  ByOwner
    BY DEF vars, fileVars
  <2>1. PICK p \in Processes : Unlink(p)
    <3>1. PICK p \in Processes :
              \/ Start(p) \/ Daemonise(p) \/ MakePidFile(p) \/ PidFileMade(p)
              \/ AddServer(p) \/ Listen(p) \/ DropPriviledges(p) \/ RunReturns(p)
              \/ Destructors(p) \/ Die(p)
      BY DEF Next
    <3>2. MakePidFile(p) => Unlink(p)
      BY DEF MakePidFile, Open, OpenFails, Lock, LockFails, Write, WriteFails,
             UnlinkFails
    <3>3. Destructors(p) => Unlink(p)
      BY DEF Destructors, Close, UnlinkFails, fileVars
    <3>4. ~Die(p)
      BY DEF Die, Vanish
    <3>5. ~ (\/ Start(p) \/ Daemonise(p) \/ PidFileMade(p) \/ AddServer(p)
             \/ Listen(p) \/ DropPriviledges(p) \/ RunReturns(p))
      BY DEF Start, Daemonise, PidFileMade, AddServer, Listen, DropPriviledges,
             RunReturns, fileVars
    <3> HIDE DEF Removed
    <3> QED
      BY <3>1, <3>2, <3>3, <3>4, <3>5
  <2>2. stage[p] \in {"abandoned", "closed"} /\ stage'[p] = "done"
    BY <2>1 DEF Unlink, IInv, FileInv, FileTypeOK
  <2>3. p \in WithPidFile /\ owned[p]
    BY <2>2 DEF IInv, FileInv, OwnersOnly, StagesFitPlaces
  <2> QED
    BY <2>2, <2>3
<1> QED
  BY <1>1, Invariant, PTL DEF Spec, OnlyOwnersRemove

=============================================================================
