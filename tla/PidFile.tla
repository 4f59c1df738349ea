------------------------------ MODULE PidFile ------------------------------
(***************************************************************************)
(* The PID file (src/src/pid_file.cpp): processes that are given the same  *)
(* name open, lock and write a file, and remove it in the end.  One action *)
(* per system call, since any of them may come between two of another      *)
(* process.                                                                *)
(*                                                                         *)
(* lockf() locks from the position in the file on.  The destructor unlocks *)
(* after the constructor has written, so what was written stays locked and *)
(* only close() frees the file.  The file is not truncated; but what is    *)
(* written ends the line, and the line is all that matters here.           *)
(***************************************************************************)
EXTENDS Naturals

CONSTANTS
    Processes,
    Files,          \* as many as can be there at a time
    NoFile,
    Nobody

ASSUME PidFileAssumption == NoFile \notin Files /\ Nobody \notin Processes

VARIABLES
    named,          \* the file that has the name, or NoFile
    lockedBy,       \* of each file
    contents,       \* the process whose PID each file holds
    handle,         \* PidFile::m_handle of each process
    stage,          \* how far each PidFile object is
    owned,          \* history: the process has had its file locked
    orphaned        \* history: another process removed the name of the file

history == <<owned, orphaned>>
fileVars == <<named, lockedBy, contents, handle, stage, history>>

Stages == {"new", "opened", "locked", "written", "abandoned", "closed", "done"}

FileInit ==
    /\ named = NoFile
    /\ lockedBy = [i \in Files |-> Nobody]
    /\ contents = [i \in Files |-> Nobody]
    /\ handle = [p \in Processes |-> NoFile]
    /\ stage = [p \in Processes |-> "new"]
    /\ owned = [p \in Processes |-> FALSE]
    /\ orphaned = [p \in Processes |-> FALSE]

-----------------------------------------------------------------------------

\* Close a process's handle; its lock goes with it.
Release(p) ==
    /\ handle' = [handle EXCEPT ![p] = NoFile]
    /\ lockedBy' = [i \in Files |-> IF lockedBy[i] = p THEN Nobody ELSE lockedBy[i]]

Unused == Files \ ({named} \cup {handle[p] : p \in Processes})

Open(p) ==
    /\ stage[p] = "new"
    /\ IF named # NoFile
       THEN /\ handle' = [handle EXCEPT ![p] = named]
            /\ UNCHANGED <<named, contents>>
       ELSE \E i \in Unused :
            /\ handle' = [handle EXCEPT ![p] = i]
            /\ named' = i
            /\ contents' = [contents EXCEPT ![i] = Nobody]
    /\ stage' = [stage EXCEPT ![p] = "opened"]
    /\ UNCHANGED <<lockedBy, history>>

OpenFails(p) ==
    /\ stage[p] = "new"
    /\ stage' = [stage EXCEPT ![p] = "done"]
    /\ UNCHANGED <<named, lockedBy, contents, handle, history>>

Lock(p) ==
    /\ stage[p] = "opened"
    /\ lockedBy[handle[p]] = Nobody
    /\ lockedBy' = [lockedBy EXCEPT ![handle[p]] = p]
    /\ stage' = [stage EXCEPT ![p] = "locked"]
    /\ owned' = [owned EXCEPT ![p] = TRUE]
    /\ UNCHANGED <<named, contents, handle, orphaned>>

\* Mutant: m_handle keeps its number, and so the object looks valid.
LockFailsUnnoticed(p) ==
    /\ stage[p] = "opened"
    /\ lockedBy[handle[p]] # Nobody
    /\ stage' = [stage EXCEPT ![p] = "written"]
    /\ UNCHANGED <<named, lockedBy, contents, handle, history>>

\* Mutant: the PID is written before it is known whether the lock is had.
LockFailsTooLate(p) ==
    /\ stage[p] = "opened"
    /\ lockedBy[handle[p]] # Nobody
    /\ contents' = [contents EXCEPT ![handle[p]] = p]
    /\ Release(p)
    /\ stage' = [stage EXCEPT ![p] = "done"]
    /\ UNCHANGED <<named, history>>

LockFails(p) ==
    /\ stage[p] = "opened"
    /\ lockedBy[handle[p]] # Nobody
    /\ Release(p)
    /\ stage' = [stage EXCEPT ![p] = "done"]
    /\ UNCHANGED <<named, contents, history>>

Write(p) ==
    /\ stage[p] = "locked"
    /\ contents' = [contents EXCEPT ![handle[p]] = p]
    /\ stage' = [stage EXCEPT ![p] = "written"]
    /\ UNCHANGED <<named, lockedBy, handle, history>>

\* Mutant: the file stays open, and locked.
WriteFailsKeepsHandle(p) ==
    /\ stage[p] = "locked"
    /\ stage' = [stage EXCEPT ![p] = "abandoned"]
    /\ UNCHANGED <<named, lockedBy, contents, handle, history>>

WriteFails(p) ==
    /\ stage[p] = "locked"
    /\ Release(p)
    /\ stage' = [stage EXCEPT ![p] = "abandoned"]
    /\ UNCHANGED <<named, contents, history>>

\* The destructor of an object with a handle.
Close(p) ==
    /\ stage[p] = "written"
    /\ Release(p)
    /\ stage' = [stage EXCEPT ![p] = "closed"]
    /\ UNCHANGED <<named, contents, history>>

\* Whatever has the name now loses it.
Unlink(p) ==
    /\ stage[p] \in {"abandoned", "closed"}
    /\ named' = NoFile
    /\ orphaned' = [q \in Processes |->
                       orphaned[q] \/ (named # NoFile /\ handle[q] = named)]
    /\ stage' = [stage EXCEPT ![p] = "done"]
    /\ UNCHANGED <<lockedBy, contents, handle, owned>>

\* The directory may not allow it, without privileges.
UnlinkFails(p) ==
    /\ stage[p] \in {"abandoned", "closed"}
    /\ stage' = [stage EXCEPT ![p] = "done"]
    /\ UNCHANGED <<named, lockedBy, contents, handle, history>>

\* The process ends without its destructors.
Vanish(p) ==
    /\ Release(p)
    /\ stage' = [stage EXCEPT ![p] = "done"]
    /\ UNCHANGED <<named, contents, history>>

\* PidFile::valid(), when the constructor has returned.
HasPidFile(p) == stage[p] = "written"

-----------------------------------------------------------------------------

FileTypeOK ==
    /\ named \in Files \cup {NoFile}
    /\ lockedBy \in [Files -> Processes \cup {Nobody}]
    /\ contents \in [Files -> Processes \cup {Nobody}]
    /\ handle \in [Processes -> Files \cup {NoFile}]
    /\ stage \in [Processes -> Stages]
    /\ {owned, orphaned} \subseteq [Processes -> BOOLEAN]

\* An object has a handle, and the lock, just while it is at such a stage.
HandlesFitStages ==
    \A p \in Processes :
        /\ stage[p] \in {"opened", "locked", "written"} <=> handle[p] # NoFile
        /\ stage[p] \in {"locked", "written"}
              <=> \E i \in Files : lockedBy[i] = p /\ handle[p] = i

=============================================================================
