---------------------------- MODULE InstanceLock ----------------------------
(***************************************************************************)
(* How main (imsd.c) makes sure that imsd "shall only start once": it      *)
(* opens the lock file, takes an exclusive flock on it without waiting,    *)
(* and keeps the descriptor open for the rest of its life. Nothing         *)
(* removes the file while imsd runs (close and unlink come after a main    *)
(* loop that never quits), and the kernel gives the lock up when the       *)
(* process ends, however it ends.                                          *)
(*                                                                         *)
(* An instance is one execution of imsd: it is started once and ends once. *)
(* The file system and flock are external: `file' is the inode behind the  *)
(* path of the lock file and `descriptor' the inode an instance has open.  *)
(***************************************************************************)
CONSTANTS
  Instances,   \* executions of imsd
  Inodes,      \* inodes the lock file may get
  NoInode      \* no file, or no open descriptor

ASSUME InodesAssumption == NoInode \notin Inodes

VARIABLES
  stage,       \* where main is
  descriptor,  \* the inode an instance has open as its lock file
  file,        \* the inode the path of the lock file names
  locked       \* the instance holds the flock on its descriptor's inode

lockVars == <<stage, descriptor, file, locked>>

Stages == {"off", "parsed", "opened", "locked", "configured",
           "refused", "exited", "crashed"}
Ended  == {"refused", "exited", "crashed"}

LockTypeOK ==
  /\ stage \in [Instances -> Stages]
  /\ descriptor \in [Instances -> Inodes \cup {NoInode}]
  /\ file \in Inodes \cup {NoInode}
  /\ locked \in [Instances -> BOOLEAN]

LockInit ==
  /\ stage = [p \in Instances |-> "off"]
  /\ descriptor = [p \in Instances |-> NoInode]
  /\ file \in {NoInode} \cup Inodes        \* a file of an earlier instance
  /\ locked = [p \in Instances |-> FALSE]

Alive(p) == stage[p] \notin Ended \cup {"off"}

\* Instance p moves on in main.
Advance(p, from, to) ==
  /\ stage[p] = from
  /\ stage' = [stage EXCEPT ![p] = to]

\* Mutant: the lock file is removed on the way out.
End_Unlinks(p, how) ==
  /\ stage' = [stage EXCEPT ![p] = how]
  /\ descriptor' = [descriptor EXCEPT ![p] = NoInode]
  /\ locked' = [locked EXCEPT ![p] = FALSE]
  /\ file' = NoInode

\* Mutant: the end leaves the lock behind, as a lock of its own making would be.
End_KeepsLock(p, how) ==
  /\ stage' = [stage EXCEPT ![p] = how]
  /\ UNCHANGED <<descriptor, locked, file>>

\* The process ends: the kernel closes its descriptor, which gives up the lock;
\* the file stays.
End(p, how) ==
  /\ stage' = [stage EXCEPT ![p] = how]
  /\ descriptor' = [descriptor EXCEPT ![p] = NoInode]
  /\ locked' = [locked EXCEPT ![p] = FALSE]
  /\ UNCHANGED file

\* The options name a device; main returns at once if they do not, and for
\* --version.
ParseOptions(p) ==
  /\ stage[p] = "off"
  /\ \/ Advance(p, "off", "parsed") /\ UNCHANGED <<descriptor, file, locked>>
     \/ End(p, "exited")

\* open(LOCK_FILE, O_RDWR | O_CREAT | O_TRUNC)
OpenLockFile(p) ==
  /\ stage[p] = "parsed"
  /\ \/ /\ \E i \in IF file = NoInode
                    THEN Inodes \ {descriptor[q] : q \in Instances} ELSE {file} :
             /\ descriptor' = [descriptor EXCEPT ![p] = i]
             /\ file' = i
        /\ Advance(p, "parsed", "opened")
        /\ UNCHANGED locked
     \/ End(p, "exited")

\* Somebody holds the lock on the file instance p has open.
Contended(p) == \E q \in Instances : locked[q] /\ descriptor[q] = descriptor[p]

\* flock(lockfile, LOCK_EX | LOCK_NB)
Flock(p) ==
  /\ stage[p] = "opened"
  /\ IF Contended(p)
     THEN End(p, "refused")
     ELSE /\ Advance(p, "opened", "locked")
          /\ locked' = [locked EXCEPT ![p] = TRUE]
          /\ UNCHANGED <<descriptor, file>>

\* load_main_config: without the configuration file imsd exits.
LoadMainConfig(p) ==
  /\ stage[p] = "locked"
  /\ \/ Advance(p, "locked", "configured") /\ UNCHANGED <<descriptor, file, locked>>
     \/ End(p, "exited")

-----------------------------------------------------------------------------
\* "We shall only start once": instances that got past flock hold a lock on one
\* and the same file, so there is at most one, whatever is started, ends or is
\* killed in between.
OneInstance ==
  \A p, q \in Instances :
    stage[p] \in {"locked", "configured"} /\ stage[q] \in {"locked", "configured"}
      => p = q

Refused(p) == stage[p] # "refused" /\ stage'[p] = "refused"

\* imsd says that it "is already running" only if it is: neither a lock file
\* left behind nor an instance that ended refuses a new one.
RefusedOnlyByTheLiving ==
  [][\A p \in Instances : Refused(p) =>
       \E q \in Instances : stage[q] \in {"locked", "configured"}]_lockVars

\* The inductive strengthening: whoever has the lock file open has the file
\* that is at the path now, and exactly the instances past flock hold it.
LockInv ==
  /\ LockTypeOK
  /\ OneInstance
  /\ \A p \in Instances :
       /\ locked[p] <=> stage[p] \in {"locked", "configured"}
       /\ stage[p] \in {"opened", "locked", "configured"} => descriptor[p] = file
       /\ stage[p] \in {"opened", "locked", "configured"} => file # NoInode
       /\ stage[p] \notin {"opened", "locked", "configured"} => descriptor[p] = NoInode
=============================================================================
