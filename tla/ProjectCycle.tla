---------------------------- MODULE ProjectCycle ----------------------------
(***************************************************************************)
(* Competing DistributedProjectCycle runs of one execution id              *)
(* (src/src/aios/execution_fabric/project_cycle.py): each checks that      *)
(* neither the output directory nor the staging directory exists, takes    *)
(* the execution lock of store.py, drives the tasks, fills the staging     *)
(* directory and renames it to the output directory.  Any exception        *)
(* removes the staging directory, whoever made it, and the lock is         *)
(* released at the end.  The lock has a TTL and is never renewed.          *)
(*                                                                         *)
(* What the tasks do is ExecutionFabricStore's subject; here the drive     *)
(* takes any time and succeeds or raises.  Removing a directory is         *)
(* shutil.rmtree: list it, unlink what was listed, remove the directory if *)
(* it is empty.  The listing holds an open directory: when another process *)
(* renames it meanwhile, the files are unlinked in its new place.          *)
(***************************************************************************)
EXTENDS Integers, FiniteSets

CONSTANTS
    Cycle,        \* the competing runs, each with a lock owner of its own
    Nobody,       \* no owner, no writer
    LockSeconds,  \* ttl_seconds of the lock
    MaxLag,       \* bound: the longest wait for the store's write lock
    MaxCrashes,   \* bound: processes that die
    Overruns      \* may a cycle still run when its lock expires?

ASSUME CycleAssumption ==
    /\ Nobody \notin Cycle
    /\ MaxLag \in Nat /\ MaxCrashes \in Nat
    /\ LockSeconds \in Nat /\ LockSeconds > MaxLag
    /\ Overruns \in BOOLEAN

VARIABLES
    lock,         \* [owner, expires_in]: the row of execution_locks
    staging,      \* the staging directory
    destination,  \* the output directory
    cycles,       \* [Cycle -> [pc, listed, opened]]
    crashes       \* processes that died

vars == <<lock, staging, destination, cycles, crashes>>

File == {"manifest", "report"}

(* A directory: whether it exists, and who wrote each of its files.        *)
Directory == [exists : BOOLEAN, files : [File -> Cycle \cup {Nobody}]]
Missing == [exists |-> FALSE, files |-> [f \in File |-> Nobody]]
Empty == [exists |-> TRUE, files |-> [f \in File |-> Nobody]]

Held(dir) == {f \in File : dir.files[f] # Nobody}
Without(dir, f) == [dir EXCEPT !.files[f] = Nobody]

NoLock == [owner |-> Nobody, expires_in |-> 0]

(* the places of _execute_async, in order; those of Inside hold the lock   *)
Writing == {"manifest", "report", "publish"}
Removing == {"list", "unlink"}
Inside == {"drive", "mkdir", "release"} \cup Writing \cup Removing
Ended == {"refused", "ended", "dead"}
Place == {"check", "acquire"} \cup Inside \cup Ended

Init ==
    /\ lock = NoLock
    /\ staging = Missing /\ destination = Missing
    /\ cycles = [c \in Cycle |-> [pc |-> "check", listed |-> {}, opened |-> "nothing"]]
    /\ crashes = 0

At(c, place) == cycles[c].pc = place
GoTo(c, place) == cycles' = [cycles EXCEPT ![c].pc = place]

-----------------------------------------------------------------------------
(* The checks before the lock; the two tests are modelled as one step,     *)
(* since a cycle that has passed them may be overtaken before the lock.    *)

Check(c) ==
    /\ At(c, "check")
    /\ GoTo(c, IF destination.exists \/ staging.exists THEN "refused" ELSE "acquire")
    /\ UNCHANGED <<lock, staging, destination, crashes>>

(* acquire_lock *)
HeldByOther_Never(c, lag) == FALSE                                  \* mutant

HeldByOther(c, lag) ==
    lock.owner \notin {Nobody, c} /\ lock.expires_in > -lag

Acquire(c, lag) ==
    /\ At(c, "acquire") /\ ~HeldByOther(c, lag)
    /\ lock' = [owner |-> c, expires_in |-> LockSeconds - lag]
    /\ GoTo(c, "drive")
    /\ UNCHANGED <<staging, destination, crashes>>

AcquireRefused_InsideTry(c, lag) ==                                 \* mutant
    /\ At(c, "acquire") /\ HeldByOther(c, lag)
    /\ GoTo(c, "list")
    /\ UNCHANGED <<lock, staging, destination, crashes>>

AcquireRefused(c, lag) ==
    /\ At(c, "acquire") /\ HeldByOther(c, lag)
    /\ GoTo(c, "refused")
    /\ UNCHANGED <<lock, staging, destination, crashes>>

-----------------------------------------------------------------------------
(* Under the lock. *)

Drive(c) ==
    /\ At(c, "drive")
    /\ GoTo(c, "mkdir")
    /\ UNCHANGED <<lock, staging, destination, crashes>>

(* staging.mkdir raises FileExistsError when the directory is there        *)
MakeStaging(c) ==
    /\ At(c, "mkdir") /\ ~staging.exists
    /\ staging' = Empty
    /\ GoTo(c, "manifest")
    /\ UNCHANGED <<lock, destination, crashes>>

(* _atomic_write_text: a file appears complete or not at all               *)
WriteFile(c, f, next) ==
    /\ At(c, f) /\ staging.exists
    /\ staging' = [staging EXCEPT !.files[f] = c]
    /\ GoTo(c, next)
    /\ UNCHANGED <<lock, destination, crashes>>

(* os.replace(staging, destination), which a directory with files refuses  *)
Published(c) ==
    [d \in Cycle |-> IF d = c THEN [cycles[d] EXCEPT !.pc = "release"]
                     ELSE IF cycles[d].opened = "staging"
                     THEN [cycles[d] EXCEPT !.opened = "destination"]
                     ELSE cycles[d]]

Publish_Overwrites(c) ==                                            \* mutant
    /\ At(c, "publish") /\ staging.exists
    /\ destination' = staging
    /\ staging' = Missing
    /\ cycles' = Published(c)
    /\ UNCHANGED <<lock, crashes>>

Publish(c) ==
    /\ At(c, "publish") /\ staging.exists
    /\ Held(destination) = {}
    /\ destination' = staging
    /\ staging' = Missing
    /\ cycles' = Published(c)
    /\ UNCHANGED <<lock, crashes>>

(* Any of these statements may raise, for a reason of its own or because   *)
(* its directory is there already, is gone, or the output exists.          *)
Raise_NotOnMkdir(c) ==                                              \* mutant
    /\ cycles[c].pc \in {"drive"} \cup Writing
    /\ GoTo(c, "list")
    /\ UNCHANGED <<lock, staging, destination, crashes>>

Raise(c) ==
    /\ cycles[c].pc \in {"drive", "mkdir"} \cup Writing
    /\ GoTo(c, "list")
    /\ UNCHANGED <<lock, staging, destination, crashes>>

-----------------------------------------------------------------------------
(* except BaseException: shutil.rmtree(staging, ignore_errors=True) *)

ListStaging(c) ==
    /\ At(c, "list")
    /\ cycles' = [cycles EXCEPT ![c] =
          IF staging.exists
          THEN [pc |-> "unlink", listed |-> Held(staging), opened |-> "staging"]
          ELSE [@ EXCEPT !.pc = "release"]]
    /\ UNCHANGED <<lock, staging, destination, crashes>>

Unlink(c, f) ==
    /\ At(c, "unlink") /\ f \in cycles[c].listed
    /\ cycles' = [cycles EXCEPT ![c].listed = @ \ {f}]
    /\ staging' = IF cycles[c].opened = "staging" THEN Without(staging, f) ELSE staging
    /\ destination' = IF cycles[c].opened = "destination"
                      THEN Without(destination, f) ELSE destination
    /\ UNCHANGED <<lock, crashes>>

(* os.rmdir of the path, ignored when it holds files again or is gone      *)
RemoveStaging_KeepsOpen(c) ==                                       \* mutant
    /\ At(c, "unlink") /\ cycles[c].listed = {}
    /\ staging' = IF Held(staging) = {} THEN Missing ELSE staging
    /\ GoTo(c, "release")
    /\ UNCHANGED <<lock, destination, crashes>>

RemoveStaging(c) ==
    /\ At(c, "unlink") /\ cycles[c].listed = {}
    /\ staging' = IF Held(staging) = {} THEN Missing ELSE staging
    /\ cycles' = [cycles EXCEPT ![c] = [@ EXCEPT !.pc = "release", !.opened = "nothing"]]
    /\ UNCHANGED <<lock, destination, crashes>>

(* finally: release_lock, which deletes the row of this owner only         *)
Release_Forgotten(c) ==                                             \* mutant
    /\ At(c, "release")
    /\ GoTo(c, "ended")
    /\ UNCHANGED <<lock, staging, destination, crashes>>

Release(c) ==
    /\ At(c, "release")
    /\ lock' = IF lock.owner = c THEN NoLock ELSE lock
    /\ GoTo(c, "ended")
    /\ UNCHANGED <<staging, destination, crashes>>

-----------------------------------------------------------------------------
(* The process dies; time passes.  A run without Overruns is one in which  *)
(* no cycle is still inside when its lock expires.                         *)

Crash(c) ==
    /\ crashes < MaxCrashes /\ cycles[c].pc \notin Ended
    /\ crashes' = crashes + 1
    /\ cycles' = [cycles EXCEPT ![c] = [pc |-> "dead", listed |-> {}, opened |-> "nothing"]]
    /\ UNCHANGED <<lock, staging, destination>>

Tick ==
    /\ lock.owner # Nobody /\ lock.expires_in > -MaxLag
    /\ ~Overruns /\ cycles[lock.owner].pc \in Inside => lock.expires_in > 1
    /\ lock' = [lock EXCEPT !.expires_in = @ - 1]
    /\ UNCHANGED <<staging, destination, cycles, crashes>>

CycleStep(c) ==
    \/ Check(c) \/ Drive(c) \/ MakeStaging(c)
    \/ WriteFile(c, "manifest", "report") \/ WriteFile(c, "report", "publish")
    \/ Publish(c) \/ Raise(c) \/ ListStaging(c) \/ RemoveStaging(c) \/ Release(c)
    \/ \E f \in File : Unlink(c, f)
    \/ \E lag \in 0..MaxLag : Acquire(c, lag) \/ AcquireRefused(c, lag)

Next ==
    \/ \E c \in Cycle : CycleStep(c) \/ Crash(c)
    \/ Tick

(* A process that is not dead goes on, and time passes when it may.        *)
Fairness == (\A c \in Cycle : WF_vars(CycleStep(c))) /\ WF_vars(Tick)

Spec == Init /\ [][Next]_vars /\ Fairness

-----------------------------------------------------------------------------
(* Properties. *)

(* The state is well typed, and a cycle has an open directory, with what   *)
(* it listed there, only while it removes one.                             *)
TypeOK ==
    /\ lock \in [owner : Cycle \cup {Nobody}, expires_in : -MaxLag..LockSeconds]
    /\ staging \in Directory /\ destination \in Directory
    /\ \A d \in {staging, destination} : ~d.exists => Held(d) = {}
    /\ \A c \in Cycle : /\ cycles[c].pc \in Place
                        /\ cycles[c].listed \subseteq File
                        /\ cycles[c].opened \in {"nothing", "staging", "destination"}
                        /\ cycles[c].opened # "nothing" <=> At(c, "unlink")
    /\ crashes \in 0..MaxCrashes

(* "prevents competing duplicate project cycles with an execution lock"    *)
(* (phase 23): at most one cycle is between its lock and its release.      *)
OneCycleInside ==
    \A c, d \in Cycle : cycles[c].pc \in Inside /\ cycles[d].pc \in Inside => c = d

(* A cycle that has made the staging directory finds there, until it       *)
(* publishes or gives up, exactly the files it has written itself.         *)
StagingIsIsolated ==
    \A c \in Cycle : cycles[c].pc \in Writing =>
        /\ staging.exists
        /\ \A f \in File :
              staging.files[f] = IF \/ f = "manifest" /\ ~At(c, "manifest")
                                    \/ f = "report" /\ At(c, "publish")
                                 THEN c ELSE Nobody

(* "creates an isolated manifest and report atomically" (phase 23): an     *)
(* output directory holds the manifest and the report of one cycle.        *)
PublishedIsComplete ==
    destination.exists =>
        \E c \in Cycle : \A f \in File : destination.files[f] = c

(* "duplicate output protection" (phase 23): a published directory is      *)
(* never replaced, emptied or removed by a later cycle.                    *)
DestinationIsFinal ==
    [][destination.exists => destination' = destination]_vars

(* The lock of a cycle that has ended, in success or by any exception, is  *)
(* gone: only the death of its process leaves a lock to run out.           *)
NoLockLeftBehind ==
    \A c \in Cycle : lock.owner = c => cycles[c].pc \in Inside \cup {"dead"}

(* Every cycle comes to an end, also after another died inside and left    *)
(* its lock or its staging directory behind.                               *)
CyclesEnd ==
    \A c \in Cycle : At(c, "acquire") ~> cycles[c].pc \in Ended
=============================================================================
