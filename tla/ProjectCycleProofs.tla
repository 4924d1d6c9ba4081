------------------------- MODULE ProjectCycleProofs -------------------------
(***************************************************************************)
(* Proofs about ProjectCycle, for every set of competing cycles, every TTL *)
(* of the lock, every lag and any number of crashes.  Types and the lock   *)
(* left behind do not depend on Overruns; the exclusion of cycles, and all *)
(* that follows from it, holds when no cycle outlives its lock.            *)
(***************************************************************************)
EXTENDS ProjectCycle, TLAPS

(* what a step keeps whether or not cycles overrun their locks             *)
CycleState == [pc : Place, listed : SUBSET File,
               opened : {"nothing", "staging", "destination"}]

DirectoryOK(dir) == dir \in Directory /\ (~dir.exists => Held(dir) = {})

Typed ==
    /\ lock \in [owner : Cycle \cup {Nobody}, expires_in : -MaxLag..LockSeconds]
    /\ DirectoryOK(staging) /\ DirectoryOK(destination)
    /\ cycles \in [Cycle -> CycleState]
    /\ \A c \in Cycle : cycles[c].opened # "nothing" <=> At(c, "unlink")
    /\ crashes \in 0..MaxCrashes

TypedInv == Typed /\ NoLockLeftBehind

(* what exclusion rests on: the lock of a cycle inside is still in force   *)
LockInForce ==
    \A c \in Cycle : cycles[c].pc \in Inside => lock.owner = c /\ lock.expires_in >= 1

(* an open directory is never renamed under the cycle that empties it      *)
NeverMoved == \A c \in Cycle : cycles[c].opened # "destination"

IInv ==
    /\ TypedInv
    /\ LockInForce
    /\ NeverMoved
    /\ StagingIsIsolated
    /\ PublishedIsComplete

-----------------------------------------------------------------------------
(* Directories. *)

(* The operations on a directory keep it well formed.                      *)
LEMMA DirectoryOperations ==
    /\ DirectoryOK(Missing) /\ DirectoryOK(Empty)
    /\ \A dir : \A f \in File : DirectoryOK(dir) => DirectoryOK(Without(dir, f))
    /\ \A dir : \A f \in File, c \in Cycle : DirectoryOK(dir) /\ dir.exists =>
          DirectoryOK([dir EXCEPT !.files[f] = c])
  <1>1. DirectoryOK(Missing) /\ DirectoryOK(Empty)
    BY DEF DirectoryOK, Directory, Missing, Empty, Held
  <1>2. ASSUME NEW dir, NEW f \in File, DirectoryOK(dir)
        PROVE  DirectoryOK(Without(dir, f))
    BY <1>2 DEF DirectoryOK, Directory, Without, Held
  <1>3. ASSUME NEW dir, NEW f \in File, NEW c \in Cycle, DirectoryOK(dir), dir.exists
        PROVE  DirectoryOK([dir EXCEPT !.files[f] = c])
    BY <1>3 DEF DirectoryOK, Directory, Held
  <1> QED
    BY <1>1, <1>2, <1>3

-----------------------------------------------------------------------------
(* Types and the lock left behind, whether or not cycles overrun. *)

(* The initial state is well typed and has no lock.                        *)
LEMMA InitTyped == Init => TypedInv
  <1> SUFFICES ASSUME Init PROVE TypedInv
    OBVIOUS
  <1>1. DirectoryOK(staging) /\ DirectoryOK(destination)
    BY DirectoryOperations DEF Init
  <1>2. lock \in [owner : Cycle \cup {Nobody}, expires_in : -MaxLag..LockSeconds]
    BY CycleAssumption DEF Init, NoLock
  <1>3. /\ cycles \in [Cycle -> CycleState]
        /\ \A c \in Cycle : cycles[c].opened # "nothing" <=> At(c, "unlink")
    BY DEF Init, CycleState, Place, At
  <1>4. crashes \in 0..MaxCrashes /\ NoLockLeftBehind
    BY CycleAssumption DEF Init, NoLock, NoLockLeftBehind
  <1> QED
    BY <1>1, <1>2, <1>3, <1>4 DEF TypedInv, Typed

(* A cycle that only moves to another place, its lock kept or taken.       *)
LEMMA MoveKeepsTyped ==
    ASSUME TypedInv, NEW c \in Cycle, NEW place \in Place \ {"unlink"},
           cycles[c].pc # "unlink", GoTo(c, place),
           lock' \in [owner : Cycle \cup {Nobody}, expires_in : -MaxLag..LockSeconds],
           lock'.owner \in {lock.owner, c, Nobody},
           lock'.owner = c => place \in Inside,
           DirectoryOK(staging'), DirectoryOK(destination'), crashes' = crashes
    PROVE  TypedInv'
  <1>1. /\ cycles' \in [Cycle -> CycleState]
        /\ \A d \in Cycle \ {c} : cycles'[d] = cycles[d]
        /\ cycles'[c].pc = place /\ cycles'[c].opened = cycles[c].opened
    BY DEF TypedInv, Typed, GoTo, CycleState
  <1>2. \A d \in Cycle : cycles'[d].opened # "nothing" <=> cycles'[d].pc = "unlink"
    BY <1>1 DEF TypedInv, Typed, At
  <1>3. NoLockLeftBehind'
    BY <1>1, CycleAssumption DEF TypedInv, NoLockLeftBehind
  <1> QED
    BY <1>1, <1>2, <1>3 DEF TypedInv, Typed, At

(* Every step keeps the types, and leaves no lock behind a cycle's end.    *)
LEMMA StepKeepsTyped == TypedInv /\ [Next]_vars => TypedInv'
  <1> SUFFICES ASSUME TypedInv, [Next]_vars PROVE TypedInv'
    OBVIOUS
  <1>a. /\ lock \in [owner : Cycle \cup {Nobody}, expires_in : -MaxLag..LockSeconds]
        /\ lock.owner \in Cycle \cup {Nobody}
        /\ DirectoryOK(staging) /\ DirectoryOK(destination)
        /\ cycles \in [Cycle -> CycleState]
        /\ \A c \in Cycle : lock.owner = c => cycles[c].pc \in Inside \cup {"dead"}
    BY DEF TypedInv, Typed, NoLockLeftBehind
  <1>1. ASSUME NEW c \in Cycle, Check(c) PROVE TypedInv'
    <2>1. PICK place \in {"refused", "acquire"} : GoTo(c, place)
      BY <1>1 DEF Check
    <2> QED
      BY <1>a, <1>1, <2>1, MoveKeepsTyped
         DEF Check, At, Place, Ended, Inside, Writing, Removing
  <1>2. ASSUME NEW c \in Cycle, NEW lag \in 0..MaxLag, Acquire(c, lag) PROVE TypedInv'
    <2>1. lock' \in [owner : Cycle \cup {Nobody}, expires_in : -MaxLag..LockSeconds]
          /\ lock'.owner = c
      BY <1>2, CycleAssumption DEF Acquire
    <2> QED
      BY <1>a, <1>2, <2>1, MoveKeepsTyped DEF Acquire, At, Place, Inside
  <1>3. ASSUME NEW c \in Cycle, NEW lag \in 0..MaxLag, AcquireRefused(c, lag)
        PROVE  TypedInv'
    BY <1>a, <1>3, MoveKeepsTyped
       DEF AcquireRefused, At, Place, Ended, Inside, Writing, Removing
  <1>4. ASSUME NEW c \in Cycle, Drive(c) PROVE TypedInv'
    BY <1>a, <1>4, MoveKeepsTyped DEF Drive, At, Place, Inside
  <1>5. ASSUME NEW c \in Cycle, MakeStaging(c) PROVE TypedInv'
    BY <1>a, <1>5, MoveKeepsTyped, DirectoryOperations
       DEF MakeStaging, At, Place, Inside, Writing
  <1>6. ASSUME NEW c \in Cycle, NEW f \in File, NEW next \in {"report", "publish"},
               WriteFile(c, f, next)
        PROVE  TypedInv'
    <2>1. DirectoryOK(staging')
      BY <1>a, <1>6, DirectoryOperations DEF WriteFile
    <2> QED
      BY <1>a, <1>6, <2>1, MoveKeepsTyped DEF WriteFile, At, File, Place, Inside, Writing
  <1>7. ASSUME NEW c \in Cycle, Publish(c) PROVE TypedInv'
    <2>1. /\ \A d \in Cycle \ {c} :
                 /\ cycles'[d].pc = cycles[d].pc /\ cycles'[d] \in CycleState
                 /\ cycles'[d].opened # "nothing" <=> cycles[d].opened # "nothing"
          /\ cycles'[c].pc = "release" /\ cycles'[c].opened = cycles[c].opened
          /\ cycles'[c] \in CycleState
          /\ cycles' \in [Cycle -> CycleState]
      BY <1>a, <1>7 DEF Publish, Published, CycleState, Place, Inside
    <2>2. \A d \in Cycle : cycles'[d].opened # "nothing" <=> cycles'[d].pc = "unlink"
      BY <1>7, <2>1 DEF TypedInv, Typed, At, Publish
    <2>3. DirectoryOK(staging') /\ DirectoryOK(destination')
      BY <1>a, <1>7, DirectoryOperations DEF Publish
    <2>4. NoLockLeftBehind'
      BY <1>a, <1>7, <2>1 DEF Publish, NoLockLeftBehind, Inside
    <2> QED
      BY <1>7, <2>1, <2>2, <2>3, <2>4 DEF TypedInv, Typed, At, Publish
  <1>8. ASSUME NEW c \in Cycle, Raise(c) PROVE TypedInv'
    BY <1>a, <1>8, MoveKeepsTyped DEF Raise, At, Place, Inside, Writing, Removing
  <1>9. ASSUME NEW c \in Cycle, ListStaging(c) PROVE TypedInv'
    <2>1. CASE staging.exists
      <3>1. cycles' = [cycles EXCEPT ![c] =
               [pc |-> "unlink", listed |-> Held(staging), opened |-> "staging"]]
        BY <1>9, <2>1 DEF ListStaging
      <3>2. /\ cycles' \in [Cycle -> CycleState]
            /\ \A d \in Cycle \ {c} : cycles'[d] = cycles[d]
            /\ cycles'[c].pc = "unlink" /\ cycles'[c].opened = "staging"
        BY <1>a, <3>1 DEF CycleState, Place, Inside, Removing, Held
      <3>3. NoLockLeftBehind'
        BY <1>a, <1>9, <3>2 DEF ListStaging, NoLockLeftBehind, Inside, Removing
      <3> QED
        BY <1>9, <3>2, <3>3 DEF TypedInv, Typed, At, ListStaging
    <2>2. CASE ~staging.exists
      <3>1. GoTo(c, "release")
        BY <1>a, <1>9, <2>2 DEF ListStaging, GoTo
      <3> QED
        BY <1>a, <1>9, <3>1, MoveKeepsTyped DEF ListStaging, At, Place, Inside
    <2> QED
      BY <2>1, <2>2
  <1>10. ASSUME NEW c \in Cycle, NEW f \in File, Unlink(c, f) PROVE TypedInv'
    <2>1. /\ cycles' \in [Cycle -> CycleState]
          /\ \A d \in Cycle : /\ cycles'[d].pc = cycles[d].pc
                              /\ cycles'[d].opened = cycles[d].opened
      BY <1>a, <1>10 DEF Unlink, CycleState
    <2>2. DirectoryOK(staging') /\ DirectoryOK(destination')
      BY <1>a, <1>10, DirectoryOperations DEF Unlink
    <2> QED
      BY <1>10, <2>1, <2>2 DEF TypedInv, Typed, At, Unlink, NoLockLeftBehind
  <1>11. ASSUME NEW c \in Cycle, RemoveStaging(c) PROVE TypedInv'
    <2>1. /\ cycles' \in [Cycle -> CycleState]
          /\ \A d \in Cycle \ {c} : cycles'[d] = cycles[d]
          /\ cycles'[c].pc = "release" /\ cycles'[c].opened = "nothing"
      BY <1>a, <1>11 DEF RemoveStaging, CycleState, Place, Inside
    <2>2. DirectoryOK(staging') /\ DirectoryOK(destination')
      BY <1>a, <1>11, DirectoryOperations DEF RemoveStaging
    <2>3. NoLockLeftBehind'
      BY <1>a, <1>11, <2>1 DEF RemoveStaging, NoLockLeftBehind, Inside
    <2> QED
      BY <1>11, <2>1, <2>2, <2>3 DEF TypedInv, Typed, At, RemoveStaging
  <1>12. ASSUME NEW c \in Cycle, Release(c) PROVE TypedInv'
    <2>1. /\ lock' \in [owner : Cycle \cup {Nobody}, expires_in : -MaxLag..LockSeconds]
          /\ lock'.owner # c /\ lock'.owner \in {lock.owner, Nobody}
      BY <1>a, <1>12, CycleAssumption DEF Release, NoLock
    <2> QED
      BY <1>a, <1>12, <2>1, MoveKeepsTyped DEF Release, At, Place, Ended
  <1>13. ASSUME NEW c \in Cycle, Crash(c) PROVE TypedInv'
    <2>1. /\ cycles' \in [Cycle -> CycleState]
          /\ \A d \in Cycle \ {c} : cycles'[d] = cycles[d]
          /\ cycles'[c].pc = "dead" /\ cycles'[c].opened = "nothing"
      BY <1>a, <1>13 DEF Crash, CycleState, Place, Ended
    <2>2. crashes' \in 0..MaxCrashes
      BY <1>13, CycleAssumption DEF TypedInv, Typed, Crash
    <2> QED
      BY <1>13, <2>1, <2>2 DEF TypedInv, Typed, At, Crash, NoLockLeftBehind
  <1>14. CASE Tick
    <2>1. /\ lock' \in [owner : Cycle \cup {Nobody}, expires_in : -MaxLag..LockSeconds]
          /\ lock'.owner = lock.owner
      BY <1>a, <1>14, CycleAssumption DEF Tick
    <2> QED
      BY <1>14, <2>1 DEF TypedInv, Typed, At, Tick, NoLockLeftBehind
  <1>15. CASE UNCHANGED vars
    BY <1>15 DEF vars, TypedInv, Typed, At, NoLockLeftBehind
  <1> QED
    BY <1>1, <1>2, <1>3, <1>4, <1>5, <1>6, <1>7, <1>8, <1>9, <1>10, <1>11, <1>12,
       <1>13, <1>14, <1>15 DEF Next, CycleStep, File

(* The typing invariant holds in every behaviour, with or without cycles   *)
(* that outlive their lock.                                                *)
THEOREM TypedInvariant == Spec => []TypedInv
  BY InitTyped, StepKeepsTyped, PTL DEF Spec

(* The lock row, both directories and the place of every cycle stay in     *)
(* their ranges, and only a cycle that removes a directory has one open.   *)
THEOREM TypeCorrect == Spec => []TypeOK
  <1>1. TypedInv => TypeOK
    BY DEF TypedInv, Typed, TypeOK, DirectoryOK, CycleState
  <1> QED
    BY <1>1, TypedInvariant, PTL

(* However a cycle ends, in success or by an exception anywhere inside,    *)
(* its lock is gone: only the death of its process leaves one behind.  No  *)
(* assumption on how long cycles take.                                     *)
THEOREM LocksAreReleased == Spec => []NoLockLeftBehind
  <1>1. TypedInv => NoLockLeftBehind
    BY DEF TypedInv
  <1> QED
    BY <1>1, TypedInvariant, PTL

-----------------------------------------------------------------------------
(* Exclusion, when no cycle is still inside when its lock expires. *)

(* While a cycle is inside it is the only one: nobody else has an open     *)
(* directory, and its lock is in force.                                    *)
LEMMA AloneInside ==
    ASSUME IInv, NEW c \in Cycle, cycles[c].pc \in Inside
    PROVE  /\ lock.owner = c /\ lock.expires_in >= 1
           /\ \A d \in Cycle \ {c} : /\ cycles[d].pc \notin Inside
                                     /\ cycles[d].opened = "nothing"
  <1>1. /\ lock.owner = c /\ lock.expires_in >= 1
        /\ \A d \in Cycle \ {c} : cycles[d].pc \notin Inside
    BY DEF IInv, LockInForce
  <1>2. \A d \in Cycle : cycles[d].pc # "unlink" => cycles[d].opened = "nothing"
    BY DEF IInv, TypedInv, Typed, At
  <1> QED
    BY <1>1, <1>2 DEF Inside, Removing

(* At least one cycle at a time is too weak to be inductive; the lock in   *)
(* force gives it.                                                         *)
LEMMA LockExcludes == IInv => OneCycleInside
  BY DEF IInv, LockInForce, OneCycleInside

(* The step of the cycle that is inside: the others stay where they are.   *)
LEMMA StepInside ==
    ASSUME IInv, TypedInv', NEW c \in Cycle, cycles[c].pc \in Inside,
           \A d \in Cycle \ {c} : cycles'[d] = cycles[d],
           cycles'[c].opened # "destination",
           cycles'[c].pc \in Inside => lock' = lock,
           cycles'[c].pc \in Writing =>
               /\ staging'.exists
               /\ \A f \in File :
                     staging'.files[f] = IF \/ f = "manifest" /\ cycles'[c].pc # "manifest"
                                            \/ f = "report" /\ cycles'[c].pc = "publish"
                                         THEN c ELSE Nobody,
           PublishedIsComplete'
    PROVE  IInv'
  <1>1. LockInForce'
    BY AloneInside DEF LockInForce
  <1>2. NeverMoved'
    BY DEF IInv, NeverMoved
  <1>3. StagingIsIsolated'
    BY AloneInside DEF StagingIsIsolated, At, Inside
  <1> QED
    BY <1>1, <1>2, <1>3 DEF IInv

(* A cycle that goes from one place outside to another changes nothing     *)
(* the invariant speaks of.                                                *)
LEMMA StepOutside ==
    ASSUME IInv, TypedInv', NEW c \in Cycle,
           \A d \in Cycle \ {c} : cycles'[d] = cycles[d],
           cycles'[c].opened # "destination", cycles'[c].pc \notin Inside,
           UNCHANGED <<lock, staging, destination>>
    PROVE  IInv'
  <1>1. LockInForce' /\ NeverMoved'
    BY DEF IInv, LockInForce, NeverMoved
  <1>2. StagingIsIsolated'
    BY DEF IInv, StagingIsIsolated, At, Inside
  <1>3. PublishedIsComplete'
    BY DEF IInv, PublishedIsComplete
  <1> QED
    BY <1>1, <1>2, <1>3 DEF IInv

(* A complete output directory is not empty, so nothing replaces it.       *)
LEMMA CompleteIsHeld ==
    ASSUME IInv, destination.exists
    PROVE  Held(destination) = File
  BY CycleAssumption DEF IInv, PublishedIsComplete, Held

(* Init satisfies the invariant: nobody is inside.                         *)
LEMMA InitInv == Init => IInv
  BY InitTyped DEF Init, IInv, LockInForce, NeverMoved, StagingIsIsolated,
                   PublishedIsComplete, Missing, Inside, Writing, Removing

(* Without overruns every step keeps the invariant.                        *)
LEMMA StepKeepsInv ==
    ASSUME ~Overruns
    PROVE  IInv /\ [Next]_vars => IInv'
  <1> SUFFICES ASSUME IInv, [Next]_vars PROVE IInv'
    OBVIOUS
  <1>a. TypedInv'
    BY StepKeepsTyped DEF IInv
  <1>b. /\ cycles \in [Cycle -> CycleState]
        /\ \A c \in Cycle : cycles[c].opened # "destination"
        /\ \A c \in Cycle : cycles[c].opened # "nothing" <=> cycles[c].pc = "unlink"
        /\ lock.owner \in Cycle \cup {Nobody} /\ lock.expires_in \in Int
        /\ DOMAIN staging = {"exists", "files"} /\ staging = [staging EXCEPT !.files = @]
        /\ DOMAIN staging.files = File
    BY CycleAssumption DEF IInv, TypedInv, Typed, NeverMoved, At, DirectoryOK, Directory
  <1>c. PublishedIsComplete /\ StagingIsIsolated
    BY DEF IInv
  <1>d. ASSUME NEW c \in Cycle, NEW place \in Place, GoTo(c, place)
        PROVE  /\ \A d \in Cycle \ {c} : cycles'[d] = cycles[d]
               /\ cycles'[c].pc = place /\ cycles'[c].opened = cycles[c].opened
    BY <1>b, <1>d DEF GoTo, CycleState
  <1>1. ASSUME NEW c \in Cycle, Check(c) PROVE IInv'
    <2>1. PICK place \in {"refused", "acquire"} : GoTo(c, place)
      BY <1>1 DEF Check
    <2>2. place \in Place \ Inside
      BY DEF Place, Ended, Inside, Writing, Removing
    <2> QED
      BY <1>a, <1>b, <1>d, <1>1, <2>1, <2>2, StepOutside DEF Check
  <1>2. ASSUME NEW c \in Cycle, NEW lag \in 0..MaxLag, Acquire(c, lag) PROVE IInv'
    <2>1. \A d \in Cycle : cycles[d].pc \notin Inside
      <3> SUFFICES ASSUME NEW d \in Cycle, cycles[d].pc \in Inside PROVE FALSE
        OBVIOUS
      <3>1. lock.owner = d /\ lock.expires_in >= 1
        BY AloneInside
      <3>2. d # c
        BY <1>2 DEF Acquire, At, Inside, Writing, Removing
      <3> QED
        BY <1>2, <3>1, <3>2, <1>b, CycleAssumption DEF Acquire, HeldByOther
    <2>2. /\ \A d \in Cycle \ {c} : cycles'[d] = cycles[d]
          /\ cycles'[c].pc = "drive" /\ cycles'[c].opened = cycles[c].opened
      BY <1>d, <1>2 DEF Acquire, Place, Inside
    <2>3. lock'.owner = c /\ lock'.expires_in >= 1
      BY <1>2, CycleAssumption DEF Acquire
    <2>4. LockInForce' /\ NeverMoved'
      BY <1>b, <2>1, <2>2, <2>3 DEF LockInForce, NeverMoved
    <2>5. StagingIsIsolated'
      BY <1>2, <2>1, <2>2 DEF StagingIsIsolated, Writing, Inside
    <2>6. PublishedIsComplete'
      BY <1>2, <1>c DEF Acquire, PublishedIsComplete
    <2> QED
      BY <1>a, <2>4, <2>5, <2>6 DEF IInv
  <1>3. ASSUME NEW c \in Cycle, NEW lag \in 0..MaxLag, AcquireRefused(c, lag)
        PROVE  IInv'
    <2>1. "refused" \in Place \ Inside
      BY DEF Place, Ended, Inside, Writing, Removing
    <2> QED
      BY <1>a, <1>b, <1>d, <1>3, <2>1, StepOutside DEF AcquireRefused
  <1>4. ASSUME NEW c \in Cycle, Drive(c) PROVE IInv'
    <2>1. /\ cycles[c].pc \in Inside /\ "mkdir" \in Place /\ "mkdir" \notin Writing
      BY <1>4 DEF Drive, At, Place, Inside, Writing
    <2>2. PublishedIsComplete'
      BY <1>4, <1>c DEF Drive, PublishedIsComplete
    <2> QED
      BY <1>a, <1>b, <1>d, <1>4, <2>1, <2>2, StepInside DEF Drive
  <1>5. ASSUME NEW c \in Cycle, MakeStaging(c) PROVE IInv'
    <2>1. /\ cycles[c].pc \in Inside /\ "manifest" \in Place
      BY <1>5 DEF MakeStaging, At, Place, Inside, Writing
    <2>2. PublishedIsComplete'
      BY <1>5, <1>c DEF MakeStaging, PublishedIsComplete
    <2>3. staging'.exists /\ \A f \in File : staging'.files[f] = Nobody
      BY <1>5 DEF MakeStaging, Empty
    <2> QED
      BY <1>a, <1>b, <1>d, <1>5, <2>1, <2>2, <2>3, StepInside DEF MakeStaging
  <1>6. ASSUME NEW c \in Cycle, WriteFile(c, "manifest", "report") PROVE IInv'
    <2>1. /\ cycles[c].pc = "manifest" /\ "manifest" \in Inside \cap Writing
          /\ "report" \in Place
      BY <1>6 DEF WriteFile, At, Place, Inside, Writing
    <2>2. PublishedIsComplete'
      BY <1>6, <1>c DEF WriteFile, PublishedIsComplete
    <2>3. /\ staging'.exists
          /\ \A f \in File : staging'.files[f] = IF f = "manifest" THEN c ELSE Nobody
      BY <1>6, <1>b, <1>c, <2>1 DEF WriteFile, StagingIsIsolated, At
    <2> QED
      BY <1>a, <1>b, <1>d, <1>6, <2>1, <2>2, <2>3, StepInside DEF WriteFile
  <1>7. ASSUME NEW c \in Cycle, WriteFile(c, "report", "publish") PROVE IInv'
    <2>1. /\ cycles[c].pc = "report" /\ "report" \in Inside \cap Writing
          /\ "publish" \in Place
      BY <1>7 DEF WriteFile, At, Place, Inside, Writing
    <2>2. PublishedIsComplete'
      BY <1>7, <1>c DEF WriteFile, PublishedIsComplete
    <2>3. staging'.exists /\ \A f \in File : staging'.files[f] = c
      BY <1>7, <1>b, <1>c, <2>1 DEF WriteFile, StagingIsIsolated, At, File
    <2> QED
      BY <1>a, <1>b, <1>d, <1>7, <2>1, <2>2, <2>3, StepInside DEF WriteFile, File
  <1>8. ASSUME NEW c \in Cycle, Publish(c) PROVE IInv'
    <2>1. /\ cycles[c].pc = "publish" /\ "publish" \in Inside \cap Writing
          /\ "release" \notin Writing
      BY <1>8 DEF Publish, At, Inside, Writing
    <2>2. /\ \A d \in Cycle \ {c} : cycles'[d] = cycles[d]
          /\ cycles'[c].pc = "release" /\ cycles'[c].opened = cycles[c].opened
      <3>1. \A d \in Cycle \ {c} : cycles[d].opened = "nothing"
        BY <2>1, AloneInside
      <3> QED
        BY <1>8, <1>b, <3>1 DEF Publish, Published, CycleState
    <2>3. PublishedIsComplete'
      <3>1. \A f \in File : staging.files[f] = c
        BY <1>c, <2>1 DEF StagingIsIsolated, At, File
      <3> QED
        BY <1>8, <3>1 DEF Publish, PublishedIsComplete
    <2> QED
      BY <1>a, <1>b, <1>8, <2>1, <2>2, <2>3, StepInside DEF Publish
  <1>9. ASSUME NEW c \in Cycle, Raise(c) PROVE IInv'
    <2>1. /\ cycles[c].pc \in Inside /\ "list" \in Place /\ "list" \notin Writing
      BY <1>9 DEF Raise, Place, Inside, Writing, Removing
    <2>2. PublishedIsComplete'
      BY <1>9, <1>c DEF Raise, PublishedIsComplete
    <2> QED
      BY <1>a, <1>b, <1>d, <1>9, <2>1, <2>2, StepInside DEF Raise
  <1>10. ASSUME NEW c \in Cycle, ListStaging(c) PROVE IInv'
    <2>1. /\ cycles[c].pc \in Inside
          /\ "unlink" \notin Writing /\ "release" \notin Writing
      BY <1>10 DEF ListStaging, At, Inside, Writing, Removing
    <2>2. PublishedIsComplete'
      BY <1>10, <1>c DEF ListStaging, PublishedIsComplete
    <2>3. /\ \A d \in Cycle \ {c} : cycles'[d] = cycles[d]
          /\ cycles'[c].pc \in {"unlink", "release"}
          /\ cycles'[c].opened # "destination"
      BY <1>10, <1>b DEF ListStaging, CycleState
    <2> QED
      BY <1>a, <1>10, <2>1, <2>2, <2>3, StepInside DEF ListStaging
  <1>11. ASSUME NEW c \in Cycle, NEW f \in File, Unlink(c, f) PROVE IInv'
    <2>1. /\ cycles[c].pc = "unlink" /\ "unlink" \in Inside /\ "unlink" \notin Writing
      BY <1>11 DEF Unlink, At, Inside, Writing, Removing
    <2>2. PublishedIsComplete'
      BY <1>11, <1>b, <1>c DEF Unlink, PublishedIsComplete
    <2>3. /\ \A d \in Cycle \ {c} : cycles'[d] = cycles[d]
          /\ cycles'[c].pc = "unlink" /\ cycles'[c].opened = cycles[c].opened
      BY <1>11, <1>b, <2>1 DEF Unlink, CycleState
    <2> QED
      BY <1>a, <1>b, <1>11, <2>1, <2>2, <2>3, StepInside DEF Unlink
  <1>12. ASSUME NEW c \in Cycle, RemoveStaging(c) PROVE IInv'
    <2>1. /\ cycles[c].pc \in Inside /\ "release" \notin Writing
      BY <1>12 DEF RemoveStaging, At, Inside, Writing, Removing
    <2>2. PublishedIsComplete'
      BY <1>12, <1>c DEF RemoveStaging, PublishedIsComplete
    <2>3. /\ \A d \in Cycle \ {c} : cycles'[d] = cycles[d]
          /\ cycles'[c].pc = "release" /\ cycles'[c].opened = "nothing"
      BY <1>12, <1>b DEF RemoveStaging, CycleState
    <2> QED
      BY <1>a, <1>12, <2>1, <2>2, <2>3, StepInside DEF RemoveStaging
  <1>13. ASSUME NEW c \in Cycle, Release(c) PROVE IInv'
    <2>1. /\ cycles[c].pc \in Inside
          /\ "ended" \in Place /\ "ended" \notin Inside \cup Writing
      BY <1>13 DEF Release, At, Place, Ended, Inside, Writing, Removing
    <2>2. PublishedIsComplete'
      BY <1>13, <1>c DEF Release, PublishedIsComplete
    <2> QED
      BY <1>a, <1>b, <1>d, <1>13, <2>1, <2>2, StepInside DEF Release
  <1>14. ASSUME NEW c \in Cycle, Crash(c) PROVE IInv'
    <2>1. /\ \A d \in Cycle \ {c} : cycles'[d] = cycles[d]
          /\ cycles'[c].pc = "dead" /\ cycles'[c].opened = "nothing"
      BY <1>14, <1>b DEF Crash
    <2>2. "dead" \notin Inside
      BY DEF Inside, Writing, Removing
    <2> QED
      BY <1>a, <1>14, <2>1, <2>2, StepOutside DEF Crash
  <1>15. CASE Tick
    <2>1. lock'.owner = lock.owner /\ lock'.expires_in = lock.expires_in - 1
      BY <1>15 DEF Tick, IInv, TypedInv, Typed
    <2>2. LockInForce'
      <3> SUFFICES ASSUME NEW c \in Cycle, cycles[c].pc \in Inside
                   PROVE  lock'.owner = c /\ lock'.expires_in >= 1
        BY <1>15 DEF Tick, LockInForce
      <3>1. lock.owner = c
        BY AloneInside
      <3>2. lock.expires_in > 1
        BY <1>15, <3>1 DEF Tick
      <3> QED
        BY <1>b, <2>1, <3>1, <3>2
    <2>3. NeverMoved' /\ StagingIsIsolated' /\ PublishedIsComplete'
      BY <1>b, <1>c, <1>15 DEF Tick, NeverMoved, StagingIsIsolated, At, PublishedIsComplete
    <2> QED
      BY <1>a, <2>2, <2>3 DEF IInv
  <1>16. CASE UNCHANGED vars
    BY <1>a, <1>16 DEF vars, IInv, LockInForce, NeverMoved, StagingIsIsolated, At,
                       PublishedIsComplete
  <1> QED
    BY <1>1, <1>2, <1>3, <1>4, <1>5, <1>6, <1>7, <1>8, <1>9, <1>10, <1>11, <1>12,
       <1>13, <1>14, <1>15, <1>16 DEF Next, CycleStep

(* When every cycle is done with its lock before the lock expires, the     *)
(* invariant holds in every behaviour.                                     *)
THEOREM ExclusionInvariant ==
    ASSUME ~Overruns
    PROVE  Spec => []IInv
  BY InitInv, StepKeepsInv, PTL DEF Spec

(* Cycles that end within the TTL of their lock exclude each other, for    *)
(* any number of them, any lag of their timestamps and any crashes.        *)
THEOREM CyclesExclude ==
    ASSUME ~Overruns
    PROVE  Spec => []OneCycleInside
  BY ExclusionInvariant, LockExcludes, PTL

(* Then a cycle finds in its staging directory what it wrote itself.       *)
THEOREM StagingIsOwn ==
    ASSUME ~Overruns
    PROVE  Spec => []StagingIsIsolated
  <1>1. IInv => StagingIsIsolated
    BY DEF IInv
  <1> QED
    BY <1>1, ExclusionInvariant, PTL

(* Then an output directory holds the whole result of one cycle.           *)
THEOREM OutputIsComplete ==
    ASSUME ~Overruns
    PROVE  Spec => []PublishedIsComplete
  <1>1. IInv => PublishedIsComplete
    BY DEF IInv
  <1> QED
    BY <1>1, ExclusionInvariant, PTL

(* Then a published output directory is never changed again: renaming onto *)
(* it fails because it is not empty, and no cleanup has it open.           *)
THEOREM OutputStays ==
    ASSUME ~Overruns
    PROVE  Spec => DestinationIsFinal
  <1>1. IInv /\ [Next]_vars => [destination.exists => destination' = destination]_vars
    <2> SUFFICES ASSUME IInv, [Next]_vars, destination.exists
                 PROVE  destination' = destination
      OBVIOUS
    <2>1. \A c \in Cycle : ~Publish(c)
      BY CompleteIsHeld DEF Publish, File
    <2>2. \A c \in Cycle, f \in File : Unlink(c, f) => destination' = destination
      BY DEF IInv, NeverMoved, Unlink
    <2> QED
      BY <2>1, <2>2 DEF Next, CycleStep, Check, Acquire, AcquireRefused, Drive,
         MakeStaging, WriteFile, Raise, ListStaging, RemoveStaging, Release, Crash,
         Tick, vars
  <1> QED
    BY <1>1, ExclusionInvariant, PTL DEF Spec, DestinationIsFinal
=============================================================================
