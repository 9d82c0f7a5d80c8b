------------------------------ MODULE FileLock ------------------------------
(***************************************************************************)
(* The cross-process lock of the config package: an advisory lock on a     *)
(* file that its holder unlinks before releasing it.  A waiter may thus    *)
(* win the lock of a file that is no longer at the path, so it compares    *)
(* the file it locked with the one at the path and starts again when they  *)
(* differ.  The number of a file is free again as soon as nobody has it    *)
(* open and no name leads to it.                                           *)
(***************************************************************************)
EXTENDS Naturals, TLAPS

CONSTANTS Procs,       \* goroutines and processes that lock the same path
          Inodes,      \* file numbers
          Nobody, Gone

ASSUME FileLockAssumption == Nobody \notin Procs /\ Gone \notin Inodes

VARIABLES path,        \* the file the path leads to, or Gone
          fd,          \* fd[p]: the file p has open, or Gone
          flock,       \* flock[i]: the process holding the advisory lock of i
          pc

vars == <<path, fd, flock, pc>>

TypeOK ==
  /\ path \in Inodes \cup {Gone}
  /\ fd \in [Procs -> Inodes \cup {Gone}]
  /\ flock \in [Inodes -> Procs \cup {Nobody}]
  /\ pc \in [Procs -> {"idle", "open", "opened", "flocked", "locked", "removed"}]

Init ==
  /\ path = Gone
  /\ fd = [p \in Procs |-> Gone]
  /\ flock = [i \in Inodes |-> Nobody]
  /\ pc = [p \in Procs |-> "idle"]

\* What closing the descriptor of p, or the end of p, does to the locks.
Released(p) == [i \in Inodes |-> IF flock[i] = p THEN Nobody ELSE flock[i]]

Start(p) ==
  /\ pc[p] = "idle"
  /\ pc' = [pc EXCEPT ![p] = "open"]
  /\ UNCHANGED <<path, fd, flock>>

\* os.OpenFile(path, O_CREATE|O_RDWR): the file at the path, or a new one.
Open(p) ==
  /\ pc[p] = "open"
  /\ \E i \in Inodes :
       /\ path # Gone => i = path
       /\ path = Gone => \A q \in Procs : fd[q] # i
       /\ path' = i
       /\ fd' = [fd EXCEPT ![p] = i]
  /\ pc' = [pc EXCEPT ![p] = "opened"]
  /\ UNCHANGED flock

\* Flock(LOCK_EX) returns once nobody holds the file.
Flock(p) ==
  /\ pc[p] = "opened"
  /\ flock[fd[p]] = Nobody
  /\ flock' = [flock EXCEPT ![fd[p]] = p]
  /\ pc' = [pc EXCEPT ![p] = "flocked"]
  /\ UNCHANGED <<path, fd>>

\* SameFile, not looked at.
AnyFile(p) == TRUE

\* os.SameFile of the locked file and of the one at the path now.
SameFile(p) == path = fd[p]

Stat(p) ==
  /\ pc[p] = "flocked"
  /\ \/ /\ SameFile(p)
        /\ pc' = [pc EXCEPT ![p] = "locked"]
        /\ UNCHANGED <<fd, flock>>
     \/ /\ ~SameFile(p)
        /\ flock' = Released(p)
        /\ fd' = [fd EXCEPT ![p] = Gone]
        /\ pc' = [pc EXCEPT ![p] = "open"]
  /\ UNCHANGED path

\* Any error of LockFile closes the file and returns.
LockFails(p) ==
  /\ pc[p] \in {"open", "opened", "flocked"}
  /\ flock' = Released(p)
  /\ fd' = [fd EXCEPT ![p] = Gone]
  /\ pc' = [pc EXCEPT ![p] = "idle"]
  /\ UNCHANGED path

\* Unlock removes the path first; a failed removal is ignored.
Remove(p) ==
  /\ pc[p] = "locked"
  /\ path' \in {path, Gone}
  /\ pc' = [pc EXCEPT ![p] = "removed"]
  /\ UNCHANGED <<fd, flock>>

Unlock(p) ==
  /\ pc[p] = "removed"
  /\ flock' = Released(p)
  /\ fd' = [fd EXCEPT ![p] = Gone]
  /\ pc' = [pc EXCEPT ![p] = "idle"]
  /\ UNCHANGED path

\* The process dies: the kernel closes its files, the path stays.
Crash(p) ==
  /\ pc[p] \in {"locked", "removed"}
  /\ flock' = Released(p)
  /\ fd' = [fd EXCEPT ![p] = Gone]
  /\ pc' = [pc EXCEPT ![p] = "idle"]
  /\ UNCHANGED path

\* The same steps on Windows, with LockFileEx for Flock.
Step(p) ==
  \/ Start(p) \/ Open(p) \/ Flock(p) \/ Stat(p) \/ LockFails(p)
  \/ Remove(p) \/ Unlock(p) \/ Crash(p)

Next == \E p \in Procs : Step(p)

Spec == Init /\ [][Next]_vars

(***************************************************************************)
(* Properties.                                                             *)
(***************************************************************************)
\* A process has the advisory lock of the file it has open exactly between
\* winning it and closing it, and of no other file.
FlockMatches ==
  \A p \in Procs, i \in Inodes :
    flock[i] = p <=> pc[p] \in {"flocked", "locked", "removed"} /\ fd[p] = i

\* While a process works under the lock the path leads to the file it locked:
\* nobody else unlinks it or puts another one there.
HolderOwnsPath == \A p \in Procs : pc[p] = "locked" => path = fd[p] /\ path # Gone

\* Whatever is open stays in use: a new lock file never takes its number.
OpenIsKnown == \A p \in Procs : pc[p] \in {"opened", "flocked", "locked", "removed"} <=> fd[p] # Gone

\* Two processes are never between LockFile and Unlock together.
MutualExclusion ==
  \A p, q \in Procs : pc[p] = "locked" /\ pc[q] = "locked" => p = q

LockInv == FlockMatches /\ HolderOwnsPath /\ OpenIsKnown /\ MutualExclusion

owner == IF \E p \in Procs : pc[p] = "locked"
         THEN CHOOSE p \in Procs : pc[p] = "locked" ELSE Nobody

M == INSTANCE Mutex

\* The lock file behaves as a mutex, whatever the interleaving of unlinking,
\* recreating, waiting on a stale file and dying.
IsMutex == M!Spec

-----------------------------------------------------------------------------
(* The lock file is a mutex for every set of processes and file numbers.   *)

IInv == TypeOK /\ FlockMatches /\ HolderOwnsPath /\ OpenIsKnown

\* Two holders have the file at the path open, and its advisory lock has one
\* holder.
LEMMA HoldersAgree == ASSUME IInv PROVE MutualExclusion
<1>1. SUFFICES ASSUME NEW p \in Procs, NEW q \in Procs,
                      pc[p] = "locked", pc[q] = "locked"
               PROVE  p = q
  BY DEF MutualExclusion
<1>2. path = fd[p] /\ path = fd[q] /\ path \in Inodes
  BY <1>1 DEF IInv, HolderOwnsPath, TypeOK
<1>3. flock[path] = p /\ flock[path] = q
  BY <1>1, <1>2 DEF IInv, FlockMatches
<1> QED BY <1>3

LEMMA InitIInv == Init => IInv
BY FileLockAssumption
   DEF Init, IInv, TypeOK, FlockMatches, HolderOwnsPath, OpenIsKnown

LEMMA StepIInv == IInv /\ [Next]_vars => IInv'
<1> USE FileLockAssumption
<1>1. SUFFICES ASSUME IInv, [Next]_vars PROVE IInv' OBVIOUS
<1>a. TypeOK /\ FlockMatches /\ HolderOwnsPath /\ OpenIsKnown BY <1>1 DEF IInv
<1>m. MutualExclusion BY <1>1, HoldersAgree
<1>2. CASE UNCHANGED vars
  BY <1>a, <1>2
     DEF IInv, vars, TypeOK, FlockMatches, HolderOwnsPath, OpenIsKnown
<1>3. ASSUME NEW p \in Procs, Start(p) PROVE IInv'
  BY <1>a, <1>3
     DEF Start, IInv, TypeOK, FlockMatches, HolderOwnsPath, OpenIsKnown
<1>4. ASSUME NEW p \in Procs, Open(p) PROVE IInv'
  <2>1. PICK i \in Inodes :
          /\ path # Gone => i = path
          /\ path = Gone => \A q \in Procs : fd[q] # i
          /\ path' = i
          /\ fd' = [fd EXCEPT ![p] = i]
    BY <1>4 DEF Open
  <2>2. pc[p] = "open" /\ pc' = [pc EXCEPT ![p] = "opened"] /\ flock' = flock
    BY <1>4 DEF Open
  <2>3. TypeOK' BY <1>a, <2>1, <2>2 DEF TypeOK
  <2>4. HolderOwnsPath' BY <1>a, <2>1, <2>2 DEF TypeOK, HolderOwnsPath
  <2>5. OpenIsKnown' BY <1>a, <2>1, <2>2 DEF TypeOK, OpenIsKnown
  <2>6. FlockMatches' BY <1>a, <2>1, <2>2 DEF TypeOK, FlockMatches
  <2> QED BY <2>3, <2>4, <2>5, <2>6 DEF IInv
<1>5. ASSUME NEW p \in Procs, Flock(p) PROVE IInv'
  <2>1. fd[p] \in Inodes BY <1>a, <1>5 DEF Flock, TypeOK, OpenIsKnown
  <2>2. TypeOK' BY <1>a, <1>5, <2>1 DEF Flock, TypeOK
  <2>3. HolderOwnsPath' BY <1>a, <1>5, <2>1 DEF Flock, TypeOK, HolderOwnsPath
  <2>4. OpenIsKnown' BY <1>a, <1>5, <2>1 DEF Flock, TypeOK, OpenIsKnown
  <2>5. FlockMatches' BY <1>a, <1>5, <2>1 DEF Flock, TypeOK, FlockMatches
  <2> QED BY <2>2, <2>3, <2>4, <2>5 DEF IInv
<1>6. ASSUME NEW p \in Procs, SameFile(p), pc[p] = "flocked",
             pc' = [pc EXCEPT ![p] = "locked"], UNCHANGED <<path, fd, flock>>
      PROVE  IInv'
  BY <1>a, <1>6
     DEF SameFile, IInv, TypeOK, FlockMatches, HolderOwnsPath, OpenIsKnown
<1>7. ASSUME NEW p \in Procs, NEW next \in {"idle", "open"},
             flock' = Released(p), fd' = [fd EXCEPT ![p] = Gone],
             pc' = [pc EXCEPT ![p] = next], UNCHANGED path
      PROVE  IInv'
  <2>1. TypeOK' BY <1>a, <1>7 DEF Released, TypeOK
  <2>2. HolderOwnsPath' BY <1>a, <1>7 DEF TypeOK, HolderOwnsPath
  <2>3. OpenIsKnown' BY <1>a, <1>7 DEF TypeOK, OpenIsKnown
  <2>4. FlockMatches' BY <1>a, <1>7 DEF Released, TypeOK, FlockMatches
  <2> QED BY <2>1, <2>2, <2>3, <2>4 DEF IInv
<1>8. ASSUME NEW p \in Procs, Remove(p) PROVE IInv'
  <2>1. TypeOK' BY <1>a, <1>8 DEF Remove, TypeOK
  <2>2. HolderOwnsPath'
    BY <1>a, <1>m, <1>8 DEF Remove, TypeOK, HolderOwnsPath, MutualExclusion
  <2>3. OpenIsKnown' BY <1>a, <1>8 DEF Remove, TypeOK, OpenIsKnown
  <2>4. FlockMatches' BY <1>a, <1>8 DEF Remove, TypeOK, FlockMatches
  <2> QED BY <2>1, <2>2, <2>3, <2>4 DEF IInv
<1>9. ASSUME NEW p \in Procs, Stat(p) PROVE IInv'
  BY <1>6, <1>7, <1>9 DEF Stat
<1>10. ASSUME NEW p \in Procs, LockFails(p) \/ Unlock(p) \/ Crash(p) PROVE IInv'
  BY <1>7, <1>10 DEF LockFails, Unlock, Crash
<1> QED
  BY <1>1, <1>2, <1>3, <1>4, <1>5, <1>8, <1>9, <1>10 DEF Next, Step

\* Every reachable state satisfies the type invariant and the lock's
\* invariant: two processes are never between LockFile and Unlock together.
THEOREM LockSafe == Spec => [](TypeOK /\ LockInv)
<1>1. IInv => TypeOK /\ LockInv BY HoldersAgree DEF IInv, LockInv
<1> QED BY InitIInv, StepIInv, <1>1, PTL DEF Spec

\* Who owns the mutex, read off the program counters.
LEMMA OwnerIs ==
  ASSUME MutualExclusion, NEW p \in Procs, pc[p] = "locked" PROVE owner = p
BY DEF MutualExclusion, owner

\* Initial states and steps of the lock file are those of the mutex.
THEOREM LockRefines == Spec => IsMutex
<1> USE FileLockAssumption
<1>1. Init => M!Init BY DEF Init, M!Init, owner
<1>2. ASSUME IInv, IInv', [Next]_vars PROVE [M!Next]_owner
  <2>m. MutualExclusion /\ MutualExclusion'
    <3>1. MutualExclusion BY <1>2, HoldersAgree
    <3>2. IInv' => MutualExclusion' BY HoldersAgree, PTL
    <3> QED BY <1>2, <3>1, <3>2
  <2>t. TypeOK BY <1>2 DEF IInv
  <2>1. CASE pc' = pc BY <2>1 DEF owner
  <2>2. ASSUME NEW p \in Procs, NEW next, pc' = [pc EXCEPT ![p] = next],
               next # "locked", pc[p] # "locked"
        PROVE  owner' = owner
    <3>1. \A q \in Procs : pc'[q] = "locked" <=> pc[q] = "locked"
      BY <2>t, <2>2 DEF TypeOK
    <3> QED BY <3>1 DEF owner
  <2>3. ASSUME NEW p \in Procs, NEW next, pc' = [pc EXCEPT ![p] = next],
               next # "locked", pc[p] = "locked"
        PROVE  M!Leave(p)
    <3>1. owner = p BY <2>m, <2>3, OwnerIs
    <3>2. \A q \in Procs : pc'[q] # "locked"
      BY <2>t, <2>m, <2>3 DEF TypeOK, MutualExclusion
    <3>3. owner' = Nobody BY <3>2 DEF owner
    <3> QED BY <3>1, <3>3 DEF M!Leave
  <2>4. ASSUME NEW p \in Procs, pc' = [pc EXCEPT ![p] = "locked"],
               pc[p] = "flocked"
        PROVE  M!Enter(p)
    <3>1. pc'[p] = "locked" BY <2>t, <2>4 DEF TypeOK
    <3>2. \A q \in Procs : pc[q] # "locked"
      BY <2>t, <2>m, <2>4, <3>1 DEF TypeOK, MutualExclusion
    <3>3. owner = Nobody BY <3>2 DEF owner
    <3>4. owner' = p BY <2>m, <3>1 DEF MutualExclusion, owner
    <3> QED BY <3>3, <3>4 DEF M!Enter
  <2>5. CASE UNCHANGED vars BY <2>1, <2>5 DEF vars
  <2>6. ASSUME NEW p \in Procs, Step(p) PROVE [M!Next]_owner
    <3>1. ASSUME NEW next, pc' = [pc EXCEPT ![p] = next], next # "locked"
          PROVE  [M!Next]_owner
      BY <3>1, <2>2, <2>3 DEF M!Next
    <3>2. CASE pc' = [pc EXCEPT ![p] = "locked"] /\ pc[p] = "flocked"
      BY <3>2, <2>4 DEF M!Next
    <3> QED
      BY <2>6, <3>1, <3>2
         DEF Step, Start, Open, Flock, Stat, LockFails, Remove, Unlock, Crash
  <2> QED BY <1>2, <2>5, <2>6 DEF Next
<1> QED BY InitIInv, StepIInv, <1>1, <1>2, PTL DEF Spec, IsMutex, M!Spec
=============================================================================
