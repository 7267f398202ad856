----------------------------- MODULE FlockProofs -----------------------------
(***************************************************************************)
(* Proofs about the file lock, for any number of callers and inodes.       *)
(*                                                                         *)
(* LockInv ties a caller's program point to its flock and its heartbeat    *)
(* and states the exclusion that flock(2) gives per inode.  Fresh bounds   *)
(* the age of a file by the time since its holder's last truncate; it is   *)
(* inductive when heartbeats are scheduled in time and truncates succeed.  *)
(***************************************************************************)
EXTENDS Flock, TLAPS

\* Program points at which a caller has a flock on its descriptor.
Locked == {"truncate", "verify", "drop", "held", "unlock"}

LockInv ==
  /\ \A p \in Proc : pc[p] \in Locked => lock[p] = mode[p]
  /\ \A p \in Proc : pc[p] \notin Locked => lock[p] = "none"
  /\ \A p \in Proc : pc[p] \notin UsesFile => fd[p] = NoInode
  /\ \A p \in Proc : hb[p] # "off" => pc[p] \in {"held", "unlock"}
  /\ \A p, q \in Proc :
       p # q /\ fd[p] = fd[q] /\ lock[p] # "none" /\ lock[q] # "none" =>
         lock[p] = "sh" /\ lock[q] = "sh"

Timely == "starve" \notin Faults /\ "truncate" \notin Faults

Fresh ==
  \A p \in Proc :
    /\ pc[p] = "verify" => age[fd[p]] <= beat[p]
    /\ pc[p] = "held" => age[fd[p]] <= HeartbeatInterval + beat[p] /\ hb[p] # "off"

USE ConstantsAssumption

-----------------------------------------------------------------------------
\* Every action of the lock keeps the types, and a caller that works on its
\* descriptor has opened it.
LEMMA TypeStep == TypeOK /\ [Next]_vars => TypeOK'
<1> USE DEF TypeOK, PC, UsesFile, Goto, AttemptFailed, CloseFile, Unflock
<1> SUFFICES ASSUME TypeOK, [Next]_vars PROVE TypeOK'
  OBVIOUS
<1>1. ASSUME NEW p \in Proc, NEW m \in Modes, TryLock(p, m) PROVE TypeOK'
  BY <1>1 DEF TryLock
<1>2. ASSUME NEW p \in Proc, OpenFile(p) PROVE TypeOK'
  BY <1>2 DEF OpenFile, FreeInode
<1>3. ASSUME NEW p \in Proc, LockFile(p) PROVE TypeOK'
  BY <1>3 DEF LockFile
<1>4. ASSUME NEW p \in Proc, TruncateFile(p) PROVE TypeOK'
  BY <1>4 DEF TruncateFile, Truncated
<1>5. ASSUME NEW p \in Proc, VerifyLock(p) PROVE TypeOK'
  BY <1>5 DEF VerifyLock
<1>6. ASSUME NEW p \in Proc, DropLock(p) PROVE TypeOK'
  BY <1>6 DEF DropLock
<1>7. ASSUME NEW p \in Proc, CheckContext(p) \/ Backoff(p) \/ Retry(p) \/ GiveUp(p)
                             \/ OpenFileFails(p) \/ Cancel(p)
      PROVE TypeOK'
  BY <1>7 DEF CheckContext, Backoff, Retry, GiveUp, OpenFileFails, Cancel
<1>8. ASSUME NEW p \in Proc, StatLockFile(p) PROVE TypeOK'
  <2>1. first' \in [Proc -> BOOLEAN]
    BY <1>8 DEF StatLockFile
  <2>2. PICK l \in {"remove", "open", "idle"} : pc' = [pc EXCEPT ![p] = l]
    BY <1>8 DEF StatLockFile
  <2>3. UNCHANGED <<path, age, mode, ctx, fd, lock, hb, beat>>
    BY <1>8 DEF StatLockFile
  <2> QED
    BY <2>1, <2>2, <2>3
<1>9. ASSUME NEW p \in Proc, RemoveLockFile(p) PROVE TypeOK'
  BY <1>9 DEF RemoveLockFile
<1>10. ASSUME NEW p \in Proc, HeartbeatTick(p) \/ HeartbeatExit(p) \/ StopHeartbeat(p)
       PROVE TypeOK'
  BY <1>10 DEF HeartbeatTick, HeartbeatExit, StopHeartbeat
<1>11. ASSUME NEW p \in Proc, HeartbeatTruncate(p) PROVE TypeOK'
  BY <1>11 DEF HeartbeatTruncate, Truncated
<1>12. ASSUME NEW p \in Proc, UnlockFile(p) \/ Crash(p) PROVE TypeOK'
  BY <1>12 DEF UnlockFile, Crash
<1>13. ASSUME Tick PROVE TypeOK'
  BY <1>13 DEF Tick
<1>14. ASSUME UNCHANGED vars PROVE TypeOK'
  BY <1>14 DEF vars
<1> QED
  BY <1>1, <1>2, <1>3, <1>4, <1>5, <1>6, <1>7, <1>8, <1>9, <1>10, <1>11, <1>12,
     <1>13, <1>14 DEF Next, Acquire, Heartbeat, Release

\* TypeOK is an invariant of the lock.
THEOREM TypeCorrect == Spec => []TypeOK
<1>1. Init => TypeOK
  BY DEF Init, TypeOK, PC, UsesFile
<1> QED
  BY <1>1, TypeStep, PTL DEF Spec

-----------------------------------------------------------------------------
\* Every action keeps LockInv.  Only OpenFile, LockFile and the releases
\* touch a descriptor or a flock; LockFile takes a lock only if it is
\* compatible with the others on the inode.
LEMMA LockStep == TypeOK /\ LockInv /\ [Next]_vars => LockInv'
<1> USE DEF Goto, AttemptFailed, CloseFile, Unflock, Locked, UsesFile
<1> SUFFICES ASSUME TypeOK, LockInv, [Next]_vars PROVE LockInv'
  OBVIOUS
<1>1. ASSUME NEW p \in Proc, NEW m \in Modes, TryLock(p, m) PROVE LockInv'
  BY <1>1 DEF TryLock, LockInv, TypeOK
<1>2. ASSUME NEW p \in Proc, OpenFile(p) PROVE LockInv'
  BY <1>2 DEF OpenFile, FreeInode, LockInv, TypeOK
<1>3. ASSUME NEW p \in Proc, LockFile(p) PROVE LockInv'
  <2>1. CASE Compatible(p, fd[p], mode[p]) /\ lock' = [lock EXCEPT ![p] = mode[p]] /\ UNCHANGED fd
    BY <1>3, <2>1 DEF LockFile, Compatible, LockInv, TypeOK
  <2>2. CASE CloseFile(p) /\ AttemptFailed(p) /\ UNCHANGED lock
    BY <1>3, <2>2 DEF LockFile, LockInv, TypeOK
  <2> QED
    BY <1>3, <2>1, <2>2 DEF LockFile
<1>4. ASSUME NEW p \in Proc, TruncateFile(p) PROVE LockInv'
  BY <1>4 DEF TruncateFile, LockInv, TypeOK
<1>5. ASSUME NEW p \in Proc, VerifyLock(p) PROVE LockInv'
  BY <1>5 DEF VerifyLock, LockInv, TypeOK
<1>6. ASSUME NEW p \in Proc, DropLock(p) PROVE LockInv'
  BY <1>6 DEF DropLock, LockInv, TypeOK
<1>7. ASSUME NEW p \in Proc, CheckContext(p) \/ Backoff(p) \/ Retry(p) \/ GiveUp(p)
                             \/ OpenFileFails(p) \/ Cancel(p)
      PROVE LockInv'
  BY <1>7 DEF CheckContext, Backoff, Retry, GiveUp, OpenFileFails, Cancel, LockInv, TypeOK
<1>8. ASSUME NEW p \in Proc, StatLockFile(p) PROVE LockInv'
  <2>1. PICK l \in {"remove", "open", "idle"} : pc' = [pc EXCEPT ![p] = l]
    BY <1>8 DEF StatLockFile
  <2> QED
    BY <1>8, <2>1 DEF StatLockFile, LockInv, TypeOK
<1>9. ASSUME NEW p \in Proc, RemoveLockFile(p) PROVE LockInv'
  BY <1>9 DEF RemoveLockFile, LockInv, TypeOK
<1>10. ASSUME NEW p \in Proc, HeartbeatTick(p) \/ HeartbeatExit(p) \/ StopHeartbeat(p)
       PROVE LockInv'
  BY <1>10 DEF HeartbeatTick, HeartbeatExit, StopHeartbeat, LockInv, TypeOK
<1>11. ASSUME NEW p \in Proc, HeartbeatTruncate(p) PROVE LockInv'
  BY <1>11 DEF HeartbeatTruncate, LockInv, TypeOK
<1>12. ASSUME NEW p \in Proc, UnlockFile(p) PROVE LockInv'
  BY <1>12 DEF UnlockFile, LockInv, TypeOK
<1>13. ASSUME NEW p \in Proc, Crash(p) PROVE LockInv'
  BY <1>13 DEF Crash, LockInv, TypeOK
<1>14. ASSUME Tick PROVE LockInv'
  BY <1>14 DEF Tick, LockInv
<1>15. ASSUME UNCHANGED vars PROVE LockInv'
  BY <1>15 DEF vars, LockInv
<1> QED
  BY <1>1, <1>2, <1>3, <1>4, <1>5, <1>6, <1>7, <1>8, <1>9, <1>10, <1>11, <1>12,
     <1>13, <1>14, <1>15 DEF Next, Acquire, Heartbeat, Release

\* LockInv is an invariant of the lock.
THEOREM LockInvariant == Spec => []LockInv
<1>1. Init => LockInv
  BY DEF Init, LockInv, Locked, UsesFile
<1> QED
  BY <1>1, LockStep, TypeCorrect, PTL DEF Spec

\* Whichever step fails, a caller outside an attempt has given back its
\* descriptor, its flock and its heartbeat.
THEOREM LeakFreedom == Spec => []NothingLeaks
<1>1. TypeOK /\ LockInv => NothingLeaks
  BY DEF LockInv, NothingLeaks, Locked, UsesFile, TypeOK
<1> QED
  BY <1>1, TypeCorrect, LockInvariant, PTL

\* The heartbeat only ever works on an open, locked descriptor.
THEOREM HeartbeatSafety == Spec => []HeartbeatHasOpenFile
<1>1. TypeOK /\ LockInv => HeartbeatHasOpenFile
  BY DEF LockInv, HeartbeatHasOpenFile, Locked, UsesFile, TypeOK
<1> QED
  BY <1>1, TypeCorrect, LockInvariant, PTL

\* A caller becomes a holder only beside compatible holders of the file that
\* is at the lock-file path: VerifyLock is the only step that makes a holder,
\* it checks that the caller's inode is the path's, and on one inode flocks
\* exclude each other.
THEOREM GhostFreedom == Spec => NoGhostLock
<1>1. ASSUME TypeOK, LockInv, [Next]_vars, NEW p \in Proc, NEW q \in Proc,
             p # q, ~Holding(p), Holding(p)', Holding(q), fd[q] = path
      PROVE mode[p] = "sh" /\ mode[q] = "sh"
  <2>1. pc[p] # "held" /\ pc'[p] = "held" /\ pc[q] = "held"
    BY <1>1 DEF Holding
  <2>2. VerifyLock(p)
    BY <1>1, <2>1 DEF Next, Acquire, Heartbeat, Release, Goto, AttemptFailed, TryLock,
      OpenFile, LockFile, TruncateFile, VerifyLock, DropLock, CheckContext, StatLockFile,
      RemoveLockFile, Backoff, Retry, GiveUp, HeartbeatTick, HeartbeatTruncate,
      HeartbeatExit, StopHeartbeat, UnlockFile, OpenFileFails, Cancel, Crash, Tick, vars,
      TypeOK
  <2>3. pc[p] = "verify" /\ fd[p] = path
    BY <2>1, <2>2, <1>1 DEF VerifyLock, IsCurrentLockFile, Goto, TypeOK
  <2> QED
    BY <1>1, <2>1, <2>3 DEF LockInv, Locked, TypeOK
<1>2. TypeOK /\ LockInv /\ [Next]_vars =>
        [\A p, q \in Proc :
           p # q /\ ~Holding(p) /\ Holding(p)' /\ Holding(q) /\ fd[q] = path =>
             mode[p] = "sh" /\ mode[q] = "sh"]_vars
  BY <1>1
<1> QED
  BY <1>2, TypeCorrect, LockInvariant, PTL DEF Spec, NoGhostLock

-----------------------------------------------------------------------------
\* With heartbeats scheduled in time and truncates that succeed, a file is no
\* older than its holder's last truncate: acquireOnce refreshes it before the
\* inode check, which starts the heartbeat at most one interval later, and
\* the heartbeat refreshes it at most one interval after that.
LEMMA FreshStep == Timely /\ TypeOK /\ LockInv /\ Fresh /\ [Next]_vars => Fresh'
<1> USE DEF Goto, AttemptFailed, CloseFile, Unflock, Locked, UsesFile, Timely
<1> SUFFICES ASSUME Timely, TypeOK, LockInv, Fresh, [Next]_vars PROVE Fresh'
  OBVIOUS
<1>1. ASSUME NEW p \in Proc, NEW m \in Modes, TryLock(p, m) PROVE Fresh'
  BY <1>1 DEF TryLock, Fresh, TypeOK
<1>2. ASSUME NEW p \in Proc, OpenFile(p) PROVE Fresh'
  BY <1>2 DEF OpenFile, FreeInode, Fresh, TypeOK
<1>3. ASSUME NEW p \in Proc, LockFile(p) PROVE Fresh'
  BY <1>3 DEF LockFile, Fresh, TypeOK
<1>4. ASSUME NEW p \in Proc, TruncateFile(p) PROVE Fresh'
  BY <1>4 DEF TruncateFile, Truncated, Fresh, TypeOK, LockInv
<1>5. ASSUME NEW p \in Proc, VerifyLock(p) PROVE Fresh'
  BY <1>5 DEF VerifyLock, Fresh, TypeOK
<1>6. ASSUME NEW p \in Proc, DropLock(p) PROVE Fresh'
  BY <1>6 DEF DropLock, Fresh, TypeOK
<1>7. ASSUME NEW p \in Proc, CheckContext(p) \/ Backoff(p) \/ Retry(p) \/ GiveUp(p)
                             \/ OpenFileFails(p) \/ Cancel(p)
      PROVE Fresh'
  BY <1>7 DEF CheckContext, Backoff, Retry, GiveUp, OpenFileFails, Cancel, Fresh, TypeOK
<1>8. ASSUME NEW p \in Proc, StatLockFile(p) PROVE Fresh'
  <2>1. PICK l \in {"remove", "open", "idle"} : pc' = [pc EXCEPT ![p] = l]
    BY <1>8 DEF StatLockFile
  <2> QED
    BY <1>8, <2>1 DEF StatLockFile, Fresh, TypeOK
<1>9. ASSUME NEW p \in Proc, RemoveLockFile(p) PROVE Fresh'
  BY <1>9 DEF RemoveLockFile, Fresh, TypeOK
<1>10. ASSUME NEW p \in Proc, HeartbeatTick(p) \/ HeartbeatExit(p) \/ StopHeartbeat(p)
       PROVE Fresh'
  BY <1>10 DEF HeartbeatTick, HeartbeatExit, StopHeartbeat, Fresh, TypeOK
<1>11. ASSUME NEW p \in Proc, HeartbeatTruncate(p) PROVE Fresh'
  BY <1>11 DEF HeartbeatTruncate, Truncated, Fresh, TypeOK, LockInv
<1>12. ASSUME NEW p \in Proc, UnlockFile(p) \/ Crash(p) PROVE Fresh'
  BY <1>12 DEF UnlockFile, Crash, Fresh, TypeOK
<1>13. ASSUME Tick PROVE Fresh'
  <2> SUFFICES ASSUME NEW p \in Proc
               PROVE /\ pc[p] = "verify" => age'[fd[p]] <= beat'[p]
                     /\ pc[p] = "held" => /\ age'[fd[p]] <= HeartbeatInterval + beat'[p]
                                          /\ hb[p] # "off"
    BY <1>13 DEF Tick, Fresh
  <2>1. CASE pc[p] = "verify" \/ pc[p] = "held"
    <3>1. Deadline(p) /\ fd[p] \in Inode
      BY <2>1 DEF Deadline, Fresh, TypeOK
    <3>2. beat[p] < HeartbeatInterval
      BY <1>13, <3>1 DEF Tick
    <3>3. beat'[p] = beat[p] + 1
      BY <1>13, <3>1, <3>2 DEF Tick
    <3>4. age'[fd[p]] <= age[fd[p]] + 1
      BY <1>13, <3>1 DEF Tick, TypeOK
    <3>5. age[fd[p]] \in Nat /\ age'[fd[p]] \in Nat /\ beat[p] \in Nat
      BY <1>13, <3>1 DEF Tick, TypeOK
    <3> QED
      BY <3>3, <3>4, <3>5 DEF Fresh
  <2> QED
    BY <2>1
<1>14. ASSUME UNCHANGED vars PROVE Fresh'
  BY <1>14 DEF vars, Fresh
<1> QED
  BY <1>1, <1>2, <1>3, <1>4, <1>5, <1>6, <1>7, <1>8, <1>9, <1>10, <1>11, <1>12,
     <1>13, <1>14 DEF Next, Acquire, Heartbeat, Release

\* Stale recovery never condemns the file of a live holder: at a Stat that
\* finds the file at the path stale no holder has that file.
THEOREM LiveHolderSafety == Timely => (Spec => NoLiveHolderCondemned)
<1> SUFFICES ASSUME Timely PROVE Spec => NoLiveHolderCondemned
  OBVIOUS
<1>1. Init => Fresh
  BY DEF Init, Fresh
<1>2. Spec => []Fresh
  BY <1>1, FreshStep, TypeCorrect, LockInvariant, PTL DEF Spec
<1>3. ASSUME TypeOK, LockInv, Fresh, [Next]_vars, NEW p \in Proc, NEW q \in Proc,
             pc[p] = "stat", pc'[p] = "remove", Holding(q)
      PROVE fd[q] # path
  <2>1. StatLockFile(p)
    BY <1>3 DEF Next, Acquire, Heartbeat, Release, Goto, AttemptFailed, TryLock,
      OpenFile, LockFile, TruncateFile, VerifyLock, DropLock, CheckContext, StatLockFile,
      RemoveLockFile, Backoff, Retry, GiveUp, HeartbeatTick, HeartbeatTruncate,
      HeartbeatExit, StopHeartbeat, UnlockFile, OpenFileFails, Cancel, Crash, Tick, vars,
      TypeOK
  <2>2. age[path] >= StaleThreshold
    BY <1>3, <2>1 DEF StatLockFile, Goto, TypeOK
  <2>3. age[fd[q]] <= HeartbeatInterval + beat[q] /\ fd[q] \in Inode
    BY <1>3 DEF Holding, Fresh, TypeOK, UsesFile
  <2>4. age[fd[q]] \in Nat /\ beat[q] \in 0..HeartbeatInterval
    BY <1>3, <2>3 DEF TypeOK
  <2>5. age[fd[q]] < StaleThreshold
    BY <2>3, <2>4
  <2> QED
    BY <2>2, <2>4, <2>5
<1>4. TypeOK /\ LockInv /\ Fresh /\ [Next]_vars =>
        [\A p, q \in Proc : pc[p] = "stat" /\ pc'[p] = "remove" /\ Holding(q)
                              => fd[q] # path]_vars
  BY <1>3
<1> QED
  BY <1>2, <1>4, TypeCorrect, LockInvariant, PTL DEF Spec, NoLiveHolderCondemned

==============================================================================
