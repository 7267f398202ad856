-------------------------------- MODULE Flock --------------------------------
(***************************************************************************)
(* The advisory file lock of the posixage store                            *)
(* (store/posixage/internal/flock).  Callers share one lock file in the    *)
(* store directory.  A caller opens (or creates) the file, takes a         *)
(* non-blocking flock(2) on the descriptor, truncates the file to refresh  *)
(* its modification time and then checks that the descriptor is still the  *)
(* file at the path.  A first attempt that fails is followed by one look   *)
(* for a stale file, which is unlinked, and by retries with backoff.       *)
(* A holder runs a heartbeat goroutine that truncates the file again.      *)
(*                                                                         *)
(* The kernel and the file system are external: an inode stays alive while *)
(* it is at the path or open, its number may be used again afterwards, a   *)
(* flock belongs to the open descriptor and dies with it.                  *)
(***************************************************************************)
EXTENDS Integers, FiniteSets

CONSTANTS
  Proc,               \* callers, each with a descriptor of its own
  Inode,              \* inode numbers of the file system
  NoInode,            \* "no file": path absent, or descriptor closed
  StaleThreshold,     \* age from which a file is stale, in clock ticks (30s)
  HeartbeatInterval,  \* ticks between two heartbeats (10s)
  Modes,              \* lock modes callers ask for: subset of {"ex", "sh"}
  Faults              \* which faults happen: subset of FaultKinds

FaultKinds == {"crash", "starve", "truncate", "io"}

ASSUME ConstantsAssumption ==
  /\ NoInode \notin Inode
  /\ StaleThreshold \in Nat
  /\ HeartbeatInterval \in Nat \ {0}
  /\ 2 * HeartbeatInterval < StaleThreshold
  /\ Modes \subseteq {"ex", "sh"}
  /\ Faults \subseteq FaultKinds

VARIABLES
  path,     \* the inode at the lock-file path
  age,      \* per inode, ticks since its modtime, saturating at the threshold
  pc,       \* where each caller is
  mode,     \* the lock a caller wants: "ex" (TryLock) or "sh" (TryRLock)
  first,    \* TRUE in tryLock's own attempt, FALSE in retryLock's
  ctx,      \* the caller's context: "live" or "cancelled"
  fd,       \* the inode a caller's descriptor refers to
  lock,     \* the flock held through that descriptor: "none", "sh", "ex"
  hb,       \* the heartbeat goroutine: "off", "wait" (in select), "tick"
  beat      \* ticks since the caller's last truncate or ticker event

vars == <<path, age, pc, mode, first, ctx, fd, lock, hb, beat>>

PC == {"idle", "open", "flock", "truncate", "verify", "drop", "failed",
       "stat", "remove", "backoff", "sleep", "held", "unlock", "dead"}

\* Program points at which a caller works on its descriptor.
UsesFile == {"flock", "truncate", "verify", "drop", "held", "unlock"}

\* The types of the variables; a caller that works on a descriptor has it open.
TypeOK ==
  /\ path \in Inode \cup {NoInode}
  /\ age \in [Inode -> 0..StaleThreshold]
  /\ pc \in [Proc -> PC]
  /\ mode \in [Proc -> {"ex", "sh"}]
  /\ first \in [Proc -> BOOLEAN]
  /\ ctx \in [Proc -> {"live", "cancelled"}]
  /\ fd \in [Proc -> Inode \cup {NoInode}]
  /\ lock \in [Proc -> {"none", "sh", "ex"}]
  /\ hb \in [Proc -> {"off", "wait", "tick"}]
  /\ beat \in [Proc -> 0..HeartbeatInterval]
  /\ \A p \in Proc : pc[p] \in UsesFile => fd[p] \in Inode

-----------------------------------------------------------------------------
(* Helpers *)

\* The caller is between TryLock's return and its call of UnlockFunc.
Holding(p) == pc[p] = "held"

\* The caller is inside TryLock.
Trying(p) == pc[p] \notin {"idle", "held", "unlock", "dead"}

Goto(p, l) == pc' = [pc EXCEPT ![p] = l]

\* A file the file system may create: neither at the path nor open.
FreeInode == {i \in Inode : i # path /\ \A p \in Proc : fd[p] # i}

\* flock(2): a lock on inode i in mode m conflicts with no other descriptor's.
Compatible(p, i, m) ==
  \A q \in Proc \ {p} :
    fd[q] = i /\ lock[q] # "none" => m = "sh" /\ lock[q] = "sh"

\* f.Truncate(0): refreshes the modtime.  The error is ignored by
\* acquireOnce and only logged by heartbeat.
Truncated(i) ==
  \/ age' = [age EXCEPT ![i] = 0]
  \/ "truncate" \in Faults /\ age' = age

\* The code a failed acquireOnce returns to: tryLock or backoff.Retry.
AttemptFailed(p) == Goto(p, IF first[p] THEN "failed" ELSE "backoff")

CloseFile(p) == fd' = [fd EXCEPT ![p] = NoInode]

Unflock(p) == lock' = [lock EXCEPT ![p] = "none"]

\* A time-critical goroutine: one that has truncated and has to start the
\* heartbeat, and the heartbeat itself.
Deadline(p) == pc[p] = "verify" \/ hb[p] # "off"

-----------------------------------------------------------------------------
Init ==
  /\ path = NoInode
  /\ age = [i \in Inode |-> 0]
  /\ pc = [p \in Proc |-> "idle"]
  /\ mode = [p \in Proc |-> "ex"]
  /\ first = [p \in Proc |-> TRUE]
  /\ ctx = [p \in Proc |-> "live"]
  /\ fd = [p \in Proc |-> NoInode]
  /\ lock = [p \in Proc |-> "none"]
  /\ hb = [p \in Proc |-> "off"]
  /\ beat = [p \in Proc |-> 0]

\* TryLock ("ex") or TryRLock ("sh") is called.
TryLock(p, m) ==
  /\ pc[p] = "idle"
  /\ Goto(p, "open")
  /\ mode' = [mode EXCEPT ![p] = m]
  /\ first' = [first EXCEPT ![p] = TRUE]
  /\ ctx' = [ctx EXCEPT ![p] = "live"]
  /\ UNCHANGED <<path, age, fd, lock, hb, beat>>

\* Variant: openFile without O_CREATE hands out no file.
OpenFile_NoCreate(p) ==
  /\ pc[p] = "open"
  /\ Goto(p, "flock")
  /\ fd' = [fd EXCEPT ![p] = path]
  /\ UNCHANGED <<path, age, mode, first, ctx, lock, hb, beat>>

\* openFile with O_CREATE.
OpenFile(p) ==
  /\ pc[p] = "open"
  /\ Goto(p, "flock")
  /\ \/ /\ path # NoInode
        /\ fd' = [fd EXCEPT ![p] = path]
        /\ UNCHANGED <<path, age>>
     \/ /\ path = NoInode
        /\ \E i \in FreeInode :
             /\ path' = i
             /\ age' = [age EXCEPT ![i] = 0]
             /\ fd' = [fd EXCEPT ![p] = i]
  /\ UNCHANGED <<mode, first, ctx, lock, hb, beat>>

OpenFileFails(p) ==
  /\ "io" \in Faults
  /\ pc[p] = "open"
  /\ AttemptFailed(p)
  /\ UNCHANGED <<path, age, mode, first, ctx, fd, lock, hb, beat>>

\* lockFile: LOCK_NB, so a conflict is an error and the file is closed.
LockFile(p) ==
  /\ pc[p] = "flock"
  /\ \/ /\ Compatible(p, fd[p], mode[p])
        /\ lock' = [lock EXCEPT ![p] = mode[p]]
        /\ Goto(p, "truncate")
        /\ UNCHANGED fd
     \/ /\ ~Compatible(p, fd[p], mode[p]) \/ "io" \in Faults
        /\ CloseFile(p)
        /\ AttemptFailed(p)
        /\ UNCHANGED lock
  /\ UNCHANGED <<path, age, mode, first, ctx, hb, beat>>

TruncateFile(p) ==
  /\ pc[p] = "truncate"
  /\ Truncated(fd[p])
  /\ beat' = [beat EXCEPT ![p] = 0]
  /\ Goto(p, "verify")
  /\ UNCHANGED <<path, mode, first, ctx, fd, lock, hb>>

\* Variants: no inode check, and the comparison turned round.
IsCurrentLockFile_Skipped(p) == TRUE
IsCurrentLockFile_Negated(p) == fd[p] # path

\* isCurrentLockFile: the descriptor's inode against the path's.
IsCurrentLockFile(p) == fd[p] = path

\* The end of acquireOnce: a verified lock starts the heartbeat and is
\* returned to the caller; anything else is dropped.
VerifyLock(p) ==
  /\ pc[p] = "verify"
  /\ \/ /\ IsCurrentLockFile(p)
        /\ Goto(p, "held")
        /\ hb' = [hb EXCEPT ![p] = "wait"]
        /\ beat' = [beat EXCEPT ![p] = 0]
     \/ /\ ~IsCurrentLockFile(p) \/ "io" \in Faults
        /\ Goto(p, "drop")
        /\ UNCHANGED <<hb, beat>>
  /\ UNCHANGED <<path, age, mode, first, ctx, fd, lock>>

\* Variant: an error path that forgets to close the descriptor.
DropLock_NoClose(p) ==
  /\ pc[p] = "drop"
  /\ Unflock(p)
  /\ AttemptFailed(p)
  /\ UNCHANGED <<path, age, mode, first, ctx, fd, hb, beat>>

\* releaseLock and Close on acquireOnce's error paths.
DropLock(p) ==
  /\ pc[p] = "drop"
  /\ Unflock(p)
  /\ CloseFile(p)
  /\ AttemptFailed(p)
  /\ UNCHANGED <<path, age, mode, first, ctx, hb, beat>>

\* tryLock after its first attempt: recovery is skipped when ctx is done.
CheckContext(p) ==
  /\ pc[p] = "failed"
  /\ Goto(p, IF ctx[p] = "cancelled" THEN "idle" ELSE "stat")
  /\ UNCHANGED <<path, age, mode, first, ctx, fd, lock, hb, beat>>

\* recoverStaleLock's Stat and its age test.  No file, or a young one
\* (errRecoverLock, which tryLock ignores), leads to retryLock at once.
StatLockFile(p) ==
  /\ pc[p] = "stat"
  /\ \/ /\ Goto(p, IF path # NoInode /\ age[path] >= StaleThreshold
                   THEN "remove" ELSE "open")
        /\ first' = [first EXCEPT ![p] = FALSE]
     \/ /\ "io" \in Faults
        /\ Goto(p, "idle")
        /\ UNCHANGED first
  /\ UNCHANGED <<path, age, mode, ctx, fd, lock, hb, beat>>

\* root.Remove unlinks whatever file is at the path by now.
RemoveLockFile(p) ==
  /\ pc[p] = "remove"
  /\ \/ /\ path' = NoInode
        /\ Goto(p, "open")
     \/ /\ "io" \in Faults
        /\ Goto(p, "idle")
        /\ UNCHANGED path
  /\ UNCHANGED <<age, mode, first, ctx, fd, lock, hb, beat>>

\* backoff.Retry after a failed attempt: give up if ctx is done, else sleep.
Backoff(p) ==
  /\ pc[p] = "backoff"
  /\ Goto(p, IF ctx[p] = "cancelled" THEN "idle" ELSE "sleep")
  /\ UNCHANGED <<path, age, mode, first, ctx, fd, lock, hb, beat>>

\* The timer of the backoff wakes up before the context is seen.
Retry(p) ==
  /\ pc[p] = "sleep"
  /\ Goto(p, "open")
  /\ UNCHANGED <<path, age, mode, first, ctx, fd, lock, hb, beat>>

GiveUp(p) ==
  /\ pc[p] = "sleep"
  /\ ctx[p] = "cancelled"
  /\ Goto(p, "idle")
  /\ UNCHANGED <<path, age, mode, first, ctx, fd, lock, hb, beat>>

\* The caller's context is cancelled, at the call or while it waits.
Cancel(p) ==
  /\ Trying(p)
  /\ ctx[p] = "live"
  /\ ctx' = [ctx EXCEPT ![p] = "cancelled"]
  /\ UNCHANGED <<path, age, pc, mode, first, fd, lock, hb, beat>>

\* The heartbeat's ticker fires.
HeartbeatTick(p) ==
  /\ hb[p] = "wait"
  /\ beat[p] = HeartbeatInterval
  /\ hb' = [hb EXCEPT ![p] = "tick"]
  /\ UNCHANGED <<path, age, pc, mode, first, ctx, fd, lock, beat>>

\* Variant: a heartbeat that checks the inode and leaves the modtime alone.
HeartbeatTruncate_NoRefresh(p) ==
  /\ hb[p] = "tick"
  /\ hb' = [hb EXCEPT ![p] = "wait"]
  /\ beat' = [beat EXCEPT ![p] = 0]
  /\ UNCHANGED <<path, age, pc, mode, first, ctx, fd, lock>>

\* The body of the ticker case: refresh the modtime, log a hijack, loop.
HeartbeatTruncate(p) ==
  /\ hb[p] = "tick"
  /\ Truncated(fd[p])
  /\ hb' = [hb EXCEPT ![p] = "wait"]
  /\ beat' = [beat EXCEPT ![p] = 0]
  /\ UNCHANGED <<path, pc, mode, first, ctx, fd, lock>>

\* UnlockFunc is called: stop() cancels the heartbeat's context.
StopHeartbeat(p) ==
  /\ pc[p] = "held"
  /\ Goto(p, "unlock")
  /\ UNCHANGED <<path, age, mode, first, ctx, fd, lock, hb, beat>>

\* The heartbeat sees its context done: it stops its ticker, returns and
\* closes done.
HeartbeatExit(p) ==
  /\ pc[p] = "unlock"
  /\ hb[p] = "wait"
  /\ hb' = [hb EXCEPT ![p] = "off"]
  /\ beat' = [beat EXCEPT ![p] = 0]
  /\ UNCHANGED <<path, age, pc, mode, first, ctx, fd, lock>>

\* Variant: UnlockFunc without the join.
UnlockFile_NoJoin(p) ==
  /\ pc[p] = "unlock"
  /\ Unflock(p)
  /\ CloseFile(p)
  /\ Goto(p, "idle")
  /\ UNCHANGED <<path, age, mode, first, ctx, hb, beat>>

\* UnlockFunc after <-done: unlockFile releases the lock and closes the
\* file, which stays at its path.
UnlockFile(p) ==
  /\ pc[p] = "unlock"
  /\ hb[p] = "off"
  /\ Unflock(p)
  /\ CloseFile(p)
  /\ Goto(p, "idle")
  /\ UNCHANGED <<path, age, mode, first, ctx, hb, beat>>

\* The caller's process dies: the kernel closes its descriptors.  Its
\* successor is another member of Proc.
Crash(p) ==
  /\ "crash" \in Faults
  /\ pc[p] \notin {"idle", "dead"}
  /\ Goto(p, "dead")
  /\ Unflock(p)
  /\ CloseFile(p)
  /\ hb' = [hb EXCEPT ![p] = "off"]
  /\ beat' = [beat EXCEPT ![p] = 0]
  /\ UNCHANGED <<path, age, mode, first, ctx>>

\* Time passes.  A goroutine with a deadline is scheduled in time unless
\* "starve" is among the faults.
Tick ==
  /\ "starve" \in Faults \/ \A p \in Proc : Deadline(p) => beat[p] < HeartbeatInterval
  /\ age' = [i \in Inode |-> IF age[i] < StaleThreshold THEN age[i] + 1 ELSE age[i]]
  /\ beat' = [p \in Proc |->
       IF Deadline(p) /\ beat[p] < HeartbeatInterval THEN beat[p] + 1 ELSE beat[p]]
  /\ UNCHANGED <<path, pc, mode, first, ctx, fd, lock, hb>>

Acquire(p) ==
  \/ OpenFile(p) \/ LockFile(p) \/ TruncateFile(p) \/ VerifyLock(p)
  \/ DropLock(p) \/ CheckContext(p) \/ StatLockFile(p) \/ RemoveLockFile(p)
  \/ Backoff(p) \/ Retry(p) \/ GiveUp(p)

Heartbeat(p) == HeartbeatTick(p) \/ HeartbeatTruncate(p) \/ HeartbeatExit(p)

Release(p) == StopHeartbeat(p) \/ UnlockFile(p)

Next ==
  \/ \E p \in Proc :
       \/ \E m \in Modes : TryLock(p, m)
       \/ Acquire(p) \/ Heartbeat(p) \/ Release(p)
       \/ OpenFileFails(p) \/ Cancel(p) \/ Crash(p)
  \/ Tick

Spec == Init /\ [][Next]_vars

\* The scheduler runs every goroutine that can run, a holder ends its
\* critical section (every store operation defers unlock), and a select with
\* several ready cases picks each of them again and again.
Fairness ==
  \A p \in Proc :
    /\ WF_vars(Acquire(p)) /\ WF_vars(Release(p))
    /\ WF_vars(Heartbeat(p)) /\ SF_vars(HeartbeatExit(p))

FairSpec == Spec /\ Fairness

-----------------------------------------------------------------------------
(* Properties *)

\* Every error path of acquireOnce, tryLock and UnlockFunc gives back what
\* it took: a caller that is outside an attempt and holds nothing has no open
\* descriptor, no flock and no heartbeat, whichever step failed.
NothingLeaks ==
  \A p \in Proc :
    pc[p] \in {"idle", "open", "failed", "stat", "remove", "backoff", "sleep", "dead"} =>
      fd[p] = NoInode /\ lock[p] = "none" /\ hb[p] = "off"

\* UnlockFunc joins the heartbeat before unlockFile, so the heartbeat never
\* touches a descriptor that is closed or whose lock is gone.
HeartbeatHasOpenFile ==
  \A p \in Proc : hb[p] # "off" => fd[p] # NoInode /\ lock[p] # "none"

\* No ghost locks: the lock a caller gets is one that every conflicting
\* holder of the file now at the lock-file path observes.  A caller whose
\* file was unlinked between its open and its flock never becomes a holder
\* beside the holder of the file that replaced it (acquireOnce).
NoGhostLock ==
  [][\A p, q \in Proc :
       p # q /\ ~Holding(p) /\ Holding(p)' /\ Holding(q) /\ fd[q] = path =>
         mode[p] = "sh" /\ mode[q] = "sh"]_vars

\* What the lock is for: an exclusive holder is alone.
MutualExclusion ==
  \A p, q \in Proc :
    p # q /\ Holding(p) /\ Holding(q) => mode[p] = "sh" /\ mode[q] = "sh"

\* recoverStaleLock never judges the file of a holder stale whose heartbeat is
\* scheduled in time: the modtime refresh of the acquisition and of the ticks
\* keeps it younger than the threshold (recover.go, staleThreshold).
NoLiveHolderCondemned ==
  [][\A p, q \in Proc : pc[p] = "stat" /\ pc'[p] = "remove" /\ Holding(q)
                          => fd[q] # path]_vars

\* Polling makes progress: while a caller waits in TryLock somebody gets the
\* lock, or the caller returns, whichever holders died with the lock taken.
\* Only stale recoveries that unlink the file again and again, each time under
\* a caller that has locked but not yet refreshed it, can prevent that.
SomeoneAcquires ==
  (<>[](\A p \in Proc : pc[p] # "remove")) =>
    \A p \in Proc : Trying(p) ~> (~Trying(p) \/ \E q \in Proc : Holding(q))

\* UnlockFunc returns: the join with the heartbeat does not wait for ever.
UnlockCompletes == \A p \in Proc : pc[p] = "unlock" ~> pc[p] \in {"idle", "dead"}

\* Callers get on, at both ends of the lock (TryLock, UnlockFunc).
LockProgress == SomeoneAcquires /\ UnlockCompletes

==============================================================================
