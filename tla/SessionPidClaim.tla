-------------------------- MODULE SessionPidClaim --------------------------
(***************************************************************************)
(* How a starting session daemon claims the session's pid file (harness/   *)
(* session-daemon.ts and session-daemon-claim-lock.ts).  A claimant first  *)
(* creates <pidPath>.claim exclusively.  A claim lock that cannot be read  *)
(* or names a dead process is renamed away, replaced and, if it turns out  *)
(* to be another one than was judged, renamed back.  Under its lock the    *)
(* claimant reads the pid file and, unless a live daemon is named there,   *)
(* renames its own pid over it, verifying its lock before and after.       *)
(*                                                                         *)
(* A member of Proc is one starting daemon.  Each of its attempts writes a *)
(* lock record with a fresh token.  All that is ever asked of a token is   *)
(* whether it is that of the writer's present attempt, so a record has a   *)
(* flag for that.  PIDs are not reused, and a process's start identity can *)
(* be read.  An action is one system call and the decision it leads to.    *)
(***************************************************************************)
CONSTANTS
    Proc,       \* the daemons that start
    CanGiveUp,  \* a claimant may run out of its 40 attempts
    CanCrash,   \* a process may be killed
    None        \* no file, no pid

ASSUME ClaimAssumption ==
    /\ CanGiveUp \in BOOLEAN
    /\ CanCrash \in BOOLEAN
    /\ None \notin Proc

VARIABLES
    pc,       \* where each process stands
    outcome,  \* what its attempt under the lock came to
    pidFile,  \* the process named by the pid file
    lock,     \* the claim lock on disk
    moved,    \* the lock each process has renamed away
    seen      \* what each process read from the lock it judged

vars == <<pc, outcome, pidFile, lock, moved, seen>>

\* An inode: who created it, whether in its present attempt, and whether the
\* record has been written into it.
File == [by : Proc, now : BOOLEAN, full : BOOLEAN]

\* What a read of an unwritten file returns.
Blank == [by |-> None, now |-> FALSE, full |-> FALSE]

ASSUME FileAssumption == None \notin File \cup {Blank}

\* Where a process stands that has renamed a lock away.
Recovering == {"readMoved", "recreate", "recreateRaced", "refill", "refillRaced",
               "restore"}

Claiming == Recovering \cup {"create", "fill", "read", "rename", "wait", "readPid",
                             "checkBefore", "renamePid", "checkAfter", "unlock",
                             "remove"}

\* The types; a lock that was renamed away belongs to a recovery under way or to
\* a process that was killed in one.
TypeOK ==
    /\ pc \in [Proc -> Claiming \cup {"idle", "owner", "recheckPid", "removePid",
                                  "exited", "gaveUp"}]
    /\ \A p \in Proc : pc[p] \notin Recovering \cup {"exited"} => moved[p] = None
    /\ outcome \in [Proc -> {"none", "won", "lost", "retry"}]
    /\ pidFile \in Proc \cup {None}
    /\ lock \in File \cup {None}
    /\ moved \in [Proc -> File \cup {None}]
    /\ seen \in [Proc -> File \cup {None, Blank}]

Init ==
    /\ pc = [p \in Proc |-> "idle"]
    /\ outcome = [p \in Proc |-> "none"]
    /\ pidFile = None
    /\ lock = None
    /\ moved = [p \in Proc |-> None]
    /\ seen = [p \in Proc |-> None]

Alive(p) == pc[p] \notin {"idle", "exited", "gaveUp"}

Goto(p, from, to) ==
    /\ pc[p] = from
    /\ pc' = [pc EXCEPT ![p] = to]

NewFile(p) == [by |-> p, now |-> TRUE, full |-> FALSE]

Content(file) == IF file = None \/ file.full THEN file ELSE Blank

\* claimLockIsCurrent.
Current(p) == lock = [by |-> p, now |-> TRUE, full |-> TRUE]

\* The write of p's record reaches its file wherever that has been renamed to.
Filled(p, file) ==
    IF file # None /\ file.by = p /\ file.now THEN [file EXCEPT !.full = TRUE] ELSE file

\* p draws another token.
Outdated(p, file) ==
    IF file # None /\ file.by = p THEN [file EXCEPT !.now = FALSE] ELSE file

-----------------------------------------------------------------------------
(* acquireClaimLock.                                                       *)

Start(p) ==
    /\ Goto(p, "idle", "create")
    /\ UNCHANGED <<outcome, pidFile, lock, moved, seen>>

\* writeFileSync(lock.path, lock.raw, "wx") creates the file ..
CreateLock(p) ==
    /\ \/ /\ lock = None
          /\ Goto(p, "create", "fill")
          /\ lock' = NewFile(p)
       \/ /\ lock # None
          /\ Goto(p, "create", "read")
          /\ UNCHANGED lock
    /\ UNCHANGED <<outcome, pidFile, moved, seen>>

\* .. and then writes the record.
FillLock(p) ==
    /\ Goto(p, "fill", "readPid")
    /\ lock' = Filled(p, lock)
    /\ moved' = [q \in Proc |-> Filled(p, moved[q])]
    /\ UNCHANGED <<outcome, pidFile, seen>>

\* A plausible slip: only a readable record is ever judged stale.
LiveUnlessReadable == lock # None /\ (lock.full => Alive(lock.by))

\* liveClaimLockIsCurrent.
Live == lock # None /\ lock.full /\ Alive(lock.by)

ReadLock(p) ==
    /\ Goto(p, "read", IF Live THEN "wait" ELSE "rename")
    /\ seen' = [seen EXCEPT ![p] = Content(lock)]
    /\ UNCHANGED <<outcome, pidFile, lock, moved>>

-----------------------------------------------------------------------------
(* recoverStaleClaimLock.                                                  *)

RenameLock(p) ==
    /\ \/ /\ lock # None
          /\ Goto(p, "rename", "readMoved")
          /\ moved' = [moved EXCEPT ![p] = lock]
          /\ lock' = None
       \/ /\ lock = None
          /\ Goto(p, "rename", "wait")
          /\ UNCHANGED <<lock, moved>>
    /\ UNCHANGED <<outcome, pidFile, seen>>

ReadMoved(p) ==
    /\ Goto(p, "readMoved", IF Content(moved[p]) = seen[p] THEN "recreate"
                                                           ELSE "recreateRaced")
    /\ UNCHANGED <<outcome, pidFile, lock, moved, seen>>

\* A plausible slip: the lock that was moved is not cleared away on EEXIST.
RecreateLeavesMoved(p) ==
    \/ /\ lock = None
       /\ lock' = NewFile(p)
       /\ \/ Goto(p, "recreate", "refill")
          \/ Goto(p, "recreateRaced", "refillRaced")
       /\ UNCHANGED <<outcome, pidFile, moved, seen>>
    \/ /\ lock # None
       /\ Goto(p, "recreate", "wait") \/ Goto(p, "recreateRaced", "wait")
       /\ UNCHANGED <<outcome, pidFile, lock, moved, seen>>

\* EEXIST: another claimant filled the gap, and the lock that was moved is lost.
Recreate(p) ==
    \/ /\ lock = None
       /\ lock' = NewFile(p)
       /\ \/ Goto(p, "recreate", "refill")
          \/ Goto(p, "recreateRaced", "refillRaced")
       /\ UNCHANGED <<outcome, pidFile, moved, seen>>
    \/ /\ lock # None
       /\ Goto(p, "recreate", "wait") \/ Goto(p, "recreateRaced", "wait")
       /\ moved' = [moved EXCEPT ![p] = None]
       /\ UNCHANGED <<outcome, pidFile, lock, seen>>

Refill(p) ==
    /\ lock' = Filled(p, lock)
    /\ LET filled == [q \in Proc |-> Filled(p, moved[q])] IN
       \/ /\ Goto(p, "refill", "readPid")
          /\ moved' = [filled EXCEPT ![p] = None]
       \/ /\ Goto(p, "refillRaced", "restore")
          /\ moved' = filled
    /\ UNCHANGED <<outcome, pidFile, seen>>

\* restoreRacedClaimLock: rename it back, over whatever stands there.
Restore(p) ==
    /\ Goto(p, "restore", "wait")
    /\ lock' = moved[p]
    /\ moved' = [moved EXCEPT ![p] = None]
    /\ UNCHANGED <<outcome, pidFile, seen>>

-----------------------------------------------------------------------------
(* claimPidWhileLocked, replacePidClaim, removeCurrentClaimLock.           *)

Decide(p, to, result) ==
    /\ pc' = [pc EXCEPT ![p] = to]
    /\ outcome' = [outcome EXCEPT ![p] = result]
    /\ UNCHANGED <<pidFile, lock, moved, seen>>

\* A plausible slip: a process that does not serve yet has not claimed yet.
OwnerServes == pidFile # None /\ pc[pidFile] = "owner"

\* The pid file names a process that runs; the daemon's identity comes with it.
OwnerLives == pidFile # None /\ Alive(pidFile)

ReadPid(p) ==
    /\ pc[p] = "readPid"
    /\ \/ /\ pidFile = p
          /\ Decide(p, "unlock", "won")
       \/ /\ pidFile # p /\ OwnerLives
          /\ Decide(p, "unlock", "lost")
       \/ /\ pidFile # p /\ ~OwnerLives
          /\ Decide(p, "checkBefore", "none")

\* A plausible slip: the lock is verified only after the rename.
CheckBeforeNot(p) ==
    /\ pc[p] = "checkBefore"
    /\ Decide(p, "renamePid", "none")

CheckBefore(p) ==
    /\ pc[p] = "checkBefore"
    /\ \/ Current(p) /\ Decide(p, "renamePid", "none")
       \/ ~Current(p) /\ Decide(p, "unlock", "retry")

RenamePid(p) ==
    /\ Goto(p, "renamePid", "checkAfter")
    /\ pidFile' = p
    /\ UNCHANGED <<outcome, lock, moved, seen>>

CheckAfter(p) ==
    /\ pc[p] = "checkAfter"
    /\ Decide(p, "unlock", IF Current(p) THEN "won" ELSE "retry")

\* What claimSessionPid does next.
AfterAttempt(p) ==
    CASE outcome[p] = "won"   -> "owner"
      [] outcome[p] = "lost"  -> "exited"
      [] outcome[p] = "retry" -> "wait"

Unlock(p) ==
    /\ pc[p] = "unlock"
    /\ pc' = [pc EXCEPT ![p] = IF Current(p) THEN "remove" ELSE AfterAttempt(p)]
    /\ UNCHANGED <<outcome, pidFile, lock, moved, seen>>

RemoveLock(p) ==
    /\ Goto(p, "remove", AfterAttempt(p))
    /\ lock' = None
    /\ UNCHANGED <<outcome, pidFile, moved, seen>>

\* The next attempt, with another token; or the last one has failed.
TryAgain(p) ==
    /\ \/ /\ Goto(p, "wait", "create")
          /\ lock' = Outdated(p, lock)
          /\ moved' = [q \in Proc |-> Outdated(p, moved[q])]
          /\ seen' = [q \in Proc |-> IF q = p THEN None ELSE Outdated(p, seen[q])]
       \/ /\ CanGiveUp
          /\ Goto(p, "wait", "gaveUp")
          /\ UNCHANGED <<lock, moved, seen>>
    /\ outcome' = [outcome EXCEPT ![p] = "none"]
    /\ UNCHANGED pidFile

-----------------------------------------------------------------------------
(* The daemon ends: removeOwnedSessionArtifacts, or it is killed.          *)

Stop(p) ==
    /\ Goto(p, "owner", IF pidFile = p THEN "recheckPid" ELSE "exited")
    /\ UNCHANGED <<outcome, pidFile, lock, moved, seen>>

\* removePidFileIfOwned, after the socket is removed: look again, then unlink.
RecheckPid(p) ==
    /\ Goto(p, "recheckPid", IF pidFile = p THEN "removePid" ELSE "exited")
    /\ UNCHANGED <<outcome, pidFile, lock, moved, seen>>

RemovePid(p) ==
    /\ Goto(p, "removePid", "exited")
    /\ pidFile' = None
    /\ UNCHANGED <<outcome, lock, moved, seen>>

Crash(p) ==
    /\ CanCrash
    /\ Alive(p)
    /\ pc' = [pc EXCEPT ![p] = "exited"]
    /\ UNCHANGED <<outcome, pidFile, lock, moved, seen>>

Step(p) ==
    \/ CreateLock(p) \/ FillLock(p) \/ ReadLock(p) \/ RenameLock(p)
    \/ ReadMoved(p) \/ Recreate(p) \/ Refill(p) \/ Restore(p)
    \/ ReadPid(p) \/ CheckBefore(p) \/ RenamePid(p) \/ CheckAfter(p)
    \/ Unlock(p) \/ RemoveLock(p) \/ TryAgain(p)
    \/ RecheckPid(p) \/ RemovePid(p)

Next == \E p \in Proc : Start(p) \/ Step(p) \/ Stop(p) \/ Crash(p)

Spec == Init /\ [][Next]_vars

\* A process that runs goes on.
FairSpec == Spec /\ \A p \in Proc : WF_vars(Step(p))

-----------------------------------------------------------------------------
(* Properties.                                                             *)

\* No two processes run as the session's daemon ("retry instead of reporting a
\* second win").
OneOwner ==
    \A p, q \in Proc : pc[p] = "owner" /\ pc[q] = "owner" => p = q

\* The running daemon is the one the pid file names.
OwnerNamed ==
    \A p \in Proc : pc[p] = "owner" => pidFile = p

Over == {"exited", "gaveUp"}

\* Whatever killed and failed claimants have left behind, the next claimant gets
\* the session if nobody else starts.
NextClaimantWins ==
    \A p \in Proc :
        [](pc[p] = "idle" /\ (\A q \in Proc \ {p} : pc[q] \in Over)
              => [](pc[p] = "create" => <>(pc[p] \in {"owner", "exited"})))
=============================================================================
