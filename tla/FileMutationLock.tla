-------------------------- MODULE FileMutationLock --------------------------
(***************************************************************************)
(* src/src/lib/file-mutation-lock.ts: the cross-process lock that every    *)
(* append to a shared log and every pathname-replacing maintenance command *)
(* takes first.  The lock is a directory <path>.interlinked-mutation.lock  *)
(* that holds one file, owner-<token>.json; mkdir is the only atomic claim *)
(* and the owner file makes the claim auditable.  A waiter may take the    *)
(* lock over from an owner it can show to be dead, or from a directory     *)
(* without a readable owner that has been left untouched for staleMs.      *)
(*                                                                         *)
(* One member of Proc is one call of acquireFileMutationLock.  Each call   *)
(* draws a fresh UUID token, so the call is identified with its token; a   *)
(* process that locks twice is two members.  Every action is one system    *)
(* call (or a read followed by a decision nobody else can change), and     *)
(* MaxIoErrors of them fail for another reason than the race they guard    *)
(* against (EMFILE, ENOSPC, EPERM ..).                                     *)
(***************************************************************************)
EXTENDS Naturals

CONSTANTS
    Proc,          \* the acquisition calls, each with its own token
    StaleElapses,  \* a directory may stay untouched for staleMs
    IdentityProbe, \* the platform reports boot and process-start identity
    CanTimeOut,    \* a waiter may reach waitMs
    MaxIoErrors,   \* system calls that fail
    None           \* no call

ASSUME ConfigAssumption ==
    /\ StaleElapses \in BOOLEAN
    /\ IdentityProbe \in BOOLEAN
    /\ CanTimeOut \in BOOLEAN
    /\ MaxIoErrors \in Nat
    /\ None \notin Proc

VARIABLES
    pc,       \* where each call stands
    kind,     \* what stands at the lock path
    entries,  \* tokens with an owner file in the lock directory
    filled,   \* those whose record has been written and parses
    stale,    \* the mtime of the lock path is at least staleMs old
    seen,     \* files a recoverer has still to unlink from its observation
    ioErrors  \* system calls that have failed

fs   == <<kind, entries, filled, stale>>
vars == <<pc, kind, entries, filled, stale, seen, ioErrors>>

\* An older release's lock is a file, with the record of a process that runs, of one
\* that is gone, or with no record that parses.
Legacy == {"legacyLive", "legacyDead", "legacyTorn"}

Kinds == {"absent", "dir"} \cup Legacy

\* Where a live call can be found.
LiveStates == {"idle", "mkdir", "write", "fill", "cleanup", "observe", "retire",
               "retireLegacy", "retireRmdir", "wait", "cs", "releaseRmdir",
               "done", "timedOut", "rejected", "failed", "left"}

\* A killed process, and one whose PID a later process of the machine got.
DeadStates == {"crashed", "recycled"}

\* A live call that is between two system calls of a publication, a release
\* or a recovery: all of them are a few microseconds apart.
Windows == {"write", "fill", "cleanup", "rejected", "retire", "retireLegacy",
            "retireRmdir", "releaseRmdir"}

TypeOK ==
    /\ pc \in [Proc -> LiveStates \cup DeadStates]
    /\ kind \in Kinds
    /\ entries \in SUBSET Proc
    /\ filled \in SUBSET entries
    /\ stale \in BOOLEAN
    /\ seen \in [Proc -> SUBSET Proc]
    /\ ioErrors \in Nat

\* An older release may hold its lock or have left it, or a process that is gone the
\* directory that it made.
Init ==
    /\ pc = [p \in Proc |-> "idle"]
    /\ kind \in Kinds
    /\ entries = {}
    /\ filled = {}
    /\ stale = FALSE
    /\ seen = [p \in Proc |-> {}]
    /\ ioErrors = 0

Goto(p, from, to) ==
    /\ pc[p] = from
    /\ pc' = [pc EXCEPT ![p] = to]
    /\ UNCHANGED ioErrors

-----------------------------------------------------------------------------
(* Acquisition: tryCreateLease, then recoverAbandonedLock, then wait.      *)

Start(p) ==
    /\ Goto(p, "idle", "mkdir")
    /\ UNCHANGED <<fs, seen>>

\* A plausible slip: mkdirSync(lockPath, { recursive: true }).
MakeDirectoryRecursive(p) ==
    /\ kind \in {"absent", "dir"}
    /\ Goto(p, "mkdir", "write")
    /\ kind' = "dir"
    /\ UNCHANGED <<entries, filled, stale, seen>>

\* mkdirSync(lockPath); EEXIST is a lost race.
MakeDirectory(p) ==
    \/ /\ kind = "absent"
       /\ Goto(p, "mkdir", "write")
       /\ kind' = "dir"
       /\ stale' = FALSE
       /\ UNCHANGED <<entries, filled, seen>>
    \/ /\ kind # "absent"
       /\ Goto(p, "mkdir", "observe")
       /\ UNCHANGED <<fs, seen>>

\* writeFileSync(ownerPath, .., "wx") opens the file first.  ENOENT: a
\* recoverer has removed the directory meanwhile.
CreateRecord(p) ==
    \/ /\ kind = "dir"
       /\ Goto(p, "write", "fill")
       /\ entries' = entries \cup {p}
       /\ stale' = FALSE
       /\ UNCHANGED <<kind, filled, seen>>
    \/ /\ kind # "dir"
       /\ Goto(p, "write", "cleanup")
       /\ UNCHANGED <<fs, seen>>

\* .. and then writes the bytes, into the open file even if it was unlinked.
FillRecord(p) ==
    /\ Goto(p, "fill", "cs")
    /\ filled' = IF p \in entries THEN filled \cup {p} ELSE filled
    /\ UNCHANGED <<kind, entries, stale, seen>>

\* rmdirSync removes the directory only if it is empty.
Rmdir ==
    IF kind = "dir" /\ entries = {}
    THEN /\ kind' = "absent"
         /\ stale' = FALSE
         /\ UNCHANGED <<entries, filled>>
    ELSE UNCHANGED fs

\* removeEmptyLockDirectory after a failed owner write: ENOENT is retried, any other
\* error thrown.
CleanUp(p) ==
    /\ \/ Goto(p, "cleanup", "observe")
       \/ Goto(p, "rejected", "failed")
    /\ Rmdir
    /\ UNCHANGED seen

\* A plausible slip: an owner that has held the lock for long is given up.
LooksTooOld(p) == TRUE

\* ownerIsAbandoned: the PID is gone.  A recycled PID answers the liveness
\* probe and only its recorded identity tells it from the owner.
LooksDead(p) ==
    pc[p] = "crashed" \/ (pc[p] = "recycled" /\ IdentityProbe)

AbandonedOwner ==
    \/ kind = "legacyDead"
    \/ \E t \in filled : entries = {t} /\ LooksDead(t)

MalformedAndStale ==
    /\ kind \notin {"legacyLive", "legacyDead"}
    /\ ~ \E t \in filled : entries = {t}
    /\ stale

\* A plausible slip: only a readable owner record is ever recovered.
RetirableOwnerOnly == AbandonedOwner

Retirable == AbandonedOwner \/ MalformedAndStale

\* A plausible slip: the legacy file is unlinked as if it were an owner record.
ObserveLegacyAsRecord(p) ==
    /\ UNCHANGED fs
    /\ \/ /\ kind = "absent"
          /\ Goto(p, "observe", "mkdir")
          /\ UNCHANGED seen
       \/ /\ kind \in Legacy /\ Retirable
          /\ Goto(p, "observe", "retire")
          /\ seen' = [seen EXCEPT ![p] = {None}]
       \/ /\ kind = "dir" \/ (kind \in Legacy /\ ~Retirable)
          /\ Goto(p, "observe", "wait")
          /\ UNCHANGED seen

\* observeLock and the verdict of recoverAbandonedLock.
Observe(p) ==
    /\ UNCHANGED fs
    /\ \/ /\ kind = "absent"
          /\ Goto(p, "observe", "mkdir")
          /\ UNCHANGED seen
       \/ /\ kind \in Legacy
          /\ Goto(p, "observe", IF Retirable THEN "retireLegacy" ELSE "wait")
          /\ UNCHANGED seen
       \/ /\ kind = "dir"
          /\ Retirable
          /\ Goto(p, "observe", IF entries = {} THEN "retireRmdir" ELSE "retire")
          /\ seen' = [seen EXCEPT ![p] = entries]
       \/ /\ kind = "dir"
          /\ ~Retirable
          /\ Goto(p, "observe", "wait")
          /\ UNCHANGED seen

\* A plausible slip: a file that is gone counts as unlinked.
RetireEntryForced(p) ==
    \E t \in seen[p] :
        /\ Goto(p, "retire", IF seen[p] = {t} THEN "retireRmdir" ELSE "retire")
        /\ entries' = entries \ {t}
        /\ filled' = filled \ {t}
        /\ stale' = FALSE
        /\ seen' = [seen EXCEPT ![p] = @ \ {t}]
        /\ UNCHANGED kind

\* unlinkObservedEntries: unlink exactly the files the observation names; one
\* that is gone means another recoverer owns the recovery.
RetireEntry(p) ==
    \E t \in seen[p] :
        \/ /\ t \in entries
           /\ Goto(p, "retire", IF seen[p] = {t} THEN "retireRmdir" ELSE "retire")
           /\ entries' = entries \ {t}
           /\ filled' = filled \ {t}
           /\ stale' = FALSE
           /\ seen' = [seen EXCEPT ![p] = @ \ {t}]
           /\ UNCHANGED kind
        \/ /\ t \notin entries
           /\ Goto(p, "retire", "wait")
           /\ seen' = [seen EXCEPT ![p] = {}]
           /\ UNCHANGED fs

\* The legacy lock is the file itself: unlink fails on a successor directory,
\* and the path is never rmdir-ed.
RetireLegacy(p) ==
    \/ /\ kind \in Legacy
       /\ Goto(p, "retireLegacy", "mkdir")
       /\ kind' = "absent"
       /\ stale' = FALSE
       /\ UNCHANGED <<entries, filled, seen>>
    \/ /\ kind \notin Legacy
       /\ Goto(p, "retireLegacy", "wait")
       /\ UNCHANGED <<fs, seen>>

\* removeEmptyLockDirectory at the end of a recovery: ENOENT counts as
\* recovered, ENOTEMPTY as a new token that must not be touched.
RetireRmdir(p) ==
    /\ Goto(p, "retireRmdir", IF entries = {} THEN "mkdir" ELSE "wait")
    /\ Rmdir
    /\ UNCHANGED seen

WaitOrGiveUp(p) ==
    /\ \/ Goto(p, "wait", "mkdir")
       \/ CanTimeOut /\ Goto(p, "wait", "timedOut")
    /\ UNCHANGED <<fs, seen>>

-----------------------------------------------------------------------------
(* releaseOwnedLock, after the critical section.                           *)

\* A plausible slip: a directory with other records in it is somebody else's.
ReleaseIfAlone(p) ==
    \/ /\ filled = {p}
       /\ Goto(p, "cs", "releaseRmdir")
       /\ entries' = entries \ {p}
       /\ filled' = filled \ {p}
       /\ stale' = FALSE
       /\ UNCHANGED <<kind, seen>>
    \/ /\ filled # {p}
       /\ Goto(p, "cs", "done")
       /\ UNCHANGED <<fs, seen>>

Release(p) ==
    \/ /\ p \in filled
       /\ Goto(p, "cs", "releaseRmdir")
       /\ entries' = entries \ {p}
       /\ filled' = filled \ {p}
       /\ stale' = FALSE
       /\ UNCHANGED <<kind, seen>>
    \/ /\ p \notin filled
       /\ Goto(p, "cs", "done")
       /\ UNCHANGED <<fs, seen>>

ReleaseRmdir(p) ==
    /\ Goto(p, "releaseRmdir", "done")
    /\ Rmdir
    /\ UNCHANGED seen

-----------------------------------------------------------------------------
(* A system call that fails.                                               *)

\* Where a call goes on if its next system call fails, all of it undone: mkdir and the
\* owner write throw, the latter after a removeEmptyLockDirectory; a recoverer and a
\* release let a failed rmdir pass for ENOTEMPTY, a recoverer a failed unlink for a lost
\* race; and a release whose record cannot be read returns, as one whose record cannot
\* be unlinked throws, with the record left.
AfterError ==
    [mkdir |-> "failed", write |-> "rejected", fill |-> "rejected", rejected |-> "failed",
     cleanup |-> "observe", retire |-> "wait", retireLegacy |-> "wait", retireRmdir |-> "wait",
     cs |-> "left", releaseRmdir |-> "done"]

Fails(p) ==
    /\ pc[p] \in DOMAIN AfterError
    /\ pc' = [pc EXCEPT ![p] = AfterError[pc[p]]]
    /\ seen' = [seen EXCEPT ![p] = {}]

\* readOwner in observeLock: an owner that cannot be read is a malformed one.
Misreads(p) ==
    /\ pc[p] = "observe" /\ kind # "absent"
    /\ pc' = [pc EXCEPT ![p] = IF ~stale THEN "wait"
                               ELSE IF kind \in Legacy THEN "retireLegacy"
                               ELSE IF entries = {} THEN "retireRmdir" ELSE "retire"]
    /\ seen' = [seen EXCEPT ![p] = IF stale THEN entries ELSE {}]

IoError(p) ==
    /\ ioErrors < MaxIoErrors
    /\ ioErrors' = ioErrors + 1
    /\ Fails(p) \/ Misreads(p)
    /\ UNCHANGED fs

-----------------------------------------------------------------------------
(* The environment.                                                        *)

\* The process of the older release removes its lock, or is killed.
LegacyEnds ==
    /\ kind = "legacyLive"
    /\ kind' \in {"absent", "legacyDead"}
    /\ stale' = FALSE
    /\ UNCHANGED <<pc, entries, filled, seen, ioErrors>>

\* A process is killed; its PID may be given to another process.
Crash(p) ==
    /\ pc[p] \in LiveStates \ {"idle", "done", "timedOut", "failed"}
    /\ \E d \in DeadStates : pc' = [pc EXCEPT ![p] = d]
    /\ UNCHANGED <<fs, seen, ioErrors>>

\* The lock path has not changed for staleMs.  Ten minutes are long enough for
\* every live call to leave its short sequence of system calls.
Age ==
    /\ StaleElapses
    /\ kind # "absent"
    /\ ~stale
    /\ \A p \in Proc : pc[p] \notin Windows
    /\ stale' = TRUE
    /\ UNCHANGED <<pc, kind, entries, filled, seen, ioErrors>>

Step(p) ==
    \/ MakeDirectory(p) \/ CreateRecord(p) \/ FillRecord(p) \/ CleanUp(p)
    \/ Observe(p) \/ RetireEntry(p) \/ RetireLegacy(p) \/ RetireRmdir(p)
    \/ WaitOrGiveUp(p) \/ Release(p) \/ ReleaseRmdir(p)

Next ==
    \/ \E p \in Proc : Start(p) \/ Step(p) \/ IoError(p) \/ Crash(p)
    \/ Age \/ LegacyEnds

Spec == Init /\ [][Next]_vars

\* A call that has started runs on until it ends or is killed, time passes, and the
\* process of the older release does not hold its lock for ever.
Fairness ==
    /\ \A p \in Proc : WF_vars(Step(p))
    /\ WF_vars(Age) /\ WF_vars(LegacyEnds)

FairSpec == Spec /\ Fairness

-----------------------------------------------------------------------------
(* Properties.                                                             *)

\* At most one call runs its critical section (withFileMutationLock: "one
\* synchronous critical section under an exclusive cross-process lock").
MutualExclusion ==
    \A p, q \in Proc : pc[p] = "cs" /\ pc[q] = "cs" => p = q

\* As long as a call runs its critical section its owner record is the only
\* one in the lock directory: no waiter has reaped a live owner, and a crash at
\* this point leaves a record that says whom to recover from.
LiveHolderKeepsRecord ==
    \A p \in Proc : pc[p] = "cs" => entries = {p} /\ filled = {p}

\* The lock implements its ownership promise (LockOwnership), step by step: the
\* owner record on disk is the ownership.  It passes to a call only from nobody,
\* and is taken away only by its owner or from a dead one.
Ownership == INSTANCE LockOwnership WITH
    holder <- IF filled = {} THEN None ELSE CHOOSE p \in filled : TRUE,
    dead   <- {p \in Proc : pc[p] \in DeadStates}

OwnershipSpec == Ownership!Spec

\* A call that has returned has left no owner record.  Its process may live for
\* days, and nobody would ever take such a record for abandoned.  The one exception
\* is a release that cannot read or unlink its own record, and then has to leave it
\* ("left").
NothingLeftBehind ==
    \A p \in Proc : pc[p] \in {"done", "timedOut"} => p \notin entries

\* Every call that starts gets the lock, or is killed, or throws because of an I/O
\* error: whatever a killed process or a failed system call leaves at the lock path,
\* somebody clears it.  Two things could make a call wait for ever: calls that remove
\* each other's fresh directories without end, and a release that left its record
\* in a process that lives on.  (No waiter gives up here.)
EveryCallResolves ==
    <>[](\A q \in Proc : pc[q] \notin {"cleanup", "left"})
        => \A p \in Proc :
             pc[p] = "mkdir" ~> pc[p] \in {"done", "failed", "left"} \cup DeadStates
=============================================================================
