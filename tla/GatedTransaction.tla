-------------------------- MODULE GatedTransaction --------------------------
(***************************************************************************)
(* src/src/lib/gated-file-transaction.ts: a command that writes several    *)
(* files captures their content, runs its checks on what it is about to    *)
(* write, stages temporary files, takes the worktree's commit lock,        *)
(* compares every target with what it captured, and renames the staged     *)
(* files one by one.  If one rename fails it takes the earlier ones back.  *)
(* A release of the lock that fails leaves it for good, and is an error    *)
(* even if every file has been written.                                    *)
(*                                                                         *)
(* A member of Txn is one transaction.  Editors and shells write files     *)
(* without the lock, at any time.  A content stands for the kind, the mode *)
(* and the bytes of a file, or for its absence.                            *)
(***************************************************************************)
EXTENDS Naturals, FiniteSets

CONSTANTS
    Txn,      \* transactions
    File,     \* files
    Content,  \* what can stand at a path
    Target,   \* the files of each transaction
    New,      \* what each transaction proposes for them
    MaxEdits, \* writes without the lock
    MaxKills, \* transactions whose process is killed
    None

ASSUME ConfigAssumption ==
    /\ Target \in [Txn -> SUBSET File]
    /\ New \in [Txn -> [File -> Content]]
    /\ None \notin Txn \cup Content

VARIABLES
    disk,     \* the content of each file
    pc,       \* where each transaction stands
    base,     \* its captured content
    captured, \* targets it has captured
    checked,  \* targets it has compared under the lock
    todo,     \* staged files it has still to put in place
    written,  \* files it has put in place and not taken back
    current,  \* files it is about to take back
    report,   \* files it failed to take back
    lock,     \* the token in .interlinked/transactions/commit.lock, or None
    dead,     \* transactions whose process was killed
    edits,    \* the number of writes without the lock
    touched   \* files so written since the lock was taken

own  == <<pc, base, captured, checked, todo, written, current, report>>
vars == <<disk, own, lock, dead, edits, touched>>

States == {"capture", "stage", "lock", "body", "check", "apply", "rollback",
           "releaseDone", "releaseFailed", "done", "failed", "unreleased"}

Ended == {"done", "failed", "unreleased"}

Holding == {"body", "check", "apply", "rollback", "releaseDone", "releaseFailed"}

TypeOK ==
    /\ disk \in [File -> Content]
    /\ pc \in [Txn -> States]
    /\ base \in [Txn -> [File -> Content]]
    /\ {captured, checked, todo, written, current, report}
         \subseteq [Txn -> SUBSET File]
    /\ lock \in Txn \cup {None}
    /\ dead \in SUBSET Txn
    /\ edits \in Nat
    /\ touched \in SUBSET File

Init ==
    /\ disk \in [File -> Content]
    /\ pc = [t \in Txn |-> "capture"]
    /\ base = [t \in Txn |-> disk]
    /\ captured = [t \in Txn |-> {}]
    /\ checked = [t \in Txn |-> {}]
    /\ todo = [t \in Txn |-> {}]
    /\ written = [t \in Txn |-> {}]
    /\ current = [t \in Txn |-> {}]
    /\ report = [t \in Txn |-> {}]
    /\ lock = None
    /\ dead = {}
    /\ edits = 0
    /\ touched = {}

At(t, state) == t \notin dead /\ pc[t] = state

Goto(t, state) == pc' = [pc EXCEPT ![t] = state]

World == UNCHANGED <<dead, edits>>

-----------------------------------------------------------------------------
(* Without the lock: captureGatedWriteBaseline, the gate, stageWrites.     *)

\* A plausible slip: a file that cannot be read counts as captured.
CaptureUnread(t, f) ==
    /\ At(t, "capture")
    /\ f \in Target[t] \ captured[t]
    /\ base' = [base EXCEPT ![t][f] = None]
    /\ captured' = [captured EXCEPT ![t] = @ \cup {f}]
    /\ World
    /\ UNCHANGED <<disk, pc, checked, todo, written, current, report, lock, touched>>

\* snapshot, one target after the other.
CaptureFile(t, f) ==
    /\ At(t, "capture")
    /\ f \in Target[t] \ captured[t]
    /\ base' = [base EXCEPT ![t][f] = disk[f]]
    /\ captured' = [captured EXCEPT ![t] = @ \cup {f}]
    /\ World
    /\ UNCHANGED <<disk, pc, checked, todo, written, current, report, lock, touched>>

EndCapture(t) ==
    /\ At(t, "capture")
    /\ captured[t] = Target[t]
    /\ Goto(t, "stage")
    /\ World
    /\ UNCHANGED <<disk, base, captured, checked, todo, written, current, report, lock,
                   touched>>

\* The targets that are to change; the others are only compared.
Staged(t) == {f \in Target[t] : New[t][f] # base[t][f]}

StageWrites(t) ==
    /\ At(t, "stage")
    /\ todo' = [todo EXCEPT ![t] = Staged(t)]
    /\ Goto(t, "lock")
    /\ World
    /\ UNCHANGED <<disk, base, captured, checked, written, current, report, lock, touched>>

\* The gate refuses the content, or a file cannot be read, staged or created as lock.
GiveUp(t) ==
    /\ t \notin dead /\ pc[t] \in {"capture", "stage", "lock"}
    /\ Goto(t, "failed")
    /\ World
    /\ UNCHANGED <<disk, base, captured, checked, todo, written, current, report, lock,
                   touched>>

\* A plausible slip: the lock file is opened without O_EXCL.
AcquireLockShared(t) ==
    /\ At(t, "lock")
    /\ lock' = t
    /\ touched' = {}
    /\ Goto(t, "body")
    /\ World
    /\ UNCHANGED <<disk, base, captured, checked, todo, written, current, report>>

\* acquireLock: one attempt to create the lock file ..
AcquireLock(t) ==
    /\ At(t, "lock")
    /\ IF lock = None
       THEN /\ lock' = t
            /\ touched' = {}
            /\ Goto(t, "body")
       ELSE /\ Goto(t, "failed")
            /\ UNCHANGED <<lock, touched>>
    /\ World
    /\ UNCHANGED <<disk, base, captured, checked, todo, written, current, report>>

\* .. and its body with the token.
WriteBody(t) ==
    /\ At(t, "body")
    /\ Goto(t, "check")
    /\ World
    /\ UNCHANGED <<disk, base, captured, checked, todo, written, current, report, lock,
                   touched>>

-----------------------------------------------------------------------------
(* Under the lock: commitGatedWrites.                                      *)

\* The body cannot be written (acquireLock then unlinks the file itself, and that may
\* fail like a release), or a snapshot throws: its parent has moved, it is unreadable.
LockedFailure(t) ==
    /\ t \notin dead /\ pc[t] \in {"body", "check"}
    /\ Goto(t, "releaseFailed")
    /\ World
    /\ UNCHANGED <<disk, base, captured, checked, todo, written, current, report, lock,
                   touched>>

\* A plausible slip: only the staged targets are compared.
DriftedStaged(t, f) == f \in Staged(t) /\ disk[f] # base[t][f]

\* sameState
Drifted(t, f) == disk[f] # base[t][f]

\* The first target that has drifted decides; the rest is only read.
CheckFile(t, f) ==
    /\ At(t, "check")
    /\ f \in Target[t] \ checked[t]
    /\ IF Drifted(t, f)
       THEN /\ Goto(t, "releaseFailed")
            /\ UNCHANGED checked
       ELSE /\ checked' = [checked EXCEPT ![t] = @ \cup {f}]
            /\ UNCHANGED pc
    /\ World
    /\ UNCHANGED <<disk, base, captured, todo, written, current, report, lock, touched>>

EndCheck(t) ==
    /\ At(t, "check")
    /\ checked[t] = Target[t]
    /\ Goto(t, "apply")
    /\ World
    /\ UNCHANGED <<disk, base, captured, checked, todo, written, current, report, lock,
                   touched>>

\* A plausible slip: the list of committed files is filled once all are in place.
ApplyUnregistered(t, f) ==
    /\ At(t, "apply")
    /\ f \in todo[t]
    /\ disk' = [disk EXCEPT ![f] = New[t][f]]
    /\ todo' = [todo EXCEPT ![t] = @ \ {f}]
    /\ World
    /\ UNCHANGED <<pc, base, captured, checked, written, current, report, lock, touched>>

\* applyStagedWrite: a rename, or an unlink.
Apply(t, f) ==
    /\ At(t, "apply")
    /\ f \in todo[t]
    /\ disk' = [disk EXCEPT ![f] = New[t][f]]
    /\ todo' = [todo EXCEPT ![t] = @ \ {f}]
    /\ written' = [written EXCEPT ![t] = @ \cup {f}]
    /\ World
    /\ UNCHANGED <<pc, base, captured, checked, current, report, lock, touched>>

EndApply(t) ==
    /\ At(t, "apply")
    /\ todo[t] = {}
    /\ Goto(t, "releaseDone")
    /\ World
    /\ UNCHANGED <<disk, base, captured, checked, todo, written, current, report, lock,
                   touched>>

\* .. or its failure: the disk is full, the parent directory has moved.
ApplyFails(t) ==
    /\ At(t, "apply")
    /\ todo[t] # {}
    /\ Goto(t, "rollback")
    /\ World
    /\ UNCHANGED <<disk, base, captured, checked, todo, written, current, report, lock,
                   touched>>

\* rollbackCommitted: is the file still what this transaction wrote?
RollbackCheck(t, f) ==
    /\ At(t, "rollback")
    /\ current[t] = {}
    /\ f \in written[t]
    /\ IF disk[f] = New[t][f]
       THEN /\ current' = [current EXCEPT ![t] = {f}]
            /\ UNCHANGED <<written, report>>
       ELSE /\ written' = [written EXCEPT ![t] = @ \ {f}]
            /\ report' = [report EXCEPT ![t] = @ \cup {f}]
            /\ UNCHANGED current
    /\ World
    /\ UNCHANGED <<disk, pc, base, captured, checked, todo, lock, touched>>

\* restoreBaseline
Restore(t, f) ==
    /\ At(t, "rollback")
    /\ f \in current[t]
    /\ disk' = [disk EXCEPT ![f] = base[t][f]]
    /\ written' = [written EXCEPT ![t] = @ \ {f}]
    /\ current' = [current EXCEPT ![t] = {}]
    /\ World
    /\ UNCHANGED <<pc, base, captured, checked, todo, report, lock, touched>>

RestoreFails(t, f) ==
    /\ At(t, "rollback")
    /\ f \in current[t]
    /\ written' = [written EXCEPT ![t] = @ \ {f}]
    /\ report' = [report EXCEPT ![t] = @ \cup {f}]
    /\ current' = [current EXCEPT ![t] = {}]
    /\ World
    /\ UNCHANGED <<disk, pc, base, captured, checked, todo, lock, touched>>

EndRollback(t) ==
    /\ At(t, "rollback")
    /\ written[t] = {}
    /\ Goto(t, "releaseFailed")
    /\ World
    /\ UNCHANGED <<disk, base, captured, checked, todo, written, current, report, lock,
                   touched>>

\* releaseLock: by whoever's token it is.
ReleaseLock(t) ==
    /\ t \notin dead /\ pc[t] \in {"releaseDone", "releaseFailed"}
    /\ lock' = IF lock = t THEN None ELSE lock
    /\ Goto(t, IF pc[t] = "releaseDone" /\ lock = t THEN "done" ELSE "failed")
    /\ World
    /\ UNCHANGED <<disk, base, captured, checked, todo, written, current, report, touched>>

\* The token cannot be read, or the unlink fails: the commit throws, that error or the
\* one before it.
ReleaseFails(t) ==
    /\ t \notin dead /\ pc[t] \in {"releaseDone", "releaseFailed"}
    /\ Goto(t, "unreleased")
    /\ World
    /\ UNCHANGED <<disk, base, captured, checked, todo, written, current, report, lock,
                   touched>>

-----------------------------------------------------------------------------
(* The rest of the world.                                                  *)

\* An editor or a shell writes a file.
Edit(f) ==
    /\ edits < MaxEdits
    /\ edits' = edits + 1
    /\ \E v \in Content : disk' = [disk EXCEPT ![f] = v]
    /\ touched' = IF lock = None THEN touched ELSE touched \cup {f}
    /\ UNCHANGED <<own, lock, dead>>

Kill(t) ==
    /\ t \notin dead /\ pc[t] \notin Ended
    /\ Cardinality(dead) < MaxKills
    /\ dead' = dead \cup {t}
    /\ UNCHANGED <<disk, own, lock, edits, touched>>

Step(t) ==
    \/ EndCapture(t) \/ StageWrites(t) \/ GiveUp(t) \/ AcquireLock(t) \/ WriteBody(t)
    \/ LockedFailure(t) \/ EndCheck(t) \/ EndApply(t) \/ ApplyFails(t) \/ EndRollback(t)
    \/ ReleaseLock(t) \/ ReleaseFails(t)

FileStep(t, f) ==
    \/ CaptureFile(t, f) \/ CheckFile(t, f) \/ Apply(t, f)
    \/ RollbackCheck(t, f) \/ Restore(t, f) \/ RestoreFails(t, f)

Next ==
    \/ \E t \in Txn : Step(t) \/ Kill(t)
    \/ \E t \in Txn, f \in File : FileStep(t, f)
    \/ \E f \in File : Edit(f)

Spec == Init /\ [][Next]_vars

-----------------------------------------------------------------------------
(* The refinement.  A file that the transaction at work has put in place   *)
(* and may still take back does not count as changed yet.                  *)

Masked(t) == (written[t] \cup report[t]) \ touched

Visible ==
    [f \in File |->
       IF lock # None /\ lock \notin dead /\ pc[lock] \in {"apply", "rollback"}
          /\ f \in Masked(lock)
       THEN base[lock][f] ELSE disk[f]]

Status ==
    [t \in Txn |->
       CASE pc[t] \in {"releaseDone", "done"}     -> "done"
         [] pc[t] \in {"releaseFailed", "failed"} -> "failed"
         [] pc[t] = "unreleased"                  -> "unreleased"
         [] OTHER -> IF t \in dead THEN "dead" ELSE "open"]

Reported ==
    [t \in Txn |->
       IF pc[t] \in {"releaseFailed", "failed", "unreleased"} THEN report[t] ELSE {}]

A == INSTANCE AtomicFiles
       WITH disk <- Visible, status <- Status, report <- Reported, holder <- lock

\* A transaction commits all its files or none, and only over what it captured: no
\* cooperating command's update is lost, and one that fails before it releases the
\* lock leaves nothing behind but what it reports.  One that fails at the release has
\* written all or none, says nothing of it, and nobody commits after it.
\* (gated-file-transaction.ts:421-427)
AtomicSpec == A!Spec

\* .interlinked/transactions/commit.lock names the one transaction between its
\* creation and the release, dead or alive: nobody else is there, and a transaction
\* that has ended, well or not, has left it behind only if its release failed.
HolderNamed == \A t \in Txn : (pc[t] \in Holding \cup {"unreleased"}) <=> (lock = t)

\* A file that a commit, failed before its release, could neither take back nor report
\* is none: as long as nobody writes without the lock, each target is what it was, or
\* reported.
FailureReported ==
    \A t \in Txn : pc[t] = "releaseFailed" =>
        \A f \in Target[t] \ (report[t] \cup touched) :
            f \in checked[t] => disk[f] = base[t][f]
=============================================================================
