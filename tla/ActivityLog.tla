---------------------------- MODULE ActivityLog ----------------------------
(***************************************************************************)
(* The activity log: hooks append rows, `interlinked sync` uploads them    *)
(* from a byte cursor, `interlinked compact` moves a prefix into a gzip    *)
(* segment while rows keep arriving, `interlinked clean` truncates.        *)
(*                                                                         *)
(* Rows are numbered in the order of their appends and all have length 1,  *)
(* so that a byte offset counts rows.  A file is identified by its inode.  *)
(* A compaction holds the file-mutation lock across several steps, in any  *)
(* of which it may be killed; that lock is LockOwnership, which            *)
(* FileMutationLock implements.  Appends, checkpoints and truncations hold *)
(* it for one step each.                                                   *)
(***************************************************************************)
EXTENDS Integers, FiniteSets, SequencesExt

CONSTANTS
    Compactor,   \* places where compact commands run, one after another
    Syncer,      \* places where sync commands run
    FirstRows,   \* rows in the log at the beginning
    MaxRows,     \* rows ever appended
    Chained,     \* rows that carry the audit hash chain
    KeepRecent,  \* rows that compact always keeps live
    TailRows,    \* rows that clean keeps
    AuditRows,   \* rows in which the writer of a chained row looks for its predecessor
    PageRows,    \* rows of one page of an upload
    MaxKills,    \* compact commands killed
    Overlap,     \* compact commands may run at the same time
    KillAlone,   \* .. and then none of them is killed
    Cleans,      \* clean is run once
    Tears,       \* a sync command is killed once while it writes sync-state.json
    None

ASSUME BoundsAssumption ==
    /\ IsFiniteSet(Compactor) /\ IsFiniteSet(Syncer)
    /\ {FirstRows, MaxRows, TailRows, AuditRows, PageRows} \subseteq Nat \ {0}
    /\ FirstRows <= MaxRows
    /\ Chained \subseteq 1..MaxRows
    /\ {KeepRecent, MaxKills} \subseteq Nat
    /\ Overlap \in BOOLEAN /\ KillAlone \in BOOLEAN
    /\ Cleans \in BOOLEAN /\ Tears \in BOOLEAN

VARIABLES
    live,      \* activity.jsonl: its inode and its rows
    appended,  \* the number of rows ever appended
    link,      \* for a chained row, the row that its previousHash names, or 0
    cursor,    \* synced_through_bytes of sync-state.json
    segments,  \* manifest.json
    gz,        \* the segment files with their rows, in the order of their numbers
    claim,     \* .pending-activity-rotation.json, or None
    holder,    \* who holds the mutation lock
    dead,      \* killed compact commands
    pc, job,   \* compact: where each command stands, and what it knows
    spc, sjob, \* the same for sync
    sent,      \* rows the server has
    torn,      \* that sync command was killed
    waived,    \* rows archived unsent because of compact --all
    dropped    \* rows discarded by clean

log      == <<live, appended, link>>
archive  == <<segments, gz, claim>>
lock     == <<holder, dead>>
compact  == <<pc, job>>
sync     == <<spc, sjob, torn>>
server   == <<sent, waived, dropped>>
vars     == <<log, cursor, archive, lock, compact, sync, server>>

L == INSTANCE LockOwnership WITH Proc <- Compactor

-----------------------------------------------------------------------------
(* Files, segments and what the commands remember of them.                 *)

Size == Len(live.rows)

Smaller(a, b) == IF a < b THEN a ELSE b

Pending(s) == s.pending # None

PendingAt == {i \in DOMAIN segments : Pending(segments[i])}

\* The first segment of the manifest with a pending_live_drop, or None.
PendingSegment ==
    IF PendingAt = {} THEN None
    ELSE segments[CHOOSE i \in PendingAt : \A h \in PendingAt : i <= h]

\* The manifest with another pending_live_drop, or None, for segment seq.
WithPending(seq, drop) ==
    [i \in DOMAIN segments |->
        IF segments[i].seq = seq THEN [segments[i] EXCEPT !.pending = drop] ELSE segments[i]]

\* The pending_live_drop that a claim leads to, and a claim-less one.
Drop(k) == [source |-> k.source, replacement |-> k.replacement, cursor |-> k.cursor]

InodesOf(k) == IF k = None THEN {} ELSE {k.source, k.replacement}

\* The inodes that somebody may still compare with.  A new file has another
\* one: that a file system gives out a freed inode while its number is still
\* remembered is left out.
Remembered ==
    {0, live.ino}
    \cup InodesOf(claim)
    \cup (UNION {InodesOf(segments[i].pending) : i \in DOMAIN segments})
    \cup (UNION {InodesOf(job[c].claim) \cup {job[c].source} : c \in Compactor})
    \cup (UNION {IF job[c].pending = None THEN {} ELSE InodesOf(job[c].pending.pending) :
                   c \in Compactor})
    \cup {sjob[s].ino : s \in Syncer}

Inodes == 1 .. 4 + 2 * Len(segments) + 5 * Cardinality(Compactor) + Cardinality(Syncer)

\* ino is the least inode for a new file.
Unused(ino) == ino \notin Remembered /\ \A i \in Inodes \ Remembered : ino <= i

NoJob  == [kind |-> "none", source |-> 0, size |-> 0, cursor |-> 0, pending |-> None,
           claim |-> None, copied |-> 0, verified |-> FALSE]
NoSync == [ino |-> 0, end |-> 0, from |-> 0, to |-> 0, page |-> {}]

-----------------------------------------------------------------------------
(* At first the log has some rows and nothing is uploaded; or an older     *)
(* release, which wrote no claims, left a pending drop of the first row,   *)
(* cut no further than the last chained row either.                        *)

\* AUDIT_TAIL_BYTES: as far back as the writer of a chained row reads.
AuditTail(rows) == {i \in DOMAIN rows : i > Len(rows) - AuditRows}

\* readPreviousAuditHash: the newest chained row of that tail, or 0 (GENESIS_HASH).
LastChained(rows) ==
    LET chained == {rows[i] : i \in AuditTail(rows)} \cap Chained
    IN  IF chained = {} THEN 0 ELSE CHOOSE r \in chained : \A q \in chained : q <= r

Init ==
    /\ appended = FirstRows
    /\ live = [ino |-> 1, rows |-> [i \in 1..FirstRows |-> i]]
    /\ link = [r \in 1..FirstRows \cap Chained |-> LastChained([i \in 1..(r - 1) |-> i])]
    /\ cursor = 0
    /\ claim = None
    /\ \/ segments = <<>> /\ gz = <<>> /\ sent = {}
       \/ /\ 1 \in Chained => \E r \in 2..FirstRows : r \in Chained
          /\ segments = <<[seq |-> 1, rows |-> <<1>>,
                           pending |-> [source |-> 1, replacement |-> 2, cursor |-> 0]]>>
          /\ gz = <<<<1>>>>
          /\ sent = {1}
    /\ L!Init
    /\ pc = [c \in Compactor |-> "idle"] /\ job = [c \in Compactor |-> NoJob]
    /\ spc = [s \in Syncer |-> "idle"] /\ sjob = [s \in Syncer |-> NoSync]
    /\ torn = FALSE
    /\ waived = {} /\ dropped = {}

-----------------------------------------------------------------------------
(* Writers that hold the lock for one step.                                *)

Free == holder = None

\* appendLocal, appendGuardDecision, appendChainedAuditRecord: a chained row
\* links to the newest chained row in the tail of the live file.
AddRow ==
    LET r == appended + 1 IN
    /\ Free
    /\ r <= MaxRows
    /\ appended' = r
    /\ live' = [live EXCEPT !.rows = Append(@, r)]
    /\ link' = IF r \in Chained
               THEN [q \in DOMAIN link \cup {r} |->
                       IF q = r THEN LastChained(live.rows) ELSE link[q]]
               ELSE link
    /\ UNCHANGED <<cursor, archive, lock, compact, sync, server>>

\* Where the tail begins was looked up before, perhaps when the file was shorter.
Truncate ==
    /\ cursor' = 0
    /\ \E cut \in 1..(Size - TailRows), ino \in Inodes :
         /\ Unused(ino)
         /\ live' = [ino |-> ino, rows |-> SubSeq(live.rows, cut + 1, Size)]
         /\ dropped' = ToSet(SubSeq(live.rows, 1, cut))
    /\ UNCHANGED <<appended, link, archive, lock, compact, sync, sent, waived>>

\* A plausible slip: the tail is taken whatever a compact command has begun.
CleanRegardless ==
    /\ Free
    /\ Cleans /\ dropped = {}
    /\ Truncate

\* truncateActivityTail: refused while a rotation is pending; the cursor is reset
\* before the file is replaced.
Clean ==
    /\ Free
    /\ Cleans /\ dropped = {}
    /\ claim = None /\ PendingSegment = None
    /\ Truncate

-----------------------------------------------------------------------------
(* Compaction: compactActivityLog.                                         *)

Become(c, state, j) ==
    /\ pc' = [pc EXCEPT ![c] = state]
    /\ job' = [job EXCEPT ![c] = j]

Stay(c, state) == Become(c, state, job[c])

\* The command ends, with a result or with an error that it prints.
End(c) == Become(c, "idle", NoJob)

At(c, state) == pc[c] = state /\ c \notin dead

Alone(c) == \A d \in Compactor \ {c} : pc[d] = "idle"

Reading == UNCHANGED <<log, cursor, archive, lock, sync, server>>

\* fileIdentity, statSync, readActivitySyncState, all without the lock.
Begin(c) ==
    /\ At(c, "idle")
    /\ Overlap \/ Alone(c)
    /\ \E kind \in {"rotate", "rotateAll"} :
         Become(c, "manifest", [NoJob EXCEPT !.kind = kind, !.source = live.ino,
                                             !.size = Size, !.cursor = cursor])
    /\ Reading

\* resumePendingActivityRotation reads the manifest ..
ReadManifest(c) ==
    /\ At(c, "manifest")
    /\ Become(c, "claim", [job[c] EXCEPT !.pending = PendingSegment])
    /\ Reading

\* assertActivityPendingMatchesClaim
Matches(s, k) ==
    /\ s.seq = k.seq
    /\ s.rows = k.rows
    /\ s.pending = Drop(k)

Published(k) == k.seq \in DOMAIN gz /\ gz[k.seq] = k.rows

\* recoverClaimedActivityRotation: the claim's inodes say how far it came.
Resume(c, k) ==
    \/ /\ live.ino = k.replacement
       /\ Published(k)
       /\ Become(c, "lock", [NoJob EXCEPT !.kind = "finish", !.source = k.replacement,
                                          !.claim = k])
    \/ /\ live.ino = k.source
       /\ Become(c, "prepare", [NoJob EXCEPT !.kind = "resume", !.source = k.source,
                                             !.claim = k])
    \/ /\ live.ino # k.source
       /\ live.ino = k.replacement => ~Published(k)
       /\ End(c)

\* recoverPendingActivityRotation, for a drop without a claim: it reads the
\* manifest again, and must find the archived rows at the start of the log.
ResumeOld(c, s) ==
    IF /\ s # None
       /\ live.ino = s.pending.source
       /\ Len(s.rows) <= Size /\ s.rows = SubSeq(live.rows, 1, Len(s.rows))
       /\ s.seq \in DOMAIN gz /\ gz[s.seq] = s.rows
    THEN Become(c, "prepare",
           [NoJob EXCEPT !.kind = "old", !.source = s.pending.source,
                         !.claim = [seq |-> s.seq, rows |-> s.rows, source |-> live.ino,
                                    replacement |-> 0, cursor |-> s.pending.cursor]])
    ELSE End(c)

\* A plausible slip: a claim without a manifest entry is left for somebody else.
ReadClaimIfPending(c) ==
    /\ At(c, "claim")
    /\ \/ /\ job[c].pending = None
          /\ Become(c, "prepare", job[c])
       \/ /\ claim = None /\ job[c].pending # None
          /\ ResumeOld(c, PendingSegment)
       \/ /\ claim # None
          /\ job[c].pending # None /\ Matches(job[c].pending, claim)
          /\ Resume(c, claim)
       \/ /\ claim # None
          /\ job[c].pending # None /\ ~Matches(job[c].pending, claim)
          /\ End(c)
    /\ Reading

\* .. and then the claim.
ReadClaim(c) ==
    /\ At(c, "claim")
    /\ \/ /\ claim = None /\ job[c].pending = None
          /\ Become(c, "prepare", job[c])
       \/ /\ claim = None /\ job[c].pending # None
          /\ ResumeOld(c, PendingSegment)
       \/ /\ claim # None
          /\ job[c].pending # None => Matches(job[c].pending, claim)
          /\ Resume(c, claim)
       \/ /\ claim # None
          /\ job[c].pending # None /\ ~Matches(job[c].pending, claim)
          /\ End(c)
    /\ Reading

\* A plausible slip: only the cursor and the recent tail bound the prefix.
PlanCutUnaudited(j) ==
    LET synced == IF j.kind = "rotateAll" THEN j.size ELSE j.cursor
    IN  Smaller(synced, j.size - KeepRecent)

\* planCut: the rows that may leave the live file.  The last chained row stays.
PlanCut(j) ==
    LET rows   == SubSeq(live.rows, 1, j.size)
        synced == IF j.kind = "rotateAll" THEN j.size ELSE j.cursor
        recent == Smaller(synced, j.size - KeepRecent)
        heads  == {i \in 1..j.size : rows[i] \in Chained}
    IN  IF heads = {} THEN recent
        ELSE Smaller(recent, (CHOOSE i \in heads : \A h \in heads : h <= i) - 1)

CursorInvalid(j) == j.kind = "rotate" /\ j.cursor > j.size

\* A plausible slip: the bytes cut off are not taken from a smaller cursor's zero.
LoweredNegative(n, cut) == n - cut

\* Math.max(0, syncedBytes - cutByte)
Lowered(n, cut) == IF n > cut THEN n - cut ELSE 0

Rotates(c) == job[c].kind \in {"rotate", "rotateAll"}

\* planCut, gzipFileRange, snapshotSuffix and copyFileRange read the live path
\* without the lock.  The identity check of snapshotSuffix comes after them, and
\* the rows of one inode only grow, so they all read what is there now.
Prepare(c) ==
    LET j   == job[c]
        cut == PlanCut(j)
        new == [seq |-> 0, rows |-> SubSeq(live.rows, 1, cut), source |-> live.ino,
                replacement |-> 0, cursor |-> Lowered(j.cursor, cut)]
        \* What a resumed claim must find under its segment's name, if anything.
        foreign == j.claim.seq \in DOMAIN gz /\ ~Published(j.claim)
        Copied(k, ino) ==
            Become(c, "lock", [j EXCEPT !.claim = [k EXCEPT !.replacement = ino],
                                        !.copied = Size, !.verified = Published(k)])
    IN
    /\ At(c, "prepare")
    /\ \/ /\ live.ino # j.source
          /\ End(c)
       \/ /\ live.ino = j.source
          /\ IF Rotates(c) THEN CursorInvalid(j) \/ cut <= 0 ELSE foreign
          /\ End(c)
       \/ /\ live.ino = j.source
          /\ Rotates(c)
          /\ ~CursorInvalid(j) /\ cut > 0
          /\ \E ino \in Inodes : Unused(ino) /\ Copied(new, ino)
       \/ /\ live.ino = j.source
          /\ ~Rotates(c)
          /\ ~foreign
          /\ \E ino \in Inodes : Unused(ino) /\ Copied(j.claim, ino)
    /\ Reading

\* commitSuffix, and the finishing branch of a recovery: the lock, then the
\* identity again.
Enter(c) ==
    /\ At(c, "lock")
    /\ L!Take(c)
    /\ Stay(c, IF live.ino # job[c].source THEN "unlock"
               ELSE IF job[c].kind = "finish" THEN "complete"
               ELSE "publish")
    /\ UNCHANGED <<log, cursor, archive, sync, server>>

Locked == UNCHANGED <<appended, link, lock, sync, sent, dropped>>

\* A plausible slip: the prepared copy is renamed into place as it is.
CaughtUpNothing(c) == <<>>

\* catchUpSuffix: what was appended after the copy.
CaughtUp(c) == SubSeq(live.rows, job[c].copied + 1, Size)

\* createRotationClaim, or replaceRotationClaim with the new replacement, or for
\* a claim-less drop the same in the manifest.
Publish(c) ==
    LET k == [job[c].claim EXCEPT !.seq = Len(gz) + 1] IN
    /\ At(c, "publish")
    /\ \/ /\ Rotates(c) /\ claim # None
          /\ Stay(c, "unlock")
          /\ UNCHANGED <<claim, segments, waived>>
       \/ /\ Rotates(c) /\ claim = None
          /\ claim' = k
          /\ waived' = IF job[c].kind = "rotateAll"
                       THEN waived \cup (ToSet(k.rows) \ sent) ELSE waived
          /\ Become(c, "link", [job[c] EXCEPT !.claim = k])
          /\ UNCHANGED segments
       \/ /\ job[c].kind = "resume" /\ claim = None
          /\ Stay(c, "unlock")
          /\ UNCHANGED <<claim, segments, waived>>
       \/ /\ job[c].kind = "resume" /\ claim # None
          /\ claim' = job[c].claim
          /\ Stay(c, "link")
          /\ UNCHANGED <<segments, waived>>
       \/ /\ job[c].kind = "old"
          /\ segments' = WithPending(job[c].claim.seq, Drop(job[c].claim))
          /\ Stay(c, "cursor")
          /\ UNCHANGED <<claim, waived>>
    /\ Locked
    /\ UNCHANGED <<live, cursor, gz>>

\* publishOrVerifyClaimedSegment: a hard link under the final name, or a file of
\* that name whose digest was verified before the lock was taken.
LinkSegment(c) ==
    LET k == job[c].claim IN
    /\ At(c, "link")
    /\ \/ /\ k.seq \notin DOMAIN gz
          /\ gz' = Append(gz, k.rows)
          /\ Stay(c, "store")
       \/ /\ k.seq \in DOMAIN gz
          /\ Stay(c, IF job[c].verified THEN "store" ELSE "unlock")
          /\ UNCHANGED gz
    /\ Locked
    /\ UNCHANGED <<live, cursor, segments, claim, waived>>

\* The first write of storeClaimedActivitySegment: the manifest.  An entry of that
\* number must be this segment, and still pending.
StoreSegment(c) ==
    LET k     == job[c].claim
        known == {i \in DOMAIN segments : segments[i].seq = k.seq}
    IN
    /\ At(c, "store")
    /\ IF \A i \in known : Pending(segments[i]) /\ segments[i].rows = k.rows
       THEN /\ segments' = IF known = {}
                           THEN Append(segments, [seq |-> k.seq, rows |-> k.rows,
                                                  pending |-> Drop(k)])
                           ELSE WithPending(k.seq, Drop(k))
            /\ Stay(c, "cursor")
       ELSE /\ Stay(c, "unlock")
            /\ UNCHANGED segments
    /\ Locked
    /\ UNCHANGED <<live, cursor, gz, claim, waived>>

\* A plausible slip: the offset in the old file is kept.
WriteCursorUnlowered(c) ==
    /\ At(c, "cursor")
    /\ Stay(c, IF job[c].kind = "finish" THEN "unclaim" ELSE "rename")
    /\ Locked
    /\ UNCHANGED <<live, cursor, archive, waived>>

\* writeCursor
WriteCursor(c) ==
    /\ At(c, "cursor")
    /\ cursor' = job[c].claim.cursor
    /\ Stay(c, IF job[c].kind = "finish" THEN "unclaim" ELSE "rename")
    /\ Locked
    /\ UNCHANGED <<live, archive, waived>>

\* renameSync in commitSuffix.
Rename(c) ==
    LET k == job[c].claim IN
    /\ At(c, "rename")
    /\ live' = [ino  |-> k.replacement,
                rows |-> SubSeq(live.rows, Len(k.rows) + 1, job[c].copied) \o CaughtUp(c)]
    /\ Stay(c, "complete")
    /\ Locked
    /\ UNCHANGED <<cursor, archive, waived>>

\* completeSegment: the drop is no longer pending.
Complete(c) ==
    /\ At(c, "complete")
    /\ segments' = WithPending(job[c].claim.seq, None)
    /\ Stay(c, CASE job[c].kind = "finish" -> "cursor"
                 [] job[c].kind = "old"    -> "unlock"
                 [] OTHER                  -> "unclaim")
    /\ Locked
    /\ UNCHANGED <<live, cursor, gz, claim, waived>>

\* removeRotationClaim unlinks the claim by its name.
Unclaim(c) ==
    /\ At(c, "unclaim")
    /\ claim' = None
    /\ Stay(c, "unlock")
    /\ Locked
    /\ UNCHANGED <<live, cursor, segments, gz, waived>>

Leave(c) ==
    /\ At(c, "unlock")
    /\ L!Release(c)
    /\ End(c)
    /\ UNCHANGED <<log, cursor, archive, sync, server>>

CompactStep(c) ==
    \/ ReadManifest(c) \/ ReadClaim(c) \/ Prepare(c) \/ Enter(c)
    \/ Publish(c) \/ LinkSegment(c) \/ StoreSegment(c) \/ WriteCursor(c)
    \/ Rename(c) \/ Complete(c) \/ Unclaim(c) \/ Leave(c)

\* The process is killed; temporaries and the lock stay behind.
Kill(c) ==
    /\ pc[c] # "idle"
    /\ Cardinality(dead) < MaxKills
    /\ KillAlone => Alone(c)
    /\ L!Die(c)
    /\ End(c)
    /\ UNCHANGED <<log, cursor, archive, sync, server>>

\* A waiter finds the owner of the lock dead.
Revoke(c) ==
    /\ L!Revoke(c)
    /\ UNCHANGED <<log, cursor, archive, compact, sync, server>>

-----------------------------------------------------------------------------
(* The sync command: syncCommand and runBoundedSync.                       *)

SyncBecome(s, state, j) ==
    /\ spc' = [spc EXCEPT ![s] = state]
    /\ sjob' = [sjob EXCEPT ![s] = j]

SyncEnd(s) == SyncBecome(s, "idle", NoSync)

SyncReads == UNCHANGED <<torn, log, cursor, archive, lock, compact, server>>

\* A cursor beyond the file is refused, one at its end has nothing pending.
SyncBegin(s) ==
    /\ spc[s] = "idle"
    /\ cursor < Size
    /\ SyncBecome(s, "capture", [NoSync EXCEPT !.from = cursor])
    /\ SyncReads

\* captureActivitySyncBasis
Capture(s) ==
    /\ spc[s] = "capture"
    /\ Free
    /\ IF cursor = sjob[s].from /\ cursor <= Size
       THEN SyncBecome(s, "read", [sjob[s] EXCEPT !.ino = live.ino, !.end = Size])
       ELSE SyncEnd(s)
    /\ SyncReads

\* getUnsyncedEvents, with the identity before and after the read.
ReadPage(s) ==
    LET j  == sjob[s]
        to == Smaller(j.from + PageRows, j.end)
    IN
    /\ spc[s] = "read"
    /\ IF j.from < j.end /\ live.ino = j.ino
       THEN SyncBecome(s, "upload",
              [j EXCEPT !.to = to, !.page = ToSet(SubSeq(live.rows, j.from + 1, to))])
       ELSE SyncEnd(s)
    /\ SyncReads

\* sendBatch.  The rows arrive, or they do not, or the answer is lost.
UploadAnswered(s) ==
    /\ spc[s] = "upload"
    /\ sent' = sent \cup sjob[s].page
    /\ SyncBecome(s, "checkpoint", [sjob[s] EXCEPT !.page = {}])
    /\ UNCHANGED <<torn, log, cursor, archive, lock, compact, waived, dropped>>

UploadFails(s) ==
    /\ spc[s] = "upload"
    /\ \/ sent' = sent \cup sjob[s].page
       \/ sent' = sent
    /\ SyncEnd(s)
    /\ UNCHANGED <<torn, log, cursor, archive, lock, compact, waived, dropped>>

\* A plausible slip: the cursor alone says that nothing has changed.
BasisHoldsByCursor(s) == cursor \in {sjob[s].from, sjob[s].to}

\* checkpointSyncState: the same file, long enough, and nobody else's cursor.
BasisHolds(s) ==
    /\ live.ino = sjob[s].ino
    /\ sjob[s].to <= Size
    /\ cursor \in {sjob[s].from, sjob[s].to}

Checkpoint(s) ==
    /\ spc[s] = "checkpoint"
    /\ Free
    /\ IF BasisHolds(s)
       THEN /\ cursor' = sjob[s].to
            /\ SyncBecome(s, "read", [sjob[s] EXCEPT !.from = sjob[s].to])
       ELSE /\ SyncEnd(s)
            /\ UNCHANGED cursor
    /\ UNCHANGED <<torn, log, archive, lock, compact, server>>

\* Killed inside updateSyncState: a malformed file reads as a cursor of 0.
CheckpointTorn(s) ==
    /\ spc[s] = "checkpoint"
    /\ Free
    /\ BasisHolds(s) /\ cursor # sjob[s].to
    /\ Tears /\ ~torn
    /\ torn' = TRUE
    /\ cursor' = 0
    /\ SyncEnd(s)
    /\ UNCHANGED <<log, archive, lock, compact, server>>

\* What a sync command does of itself once it has begun.
SyncStep(s) ==
    Capture(s) \/ ReadPage(s) \/ UploadAnswered(s) \/ UploadFails(s) \/ Checkpoint(s)

-----------------------------------------------------------------------------
Next ==
    \/ AddRow \/ Clean
    \/ \E c \in Compactor : Begin(c) \/ CompactStep(c) \/ Kill(c) \/ Revoke(c)
    \/ \E s \in Syncer : SyncBegin(s) \/ SyncStep(s) \/ CheckpointTorn(s)

Spec == Init /\ [][Next]_vars

\* Compact and sync are run again and again, every command that is not killed
\* goes on, a dead owner's lock is recovered by whoever waits, and a server that
\* is asked often enough answers once.
Fairness ==
    /\ \A c \in Compactor : /\ WF_vars(Begin(c)) /\ WF_vars(CompactStep(c))
                            /\ WF_vars(Revoke(c))
    /\ \A s \in Syncer : /\ WF_vars(SyncBegin(s)) /\ WF_vars(SyncStep(s))
                         /\ SF_vars(UploadAnswered(s))

FairSpec == Spec /\ Fairness

-----------------------------------------------------------------------------
Claims   == [seq : Nat, rows : Seq(1..MaxRows), source : Nat, replacement : Nat, cursor : Nat]
Drops    == [source : Nat, replacement : Nat, cursor : Nat]
Segments == [seq : Nat, rows : Seq(1..MaxRows), pending : Drops \cup {None}]
Jobs     == [kind : {"none", "rotate", "rotateAll", "resume", "old", "finish"},
             source : Nat, size : Nat, cursor : Nat, pending : Segments \cup {None},
             claim : Claims \cup {None}, copied : Nat, verified : BOOLEAN]
Syncs    == [ino : Nat, end : Nat, from : Nat, to : Nat, page : SUBSET (1..MaxRows)]

ASSUME RecordAssumption == None \notin Claims \cup Drops \cup Segments \cup Compactor

\* Types; no cursor is ever negative, in the claim or on disk.
TypeOK ==
    /\ live \in [ino : Nat, rows : Seq(1..MaxRows)]
    /\ appended \in 1..MaxRows
    /\ cursor \in Nat
    /\ segments \in Seq(Segments) /\ gz \in Seq(Seq(1..MaxRows))
    /\ claim \in Claims \cup {None}
    /\ L!vars \in (Compactor \cup {None}) \X SUBSET Compactor
    /\ job \in [Compactor -> Jobs] /\ sjob \in [Syncer -> Syncs]
    /\ {sent, waived, dropped} \subseteq SUBSET (1..MaxRows)

\* The segments whose rows have left the live file.
Gone(s) == s.pending = None \/ s.pending.replacement = live.ino

\* Where the rows are: in the archived segments, in manifest order, then in the live
\* file.
Pieces ==
    [i \in 1..Len(segments) + 1 |->
        IF i > Len(segments) THEN live.rows
        ELSE IF Gone(segments[i]) THEN gz[segments[i].seq] ELSE <<>>]

Archived == UNION {ToSet(Pieces[i]) : i \in DOMAIN segments}

\* compact is lossless: at every moment, also between the steps of a rotation or
\* after a kill in it, the archived segments in manifest order and then the live
\* file hold every row that was appended (and not truncated away), once and in
\* order.  (compact.ts:8, "Every byte is preserved")
Lossless ==
    /\ \A i, j \in DOMAIN Pieces :
         \A m \in DOMAIN Pieces[i], n \in DOMAIN Pieces[j] :
            i < j \/ (i = j /\ m < n) => Pieces[i][m] < Pieces[j][n]
    /\ Archived \cup ToSet(live.rows) = 1..appended \ dropped

\* No row is passed over by the upload: whatever lies before the cursor has
\* reached the server, however rotations, crashes, retries and torn checkpoints
\* fall; only compact --all and clean give up rows.
NoRowPassedOver ==
    /\ cursor <= Size
    /\ Archived \cup ToSet(SubSeq(live.rows, 1, cursor)) \subseteq sent \cup waived

\* The audit chain survives rotation: every chained row links to the chained row
\* before it.  It links to none, and so starts a new segment for audit verify, only
\* if clean has discarded that one or it lies further back than the tail that a writer
\* reads; no rotation makes it so.  (compact.ts:14, "the chain continues unbroken across
\* the boundary"; audit-chain.ts:103-109, the bounded tail)
ChainUnbroken ==
    \A r \in DOMAIN link :
        IF \A q \in DOMAIN link : r <= q THEN link[r] = 0
        ELSE \E before \in DOMAIN link :
               /\ before < r
               /\ \A q \in DOMAIN link : q < r => q <= before
               /\ \/ link[r] = before
                  \/ link[r] = 0 /\ (before \in dropped \/ before < r - AuditRows)

\* Whatever a kill leaves of a rotation, the claim still says how to go on: it
\* names the live file, as the old one or the new one, and the manifest, if it
\* has a pending drop, has this one.  (compact.ts:27, "either pre-manifest or
\* post-manifest crashes complete the same sequence")
ClaimRecoverable ==
    Free /\ claim # None =>
        /\ live.ino \in {claim.source, claim.replacement}
        /\ PendingSegment # None => Matches(PendingSegment, claim)

\* An interrupted rotation is completed by a later compact.
RotationCompletes == (claim # None) ~> (claim = None)

\* Every row reaches the server in the end, unless compact --all or clean gave
\* it up: again and again there is nothing left to upload.
EverythingUploaded == []<>(1..appended \subseteq sent \cup waived \cup dropped)
=============================================================================
