# A TLA+ development of interlinked-cli

`interlinked` puts a harness between a coding agent and a repository. Every tool call of
the agent runs a short-lived *hook* process before and after it; the hook asks a long-lived
*daemon* of the session or repository to judge the call. Hooks, daemons and maintenance
commands of any number of sessions share one directory, `.interlinked/`, and coordinate
through nothing but its files. A coordination server, when one is configured, connects the
daemons of several developers.

So what is hard here is hard in the protocols on shared files: who holds a lock that is a directory,
what a killed process leaves behind, who shows a warning that came too late, what an answer of the
server means when the state it answers is gone. This project models those protocols, and one pure
algorithm, the monitor of temporal rules; it checks them with TLC on small instances, and proves
with TLAPS what the protocols keep safe for every value of their constants. Paths below are relative
to the repository root.

## 1. Inventory

| Component | State | Operations | Interacts with | Module |
|---|---|---|---|---|
| File mutation lock, `src/lib/file-mutation-lock.ts` | `<path>.interlinked-mutation.lock/owner-<token>.json` | acquire, publish owner, recover, release, give up | every append and every rewrite of a shared log | `FileMutationLock`, `LockOwnership` |
| Post-tool warning spool, `src/harness/server/post-tool-*-spool.ts`, `src/lib/post-tool-warning-spool-client.ts`, `src/hook-entry.ts` | `*.active.json`, `*.ready.json`, `.drain.lock`, the legacy warning file | begin, complete, acknowledge, drain | daemon, post-tool hook, pre-tool hooks | `WarningSpool` |
| File reservations, `src/harness/reservations*.ts` | cache of entries, release timers, cohort's `files_reserved` | check and reserve, schedule release, release, expire, roll back, refresh | hooks, coordination server | `Reservations` |
| Session pid claim, `src/harness/session-daemon*.ts` | pid file, `<pid>.claim` | claim, recover the claim lock, stop | starting daemons | `SessionPidClaim` |
| Session socket and reaping, `src/harness/session-daemon-bind.ts`, `server/anti-stomp.ts` | socket, incumbent process | probe, bind, reap | pid claim | planned |
| Startup lock and supervision, `src/harness/startup-lock.ts`, `supervisor-backoff.ts` | startup lock, spawn ledger | acquire, steal, back off | hooks that start a daemon | planned |
| Activity log and sync, `src/lib/local-activity-sync.ts`, `src/commands/sync*.ts` | JSONL log, cursor in `sync-state.json` | append, select a page, upload, checkpoint | mutation lock, server | `ActivityLog` |
| Compaction and rotation, `src/commands/compact*.ts`, `clean.ts` | gzip segments, manifest with pending drops, durable rotation claim | rotate, resume, truncate | mutation lock, activity log, audit chain | `ActivityLog` |
| Audit chain, `src/lib/audit-chain.ts` | `previousHash` in chained rows | append a link | activity log | `ActivityLog` (links) |
| Asynchronous analysis, `src/harness/async-analysis.ts`, `async-finding-queue.ts` | one running analysis, one stashed request, findings on disk | submit, finish, deliver, evict | post-tool pipeline | planned |
| Type-check scheduling, `src/harness/server/tsc-scheduler-phase.ts`, `project-compiler-lock.ts` | deferred checks, compiler lease | defer, run, steal | post-tool pipeline | planned |
| Gated file transaction, `src/lib/gated-file-transaction.ts` | staged files, captured content, `commit.lock` | capture, stage, commit, roll back | commands that write several files; editors | `GatedTransaction`, `AtomicFiles` |
| Temporal rules, `src/harness/trajectory/ltl/` | a residual formula per rule | evaluate, progress, fold at the end | guard evaluation | `TrajectoryLtl`, `LtlSemantics` |
| RPC dispatcher, `src/harness/daemon-dispatcher.ts` | requests in flight | handle, cancel | hooks | planned last |
| Telemetry spool, coverage ledger, mutation-testing journal, hook bridge journal, checkpoints and guard state | one file or database each | append, rewrite | mutation lock or SQLite | not planned, see section 8 |
| Guard evaluation, check engine, command line | none of their own | pattern matching, running tools, parsing | everything | only the reservation phase, within `Reservations` |

What makes each correct, in a sentence:

- *Mutation lock.* Two calls never run their critical sections at once; a live owner is never
  robbed of its record; whatever a kill leaves behind is cleared.
- *Warning spool.* A published warning is shown, once, and by its own hook if that is still
  alive; no drain drops what is another's to show.
- *Reservations.* Two sessions never write one file on grants that neither has let go of; nobody
  else takes a grant away under the write; what another machine holds comes to block here and stops
  blocking when it is gone.
- *Pid claim.* One daemon owns a session, and the pid file names it; killed claimants do not
  block later ones.
- *Socket and reaping.* A daemon never removes another's live socket, and kills only a process
  whose identity it has verified.
- *Startup lock.* At most one supervisor starts a daemon at a time; failures are backed off.
- *Activity log.* Every row is uploaded at least once, also across a rotation; rows are never
  skipped by a stale cursor.
- *Rotation.* A rotation interrupted at any step can be completed and is; no row is lost or
  doubled, and the audit chain is not cut where a writer would still have read on.
- *Asynchronous analysis.* The newest request of every file is analysed.
- *Compiler lock.* One type check runs at a time and a dead holder's lease is recovered.
- *Gated transaction.* After a failure every file has its old or its new content, and nobody
  else's change is overwritten; a lock that is left says whose it is.
- *Temporal rules.* What the monitor says after any prefix of calls agrees with the meaning of
  the rule over every continuation, and its state stays small.

The hazards that these statements guard against are listed one by one, with their lines, in
`PROJECT.json` (`hazards`); the ones no property covers yet say why.

## 2. The modules

Every action is one step that other processes can see between: one system call together with
the decision it leads to, or, inside the single-threaded daemon, one handler from its start to
its next `await`. Formatting, logging and wording are left out. `PROJECT.json` (`map`) names
the lines behind each definition. Operators marked "a plausible slip" in a comment are
deliberately wrong variants of the definition below them; they are not part of any
specification, and each is there to show that some property notices it.

### FileMutationLock and LockOwnership

A member of `Proc` is one call of `acquireFileMutationLock`; a call draws a fresh token, so call and
token are one. `kind` is what stands at the lock path (nothing, a directory, or the plain file of an
older release with an owner that runs, that is gone, or that does not parse: `Legacy`), `entries`
the owner files in it, `filled` those whose record is written, `stale` whether the directory's mtime
is older than `staleMs`, `seen[p]` what a recoverer observed and still has to unlink.

| Code | Actions |
|---|---|
| `tryCreateLease` | `MakeDirectory`, `CreateRecord`, `FillRecord`, `CleanUp` |
| `observeLock`, `ownerIsAbandoned`, `recoverAbandonedLock` | `Observe` (with `LooksDead`, `AbandonedOwner`, `MalformedAndStale`, `Retirable`) |
| `removeObservedLock` | `RetireEntry`, `RetireLegacy`, `RetireRmdir` |
| the retry loop | `WaitOrGiveUp` |
| `releaseOwnedLock` | `Release`, `ReleaseRmdir` |
| a system call that fails: `mkdir`, the owner write, an unlink, an rmdir, a read | `IoError` (with `Fails`, `AfterError`, `Misreads`) |
| a kill, at any point; the PID may be given to another process | `Crash` |
| an older release's process removes its lock or is killed | `LegacyEnds` |
| ten minutes without a change | `Age` |

The asynchronous acquisition has the same steps and waits differently. Whether the platform can
report a process's start identity is the constant `IdentityProbe`; without it an owner whose PID has
been reused looks alive for good: staleness is only asked where there is no readable owner. A
release whose record cannot be read returns with the record in place, one whose unlink fails throws
with it in place (`left`), and waiters then wait as long as that process lives. `Age` requires that
no live call is between two system calls of one short sequence: these are microseconds apart, and
the code's ten minutes rest on that.

`LockOwnership` is the promise: ownership passes from nobody to a live call, and ends by its
own release or, if its process is dead, by revocation. The refinement mapping takes the filled
owner record as the ownership, and the killed processes as the dead ones.

### WarningSpool

A member of `Req` is one post-tool request. It involves three processes: the post-tool hook
(`client`), the daemon (`server`) and later pre-tool hooks (`Drain`, each a place where hooks
run one after another). `marker` and `ready` are the two files of a request with their ages,
`lease` is `.drain.lock`. `owns` are the requests whose marker the daemon created itself.

| Code | Actions |
|---|---|
| `withPostToolWarningSpool`: begin, run, complete | `BeginSpool`, `CompleteSpool` |
| `runHookEntry`, post-tool: call the daemon, answer or timeout | `SendRequest`, `ReceiveDecision`, `FallBackCold` |
| `acknowledgeSynchronousPostToolResult` | `AckReady`, `AckActive`, `AckLegacy` |
| its output | `EmitDirect`, `ExitCold` |
| `drainLatePostToolWarnings`: lease | `StartDrain`, `TryLease`, `StealLease`, `ReleaseLease`, `Unlock` |
| its scan, sweep and checks per record | `ListReady`, `SweepMarkers`, `CheckActive`, `CheckYoung`, `Skip`, `ConsumeReady`, `ConsumeLegacy` |
| the pre-tool hook's output | `EmitLate` |
| time | `GraceEnds` (the grace of a ready record), `LeaseAges` |
| kills | `KillClient`, `KillDrain`, `KillDaemon` |

A drain reads its clock once, on entry (`StartDrain`), and judges every date by it. `old[d]` are the
files that were past the grace by then; `ahead[d]` those that appeared more than the grace of 250 ms
after it (`Dated`), which the code counts as stale: it sweeps such a marker though its hook is
alive, does not count it as active, and claims and discards such a record, of any session.
`SlowDrains` says whether drains are ever that slow.

`got`, `lost` and `discarded` are history: who showed which request's warnings, what a killed
process took with it, and what a drain threw away as dated ahead. The file system may refuse the
spool's writes (`BeginSpool` and `CompleteSpool` then pass over it, as the code does). No file grows
24 hours old.

### Reservations

The daemon is single-threaded, so every handler is one action: `PreTool` and `PreToolBlocked`
(`evaluateAutoReservation`, `checkAndReserveBatch`, `grant`, and the pruning in `findConflict`),
`PostTool` (`scheduleRelease`), `TimerFires` and `EndSession` (`release`, `releaseAllForAgent`),
`GetAll`, `Rollback` (`rollbackOptimisticGrant`), `AskList` and `ApplyList` (`refreshFromServer`).
`Expire` is the passing of five minutes. Nothing in the code keeps the calls of a session, or of one
agent, from overlapping, so `writes` is a set; and `EndSession` comes at any time, because the scan
for lost agents and a Stop handler that has waited release by name whatever that session is doing.
`kept` is history: what a write was granted and its own session has not let go of since (`LetGo`).
Whether a sibling's reservation blocks is a choice (`enforced` in `Blocks`): it depends on how many
agents the cohort counts, and on an environment variable. A session may act under several names
(`Canon`); timers and the cohort's lists are kept under the name that took the grant, as in the
code. A grant carries a number, which the code does not have: it lets properties tell a grant from a
later one of the same agent at the same path.

The coordination server is external. `ServeReserve`, `ServeRelease`, `ServeList`,
`RemoteReserve`, `ServerFrees` and `Fail` model what the calls of `ServerBridge` rely on;
calls in flight are a set, so they are served in any order, and a call may be lost.
`EntryAssumption` says that no entry of the cache is the same as none.

### SessionPidClaim

A member of `Proc` is one starting daemon. `CreateLock`, `FillLock`, `ReadLock` are
`attemptClaimLock`; `RenameLock`, `ReadMoved`, `Recreate`, `Refill`, `Restore` are
`recoverStaleClaimLock`; `ReadPid`, `CheckBefore`, `RenamePid`, `CheckAfter` are
`claimPidWhileLocked` and `replacePidClaim`; `Unlock` and `RemoveLock` the conditional removal;
`TryAgain` the next attempt or the failure after the last; `Stop`, `RecheckPid` and `RemovePid` the
clean end. Creating a file and writing its record are two steps, and a write goes to the inode
wherever that has been renamed to. All the code asks of a token is whether it belongs to the asker's
present attempt, so a record has that as a flag and needs no counter. `FileAssumption` says that no
file is the same as none.

### ActivityLog

Rows are numbered in the order of their appends and have length 1, so an offset counts rows; a file
is identified by its inode. `live` is `activity.jsonl`, `cursor` the offset in `sync-state.json`,
`segments` the manifest, `gz` the segment files, `claim` the durable
`.pending-activity-rotation.json`. A compact command holds the mutation lock over several steps, in
each of which it may be killed: the lock is `LockOwnership` (INSTANCE), which section 6 proves
`FileMutationLock` to implement as long as no lock directory goes stale without an owner. So this
module is composed with the lock's promise rather than with its protocol. Appends, checkpoints and
truncations hold the lock for one step.

| Code | Actions |
|---|---|
| `appendLocal`, `appendGuardDecision`, `appendChainedAuditRecord` | `AddRow` |
| `truncateActivityTail` | `Clean` |
| `compactActivityLog`: identity, size and cursor, before anything else | `Begin` |
| `resumePendingActivityRotation`, `recoverClaimedActivityRotation`, `recoverPendingActivityRotation` | `ReadManifest`, `ReadClaim` (with `Matches`, `Resume`, `ResumeOld`) |
| `planCut`, `gzipFileRange`, `snapshotSuffix`, `copyFileRange` | `Prepare` |
| `commitSuffix`: lock, identity, catch-up, rename | `Enter`, `Rename`, `Leave` |
| `createRotationClaim`, `replaceRotationClaim` | `Publish` |
| `publishOrVerifyClaimedSegment`, `storeClaimedActivitySegment` | `LinkSegment`, `StoreSegment`, `WriteCursor` |
| `completeSegment`, `removeRotationClaim` | `Complete`, `Unclaim` |
| `syncCommand`, `captureActivitySyncBasis`, `runBoundedSync` | `SyncBegin`, `Capture`, `ReadPage` |
| `sendBatch`, its answer, its failure, a lost answer | `UploadAnswered`, `UploadFails` |
| `checkpointSyncState`; a kill inside its write | `Checkpoint`, `CheckpointTorn` |
| a kill of a compact command; a waiter that recovers its lock | `Kill`, `Revoke` |

`link` keeps, per chained row, the row its `previousHash` names. An append looks for it in the last
64 KB of the log only (`src/lib/audit-chain.ts:51`, `:109`) and starts a new segment of the chain
if it finds none there; the model's window is the last `AuditRows` rows (`AuditTail`). `sent`,
`waived` and `dropped` are history. One initial state has what an older release may have left:
a pending drop in the manifest without a claim. That release planned its cut as this one does, so
the drop spares the newest chained row of the log it was made for. A kill after its rename makes
every later compact refuse it, which is the code's design and why `RotationCompletes` speaks of
claims. `RecordAssumption` says that no claim, drop, segment or command is the same as none.
An inode freed and given out again while a command still remembers its number is left out.

### GatedTransaction and AtomicFiles

A member of `Txn` is one command; `Edit` is an editor or a shell, which takes no lock.

| Code | Actions |
|---|---|
| `captureGatedWriteBaseline` | `CaptureFile`, `EndCapture` |
| the gate; `stageWrites` | `StageWrites`, `GiveUp` |
| `acquireLock`: the file, its body, a body or a snapshot that fails | `AcquireLock`, `WriteBody`, `LockedFailure` |
| `commitGatedWrites`: `sameState` for every target | `CheckFile`, `EndCheck` |
| `applyStagedWrite` | `Apply`, `ApplyFails`, `EndApply` |
| `rollbackCommitted`, `restoreBaseline` | `RollbackCheck`, `Restore`, `RestoreFails`, `EndRollback` |
| `releaseLock`, `releaseFailure` | `ReleaseLock`, `ReleaseFails` |
| a kill | `Kill` |

The code writes in the order of its list; the model in any order, which allows more. Nobody takes
over the lock of a killed command, by design: an operator looks at the half-written files first. The
same lock stays if its release fails (`unreleased`): the token cannot be read, or the unlink fails,
or that of the best-effort cleanup of `acquireLock`. A commit then throws although all its files may
be written, as the repository's own tests have it. `AtomicFiles` is the promise: all targets change
at once, if each is what the transaction saw, or none does; what a failed commit could not take back
is named; and a transaction that is done with its files may keep the lock for good (`KeepLock`). The
refinement mapping shows a file that the transaction at work may still take back as unchanged
(`Visible`). What editors write without the lock while a commit is in progress (`touched`) is
outside the promise.

### TrajectoryLtl and LtlSemantics

`TrajectoryLtl` translates the algebra of `formula.ts`, the residuals of `residual.ts` and the
monitor of `eval.ts` into operators, and lets the monitor step along every trace (`Step`, and
`StepThrows` for a predicate that throws). An event is the set of the predicates that hold at
it. A violation is its onset; the evidence it carries is left out. The monitor runs a rule
and its negation side by side. `LtlSemantics` is the reference definition: linear
temporal logic over periodic infinite runs, independent of residuals.

### MC modules

`MCFileMutationLock` and `MCActivityLog` (symmetry of calls and of compact commands; never
together with liveness), `MCWarningSpool` (the sessions), `MCReservations` (which names are one
session, what a pattern covers), `MCGatedTransaction` (what the two commands write, one of them a
deletion and one a file that is only compared) and `MCTrajectoryLtl` (the rules: every operator
over literals, every operator over some of those, and the shapes of `rules.ts`) define values for
the configurations. `SessionPidClaim` needs none.

## 3. The runs

| Configuration | Instance | Question and answer |
|---|---|---|
| `MutationLock` | 3 calls, no stale directory, no identity probe, 2 failing system calls | Exclusion, the owner's record and the refinement of `LockOwnership` hold, with crashes, PID reuse, timeouts, failing system calls and whatever an earlier process holds or left at the path. |
| `MutationLockRecovery` | 3 calls, stale directories, 2 failing system calls, fair | Every call gets the lock, is killed or throws, whatever a kill left at the path, and a call that returns leaves no record of its own. |
| `WarningSpoolDrains` | 1 request, 2 drains within the grace, 2 kills, fair | Shown, at most once, first by its own hook, whose marker stands meanwhile; nothing dropped. |
| `WarningSpoolSessions` | 2 requests of two sessions, a drain of one of them that may be slow, a legacy file | A drain drops nothing, of its own session or the other, but what is dated ahead of its clock. |
| `Reservations` | 3 names of 2 sessions, 2 files, 3 grants, overlapping calls, no server | No double grant; no timer or expiry, and nothing another session does, takes a grant away under a write. |
| `ReservationsServer` | 1 session, a file and a glob over it, another machine, 2 failed calls, fair | Remote holds arrive in the cache, and leave it. |
| `SessionPidClaim` | 2 claimants, kills, attempts may run out, fair | One owner, named by the pid file; the next claimant recovers anything. |
| `ActivityLog` | 3 rows, 2 compacts, a sync, a clean, a kill | No row lost, doubled or passed over, no cut takes a chained row that a writer would still find, every claim resumable. |
| `ActivityRecovery` | the same one at a time, torn checkpoint, failing server, fair | An interrupted rotation is completed and every row is uploaded. |
| `ActivityTwoKills` | 2 compacts one after the other, each killed | **Violated**: claim and manifest contradict each other (finding 1). |
| `Gated` | 2 commands over 2 files, an edit, a kill, failing renames, restores and releases | The refinement of `AtomicFiles`; the lock names its holder, or who left it; what a failed commit has not taken back is reported. |
| `TrajectoryLtl` | some 1,350 rules, traces of up to 4 calls | Verdicts, onsets, leanings and sizes agree with the semantics. |

No run checks deadlock: calls, hooks, commands and claimants end, and every instance may come to
rest. That nothing *waits* for ever is what the liveness properties say.

Eight more configurations give the counterexamples behind an assumption or a bound of the runs
above, and are run by hand (`tlc -config <name>.cfg <module>`): `MutationLockStale`,
`WarningSpoolSlow`, `ReservationRollback`, `ReservationRefresh`, `ReservationTimer`,
`ReservationOverlap`, `ActivityOverlap` and `SessionPidClaimRace`. Section 5 says what each shows.
Two more pass, and are run by hand as well: `SessionPidClaimPairs` (module `SessionPidClaimProofs`)
checks the inductive invariant of the pid claim with three daemons of
which at most two are at it at the same time (734,045 states), and `ActivityAudit` the audit chain in
a log of seven rows with writers that look only at the last two (2,861,565 states).

### Bounds, and why they are enough

- *Three lock calls.* A race on recovery needs an owner, a recoverer and a successor. With an
  abandoned directory from before (`Init`) three calls also reach the state in which two have got in
  and the third takes both records. Two failing system calls (`MaxIoErrors`) are one that leaves
  something and one that hits whoever clears it. The theorems of section 6 hold for any number.
  `EveryCallResolves` is conditional: two calls may in principle remove each other's fresh
  directories (finding 2) for ever, in step, and the property speaks of the behaviours in which that
  ends, and in which no release has left its record in a process that lives on. The code's waits
  make it end, which the model has no clock to show.
- *Spool.* One request with two drains is the smallest instance in which two drains fight
  over a lease while the hook may still acknowledge; two kills suffice to kill a drain holding
  the lease and the one that came to retire it, or the daemon and a hook. Two requests of different
  sessions is the smallest in which a drain meets a record it must take and one it must skip, and a
  legacy file beside a list that is not empty. The two instances are separate because their product is
  too large. `AtMostOnce`, `LiveMarkerStays`, `FirstDelivery` and `EventuallyShown` are not true of slow
  drains (finding 7), so only `NothingDropped` is asked of them.
- *Reservations.* Two sessions, one with two names, and two files give every case of `sameOwner`, of
  pruning, and of a write that is granted one of its files while a sibling holds the other and does
  not block it. Three grants are a grant, its successor and a competitor (with four, a million
  states, it holds as well). `RemoteHoldSeen` is about what a remote hold comes to once no more
  local grants stand at its path: as long as they do, a list passes over it
  (`src/harness/reservations.ts:465`), so there the bound on grants is not what makes it true.
  One session suffices there: what a list does to an entry depends on whether it is a local grant,
  not on whose; two failed calls are a failed refresh and a failed release.
  `LongCalls` is false in the runs that pass: a call and the 30 seconds after it then end within the
  five minutes' expiry. `ReservationTimer` shows what happens otherwise (finding 5).
- *Pid claim.* Two claimants are what the repository's race test has. `OneOwner` is *not* true
  of three at once, as `SessionPidClaimRace` shows. Section 6 proves it, and `OwnerNamed`, of any
  number of daemons of which no three are at the claim at once; tokens, fresh for each attempt, are
  unbounded.
- *Activity log.* Three rows are one that leaves, one that stays because the chain needs it, and one
  appended in the middle of a rotation; the pages of one row in `ActivityRecovery` give a sync several
  checkpoints, those of two in `ActivityLog` one. Two compacts
  and a sync are every pair of actors that meet at the cursor. `ClaimRecoverable` and
  `RotationCompletes` are not true beyond one kill of a lone compact (finding 1), so in
  `ActivityLog` either two compacts overlap or a lone one is killed (`KillAlone`), once, and
  `ActivityRecovery` runs compacts one at a time. A writer that looks at one row (`AuditRows`) finds
  in it the chained row before its own, unless a cut or a truncation has taken it; that it may also
  be too far back takes more rows, which `ActivityAudit` has instead of a sync. One kill at every
  step is enough for the recovery to meet each intermediate state. The theorems of section 6 have no
  such bound: `Lossless`, `ChainUnbroken` and `NoRowPassedOver` hold for any number of compacts and
  syncs at once and any number of kills, also where the claim can no longer be followed. For
  `ClaimRecoverable` the bound on kills is the theorem's as well; that on commands and rows is not.
- *Gated transaction.* Two commands whose targets overlap, each with a file the other changes;
  one edit without the lock is one drift at any point.
- *Temporal rules.* Formulas of depth two, and the shipped shapes of depth three, combine every
  two operators. Bounds 1 to 3 and traces of 4 let every window close and be followed by one more
  event; runs that repeat one or two events decide the formulas of that depth.

### Fairness

- *Lock:* a call that has started runs on (`WF(Step)`), time passes (`WF(Age)`), and an older
  release's process does not hold its lock for ever (`WF(LegacyEnds)`). The
  retry loop sleeps and tries again, which is the code's own scheduling. Kills are not fair.
- *Spool:* every process runs on; the grace and the lease's age pass; pre-tool hooks keep
  starting (`WF(StartDrain)`), that is, the agent keeps using tools in that session. Without
  that a warning rightly stays in the spool.
- *Reservations:* the refresh interval (30 s, `src/harness/reservations.ts:118-122`) and the
  status-line timer, which calls `getAll` every 10 s, never stop
  (`src/harness/server/daemon-timers.ts`); server calls are answered or fail; started writes
  reach their post-tool hook; timers fire. Failures are bounded by `MaxFaults`.
- *Pid claim:* a process that runs goes on. `CanGiveUp` stands for the 40 attempts.
- *Activity log:* compact and sync are run again and again (by the user or a schedule; a command
  that nobody runs completes nothing); a command that runs goes on; a waiter recovers the
  lock of a dead one, which is `EveryCallResolves` of the lock; and an upload that is tried again and
  again is answered once (strong fairness). Kills and torn writes are not fair.
- *Gated transaction, temporal rules:* safety only.

## 4. Properties

Besides a type invariant in each module that has data with types to lose (two of which carry a fact
that is not about types: a lease names a drain at work under it; one timer per owner and file):

- `MutualExclusion`, `LiveHolderKeepsRecord`, `OwnershipSpec`, `NothingLeftBehind`,
  `EveryCallResolves`
- `AtMostOnce`, `NothingDropped`, `LiveMarkerStays`, `FirstDelivery`, `EventuallyShown`
- `WriteExclusion`, `GrantLastsThroughWrite`, `TimerSparesLaterGrant`, `GhostsEvicted`,
  `RemoteHoldSeen`; in configurations run by hand also `RollbackSparesLaterGrant`,
  `FailedRefreshKeepsRemote` and `NoInterleavedWrites`
- `OneOwner`, `OwnerNamed`, `NextClaimantWins`
- `Lossless`, `NoRowPassedOver`, `ChainUnbroken`, `ClaimRecoverable`, `RotationCompletes`,
  `EverythingUploaded`
- `AtomicSpec`, `HolderNamed`, `FailureReported`
- `VerdictSound`, `DecidedWithinBounds`, `NegationCommutes`, `OnsetsExact`, `LeaningNamesStrong`,
  `ObligationsMerged`

Each is stated with a comment at the end of its module. For each property of a passing run
`PROJECT.json` (`mutants`) names a plausible slip in the code under which TLC finds that
property violated.

## 5. Where code and documentation disagree

1. *A rotation killed twice* (`src/commands/compact-activity-write.ts:359`, run
   `ActivityTwoKills`). A compact is killed between the manifest and the rename. The next one
   resumes its claim: it makes a copy of its own, replaces the durable claim by one that names
   that copy (`replaceRotationClaim`), and only then stores the manifest, whose pending drop still
   names the first copy. Killed in between, it leaves a claim and a manifest that name different
   replacements. `assertActivityPendingMatchesClaim` then throws in every later compact, and clean
   refuses while the rotation is pending; the comment (`src/commands/compact.ts:27`) promises
   that either kind of crash completes the same sequence. No row is lost (`NothingLost`), but
   nothing is compacted any more. Two compacts that resume one claim at the same time get there
   with one kill (`ActivityOverlap`).

The others are shown by the configurations that are run by hand:

2. *The mutation lock with a stale directory* (`src/lib/file-mutation-lock.ts:265`,
   `MutationLockStale`). `rmdir` is by name. Of two waiters that see an empty, stale directory
   at the same time, one removes it and makes its own; the other, slower, removes that one, which
   is still empty, and makes its own in turn. Both then write owner records into it, and both are
   in. It takes a directory abandoned between `mkdir` and the owner record.
3. *Rollback* (`src/harness/reservations.ts:294`, `ReservationRollback`). A refusal removes
   whatever local entry the agent has at the path, also a later grant; the comment calls it a
   no-op in that case.
4. *A failed refresh* (`src/harness/server-bridge.ts:194`, `ReservationRefresh`). A failed list
   call yields an empty list, which evicts every remote entry; the comment promises staleness
   only.
5. *A release timer that outlives its entry* (`src/harness/reservations.ts:427`,
   `ReservationTimer`). Pruning an expired entry leaves its timer, which then releases the next
   grant early.
6. *Two successful claims of one session* (`src/harness/session-daemon-claim-lock.ts:120`,
   `SessionPidClaimRace`). A displaced claim lock is renamed back, so its writer's check after the
   rename passes although another claimant has had the session meanwhile. The bind of the socket,
   not yet modelled, is what decides then. It takes three claimants, but the third need not live:
   one that was killed in its claim does, if another's displaced lock is still where it has renamed
   it, or if its own dead lock is renamed back over a live one. The same rename leads, with two
   claimants already, to a lock whose live writer has moved on: nobody removes it, and all run out
   of attempts.
7. *A slow drain* (`src/lib/post-tool-warning-spool-client.ts:273`, `WarningSpoolSlow`). A drain
   reads its clock once, on entry, and takes what is dated more than 250 ms after it for stale. A
   hook that sends its request after that, while the drain waits for its lease or the file system,
   has its marker swept although it is alive; line 279 promises the opposite. A record of such a
   date is claimed and thrown away, of whatever session (`:370-379`), and a later drain no longer
   defers to the hook whose marker is gone, so both show one warning, which is the counterexample:
   an older daemon's file is what starts the slow drain, before the hook sends its request.
8. *A session that lets go under a write* (`src/harness/reservations.ts:404`, `ReservationOverlap`).
   `releaseAllForAgent` releases by name, whatever that session is doing: the scan for lost agents
   (`src/harness/server/server-daemon-activation.ts:72-80`) and a Stop handler that has waited
   (`src/harness/server/lifecycle-events.ts:299-301`) may come while a tool call of the session writes,
   and of two overlapping calls the first one's release timer fires under the second. Another session is
   then granted the file, which is the interleaving that
   `src/harness/evaluator/pre-tool-decision-phases.ts:192` says leasing exists to prevent.

Not modelled, but read in passing: the upload that the hook script runs by itself (`batchSync`,
`src/lib/hook-template-chunks/session-state.ts:1785`) writes its cursor without the lock and
without looking at the file again. A rotation in between makes it an offset of the other file, and
rows before it are not sent, where `src/commands/compact.ts:13` promises that `batchSync`
"keeps sending exactly the un-sent events".

## 6. Proofs

Each module with proofs EXTENDS the one it is about. In every one of them the invariant of the last
section is not inductive as it stands; `IInv` (`ChainInv`, `UploadInv`, `KillInv`, `ClaimInv`)
strengthens it, was checked by TLC on small instances first, and is shown to hold initially and to
be preserved by every action, action by action. A temporal theorem then combines these facts with
`IInv => Inv`.

| Theorem | States | Hypotheses |
|---|---|---|
| `FileMutationLockProofs!TypeCorrect` | `TypeOK` | none |
| `FileMutationLockProofs!LeavesNothingBehind` | `NothingLeftBehind` | none |
| `FileMutationLockProofs!Exclusive` | `MutualExclusion` | `~StaleElapses` |
| `FileMutationLockProofs!RecordKept` | `LiveHolderKeepsRecord` | `~StaleElapses` |
| `FileMutationLockProofs!Implements` | `OwnershipSpec` | `~StaleElapses` |
| `WarningSpoolProofs!TypeCorrect` | `TypeOK` | none |
| `WarningSpoolProofs!ShownOnce` | `AtMostOnce` | `~SlowDrains` |
| `WarningSpoolProofs!NothingIsDropped` | `NothingDropped` | none |
| `WarningSpoolProofs!LiveMarkersStay` | `LiveMarkerStays` | `~SlowDrains` |
| `WarningSpoolProofs!HookFirst` | `FirstDelivery` (of every step) | `~SlowDrains` |
| `ReservationsProofs!TypeCorrect` | `TypeOK` | none |
| `ReservationsProofs!GrantLasts` | `GrantLastsThroughWrite` | `~Server`, `~LongCalls` |
| `ReservationsProofs!WritesExclude` | `WriteExclusion` | `~Server`, `~LongCalls` |
| `ReservationsProofs!TimersSpareLaterGrants` | `TimerSparesLaterGrant` | `~Server`, `~LongCalls` |
| `SessionPidClaimProofs!TypeCorrect` | `TypeOK` | none |
| `SessionPidClaimProofs!OwnerIsNamed` | `OwnerNamed` | `[]AtMostTwo` |
| `SessionPidClaimProofs!SingleOwner` | `OneOwner` | `[]AtMostTwo` |
| `ActivityLogProofs!TypeCorrect` | `TypeOK` | none |
| `ActivityLogProofs!NothingLost` | `Lossless` | none |
| `ActivityRotationProofs!ChainKept` | `ChainUnbroken` | none |
| `ActivityRotationProofs!ClaimStaysRecoverable` | `ClaimRecoverable` | `KillAlone` or `~Overlap`; `MaxKills <= 1` |
| `ActivityUploadProofs!NonePassedOver` | `NoRowPassedOver` | none |
| `GatedTransactionProofs!TypeCorrect` | `TypeOK` | none |
| `GatedTransactionProofs!LockOwned` | `HolderNamed` | none |
| `GatedTransactionProofs!FailuresReported` | `FailureReported` | none |
| `GatedTransactionProofs!Implements` | `AtomicSpec` | none |

"None" means: for all constants that meet the module's named ASSUMEs, which say no more than what
kind of thing each constant is, that `None` is not one of the records, and that the numbers
fit together. TLC evaluates them in every run.

### The lock

`~StaleElapses` says that no lock directory stays untouched for ten minutes without an owner
that can be read. It is needed: finding 2 is the counterexample without it.

`LeavesNothingBehind` needs no such thing: an owner file is unlinked by its own call before
anything else is. It speaks of calls that returned; a call whose owner write, or whose release, failed
may have left its record, and has thrown, or found it unreadable. All five theorems are of any number of
failing system calls. Exclusion is not inductive: nothing in it says why the second of two calls cannot
be about to enter. The invariant `IInv` is the conjunction of

- `TypeOK`;
- `OwnerInv`: at most one call stands anywhere between its successful `mkdir` and the last
  step of its release, or is the recoverer that has emptied the directory; and what the lock
  path holds is determined by where that call stands;
- `RecordInv`: at most one owner file, whose call is at its critical section, dead, or stuck with
  what it could not write, read or unlink;
- `RetireInv`: a recoverer that still has to unlink has exactly one file to unlink, of a dead
  call. This is what makes its late `unlink` harmless: tokens are never reused, so the file
  is gone or it is still that one;
- `FreshInv`: nothing is stale, and so no owner write ever fails.

`Implements` is shown by `StepImplements`: initial states map to initial states, and every step to
a step of `LockOwnership` or a stutter.

### The spool

For any requests, drains and sessions, any number of kills and steals of the lease.
`NothingIsDropped` is of drains of any speed, and says what a slow one may throw away. The other
three are of drains that meet no file dated more than the grace after their clock (`~SlowDrains`),
and are false otherwise (finding 7). `ShownOnce` is what the drain lease does *not* give, because a
lease that has aged is taken from a slow drain that goes on; it rests on the removal of the record
being the claim to it. `IInv` says so:

- `HolderInv`: whoever has the warnings of a request, in its hands or on its output, is alone, and
  the record and the hook are gone;
- `AheadInv`: no drain has met a file dated ahead of it;
- `MarkerInv`: while the hook of a request runs and has not removed it, its marker is there;
- `DrainInv`: hence a drain that has looked at the markers *after* it listed the records has no
  record left of a hook that runs. This order is what `HookFirst` rests on;
- `RequestInv`, `EmptyInv`: how far a request has come when each of its files is there; a drain
  without a lease has claimed nothing;
- `NothingDropped` itself.

### The reservations

`TypeCorrect` holds with a server and with calls of any length. The others are about a
machine of its own (`~Server`) whose calls, with the idle period after them, end within the five
minutes of a grant (`~LongCalls`). Both are needed: a server's refusal may take a later grant back
(finding 3), and an expired entry leaves its timer to the next grant (finding 5). Calls overlap, and
sessions end and are given up for lost, at any time. What a session has let go of under a write of its
own (finding 8) is no longer its to keep, and the theorems say nothing of it: they say that nobody else
takes the rest away. `IInv`:

- `WriteInv`: what a session was granted for a write, and has not let go of since, is its own; and
  what of the targets of a write is its own is unexpired;
- `TimerInv`: a timer is for the very grant that stands at its file, unexpired, which no write still
  counts on;
- `AloneInv`: no call is in flight, and only files, never patterns, are reserved.

### The pid claim

`TypeCorrect` with `OutcomeInv` (whoever gives its lock back knows what its attempt came to). It
carries one fact that is not about types: a lock that was renamed away belongs to a recovery under
way or to one that was killed.

`OneOwner` and `OwnerNamed` are false of three claimants at once (finding 6), so the two theorems are
of behaviours in which there never are three: `AtMostTwo`. A process counts while it claims, and
after that as long as a lock that it has written or renamed away is on disk. Weaker readings
are false too, by the counterexamples of finding 6: a killed claimant takes part through what it
has left. Of two daemons `AtMostTwo` is always true; of more it allows any number that come one
after the other, give up, end or are killed, also in the middle of a recovery, once their files
are gone. The invariant is in three parts:

- `FilesInv`, of any number of claimants: a record that is not complete yet is the newest of a
  writer that is still at it, or dead (`Sound`); nobody's newest record is in two places, nor was
  it renamed away by its writer (`SingleInv`); only what a dead process wrote, or what could not be
  read, is judged stale (`JudgedInv`);
- `ActInv`: who has found its lock in place and is about to rename the pid file or to remove the lock
  is the only one, and where the lock was there is a record that no other process finds to be its
  own, or the other one has renamed such a record away and will put it back, or is dead. This is
  the argument that fails with a third process, which may be the one that the record belongs to;
- `NamedInv` and `LateInv`: who has the session is named in the pid file; and while the one named there
  lives, whoever read the file before that has lost its lock for good, so its check fails.
  With `ActInv` nobody else then gets to rename the pid file.

### The activity log

For any number of compact and sync commands, all of them at once, any number of them killed, and
logs of any length. `ActivityLogProofs!IInv` has five parts:

- `TypeInv`: types, where each command stands, and that it holds the lock there if it must;
- `WorldInv`, what is on disk: the live file holds the newest rows (`LogInv`); the manifest's files
  exist, and no two pending drops cut the same file (`ArchiveInv`); a claim on the live file
  names its oldest rows and a number that is free, a claim whose copy is in place has its rows in
  the archive (`ClaimInv`); what has left is archived once and in order, or was truncated
  (`KeptInv`);
- `CommandInv`, what a command knows, however long ago it learned it: as long as the live file is
  the one it saw, its plan is still a plan for that file (`SourceInv`, `PlanInv`), and in each of
  its steps under the lock the disk is where its last step has put it (`HolderInv`);
- `FreshInv`: the copy a command has made is in nobody else's plan, and nobody has seen it;
- `SyncInv`: nor has a sync.

What makes two overlapping rotations harmless is the identity of the file: `commitSuffix` compares it
under the lock, so every clause above is conditional on `source = live.ino`, and a rename
falsifies the condition for every other command. `NothingLost` follows from `WorldInv`.

`ActivityRotationProofs!ChainInv` adds that the newest chained row is live or truncated (`HeadInv`) and
that no plan, claim or pending drop cuts it, however old the plan is (`SparedInv`): rows appended
since can only make a plan safer. A link to none then means that clean has dropped the row before, or
that `AuditRows` rows lie between. `ActivityUploadProofs!UploadInv` adds that every cursor that
anybody remembers together with a file passes, in that file, only over rows the server has or
`--all` gave up: the one on disk (`CursorInv`), those in claim and manifest (`ArchiveUp`), a compact's
(`CompactUp`) and a sync's page (`SyncUp`). A by-product is that
`assertRecoveryCursorWithinRetainedBytes` never fires for a claim whose copy is in place.

`ClaimStaysRecoverable` is about one kill at most, of a command that has no company, or of
commands that never have any; any number of commands may overlap otherwise, before the kill and
after it. Both conditions are needed: `ActivityTwoKills` and `ActivityOverlap` are the
counterexamples without them (finding 1). `ActivityRotationProofs!KillInv` says what the one
killed rotation leaves, and what everybody else believes of it:

- `AbandonedInv`: a claim on disk is that of a command at work on it, or of the one that was killed;
- `NamedInv`: it names the live file, and every pending drop of the manifest is the claim's, with
  the same replacement except while one command that resumes it is between its claim and its
  manifest. That is the window which a second kill would hit;
- `RotateInv`, `ResumeInv`, `UnlinkedInv`, `OldInv`, `FinishInv`, `CompletedInv`: a command whose plan is
  still for the live file has planned for the claim and the drops that are there now, however
  long ago it looked;
- `LoneInv`: where commands do not overlap, there is no other.

### The gated transaction

For all transactions, files, contents and proposals, and any number of unlocked writes and killed
commands. The inductive invariant `IInv` says phase by phase what stands on the disk: up to the lock
nothing is in place (`UnlockedInv`); a compared target is what was captured (`CheckInv`); while
files are put in place or taken back, each target is the new content if it is in `written` or
`report` and the captured one if not (`ApplyInv`, `RollbackInv`); and that is what remains at the
end (`ReportInv`), each for the files that nobody writes without the lock. A release that fails
changes nothing but who may come next: `LockOwned` says that the lock of an ended transaction is
there exactly if its release failed. The step simulation (`StepImplements`) needs it in both states,
because `Visible` depends on who holds the lock: the last step of a commit is the one at which all
its files change at once.

### What is only model-checked

- *Liveness* (`EveryCallResolves`, `EventuallyShown`, `GhostsEvicted`, `RemoteHoldSeen`,
  `NextClaimantWins`, `RotationCompletes`, `EverythingUploaded`): fairness and `ENABLED` are outside
  the prover.
- *Beyond the theorems' hypotheses* nothing is left to check: `OneOwner` and `OwnerNamed` are false of
  three claimants at once (finding 6), `ClaimRecoverable` of two kills, or of one among overlapping
  compacts (finding 1).
- *The lock's exclusion with stale directories*, which is false (finding 2).
- *The reservations with a server*: a refusal may undo a later grant (finding 3).
- *The temporal rules*: recursive definitions over formulas. What these compute for every input is
  induction over data, outside the prover; their run is the evidence.

## 7. Plan

In this order; each with its MC module, configuration, mutants and map.

1. *Proofs on what exists.* Every safety property of the protocols that is true for all constants has
   its theorem, and so has every one that is true under a hypothesis, with that. Left is what comes
   with the next modules, and the temporal rules, if a prover with induction over data is added.
2. `SessionDaemon`: socket probe and bind, `acceptFreshSessionClaim`, reaping and replacing an
   incumbent, composed with `SessionPidClaim` (INSTANCE) and the startup lock. Abstract
   specification: a session has at most one *serving* daemon. Runs: two and three daemons, one
   crash.
3. `StartupLock` with the spawn back-off.
4. `AsyncAnalysis` and the finding queue at its cap.
5. `CompilerLock` and the deferred type checks.
6. The hook's own upload (`batchSync`) as a third writer of the cursor in `ActivityLog`; plain logs,
   whose rotation is that of the activity log without a cursor.

A run for one of these replaces a run that asks a smaller question.

## 8. Not modelled, and why

- *Guard evaluation, check engine, command line.* Pattern matching on inputs, running external
  tools and parsing their output: nothing that steps of several actors could break. The
  reservation phase of the guard evaluation is in `Reservations`.
- *Mutation-testing journal.* Its transactions are SQLite's.
- *Telemetry spool, coverage ledger.* Best effort by their own comments; a telemetry rewrite may
  lose a row that is appended beside it (`src/harness/telemetry-spool.ts:125`).
- *Audit chain.* Its digests and `audit verify`, which only reads. What rotation and truncation do to
  its links is in `ActivityLog`.
- *Hook bridge journal, checkpoints, guard state.* One writer each.
- *Socket, startup lock, supervision, asynchronous analysis, type-check scheduling, RPC
  dispatcher.* Planned, see section 7. The pid claim's races end at the socket's bind, and the
  removal of a stale socket rests on the startup lock, so the three belong in one module.
- *Activity log:* `batchSync`, plain logs, the rebuilding of a corrupt manifest, dry runs, and a
  last line that is still being written.
- *Gated transaction:* its temporary files, and symbolic links that change under it.
- *Temporal rules:* the predicates of `rules.ts` (constants here) and the evidence of a violation.
- *The lock inside `ActivityLog`:* its release succeeds there; one that fails (`FileMutationLock`)
  makes the command throw, and blocks every other until that process is gone.
- *Within the other modelled parts:* the 24-hour limits of the spool, PID reuse in the spool and
  the pid claim, the contents of the legacy warning file (an acknowledgement may drop another
  request's warnings with it), the bridge's guard-event queue, and
  registrations of the cohort changing over time (`Known` and `Lineage` are constants).
