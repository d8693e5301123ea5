---------------------------- MODULE WarningSpool ----------------------------
(***************************************************************************)
(* Delivery of post-tool warnings (harness/server/post-tool-warning-       *)
(* spool.ts, post-tool-pipeline-spool.ts, lib/post-tool-warning-spool-     *)
(* client.ts and the calls of hook-entry.ts).  A post-tool hook asks the   *)
(* daemon to check an edit.  If the answer arrives in time the hook shows  *)
(* the warnings itself; if not it gives up, and the daemon leaves them in  *)
(* a spool directory, where a later pre-tool hook of the same session      *)
(* picks them up.  <token>.active.json marks a request whose delivery is   *)
(* still the hook's own, <token>.ready.json holds the warnings, and        *)
(* .drain.lock is the lease of the draining hook.                          *)
(*                                                                         *)
(* A member of Req is one post-tool request with its token; a member of    *)
(* Drain runs pre-tool hooks one after another, each a new process.  No    *)
(* spool file grows 24 hours old (READY_TTL_MS), and a PID is not reused.  *)
(***************************************************************************)
EXTENDS Naturals, FiniteSets

CONSTANTS
    Req,        \* post-tool requests, one delivery token each
    Drain,      \* places where pre-tool hooks run, one at a time
    SessionOf,  \* the session of each request and drain
    MaxKills,   \* bound on processes killed
    LegacyLeft, \* an older daemon has left its shared warning file behind
    SlowDrains, \* a drain may meet a file dated 250 ms or more after its own clock
    None        \* no lease

ASSUME SpoolAssumption ==
    /\ MaxKills \in Nat
    /\ LegacyLeft \in BOOLEAN
    /\ SlowDrains \in BOOLEAN
    /\ {None, "dead", "deadOld", "hook"} \cap Drain = {}

VARIABLES
    client,   \* where each post-tool hook stands
    server,   \* where the daemon stands with each request
    verdict,  \* what its checks said
    owns,     \* requests whose active marker the daemon created and did not remove
    marker,   \* requests with an active marker on disk: its age, or "none"
    ready,    \* requests with a ready record on disk: its age, or "none"
    legacy,   \* an older daemon's shared warning file is there
    lease,    \* who wrote .drain.lock; "dead" and "deadOld" are killed holders
    drain,    \* where each draining hook stands
    attempts, \* stale leases it has retired
    old,      \* files past their grace when it took its clock
    ahead,    \* files dated past the grace after it took its clock
    listed,   \* ready records it listed and has not looked at yet
    hadReady, \* whether that list had any
    taken,    \* requests whose warnings it claimed and will show
    got,      \* <<r, w>>: w showed the warnings of r ("hook": its own hook)
    lost,     \* requests whose warnings a killed process held
    discarded, \* requests whose warnings a drain threw away as dated ahead of it
    kills

requestVars == <<client, server, verdict, owns>>
spoolVars   == <<marker, ready, legacy>>
dates       == <<old, ahead>>
drainVars   == <<drain, attempts, dates, listed, hadReady, taken>>
history     == <<got, lost, discarded, kills>>
vars == <<requestVars, spoolVars, lease, drainVars, history>>

Ages == {"none", "young", "old"}

\* The markers and the ready records; each is created at most once.
File == {"marker", "ready"} \X Req

ClientStates == {"idle", "waiting", "ackReady", "ackActive", "ackLegacy",
                 "emit", "cold", "exited"}
ServerStates == {"none", "sent", "running", "finished", "gone"}
DrainStates  == {"idle", "lease", "steal", "list", "sweep", "active", "young",
                 "consume", "release", "unlock", "emit"}

\* Where a drain that created the lease stands until it gives it back.
Holding == {"list", "sweep", "active", "young", "consume", "release", "unlock"}

\* The types; a lease names a drain that is at work under it, so a pre-tool hook
\* that ends, by whatever early return, has not left its lease behind.
TypeOK ==
    /\ client \in [Req -> ClientStates]
    /\ server \in [Req -> ServerStates]
    /\ verdict \in [Req -> {"none", "quiet", "warn", "fail"}]
    /\ owns \in SUBSET Req
    /\ marker \in [Req -> Ages]
    /\ ready \in [Req -> Ages]
    /\ legacy \in BOOLEAN
    /\ lease \in Drain \cup {None, "dead", "deadOld"}
    /\ drain \in [Drain -> DrainStates]
    /\ lease \in Drain => drain[lease] \in Holding
    /\ attempts \in [Drain -> 0 .. 1]
    /\ old \in [Drain -> SUBSET File]
    /\ ahead \in [Drain -> SUBSET File]
    /\ listed \in [Drain -> SUBSET Req]
    /\ hadReady \in [Drain -> BOOLEAN]
    /\ taken \in [Drain -> SUBSET Req]
    /\ got \in SUBSET (Req \X (Drain \cup {"hook"}))
    /\ lost \in SUBSET Req
    /\ discarded \in SUBSET Req
    /\ kills \in 0 .. MaxKills

Init ==
    /\ client = [r \in Req |-> "idle"]
    /\ server = [r \in Req |-> "none"]
    /\ verdict = [r \in Req |-> "none"]
    /\ owns = {}
    /\ marker = [r \in Req |-> "none"]
    /\ ready = [r \in Req |-> "none"]
    /\ legacy = LegacyLeft
    /\ lease = None
    /\ drain = [d \in Drain |-> "idle"]
    /\ attempts = [d \in Drain |-> 0]
    /\ old = [d \in Drain |-> {}]
    /\ ahead = [d \in Drain |-> {}]
    /\ listed = [d \in Drain |-> {}]
    /\ hadReady = [d \in Drain |-> FALSE]
    /\ taken = [d \in Drain |-> {}]
    /\ got = {}
    /\ lost = {}
    /\ discarded = {}
    /\ kills = 0

\* processAlive of the hook that sent the request.
Alive(r) == client[r] \notin {"idle", "exited"}

ToClient(r, from, to) ==
    /\ client[r] = from
    /\ client' = [client EXCEPT ![r] = to]

ToDrain(d, from, to) ==
    /\ drain[d] = from
    /\ drain' = [drain EXCEPT ![d] = to]

-----------------------------------------------------------------------------
(* The daemon: withPostToolWarningSpool around one request.                *)

\* A file that appears now is dated ahead of every drain whose clock it leaves more
\* than the grace behind; what one file did to a drain, every later one does too.
Dated(file) ==
    \E D \in SUBSET {d \in Drain : drain[d] # "idle"} :
        /\ SlowDrains \/ D = {}
        /\ {d \in Drain : ahead[d] # {}} \subseteq D
        /\ ahead' = [d \in Drain |-> IF d \in D THEN ahead[d] \cup {file} ELSE ahead[d]]

\* beginPostToolWarningSpool: create the marker, unless a record of the same
\* token is already there; a spool that cannot be written is passed over.
BeginSpool(r) ==
    /\ server[r] = "sent"
    /\ server' = [server EXCEPT ![r] = "running"]
    /\ \/ /\ marker[r] = "none" /\ ready[r] = "none"
          /\ marker' = [marker EXCEPT ![r] = "young"]
          /\ owns' = owns \cup {r}
          /\ Dated(<<"marker", r>>)
       \/ UNCHANGED <<marker, owns, ahead>>
    /\ UNCHANGED <<client, verdict, ready, legacy, lease, drain, attempts, old, listed,
                   hadReady, taken, history>>

\* A plausible slip: the finally block removes the marker in every case.
CompleteSpoolAlwaysUnmarks(r) ==
    /\ server[r] = "running"
    /\ server' = [server EXCEPT ![r] = "finished"]
    /\ \E v \in {"quiet", "warn", "fail"} :
          /\ verdict' = [verdict EXCEPT ![r] = v]
          /\ ready' = IF v # "quiet" /\ r \in owns
                      THEN [ready EXCEPT ![r] = "young"] ELSE ready
          /\ marker' = IF r \in owns
                       THEN [marker EXCEPT ![r] = "none"] ELSE marker
    /\ UNCHANGED <<client, owns, legacy, lease, drainVars, history>>

\* completePostToolWarningSpool: publish by rename and keep the marker, or,
\* with nothing to deliver or when the write fails, remove the marker.  The
\* pipeline may also fail: then the record says that the edit was not checked.
CompleteSpool(r) ==
    /\ server[r] = "running"
    /\ server' = [server EXCEPT ![r] = "finished"]
    /\ \E v \in {"quiet", "warn", "fail"} :
          /\ verdict' = [verdict EXCEPT ![r] = v]
          /\ \/ /\ v # "quiet" /\ r \in owns
                /\ ready' = [ready EXCEPT ![r] = "young"]
                /\ Dated(<<"ready", r>>)
                /\ UNCHANGED <<marker, owns>>
             \/ /\ r \in owns
                /\ marker' = [marker EXCEPT ![r] = "none"]
                /\ owns' = owns \ {r}
                /\ UNCHANGED <<ready, ahead>>
             \/ /\ r \notin owns
                /\ UNCHANGED <<marker, owns, ready, ahead>>
    /\ UNCHANGED <<client, legacy, lease, drain, attempts, old, listed, hadReady, taken,
                   history>>

\* The daemon dies: what it was working on is gone, the files stay.
KillDaemon ==
    /\ kills < MaxKills
    /\ kills' = kills + 1
    /\ \E r \in Req : server[r] \in {"sent", "running"}
    /\ server' = [r \in Req |-> IF server[r] \in {"sent", "running"}
                                THEN "gone" ELSE server[r]]
    /\ UNCHANGED <<client, verdict, owns, spoolVars, lease, drainVars, got, lost, discarded>>

-----------------------------------------------------------------------------
(* The post-tool hook: runHookEntry with a delivery token.                 *)

SendRequest(r) ==
    /\ ToClient(r, "idle", "waiting")
    /\ server' = [server EXCEPT ![r] = "sent"]
    /\ UNCHANGED <<verdict, owns, spoolVars, lease, drainVars, history>>

\* The decision arrives after the spool was completed.
ReceiveDecision(r) ==
    /\ server[r] = "finished"
    /\ verdict[r] # "fail"
    /\ ToClient(r, "waiting", "ackReady")
    /\ UNCHANGED <<server, verdict, owns, spoolVars, lease, drainVars, history>>

\* A plausible slip: the fallback acknowledges too, and so empties the spool.
FallBackColdAcknowledges(r) ==
    /\ ToClient(r, "waiting", "cold")
    /\ ready' = [ready EXCEPT ![r] = "none"]
    /\ UNCHANGED <<server, verdict, owns, marker, legacy, lease, drainVars, history>>

\* Timeout, lost connection or an error answer: the cold fallback, no ack.
FallBackCold(r) ==
    /\ ToClient(r, "waiting", "cold")
    /\ UNCHANGED <<server, verdict, owns, spoolVars, lease, drainVars, history>>

\* A plausible slip: only the marker is acknowledged.
AckReadyForgotten(r) ==
    /\ ToClient(r, "ackReady", "ackActive")
    /\ UNCHANGED <<server, verdict, owns, spoolVars, lease, drainVars, history>>

\* acknowledgeSynchronousPostToolResult: the record, the marker, and whatever
\* stands in the legacy file, which is dropped.
AckReady(r) ==
    /\ ToClient(r, "ackReady", "ackActive")
    /\ ready' = [ready EXCEPT ![r] = "none"]
    /\ UNCHANGED <<server, verdict, owns, marker, legacy, lease, drainVars, history>>

AckActive(r) ==
    /\ ToClient(r, "ackActive", "ackLegacy")
    /\ marker' = [marker EXCEPT ![r] = "none"]
    /\ UNCHANGED <<server, verdict, owns, ready, legacy, lease, drainVars, history>>

AckLegacy(r) ==
    /\ ToClient(r, "ackLegacy", "emit")
    /\ legacy' = FALSE
    /\ UNCHANGED <<server, verdict, owns, marker, ready, lease, drainVars, history>>

\* The hook prints its decision and exits.
EmitDirect(r) ==
    /\ ToClient(r, "emit", "exited")
    /\ got' = IF verdict[r] = "warn" THEN got \cup {<<r, "hook">>} ELSE got
    /\ UNCHANGED <<server, verdict, owns, spoolVars, lease, drainVars, lost, discarded, kills>>

ExitCold(r) ==
    /\ ToClient(r, "cold", "exited")
    /\ UNCHANGED <<server, verdict, owns, spoolVars, lease, drainVars, history>>

\* A hook killed after it acknowledged takes the warnings with it.
KillClient(r) ==
    /\ kills < MaxKills
    /\ kills' = kills + 1
    /\ Alive(r)
    /\ client' = [client EXCEPT ![r] = "exited"]
    /\ lost' = IF client[r] \in {"ackActive", "ackLegacy", "emit"}
               THEN lost \cup {r} ELSE lost
    /\ UNCHANGED <<server, verdict, owns, spoolVars, lease, drainVars, got, discarded>>

-----------------------------------------------------------------------------
(* The pre-tool hook: drainLatePostToolWarnings.                           *)

\* The process is gone, and what it had in memory with it.
Exits(d) ==
    /\ drain'    = [drain EXCEPT ![d] = "idle"]
    /\ attempts' = [attempts EXCEPT ![d] = 0]
    /\ old'      = [old EXCEPT ![d] = {}]
    /\ ahead'    = [ahead EXCEPT ![d] = {}]
    /\ listed'   = [listed EXCEPT ![d] = {}]
    /\ hadReady' = [hadReady EXCEPT ![d] = FALSE]
    /\ taken'    = [taken EXCEPT ![d] = {}]

\* hasPendingSpoolWork; the clock is read once, here.
StartDrain(d) ==
    /\ \/ \E r \in Req : ready[r] # "none" \/ marker[r] # "none"
       \/ legacy
    /\ ToDrain(d, "idle", "lease")
    /\ old' = [old EXCEPT ![d] = {"marker"} \X {r \in Req : marker[r] = "old"}
                                    \cup {"ready"} \X {r \in Req : ready[r] = "old"}]
    /\ UNCHANGED <<requestVars, spoolVars, lease, attempts, ahead, listed,
                   hadReady, taken, history>>

\* A plausible slip: a lock file that exists is always somebody's.
TryLeaseNeverStale(d) ==
    /\ drain[d] = "lease"
    /\ \/ /\ lease = None
          /\ ToDrain(d, "lease", "list")
          /\ lease' = d
          /\ UNCHANGED <<attempts, dates, listed, hadReady, taken>>
       \/ /\ lease # None
          /\ Exits(d)
          /\ UNCHANGED lease
    /\ UNCHANGED <<requestVars, spoolVars, history>>

\* attemptDrainLease: create the lock file, or judge the one that is there.
TryLease(d) ==
    /\ drain[d] = "lease"
    /\ \/ /\ lease = None
          /\ ToDrain(d, "lease", "list")
          /\ lease' = d
          /\ UNCHANGED <<attempts, dates, listed, hadReady, taken>>
       \/ /\ lease = "deadOld"
          /\ ToDrain(d, "lease", "steal")
          /\ UNCHANGED <<lease, attempts, dates, listed, hadReady, taken>>
       \/ /\ lease \notin {None, "deadOld"}
          /\ Exits(d)
          /\ UNCHANGED lease
    /\ UNCHANGED <<requestVars, spoolVars, history>>

\* Retire the lock file by name, whoever wrote it meanwhile, and try again once.
StealLease(d) ==
    /\ drain[d] = "steal"
    /\ lease' = None
    /\ \/ /\ lease # None /\ attempts[d] = 0
          /\ ToDrain(d, "steal", "lease")
          /\ attempts' = [attempts EXCEPT ![d] = 1]
          /\ UNCHANGED <<dates, listed, hadReady, taken>>
       \/ /\ lease = None \/ attempts[d] # 0
          /\ Exits(d)
    /\ UNCHANGED <<requestVars, spoolVars, history>>

\* The ready records are listed before any marker is looked at.
ListReady(d) ==
    /\ ToDrain(d, "list", "sweep")
    /\ listed' = [listed EXCEPT ![d] = {r \in Req : ready[r] # "none"}]
    /\ hadReady' = [hadReady EXCEPT ![d] = \E r \in Req : ready[r] # "none"]
    /\ UNCHANGED <<requestVars, spoolVars, lease, attempts, dates, taken, history>>

\* A plausible slip: a marker past the grace is swept, whoever wrote it.
SweepMarkersOfLive(d) ==
    /\ ToDrain(d, "sweep", "active")
    /\ marker' = [r \in Req |-> IF <<"marker", r>> \in old[d] \cup ahead[d]
                                THEN "none" ELSE marker[r]]
    /\ UNCHANGED <<requestVars, ready, legacy, lease, attempts, dates, listed,
                   hadReady, taken, history>>

\* sweepStaleActiveRecords: markers past the grace whose hook is gone, and those that
\* are dated ahead, live or not.
SweepMarkers(d) ==
    /\ ToDrain(d, "sweep", "active")
    /\ marker' = [r \in Req |->
                     IF \/ <<"marker", r>> \in ahead[d]
                        \/ <<"marker", r>> \in old[d] /\ ~Alive(r)
                     THEN "none" ELSE marker[r]]
    /\ UNCHANGED <<requestVars, ready, legacy, lease, attempts, dates, listed,
                   hadReady, taken, history>>

SameSession(d, r) == SessionOf[r] = SessionOf[d]

\* A plausible slip: deferring returns before the lease is given back.
CheckActiveKeepsLease(d) ==
    /\ LET owned == \E r \in Req : /\ marker[r] # "none"
                                   /\ <<"marker", r>> \notin ahead[d]
                                   /\ SameSession(d, r)
                                   /\ Alive(r)
       IN ToDrain(d, "active", IF owned THEN "emit" ELSE "young")
    /\ UNCHANGED <<requestVars, spoolVars, lease, attempts, dates, listed, hadReady,
                   taken, history>>

\* activeRequestOwnsDelivery: defer everything while a hook of this session
\* still owns the delivery of its own warnings, by a marker not dated ahead.
CheckActive(d) ==
    /\ LET owned == \E r \in Req : /\ marker[r] # "none"
                                   /\ <<"marker", r>> \notin ahead[d]
                                   /\ SameSession(d, r)
                                   /\ Alive(r)
       IN ToDrain(d, "active", IF owned THEN "release" ELSE "young")
    /\ UNCHANGED <<requestVars, spoolVars, lease, attempts, dates, listed, hadReady,
                   taken, history>>

\* hasYoungReadyRecord: so does a record within the grace, on either side
\* of the drain's clock.
CheckYoung(d) ==
    /\ LET young == \E r \in listed[d] : /\ ready[r] # "none"
                                         /\ SameSession(d, r)
                                         /\ <<"ready", r>> \notin old[d] \cup ahead[d]
       IN ToDrain(d, "young", IF young THEN "release" ELSE "consume")
    /\ UNCHANGED <<requestVars, spoolVars, lease, attempts, dates, listed, hadReady,
                   taken, history>>

\* A plausible slip: claim first, look at the session afterwards.
SkipOnlyYoung(d, r) == <<"ready", r>> \notin old[d] \cup ahead[d]

\* skipReadyRecord: a record dated ahead counts as stale and is claimed.
Skip(d, r) ==
    /\ <<"ready", r>> \notin ahead[d]
    /\ ~SameSession(d, r) \/ <<"ready", r>> \notin old[d]

\* One turn of consumeReadyRecords: claim by rename, keep the warnings of this session
\* unless they are dated ahead, remove the claimed files.
ConsumeReady(d) ==
    /\ drain[d] = "consume"
    /\ \E r \in listed[d] :
          /\ listed' = [listed EXCEPT ![d] = @ \ {r}]
          /\ \/ /\ ready[r] # "none" /\ ~Skip(d, r)
                /\ ready' = [ready EXCEPT ![r] = "none"]
                /\ marker' = [marker EXCEPT ![r] = "none"]
                /\ LET ahead_r == <<"ready", r>> \in ahead[d]
                   IN /\ taken' = [taken EXCEPT ![d] = IF ~ahead_r /\ SameSession(d, r)
                                                       THEN @ \cup {r} ELSE @]
                      /\ discarded' = IF ahead_r THEN discarded \cup {r} ELSE discarded
             \/ /\ ready[r] = "none" \/ Skip(d, r)
                /\ UNCHANGED <<ready, marker, taken, discarded>>
    /\ UNCHANGED <<requestVars, legacy, lease, drain, attempts, dates, hadReady, got, lost,
                   kills>>

\* consumeLegacyAfterModern: shown, or dropped as a duplicate, or left.
ConsumeLegacy(d) ==
    /\ listed[d] = {}
    /\ ToDrain(d, "consume", "release")
    /\ legacy' = IF ~hadReady[d] \/ taken[d] # {} THEN FALSE ELSE legacy
    /\ UNCHANGED <<requestVars, marker, ready, lease, attempts, dates, listed, hadReady,
                   taken, history>>

\* releaseDrainLease: read the lock file, and retire it if it is one's own.
ReleaseLease(d) ==
    /\ ToDrain(d, "release", IF lease = d THEN "unlock" ELSE "emit")
    /\ UNCHANGED <<requestVars, spoolVars, lease, attempts, dates, listed, hadReady,
                   taken, history>>

Unlock(d) ==
    /\ ToDrain(d, "unlock", "emit")
    /\ lease' = None
    /\ UNCHANGED <<requestVars, spoolVars, attempts, dates, listed, hadReady, taken,
                   history>>

\* The pre-tool hook shows what it drained, with its own decision, and exits.
EmitLate(d) ==
    /\ drain[d] = "emit"
    /\ Exits(d)
    /\ got' = got \cup {<<r, d>> : r \in taken[d]}
    /\ UNCHANGED <<requestVars, spoolVars, lease, lost, discarded, kills>>

\* A killed drain leaves its lease, and loses what it had claimed.
KillDrain(d) ==
    /\ kills < MaxKills
    /\ kills' = kills + 1
    /\ drain[d] # "idle"
    /\ Exits(d)
    /\ lease' = IF lease = d THEN "dead" ELSE lease
    /\ lost' = lost \cup taken[d]
    /\ UNCHANGED <<requestVars, spoolVars, got, discarded>>

-----------------------------------------------------------------------------
(* Time: the 250 ms grace, and the 1 s a dead holder keeps its lease (75 s *)
(* if it died before it had written it).                                   *)

GraceEnds(r) ==
    /\ \/ /\ ready[r] = "young"
          /\ ready' = [ready EXCEPT ![r] = "old"]
          /\ UNCHANGED marker
       \/ /\ marker[r] = "young"
          /\ marker' = [marker EXCEPT ![r] = "old"]
          /\ UNCHANGED ready
    /\ UNCHANGED <<requestVars, legacy, lease, drainVars, history>>

LeaseAges ==
    /\ lease = "dead"
    /\ lease' = "deadOld"
    /\ UNCHANGED <<requestVars, spoolVars, drainVars, history>>

ServerStep(r) == BeginSpool(r) \/ CompleteSpool(r)

ClientStep(r) ==
    \/ ReceiveDecision(r) \/ FallBackCold(r) \/ AckReady(r) \/ AckActive(r)
    \/ AckLegacy(r) \/ EmitDirect(r) \/ ExitCold(r)

DrainStep(d) ==
    \/ TryLease(d) \/ StealLease(d) \/ ListReady(d) \/ SweepMarkers(d)
    \/ CheckActive(d) \/ CheckYoung(d) \/ ConsumeReady(d) \/ ConsumeLegacy(d)
    \/ ReleaseLease(d) \/ Unlock(d) \/ EmitLate(d)

Next ==
    \/ \E r \in Req : \/ SendRequest(r) \/ ClientStep(r) \/ KillClient(r)
                      \/ ServerStep(r) \/ GraceEnds(r)
    \/ \E d \in Drain : StartDrain(d) \/ DrainStep(d) \/ KillDrain(d)
    \/ KillDaemon
    \/ LeaseAges

Spec == Init /\ [][Next]_vars

\* Every process that runs goes on, the agent keeps using tools (so pre-tool
\* hooks keep starting), and time passes.
Fairness ==
    /\ \A r \in Req : WF_vars(ClientStep(r)) /\ WF_vars(ServerStep(r))
    /\ \A r \in Req : WF_vars(GraceEnds(r))
    /\ \A d \in Drain : WF_vars(StartDrain(d)) /\ WF_vars(DrainStep(d))
    /\ WF_vars(LeaseAges)

FairSpec == Spec /\ Fairness

-----------------------------------------------------------------------------
(* Properties.                                                             *)

\* The daemon has put the warnings of r into the spool.
Published(r) == server[r] = "finished" /\ verdict[r] # "quiet" /\ r \in owns

Shown(r) == \E w \in Drain \cup {"hook"} : <<r, w>> \in got

\* The warnings of one request are shown at most once, by its hook or by one
\* drain, however answer, timeout, acknowledgement and drains interleave, as long as no
\* drain meets a file dated ahead of its clock.
AtMostOnce ==
    \A r \in Req :
        Cardinality({w \in Drain \cup {"hook"} :
                        <<r, w>> \in got \/ (w \in Drain /\ r \in taken[w])}) <= 1

\* A published warning is in the spool, in the hands of a process that is about to
\* show it, shown, was held by a process that was killed, or, where drains may be slow,
\* was thrown away as dated ahead.
NothingDropped ==
    \A r \in Req : Published(r) =>
        \/ ready[r] # "none"
        \/ client[r] \in {"ackActive", "ackLegacy", "emit"}
        \/ \E d \in Drain : r \in taken[d]
        \/ Shown(r)
        \/ r \in lost
        \/ SlowDrains /\ r \in discarded

\* "A live originating hook retains first-delivery ownership": a drain claims a
\* record only when the hook that asked for it is gone.
FirstDelivery ==
    [][\A d \in Drain : \A r \in taken'[d] \ taken[d] : ~Alive(r)]_vars

\* "Remove abandoned request markers without touching a live hook's marker"
\* (post-tool-warning-spool-client.ts 279): as long as a hook waits for its answer, or
\* has it and has not yet acknowledged, its marker is on disk, whatever drains sweep.
LiveMarkerStays ==
    \A r \in Req :
        r \in owns /\ client[r] \in {"waiting", "ackReady"} => marker[r] # "none"

\* Nobody waits for ever: a published warning is shown, unless a process that
\* held it was killed or a slow drain threw it away.
EventuallyShown ==
    \A r \in Req : Published(r) ~> Shown(r) \/ r \in lost \/ r \in discarded
=============================================================================
