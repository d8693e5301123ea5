---------------------------- MODULE Reservations ----------------------------
(***************************************************************************)
(* Automatic file reservations (harness/reservations.ts, reservations-     *)
(* state-machine.ts, and the decisions of evaluator/pre-tool-decision-     *)
(* phases.ts that act on them).  A write's pre-tool hook checks the        *)
(* daemon's cache and grants the free targets at once; the grant is sent   *)
(* to the coordination server, whose refusal rolls it back later.  Thirty  *)
(* seconds after the post-tool hook a timer releases it; after five        *)
(* minutes it expires.  A list fetched from the server now and then adds   *)
(* and evicts what other developers' agents hold.                          *)
(*                                                                         *)
(* The daemon runs one handler at a time, so every handler is one action.  *)
(* The server is external: it is modelled from the calls of ServerBridge.  *)
(***************************************************************************)
EXTENDS Naturals, FiniteSets

CONSTANTS
    Path,          \* files that are edited
    Pattern,       \* reservation keys: every path, and globs of other machines
    Covers,        \* the paths each pattern covers
    Local,         \* agent names of this machine
    Canon,         \* the session behind each name (canonicalAgent)
    Remote,        \* agent names of other machines
    Known,         \* the local names the cohort has registered
    Lineage,       \* pairs of a parent and its subagent
    Server,        \* a coordination server is configured
    LongCalls,     \* a call and its idle period may outlast the five minutes
    MaxGrants,     \* bound on grants
    MaxRemote,     \* bound on reservations of other machines
    MaxFaults,     \* bound on server calls that fail
    None           \* no entry, no holder

Name == Local \cup Remote

ASSUME ReservationAssumption ==
    /\ Path \subseteq Pattern
    /\ Covers \in [Pattern -> SUBSET Path]
    /\ \A f \in Path : Covers[f] = {f}
    /\ Local \cap Remote = {}
    /\ Canon \in [Local -> Local]
    /\ Known \subseteq Local
    /\ Server \in BOOLEAN /\ LongCalls \in BOOLEAN
    /\ MaxGrants \in Nat /\ MaxRemote \in Nat /\ MaxFaults \in Nat
    /\ None \notin Name

VARIABLES
    cache,    \* the daemon's entry for each pattern, or None
    timers,   \* release timers: the stored owner, the file, the grant they saw
    tracked,  \* files_reserved of each cohort agent
    writes,   \* the writes in progress
    calls,    \* calls to the server and refusals on their way back
    list,     \* the refresh in progress
    held,     \* what the server has for each pattern
    grants,   \* grants so far; a grant's number identifies it
    remotes,  \* reservations other machines have made so far
    faults    \* server calls that have failed so far

cohortVars == <<timers, tracked>>
serverVars == <<calls, list, held>>
counters   == <<grants, remotes, faults>>
vars == <<cache, cohortVars, writes, serverVars, counters>>

Entry == [agent : Name, cohort : {"local", "remote"}, expired : BOOLEAN,
          grant : 0 .. MaxGrants]
\* A write in progress: the name its pre-tool hook had, its targets, those it was
\* granted, and the granted ones that its own session has not let go of since.
Write == [agent : Local, files : SUBSET Path, granted : SUBSET Path,
          kept : SUBSET Path, grant : 0 .. MaxGrants]
Timer == [owner : Name, file : Path, grant : 0 .. MaxGrants]
Call  == [kind : {"reserve", "refused", "release"}, file : Path, agent : Name,
          grant : 0 .. MaxGrants]

ASSUME EntryAssumption == None \notin Entry

TypeOK ==
    /\ cache \in [Pattern -> Entry \cup {None}]
    /\ timers \in SUBSET Timer
    /\ \A s, t \in timers : s.owner = t.owner /\ s.file = t.file => s = t
    /\ tracked \in [Local -> SUBSET Path]
    /\ writes \in SUBSET Write
    /\ calls \in SUBSET Call
    /\ list \in [stage : {"idle", "asked", "failed", "answered"},
                holders : [Pattern -> Name \cup {None}]]
    /\ held \in [Pattern -> Name \cup {None}]
    /\ grants \in 0 .. MaxGrants
    /\ remotes \in 0 .. MaxRemote
    /\ faults \in 0 .. MaxFaults

\* A list that names no holder.
NoList(stage) == [stage |-> stage, holders |-> [k \in Pattern |-> None]]

Init ==
    /\ cache = [k \in Pattern |-> None]
    /\ timers = {}
    /\ tracked = [n \in Local |-> {}]
    /\ writes = {}
    /\ calls = {}
    /\ list = NoList("idle")
    /\ held = [k \in Pattern |-> None]
    /\ grants = 0
    /\ remotes = 0
    /\ faults = 0

\* sameOwner: the names of one session denote one owner.
SameOwner(m, n) ==
    \/ m = n
    \/ m \in Local /\ n \in Local /\ Canon[m] = Canon[n]

\* The writes W once the session of n has let go of the files S.
LetGo(W, n, S) ==
    {[w EXCEPT !.kept = IF SameOwner(w.agent, n) THEN @ \ S ELSE @] : w \in W}

Mine(k, n) == cache[k] # None /\ SameOwner(cache[k].agent, n)

\* A plausible slip: the timer is looked up under the canonical name, while it is
\* stored under the owner's.
TimersOfSession(f, n) == {t \in timers : t.owner = Canon[n] /\ t.file = f}

\* The release timer under the stored owner of f, if n is that owner.
TimersOf(f, n) ==
    IF Mine(f, n) THEN {t \in timers : t.owner = cache[f].agent /\ t.file = f} ELSE {}

-----------------------------------------------------------------------------
(* The pre-tool hook: evaluateAutoReservation, checkAndReserveBatch.       *)

Against(n, f) ==
    {k \in Pattern : cache[k] # None /\ f \in Covers[k] /\ ~Mine(k, n)}

\* findConflict: a live entry of somebody else that covers the file.  It returns
\* the first that it meets in the cache's order, which the model leaves open.
Conflicts(n, f) == {k \in Against(n, f) : ~cache[k].expired}

\* findConflict prunes the expired entries it meets on the way: all of them if
\* there is no conflict, some of them if there is.
Prunings(n, S) ==
    LET Stale(T) == {k \in UNION {Against(n, f) : f \in T} : cache[k].expired}
    IN  {P \in SUBSET Stale(S) : Stale({f \in S : Conflicts(n, f) = {}}) \subseteq P}

\* shouldBlock: an unknown holder counts as another machine's.  A sibling blocks
\* where that is enforced (it is not under INTERLINKED_DISABLE_LOCAL_LEASE_BLOCK,
\* nor while the cohort counts fewer than two active agents), unless one has
\* delegated to the other, or the caller is unknown.
Blocks(n, k, enforced) ==
    \/ cache[k].agent \notin Known
    \/ enforced /\ n \in Known /\ {n, cache[k].agent} \notin Lineage

\* A plausible slip: the timer is looked up under the caller's own name.
CancelledByCallerName(f, n) == {t \in timers : t.owner = n /\ t.file = f}

\* cancelOwnedReleaseTimer.
Cancelled(f, n) == TimersOf(f, n)

\* grant, for every free target at once, after some expired entries are pruned.
Grant(n, S, pruned) ==
    /\ grants < MaxGrants
    /\ grants' = grants + 1
    /\ timers' = timers \ UNION {Cancelled(f, n) : f \in S}
    /\ cache' = [k \in Pattern |->
                    IF k \in S THEN [agent |-> n, cohort |-> "local",
                                     expired |-> FALSE, grant |-> grants + 1]
                    ELSE IF k \in pruned THEN None
                    ELSE cache[k]]
    /\ tracked' = [tracked EXCEPT ![n] = @ \cup S]
    /\ calls' = IF Server
                THEN calls \cup {[kind |-> "reserve", file |-> f, agent |-> n,
                                  grant |-> grants + 1] : f \in S}
                ELSE calls

\* A write that no conflict blocks goes ahead; it is granted what is free.  Nothing
\* keeps the calls of one session, or of one agent, from overlapping.
PreTool(n, S) ==
    LET free == {f \in S : Conflicts(n, f) = {}} IN
    /\ S # {}
    /\ \E enforced \in BOOLEAN :
          \A f \in S \ free : \E k \in Conflicts(n, f) : ~Blocks(n, k, enforced)
    /\ writes' = writes \cup {[agent |-> n, files |-> S, granted |-> free,
                              kept |-> free, grant |-> grants + 1]}
    /\ \E pruned \in Prunings(n, S) : Grant(n, free, pruned)
    /\ UNCHANGED <<list, held, remotes, faults>>

\* A blocked one leaves nothing but the expired entries it found pruned.
PreToolBlocked(n, S) ==
    /\ \E f \in S : \E k \in Conflicts(n, f) : Blocks(n, k, TRUE)
    /\ \E pruned \in Prunings(n, S) \ {{}} :
          cache' = [k \in Pattern |-> IF k \in pruned THEN None ELSE cache[k]]
    /\ UNCHANGED <<cohortVars, writes, serverVars, counters>>

-----------------------------------------------------------------------------
(* The post-tool hook, timers, and the end of a session.                   *)

\* scheduleRelease for every target the session still holds; the hook may use
\* another name of the session.  A refused tool call has no post-tool hook.
PostTool(w, n) ==
    LET done == {f \in w.files : Mine(f, n)} IN
    /\ w \in writes /\ SameOwner(w.agent, n)
    /\ \/ /\ timers' = (timers \ UNION {TimersOf(f, n) : f \in done})
                           \cup {[owner |-> cache[f].agent, file |-> f,
                                  grant |-> cache[f].grant] : f \in done}
          /\ writes' = LetGo(writes \ {w}, n, done)
       \/ /\ writes' = writes \ {w}
          /\ UNCHANGED timers
    /\ UNCHANGED <<cache, tracked, serverVars, counters>>

\* release, for files whose entries belong to one session.
Release(S) ==
    /\ cache' = [k \in Pattern |-> IF k \in S THEN None ELSE cache[k]]
    /\ calls' = IF Server
                THEN calls \cup {[kind |-> "release", file |-> f, agent |-> cache[f].agent,
                                  grant |-> cache[f].grant] : f \in S \cap Path}
                ELSE calls

\* removeFileReservation, for the stored owner of each.
Untracked(S) ==
    [m \in Local |-> tracked[m] \ {f \in S \cap Path : cache[f].agent = m}]

\* The timer of scheduleRelease fires.
TimerFires(t) ==
    LET S == IF Mine(t.file, t.owner) THEN {t.file} ELSE {} IN
    /\ t \in timers
    /\ Release(S)
    /\ tracked' = Untracked(S)
    /\ timers' = (timers \ {t}) \ TimersOf(t.file, t.owner)
    /\ UNCHANGED <<writes, list, held, counters>>

\* A plausible slip: the timers under the other names of the session stay.
TimersOfName(n) == {t \in timers : t.owner = n}

\* The timers that releaseAllForAgent clears.
TimersOfAll(n) == UNION {TimersOf(f, n) : f \in Path}

\* releaseAllForAgent, when a session ends, or the scan for lost agents has missed
\* the events of one of its names; its calls may still be running.
EndSession(n) ==
    LET all == {k \in Pattern : Mine(k, n)} IN
    /\ all # {} \/ tracked[n] # {}
    /\ Release(all)
    /\ writes' = LetGo(writes, n, all)
    /\ tracked' = [Untracked(all) EXCEPT ![n] = {}]
    /\ timers' = timers \ TimersOfAll(n)
    /\ UNCHANGED <<list, held, counters>>

\* Five minutes are over.  Unless calls are long, that is after the writes of the
\* grant's own session, and after the idle period that follows them.
Expire(k) ==
    /\ cache[k] # None
    /\ ~cache[k].expired
    /\ LongCalls \/ /\ \A w \in writes : Mine(k, w.agent) => k \notin w.files
                    /\ \A t \in timers : t.file # k
    /\ cache' = [cache EXCEPT ![k].expired = TRUE]
    /\ UNCHANGED <<cohortVars, writes, serverVars, counters>>

\* getAll prunes what has expired.
GetAll ==
    /\ \E k \in Pattern : cache[k] # None /\ cache[k].expired
    /\ cache' = [k \in Pattern |->
                    IF cache[k] # None /\ cache[k].expired THEN None ELSE cache[k]]
    /\ UNCHANGED <<cohortVars, writes, serverVars, counters>>

-----------------------------------------------------------------------------
(* The server's answers: rollbackOptimisticGrant and refreshFromServer.    *)

\* The refusal removes whatever local entry its owner has at the file now.
Rollback(c) ==
    /\ c \in calls /\ c.kind = "refused"
    /\ calls' = calls \ {c}
    /\ IF Mine(c.file, c.agent) /\ cache[c.file].cohort = "local"
       THEN /\ cache' = [cache EXCEPT ![c.file] = None]
            /\ tracked' = [tracked EXCEPT ![cache[c.file].agent] = @ \ {c.file}]
            /\ timers' = timers \ TimersOf(c.file, c.agent)
       ELSE UNCHANGED <<cache, tracked, timers>>
    /\ UNCHANGED <<writes, list, held, counters>>

AskList ==
    /\ Server
    /\ list.stage = "idle"
    /\ list' = NoList("asked")
    /\ UNCHANGED <<cache, cohortVars, writes, calls, held, counters>>

\* A plausible slip: entries that the server no longer lists are kept.
RefreshedUpsertOnly(snap) ==
    [k \in Pattern |->
        IF snap[k] # None /\ (cache[k] = None \/ cache[k].cohort = "remote")
        THEN [agent |-> snap[k], cohort |-> "remote", expired |-> FALSE, grant |-> 0]
        ELSE cache[k]]

\* A plausible slip: the list only evicts.
RefreshedEvictOnly(snap) ==
    [k \in Pattern |->
        IF cache[k] # None /\ cache[k].cohort = "remote" /\ snap[k] = None
        THEN None ELSE cache[k]]

\* Evict the remote entries that are not listed, upsert the listed ones unless a
\* local entry stands there.
Refreshed(snap) ==
    [k \in Pattern |->
        IF cache[k] # None /\ cache[k].cohort = "local" THEN cache[k]
        ELSE IF snap[k] = None THEN None
        ELSE [agent |-> snap[k], cohort |-> "remote", expired |-> FALSE, grant |-> 0]]

\* ServerBridge.listReservations answers a failed call with an empty list.
ApplyList ==
    /\ list.stage \in {"failed", "answered"}
    /\ cache' = Refreshed(list.holders)
    /\ list' = NoList("idle")
    /\ UNCHANGED <<cohortVars, writes, calls, held, counters>>

-----------------------------------------------------------------------------
(* The server and the network.                                             *)

HeldAgainst(f, n) ==
    \E k \in Pattern : f \in Covers[k] /\ held[k] \notin {None, n}

\* A reserve call is granted or refused; only a refusal has an effect.
ServeReserve(c) ==
    /\ c \in calls /\ c.kind = "reserve"
    /\ IF HeldAgainst(c.file, c.agent)
       THEN /\ calls' = (calls \ {c}) \cup {[c EXCEPT !.kind = "refused"]}
            /\ UNCHANGED held
       ELSE /\ calls' = calls \ {c}
            /\ held' = [held EXCEPT ![c.file] = c.agent]
    /\ UNCHANGED <<cache, cohortVars, writes, list, counters>>

ServeRelease(c) ==
    /\ c \in calls /\ c.kind = "release"
    /\ calls' = calls \ {c}
    /\ held' = IF held[c.file] = c.agent THEN [held EXCEPT ![c.file] = None] ELSE held
    /\ UNCHANGED <<cache, cohortVars, writes, list, counters>>

ServeList ==
    /\ list.stage = "asked"
    /\ list' = [stage |-> "answered", holders |-> held]
    /\ UNCHANGED <<cache, cohortVars, writes, calls, held, counters>>

\* A call is lost, or times out; reserveFile and releaseFile swallow that.
Fail ==
    /\ faults < MaxFaults
    /\ faults' = faults + 1
    /\ \/ /\ \E c \in calls : c.kind \in {"reserve", "release"} /\ calls' = calls \ {c}
          /\ UNCHANGED list
       \/ /\ list.stage = "asked"
          /\ list' = NoList("failed")
          /\ UNCHANGED calls
    /\ UNCHANGED <<cache, cohortVars, writes, held, grants, remotes>>

\* Another machine's agent reserves and releases; leases end on the server.
RemoteReserve(k) ==
    /\ Server
    /\ remotes < MaxRemote
    /\ remotes' = remotes + 1
    /\ \A j \in Pattern : Covers[j] \cap Covers[k] # {} => held[j] = None
    /\ \E r \in Remote : held' = [held EXCEPT ![k] = r]
    /\ UNCHANGED <<cache, cohortVars, writes, calls, list, grants, faults>>

ServerFrees(k) ==
    /\ held[k] # None
    /\ held' = [held EXCEPT ![k] = None]
    /\ UNCHANGED <<cache, cohortVars, writes, calls, list, counters>>

-----------------------------------------------------------------------------
Daemon ==
    \/ \E c \in calls : Rollback(c) \/ ServeReserve(c) \/ ServeRelease(c)
    \/ \E t \in timers : TimerFires(t)
    \/ AskList \/ ServeList \/ ApplyList

Next ==
    \/ \E n \in Local, S \in SUBSET Path : PreTool(n, S) \/ PreToolBlocked(n, S)
    \/ \E w \in writes, n \in Local : PostTool(w, n)
    \/ \E n \in Local : EndSession(n)
    \/ \E k \in Pattern : Expire(k) \/ RemoteReserve(k) \/ ServerFrees(k)
    \/ GetAll
    \/ Fail
    \/ Daemon

Spec == Init /\ [][Next]_vars

\* Five minutes pass for every grant; another machine's reservation lasts as long
\* as the server says.
ExpireGrant(k) == cache[k] # None /\ cache[k].cohort = "local" /\ Expire(k)

\* A write ends, timers fire, leases run out, and server calls are answered and
\* repeated: the intervals of refreshFromServer and of the status line, which
\* calls getAll, never stop.
Fairness ==
    /\ WF_vars(\E w \in writes, n \in Local : PostTool(w, n))
    /\ \A k \in Pattern : WF_vars(ExpireGrant(k))
    /\ WF_vars(\E t \in timers : TimerFires(t))
    /\ WF_vars(\E c \in calls : Rollback(c))
    /\ WF_vars(\E c \in calls : ServeReserve(c) \/ ServeRelease(c))
    /\ WF_vars(GetAll)
    /\ WF_vars(AskList) /\ WF_vars(ServeList) /\ WF_vars(ApplyList)

FairSpec == Spec /\ Fairness

-----------------------------------------------------------------------------
(* Properties.                                                             *)

\* Two sessions never write one file at once, each on a grant that it has not let
\* go of itself: by ending, by being swept as lost, or by an overlapping call of its
\* own to that file that is over.  No other session, and no timer of a call that was
\* over before, lets the second one in.
WriteExclusion ==
    \A v, w \in writes : v.kept \cap w.kept # {} => SameOwner(v.agent, w.agent)

\* "Two agents interleaving writes on one file is the lost-update case leasing
\* exists for": two sessions are never both granted a file that both write.
NoInterleavedWrites ==
    \A v, w \in writes : v.granted \cap w.granted # {} => SameOwner(v.agent, w.agent)

\* While a session writes what it was granted and has not let go of, the entry at
\* that path is its own: no timer, expiry, pruning, grant or end of another session
\* takes it away under the write.
GrantLastsThroughWrite ==
    \A w \in writes : \A f \in w.kept : Mine(f, w.agent)

\* scheduleRelease "resets the timer if the same agent edits the same file again":
\* a timer that will release what a session holds was set for that very grant.
TimerSparesLaterGrant ==
    \A t \in timers : Mine(t.file, t.owner) => cache[t.file].grant = t.grant

\* A remote entry that the server has dropped does not block for ever.
GhostsEvicted ==
    \A k \in Pattern :
        (cache[k] # None /\ cache[k].cohort = "remote" /\ held[k] = None)
            ~> (cache[k] = None \/ cache[k].cohort = "local" \/ held[k] # None)

\* What another machine holds on the server for good comes to block here, again and
\* again, once no more local grants stand at that pattern (while they do, the list
\* passes over it); lists that fail in between only delay it.
RemoteHoldSeen ==
    \A k \in Pattern, r \in Remote :
        <>[](held[k] = r /\ (cache[k] = None \/ cache[k].cohort = "remote"))
            => []<>(cache[k] # None /\ cache[k].agent = r)

\* rollbackOptimisticGrant: "if the entry has already been replaced .. this is a
\* no-op": a refusal removes the grant it answers and no later one.
RollbackSparesLaterGrant ==
    [][\A c \in calls :
          c.kind = "refused" /\ c \notin calls' /\ cache[c.file] # None
              /\ cache'[c.file] = None
          => cache[c.file].grant = c.grant]_vars

\* "a failed refresh just means stale-until-next-tick": it drops no entry.
FailedRefreshKeepsRemote ==
    [][list.stage = "failed" /\ list'.stage = "idle"
          => \A k \in Pattern : cache[k] # None => cache'[k] # None]_vars
=============================================================================
