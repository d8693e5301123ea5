------------------------ MODULE WarningSpoolProofs ------------------------
(***************************************************************************)
(* What holds of WarningSpool for every set of requests, drains and        *)
(* sessions, and any number of killed processes.                           *)
(***************************************************************************)
EXTENDS WarningSpool, TLAPS, FiniteSetTheorems

\* Where a hook stands that got its answer, and where it has taken its record.
Acknowledging == {"ackReady", "ackActive", "ackLegacy", "emit"}
Acknowledged  == {"ackActive", "ackLegacy", "emit"}

\* How far a request must have come for its files to be there.
RequestInv ==
    \A r \in Req :
        /\ client[r] = "idle" => server[r] = "none"
        /\ r \in owns => server[r] \notin {"none", "sent"}
        /\ server[r] = "finished" => verdict[r] # "none"
        /\ ready[r] # "none" => server[r] = "finished" /\ r \in owns
        /\ client[r] \in Acknowledging => server[r] = "finished" /\ verdict[r] # "fail"
        /\ client[r] \in Acknowledged => ready[r] = "none"

\* No drain meets a file dated ahead of its clock, unless drains may be slow.
AheadInv == ~SlowDrains => \A d \in Drain : ahead[d] = {}

\* As long as its hook has not taken its record, a request that owns its marker has it.
MarkerInv ==
    ~SlowDrains =>
      \A r \in Req :
        r \in owns /\ client[r] \in {"waiting", "cold", "ackReady", "ackActive"}
            => marker[r] # "none"

\* A drain that has looked at the markers finds no record of a hook that runs.
DrainInv ==
    \A d \in Drain : \A r \in listed[d] :
        /\ server[r] = "finished"
        /\ ~SlowDrains /\ drain[d] \in {"young", "consume"} /\ ready[r] # "none"
              /\ SameSession(d, r) => client[r] = "exited"

\* A drain without a lease has claimed nothing.
EmptyInv == \A d \in Drain : drain[d] \in {"idle", "lease", "steal"} => taken[d] = {}

\* Where the warnings of r may be once they are published.
Kept(r) ==
    \/ ready[r] # "none"
    \/ client[r] \in Acknowledged
    \/ \E d \in Drain : r \in taken[d]
    \/ Shown(r)
    \/ r \in lost
    \/ SlowDrains /\ r \in discarded

\* w has the warnings of r, or has shown them.
Holds(r, w) == <<r, w>> \in got \/ (w \in Drain /\ r \in taken[w])

\* Whoever has the warnings has them alone: the record is gone and the hook too.
HolderInv ==
    ~SlowDrains =>
      \A r \in Req, w \in Drain \cup {"hook"} : Holds(r, w) =>
        /\ client[r] = "exited" /\ server[r] = "finished" /\ ready[r] = "none"
        /\ \A v \in Drain \cup {"hook"} : Holds(r, v) => v = w

IInv == TypeOK /\ RequestInv /\ AheadInv /\ MarkerInv /\ DrainInv /\ EmptyInv
          /\ HolderInv /\ NothingDropped

\* A set whose members are all equal has at most one.
LEMMA AtMostOneMember ==
  ASSUME NEW S, \A v, w \in S : v = w
  PROVE  Cardinality(S) <= 1
<1>1. CASE S = {}
  <2>1. Cardinality(S) = 0
    BY <1>1, FS_EmptySet, Zenon
  <2>2. QED
    BY <2>1
<1>2. CASE S # {}
  <2>1. PICK w \in S : TRUE
    BY <1>2
  <2>2. S = {w}
    BY <2>1
  <2>3. Cardinality(S) = 1
    BY <2>2, FS_Singleton, Zenon
  <2>4. QED
    BY <2>3
<1>3. QED
  BY <1>1, <1>2

-----------------------------------------------------------------------------
(* The invariant is inductive.                                             *)

\* With empty hands and an empty spool, but for an older daemon's file, it holds.
LEMMA InitIInv == Init => IInv
  BY SpoolAssumption
  DEF Init, IInv, TypeOK, RequestInv, MarkerInv, DrainInv, HolderInv, Holds,
      NothingDropped, AheadInv, EmptyInv, Published, Shown, Alive, Ages, ClientStates,
      ServerStates, DrainStates, Holding, Acknowledging, Acknowledged

\* A new file is dated ahead of a drain only where drains may be slow.
LEMMA DatedAhead ==
  ASSUME TypeOK, AheadInv, NEW f \in File, Dated(f)
  PROVE  ahead' \in [Drain -> SUBSET File] /\ AheadInv'
<1>1. PICK D \in SUBSET Drain :
         /\ SlowDrains \/ D = {}
         /\ ahead' = [d \in Drain |-> IF d \in D THEN ahead[d] \cup {f} ELSE ahead[d]]
  BY DEF Dated
<1>2. ahead \in [Drain -> SUBSET File]
  BY DEF TypeOK
<1>3. ahead' \in [Drain -> SUBSET File]
  BY <1>1, <1>2
<1>4. ASSUME ~SlowDrains PROVE \A d \in Drain : ahead'[d] = {}
  BY <1>1, <1>4 DEF AheadInv
<1>5. QED
  BY <1>3, <1>4 DEF AheadInv

\* A process that is gone has nothing listed, dated or in its hands.
LEMMA ExitsEmpty ==
  ASSUME TypeOK, NEW d \in Drain, Exits(d)
  PROVE  /\ drain' \in [Drain -> DrainStates] /\ attempts' \in [Drain -> 0 .. 1]
         /\ old' \in [Drain -> SUBSET File] /\ ahead' \in [Drain -> SUBSET File]
         /\ listed' \in [Drain -> SUBSET Req] /\ hadReady' \in [Drain -> BOOLEAN]
         /\ taken' \in [Drain -> SUBSET Req]
         /\ drain'[d] = "idle" /\ ahead'[d] = {} /\ listed'[d] = {} /\ taken'[d] = {}
         /\ \A e \in Drain \ {d} :
               /\ drain'[e] = drain[e] /\ ahead'[e] = ahead[e]
               /\ listed'[e] = listed[e] /\ taken'[e] = taken[e]
  BY DEF TypeOK, Exits, DrainStates

\* What has been published stays accounted for while no record goes and no hand changes.
LEMMA NothingTouched ==
  ASSUME NothingDropped, UNCHANGED <<client, server, verdict, owns, taken, got, lost, discarded>>,
         \A r \in Req : ready[r] # "none" => ready'[r] # "none"
  PROVE  NothingDropped'
  BY DEF NothingDropped, Published, Shown

\* A drain that exits, after it has shown what it had or has lost it, keeps all but the types.
LEMMA DrainEnds ==
  ASSUME IInv, NEW d \in Drain, Exits(d), UNCHANGED <<requestVars, spoolVars, discarded>>,
         got \subseteq got', got' \subseteq got \cup {<<r, d>> : r \in taken[d]},
         lost \subseteq lost', \A r \in taken[d] : <<r, d>> \in got' \/ r \in lost'
  PROVE  /\ RequestInv' /\ AheadInv' /\ MarkerInv' /\ DrainInv' /\ EmptyInv' /\ HolderInv'
         /\ NothingDropped'
<1> USE DEF IInv, requestVars, spoolVars
<1>1. /\ drain'[d] = "idle" /\ ahead'[d] = {} /\ listed'[d] = {} /\ taken'[d] = {}
      /\ \A e \in Drain \ {d} :
            /\ drain'[e] = drain[e] /\ ahead'[e] = ahead[e]
            /\ listed'[e] = listed[e] /\ taken'[e] = taken[e]
  BY ExitsEmpty
<1>2. RequestInv' /\ AheadInv' /\ MarkerInv' /\ EmptyInv'
  BY <1>1 DEF RequestInv, Acknowledging, Acknowledged, AheadInv, MarkerInv, EmptyInv
<1>3. DrainInv'
  BY <1>1 DEF DrainInv, SameSession
<1>4. HolderInv'
  <2> SUFFICES ASSUME ~SlowDrains, NEW r \in Req, NEW w \in Drain \cup {"hook"}, Holds(r, w)'
               PROVE  /\ client[r] = "exited" /\ server[r] = "finished" /\ ready[r] = "none"
                      /\ \A v \in Drain \cup {"hook"} : Holds(r, v)' => v = w
    BY DEF HolderInv
  <2>1. \A v \in Drain \cup {"hook"} : Holds(r, v)' => Holds(r, v)
    BY <1>1 DEF Holds
  <2>2. QED
    BY <2>1 DEF HolderInv
<1>5. NothingDropped'
  <2> SUFFICES ASSUME NEW q \in Req, Published(q)' PROVE Kept(q)'
    BY DEF NothingDropped, Kept, Acknowledged
  <2>1. Published(q) /\ Kept(q)
    BY DEF Published, NothingDropped, Kept, Acknowledged
  <2>2. ASSUME NEW e \in Drain, q \in taken[e]
        PROVE  q \in taken'[e] \/ <<q, e>> \in got' \/ q \in lost'
    BY <1>1, <2>2
  <2>3. QED
    BY <2>1, <2>2 DEF Kept, Shown, Acknowledged
<1>6. QED
  BY <1>2, <1>3, <1>4, <1>5

\* Every step of a hook, of the daemon and of a drain, every kill and the passing of
\* time keep it.
LEMMA NextIInv ==
  ASSUME IInv, [Next]_vars
  PROVE  IInv'
<1> USE SpoolAssumption
    DEF IInv, TypeOK, Ages, ClientStates, ServerStates, DrainStates, Holding,
        ToClient, ToDrain, Acknowledging, Acknowledged,
        requestVars, spoolVars, dates, drainVars, history, File
<1>1. ASSUME NEW r \in Req, SendRequest(r) PROVE IInv'
  <2>1. TypeOK'
    BY <1>1 DEF SendRequest
  <2>2. MarkerInv'
    BY <1>1 DEF SendRequest, RequestInv, MarkerInv, Alive
  <2>3. DrainInv'
    BY <1>1 DEF SendRequest, RequestInv, DrainInv
  <2>4. NothingDropped'
    <3> SUFFICES ASSUME NEW q \in Req, Published(q)' PROVE Kept(q)'
      BY DEF NothingDropped, Kept
    <3>1. Published(q)
      BY <1>1 DEF SendRequest, Published, RequestInv
    <3>2. Kept(q)
      BY <3>1 DEF NothingDropped, Kept
    <3>3. QED
      BY <1>1, <3>1, <3>2 DEF SendRequest, Kept, Shown
  <2>5. RequestInv' /\ HolderInv' /\ AheadInv' /\ EmptyInv'
    BY <1>1 DEF SendRequest, RequestInv, HolderInv, Holds, AheadInv, EmptyInv
  <2>6. QED
    BY <2>1, <2>2, <2>3, <2>4, <2>5
<1>2. ASSUME NEW r \in Req, ReceiveDecision(r) PROVE IInv'
  <2>1. TypeOK'
    BY <1>2 DEF ReceiveDecision
  <2>2. NothingDropped'
    <3> SUFFICES ASSUME NEW q \in Req, Published(q)' PROVE Kept(q)'
      BY DEF NothingDropped, Kept
    <3>1. Published(q)
      BY <1>2 DEF ReceiveDecision, Published
    <3>2. Kept(q)
      BY <3>1 DEF NothingDropped, Kept
    <3>3. QED
      BY <1>2, <3>1, <3>2 DEF ReceiveDecision, Kept, Shown
  <2>3. /\ RequestInv' /\ MarkerInv'
        /\ DrainInv' /\ HolderInv' /\ AheadInv' /\ EmptyInv'
    BY <1>2 DEF ReceiveDecision, RequestInv, MarkerInv, Alive, DrainInv,
       HolderInv, Holds, AheadInv, EmptyInv
  <2>4. QED
    BY <2>1, <2>2, <2>3
<1>3. ASSUME NEW r \in Req, FallBackCold(r) PROVE IInv'
  <2>1. TypeOK'
    BY <1>3 DEF FallBackCold
  <2>2. NothingDropped'
    <3> SUFFICES ASSUME NEW q \in Req, Published(q)' PROVE Kept(q)'
      BY DEF NothingDropped, Kept
    <3>1. Published(q)
      BY <1>3 DEF FallBackCold, Published
    <3>2. Kept(q)
      BY <3>1 DEF NothingDropped, Kept
    <3>3. QED
      BY <1>3, <3>1, <3>2 DEF FallBackCold, Kept, Shown
  <2>3. /\ RequestInv' /\ MarkerInv'
        /\ DrainInv' /\ HolderInv' /\ AheadInv' /\ EmptyInv'
    BY <1>3 DEF FallBackCold, RequestInv, MarkerInv, Alive, DrainInv,
       HolderInv, Holds, AheadInv, EmptyInv
  <2>4. QED
    BY <2>1, <2>2, <2>3
<1>4. ASSUME NEW r \in Req, AckReady(r) PROVE IInv'
  <2>1. TypeOK'
    BY <1>4 DEF AckReady
  <2>2. NothingDropped'
    <3> SUFFICES ASSUME NEW q \in Req, Published(q)' PROVE Kept(q)'
      BY DEF NothingDropped, Kept
    <3>1. Published(q)
      BY <1>4 DEF AckReady, Published
    <3>2. Kept(q)
      BY <3>1 DEF NothingDropped, Kept
    <3>3. QED
      BY <1>4, <3>1, <3>2 DEF AckReady, Kept, Shown
  <2>3. /\ RequestInv' /\ MarkerInv'
        /\ DrainInv' /\ HolderInv' /\ AheadInv' /\ EmptyInv'
    BY <1>4 DEF AckReady, RequestInv, MarkerInv, Alive, DrainInv,
       HolderInv, Holds, AheadInv, EmptyInv
  <2>4. QED
    BY <2>1, <2>2, <2>3
<1>5. ASSUME NEW r \in Req, AckActive(r) PROVE IInv'
  <2>1. TypeOK'
    BY <1>5 DEF AckActive
  <2>2. MarkerInv'
    BY <1>5 DEF AckActive, RequestInv, MarkerInv, Alive
  <2>3. NothingDropped'
    <3> SUFFICES ASSUME NEW q \in Req, Published(q)' PROVE Kept(q)'
      BY DEF NothingDropped, Kept
    <3>1. Published(q)
      BY <1>5 DEF AckActive, Published
    <3>2. Kept(q)
      BY <3>1 DEF NothingDropped, Kept
    <3>3. QED
      BY <1>5, <3>1, <3>2 DEF AckActive, Kept, Shown
  <2>4. RequestInv' /\ DrainInv' /\ HolderInv' /\ AheadInv' /\ EmptyInv'
    BY <1>5 DEF AckActive, RequestInv, DrainInv, HolderInv, Holds,
       AheadInv, EmptyInv
  <2>5. QED
    BY <2>1, <2>2, <2>3, <2>4
<1>6. ASSUME NEW r \in Req, AckLegacy(r) PROVE IInv'
  <2>1. TypeOK'
    BY <1>6 DEF AckLegacy
  <2>2. NothingDropped'
    <3> SUFFICES ASSUME NEW q \in Req, Published(q)' PROVE Kept(q)'
      BY DEF NothingDropped, Kept
    <3>1. Published(q)
      BY <1>6 DEF AckLegacy, Published
    <3>2. Kept(q)
      BY <3>1 DEF NothingDropped, Kept
    <3>3. QED
      BY <1>6, <3>1, <3>2 DEF AckLegacy, Kept, Shown
  <2>3. /\ RequestInv' /\ MarkerInv'
        /\ DrainInv' /\ HolderInv' /\ AheadInv' /\ EmptyInv'
    BY <1>6 DEF AckLegacy, RequestInv, MarkerInv, Alive, DrainInv,
       HolderInv, Holds, AheadInv, EmptyInv
  <2>4. QED
    BY <2>1, <2>2, <2>3
<1>7. ASSUME NEW r \in Req, EmitDirect(r) PROVE IInv'
  <2>1. TypeOK'
    BY <1>7 DEF EmitDirect
  <2>2. HolderInv'
    BY <1>7 DEF EmitDirect, RequestInv, HolderInv, Holds
  <2>3. NothingDropped'
    <3> SUFFICES ASSUME NEW q \in Req, Published(q)' PROVE Kept(q)'
      BY DEF NothingDropped, Kept
    <3>1. Published(q)
      BY <1>7 DEF EmitDirect, Published
    <3>2. CASE q = r
      <4>1. verdict[r] = "warn"
        BY <1>7, <3>1, <3>2 DEF EmitDirect, Published, RequestInv
      <4>2. <<r, "hook">> \in got'
        BY <1>7, <4>1 DEF EmitDirect
      <4>3. QED
        BY <3>2, <4>2 DEF Kept, Shown
    <3>3. CASE q # r
      <4>1. Kept(q)
        BY <3>1 DEF NothingDropped, Kept
      <4>2. QED
        BY <1>7, <3>3, <4>1 DEF EmitDirect, Kept, Shown
    <3>4. QED
      BY <3>2, <3>3
  <2>4. RequestInv' /\ MarkerInv' /\ DrainInv' /\ AheadInv' /\ EmptyInv'
    BY <1>7 DEF EmitDirect, RequestInv, MarkerInv, DrainInv, AheadInv, EmptyInv
  <2>5. QED
    BY <2>1, <2>2, <2>3, <2>4
<1>8. ASSUME NEW r \in Req, ExitCold(r) PROVE IInv'
  <2>1. TypeOK'
    BY <1>8 DEF ExitCold
  <2>2. NothingDropped'
    <3> SUFFICES ASSUME NEW q \in Req, Published(q)' PROVE Kept(q)'
      BY DEF NothingDropped, Kept
    <3>1. Published(q)
      BY <1>8 DEF ExitCold, Published
    <3>2. Kept(q)
      BY <3>1 DEF NothingDropped, Kept
    <3>3. QED
      BY <1>8, <3>1, <3>2 DEF ExitCold, Kept, Shown
  <2>3. /\ RequestInv' /\ MarkerInv'
        /\ DrainInv' /\ HolderInv' /\ AheadInv' /\ EmptyInv'
    BY <1>8 DEF ExitCold, RequestInv, MarkerInv, Alive, DrainInv,
       HolderInv, Holds, AheadInv, EmptyInv
  <2>4. QED
    BY <2>1, <2>2, <2>3
<1>9. ASSUME NEW r \in Req, KillClient(r) PROVE IInv'
  <2>1. TypeOK'
    BY <1>9 DEF KillClient
  <2>2. NothingDropped'
    <3> SUFFICES ASSUME NEW q \in Req, Published(q)' PROVE Kept(q)'
      BY DEF NothingDropped, Kept
    <3>1. Published(q)
      BY <1>9 DEF KillClient, Published
    <3>2. Kept(q)
      BY <3>1 DEF NothingDropped, Kept
    <3>3. QED
      BY <1>9, <3>1, <3>2 DEF KillClient, Kept, Shown
  <2>3. /\ RequestInv' /\ MarkerInv'
        /\ DrainInv' /\ HolderInv' /\ AheadInv' /\ EmptyInv'
    BY <1>9 DEF KillClient, RequestInv, MarkerInv, Alive, DrainInv,
       HolderInv, Holds, AheadInv, EmptyInv
  <2>4. QED
    BY <2>1, <2>2, <2>3
<1>10. ASSUME NEW r \in Req, BeginSpool(r) PROVE IInv'
  <2>0. ahead' \in [Drain -> SUBSET File] /\ AheadInv'
    <3>1. CASE Dated(<<"marker", r>>)
      BY <3>1, DatedAhead DEF IInv, File
    <3>2. CASE UNCHANGED ahead
      BY <3>2 DEF AheadInv
    <3>3. QED
      BY <1>10, <3>1, <3>2 DEF BeginSpool
  <2>1. TypeOK'
    BY <1>10, <2>0 DEF BeginSpool
  <2>2. MarkerInv'
    BY <1>10 DEF BeginSpool, RequestInv, MarkerInv, Alive
  <2>3. NothingDropped'
    <3> SUFFICES ASSUME NEW q \in Req, Published(q)' PROVE Kept(q)'
      BY DEF NothingDropped, Kept
    <3>1. Published(q)
      BY <1>10 DEF BeginSpool, Published, RequestInv
    <3>2. Kept(q)
      BY <3>1 DEF NothingDropped, Kept
    <3>3. QED
      BY <1>10, <3>1, <3>2 DEF BeginSpool, Kept, Shown
  <2>4. RequestInv' /\ DrainInv' /\ EmptyInv' /\ HolderInv'
    BY <1>10 DEF BeginSpool, RequestInv, DrainInv, EmptyInv, HolderInv, Holds
  <2>5. QED
    BY <2>0, <2>1, <2>2, <2>3, <2>4
<1>11. ASSUME NEW r \in Req, CompleteSpool(r) PROVE IInv'
  <2>0. ahead' \in [Drain -> SUBSET File] /\ AheadInv'
    <3>1. CASE Dated(<<"ready", r>>)
      BY <3>1, DatedAhead DEF IInv, File
    <3>2. CASE UNCHANGED ahead
      BY <3>2 DEF AheadInv
    <3>3. QED
      BY <1>11, <3>1, <3>2 DEF CompleteSpool
  <2>1. TypeOK'
    BY <1>11, <2>0 DEF CompleteSpool
  <2>2. NothingDropped'
    <3> SUFFICES ASSUME NEW q \in Req, Published(q)' PROVE Kept(q)'
      BY DEF NothingDropped, Kept
    <3>1. CASE q = r
      BY <1>11, <3>1 DEF CompleteSpool, Published, Kept
    <3>2. CASE q # r
      <4>1. Published(q) /\ Kept(q)
        BY <1>11, <3>2 DEF CompleteSpool, Published, NothingDropped, Kept
      <4>2. QED
        BY <1>11, <3>2, <4>1 DEF CompleteSpool, Kept, Shown
    <3>3. QED
      BY <3>1, <3>2
  <2>3. RequestInv' /\ MarkerInv' /\ DrainInv' /\ EmptyInv' /\ HolderInv'
    BY <1>11 DEF CompleteSpool, RequestInv, MarkerInv, DrainInv, EmptyInv, HolderInv, Holds
  <2>4. QED
    BY <2>0, <2>1, <2>2, <2>3
<1>12. ASSUME NEW r \in Req, GraceEnds(r) PROVE IInv'
  <2>1. TypeOK'
    BY <1>12 DEF GraceEnds
  <2>2. NothingDropped'
    BY <1>12, NothingTouched DEF GraceEnds
  <2>3. /\ RequestInv' /\ MarkerInv'
        /\ DrainInv' /\ HolderInv' /\ AheadInv' /\ EmptyInv'
    BY <1>12 DEF GraceEnds, RequestInv, MarkerInv, Alive, DrainInv,
       HolderInv, Holds, AheadInv, EmptyInv
  <2>4. QED
    BY <2>1, <2>2, <2>3
<1>13. ASSUME NEW d \in Drain, StartDrain(d) PROVE IInv'
  <2>1. TypeOK'
    BY <1>13 DEF StartDrain
  <2>2. NothingDropped'
    BY <1>13, NothingTouched DEF StartDrain
  <2>3. /\ RequestInv' /\ MarkerInv'
        /\ DrainInv' /\ HolderInv' /\ AheadInv' /\ EmptyInv'
    BY <1>13 DEF StartDrain, RequestInv, MarkerInv, Alive, DrainInv,
       HolderInv, Holds, AheadInv, EmptyInv
  <2>4. QED
    BY <2>1, <2>2, <2>3
<1>14. ASSUME NEW d \in Drain, TryLease(d) PROVE IInv'
  <2>1. CASE Exits(d)
    <3>1. taken[d] = {}
      BY <1>14 DEF TryLease, EmptyInv
    <3>2. TypeOK'
      BY <1>14, <2>1, ExitsEmpty DEF TryLease
    <3>3. QED
      BY <1>14, <2>1, <3>1, <3>2, DrainEnds DEF TryLease
  <2>2. CASE ~Exits(d)
    <3>1. TypeOK'
      BY <1>14, <2>2 DEF TryLease
    <3>2. NothingDropped'
      BY <1>14, <2>2, NothingTouched DEF TryLease
    <3>3. RequestInv' /\ MarkerInv' /\ DrainInv' /\ EmptyInv' /\ HolderInv' /\ AheadInv'
      BY <1>14, <2>2 DEF TryLease, RequestInv, MarkerInv, DrainInv, EmptyInv, HolderInv, Holds,
         AheadInv
    <3>4. QED
      BY <3>1, <3>2, <3>3
  <2>3. QED
    BY <2>1, <2>2
<1>15. ASSUME NEW d \in Drain, StealLease(d) PROVE IInv'
  <2>1. CASE Exits(d)
    <3>1. taken[d] = {}
      BY <1>15 DEF StealLease, EmptyInv
    <3>2. TypeOK'
      BY <1>15, <2>1, ExitsEmpty DEF StealLease
    <3>3. QED
      BY <1>15, <2>1, <3>1, <3>2, DrainEnds DEF StealLease
  <2>2. CASE ~Exits(d)
    <3>1. TypeOK'
      BY <1>15, <2>2 DEF StealLease
    <3>2. NothingDropped'
      BY <1>15, <2>2, NothingTouched DEF StealLease
    <3>3. RequestInv' /\ MarkerInv' /\ DrainInv' /\ EmptyInv' /\ HolderInv' /\ AheadInv'
      BY <1>15, <2>2 DEF StealLease, RequestInv, MarkerInv, DrainInv, EmptyInv, HolderInv, Holds,
         AheadInv
    <3>4. QED
      BY <3>1, <3>2, <3>3
  <2>3. QED
    BY <2>1, <2>2
<1>16. ASSUME NEW d \in Drain, ListReady(d) PROVE IInv'
  <2>1. TypeOK'
    BY <1>16 DEF ListReady
  <2>2. DrainInv'
    BY <1>16 DEF ListReady, RequestInv, DrainInv
  <2>3. NothingDropped'
    BY <1>16, NothingTouched DEF ListReady
  <2>4. RequestInv' /\ MarkerInv' /\ HolderInv' /\ AheadInv' /\ EmptyInv'
    BY <1>16 DEF ListReady, RequestInv, MarkerInv, Alive, HolderInv,
       Holds, AheadInv, EmptyInv
  <2>5. QED
    BY <2>1, <2>2, <2>3, <2>4
<1>17. ASSUME NEW d \in Drain, SweepMarkers(d) PROVE IInv'
  <2>1. TypeOK'
    BY <1>17 DEF SweepMarkers
  <2>2. NothingDropped'
    BY <1>17, NothingTouched DEF SweepMarkers
  <2>3. /\ RequestInv' /\ MarkerInv'
        /\ DrainInv' /\ HolderInv' /\ AheadInv' /\ EmptyInv'
    BY <1>17 DEF SweepMarkers, RequestInv, MarkerInv, Alive, DrainInv,
       HolderInv, Holds, AheadInv, EmptyInv
  <2>4. QED
    BY <2>1, <2>2, <2>3
<1>18. ASSUME NEW d \in Drain, CheckActive(d) PROVE IInv'
  <2>1. TypeOK'
    BY <1>18 DEF CheckActive
  <2>2. DrainInv'
    <3> SUFFICES ASSUME NEW e \in Drain, NEW q \in listed[e]
                 PROVE  /\ server[q] = "finished"
                        /\ ~SlowDrains /\ drain'[e] \in {"young", "consume"} /\ ready[q] # "none"
                              /\ SameSession(e, q) => client[q] = "exited"
      <4>1. UNCHANGED <<listed, server, client, ready>>
        BY <1>18 DEF CheckActive
      <4>2. QED
        BY <4>1 DEF DrainInv, SameSession
    <3>1. server[q] = "finished"
      BY DEF DrainInv
    <3>2. CASE e # d
      BY <1>18, <3>2 DEF CheckActive, DrainInv
    <3>3. CASE e = d
      <4> SUFFICES ASSUME ~SlowDrains, drain'[d] = "young", ready[q] # "none", SameSession(d, q)
                   PROVE  client[q] = "exited"
        BY <1>18, <3>1, <3>3 DEF CheckActive
      <4>1. q \in owns /\ client[q] # "idle" /\ client[q] \notin Acknowledged
        BY <3>1 DEF RequestInv
      <4>2. marker[q] = "none" \/ ~Alive(q)
        BY <1>18 DEF CheckActive, AheadInv
      <4>3. QED
        BY <4>1, <4>2 DEF MarkerInv, Alive
    <3>4. QED
      BY <3>2, <3>3
  <2>3. NothingDropped'
    BY <1>18, NothingTouched DEF CheckActive
  <2>4. RequestInv' /\ MarkerInv' /\ EmptyInv' /\ HolderInv' /\ AheadInv'
    BY <1>18 DEF CheckActive, RequestInv, MarkerInv, EmptyInv, HolderInv, Holds, AheadInv
  <2>5. QED
    BY <2>1, <2>2, <2>3, <2>4
<1>19. ASSUME NEW d \in Drain, CheckYoung(d) PROVE IInv'
  <2>1. TypeOK'
    BY <1>19 DEF CheckYoung
  <2>2. NothingDropped'
    BY <1>19, NothingTouched DEF CheckYoung
  <2>3. /\ RequestInv' /\ MarkerInv'
        /\ DrainInv' /\ HolderInv' /\ AheadInv' /\ EmptyInv'
    BY <1>19 DEF CheckYoung, RequestInv, MarkerInv, Alive, DrainInv,
       HolderInv, Holds, AheadInv, EmptyInv
  <2>4. QED
    BY <2>1, <2>2, <2>3
<1>20. ASSUME NEW d \in Drain, ConsumeReady(d) PROVE IInv'
  <2>1. TypeOK'
    <3>1. ready' \in [Req -> Ages] /\ marker' \in [Req -> Ages]
      BY <1>20 DEF ConsumeReady
    <3>2. listed' \in [Drain -> SUBSET Req]
      BY <1>20 DEF ConsumeReady
    <3>3. taken' \in [Drain -> SUBSET Req] /\ discarded' \in SUBSET Req
      BY <1>20 DEF ConsumeReady
    <3>4. QED
      BY <1>20, <3>1, <3>2, <3>3 DEF ConsumeReady
  <2>2. PICK r \in listed[d] :
          \/ /\ ready[r] # "none" /\ ~Skip(d, r)
             /\ ready' = [ready EXCEPT ![r] = "none"]
             /\ marker' = [marker EXCEPT ![r] = "none"]
             /\ \/ /\ <<"ready", r>> \in ahead[d]
                   /\ UNCHANGED taken
                   /\ discarded' = discarded \cup {r}
                \/ /\ SameSession(d, r)
                   /\ taken' = [taken EXCEPT ![d] = @ \cup {r}]
                   /\ UNCHANGED discarded
          \/ UNCHANGED <<ready, marker, taken, discarded>>
    <3>1. PICK r \in listed[d] :
             \/ /\ ready[r] # "none" /\ ~Skip(d, r)
                /\ ready' = [ready EXCEPT ![r] = "none"]
                /\ marker' = [marker EXCEPT ![r] = "none"]
                /\ taken' = [taken EXCEPT ![d] = IF <<"ready", r>> \notin ahead[d] /\ SameSession(d, r)
                                                THEN @ \cup {r} ELSE @]
                /\ discarded' = IF <<"ready", r>> \in ahead[d] THEN discarded \cup {r}
                                ELSE discarded
             \/ UNCHANGED <<ready, marker, taken, discarded>>
      BY <1>20, Zenon DEF ConsumeReady
    <3>2. CASE <<"ready", r>> \in ahead[d]
      <4>1. [taken EXCEPT ![d] = taken[d]] = taken
        OBVIOUS
      <4>2. QED
        BY <3>1, <3>2, <4>1
    <3>3. CASE <<"ready", r>> \notin ahead[d]
      BY <3>1, <3>3 DEF Skip
    <3>4. QED
      BY <3>2, <3>3
  <2>3. /\ drain[d] = "consume" /\ r \in Req
        /\ UNCHANGED <<client, server, verdict, owns, drain, ahead, got, lost>>
        /\ \A e \in Drain : listed'[e] \subseteq listed[e]
    BY <1>20 DEF ConsumeReady
  <2>4. ASSUME ~SlowDrains, ready[r] # "none", ~Skip(d, r)
        PROVE  client[r] = "exited" /\ server[r] = "finished" /\ SameSession(d, r)
    BY <2>3, <2>4 DEF Skip, AheadInv, DrainInv
  <2>5. MarkerInv'
    BY <2>2, <2>3, <2>4 DEF MarkerInv
  <2>6. HolderInv'
    <3> SUFFICES ASSUME ~SlowDrains,
                        NEW q \in Req, NEW w \in Drain \cup {"hook"}, Holds(q, w)'
                 PROVE  /\ client'[q] = "exited" /\ server'[q] = "finished"
                        /\ ready'[q] = "none"
                        /\ \A v \in Drain \cup {"hook"} : Holds(q, v)' => v = w
      BY DEF HolderInv
    <3>1. CASE q = r /\ taken' # taken
      <4>1. ready[r] # "none" /\ client[r] = "exited" /\ server[r] = "finished"
        BY <2>2, <2>4, <3>1
      <4>2. \A v \in Drain \cup {"hook"} : ~Holds(r, v)
        BY <4>1 DEF HolderInv
      <4>3. ready'[r] = "none"
        BY <2>2, <3>1
      <4>4. \A v \in Drain \cup {"hook"} : Holds(r, v)' => v = d
        BY <2>2, <2>3, <3>1, <4>2 DEF Holds
      <4>5. QED
        BY <2>3, <3>1, <4>1, <4>3, <4>4
    <3>2. CASE q # r \/ taken' = taken
      <4>1. \A v \in Drain \cup {"hook"} : Holds(q, v)' <=> Holds(q, v)
        BY <2>2, <2>3, <3>2 DEF Holds
      <4>2. ready'[q] = ready[q] \/ ready'[q] = "none"
        BY <2>2
      <4>3. QED
        BY <2>3, <4>1, <4>2 DEF HolderInv
    <3>3. QED
      BY <3>1, <3>2
  <2>7. NothingDropped'
    <3> SUFFICES ASSUME NEW q \in Req, Published(q)' PROVE Kept(q)'
      BY DEF NothingDropped, Kept
    <3>1. Published(q) /\ Kept(q)
      BY <2>3 DEF Published, NothingDropped, Kept
    <3>2. \A e \in Drain : taken[e] \subseteq taken'[e]
      BY <2>2
    <3>3. discarded \subseteq discarded'
      BY <2>2
    <3>4. CASE q = r /\ ready'[q] # ready[q]
      <4>1. q \in taken'[d] \/ (q \in discarded' /\ SlowDrains)
        BY <2>2, <3>4 DEF AheadInv
      <4>2. QED
        BY <4>1 DEF Kept
    <3>5. CASE ready'[q] = ready[q]
      BY <2>3, <3>1, <3>2, <3>3, <3>5 DEF Kept, Shown
    <3>6. QED
      BY <2>2, <3>4, <3>5
  <2>8. RequestInv' /\ AheadInv' /\ EmptyInv'
    BY <2>2, <2>3 DEF RequestInv, AheadInv, EmptyInv
  <2>9. DrainInv'
    BY <2>2, <2>3 DEF DrainInv, SameSession
  <2>10. QED
    BY <2>1, <2>5, <2>6, <2>7, <2>8, <2>9
<1>21. ASSUME NEW d \in Drain, ConsumeLegacy(d) PROVE IInv'
  <2>1. TypeOK'
    BY <1>21 DEF ConsumeLegacy
  <2>2. NothingDropped'
    BY <1>21, NothingTouched DEF ConsumeLegacy
  <2>3. /\ RequestInv' /\ MarkerInv'
        /\ DrainInv' /\ HolderInv' /\ AheadInv' /\ EmptyInv'
    BY <1>21 DEF ConsumeLegacy, RequestInv, MarkerInv, Alive, DrainInv,
       HolderInv, Holds, AheadInv, EmptyInv
  <2>4. QED
    BY <2>1, <2>2, <2>3
<1>22. ASSUME NEW d \in Drain, ReleaseLease(d) PROVE IInv'
  <2>1. TypeOK'
    BY <1>22 DEF ReleaseLease
  <2>2. NothingDropped'
    BY <1>22, NothingTouched DEF ReleaseLease
  <2>3. /\ RequestInv' /\ MarkerInv'
        /\ DrainInv' /\ HolderInv' /\ AheadInv' /\ EmptyInv'
    BY <1>22 DEF ReleaseLease, RequestInv, MarkerInv, Alive, DrainInv,
       HolderInv, Holds, AheadInv, EmptyInv
  <2>4. QED
    BY <2>1, <2>2, <2>3
<1>23. ASSUME NEW d \in Drain, Unlock(d) PROVE IInv'
  <2>1. TypeOK'
    BY <1>23 DEF Unlock
  <2>2. NothingDropped'
    BY <1>23, NothingTouched DEF Unlock
  <2>3. /\ RequestInv' /\ MarkerInv'
        /\ DrainInv' /\ HolderInv' /\ AheadInv' /\ EmptyInv'
    BY <1>23 DEF Unlock, RequestInv, MarkerInv, Alive, DrainInv,
       HolderInv, Holds, AheadInv, EmptyInv
  <2>4. QED
    BY <2>1, <2>2, <2>3
<1>24. ASSUME NEW d \in Drain, EmitLate(d) PROVE IInv'
  <2>1. TypeOK'
    <3>1. /\ drain' \in [Drain -> DrainStates] /\ attempts' \in [Drain -> 0 .. 1]
          /\ old' \in [Drain -> SUBSET File] /\ ahead' \in [Drain -> SUBSET File]
          /\ listed' \in [Drain -> SUBSET Req] /\ hadReady' \in [Drain -> BOOLEAN]
          /\ taken' \in [Drain -> SUBSET Req]
      BY <1>24, ExitsEmpty DEF EmitLate
    <3>2. QED
      BY <1>24, <3>1, ExitsEmpty DEF EmitLate
  <2>2. QED
    BY <1>24, <2>1, DrainEnds DEF EmitLate
<1>25. ASSUME NEW d \in Drain, KillDrain(d) PROVE IInv'
  <2>1. TypeOK'
    <3>1. /\ drain' \in [Drain -> DrainStates] /\ attempts' \in [Drain -> 0 .. 1]
          /\ old' \in [Drain -> SUBSET File] /\ ahead' \in [Drain -> SUBSET File]
          /\ listed' \in [Drain -> SUBSET Req] /\ hadReady' \in [Drain -> BOOLEAN]
          /\ taken' \in [Drain -> SUBSET Req]
      BY <1>25, ExitsEmpty DEF KillDrain
    <3>2. QED
      BY <1>25, <3>1, ExitsEmpty DEF KillDrain
  <2>2. QED
    BY <1>25, <2>1, DrainEnds DEF KillDrain
<1>26. ASSUME KillDaemon PROVE IInv'
  <2>1. TypeOK'
    BY <1>26 DEF KillDaemon
  <2>2. NothingDropped'
    <3> SUFFICES ASSUME NEW q \in Req, Published(q)' PROVE Kept(q)'
      BY DEF NothingDropped, Kept
    <3>1. Published(q)
      BY <1>26 DEF KillDaemon, Published
    <3>2. Kept(q)
      BY <3>1 DEF NothingDropped, Kept
    <3>3. QED
      BY <1>26, <3>1, <3>2 DEF KillDaemon, Kept, Shown
  <2>3. /\ RequestInv' /\ MarkerInv'
        /\ DrainInv' /\ HolderInv' /\ AheadInv' /\ EmptyInv'
    BY <1>26 DEF KillDaemon, RequestInv, MarkerInv, Alive, DrainInv,
       HolderInv, Holds, AheadInv, EmptyInv
  <2>4. QED
    BY <2>1, <2>2, <2>3
<1>27. ASSUME LeaseAges PROVE IInv'
  <2>1. TypeOK'
    BY <1>27 DEF LeaseAges
  <2>2. NothingDropped'
    BY <1>27, NothingTouched DEF LeaseAges
  <2>3. /\ RequestInv' /\ MarkerInv'
        /\ DrainInv' /\ HolderInv' /\ AheadInv' /\ EmptyInv'
    BY <1>27 DEF LeaseAges, RequestInv, MarkerInv, Alive, DrainInv,
       HolderInv, Holds, AheadInv, EmptyInv
  <2>4. QED
    BY <2>1, <2>2, <2>3
<1>28. CASE UNCHANGED vars
  <2> USE <1>28 DEF vars
  <2>1. TypeOK'
    OBVIOUS
  <2>2. RequestInv' /\ MarkerInv'
    BY DEF RequestInv, MarkerInv, Alive
  <2>3. DrainInv' /\ HolderInv'
    BY DEF DrainInv, HolderInv, Holds, SameSession
  <2>4. NothingDropped' /\ AheadInv' /\ EmptyInv'
    BY DEF NothingDropped, AheadInv, EmptyInv, Published, Shown
  <2>5. QED
    BY <2>1, <2>2, <2>3, <2>4
<1>29. QED
  BY <1>1, <1>2, <1>3, <1>4, <1>5, <1>6, <1>7, <1>8, <1>9, <1>10, <1>11, <1>12,
     <1>13, <1>14, <1>15, <1>16, <1>17, <1>18, <1>19, <1>20, <1>21, <1>22, <1>23,
     <1>24, <1>25, <1>26, <1>27, <1>28
  DEF Next, ClientStep, ServerStep, DrainStep

\* Hence it holds in every reachable state.
LEMMA Inductive == Spec => []IInv
<1>1. QED
  BY InitIInv, NextIInv, PTL DEF Spec

-----------------------------------------------------------------------------
(* The theorems.                                                           *)

\* Everything keeps its type, and a lease names a drain that is at work under it.
THEOREM TypeCorrect == Spec => []TypeOK
<1>1. IInv => TypeOK
  BY DEF IInv
<1>2. QED
  BY Inductive, <1>1, PTL

\* The warnings of one request are shown at most once, by its own hook or by one drain
\* (consumeReadyRecords claims by rename, acknowledgement comes before the output), as long
\* as no drain meets a file dated ahead of its clock.
THEOREM ShownOnce ==
  ASSUME ~SlowDrains PROVE Spec => []AtMostOnce
<1>1. IInv => AtMostOnce
  <2> SUFFICES ASSUME IInv, NEW r \in Req
               PROVE  Cardinality({w \in Drain \cup {"hook"} :
                          <<r, w>> \in got \/ (w \in Drain /\ r \in taken[w])}) <= 1
    BY DEF AtMostOnce
  <2>1. \A v, w \in {u \in Drain \cup {"hook"} : Holds(r, u)} : v = w
    BY DEF IInv, HolderInv
  <2>2. QED
    BY <2>1, AtMostOneMember DEF Holds
<1>2. QED
  BY Inductive, <1>1, PTL

\* A published warning is in the spool, with somebody who will show it, shown, lost
\* with a killed process, or, where drains may be slow, thrown away as dated ahead (completePostToolWarningSpool, the drain's early returns).
THEOREM NothingIsDropped == Spec => []NothingDropped
<1>1. IInv => NothingDropped
  BY DEF IInv
<1>2. QED
  BY Inductive, <1>1, PTL

\* No sweep takes the marker of a hook that still waits for its answer
\* (staleActiveRecord), as long as no drain meets a marker dated ahead of its clock.
THEOREM LiveMarkersStay ==
  ASSUME ~SlowDrains PROVE Spec => []LiveMarkerStays
<1>1. IInv => LiveMarkerStays
  BY DEF IInv, MarkerInv, LiveMarkerStays
<1>2. QED
  BY Inductive, <1>1, PTL

\* A drain claims a record only when the hook that asked for it is gone
\* (activeRequestOwnsDelivery, looked at after the records are listed), as long as no drain
\* meets a file dated ahead of its clock.
THEOREM HookFirst ==
  ASSUME ~SlowDrains PROVE Spec => FirstDelivery
<1> DEFINE First == \A d \in Drain : \A r \in taken'[d] \ taken[d] : ~Alive(r)
<1>1. IInv /\ [Next]_vars => [First]_vars
  <2> SUFFICES ASSUME IInv, Next, NEW d \in Drain, NEW r \in taken'[d] \ taken[d]
               PROVE  ~Alive(r)
    BY DEF vars
  <2>1. PICK e \in Drain : ConsumeReady(e)
    <3>1. taken' # taken
      OBVIOUS
    <3>2. ASSUME NEW q \in Req,
                 SendRequest(q) \/ ClientStep(q) \/ KillClient(q) \/ ServerStep(q) \/ GraceEnds(q)
          PROVE  UNCHANGED taken
      BY <3>2 DEF ClientStep, ServerStep, drainVars, SendRequest, ReceiveDecision, FallBackCold,
         AckReady, AckActive, AckLegacy, EmitDirect, ExitCold, KillClient, BeginSpool,
         CompleteSpool, GraceEnds
    <3>3. ASSUME KillDaemon \/ LeaseAges PROVE UNCHANGED taken
      BY <3>3 DEF KillDaemon, LeaseAges, drainVars
    <3>4. PICK e \in Drain : StartDrain(e) \/ DrainStep(e) \/ KillDrain(e)
      BY <3>1, <3>2, <3>3 DEF Next
    <3>5. ASSUME \/ StartDrain(e) \/ ListReady(e) \/ SweepMarkers(e) \/ CheckActive(e)
                 \/ CheckYoung(e) \/ ConsumeLegacy(e) \/ ReleaseLease(e) \/ Unlock(e)
          PROVE  UNCHANGED taken
      BY <3>5 DEF StartDrain, ListReady, SweepMarkers, CheckActive, CheckYoung,
         ConsumeLegacy, ReleaseLease, Unlock, drainVars
    <3>6. ASSUME TryLease(e) \/ StealLease(e) \/ EmitLate(e) \/ KillDrain(e) PROVE FALSE
      <4>1. taken' = [taken EXCEPT ![e] = {}] \/ taken' = taken
        BY <3>6 DEF TryLease, StealLease, EmitLate, KillDrain, Exits
      <4>2. QED
        BY <4>1 DEF IInv, TypeOK
    <3>7. QED
      BY <3>1, <3>4, <3>5, <3>6 DEF DrainStep
  <2>2. e = d /\ drain[d] = "consume" /\ r \in listed[d] /\ ready[r] # "none"
          /\ SameSession(d, r)
    BY <2>1 DEF IInv, TypeOK, ConsumeReady, Skip, AheadInv
  <2>3. QED
    BY <2>2 DEF IInv, DrainInv, Alive
<1>2. QED
  BY Inductive, <1>1, PTL DEF FirstDelivery, Spec
=============================================================================
