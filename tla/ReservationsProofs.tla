------------------------- MODULE ReservationsProofs -------------------------
(***************************************************************************)
(* What holds of Reservations for all files, patterns and agents, and any  *)
(* number of grants.  TypeCorrect holds in every configuration.  The other *)
(* theorems are about a machine without a coordination server, whose       *)
(* refusal may take any grant back, and about calls that end, with the     *)
(* idle period after them, within the five minutes of a grant.             *)
(***************************************************************************)
EXTENDS Reservations, TLAPS

\* A timer is for the entry that stands at its file, for that very grant, and its
\* owner's write there is over.
TimerInv ==
    \A t \in timers :
        /\ cache[t.file] # None
        /\ cache[t.file].agent = t.owner
        /\ cache[t.file].grant = t.grant
        /\ ~cache[t.file].expired
        /\ \A w \in writes : t.file \notin w.kept

\* What a session was granted for a write and has not let go of is its own, and what
\* it has of the targets of its writes is live.
WriteInv ==
    \A w \in writes :
        /\ w.kept \subseteq w.files
        /\ \A f \in w.kept : Mine(f, w.agent)
        /\ \A f \in w.files : Mine(f, w.agent) => ~cache[f].expired

\* Nobody answers, and only files are reserved.
AloneInv ==
    /\ calls = {}
    /\ list.stage = "idle"
    /\ \A k \in Pattern \ Path : cache[k] = None

IInv == TypeOK /\ TimerInv /\ WriteInv /\ AloneInv

-----------------------------------------------------------------------------
(* Types.                                                                  *)

\* Before the first grant everything has its type.
LEMMA InitTypeOK == Init => TypeOK
  BY ReservationAssumption DEF Init, TypeOK, NoList

\* An entry is a record with an agent's name and a number.
LEMMA EntryFields ==
  ASSUME TypeOK, NEW k \in Pattern, cache[k] # None
  PROVE  /\ cache[k] \in Entry
         /\ cache[k].agent \in Name /\ cache[k].cohort \in {"local", "remote"}
         /\ cache[k].expired \in BOOLEAN /\ cache[k].grant \in 0 .. MaxGrants
  BY DEF TypeOK, Entry

\* Letting go of files leaves writes.
LEMMA LetGoType ==
  ASSUME NEW W \in SUBSET Write, NEW n, NEW S
  PROVE  LetGo(W, n, S) \in SUBSET Write
  BY DEF LetGo, Write

\* It leaves every write but what its own session lets go of.
LEMMA LetGoWrites ==
  \A W, n, S : (\A w \in W : w \in Write) =>
    \A v \in LetGo(W, n, S) : \E w \in W :
       /\ v.agent = w.agent /\ v.files = w.files
       /\ v.kept = IF SameOwner(w.agent, n) THEN w.kept \ S ELSE w.kept
  BY DEF LetGo, Write

\* Every handler of the daemon, every answer of the server and the passing of time
\* keep the types.
LEMMA NextTypeOK ==
  ASSUME TypeOK, [Next]_vars
  PROVE  TypeOK'
<1> USE ReservationAssumption
    DEF cohortVars, serverVars, counters
<1>1. ASSUME NEW n \in Local, NEW S \in SUBSET Path, PreTool(n, S)
      PROVE  TypeOK'
  <2> DEFINE free == {f \in S : Conflicts(n, f) = {}}
  <2>1. PICK pruned \in Prunings(n, S) : Grant(n, free, pruned)
    BY <1>1 DEF PreTool
  <2>2. free \in SUBSET Path
    OBVIOUS
  <2> HIDE DEF free
  <2>3. grants \in Nat /\ grants' \in 0 .. MaxGrants
    BY <2>1 DEF Grant, TypeOK
  <2>4. cache' \in [Pattern -> Entry \cup {None}]
    <3>1. [agent |-> n, cohort |-> "local", expired |-> FALSE, grant |-> grants + 1]
              \in Entry
      BY <2>1, <2>3 DEF Grant, Entry, Name
    <3>2. QED
      BY <2>1, <3>1 DEF Grant, TypeOK
  <2>5. timers' \in SUBSET Timer
        /\ \A s, t \in timers' : s.owner = t.owner /\ s.file = t.file => s = t
    BY <2>1 DEF Grant, TypeOK
  <2>6. tracked' \in [Local -> SUBSET Path]
    BY <2>1, <2>2 DEF Grant, TypeOK
  <2>7. calls' \in SUBSET Call
    <3>1. \A f \in free : [kind |-> "reserve", file |-> f, agent |-> n,
                           grant |-> grants + 1] \in Call
      BY <2>1, <2>2, <2>3 DEF Grant, Call, Name
    <3>2. QED
      BY <2>1, <3>1 DEF Grant, TypeOK
  <2>8. writes' \in SUBSET Write
    <3>1. [agent |-> n, files |-> S, granted |-> free, kept |-> free, grant |-> grants + 1]
              \in Write
      BY <2>1, <2>2, <2>3 DEF Grant, Write
    <3>2. QED
      BY <1>1, <3>1 DEF PreTool, TypeOK, free
  <2>9. QED
    BY <1>1, <2>3, <2>4, <2>5, <2>6, <2>7, <2>8 DEF PreTool, TypeOK
<1>2. ASSUME NEW n \in Local, NEW S \in SUBSET Path, PreToolBlocked(n, S)
      PROVE  TypeOK'
  <2>1. cache' \in [Pattern -> Entry \cup {None}]
    BY <1>2 DEF PreToolBlocked, TypeOK
  <2>2. QED
    BY <1>2, <2>1 DEF PreToolBlocked, TypeOK
<1>3. ASSUME NEW w \in writes, NEW n \in Local, PostTool(w, n)
      PROVE  TypeOK'
  <2> DEFINE done == {f \in w.files : Mine(f, n)}
             gone == UNION {TimersOf(f, n) : f \in done}
             new  == {[owner |-> cache[f].agent, file |-> f,
                       grant |-> cache[f].grant] : f \in done}
  <2>1. w.files \in SUBSET Path
    BY DEF TypeOK, Write
  <2>2. \A f \in done : f \in Path /\ f \in Pattern /\ cache[f] # None
    BY <2>1 DEF TypeOK, Mine
  <2>3. new \in SUBSET Timer
    BY <2>2, EntryFields DEF Timer
  <2>4. \A s \in new, t \in timers : s.owner = t.owner /\ s.file = t.file => t \in gone
    BY DEF TimersOf
  <2>5. timers' \in SUBSET Timer
        /\ \A s, t \in timers' : s.owner = t.owner /\ s.file = t.file => s = t
    <3>1. CASE timers' = timers
      BY <3>1 DEF TypeOK
    <3>2. CASE timers' = (timers \ gone) \cup new
      <4>1. \A s, t \in new : s.file = t.file => s = t
        OBVIOUS
      <4>2. QED
        BY <3>2, <2>3, <2>4, <4>1 DEF TypeOK
    <3>3. QED
      BY <1>3, <3>1, <3>2 DEF PostTool
  <2>6. writes' \in SUBSET Write
    BY <1>3, LetGoType DEF PostTool, TypeOK
  <2>7. QED
    BY <1>3, <2>5, <2>6 DEF PostTool, TypeOK
<1>4. ASSUME NEW S \in SUBSET Pattern, \A k \in S : cache[k] # None, Release(S)
      PROVE  cache' \in [Pattern -> Entry \cup {None}] /\ calls' \in SUBSET Call
  <2>1. \A f \in S \cap Path : [kind |-> "release", file |-> f, agent |-> cache[f].agent,
                                grant |-> cache[f].grant] \in Call
    BY <1>4, EntryFields DEF Call
  <2>2. QED
    BY <1>4, <2>1 DEF Release, TypeOK
<1>5. ASSUME NEW t \in timers, TimerFires(t)
      PROVE  TypeOK'
  <2> DEFINE S == IF Mine(t.file, t.owner) THEN {t.file} ELSE {}
  <2>1. S \in SUBSET Pattern /\ \A k \in S : cache[k] # None
    BY DEF TypeOK, Timer, Mine
  <2>2. Release(S) /\ tracked' = Untracked(S)
    BY <1>5 DEF TimerFires
  <2> HIDE DEF S
  <2>3. cache' \in [Pattern -> Entry \cup {None}] /\ calls' \in SUBSET Call
    BY <1>4, <2>1, <2>2
  <2>4. tracked' \in [Local -> SUBSET Path]
    BY <2>2 DEF Untracked, TypeOK
  <2>5. timers' \subseteq timers
    BY <1>5 DEF TimerFires
  <2>6. QED
    BY <1>5, <2>3, <2>4, <2>5 DEF TimerFires, TypeOK
<1>6. ASSUME NEW n \in Local, EndSession(n)
      PROVE  TypeOK'
  <2> DEFINE all == {k \in Pattern : Mine(k, n)}
  <2>1. all \in SUBSET Pattern /\ \A k \in all : cache[k] # None
    BY DEF Mine
  <2>2. Release(all) /\ tracked' = [Untracked(all) EXCEPT ![n] = {}]
        /\ writes' = LetGo(writes, n, all)
    BY <1>6 DEF EndSession
  <2> HIDE DEF all
  <2>3. cache' \in [Pattern -> Entry \cup {None}] /\ calls' \in SUBSET Call
    BY <1>4, <2>1, <2>2
  <2>4. tracked' \in [Local -> SUBSET Path]
    BY <2>2 DEF Untracked, TypeOK
  <2>5. timers' \subseteq timers
    BY <1>6 DEF EndSession
  <2>6. writes' \in SUBSET Write
    BY <2>2, LetGoType DEF TypeOK
  <2>7. QED
    BY <1>6, <2>3, <2>4, <2>5, <2>6 DEF EndSession, TypeOK
<1>7. ASSUME NEW k \in Pattern, Expire(k)
      PROVE  TypeOK'
  <2>1. [cache[k] EXCEPT !.expired = TRUE] \in Entry
    BY <1>7, EntryFields DEF Expire, Entry
  <2>2. cache' \in [Pattern -> Entry \cup {None}]
    BY <1>7, <2>1 DEF Expire, TypeOK
  <2>3. QED
    BY <1>7, <2>2 DEF Expire, TypeOK
<1>8. CASE GetAll
  <2>1. cache' \in [Pattern -> Entry \cup {None}]
    BY <1>8 DEF GetAll, TypeOK
  <2>2. QED
    BY <1>8, <2>1 DEF GetAll, TypeOK
<1>9. ASSUME NEW c \in calls, Rollback(c)
      PROVE  TypeOK'
  <2>1. calls' \in SUBSET Call /\ timers' \subseteq timers
    BY <1>9 DEF Rollback, TypeOK
  <2>2. cache' \in [Pattern -> Entry \cup {None}]
    BY <1>9 DEF Rollback, TypeOK
  <2>3. tracked' \in [Local -> SUBSET Path]
    BY <1>9 DEF Rollback, TypeOK
  <2>4. QED
    BY <1>9, <2>1, <2>2, <2>3 DEF Rollback, TypeOK
<1>10. ASSUME NEW c \in calls, ServeReserve(c) \/ ServeRelease(c)
       PROVE  TypeOK'
  <2>1. c \in Call /\ c.file \in Pattern /\ c.agent \in Name
    BY DEF TypeOK, Call
  <2>2. [c EXCEPT !.kind = "refused"] \in Call
    BY <2>1 DEF Call
  <2>3. calls' \in SUBSET Call /\ held' \in [Pattern -> Name \cup {None}]
    BY <1>10, <2>1, <2>2 DEF ServeReserve, ServeRelease, TypeOK
  <2>4. QED
    BY <1>10, <2>3 DEF ServeReserve, ServeRelease, TypeOK
<1>11. CASE AskList \/ ServeList
  BY <1>11 DEF AskList, ServeList, NoList, TypeOK
<1>12. CASE ApplyList
  <2>1. \A k \in Pattern : list.holders[k] # None =>
           [agent |-> list.holders[k], cohort |-> "remote", expired |-> FALSE,
            grant |-> 0] \in Entry
    BY DEF TypeOK, Entry
  <2>2. cache' \in [Pattern -> Entry \cup {None}]
    BY <1>12, <2>1 DEF ApplyList, Refreshed, TypeOK
  <2>3. QED
    BY <1>12, <2>2 DEF ApplyList, NoList, TypeOK
<1>13. CASE Fail
  BY <1>13 DEF Fail, NoList, TypeOK
<1>14. ASSUME NEW k \in Pattern, RemoteReserve(k) \/ ServerFrees(k)
       PROVE  TypeOK'
  BY <1>14 DEF RemoteReserve, ServerFrees, Name, TypeOK
<1>15. CASE UNCHANGED vars
  BY <1>15 DEF vars, TypeOK
<1>16. QED
  BY <1>1, <1>2, <1>3, <1>5, <1>6, <1>7, <1>8, <1>9, <1>10, <1>11, <1>12, <1>13,
     <1>14, <1>15
  DEF Next, Daemon

\* The state is well-formed, whatever the server answers, refuses or never does.
THEOREM TypeCorrect == Spec => []TypeOK
<1>1. QED
  BY InitTypeOK, NextTypeOK, PTL DEF Spec

-----------------------------------------------------------------------------
(* A grant and the write it is for.                                        *)

\* Before the first grant there is nothing to take away.
LEMMA InitIInv == Init => IInv
  BY InitTypeOK, ReservationAssumption
  DEF Init, IInv, TimerInv, WriteInv, AloneInv, NoList

\* What one session owns no other does.
LEMMA OwnedByOne ==
  ASSUME TypeOK, NEW m \in Local, NEW n \in Local, NEW k \in Pattern, Mine(k, m)
  PROVE  Mine(k, n) <=> Canon[m] = Canon[n]
  BY ReservationAssumption DEF Mine, SameOwner

\* Where only files are reserved, what stands in the way of a write of f is the entry
\* at f: a live one of somebody else.
LEMMA ConflictAtPath ==
  ASSUME AloneInv, NEW n \in Local, NEW f \in Path
  PROVE  Conflicts(n, f) # {} <=> cache[f] # None /\ ~Mine(f, n) /\ ~cache[f].expired
  BY ReservationAssumption DEF AloneInv, Conflicts, Against

\* A handler that only prunes expired entries takes nothing from a write or a timer.
LEMMA PruningIsSafe ==
  ASSUME IInv, UNCHANGED <<timers, writes>>,
         \A k \in Pattern : \/ cache'[k] = cache[k]
                            \/ cache'[k] = None /\ cache[k].expired
  PROVE  TimerInv' /\ WriteInv'
<1>1. \A t \in timers : t.file \in Pattern
  BY ReservationAssumption DEF IInv, TypeOK, Timer
<1>2. \A w \in writes : w.files \subseteq Pattern
  BY ReservationAssumption DEF IInv, TypeOK, Write
<1>3. TimerInv'
  BY <1>1 DEF IInv, TimerInv
<1>4. WriteInv'
  BY <1>2 DEF IInv, WriteInv, Mine
<1>5. QED
  BY <1>3, <1>4

\* On a machine of its own, with calls that end in time, every handler keeps what a
\* session was granted until its write is over, and every timer to its grant.
LEMMA NextIInv ==
  ASSUME ~Server, ~LongCalls, IInv, [Next]_vars
  PROVE  IInv'
<1> USE ReservationAssumption
    DEF cohortVars, serverVars, counters
<1>1. TypeOK /\ TypeOK'
  BY NextTypeOK DEF IInv
<1>2. AloneInv'
  <2>1. ASSUME NEW S, Release(S)
        PROVE  calls' = calls /\ \A k \in Pattern : cache'[k] \in {cache[k], None}
    BY <2>1 DEF Release
  <2>2. CASE \E n \in Local, S \in SUBSET Path : PreTool(n, S) \/ PreToolBlocked(n, S)
    <3>1. ASSUME NEW n \in Local, NEW S \in SUBSET Path, PreTool(n, S)
          PROVE  AloneInv'
      <4>1. PICK pruned \in Prunings(n, S), T \in SUBSET Path : Grant(n, T, pruned)
        BY <3>1 DEF PreTool
      <4>2. QED
        BY <3>1, <4>1 DEF IInv, AloneInv, PreTool, Grant
    <3>2. ASSUME NEW n \in Local, NEW S \in SUBSET Path, PreToolBlocked(n, S)
          PROVE  AloneInv'
      BY <3>2 DEF IInv, AloneInv, PreToolBlocked
    <3>3. QED
      BY <2>2, <3>1, <3>2
  <2>3. CASE \E n \in Local : EndSession(n) \/ \E w \in writes : PostTool(w, n)
    BY <2>1, <2>3 DEF IInv, AloneInv, PostTool, EndSession
  <2>4. CASE \E t \in timers : TimerFires(t)
    BY <2>1, <2>4 DEF IInv, AloneInv, TimerFires
  <2>5. CASE \E k \in Pattern : Expire(k)
    BY <1>1, <2>5 DEF IInv, AloneInv, Expire, TypeOK
  <2>6. CASE GetAll
    BY <2>6 DEF IInv, AloneInv, GetAll
  <2>7. CASE UNCHANGED <<cache, calls, list>>
    BY <2>7 DEF IInv, AloneInv
  <2>8. QED
    BY <2>2, <2>3, <2>4, <2>5, <2>6, <2>7
    DEF IInv, AloneInv, Next, Daemon, vars, Fail, RemoteReserve, ServerFrees, AskList,
        ServeList, ApplyList
<1>3. \A t \in timers : t \in Timer /\ t.file \in Pattern /\ cache[t.file].agent = t.owner
  BY <1>1 DEF IInv, TypeOK, Timer, TimerInv
<1>4. \A w \in writes : /\ w.agent \in Local /\ w.files \subseteq Path
                         /\ w.kept \subseteq Path
  BY <1>1 DEF TypeOK, Write
<1>5. ASSUME NEW n \in Local, NEW S \in SUBSET Path, PreTool(n, S)
      PROVE  TimerInv' /\ WriteInv'
  <2> DEFINE free  == {f \in S : Conflicts(n, f) = {}}
             entry == [agent |-> n, cohort |-> "local", expired |-> FALSE,
                       grant |-> grants + 1]
  <2>1. PICK pruned \in Prunings(n, S) : Grant(n, free, pruned)
    BY <1>5 DEF PreTool
  <2>2. \A k \in pruned : k \in Pattern /\ cache[k] # None /\ cache[k].expired
    BY DEF Prunings, Against
  <2>3. free \subseteq Path /\ \A f \in free : Conflicts(n, f) = {}
    OBVIOUS
  <2>4. free \subseteq S
    OBVIOUS
  <2>5. \A v \in writes' : \/ v \in writes
                           \/ v.agent = n /\ v.files = S /\ v.kept = free
    BY <1>5 DEF PreTool
  <2>6. \A k \in Pattern : cache'[k] = IF k \in free THEN entry
                                       ELSE IF k \in pruned THEN None ELSE cache[k]
    BY <2>1 DEF Grant
  <2>7. \A t \in timers' : t \in timers /\ t.file \notin free
    <3> SUFFICES ASSUME NEW t \in timers, t.file \in free
                 PROVE  t \in TimersOf(t.file, n)
      BY <2>1 DEF Grant, Cancelled
    <3>1. cache[t.file] # None /\ ~cache[t.file].expired
      BY DEF IInv, TimerInv
    <3>2. Mine(t.file, n)
      BY <2>3, <3>1, ConflictAtPath DEF IInv
    <3>3. QED
      BY <1>3, <3>2 DEF TimersOf
  <2>8. TimerInv'
    <3> SUFFICES ASSUME NEW t \in timers'
                 PROVE  /\ cache'[t.file] = cache[t.file]
                        /\ \A v \in writes' : t.file \notin v.kept
      BY <2>7 DEF IInv, TimerInv
    <3>1. cache'[t.file] = cache[t.file]
      BY <1>3, <2>2, <2>6, <2>7 DEF IInv, TimerInv
    <3>2. \A v \in writes' : t.file \notin v.kept
      BY <2>5, <2>7 DEF IInv, TimerInv
    <3>3. QED
      BY <3>1, <3>2
  <2>9. ASSUME NEW f \in free, NEW m \in Local
        PROVE  /\ cache'[f] # None /\ ~cache'[f].expired
               /\ Mine(f, m)' <=> SameOwner(n, m)
    <3>1. f \in Pattern /\ cache'[f] = entry
      BY <2>3, <2>6
    <3>2. entry \in Entry
      BY <1>1, <2>1 DEF Grant, TypeOK, Entry, Name
    <3>3. cache'[f] # None /\ cache'[f].agent = n /\ ~cache'[f].expired
      <4>1. entry # None /\ entry.agent = n /\ entry.expired = FALSE
        BY <3>2, EntryAssumption
      <4>2. QED
        BY <3>1, <4>1
    <3>4. QED
      BY <3>3 DEF Mine
  <2>10. ASSUME NEW f \in Path \ free, NEW m \in Local
         PROVE  /\ Mine(f, m)' => Mine(f, m) /\ cache'[f] = cache[f]
                /\ Mine(f, m) /\ ~cache[f].expired => Mine(f, m)'
    BY <2>2, <2>6 DEF Mine
  <2>11. WriteInv'
    <3> SUFFICES ASSUME NEW v \in writes'
                 PROVE  /\ v.kept \subseteq v.files
                        /\ \A f \in v.kept : Mine(f, v.agent)'
                        /\ \A f \in v.files : Mine(f, v.agent)' => ~cache'[f].expired
      BY DEF WriteInv, Mine
    <3>1. CASE v \in writes
      <4>1. v.agent \in Local /\ v.files \subseteq Path /\ v.kept \subseteq v.files
        BY <1>4, <3>1 DEF IInv, WriteInv
      <4>2. ASSUME NEW f \in v.kept PROVE Mine(f, v.agent)'
        <5>1. Mine(f, v.agent) /\ ~cache[f].expired
          BY <3>1, <4>1 DEF IInv, WriteInv
        <5>2. CASE f \in free
          <6>1. Mine(f, n)
            BY <2>3, <5>1, <5>2, ConflictAtPath DEF IInv, Mine
          <6>2. SameOwner(n, v.agent)
            BY <1>1, <4>1, <5>1, <6>1, OwnedByOne DEF SameOwner
          <6>3. QED
            BY <2>9, <4>1, <5>2, <6>2
        <5>3. CASE f \notin free
          BY <2>10, <4>1, <5>1, <5>3
        <5>4. QED
          BY <5>2, <5>3
      <4>3. ASSUME NEW f \in v.files, Mine(f, v.agent)' PROVE ~cache'[f].expired
        <5>1. CASE f \in free
          BY <2>9, <4>1, <5>1
        <5>2. CASE f \notin free
          BY <2>10, <3>1, <4>1, <4>3, <5>2 DEF IInv, WriteInv
        <5>3. QED
          BY <5>1, <5>2
      <4>4. QED
        BY <4>1, <4>2, <4>3
    <3>2. CASE v.agent = n /\ v.files = S /\ v.kept = free
      <4>1. \A f \in free : Mine(f, n)' /\ ~cache'[f].expired
        BY <2>9 DEF SameOwner
      <4>2. ASSUME NEW f \in S \ free PROVE ~Mine(f, n)'
        <5>1. Conflicts(n, f) # {}
          BY DEF free
        <5>2. ~Mine(f, n)
          BY <5>1, ConflictAtPath DEF IInv
        <5>3. QED
          BY <2>10, <5>2
      <4>3. QED
        BY <2>4, <3>2, <4>1, <4>2
    <3>3. QED
      BY <2>5, <3>1, <3>2
  <2>12. QED
    BY <2>8, <2>11
<1>6. ASSUME NEW n \in Local, NEW S \in SUBSET Path, PreToolBlocked(n, S)
      PROVE  TimerInv' /\ WriteInv'
  <2>1. PICK pruned \in Prunings(n, S) :
           cache' = [k \in Pattern |-> IF k \in pruned THEN None ELSE cache[k]]
    BY <1>6 DEF PreToolBlocked
  <2>2. \A k \in pruned : cache[k].expired
    BY DEF Prunings
  <2>3. QED
    BY <1>6, <2>1, <2>2, PruningIsSafe DEF PreToolBlocked
<1>7. ASSUME GetAll PROVE TimerInv' /\ WriteInv'
  BY <1>7, PruningIsSafe DEF GetAll
<1>8. ASSUME NEW w \in writes, NEW n \in Local, PostTool(w, n)
      PROVE  TimerInv' /\ WriteInv'
  <2> DEFINE done == {f \in w.files : Mine(f, n)}
             new  == {[owner |-> cache[f].agent, file |-> f,
                       grant |-> cache[f].grant] : f \in done}
  <2>1. cache' = cache /\ SameOwner(w.agent, n)
    BY <1>8 DEF PostTool
  <2>2. \/ UNCHANGED timers /\ writes' = writes \ {w}
        \/ timers' \subseteq timers \cup new /\ writes' = LetGo(writes \ {w}, n, done)
    BY <1>8 DEF PostTool
  <2>3. \A f \in done : f \in Path /\ Mine(f, n) /\ Mine(f, w.agent) /\ ~cache[f].expired
    <3>1. \A f \in done : Mine(f, w.agent)
      BY <1>1, <1>4, <2>1, OwnedByOne, ReservationAssumption DEF SameOwner, Mine, TypeOK
    <3>2. QED
      BY <1>4, <3>1 DEF IInv, WriteInv
  <2> HIDE DEF done
  <2> DEFINE others == writes \ {w}
  <2>. others \subseteq writes /\ \A u \in others : u \in Write
    BY <1>1 DEF TypeOK
  <2> HIDE DEF others
  <2>4. ASSUME writes' = LetGo(others, n, done), NEW v \in writes'
        PROVE  \E u \in others :
                  /\ v.agent = u.agent /\ v.files = u.files
                  /\ v.kept = IF SameOwner(u.agent, n) THEN u.kept \ done ELSE u.kept
    BY <2>4, LetGoWrites
  <2>5. \A v \in writes' : \E u \in writes : /\ v.agent = u.agent /\ v.files = u.files
                                            /\ v.kept \subseteq u.kept
    <3>1. CASE writes' = LetGo(others, n, done)
      <4> SUFFICES ASSUME NEW v \in writes'
                   PROVE  \E u \in writes : /\ v.agent = u.agent /\ v.files = u.files
                                            /\ v.kept \subseteq u.kept
        OBVIOUS
      <4>1. PICK u \in others :
               /\ v.agent = u.agent /\ v.files = u.files
               /\ v.kept = IF SameOwner(u.agent, n) THEN u.kept \ done ELSE u.kept
        BY <2>4, <3>1
      <4>2. QED
        BY <4>1
    <3>2. QED
      BY <2>2, <3>1 DEF others
  <2>6. ASSUME timers' # timers, NEW f \in done, NEW v \in writes'
        PROVE  f \notin v.kept
    <3>1. writes' = LetGo(others, n, done)
      BY <2>2, <2>6 DEF others
    <3>2. PICK u \in others :
             /\ v.agent = u.agent /\ v.files = u.files
             /\ v.kept = IF SameOwner(u.agent, n) THEN u.kept \ done ELSE u.kept
      BY <2>4, <3>1
    <3>3. ~SameOwner(u.agent, n) => f \notin u.kept
      <4>1. f \in u.kept => Mine(f, u.agent)
        BY DEF IInv, WriteInv
      <4>2. u.agent \in Local /\ f \in Pattern
        BY <1>4, <2>3, ReservationAssumption
      <4>3. QED
        BY <1>1, <2>3, <4>1, <4>2, OwnedByOne DEF SameOwner
    <3>4. QED
      BY <3>2, <3>3
  <2>7. TimerInv'
    <3> SUFFICES ASSUME NEW t \in timers'
                 PROVE  /\ cache[t.file] # None /\ cache[t.file].agent = t.owner
                        /\ cache[t.file].grant = t.grant /\ ~cache[t.file].expired
                        /\ \A v \in writes' : t.file \notin v.kept
      BY <2>1 DEF TimerInv
    <3>1. CASE t \in timers
      BY <2>5, <3>1 DEF IInv, TimerInv
    <3>2. CASE t \notin timers
      <4>1. timers' # timers
        BY <3>2
      <4>2. PICK f \in done : t = [owner |-> cache[f].agent, file |-> f,
                                  grant |-> cache[f].grant]
        BY <2>2, <3>2
      <4>3. QED
        BY <2>3, <2>6, <4>1, <4>2 DEF Mine
    <3>3. QED
      BY <3>1, <3>2
  <2>8. WriteInv'
    BY <2>1, <2>5 DEF IInv, WriteInv, Mine
  <2>9. QED
    BY <2>7, <2>8
<1>9. ASSUME NEW t \in timers, TimerFires(t)
      PROVE  TimerInv' /\ WriteInv'
  <2>1. t.file \in Pattern /\ Mine(t.file, t.owner)
    BY <1>3 DEF IInv, TimerInv, Mine, SameOwner
  <2>2. cache' = [k \in Pattern |-> IF k = t.file THEN None ELSE cache[k]]
    BY <1>9, <2>1 DEF TimerFires, Release
  <2>3. UNCHANGED writes
    BY <1>9 DEF TimerFires
  <2>4. \A s \in timers' : s \in timers /\ s.file # t.file
    BY <1>3, <1>9, <2>1 DEF TimerFires, TimersOf
  <2>5. \A w \in writes : t.file \notin w.kept
    BY DEF IInv, TimerInv
  <2>6. TimerInv'
    BY <1>3, <2>2, <2>3, <2>4 DEF IInv, TimerInv
  <2>7. WriteInv'
    BY <1>4, <2>2, <2>3, <2>5, ReservationAssumption DEF IInv, WriteInv, Mine
  <2>8. QED
    BY <2>6, <2>7
<1>10. ASSUME NEW n \in Local, EndSession(n)
       PROVE  TimerInv' /\ WriteInv'
  <2> DEFINE all == {k \in Pattern : Mine(k, n)}
  <2>1. cache' = [k \in Pattern |-> IF k \in all THEN None ELSE cache[k]]
    BY <1>10 DEF EndSession, Release
  <2>2. writes' = LetGo(writes, n, all) /\ \A u \in writes : u \in Write
    BY <1>1, <1>10 DEF EndSession, TypeOK
  <2>3. \A s \in timers' : s \in timers /\ s.file \notin all
    <3>1. \A s \in timers : s.file \in Path
      BY <1>3 DEF Timer
    <3>2. QED
      BY <1>3, <1>10, <3>1 DEF EndSession, TimersOfAll, TimersOf
  <2>4. \A v \in writes' : \E u \in writes :
           /\ v.agent = u.agent /\ v.files = u.files
           /\ v.kept = IF SameOwner(u.agent, n) THEN u.kept \ all ELSE u.kept
    BY <2>2, LetGoWrites
  <2>5. TimerInv'
    BY <1>3, <2>1, <2>3, <2>4 DEF IInv, TimerInv
  <2>6. \A u \in writes : \A f \in u.kept : SameOwner(u.agent, n) \/ f \in Pattern \ all
    <3> SUFFICES ASSUME NEW u \in writes, NEW f \in u.kept, Mine(f, n)
                 PROVE  SameOwner(u.agent, n)
      BY <1>4, ReservationAssumption
    <3>1. Mine(f, u.agent) /\ u.agent \in Local /\ f \in Pattern
      BY <1>4, ReservationAssumption DEF IInv, WriteInv
    <3>2. QED
      BY <1>1, <3>1, OwnedByOne DEF SameOwner
  <2>7. \A f \in Path, m \in Local : /\ Mine(f, m) /\ f \notin all => Mine(f, m)'
                                    /\ Mine(f, m)' => Mine(f, m) /\ cache'[f] = cache[f]
    BY <2>1, ReservationAssumption DEF Mine
  <2> HIDE DEF all
  <2>8. WriteInv'
    <3> SUFFICES ASSUME NEW v \in writes'
                 PROVE  /\ v.kept \subseteq v.files
                        /\ \A f \in v.kept : Mine(f, v.agent)'
                        /\ \A f \in v.files : Mine(f, v.agent)' => ~cache'[f].expired
      BY DEF WriteInv, Mine
    <3>1. PICK u \in writes :
             /\ v.agent = u.agent /\ v.files = u.files
             /\ v.kept = IF SameOwner(u.agent, n) THEN u.kept \ all ELSE u.kept
      BY <2>4
    <3>2. u.agent \in Local /\ u.files \subseteq Path /\ u.kept \subseteq u.files
      BY <1>4 DEF IInv, WriteInv
    <3>3. \A f \in v.kept : f \in u.kept /\ f \notin all
      BY <2>6, <3>1
    <3>4. \A f \in u.kept : Mine(f, u.agent)
      BY DEF IInv, WriteInv
    <3>5. \A f \in u.files : Mine(f, u.agent) => ~cache[f].expired
      BY DEF IInv, WriteInv
    <3>6. ASSUME NEW f \in v.kept PROVE Mine(f, v.agent)'
      <4>1. f \in Path /\ Mine(f, u.agent) /\ f \notin all
        BY <3>2, <3>3, <3>4
      <4>2. Mine(f, u.agent)'
        BY <2>1, <3>2, <4>1, ReservationAssumption DEF Mine
      <4>3. QED
        BY <3>1, <4>2 DEF Mine
    <3>7. ASSUME NEW f \in v.files, Mine(f, v.agent)' PROVE ~cache'[f].expired
      BY <2>7, <3>1, <3>2, <3>5, <3>7
    <3>8. v.kept \subseteq v.files
      BY <3>1, <3>2, <3>3
    <3>9. QED
      BY <3>6, <3>7, <3>8
  <2>9. QED
    BY <2>5, <2>8
<1>11. ASSUME NEW k \in Pattern, Expire(k)
       PROVE  TimerInv' /\ WriteInv'
  <2>1. cache' = [cache EXCEPT ![k].expired = TRUE] /\ cache[k] \in Entry
    BY <1>1, <1>11, EntryFields DEF Expire
  <2>2. /\ cache'[k] # None /\ cache'[k].agent = cache[k].agent
        /\ \A j \in Pattern \ {k} : cache'[j] = cache[j]
    <3>1. cache'[k] = [cache[k] EXCEPT !.expired = TRUE]
          /\ \A j \in Pattern \ {k} : cache'[j] = cache[j]
      BY <1>1, <2>1 DEF TypeOK
    <3>2. \A e \in Entry : /\ [e EXCEPT !.expired = TRUE] \in Entry
                           /\ [e EXCEPT !.expired = TRUE].agent = e.agent
      BY DEF Entry
    <3>3. QED
      BY <2>1, <3>1, <3>2, EntryAssumption
  <2>3. UNCHANGED <<timers, writes>>
    BY <1>11 DEF Expire
  <2>4. \A t \in timers : t.file # k
    BY <1>11 DEF Expire
  <2>5. \A w \in writes : Mine(k, w.agent) => k \notin w.files
    BY <1>11 DEF Expire
  <2>6. TimerInv'
    BY <1>3, <2>2, <2>3, <2>4 DEF IInv, TimerInv
  <2>7. \A j \in Pattern, m \in Local : Mine(j, m)' <=> Mine(j, m)
    BY <1>11, <2>2 DEF Mine, Expire
  <2>8. WriteInv'
    <3>1. \A w \in writes : w.files \subseteq Pattern
      BY <1>4, ReservationAssumption
    <3>2. QED
      BY <1>4, <2>2, <2>3, <2>5, <2>7, <3>1 DEF IInv, WriteInv
  <2>9. QED
    BY <2>6, <2>8
<1>12. ASSUME UNCHANGED <<cache, timers, writes>> PROVE TimerInv' /\ WriteInv'
  <2>1. TimerInv'
    BY <1>12 DEF IInv, TimerInv
  <2>2. WriteInv'
    BY <1>12 DEF IInv, WriteInv, Mine
  <2>3. QED
    BY <2>1, <2>2
<1>13. QED
  <2>1. CASE UNCHANGED vars
    BY <1>1, <1>2, <1>12, <2>1 DEF IInv, vars
  <2>2. CASE \/ Fail \/ AskList \/ ServeList
             \/ \E k \in Pattern : RemoteReserve(k) \/ ServerFrees(k)
    BY <1>1, <1>2, <1>12, <2>2
    DEF IInv, Fail, AskList, ServeList, RemoteReserve, ServerFrees
  <2>3. ~ApplyList /\ \A c \in calls : FALSE
    BY DEF IInv, AloneInv, ApplyList
  <2>4. QED
    BY <1>1, <1>2, <1>5, <1>6, <1>7, <1>8, <1>9, <1>10, <1>11, <2>1, <2>2, <2>3
    DEF IInv, Next, Daemon

\* Hence it holds in every reachable state.
LEMMA Inductive == ASSUME ~Server, ~LongCalls PROVE Spec => []IInv
<1>1. IInv /\ [Next]_vars => IInv'
  BY NextIInv
<1>2. QED
  BY <1>1, InitIInv, PTL DEF Spec

-----------------------------------------------------------------------------
(* The theorems about a machine of its own.                                *)

\* No timer, expiry, pruning, grant or end of another session takes an entry away
\* under the write it was granted for; only the write's own session can, by ending or
\* by a call that overlaps with the write.
THEOREM GrantLasts ==
  ASSUME ~Server, ~LongCalls PROVE Spec => []GrantLastsThroughWrite
<1>1. IInv => GrantLastsThroughWrite
  BY DEF IInv, WriteInv, GrantLastsThroughWrite
<1>2. QED
  BY <1>1, Inductive, PTL

\* Two sessions never write one file at once, each on a grant that it has not let go
\* of (a file has one entry, and its owner is a session under all its names).
THEOREM WritesExclude ==
  ASSUME ~Server, ~LongCalls PROVE Spec => []WriteExclusion
<1>1. IInv => WriteExclusion
  <2> SUFFICES ASSUME IInv, NEW v \in writes, NEW w \in writes, NEW f \in v.kept \cap w.kept
               PROVE  SameOwner(v.agent, w.agent)
    BY DEF WriteExclusion
  <2>1. f \in Pattern /\ v.agent \in Local /\ w.agent \in Local
    BY ReservationAssumption DEF IInv, TypeOK, Write
  <2>2. Mine(f, v.agent) /\ Mine(f, w.agent)
    BY DEF IInv, WriteInv
  <2>3. QED
    BY <2>1, <2>2, OwnedByOne DEF IInv, SameOwner
<1>2. QED
  BY <1>1, Inductive, PTL

\* A timer that will release an entry was set for that very grant: granting a file
\* again has cleared the timer of the grant before (cancelOwnedReleaseTimer).
THEOREM TimersSpareLaterGrants ==
  ASSUME ~Server, ~LongCalls PROVE Spec => []TimerSparesLaterGrant
<1>1. IInv => TimerSparesLaterGrant
  BY DEF IInv, TimerInv, TimerSparesLaterGrant
<1>2. QED
  BY <1>1, Inductive, PTL
=============================================================================
