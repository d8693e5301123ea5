----------------------- MODULE FileMutationLockProofs -----------------------
(***************************************************************************)
(* What holds of FileMutationLock for every number of calls.  Except for   *)
(* TypeCorrect and LeavesNothingBehind, it holds as long as no lock        *)
(* directory stays untouched for staleMs (the run MutationLockStale shows  *)
(* why that is needed).                                                    *)
(***************************************************************************)
EXTENDS FileMutationLock, TLAPS

\* A call that owns the lock directory: it made it and has not given it up, or
\* it has unlinked a dead owner's record from it.
Owning == {"write", "fill", "rejected", "cs", "releaseRmdir", "retireRmdir"}

\* A call that lives on, or is about to, with a record that it could not write or remove.
Stuck == {"rejected", "failed", "left"}

\* One owner at a time, and what the directory holds at each of its steps.
OwnerInv ==
    /\ \A p, q \in Proc : pc[p] \in Owning /\ pc[q] \in Owning => p = q
    /\ \A p \in Proc : pc[p] \in {"write", "releaseRmdir", "retireRmdir"}
                          => kind = "dir" /\ entries = {}
    /\ \A p \in Proc : pc[p] = "fill"
                          => kind = "dir" /\ entries = {p} /\ filled = {}
    /\ \A p \in Proc : pc[p] = "rejected"
                          => kind = "dir" /\ entries \subseteq {p} /\ filled = {}
    /\ \A p \in Proc : pc[p] = "cs"
                          => kind = "dir" /\ entries = {p} /\ filled = {p}

\* A record in the directory belongs to its owner, to a dead one, or to one that is stuck
\* with it.
RecordInv ==
    /\ kind # "dir" => entries = {}
    /\ \A s, t \in entries : s = t
    /\ \A t \in entries : pc[t] \in {"fill", "cs"} \cup Stuck \cup DeadStates

\* A recoverer that unlinks records has one to unlink, a dead call's.
RetireInv ==
    \A r \in Proc : pc[r] = "retire"
                       => \E t \in Proc : seen[r] = {t} /\ pc[t] \in DeadStates

\* Without a stale directory the owner write never fails.
FreshInv ==
    /\ ~stale
    /\ \A p \in Proc : pc[p] # "cleanup"

IInv == TypeOK /\ OwnerInv /\ RecordInv /\ RetireInv /\ FreshInv

-----------------------------------------------------------------------------
(* The invariant is inductive.                                             *)

\* Where a call goes on after a system call has failed.
LEMMA ErrorFacts ==
  ASSUME NEW p \in Proc, Fails(p)
  PROVE  /\ \/ pc[p] \in {"mkdir", "rejected"} /\ AfterError[pc[p]] = "failed"
            \/ pc[p] \in {"write", "fill"} /\ AfterError[pc[p]] = "rejected"
            \/ /\ pc[p] \in {"retire", "retireLegacy", "retireRmdir"}
               /\ AfterError[pc[p]] = "wait"
            \/ pc[p] = "cleanup" /\ AfterError[pc[p]] = "observe"
            \/ pc[p] = "cs" /\ AfterError[pc[p]] = "left"
            \/ pc[p] = "releaseRmdir" /\ AfterError[pc[p]] = "done"
         /\ pc' = [pc EXCEPT ![p] = AfterError[pc[p]]]
         /\ seen' = [seen EXCEPT ![p] = {}]
  BY DEF Fails, AfterError

\* Before the first call, an absent lock path, an empty directory and a legacy lock satisfy
\* the invariant.
LEMMA InitIInv == ASSUME Init PROVE IInv
<1>1. TypeOK
  BY DEF Init, TypeOK, LiveStates
<1>2. OwnerInv /\ RecordInv /\ RetireInv /\ FreshInv
  BY DEF Init, OwnerInv, RecordInv, RetireInv, FreshInv, Owning
<1>3. QED
  BY <1>1, <1>2 DEF IInv

\* Every system call of acquisition, recovery and release, every crash, and the
\* passing of time keep the invariant.
LEMMA NextIInv ==
  ASSUME ~StaleElapses, IInv, [Next]_vars
  PROVE  IInv'
<1> USE DEF IInv, TypeOK, OwnerInv, RecordInv, RetireInv, FreshInv, Kinds, Legacy,
        LiveStates, DeadStates, Owning, Stuck, Goto, fs
<1>1. ASSUME NEW p \in Proc, Start(p) PROVE IInv'
  BY <1>1 DEF Start
<1>2. ASSUME NEW p \in Proc, MakeDirectory(p) PROVE IInv'
  <2>1. TypeOK'
    <3>1. \E s \in {"write", "observe"} : pc' = [pc EXCEPT ![p] = s]
      BY <1>2 DEF MakeDirectory
    <3>2. pc' \in [Proc -> LiveStates \cup DeadStates]
      BY <3>1
    <3>3. kind' \in Kinds /\ stale' \in BOOLEAN /\ UNCHANGED <<entries, filled, seen, ioErrors>>
      BY <1>2 DEF MakeDirectory
    <3>4. QED
      BY <3>2, <3>3
  <2>2. OwnerInv'
    BY <1>2 DEF MakeDirectory
  <2>3. RecordInv'
    BY <1>2 DEF MakeDirectory
  <2>4. RetireInv'
    BY <1>2 DEF MakeDirectory
  <2>5. FreshInv'
    BY <1>2 DEF MakeDirectory
  <2>6. QED
    BY <2>1, <2>2, <2>3, <2>4, <2>5
<1>3. ASSUME NEW p \in Proc, CreateRecord(p) PROVE IInv'
  <2>1. TypeOK'
    <3>1. entries' \in SUBSET Proc /\ filled' \in SUBSET entries'
      BY <1>3 DEF CreateRecord
    <3>2. /\ pc' \in [Proc -> LiveStates \cup DeadStates] /\ kind' \in Kinds
          /\ stale' \in BOOLEAN /\ seen' \in [Proc -> SUBSET Proc] /\ ioErrors' \in Nat
      BY <1>3 DEF CreateRecord
    <3>3. QED
      BY <3>1, <3>2
  <2>2. OwnerInv'
    BY <1>3 DEF CreateRecord
  <2>3. RecordInv'
    BY <1>3 DEF CreateRecord
  <2>4. RetireInv'
    BY <1>3 DEF CreateRecord
  <2>5. FreshInv'
    BY <1>3 DEF CreateRecord
  <2>6. QED
    BY <2>1, <2>2, <2>3, <2>4, <2>5
<1>4. ASSUME NEW p \in Proc, FillRecord(p) PROVE IInv'
  BY <1>4 DEF FillRecord
<1>5. ASSUME NEW p \in Proc, CleanUp(p) PROVE IInv'
  <2>1. TypeOK'
    <3>1. \E s \in {"observe", "failed"} : pc' = [pc EXCEPT ![p] = s]
      BY <1>5 DEF CleanUp
    <3>2. pc' \in [Proc -> LiveStates \cup DeadStates]
      BY <3>1
    <3>3. kind' \in Kinds /\ stale' \in BOOLEAN /\ UNCHANGED <<entries, filled, seen, ioErrors>>
      BY <1>5 DEF CleanUp, Rmdir
    <3>4. QED
      BY <3>2, <3>3
  <2>2. OwnerInv'
    BY <1>5 DEF CleanUp, Rmdir
  <2>3. RecordInv'
    BY <1>5 DEF CleanUp, Rmdir
  <2>4. RetireInv'
    BY <1>5 DEF CleanUp, Rmdir
  <2>5. FreshInv'
    BY <1>5 DEF CleanUp, Rmdir
  <2>6. QED
    BY <2>1, <2>2, <2>3, <2>4, <2>5
<1>6. ASSUME NEW p \in Proc, Observe(p) PROVE IInv'
  BY <1>6 DEF Observe, Retirable, AbandonedOwner, MalformedAndStale, LooksDead
<1>7. ASSUME NEW p \in Proc, RetireEntry(p) PROVE IInv'
  <2>1. TypeOK'
    <3>1. entries' \in SUBSET Proc /\ filled' \in SUBSET entries'
      BY <1>7 DEF RetireEntry
    <3>2. seen' \in [Proc -> SUBSET Proc]
      <4>1. PICK rest \in SUBSET Proc : seen' = [seen EXCEPT ![p] = rest]
        <5>1. PICK t \in seen[p] :
                 \/ seen' = [seen EXCEPT ![p] = @ \ {t}]
                 \/ seen' = [seen EXCEPT ![p] = {}]
          BY <1>7 DEF RetireEntry
        <5>2. \A u \in Proc : seen[p] \ {u} \in SUBSET Proc
          OBVIOUS
        <5>3. QED
          BY <5>1, <5>2
      <4>2. QED
        BY <4>1
    <3>3. kind' \in Kinds /\ stale' \in BOOLEAN /\ ioErrors' \in Nat
      BY <1>7 DEF RetireEntry
    <3>4. \E s \in LiveStates : pc' = [pc EXCEPT ![p] = s]
      BY <1>7 DEF RetireEntry
    <3>5. pc' \in [Proc -> LiveStates \cup DeadStates]
      BY <3>4
    <3>6. QED
      BY <3>1, <3>2, <3>3, <3>5
  <2>2. OwnerInv'
    BY <1>7 DEF RetireEntry
  <2>3. RecordInv'
    BY <1>7 DEF RetireEntry
  <2>4. RetireInv'
    BY <1>7 DEF RetireEntry
  <2>5. FreshInv'
    BY <1>7 DEF RetireEntry
  <2>6. QED
    BY <2>1, <2>2, <2>3, <2>4, <2>5
<1>8. ASSUME NEW p \in Proc, RetireLegacy(p) PROVE IInv'
  <2>1. TypeOK'
    <3>1. \E s \in {"mkdir", "wait"} : pc' = [pc EXCEPT ![p] = s]
      BY <1>8 DEF RetireLegacy
    <3>2. pc' \in [Proc -> LiveStates \cup DeadStates]
      BY <3>1
    <3>3. kind' \in Kinds /\ stale' \in BOOLEAN /\ UNCHANGED <<entries, filled, seen, ioErrors>>
      BY <1>8 DEF RetireLegacy
    <3>4. QED
      BY <3>2, <3>3
  <2>2. OwnerInv'
    BY <1>8 DEF RetireLegacy
  <2>3. RecordInv'
    BY <1>8 DEF RetireLegacy
  <2>4. RetireInv'
    BY <1>8 DEF RetireLegacy
  <2>5. FreshInv'
    BY <1>8 DEF RetireLegacy
  <2>6. QED
    BY <2>1, <2>2, <2>3, <2>4, <2>5
<1>9. ASSUME NEW p \in Proc, RetireRmdir(p) PROVE IInv'
  <2>1. TypeOK'
    BY <1>9 DEF RetireRmdir, Rmdir
  <2>2. OwnerInv'
    BY <1>9 DEF RetireRmdir, Rmdir
  <2>3. RecordInv'
    BY <1>9 DEF RetireRmdir, Rmdir
  <2>4. RetireInv'
    BY <1>9 DEF RetireRmdir, Rmdir
  <2>5. FreshInv'
    BY <1>9 DEF RetireRmdir, Rmdir
  <2>6. QED
    BY <2>1, <2>2, <2>3, <2>4, <2>5
<1>10. ASSUME NEW p \in Proc, WaitOrGiveUp(p) PROVE IInv'
  BY <1>10 DEF WaitOrGiveUp
<1>11. ASSUME NEW p \in Proc, Release(p) PROVE IInv'
  <2>1. TypeOK'
    <3>1. CASE p \in filled
      BY <1>11, <3>1 DEF Release
    <3>2. CASE p \notin filled
      BY <1>11, <3>2 DEF Release
    <3>3. QED
      BY <3>1, <3>2
  <2>2. OwnerInv'
    BY <1>11 DEF Release
  <2>3. RecordInv'
    BY <1>11 DEF Release
  <2>4. RetireInv'
    BY <1>11 DEF Release
  <2>5. FreshInv'
    BY <1>11 DEF Release
  <2>6. QED
    BY <2>1, <2>2, <2>3, <2>4, <2>5
<1>12. ASSUME NEW p \in Proc, ReleaseRmdir(p) PROVE IInv'
  <2>1. TypeOK'
    BY <1>12 DEF ReleaseRmdir, Rmdir
  <2>2. OwnerInv'
    BY <1>12 DEF ReleaseRmdir, Rmdir
  <2>3. RecordInv'
    BY <1>12 DEF ReleaseRmdir, Rmdir
  <2>4. RetireInv'
    BY <1>12 DEF ReleaseRmdir, Rmdir
  <2>5. FreshInv'
    BY <1>12 DEF ReleaseRmdir, Rmdir
  <2>6. QED
    BY <2>1, <2>2, <2>3, <2>4, <2>5
<1>13. ASSUME NEW p \in Proc, Crash(p) PROVE IInv'
  BY <1>13 DEF Crash
<1>14. CASE Age
  BY <1>14 DEF Age
<1>15. ASSUME NEW p \in Proc, IoError(p) PROVE IInv'
  <2>1. ioErrors' \in Nat /\ UNCHANGED fs
    BY <1>15 DEF IoError
  <2>2. CASE Fails(p)
    BY <2>1, <2>2, ErrorFacts
  <2>3. CASE Misreads(p)
    BY <2>1, <2>3 DEF Misreads
  <2>4. QED
    BY <1>15, <2>2, <2>3 DEF IoError
<1>16. CASE LegacyEnds
  BY <1>16 DEF LegacyEnds
<1>17. CASE UNCHANGED vars
  BY <1>17 DEF vars
<1>18. QED
  BY <1>1, <1>2, <1>3, <1>4, <1>5, <1>6, <1>7, <1>8, <1>9, <1>10, <1>11, <1>12,
     <1>13, <1>14, <1>15, <1>16, <1>17 DEF Next, Step

\* Hence it holds of every lock in every state it can reach.
LEMMA Inductive == ASSUME ~StaleElapses PROVE Spec => []IInv
<1>1. Init => IInv
  BY InitIInv
<1>2. IInv /\ [Next]_vars => IInv'
  BY NextIInv
<1>3. QED
  BY <1>1, <1>2, PTL DEF Spec

-----------------------------------------------------------------------------
(* What follows.                                                           *)

\* The lock's state is well-formed (acquireFileMutationLock and its helpers),
\* also when a directory may go stale.
THEOREM TypeCorrect == Spec => []TypeOK
<1>1. Init => TypeOK
  BY InitIInv DEF IInv
<1>2. ASSUME TypeOK, [Next]_vars PROVE TypeOK'
  <2> USE <1>2 DEF TypeOK, LiveStates, DeadStates, Kinds, Legacy, Goto, fs
  <2>1. ASSUME NEW p \in Proc, Start(p) PROVE TypeOK'
    BY <2>1 DEF Start
  <2>2. ASSUME NEW p \in Proc, MakeDirectory(p) PROVE TypeOK'
    BY <2>2 DEF MakeDirectory
  <2>3. ASSUME NEW p \in Proc, CreateRecord(p) PROVE TypeOK'
    BY <2>3 DEF CreateRecord
  <2>4. ASSUME NEW p \in Proc, FillRecord(p) PROVE TypeOK'
    BY <2>4 DEF FillRecord
  <2>5. ASSUME NEW p \in Proc, CleanUp(p) PROVE TypeOK'
    BY <2>5 DEF CleanUp, Rmdir
  <2>6. ASSUME NEW p \in Proc, Observe(p) PROVE TypeOK'
    BY <2>6 DEF Observe
  <2>7. ASSUME NEW p \in Proc, RetireEntry(p) PROVE TypeOK'
    <3>1. PICK t \in seen[p] :
             \/ t \in entries /\ entries' = entries \ {t} /\ filled' = filled \ {t}
             \/ UNCHANGED <<entries, filled>>
      BY <2>7 DEF RetireEntry
    <3>2. filled' \in SUBSET entries' /\ entries' \in SUBSET Proc
      BY <3>1
    <3>3. pc' \in [Proc -> LiveStates \cup DeadStates] /\ kind' \in Kinds
      BY <2>7 DEF RetireEntry
    <3>4. stale' \in BOOLEAN /\ ioErrors' \in Nat
      BY <2>7 DEF RetireEntry
    <3>5. seen' \in [Proc -> SUBSET Proc]
      <4>1. PICK rest \in SUBSET Proc : seen' = [seen EXCEPT ![p] = rest]
        <5>1. \A u : seen[p] \ {u} \in SUBSET Proc
          OBVIOUS
        <5>2. QED
          BY <2>7, <5>1 DEF RetireEntry
      <4>2. QED
        BY <4>1
    <3>6. QED
      BY <3>2, <3>3, <3>4, <3>5
  <2>8. ASSUME NEW p \in Proc, RetireLegacy(p) PROVE TypeOK'
    BY <2>8 DEF RetireLegacy
  <2>9. ASSUME NEW p \in Proc, RetireRmdir(p) PROVE TypeOK'
    BY <2>9 DEF RetireRmdir, Rmdir
  <2>10. ASSUME NEW p \in Proc, WaitOrGiveUp(p) PROVE TypeOK'
    BY <2>10 DEF WaitOrGiveUp
  <2>11. ASSUME NEW p \in Proc, Release(p) PROVE TypeOK'
    BY <2>11 DEF Release
  <2>12. ASSUME NEW p \in Proc, ReleaseRmdir(p) PROVE TypeOK'
    BY <2>12 DEF ReleaseRmdir, Rmdir
  <2>13. ASSUME NEW p \in Proc, Crash(p) PROVE TypeOK'
    BY <2>13 DEF Crash
  <2>14. CASE Age
    BY <2>14 DEF Age
  <2>15. ASSUME NEW p \in Proc, IoError(p) PROVE TypeOK'
    <3>1. ioErrors' \in Nat /\ UNCHANGED fs
      BY <2>15 DEF IoError
    <3>2. \E s \in LiveStates, rest \in SUBSET Proc :
            pc' = [pc EXCEPT ![p] = s] /\ seen' = [seen EXCEPT ![p] = rest]
      <4>1. CASE Fails(p)
        BY <4>1, ErrorFacts
      <4>2. CASE Misreads(p)
        BY <4>2 DEF Misreads
      <4>3. QED
        BY <2>15, <4>1, <4>2 DEF IoError
    <3>3. QED
      BY <3>1, <3>2
  <2>16. CASE LegacyEnds
    BY <2>16 DEF LegacyEnds
  <2>17. CASE UNCHANGED vars
    BY <2>17 DEF vars
  <2>18. QED
    BY <2>1, <2>2, <2>3, <2>4, <2>5, <2>6, <2>7, <2>8, <2>9, <2>10, <2>11, <2>12,
       <2>13, <2>14, <2>15, <2>16, <2>17 DEF Next, Step
<1>3. QED
  BY <1>1, <1>2, PTL DEF Spec

\* withFileMutationLock: however many calls compete, crash and recover, no two
\* run their critical section at once.
THEOREM Exclusive == ASSUME ~StaleElapses PROVE Spec => []MutualExclusion
<1>1. IInv => MutualExclusion
  BY DEF IInv, OwnerInv, Owning, MutualExclusion
<1>2. QED
  BY <1>1, Inductive, PTL

\* recoverAbandonedLock never reaps a live owner: whoever runs its critical
\* section still has its record on disk, and nobody else's beside it.
THEOREM RecordKept == ASSUME ~StaleElapses PROVE Spec => []LiveHolderKeepsRecord
<1>1. IInv => LiveHolderKeepsRecord
  BY DEF IInv, OwnerInv, LiveHolderKeepsRecord
<1>2. QED
  BY <1>1, Inductive, PTL

\* Every step of the lock is a step of its ownership promise, or none.
LEMMA StepImplements ==
  ASSUME IInv, [Next]_vars
  PROVE  [Ownership!Next]_(Ownership!vars)
<1> DEFINE Holder == IF filled = {} THEN None ELSE CHOOSE p \in filled : TRUE
           Dead   == {p \in Proc : pc[p] \in DeadStates}
<1> USE DEF IInv, TypeOK
<1>1. \A p : filled = {p} => Holder = p
  OBVIOUS
<1>2. filled = {} => Holder = None
  OBVIOUS
<1>3. \A p : filled' = {p} => Holder' = p
  OBVIOUS
<1>4. filled' = {} => Holder' = None
  OBVIOUS
<1>5. filled' = filled => Holder' = Holder
  OBVIOUS
<1>6. filled = {} \/ \E p \in Proc : filled = {p}
  BY DEF RecordInv
<1>7. ASSUME Holder' = Holder, Dead' = Dead
      PROVE  [Ownership!Next]_(Ownership!vars)
  BY <1>7 DEF Ownership!vars
<1>8. ASSUME NEW p \in Proc, NEW s \in LiveStates, pc' = [pc EXCEPT ![p] = s],
             pc[p] \in LiveStates
      PROVE  Dead' = Dead
  BY <1>8 DEF LiveStates, DeadStates
<1>9. ASSUME NEW p \in Proc, FillRecord(p)
      PROVE  [Ownership!Next]_(Ownership!vars)
  <2>1. filled = {} /\ filled' = {p} /\ p \notin Dead
    BY <1>9 DEF FillRecord, Goto, OwnerInv, DeadStates
  <2>2. Dead' = Dead
    BY <1>8, <1>9 DEF FillRecord, Goto, LiveStates
  <2>3. Ownership!Take(p)
    BY <2>1, <2>2, <1>2, <1>3 DEF Ownership!Take
  <2>4. QED
    BY <2>3 DEF Ownership!Next
<1>10. ASSUME NEW p \in Proc, RetireEntry(p)
       PROVE  [Ownership!Next]_(Ownership!vars)
  <2>1. PICK t \in seen[p] :
             \/ /\ t \in entries
                /\ filled' = filled \ {t}
             \/ /\ t \notin entries
                /\ filled' = filled
    BY <1>10 DEF RetireEntry, fs
  <2>2. t \in Proc /\ t \in Dead
    BY <1>10 DEF RetireEntry, Goto, RetireInv
  <2>3. Dead' = Dead
    BY <1>8, <1>10 DEF RetireEntry, Goto, LiveStates
  <2>4. CASE filled = {t} /\ filled' = {}
    <3>1. Ownership!Revoke(t)
      BY <2>2, <2>3, <2>4, <1>1, <1>4 DEF Ownership!Revoke
    <3>2. QED
      BY <2>2, <3>1 DEF Ownership!Next
  <2>5. CASE filled' = filled
    BY <2>5, <2>3, <1>5, <1>7
  <2>6. QED
    BY <2>1, <2>4, <2>5, <1>6
<1>11. ASSUME NEW p \in Proc, Release(p)
       PROVE  [Ownership!Next]_(Ownership!vars)
  <2>1. filled = {p} /\ filled' = {} /\ p \notin Dead
    BY <1>11 DEF Release, Goto, OwnerInv, DeadStates
  <2>2. Dead' = Dead
    BY <1>8, <1>11 DEF Release, Goto, LiveStates
  <2>3. Ownership!Release(p)
    BY <2>1, <2>2, <1>1, <1>4 DEF Ownership!Release
  <2>4. QED
    BY <2>3 DEF Ownership!Next
<1>12. ASSUME NEW p \in Proc, Crash(p)
       PROVE  [Ownership!Next]_(Ownership!vars)
  <2>1. p \notin Dead /\ Dead' = Dead \cup {p}
    BY <1>12 DEF Crash, LiveStates, DeadStates
  <2>2. Holder' = Holder
    BY <1>12, <1>5 DEF Crash, fs
  <2>3. Ownership!Die(p)
    BY <2>1, <2>2 DEF Ownership!Die
  <2>4. QED
    BY <2>3 DEF Ownership!Next
<1>13. ASSUME NEW p \in Proc,
              \/ Start(p) \/ MakeDirectory(p) \/ CreateRecord(p) \/ CleanUp(p)
              \/ Observe(p) \/ RetireLegacy(p) \/ RetireRmdir(p)
              \/ WaitOrGiveUp(p) \/ ReleaseRmdir(p)
       PROVE  [Ownership!Next]_(Ownership!vars)
  <2>1. filled' = filled
    BY <1>13 DEF Start, MakeDirectory, CreateRecord, CleanUp, Observe,
                 RetireLegacy, RetireRmdir, WaitOrGiveUp, ReleaseRmdir, Rmdir, fs
  <2>2. \E s \in LiveStates : pc' = [pc EXCEPT ![p] = s] /\ pc[p] \in LiveStates
    BY <1>13 DEF Start, MakeDirectory, CreateRecord, CleanUp, Observe, Goto,
                 RetireLegacy, RetireRmdir, WaitOrGiveUp, ReleaseRmdir, LiveStates
  <2>3. Dead' = Dead
    BY <2>2, <1>8
  <2>4. QED
    BY <2>1, <2>3, <1>5, <1>7
<1>14. CASE Age \/ LegacyEnds
  BY <1>14, <1>5, <1>7 DEF Age, LegacyEnds
<1>15. ASSUME NEW p \in Proc, IoError(p)
       PROVE  [Ownership!Next]_(Ownership!vars)
  <2>1. filled' = filled
    BY <1>15 DEF IoError, fs
  <2>2. \E s \in LiveStates : pc' = [pc EXCEPT ![p] = s] /\ pc[p] \in LiveStates
    <3>1. CASE Fails(p)
      BY <3>1, ErrorFacts DEF LiveStates
    <3>2. CASE Misreads(p)
      BY <3>2 DEF Misreads, LiveStates
    <3>3. QED
      BY <1>15, <3>1, <3>2 DEF IoError
  <2>3. QED
    BY <2>1, <2>2, <1>5, <1>7, <1>8
<1>16. CASE UNCHANGED vars
  BY <1>16, <1>5, <1>7 DEF vars
<1>17. QED
  BY <1>9, <1>10, <1>11, <1>12, <1>13, <1>14, <1>15, <1>16 DEF Next, Step

\* The lock implements its ownership promise: a call's ownership on disk ends by
\* its own release, or by a recovery after its death, and by nothing else.
THEOREM Implements == ASSUME ~StaleElapses PROVE Spec => OwnershipSpec
<1>1. Init => Ownership!Init
  BY DEF Init, Ownership!Init, DeadStates
<1>2. IInv /\ [Next]_vars => [Ownership!Next]_(Ownership!vars)
  BY StepImplements
<1>3. QED
  BY <1>1, <1>2, Inductive, PTL DEF Spec, OwnershipSpec, Ownership!Spec

-----------------------------------------------------------------------------
(* What a call leaves in the lock directory, stale or not.                 *)

\* A record in the directory is of a call that is writing it, runs its critical
\* section, is stuck with it or was killed, and by the critical section it has been
\* written.
LeftoverInv ==
    \A t \in entries :
        /\ pc[t] \in {"fill", "cs"} \cup Stuck \cup DeadStates
        /\ pc[t] = "cs" => t \in filled

\* No step of a call, of a recoverer beside it, and no crash breaks that, however
\* old the directory is.
LEMMA NextLeftoverInv ==
  ASSUME TypeOK, LeftoverInv, [Next]_vars
  PROVE  LeftoverInv'
<1> USE DEF TypeOK, LeftoverInv, Goto, fs, DeadStates, Stuck
<1>1. ASSUME NEW p \in Proc, Start(p) \/ MakeDirectory(p) \/ Observe(p) \/ WaitOrGiveUp(p)
      PROVE  LeftoverInv'
  BY <1>1 DEF Start, MakeDirectory, Observe, WaitOrGiveUp
<1>2. ASSUME NEW p \in Proc, CreateRecord(p) PROVE LeftoverInv'
  BY <1>2 DEF CreateRecord
<1>3. ASSUME NEW p \in Proc, FillRecord(p) PROVE LeftoverInv'
  BY <1>3 DEF FillRecord
<1>4. ASSUME NEW p \in Proc, CleanUp(p) \/ RetireRmdir(p) \/ ReleaseRmdir(p)
      PROVE  LeftoverInv'
  BY <1>4 DEF CleanUp, RetireRmdir, ReleaseRmdir, Rmdir
<1>5. ASSUME NEW p \in Proc, RetireEntry(p) PROVE LeftoverInv'
  BY <1>5 DEF RetireEntry
<1>6. ASSUME NEW p \in Proc, RetireLegacy(p) PROVE LeftoverInv'
  BY <1>6 DEF RetireLegacy
<1>7. ASSUME NEW p \in Proc, Release(p) PROVE LeftoverInv'
  BY <1>7 DEF Release
<1>8. ASSUME NEW p \in Proc, Crash(p) PROVE LeftoverInv'
  BY <1>8 DEF Crash, LiveStates
<1>9. CASE Age \/ LegacyEnds
  BY <1>9 DEF Age, LegacyEnds
<1>10. ASSUME NEW p \in Proc, IoError(p) PROVE LeftoverInv'
  <2>1. CASE Fails(p)
    BY <1>10, <2>1, ErrorFacts DEF IoError
  <2>2. CASE Misreads(p)
    BY <1>10, <2>2 DEF IoError, Misreads
  <2>3. QED
    BY <1>10, <2>1, <2>2 DEF IoError
<1>11. CASE UNCHANGED vars
  BY <1>11 DEF vars
<1>12. QED
  BY <1>1, <1>2, <1>3, <1>4, <1>5, <1>6, <1>7, <1>8, <1>9, <1>10, <1>11 DEF Next, Step

\* A call that has returned or given up has left no owner record, whatever recoverers
\* did meanwhile (releaseOwnedLock unlinks its own file before it removes the directory);
\* only a release that cannot read or unlink the file leaves it.
THEOREM LeavesNothingBehind == Spec => []NothingLeftBehind
<1>1. Init => LeftoverInv
  BY DEF Init, LeftoverInv
<1>2. TypeOK /\ LeftoverInv /\ [Next]_vars => LeftoverInv'
  BY NextLeftoverInv
<1>3. LeftoverInv => NothingLeftBehind
  BY DEF LeftoverInv, NothingLeftBehind, DeadStates, Stuck
<1>4. QED
  BY <1>1, <1>2, <1>3, TypeCorrect, PTL DEF Spec
=============================================================================
