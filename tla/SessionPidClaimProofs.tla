----------------------- MODULE SessionPidClaimProofs -----------------------
(***************************************************************************)
(* What holds of SessionPidClaim for every number of starting daemons: the *)
(* types always, and the one owner that the pid file names as long as no   *)
(* three of them are at the claim, or have left a lock there, at once.     *)
(***************************************************************************)
EXTENDS SessionPidClaim, TLAPS

\* Whoever gives its lock back knows what its attempt came to.
OutcomeInv == \A p \in Proc : pc[p] \in {"unlock", "remove"} => outcome[p] # "none"

IInv == TypeOK /\ OutcomeInv

-----------------------------------------------------------------------------

\* Writing and outdating a record leave a file a file, and no file no file.
LEMMA FileOps ==
  ASSUME NEW p \in Proc
  PROVE  /\ \A x \in File \cup {None} : /\ Filled(p, x) \in File \cup {None}
                                        /\ Outdated(p, x) \in File \cup {None}
                                        /\ Content(x) \in File \cup {None, Blank}
         /\ \A x \in File \cup {None, Blank} : Outdated(p, x) \in File \cup {None, Blank}
         /\ Filled(p, None) = None /\ Outdated(p, None) = None
         /\ NewFile(p) \in File
<1>1. \A x \in File : /\ [x EXCEPT !.full = TRUE] \in File
                     /\ [x EXCEPT !.now = FALSE] \in File
  BY DEF File
<1>2. Blank.by # p
  BY ClaimAssumption DEF Blank
<1>3. NewFile(p) \in File
  BY DEF NewFile, File
<1>4. QED
  BY <1>1, <1>2, <1>3 DEF Filled, Outdated, Content

\* No file is there, and nobody has judged or moved one.
LEMMA InitIInv == Init => IInv
  BY DEF Init, IInv, TypeOK, OutcomeInv

\* Every step of a claim, of a recovery and of an end, and every kill keep the types.
LEMMA NextIInv ==
  ASSUME IInv, [Next]_vars
  PROVE  IInv'
<1> USE ClaimAssumption DEF IInv, TypeOK, OutcomeInv, Goto, Decide, Claiming, Recovering
<1>1. ASSUME NEW p \in Proc, Start(p) PROVE IInv'
  BY <1>1 DEF Start
<1>2. ASSUME NEW p \in Proc, CreateLock(p) PROVE IInv'
  BY <1>2, FileOps DEF CreateLock
<1>3. ASSUME NEW p \in Proc, FillLock(p) PROVE IInv'
  BY <1>3, FileOps DEF FillLock
<1>4. ASSUME NEW p \in Proc, ReadLock(p) PROVE IInv'
  BY <1>4, FileOps DEF ReadLock
<1>5. ASSUME NEW p \in Proc, RenameLock(p) PROVE IInv'
  BY <1>5 DEF RenameLock
<1>6. ASSUME NEW p \in Proc, ReadMoved(p) PROVE IInv'
  BY <1>6 DEF ReadMoved
<1>7. ASSUME NEW p \in Proc, Recreate(p) PROVE IInv'
  BY <1>7, FileOps DEF Recreate
<1>8. ASSUME NEW p \in Proc, Refill(p) PROVE IInv'
  <2> DEFINE filled == [q \in Proc |-> Filled(p, moved[q])]
  <2>1. /\ filled \in [Proc -> File \cup {None}]
        /\ \A q \in Proc : moved[q] = None => filled[q] = None
    BY FileOps
  <2> HIDE DEF filled
  <2>2. \/ Goto(p, "refill", "readPid") /\ moved' = [filled EXCEPT ![p] = None]
        \/ Goto(p, "refillRaced", "restore") /\ moved' = filled
    BY <1>8 DEF Refill, filled
  <2>3. lock' \in File \cup {None}
    BY <1>8, FileOps DEF Refill
  <2>4. QED
    BY <1>8, <2>1, <2>2, <2>3 DEF Refill
<1>9. ASSUME NEW p \in Proc, Restore(p) PROVE IInv'
  BY <1>9 DEF Restore
<1>10. ASSUME NEW p \in Proc, ReadPid(p) \/ CheckBefore(p) \/ CheckAfter(p) PROVE IInv'
  BY <1>10 DEF ReadPid, CheckBefore, CheckAfter
<1>11. ASSUME NEW p \in Proc, RenamePid(p) PROVE IInv'
  BY <1>11 DEF RenamePid
<1>12. ASSUME NEW p \in Proc, Unlock(p) \/ RemoveLock(p) PROVE IInv'
  <2>1. pc[p] \in {"unlock", "remove"} /\ AfterAttempt(p) \in {"owner", "exited", "wait"}
    BY <1>12 DEF Unlock, RemoveLock, AfterAttempt
  <2>2. QED
    BY <1>12, <2>1 DEF Unlock, RemoveLock
<1>13. ASSUME NEW p \in Proc, TryAgain(p) PROVE IInv'
  BY <1>13, FileOps DEF TryAgain
<1>14. ASSUME NEW p \in Proc, RecheckPid(p) \/ RemovePid(p) \/ Stop(p) \/ Crash(p)
       PROVE  IInv'
  BY <1>14 DEF RecheckPid, RemovePid, Stop, Crash, Alive
<1>15. CASE UNCHANGED vars
  BY <1>15 DEF vars
<1>16. QED
  BY <1>1, <1>2, <1>3, <1>4, <1>5, <1>6, <1>7, <1>8, <1>9, <1>10, <1>11, <1>12, <1>13,
     <1>14, <1>15
  DEF Next, Step

\* The state is well-formed, and a lock that was renamed away belongs to a recovery
\* under way or to a process that was killed in one (recoverStaleClaimLock renames it
\* back or clears it away on every path).
THEOREM TypeCorrect == Spec => []TypeOK
<1>1. IInv => TypeOK
  BY DEF IInv
<1>2. QED
  BY <1>1, InitIInv, NextIInv, PTL DEF Spec

\* A record of p's present attempt, and one that is complete.
Newest(f, p) == f # None /\ f.by = p /\ f.now

Mine(p) == [by |-> p, now |-> TRUE, full |-> TRUE]

\* A file is written by the attempt that has created it, and whoever begins or judges
\* has none of its present attempt.
Sound(f) ==
    f # None =>
        /\ pc[f.by] # "idle"
        /\ ~f.full => f.now /\ pc[f.by] \in {"fill", "refill", "refillRaced", "exited"}
        /\ f.now => pc[f.by] \notin {"create", "read", "rename", "readMoved", "recreate",
                                    "recreateRaced"}

\* Nobody's newest record is in two places, or renamed away by its writer.
SingleInv ==
    \A p, q \in Proc :
        Newest(moved[q], p) =>
            /\ q # p
            /\ ~Newest(lock, p)
            /\ \A x \in Proc \ {q} : ~Newest(moved[x], p)

\* Only a dead process's record, or none that could be read, is judged stale.
JudgedInv ==
    \A p \in Proc :
        /\ seen[p] \notin {None, Blank} => pc[seen[p].by] # "idle"
        /\ pc[p] \in Recovering => moved[p] # None
        /\ pc[p] \in Recovering \cup {"rename"} /\ seen[p] \notin {None, Blank} =>
             ~Alive(seen[p].by)

FilesInv ==
    /\ Sound(lock) /\ \A q \in Proc : Sound(moved[q])
    /\ SingleInv /\ JudgedInv
    /\ pidFile # None => pc[pidFile] # "idle"

\* What a write, and another token, make of a file.
LEMMA FilledFacts ==
  ASSUME NEW p \in Proc, NEW f \in File \cup {None}
  PROVE  /\ Filled(p, f) = None <=> f = None
         /\ f # None => /\ Filled(p, f).by = f.by
                        /\ Filled(p, f).now <=> f.now
                        /\ Filled(p, f).full <=> f.full \/ Newest(f, p)
<1>1. CASE f # None /\ f.by = p /\ f.now
  <2>1. Filled(p, f) = [f EXCEPT !.full = TRUE] /\ f \in File
    BY <1>1 DEF Filled
  <2>2. [f EXCEPT !.full = TRUE] \in File
    BY <2>1 DEF File
  <2>3. /\ [f EXCEPT !.full = TRUE].by = f.by
        /\ [f EXCEPT !.full = TRUE].now = f.now
        /\ [f EXCEPT !.full = TRUE].full = TRUE
    BY <2>1 DEF File
  <2>4. None \notin File
    BY FileAssumption
  <2>5. QED
    BY <1>1, <2>1, <2>2, <2>3, <2>4 DEF Newest
<1>2. CASE ~(f # None /\ f.by = p /\ f.now)
  BY <1>2 DEF Filled, Newest
<1>3. QED
  BY <1>1, <1>2

LEMMA OutdatedFacts ==
  ASSUME NEW p \in Proc, NEW f \in File \cup {None, Blank}
  PROVE  /\ Outdated(p, f) = None <=> f = None
         /\ Outdated(p, f) = Blank <=> f = Blank
         /\ f # None => /\ Outdated(p, f).by = f.by
                        /\ Outdated(p, f).full <=> f.full
                        /\ Outdated(p, f).now <=> f.now /\ f.by # p
<1>1. CASE f # None /\ f.by = p
  <2>1. Outdated(p, f) = [f EXCEPT !.now = FALSE] /\ f \in File
    BY <1>1, ClaimAssumption DEF Outdated, Blank
  <2>2. [f EXCEPT !.now = FALSE] \in File
    BY <2>1 DEF File
  <2>3. /\ [f EXCEPT !.now = FALSE].by = f.by
        /\ [f EXCEPT !.now = FALSE].full = f.full
        /\ [f EXCEPT !.now = FALSE].now = FALSE
    BY <2>1 DEF File
  <2>4. None \notin File /\ Blank \notin File
    BY FileAssumption, ClaimAssumption DEF Blank, File
  <2>5. QED
    BY <1>1, <2>1, <2>2, <2>3, <2>4
<1>2. CASE ~(f # None /\ f.by = p)
  BY <1>2 DEF Outdated
<1>3. QED
  BY <1>1, <1>2

LEMMA InitFiles == Init => FilesInv
  BY DEF Init, FilesInv, SingleInv, JudgedInv, Sound, Newest, Recovering

LEMMA NextFiles ==
  ASSUME IInv, FilesInv, [Next]_vars
  PROVE  FilesInv'
<1> USE ClaimAssumption DEF IInv, TypeOK, FilesInv, SingleInv, JudgedInv, Sound, Newest, Goto,
      Decide, Claiming, Recovering, Alive, File, Blank
<1>1. ASSUME NEW p \in Proc, Start(p) PROVE FilesInv'
  BY <1>1 DEF Start
<1>2. ASSUME NEW p \in Proc, CreateLock(p) PROVE FilesInv'
  BY <1>2 DEF CreateLock, NewFile
<1>3. ASSUME NEW p \in Proc, FillLock(p) PROVE FilesInv'
  <2>1. /\ pc[p] = "fill" /\ pc' = [pc EXCEPT ![p] = "readPid"]
        /\ lock' = Filled(p, lock) /\ \A q \in Proc : moved'[q] = Filled(p, moved[q])
        /\ UNCHANGED <<outcome, pidFile, seen>>
    BY <1>3 DEF FillLock
  <2>2. Sound(lock)' /\ \A q \in Proc : Sound(moved[q])'
    BY <2>1, FilledFacts
  <2>3. SingleInv'
    BY <2>1, FilledFacts
  <2>4. JudgedInv'
    BY <2>1, FilledFacts
  <2>5. QED
    BY <2>1, <2>2, <2>3, <2>4
<1>4. ASSUME NEW p \in Proc, ReadLock(p) PROVE FilesInv'
  BY <1>4 DEF ReadLock, Live, Content
<1>5. ASSUME NEW p \in Proc, RenameLock(p) PROVE FilesInv'
  BY <1>5 DEF RenameLock
<1>6. ASSUME NEW p \in Proc, ReadMoved(p) PROVE FilesInv'
  BY <1>6 DEF ReadMoved
<1>7. ASSUME NEW p \in Proc, Recreate(p) PROVE FilesInv'
  <2>1. CASE lock = None /\ lock' = NewFile(p) /\ UNCHANGED <<outcome, pidFile, moved, seen>>
    <3>1. PICK to \in {"refill", "refillRaced"} :
            /\ pc[p] \in {"recreate", "recreateRaced"}
            /\ pc' = [pc EXCEPT ![p] = to]
      BY <1>7, <2>1 DEF Recreate
    <3>2. Sound(lock)' /\ \A q \in Proc : Sound(moved[q])'
      BY <2>1, <3>1 DEF NewFile
    <3>3. SingleInv'
      BY <2>1, <3>1 DEF NewFile
    <3>4. JudgedInv'
      BY <2>1, <3>1
    <3>5. QED
      BY <2>1, <3>1, <3>2, <3>3, <3>4
  <2>2. CASE lock # None
    <3>1. /\ pc[p] \in {"recreate", "recreateRaced"} /\ pc' = [pc EXCEPT ![p] = "wait"]
          /\ moved' = [moved EXCEPT ![p] = None]
          /\ UNCHANGED <<outcome, pidFile, lock, seen>>
      BY <1>7, <2>2 DEF Recreate
    <3>2. QED
      BY <3>1
  <2>3. QED
    BY <1>7, <2>1, <2>2 DEF Recreate
<1>8. ASSUME NEW p \in Proc, Refill(p) PROVE FilesInv'
  <2>1. PICK to \in {"readPid", "restore"} :
        /\ pc[p] = IF to = "readPid" THEN "refill" ELSE "refillRaced"
        /\ pc' = [pc EXCEPT ![p] = to]
        /\ lock' = Filled(p, lock)
        /\ \A q \in Proc \ {p} : moved'[q] = Filled(p, moved[q])
        /\ moved'[p] = IF to = "readPid" THEN None ELSE Filled(p, moved[p])
        /\ UNCHANGED <<outcome, pidFile, seen>>
    <3> DEFINE filled == [q \in Proc |-> Filled(p, moved[q])]
    <3>2. /\ \A q \in Proc : filled[q] = Filled(p, moved[q])
          /\ DOMAIN filled = Proc
      OBVIOUS
    <3> HIDE DEF filled
    <3>3. /\ lock' = Filled(p, lock) /\ UNCHANGED <<outcome, pidFile, seen>>
          /\ \/ Goto(p, "refill", "readPid") /\ moved' = [filled EXCEPT ![p] = None]
             \/ Goto(p, "refillRaced", "restore") /\ moved' = filled
      BY <1>8 DEF Refill, filled
    <3>4. QED
      BY <3>2, <3>3
  <2>2. Sound(lock)' /\ \A q \in Proc : Sound(moved[q])'
    BY <2>1, FilledFacts
  <2>3. SingleInv'
    <3>1. \A r \in Proc : Newest(lock', r) => Newest(lock, r)
      BY <2>1, FilledFacts
    <3>2. \A q, r \in Proc : Newest(moved'[q], r) => Newest(moved[q], r)
      BY <2>1, FilledFacts
    <3>3. QED
      BY <3>1, <3>2
  <2>4. JudgedInv'
    BY <2>1, FilledFacts
  <2>5. QED
    BY <2>1, <2>2, <2>3, <2>4
<1>9. ASSUME NEW p \in Proc, Restore(p) PROVE FilesInv'
  BY <1>9 DEF Restore
<1>10. ASSUME NEW p \in Proc, ReadPid(p) \/ CheckBefore(p) \/ CheckAfter(p) PROVE FilesInv'
  <2>1. /\ pc[p] \in {"readPid", "checkBefore", "checkAfter"}
        /\ pc' \in {[pc EXCEPT ![p] = to] : to \in {"unlock", "checkBefore", "renamePid"}}
    <3>1. CASE ReadPid(p)
      BY <3>1 DEF ReadPid
    <3>2. CASE CheckBefore(p)
      BY <3>2 DEF CheckBefore
    <3>3. CASE CheckAfter(p)
      BY <3>3 DEF CheckAfter
    <3>4. QED
      BY <1>10, <3>1, <3>2, <3>3
  <2>2. UNCHANGED <<pidFile, lock, moved, seen>>
    BY <1>10 DEF ReadPid, CheckBefore, CheckAfter
  <2>3. Sound(lock)' /\ \A q \in Proc : Sound(moved[q])'
    BY <2>1, <2>2
  <2>4. SingleInv'
    BY <2>1, <2>2
  <2>5. JudgedInv'
    BY <2>1, <2>2
  <2>6. QED
    BY <2>1, <2>2, <2>3, <2>4, <2>5
<1>11. ASSUME NEW p \in Proc, RenamePid(p) PROVE FilesInv'
  BY <1>11 DEF RenamePid
<1>12. ASSUME NEW p \in Proc, Unlock(p) \/ RemoveLock(p) PROVE FilesInv'
  BY <1>12 DEF Unlock, RemoveLock, AfterAttempt, OutcomeInv
<1>13. ASSUME NEW p \in Proc, TryAgain(p) PROVE FilesInv'
  <2>1. CASE Goto(p, "wait", "gaveUp") /\ UNCHANGED <<lock, moved, seen, pidFile>>
    BY <2>1
  <2>2. CASE /\ Goto(p, "wait", "create") /\ lock' = Outdated(p, lock)
             /\ moved' = [q \in Proc |-> Outdated(p, moved[q])]
             /\ seen' = [q \in Proc |-> IF q = p THEN None ELSE Outdated(p, seen[q])]
             /\ UNCHANGED pidFile
    <3>1. Sound(lock)' /\ \A q \in Proc : Sound(moved[q])'
      BY <2>2, OutdatedFacts
    <3>2. SingleInv'
      BY <2>2, OutdatedFacts
    <3>3. JudgedInv'
      BY <2>2, OutdatedFacts
    <3>4. QED
      BY <2>2, <3>1, <3>2, <3>3
  <2>3. QED
    BY <1>13, <2>1, <2>2 DEF TryAgain
<1>14. ASSUME NEW p \in Proc, RecheckPid(p) \/ RemovePid(p) \/ Stop(p) \/ Crash(p)
       PROVE  FilesInv'
  BY <1>14 DEF RecheckPid, RemovePid, Stop, Crash
<1>15. CASE UNCHANGED vars
  BY <1>15 DEF vars
<1>16. QED
  BY <1>1, <1>2, <1>3, <1>4, <1>5, <1>6, <1>7, <1>8, <1>9, <1>10, <1>11, <1>12, <1>13,
     <1>14, <1>15
  DEF Next, Step

-----------------------------------------------------------------------------
(* Two claimants.                                                          *)

By(f, p) == f # None /\ f.by = p

\* A process counts as long as it claims, and after that as long as a lock that it has
\* written or renamed away is on disk.
Present(p) ==
    \/ pc[p] \in Claiming
    \/ moved[p] # None
    \/ By(lock, p) \/ \E q \in Proc : By(moved[q], p)

AtMostTwo ==
    \A p, q, r \in Proc :
        Present(p) /\ Present(q) /\ Present(r) => p = q \/ q = r \/ p = r

\* It has found its lock in place, and is about to act on that.
Acts(p) == pc[p] \in {"renamePid", "remove"}

\* A readable record that no other process than r finds to be its own.
Bars(f, r) == f # None /\ f.full /\ \A q \in Proc \ {r} : f # Mine(q)

\* Whoever has renamed it away renames it back, or is dead.
Carries(x, r) ==
    /\ moved[x] # None
    /\ pc[x] \in {"readMoved", "recreateRaced", "refillRaced", "restore", "exited"}
    /\ pc[x] # "exited" => Bars(moved[x], r)
    /\ pc[x] = "readMoved" => seen[x] # moved[x]
    /\ pc[x] \in {"readMoved", "recreateRaced"} => lock = None

\* Who acts on its lock is the only one, and keeps the others from finding theirs.
ActInv ==
    \A r \in Proc : Acts(r) =>
        /\ Bars(lock, r) \/ \E x \in Proc \ {r} : Carries(x, r)
        /\ \A q \in Proc \ {r} : ~Acts(q)

\* A record that the other process has renamed away is none of its present attempt.
LEMMA MovedBars ==
  ASSUME IInv, FilesInv, AtMostTwo, NEW r \in Proc, Acts(r),
         NEW y \in Proc \ {r}, pc[y] \in Claiming
  PROVE  /\ \A x \in Proc \ {r, y} : ~Present(x)
         /\ moved[y] # None => Bars(moved[y], r)
         /\ lock # None => lock.by \in {r, y}
<1>1. Present(r) /\ Present(y)
  BY DEF Present, Acts, Claiming
<1>2. \A x \in Proc \ {r, y} : ~Present(x)
  BY <1>1 DEF AtMostTwo
<1>3. ASSUME moved[y] # None PROVE Bars(moved[y], r)
  <2>1. moved[y] \in File /\ moved[y].by \in Proc
    BY <1>3 DEF IInv, TypeOK, File
  <2>2. moved[y].by \in {r, y}
    BY <1>2, <1>3, <2>1 DEF Present, By
  <2>3. moved[y].by = y => ~moved[y].now
    BY <1>3 DEF FilesInv, SingleInv, Newest
  <2>4. moved[y].full
    BY <1>3, <2>2, <2>3 DEF FilesInv, Sound, Acts
  <2>5. QED
    BY <1>3, <2>2, <2>3, <2>4 DEF Bars, Mine
<1>4. ASSUME lock # None PROVE lock.by \in {r, y}
  <2>1. lock \in File /\ lock.by \in Proc
    BY <1>4 DEF IInv, TypeOK, File
  <2>2. QED
    BY <1>2, <1>4, <2>1 DEF Present, By
<1>5. QED
  BY <1>2, <1>3, <1>4

\* A record that nobody else finds to be its own is not changed by anybody else.
LEMMA BarredStays ==
  ASSUME IInv, NEW r \in Proc, NEW y \in Proc \ {r}, NEW f \in File, Bars(f, r)
  PROVE  Filled(y, f) = f /\ Outdated(y, f) = f
<1>1. f.full /\ f # Mine(y)
  BY DEF Bars
<1>2. ~(f.by = y /\ f.now)
  BY <1>1 DEF File, Mine
<1>3. f.by = y => [f EXCEPT !.now = FALSE] = f
  BY <1>2 DEF File
<1>4. QED
  BY <1>2, <1>3 DEF Filled, Outdated

\* What the other process does leaves the bar where it is, or carries it about.
LEMMA OthersKeep ==
  ASSUME IInv, FilesInv, ActInv, AtMostTwo, NEW r \in Proc, Acts(r),
         NEW y \in Proc \ {r}, Start(y) \/ Step(y) \/ Stop(y) \/ Crash(y)
  PROVE  Bars(lock', r) \/ \E x \in Proc \ {r} : Carries(x, r)'
<1>1. /\ pc \in [Proc -> Claiming \cup {"idle", "owner", "recheckPid", "removePid",
                                  "exited", "gaveUp"}]
      /\ lock \in File \cup {None} /\ moved \in [Proc -> File \cup {None}]
      /\ seen \in [Proc -> File \cup {None, Blank}] /\ None \notin File
      /\ \A p \in Proc : pc[p] \notin Recovering \cup {"exited"} => moved[p] = None
  BY FileAssumption DEF IInv, TypeOK
<1>2. Bars(lock, r) \/ \E x \in Proc \ {r} : Carries(x, r)
  BY DEF ActInv
<1>3. ~Acts(y)
  BY DEF ActInv
<1>4. ASSUME UNCHANGED <<lock, moved, seen>>, \A x \in Proc \ {y} : pc'[x] = pc[x],
             ~Carries(y, r) \/ pc'[y] = "exited"
      PROVE  Bars(lock', r) \/ \E x \in Proc \ {r} : Carries(x, r)'
  <2>1. \A x \in Proc \ {r} : Carries(x, r) => Carries(x, r)'
    BY <1>4 DEF Carries
  <2>2. QED
    BY <1>2, <1>4, <2>1
<1>5. CASE Start(y) \/ Stop(y) \/ RecheckPid(y) \/ RemovePid(y)
  <2>1. /\ pc[y] \in {"idle", "owner", "recheckPid", "removePid"}
        /\ UNCHANGED <<lock, moved, seen>> /\ \A x \in Proc \ {y} : pc'[x] = pc[x]
    BY <1>1, <1>5 DEF Start, Stop, RecheckPid, RemovePid, Goto
  <2>2. QED
    BY <1>4, <2>1 DEF Carries
<1>6. CASE Crash(y)
  <2>1. /\ pc'[y] = "exited"
        /\ UNCHANGED <<lock, moved, seen>> /\ \A x \in Proc \ {y} : pc'[x] = pc[x]
    BY <1>1, <1>6 DEF Crash
  <2>2. QED
    BY <1>4, <2>1
<1>7. ASSUME pc[y] \in Claiming
      PROVE  /\ Bars(lock, r) \/ Carries(y, r)
             /\ moved[y] # None => Bars(moved[y], r)
             /\ lock # None => Alive(lock.by)
             /\ lock # None /\ Bars(lock, r) =>
                  Filled(y, lock) = lock /\ Outdated(y, lock) = lock
             /\ moved[y] # None =>
                  Filled(y, moved[y]) = moved[y] /\ Outdated(y, moved[y]) = moved[y]
  <2>1. \A x \in Proc \ {r, y} : moved[x] = None
    BY <1>7, MovedBars DEF Present
  <2>2. moved[y] # None => Bars(moved[y], r)
    BY <1>7, MovedBars
  <2>3. lock # None => Alive(lock.by)
    <3>1. Alive(r) /\ Alive(y)
      BY <1>7 DEF Alive, Acts, Claiming, Recovering
    <3>2. QED
      BY <1>7, <3>1, MovedBars
  <2>4. QED
    BY <1>1, <1>2, <2>1, <2>2, <2>3, BarredStays DEF Carries
<1>8. CASE CreateLock(y) \/ ReadLock(y)
  <2>1. /\ pc[y] \in {"create", "read"} /\ moved' = moved
        /\ lock # None => lock' = lock
    BY <1>8 DEF CreateLock, ReadLock, Goto
  <2>2. Bars(lock, r)
    BY <1>7, <2>1 DEF Carries, Claiming
  <2>3. QED
    BY <2>1, <2>2 DEF Bars
<1>9. CASE FillLock(y)
  <2>1. pc[y] = "fill" /\ lock' = Filled(y, lock)
    BY <1>9 DEF FillLock, Goto
  <2>2. Bars(lock, r)
    BY <1>7, <2>1 DEF Carries, Claiming
  <2>3. QED
    BY <1>7, <2>1, <2>2 DEF Bars, Claiming
<1>10. CASE RenameLock(y)
  <2>1. pc[y] = "rename" /\ pc[y] \in Claiming
    BY <1>10 DEF RenameLock, Goto, Claiming
  <2>2. Bars(lock, r) /\ lock # None
    BY <1>7, <2>1 DEF Carries, Bars
  <2>3. /\ pc'[y] = "readMoved" /\ moved'[y] = lock /\ lock' = None /\ seen' = seen
    BY <1>1, <1>10, <2>2 DEF RenameLock, Goto
  <2>4. seen[y] # lock
    <3> SUFFICES ASSUME seen[y] = lock PROVE FALSE
      OBVIOUS
    <3>1. lock # Blank
      BY <2>2 DEF Bars, Blank
    <3>2. ~Alive(seen[y].by)
      BY <2>1, <2>2, <3>1 DEF FilesInv, JudgedInv
    <3>3. QED
      BY <1>7, <2>1, <2>2, <3>2
  <2>5. Carries(y, r)'
    BY <2>2, <2>3, <2>4 DEF Carries, Bars
  <2>6. QED
    BY <2>5
<1>11. CASE ReadMoved(y)
  <2>1. /\ pc[y] = "readMoved" /\ pc[y] \in Claiming /\ UNCHANGED <<lock, moved, seen>>
        /\ pc'[y] = IF Content(moved[y]) = seen[y] THEN "recreate" ELSE "recreateRaced"
    BY <1>1, <1>11 DEF ReadMoved, Goto, Claiming, Recovering
  <2>2. CASE Bars(lock, r)
    BY <2>1, <2>2
  <2>3. CASE Carries(y, r)
    <3>1. Content(moved[y]) = moved[y] /\ moved[y] # seen[y]
      BY <2>1, <2>3 DEF Carries, Bars, Content
    <3>2. Carries(y, r)'
      BY <2>1, <2>3, <3>1 DEF Carries, Bars
    <3>3. QED
      BY <3>2
  <2>4. QED
    BY <1>7, <2>1, <2>2, <2>3
<1>12. CASE Recreate(y)
  <2>1. pc[y] \in {"recreate", "recreateRaced"} /\ pc[y] \in Claiming
    BY <1>12 DEF Recreate, Goto, Claiming, Recovering
  <2>2. CASE Bars(lock, r)
    BY <1>12, <2>2 DEF Recreate, Bars
  <2>3. CASE Carries(y, r)
    <3>1. pc[y] = "recreateRaced" /\ lock = None
      BY <2>1, <2>3 DEF Carries
    <3>2. pc'[y] = "refillRaced" /\ moved' = moved
      BY <1>1, <1>12, <3>1 DEF Recreate, Goto
    <3>3. Carries(y, r)'
      BY <2>3, <3>1, <3>2 DEF Carries, Bars
    <3>4. QED
      BY <3>3
  <2>4. QED
    BY <1>7, <2>1, <2>2, <2>3
<1>13. CASE Refill(y)
  <2>1. /\ pc[y] \in {"refill", "refillRaced"} /\ pc[y] \in Claiming
        /\ lock' = Filled(y, lock)
    BY <1>13 DEF Refill, Goto, Claiming, Recovering
  <2>2. CASE Bars(lock, r)
    BY <1>7, <2>1, <2>2 DEF Bars
  <2>3. CASE Carries(y, r)
    <3>1. pc[y] = "refillRaced"
      BY <2>1, <2>3 DEF Carries
    <3>2. pc'[y] = "restore" /\ moved'[y] = Filled(y, moved[y])
      BY <1>1, <1>13, <3>1 DEF Refill, Goto
    <3>3. Filled(y, moved[y]) = moved[y]
      BY <1>7, <2>1, <2>3 DEF Carries
    <3>4. Carries(y, r)'
      BY <2>3, <3>1, <3>2, <3>3 DEF Carries, Bars
    <3>5. QED
      BY <3>4
  <2>4. QED
    BY <1>7, <2>1, <2>2, <2>3
<1>14. CASE Restore(y)
  <2>1. pc[y] = "restore" /\ pc[y] \in Claiming /\ lock' = moved[y] /\ moved[y] # None
    BY <1>14 DEF Restore, Goto, Claiming, Recovering, FilesInv, JudgedInv
  <2>2. QED
    BY <1>7, <2>1
<1>15. CASE ReadPid(y) \/ CheckBefore(y) \/ RenamePid(y) \/ CheckAfter(y) \/ Unlock(y)
  <2>1. /\ pc[y] \in {"readPid", "checkBefore", "renamePid", "checkAfter", "unlock"}
        /\ lock' = lock
    BY <1>15 DEF ReadPid, CheckBefore, RenamePid, CheckAfter, Unlock, Decide, Goto
  <2>2. Bars(lock, r)
    BY <1>7, <2>1 DEF Carries, Claiming
  <2>3. QED
    BY <2>1, <2>2
<1>16. CASE RemoveLock(y)
  BY <1>3, <1>16 DEF RemoveLock, Acts, Goto
<1>17. CASE TryAgain(y)
  <2>1. pc[y] = "wait" /\ pc[y] \in Claiming /\ lock' \in {lock, Outdated(y, lock)}
    BY <1>17 DEF TryAgain, Goto, Claiming
  <2>2. Bars(lock, r)
    BY <1>7, <2>1 DEF Carries
  <2>3. QED
    BY <1>7, <2>1, <2>2 DEF Bars
<1>18. QED
  BY <1>5, <1>6, <1>8, <1>9, <1>10, <1>11, <1>12, <1>13, <1>14, <1>15, <1>16, <1>17 DEF Step

\* Nobody else finds its own lock while one acts.
LEMMA NextAct ==
  ASSUME IInv, FilesInv, ActInv, AtMostTwo, [Next]_vars
  PROVE  ActInv'
<1>1. CASE UNCHANGED vars
  BY <1>1 DEF vars, ActInv, Acts, Bars, Carries
<1>2. ASSUME NEW y \in Proc, Start(y) \/ Step(y) \/ Stop(y) \/ Crash(y) PROVE ActInv'
  <2>1. pc \in [Proc -> Claiming \cup {"idle", "owner", "recheckPid", "removePid",
                                  "exited", "gaveUp"}]
    BY DEF IInv, TypeOK
  <2>2. \A x \in Proc \ {y} : pc'[x] = pc[x]
    BY <1>2, <2>1 DEF Step, Start, CreateLock, FillLock, ReadLock, RenameLock, ReadMoved, Recreate,
       Refill, Restore, ReadPid, CheckBefore, RenamePid, CheckAfter, Unlock, RemoveLock,
       TryAgain, Stop, RecheckPid, RemovePid, Crash, Decide, Goto
  <2>3. Acts(y)' => Current(y) /\ lock' = lock /\ pc[y] \in {"checkBefore", "unlock"}
    <3>1. AfterAttempt(y) \in {"owner", "exited", "wait"} \/ pc[y] \notin {"unlock", "remove"}
      BY DEF IInv, OutcomeInv, TypeOK, AfterAttempt
    <3>2. QED
      BY <1>2, <2>1, <3>1 DEF Step, Start, CreateLock, FillLock, ReadLock, RenameLock, ReadMoved,
         Recreate, Refill, Restore, ReadPid, CheckBefore, RenamePid, CheckAfter, Unlock,
         RemoveLock, TryAgain, Stop, RecheckPid, RemovePid, Crash, Decide, Goto, Acts
  <2>4. ASSUME Acts(y)' PROVE \A r \in Proc \ {y} : ~Acts(r)
    <3> SUFFICES ASSUME NEW r \in Proc \ {y}, Acts(r) PROVE FALSE
      OBVIOUS
    <3>1. pc[y] \in Claiming /\ moved[y] = None
      BY <2>3, <2>4 DEF IInv, TypeOK, Claiming, Recovering
    <3>2. \A x \in Proc \ {r, y} : moved[x] = None
      BY <3>1, MovedBars DEF Present
    <3>3. Bars(lock, r)
      BY <3>1, <3>2 DEF ActInv, Carries
    <3>4. lock = Mine(y)
      BY <2>3, <2>4 DEF Current, Mine
    <3>5. QED
      BY <3>3, <3>4 DEF Bars
  <2>5. ASSUME Acts(y)'
        PROVE  Bars(lock', y) /\ \A q \in Proc \ {y} : ~Acts(q)'
    <3>1. lock' = Mine(y)
      BY <2>3, <2>5 DEF Current, Mine
    <3>2. Bars(lock', y)
      <4>1. Mine(y) \in File /\ Mine(y).full /\ Mine(y).by = y
        BY DEF Mine, File
      <4>2. \A q \in Proc \ {y} : Mine(q).by = q
        BY DEF Mine
      <4>3. \A q \in Proc \ {y} : Mine(y) # Mine(q)
        BY <4>1, <4>2
      <4>4. QED
        BY <3>1, <4>1, <4>3, FileAssumption DEF Bars
    <3>3. QED
      BY <2>2, <2>4, <2>5, <3>2 DEF Acts
  <2>6. ASSUME NEW r \in Proc \ {y}, Acts(r)'
        PROVE  /\ Bars(lock', r) \/ \E x \in Proc \ {r} : Carries(x, r)'
               /\ \A q \in Proc \ {r} : ~Acts(q)'
    <3>1. Acts(r)
      BY <2>2, <2>6 DEF Acts
    <3>2. ~Acts(y)'
      BY <2>4, <3>1
    <3>3. \A q \in Proc \ {r} : ~Acts(q)'
      BY <2>2, <3>1, <3>2 DEF ActInv, Acts
    <3>4. QED
      BY <1>2, <3>1, <3>3, OthersKeep
  <2>7. QED
    BY <2>5, <2>6 DEF ActInv, Bars
<1>3. QED
  BY <1>1, <1>2 DEF Next

-----------------------------------------------------------------------------
(* The owner.                                                              *)

\* It has the session, and may not have been told yet.
Serves(p) ==
    \/ pc[p] \in {"owner", "recheckPid", "removePid"}
    \/ pc[p] \in {"unlock", "remove"} /\ outcome[p] = "won"

\* The pid file names who has the session, and who has just written it.
NamedInv == \A p \in Proc : Serves(p) \/ pc[p] = "checkAfter" => pidFile = p

\* As long as who is named there lives, nobody else gets to write it: a process that
\* looked before has lost its lock for good.
LateInv ==
    OwnerLives =>
        \A q \in Proc \ {pidFile} :
            /\ pc[q] # "renamePid"
            /\ pc[q] = "checkBefore" => /\ lock # Mine(q)
                                        /\ \A x \in Proc : moved[x] # Mine(q)

ClaimInv == ActInv /\ NamedInv /\ LateInv

\* The pid file is written, left alone, or removed by the process that it names.
LEMMA NextNamed ==
  ASSUME IInv, FilesInv, ClaimInv, [Next]_vars
  PROVE  NamedInv'
<1> USE DEF NamedInv, Serves
<1>1. CASE UNCHANGED vars
  BY <1>1 DEF vars, ClaimInv
<1>2. ASSUME NEW y \in Proc, Start(y) \/ Step(y) \/ Stop(y) \/ Crash(y) PROVE NamedInv'
  <2>1. /\ pc \in [Proc -> Claiming \cup {"idle", "owner", "recheckPid", "removePid",
                                  "exited", "gaveUp"}]
        /\ outcome \in [Proc -> {"none", "won", "lost", "retry"}]
        /\ pidFile \in Proc \cup {None} /\ None \notin Proc
    BY ClaimAssumption DEF IInv, TypeOK
  <2>2. \A p \in Proc : Serves(p) \/ pc[p] = "checkAfter" => pidFile = p /\ Alive(p)
    BY DEF ClaimInv, Alive
  <2>3. CASE RenamePid(y)
    <3>1. ASSUME NEW p \in Proc \ {y}, Serves(p) \/ pc[p] = "checkAfter" PROVE FALSE
      <4>1. pidFile = p /\ Alive(p)
        BY <2>2, <3>1
      <4>2. OwnerLives /\ y # pidFile
        BY <2>1, <4>1 DEF OwnerLives
      <4>3. QED
        BY <2>3, <4>2 DEF ClaimInv, LateInv, RenamePid, Goto
    <3>2. QED
      BY <2>1, <2>3, <3>1 DEF RenamePid, Goto
  <2>4. CASE RemovePid(y)
    <3>1. \A p \in Proc \ {y} : ~Serves(p) /\ pc[p] # "checkAfter"
      BY <2>2, <2>4 DEF RemovePid, Goto
    <3>2. QED
      BY <2>1, <2>4, <3>1 DEF RemovePid, Goto
  <2>5. CASE ReadPid(y) \/ CheckAfter(y)
    BY <2>1, <2>2, <2>5 DEF ReadPid, CheckAfter, Decide
  <2>6. CASE Unlock(y) \/ RemoveLock(y)
    <3>1. AfterAttempt(y) \in {"owner", "exited", "wait"}
          /\ (AfterAttempt(y) = "owner" => outcome[y] = "won")
      BY <2>1, <2>6 DEF IInv, OutcomeInv, AfterAttempt, Unlock, RemoveLock, Goto
    <3>2. QED
      BY <2>1, <2>2, <2>6, <3>1 DEF Unlock, RemoveLock, Goto
  <2>7. CASE Stop(y) \/ RecheckPid(y) \/ Crash(y)
    BY <2>1, <2>2, <2>7 DEF Stop, RecheckPid, Crash, Goto
  <2>8. CASE \/ Start(y) \/ CreateLock(y) \/ FillLock(y) \/ ReadLock(y) \/ RenameLock(y)
             \/ ReadMoved(y) \/ Recreate(y) \/ Refill(y) \/ Restore(y) \/ CheckBefore(y)
             \/ TryAgain(y)
    BY <2>1, <2>2, <2>8 DEF Start, CreateLock, FillLock, ReadLock, RenameLock, ReadMoved, Recreate,
       Refill, Restore, CheckBefore, TryAgain, Goto, Decide
  <2>9. QED
    BY <1>2, <2>3, <2>4, <2>5, <2>6, <2>7, <2>8 DEF Step
<1>3. QED
  BY <1>1, <1>2 DEF Next

\* What follows an attempt.
LEMMA AfterAttemptFacts ==
  ASSUME IInv, NEW p \in Proc, pc[p] \in {"unlock", "remove"}
  PROVE  /\ AfterAttempt(p) \in {"owner", "exited", "wait"}
         /\ AfterAttempt(p) = "owner" => outcome[p] = "won"
  BY DEF IInv, TypeOK, OutcomeInv, AfterAttempt

\* A record becomes a process's own only by its own hand.
LEMMA OthersWrite ==
  ASSUME IInv, NEW q \in Proc, NEW y \in Proc \ {q},
         Start(y) \/ Step(y) \/ Stop(y) \/ Crash(y),
         lock # Mine(q), \A x \in Proc : moved[x] # Mine(q)
  PROVE  lock' # Mine(q) /\ \A x \in Proc : moved'[x] # Mine(q)
<1>1. /\ lock \in File \cup {None} /\ moved \in [Proc -> File \cup {None}]
      /\ Mine(q) # None /\ NewFile(y) # Mine(q)
  <2>1. Mine(q) \in File /\ Mine(q).by = q /\ NewFile(y).by = y
    BY DEF Mine, NewFile, File
  <2>2. lock \in File \cup {None} /\ moved \in [Proc -> File \cup {None}]
    BY DEF IInv, TypeOK
  <2>3. QED
    BY <2>1, <2>2, FileAssumption
<1>2. ASSUME NEW f \in File \cup {None}, f # Mine(q)
      PROVE  Filled(y, f) # Mine(q) /\ Outdated(y, f) # Mine(q)
  <2>1. Mine(q).by = q
    BY DEF Mine
  <2>2. CASE f # None /\ f.by = y
    BY <1>1, <2>1, <2>2, FilledFacts, OutdatedFacts
  <2>3. CASE ~(f # None /\ f.by = y)
    BY <1>2, <2>3 DEF Filled, Outdated
  <2>4. QED
    BY <2>2, <2>3
<1>3. CASE FillLock(y) \/ TryAgain(y)
  BY <1>1, <1>2, <1>3 DEF FillLock, TryAgain
<1>4. CASE Refill(y)
  <2> DEFINE filled == [x \in Proc |-> Filled(y, moved[x])]
  <2>1. \A x \in Proc : filled[x] # Mine(q)
    BY <1>1, <1>2
  <2>2. DOMAIN filled = Proc
    OBVIOUS
  <2>3. lock' = Filled(y, lock) /\ moved' \in {filled, [filled EXCEPT ![y] = None]}
    BY <1>4 DEF Refill
  <2> HIDE DEF filled
  <2>4. QED
    BY <1>1, <1>2, <2>1, <2>2, <2>3
<1>5. CASE \/ Start(y) \/ CreateLock(y) \/ ReadLock(y) \/ RenameLock(y) \/ ReadMoved(y)
           \/ Recreate(y) \/ Restore(y)
  BY <1>1, <1>5 DEF Start, CreateLock, ReadLock, RenameLock, ReadMoved, Recreate, Restore
<1>6. CASE \/ ReadPid(y) \/ CheckBefore(y) \/ RenamePid(y) \/ CheckAfter(y) \/ Unlock(y)
           \/ RemoveLock(y) \/ RecheckPid(y) \/ RemovePid(y) \/ Stop(y) \/ Crash(y)
  BY <1>1, <1>6 DEF ReadPid, CheckBefore, RenamePid, CheckAfter, Unlock, RemoveLock, RecheckPid,
     RemovePid, Stop, Crash, Decide
<1>7. QED
  BY <1>3, <1>4, <1>5, <1>6 DEF Step

\* Who finds the pid file with another's name in it while that one lives gets no further.
LEMMA NextLate ==
  ASSUME IInv, FilesInv, ClaimInv, AtMostTwo, [Next]_vars
  PROVE  LateInv'
<1>1. CASE UNCHANGED vars
  BY <1>1 DEF vars, ClaimInv, LateInv, OwnerLives, Alive
<1>2. ASSUME NEW y \in Proc, Start(y) \/ Step(y) \/ Stop(y) \/ Crash(y) PROVE LateInv'
  <2>1. /\ pc \in [Proc -> Claiming \cup {"idle", "owner", "recheckPid", "removePid",
                                  "exited", "gaveUp"}]
        /\ pidFile \in Proc \cup {None} /\ None \notin Proc
        /\ lock \in File \cup {None} /\ moved \in [Proc -> File \cup {None}] /\ None \notin File
    BY ClaimAssumption, FileAssumption DEF IInv, TypeOK
  <2>2. \A x \in Proc \ {y} : pc'[x] = pc[x]
    BY <1>2, <2>1 DEF Step, Start, CreateLock, FillLock, ReadLock, RenameLock, ReadMoved, Recreate,
       Refill, Restore, ReadPid, CheckBefore, RenamePid, CheckAfter, Unlock, RemoveLock,
       TryAgain, Stop, RecheckPid, RemovePid, Crash, Decide, Goto
  <2>3. CASE RenamePid(y)
    <3>1. /\ Acts(y) /\ pidFile' = y /\ UNCHANGED <<lock, moved>>
      BY <2>3 DEF RenamePid, Goto, Acts
    <3>2. ASSUME NEW q \in Proc \ {y}
          PROVE  /\ pc'[q] # "renamePid"
                 /\ pc'[q] = "checkBefore" => /\ lock' # Mine(q)
                                              /\ \A x \in Proc : moved'[x] # Mine(q)
      <4>1. pc'[q] = pc[q] /\ pc[q] # "renamePid"
        BY <2>2, <3>1 DEF ClaimInv, ActInv, Acts
      <4>2. ASSUME pc[q] = "checkBefore"
            PROVE  lock # Mine(q) /\ \A x \in Proc : moved[x] = None
        <5>1. pc[q] \in Claiming /\ moved[q] = None /\ moved[y] = None
          BY <3>1, <4>2 DEF IInv, TypeOK, Claiming, Recovering, Acts
        <5>2. \A x \in Proc : moved[x] = None
          BY <3>1, <5>1, MovedBars DEF Present
        <5>3. Bars(lock, y)
          BY <3>1, <5>2 DEF ClaimInv, ActInv, Carries
        <5>4. QED
          BY <5>2, <5>3 DEF Bars
      <4>3. Mine(q) # None
        <5>1. Mine(q) \in File
          BY DEF Mine, File
        <5>2. QED
          BY <2>1, <5>1
      <4>4. QED
        BY <3>1, <4>1, <4>2, <4>3
    <3>3. QED
      BY <3>1, <3>2 DEF LateInv
  <2>4. CASE RemovePid(y)
    BY <2>4 DEF RemovePid, LateInv, OwnerLives
  <2>5. ASSUME pidFile' = pidFile, OwnerLives'
        PROVE  OwnerLives /\ LateInv'
    <3>1. OwnerLives
      BY <1>2, <2>1, <2>2, <2>5 DEF OwnerLives, Alive, FilesInv, Start, Step, CreateLock, FillLock,
         ReadLock, RenameLock, ReadMoved, Recreate, Refill, Restore, ReadPid, CheckBefore,
         RenamePid, CheckAfter, Unlock, RemoveLock, TryAgain, Stop, RecheckPid, RemovePid,
         Crash, Decide, Goto
    <3>2. ASSUME NEW q \in Proc \ {pidFile}
          PROVE  /\ pc'[q] # "renamePid"
                 /\ pc'[q] = "checkBefore" => /\ lock' # Mine(q)
                                              /\ \A x \in Proc : moved'[x] # Mine(q)
      <4>1. pc[q] # "renamePid" /\ (pc[q] = "checkBefore" => ~Current(q))
        BY <3>1 DEF ClaimInv, LateInv, Current, Mine
      <4>2. CASE q = y
        <5>1. pc'[y] # "renamePid"
          BY <1>2, <2>1, <4>1, <4>2, AfterAttemptFacts DEF Step, Start, CreateLock, FillLock,
             ReadLock, RenameLock, ReadMoved, Recreate, Refill, Restore, ReadPid, CheckBefore,
             RenamePid, CheckAfter, Unlock, RemoveLock, TryAgain, Stop, RecheckPid,
             RemovePid, Crash, Decide, Goto
        <5>2. pc'[y] # "checkBefore"
          BY <1>2, <2>1, <3>1, <3>2, <4>2, AfterAttemptFacts DEF Step, Start, CreateLock, FillLock,
             ReadLock, RenameLock, ReadMoved, Recreate, Refill, Restore, ReadPid, CheckBefore,
             RenamePid, CheckAfter, Unlock, RemoveLock, TryAgain, Stop, RecheckPid,
             RemovePid, Crash, Decide, Goto
        <5>3. QED
          BY <4>2, <5>1, <5>2
      <4>3. CASE q # y
        <5>1. pc'[q] = pc[q]
          BY <2>2, <4>3
        <5>2. ASSUME pc[q] = "checkBefore"
              PROVE  lock' # Mine(q) /\ \A x \in Proc : moved'[x] # Mine(q)
          <6>1. lock # Mine(q) /\ \A x \in Proc : moved[x] # Mine(q)
            BY <3>1, <5>2 DEF ClaimInv, LateInv
          <6>2. QED
            BY <1>2, <4>3, <6>1, OthersWrite
        <5>3. QED
          BY <4>1, <5>1, <5>2
      <4>4. QED
        BY <4>2, <4>3
    <3>3. QED
      BY <2>5, <3>1, <3>2 DEF LateInv
  <2>6. pidFile' = pidFile \/ RenamePid(y) \/ RemovePid(y)
    BY <1>2 DEF Step, Start, CreateLock, FillLock, ReadLock, RenameLock, ReadMoved, Recreate,
       Refill, Restore, ReadPid, CheckBefore, CheckAfter, Unlock, RemoveLock, TryAgain, Stop,
       RecheckPid, Crash, Decide
  <2>7. QED
    BY <2>3, <2>4, <2>5, <2>6 DEF LateInv
<1>3. QED
  BY <1>1, <1>2 DEF Next

LEMMA InitClaim == Init => ClaimInv
  BY ClaimAssumption DEF Init, ClaimInv, ActInv, NamedInv, LateInv, Acts, Serves, OwnerLives

\* As long as at most two processes are at it at the same time, however many daemons start
\* one after another, give up, are killed and leave stale locks: the running daemon is the
\* one that the pid file names (replacePidClaim in session-daemon.ts, which looks at its
\* lock before and after it renames the pid file).
THEOREM OwnerIsNamed == Spec /\ []AtMostTwo => []OwnerNamed
<1>1. FilesInv /\ IInv /\ ClaimInv /\ AtMostTwo /\ [Next]_vars => ClaimInv'
  BY NextAct, NextNamed, NextLate DEF ClaimInv
<1>2. IInv /\ FilesInv /\ [Next]_vars => FilesInv'
  BY NextFiles
<1>3. ClaimInv => OwnerNamed
  BY DEF ClaimInv, NamedInv, Serves, OwnerNamed
<1>4. QED
  BY <1>1, <1>2, <1>3, InitIInv, NextIInv, InitFiles, InitClaim, PTL DEF Spec

\* Under the same hypothesis no two daemons run for one session ("retry instead of
\* reporting a second win", session-daemon.ts).
THEOREM SingleOwner == Spec /\ []AtMostTwo => []OneOwner
<1>1. OwnerNamed => OneOwner
  BY DEF OwnerNamed, OneOwner
<1>2. QED
  BY <1>1, OwnerIsNamed, PTL
=============================================================================
