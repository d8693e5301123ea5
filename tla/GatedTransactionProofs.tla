----------------------- MODULE GatedTransactionProofs -----------------------
(***************************************************************************)
(* What holds of GatedTransaction for all transactions, files, contents    *)
(* and proposals, and for any number of unlocked writes and killed holders.*)
(***************************************************************************)
EXTENDS GatedTransaction, TLAPS

\* Up to the lock and its body a transaction has put nothing in place.
UnlockedInv ==
    \A t \in Txn : pc[t] \in {"capture", "stage", "lock", "body"} =>
        /\ checked[t] = {} /\ written[t] = {} /\ current[t] = {} /\ report[t] = {}
        /\ pc[t] \in {"lock", "body"} => todo[t] = Staged(t)

\* A target that is compared stays what was captured, until somebody writes it.
CheckInv ==
    \A t \in Txn : pc[t] = "check" =>
        /\ written[t] = {} /\ current[t] = {} /\ report[t] = {}
        /\ todo[t] = Staged(t)
        /\ checked[t] \subseteq Target[t]
        /\ \A f \in checked[t] \ touched : disk[f] = base[t][f]

\* What stands at the targets that nobody else has written since the lock was taken.
OnDisk(t) ==
    \A f \in Target[t] \ touched :
        disk[f] = IF f \in written[t] \cup report[t] THEN New[t][f] ELSE base[t][f]

ApplyInv ==
    \A t \in Txn : pc[t] = "apply" =>
        /\ current[t] = {} /\ report[t] = {}
        /\ checked[t] = Target[t]
        /\ todo[t] \cap written[t] = {}
        /\ todo[t] \cup written[t] = Staged(t)
        /\ OnDisk(t)

RollbackInv ==
    \A t \in Txn : pc[t] = "rollback" =>
        /\ checked[t] = Target[t]
        /\ written[t] \subseteq Target[t] /\ report[t] \subseteq Target[t]
        /\ written[t] \cap report[t] = {}
        /\ current[t] \subseteq written[t]
        /\ OnDisk(t)

ReportInv ==
    /\ FailureReported
    /\ \A t \in Txn : pc[t] \in {"releaseDone", "done"} => report[t] = {}

IInv == TypeOK /\ HolderNamed /\ UnlockedInv /\ CheckInv /\ ApplyInv /\ RollbackInv
          /\ ReportInv

-----------------------------------------------------------------------------
(* The invariant is inductive.                                             *)

\* Before the first capture nothing is held, staged or written.
LEMMA InitIInv == Init => IInv
  BY ConfigAssumption
  DEF Init, IInv, TypeOK, HolderNamed, UnlockedInv, CheckInv, ApplyInv, RollbackInv,
      ReportInv, FailureReported, States, Holding

\* Every step of a transaction, every unlocked write and every kill keep it.
LEMMA NextIInv ==
  ASSUME IInv, [Next]_vars
  PROVE  IInv'
<1> USE ConfigAssumption
    DEF IInv, TypeOK, HolderNamed, States, Ended, Holding, At, Goto, World
<1>1. ASSUME NEW t \in Txn, NEW f \in File, CaptureFile(t, f) PROVE IInv'
  <2>1. TypeOK'
    BY <1>1 DEF CaptureFile
  <2>2. HolderNamed'
    BY <1>1 DEF CaptureFile
  <2>3. UnlockedInv'
    BY <1>1 DEF CaptureFile, UnlockedInv, Staged
  <2>4. CheckInv'
    BY <1>1 DEF CaptureFile, UnlockedInv, CheckInv, Staged
  <2>5. ApplyInv'
    BY <1>1 DEF CaptureFile, CheckInv, ApplyInv, OnDisk, Staged
  <2>6. RollbackInv'
    BY <1>1 DEF CaptureFile, ApplyInv, RollbackInv, OnDisk, Staged
  <2>7. ReportInv'
    BY <1>1 DEF CaptureFile, UnlockedInv, CheckInv, ApplyInv, RollbackInv,
       ReportInv, FailureReported, OnDisk
  <2>8. QED
    BY <2>1, <2>2, <2>3, <2>4, <2>5, <2>6, <2>7
<1>2. ASSUME NEW t \in Txn, EndCapture(t) PROVE IInv'
  <2>1. TypeOK'
    BY <1>2 DEF EndCapture
  <2>2. HolderNamed'
    BY <1>2 DEF EndCapture
  <2>3. UnlockedInv'
    BY <1>2 DEF EndCapture, UnlockedInv, Staged
  <2>4. CheckInv'
    BY <1>2 DEF EndCapture, UnlockedInv, CheckInv, Staged
  <2>5. ApplyInv'
    BY <1>2 DEF EndCapture, CheckInv, ApplyInv, OnDisk, Staged
  <2>6. RollbackInv'
    BY <1>2 DEF EndCapture, ApplyInv, RollbackInv, OnDisk, Staged
  <2>7. ReportInv'
    BY <1>2 DEF EndCapture, UnlockedInv, CheckInv, ApplyInv, RollbackInv, ReportInv,
       FailureReported, OnDisk
  <2>8. QED
    BY <2>1, <2>2, <2>3, <2>4, <2>5, <2>6, <2>7
<1>3. ASSUME NEW t \in Txn, StageWrites(t) PROVE IInv'
  <2>1. TypeOK'
    <3>1. Staged(t) \in SUBSET File
      BY DEF Staged
    <3>2. todo' \in [Txn -> SUBSET File]
      BY <1>3, <3>1 DEF StageWrites
    <3>3. QED
      BY <1>3, <3>2 DEF StageWrites
  <2>2. HolderNamed'
    BY <1>3 DEF StageWrites
  <2>3. UnlockedInv'
    BY <1>3 DEF StageWrites, UnlockedInv, Staged
  <2>4. CheckInv'
    BY <1>3 DEF StageWrites, UnlockedInv, CheckInv, Staged
  <2>5. ApplyInv'
    BY <1>3 DEF StageWrites, CheckInv, ApplyInv, OnDisk, Staged
  <2>6. RollbackInv'
    BY <1>3 DEF StageWrites, ApplyInv, RollbackInv, OnDisk, Staged
  <2>7. ReportInv'
    BY <1>3 DEF StageWrites, UnlockedInv, CheckInv, ApplyInv, RollbackInv,
       ReportInv, FailureReported, OnDisk
  <2>8. QED
    BY <2>1, <2>2, <2>3, <2>4, <2>5, <2>6, <2>7
<1>4. ASSUME NEW t \in Txn, GiveUp(t) PROVE IInv'
  <2>1. TypeOK'
    BY <1>4 DEF GiveUp
  <2>2. HolderNamed'
    BY <1>4 DEF GiveUp
  <2>3. UnlockedInv'
    BY <1>4 DEF GiveUp, UnlockedInv, Staged
  <2>4. CheckInv'
    BY <1>4 DEF GiveUp, UnlockedInv, CheckInv, Staged
  <2>5. ApplyInv'
    BY <1>4 DEF GiveUp, CheckInv, ApplyInv, OnDisk, Staged
  <2>6. RollbackInv'
    BY <1>4 DEF GiveUp, ApplyInv, RollbackInv, OnDisk, Staged
  <2>7. ReportInv'
    BY <1>4 DEF GiveUp, UnlockedInv, CheckInv, ApplyInv, RollbackInv, ReportInv,
       FailureReported, OnDisk
  <2>8. QED
    BY <2>1, <2>2, <2>3, <2>4, <2>5, <2>6, <2>7
<1>5. ASSUME NEW t \in Txn, AcquireLock(t) PROVE IInv'
  <2>1. TypeOK'
    BY <1>5 DEF AcquireLock
  <2>2. HolderNamed'
    BY <1>5 DEF AcquireLock
  <2>3. UnlockedInv'
    BY <1>5 DEF AcquireLock, UnlockedInv, Staged
  <2>4. /\ UNCHANGED <<disk, base, checked, todo, written, current, report>>
        /\ lock = None \/ touched' = touched
        /\ \A u \in Txn \ {t} : pc'[u] = pc[u]
        /\ pc'[t] \in {"body", "failed"}
    BY <1>5 DEF AcquireLock
  <2>5. lock = None => \A u \in Txn : pc[u] \notin {"check", "apply", "rollback", "releaseFailed"}
    OBVIOUS
  <2>6. CheckInv'
    BY <2>4, <2>5 DEF CheckInv, Staged
  <2>7. ApplyInv'
    BY <2>4, <2>5 DEF ApplyInv, OnDisk, Staged
  <2>8. RollbackInv'
    BY <2>4, <2>5 DEF RollbackInv, OnDisk, Staged
  <2>9. ReportInv'
    <3>1. \A u \in Txn :
            /\ (pc'[u] = "releaseFailed") => (pc[u] = "releaseFailed" /\ UNCHANGED touched)
            /\ (pc'[u] \in {"releaseDone", "done"}) => (pc'[u] = pc[u])
      BY <2>4, <2>5
    <3>2. FailureReported'
      BY <2>4, <3>1 DEF ReportInv, FailureReported
    <3>3. QED
      BY <2>4, <3>1, <3>2 DEF ReportInv
  <2>10. QED
    BY <2>1, <2>2, <2>3, <2>6, <2>7, <2>8, <2>9
<1>6. ASSUME NEW t \in Txn, NEW f \in File, CheckFile(t, f) PROVE IInv'
  <2>1. TypeOK'
    <3>1. checked' \in [Txn -> SUBSET File]
      <4>1. CASE Drifted(t, f)
        BY <1>6, <4>1 DEF CheckFile
      <4>2. CASE ~Drifted(t, f)
        <5>1. checked' = [checked EXCEPT ![t] = checked[t] \cup {f}]
          BY <1>6, <4>2 DEF CheckFile
        <5>2. checked[t] \cup {f} \in SUBSET File
          OBVIOUS
        <5>3. QED
          BY <5>1, <5>2
      <4>3. QED
        BY <4>1, <4>2
    <3>2. pc' \in [Txn -> States]
      <4>1. pc' = pc \/ pc' = [pc EXCEPT ![t] = "releaseFailed"]
        BY <1>6 DEF CheckFile
      <4>2. QED
        BY <4>1
    <3>3. QED
      BY <1>6, <3>1, <3>2 DEF CheckFile
  <2>2. HolderNamed'
    BY <1>6 DEF CheckFile
  <2>3. UnlockedInv'
    <3>1. /\ \A u \in Txn : pc'[u] \in {"capture", "stage", "lock", "body"} =>
                              u # t /\ pc'[u] = pc[u]
          /\ \A u \in Txn \ {t} : checked'[u] = checked[u]
          /\ UNCHANGED <<base, todo, written, current, report>>
      BY <1>6 DEF CheckFile
    <3>2. QED
      BY <3>1 DEF UnlockedInv, Staged
  <2>4. CheckInv'
    <3>1. CASE Drifted(t, f)
      <4>1. /\ pc' = [pc EXCEPT ![t] = "releaseFailed"]
            /\ UNCHANGED <<disk, base, checked, todo, written, current, report, touched>>
        BY <1>6, <3>1 DEF CheckFile
      <4>2. \A u \in Txn : pc'[u] = "check" => pc[u] = "check"
        BY <4>1
      <4>3. QED
        BY <4>1, <4>2 DEF CheckInv, Staged
    <3>2. CASE ~Drifted(t, f)
      <4>1. \A u \in Txn : pc'[u] = "check" => u = t
        BY <1>6, <3>2 DEF CheckFile
      <4>2. checked'[t] = checked[t] \cup {f}
        BY <1>6, <3>2 DEF CheckFile
      <4>3. \A g \in checked'[t] \ touched : disk[g] = base[t][g]
        BY <1>6, <3>2, <4>2 DEF CheckFile, CheckInv, Drifted
      <4>4. checked'[t] \subseteq Target[t]
        BY <1>6, <4>2 DEF CheckFile, CheckInv
      <4>5. /\ written'[t] = {} /\ current'[t] = {} /\ report'[t] = {}
            /\ todo'[t] = Staged(t)'
        BY <1>6 DEF CheckFile, CheckInv, Staged
      <4>6. UNCHANGED <<disk, base, touched>>
        BY <1>6 DEF CheckFile
      <4>7. QED
        BY <4>1, <4>3, <4>4, <4>5, <4>6 DEF CheckInv
    <3>3. QED
      BY <3>1, <3>2
  <2>5. ApplyInv'
    <3>1. \A u \in Txn : pc'[u] # "apply"
      BY <1>6 DEF CheckFile
    <3>2. QED
      BY <3>1 DEF ApplyInv
  <2>6. RollbackInv'
    <3>1. \A u \in Txn : pc'[u] # "rollback"
      BY <1>6 DEF CheckFile
    <3>2. QED
      BY <3>1 DEF RollbackInv
  <2>7. ReportInv'
    <3>1. CASE Drifted(t, f)
      <4>1. /\ pc' = [pc EXCEPT ![t] = "releaseFailed"]
            /\ UNCHANGED <<disk, base, checked, report, touched>>
        BY <1>6, <3>1 DEF CheckFile
      <4>2. \A u \in Txn : pc'[u] = "releaseFailed" => u = t
        BY <1>6, <4>1 DEF CheckFile
      <4>3. \A g \in checked[t] \ touched : disk[g] = base[t][g]
        BY <1>6 DEF CheckFile, CheckInv
      <4>4. FailureReported'
        BY <4>1, <4>2, <4>3 DEF FailureReported
      <4>5. QED
        BY <4>1, <4>4 DEF ReportInv
    <3>2. CASE ~Drifted(t, f)
      <4>1. \A u \in Txn : pc'[u] # "releaseFailed"
        BY <1>6, <3>2 DEF CheckFile
      <4>2. FailureReported'
        BY <4>1 DEF FailureReported
      <4>3. QED
        BY <1>6, <3>2, <4>2 DEF CheckFile, ReportInv
    <3>3. QED
      BY <3>1, <3>2
  <2>8. QED
    BY <2>1, <2>2, <2>3, <2>4, <2>5, <2>6, <2>7
<1>7. ASSUME NEW t \in Txn, EndCheck(t) PROVE IInv'
  <2>1. TypeOK'
    BY <1>7 DEF EndCheck
  <2>2. HolderNamed'
    BY <1>7 DEF EndCheck
  <2>3. UnlockedInv'
    BY <1>7 DEF EndCheck, UnlockedInv, Staged
  <2>4. CheckInv'
    BY <1>7 DEF EndCheck, UnlockedInv, CheckInv, Staged
  <2>5. ApplyInv'
    BY <1>7 DEF EndCheck, CheckInv, ApplyInv, OnDisk, Staged
  <2>6. RollbackInv'
    BY <1>7 DEF EndCheck, ApplyInv, RollbackInv, OnDisk, Staged
  <2>7. ReportInv'
    BY <1>7 DEF EndCheck, UnlockedInv, CheckInv, ApplyInv, RollbackInv, ReportInv,
       FailureReported, OnDisk
  <2>8. QED
    BY <2>1, <2>2, <2>3, <2>4, <2>5, <2>6, <2>7
<1>8. ASSUME NEW t \in Txn, NEW f \in File, Apply(t, f) PROVE IInv'
  <2>1. TypeOK'
    BY <1>8 DEF Apply
  <2>2. HolderNamed'
    BY <1>8 DEF Apply
  <2>3. UnlockedInv'
    BY <1>8 DEF Apply, UnlockedInv, Staged
  <2>4. CheckInv'
    BY <1>8 DEF Apply, UnlockedInv, CheckInv, Staged
  <2>5. ApplyInv'
    BY <1>8 DEF Apply, CheckInv, ApplyInv, OnDisk, Staged
  <2>6. RollbackInv'
    BY <1>8 DEF Apply, ApplyInv, RollbackInv, OnDisk, Staged
  <2>7. ReportInv'
    BY <1>8 DEF Apply, UnlockedInv, CheckInv, ApplyInv, RollbackInv, ReportInv,
       FailureReported, OnDisk
  <2>8. QED
    BY <2>1, <2>2, <2>3, <2>4, <2>5, <2>6, <2>7
<1>9. ASSUME NEW t \in Txn, EndApply(t) PROVE IInv'
  <2>1. TypeOK'
    BY <1>9 DEF EndApply
  <2>2. HolderNamed'
    BY <1>9 DEF EndApply
  <2>3. UnlockedInv'
    BY <1>9 DEF EndApply, UnlockedInv, Staged
  <2>4. CheckInv'
    BY <1>9 DEF EndApply, UnlockedInv, CheckInv, Staged
  <2>5. ApplyInv'
    BY <1>9 DEF EndApply, CheckInv, ApplyInv, OnDisk, Staged
  <2>6. RollbackInv'
    BY <1>9 DEF EndApply, ApplyInv, RollbackInv, OnDisk, Staged
  <2>7. ReportInv'
    BY <1>9 DEF EndApply, UnlockedInv, CheckInv, ApplyInv, RollbackInv, ReportInv,
       FailureReported, OnDisk
  <2>8. QED
    BY <2>1, <2>2, <2>3, <2>4, <2>5, <2>6, <2>7
<1>10. ASSUME NEW t \in Txn, ApplyFails(t) PROVE IInv'
  <2>1. TypeOK'
    BY <1>10 DEF ApplyFails
  <2>2. HolderNamed'
    BY <1>10 DEF ApplyFails
  <2>3. UnlockedInv'
    BY <1>10 DEF ApplyFails, UnlockedInv, Staged
  <2>4. CheckInv'
    BY <1>10 DEF ApplyFails, UnlockedInv, CheckInv, Staged
  <2>5. ApplyInv'
    BY <1>10 DEF ApplyFails, CheckInv, ApplyInv, OnDisk, Staged
  <2>6. RollbackInv'
    BY <1>10 DEF ApplyFails, ApplyInv, RollbackInv, OnDisk, Staged
  <2>7. ReportInv'
    BY <1>10 DEF ApplyFails, UnlockedInv, CheckInv, ApplyInv, RollbackInv,
       ReportInv, FailureReported, OnDisk
  <2>8. QED
    BY <2>1, <2>2, <2>3, <2>4, <2>5, <2>6, <2>7
<1>11. ASSUME NEW t \in Txn, NEW f \in File, RollbackCheck(t, f) PROVE IInv'
  <2>1. TypeOK'
    <3>1. \A g : written[t] \ {g} \in SUBSET File
      OBVIOUS
    <3>2. CASE disk[f] = New[t][f]
      <4>1. current' \in [Txn -> SUBSET File]
        <5>1. current' = [current EXCEPT ![t] = {f}]
          BY <1>11, <3>2 DEF RollbackCheck
        <5>2. QED
          BY <5>1
      <4>2. QED
        BY <1>11, <3>2, <4>1 DEF RollbackCheck
    <3>3. CASE disk[f] # New[t][f]
      <4>1. written' \in [Txn -> SUBSET File]
        BY <1>11, <3>1, <3>3 DEF RollbackCheck
      <4>2. report' \in [Txn -> SUBSET File]
        BY <1>11, <3>3 DEF RollbackCheck
      <4>3. QED
        BY <1>11, <3>3, <4>1, <4>2 DEF RollbackCheck
    <3>4. QED
      BY <3>2, <3>3
  <2>2. HolderNamed'
    BY <1>11 DEF RollbackCheck
  <2>3. UnlockedInv'
    <3>1. /\ UNCHANGED <<pc, base, checked, todo>> /\ pc[t] = "rollback"
          /\ \A u \in Txn \ {t} : /\ written'[u] = written[u] /\ current'[u] = current[u]
                                  /\ report'[u] = report[u]
      BY <1>11 DEF RollbackCheck
    <3>2. QED
      BY <3>1 DEF UnlockedInv, Staged
  <2>4. CheckInv'
    BY <1>11 DEF RollbackCheck, UnlockedInv, CheckInv, Staged
  <2>5. ApplyInv'
    BY <1>11 DEF RollbackCheck, CheckInv, ApplyInv, OnDisk, Staged
  <2>6. RollbackInv'
    BY <1>11 DEF RollbackCheck, ApplyInv, RollbackInv, OnDisk, Staged
  <2>7. ReportInv'
    BY <1>11 DEF RollbackCheck, UnlockedInv, CheckInv, ApplyInv, RollbackInv,
       ReportInv, FailureReported, OnDisk
  <2>8. QED
    BY <2>1, <2>2, <2>3, <2>4, <2>5, <2>6, <2>7
<1>12. ASSUME NEW t \in Txn, NEW f \in File, Restore(t, f) PROVE IInv'
  <2>1. TypeOK'
    BY <1>12 DEF Restore
  <2>2. HolderNamed'
    BY <1>12 DEF Restore
  <2>3. UnlockedInv'
    BY <1>12 DEF Restore, UnlockedInv, Staged
  <2>4. CheckInv'
    BY <1>12 DEF Restore, UnlockedInv, CheckInv, Staged
  <2>5. ApplyInv'
    BY <1>12 DEF Restore, CheckInv, ApplyInv, OnDisk, Staged
  <2>6. RollbackInv'
    BY <1>12 DEF Restore, ApplyInv, RollbackInv, OnDisk, Staged
  <2>7. ReportInv'
    BY <1>12 DEF Restore, UnlockedInv, CheckInv, ApplyInv, RollbackInv, ReportInv,
       FailureReported, OnDisk
  <2>8. QED
    BY <2>1, <2>2, <2>3, <2>4, <2>5, <2>6, <2>7
<1>13. ASSUME NEW t \in Txn, NEW f \in File, RestoreFails(t, f) PROVE IInv'
  <2>1. TypeOK'
    BY <1>13 DEF RestoreFails
  <2>2. HolderNamed'
    BY <1>13 DEF RestoreFails
  <2>3. UnlockedInv'
    BY <1>13 DEF RestoreFails, UnlockedInv, Staged
  <2>4. CheckInv'
    BY <1>13 DEF RestoreFails, UnlockedInv, CheckInv, Staged
  <2>5. ApplyInv'
    BY <1>13 DEF RestoreFails, CheckInv, ApplyInv, OnDisk, Staged
  <2>6. RollbackInv'
    BY <1>13 DEF RestoreFails, ApplyInv, RollbackInv, OnDisk, Staged
  <2>7. ReportInv'
    BY <1>13 DEF RestoreFails, UnlockedInv, CheckInv, ApplyInv, RollbackInv,
       ReportInv, FailureReported, OnDisk
  <2>8. QED
    BY <2>1, <2>2, <2>3, <2>4, <2>5, <2>6, <2>7
<1>14. ASSUME NEW t \in Txn, EndRollback(t) PROVE IInv'
  <2>1. TypeOK'
    BY <1>14 DEF EndRollback
  <2>2. HolderNamed'
    BY <1>14 DEF EndRollback
  <2>3. UnlockedInv'
    BY <1>14 DEF EndRollback, UnlockedInv, Staged
  <2>4. CheckInv'
    BY <1>14 DEF EndRollback, UnlockedInv, CheckInv, Staged
  <2>5. ApplyInv'
    BY <1>14 DEF EndRollback, CheckInv, ApplyInv, OnDisk, Staged
  <2>6. RollbackInv'
    BY <1>14 DEF EndRollback, ApplyInv, RollbackInv, OnDisk, Staged
  <2>7. ReportInv'
    BY <1>14 DEF EndRollback, UnlockedInv, CheckInv, ApplyInv, RollbackInv,
       ReportInv, FailureReported, OnDisk
  <2>8. QED
    BY <2>1, <2>2, <2>3, <2>4, <2>5, <2>6, <2>7
<1>15. ASSUME NEW t \in Txn, ReleaseLock(t) PROVE IInv'
  <2>1. TypeOK'
    BY <1>15 DEF ReleaseLock
  <2>2. HolderNamed'
    BY <1>15 DEF ReleaseLock
  <2>3. UnlockedInv'
    BY <1>15 DEF ReleaseLock, UnlockedInv, Staged
  <2>4. CheckInv'
    BY <1>15 DEF ReleaseLock, UnlockedInv, CheckInv, Staged
  <2>5. ApplyInv'
    BY <1>15 DEF ReleaseLock, CheckInv, ApplyInv, OnDisk, Staged
  <2>6. RollbackInv'
    BY <1>15 DEF ReleaseLock, ApplyInv, RollbackInv, OnDisk, Staged
  <2>7. ReportInv'
    BY <1>15 DEF ReleaseLock, UnlockedInv, CheckInv, ApplyInv, RollbackInv,
       ReportInv, FailureReported, OnDisk
  <2>8. QED
    BY <2>1, <2>2, <2>3, <2>4, <2>5, <2>6, <2>7
<1>16. ASSUME NEW f \in File, Edit(f) PROVE IInv'
  <2>1. TypeOK'
    BY <1>16 DEF Edit, own
  <2>2. HolderNamed'
    BY <1>16 DEF Edit, own
  <2>3. UnlockedInv'
    BY <1>16 DEF Edit, own, UnlockedInv, Staged
  <2>4. CheckInv'
    BY <1>16 DEF Edit, own, UnlockedInv, CheckInv, Staged
  <2>5. ApplyInv'
    BY <1>16 DEF Edit, own, CheckInv, ApplyInv, OnDisk, Staged
  <2>6. RollbackInv'
    BY <1>16 DEF Edit, own, ApplyInv, RollbackInv, OnDisk, Staged
  <2>7. ReportInv'
    BY <1>16 DEF Edit, own, UnlockedInv, CheckInv, ApplyInv, RollbackInv, ReportInv,
       FailureReported, OnDisk
  <2>8. QED
    BY <2>1, <2>2, <2>3, <2>4, <2>5, <2>6, <2>7
<1>17. ASSUME NEW t \in Txn, Kill(t) PROVE IInv'
  <2>1. TypeOK'
    BY <1>17 DEF Kill, own
  <2>2. HolderNamed'
    BY <1>17 DEF Kill, own
  <2>3. UnlockedInv'
    BY <1>17 DEF Kill, own, UnlockedInv, Staged
  <2>4. CheckInv'
    BY <1>17 DEF Kill, own, UnlockedInv, CheckInv, Staged
  <2>5. ApplyInv'
    BY <1>17 DEF Kill, own, CheckInv, ApplyInv, OnDisk, Staged
  <2>6. RollbackInv'
    BY <1>17 DEF Kill, own, ApplyInv, RollbackInv, OnDisk, Staged
  <2>7. ReportInv'
    BY <1>17 DEF Kill, own, UnlockedInv, CheckInv, ApplyInv, RollbackInv, ReportInv,
       FailureReported, OnDisk
  <2>8. QED
    BY <2>1, <2>2, <2>3, <2>4, <2>5, <2>6, <2>7
<1>18. ASSUME NEW t \in Txn, WriteBody(t) PROVE IInv'
  <2>1. TypeOK'
    BY <1>18 DEF WriteBody
  <2>2. HolderNamed'
    BY <1>18 DEF WriteBody
  <2>3. UnlockedInv'
    BY <1>18 DEF WriteBody, UnlockedInv, Staged
  <2>4. CheckInv'
    BY <1>18 DEF WriteBody, UnlockedInv, CheckInv, Staged
  <2>5. ApplyInv'
    BY <1>18 DEF WriteBody, CheckInv, ApplyInv, OnDisk, Staged
  <2>6. RollbackInv'
    BY <1>18 DEF WriteBody, ApplyInv, RollbackInv, OnDisk, Staged
  <2>7. ReportInv'
    BY <1>18 DEF WriteBody, UnlockedInv, CheckInv, ApplyInv, RollbackInv,
       ReportInv, FailureReported, OnDisk
  <2>8. QED
    BY <2>1, <2>2, <2>3, <2>4, <2>5, <2>6, <2>7
<1>19. ASSUME NEW t \in Txn, LockedFailure(t) PROVE IInv'
  <2>1. TypeOK'
    BY <1>19 DEF LockedFailure
  <2>2. HolderNamed'
    BY <1>19 DEF LockedFailure
  <2>3. UnlockedInv'
    BY <1>19 DEF LockedFailure, UnlockedInv, Staged
  <2>4. CheckInv'
    BY <1>19 DEF LockedFailure, UnlockedInv, CheckInv, Staged
  <2>5. ApplyInv'
    BY <1>19 DEF LockedFailure, CheckInv, ApplyInv, OnDisk, Staged
  <2>6. RollbackInv'
    BY <1>19 DEF LockedFailure, ApplyInv, RollbackInv, OnDisk, Staged
  <2>7. ReportInv'
    BY <1>19 DEF LockedFailure, UnlockedInv, CheckInv, ApplyInv, RollbackInv,
       ReportInv, FailureReported, OnDisk
  <2>8. QED
    BY <2>1, <2>2, <2>3, <2>4, <2>5, <2>6, <2>7
<1>20. ASSUME NEW t \in Txn, ReleaseFails(t) PROVE IInv'
  <2>1. TypeOK'
    BY <1>20 DEF ReleaseFails
  <2>2. HolderNamed'
    BY <1>20 DEF ReleaseFails
  <2>3. UnlockedInv'
    BY <1>20 DEF ReleaseFails, UnlockedInv, Staged
  <2>4. CheckInv'
    BY <1>20 DEF ReleaseFails, UnlockedInv, CheckInv, Staged
  <2>5. ApplyInv'
    BY <1>20 DEF ReleaseFails, CheckInv, ApplyInv, OnDisk, Staged
  <2>6. RollbackInv'
    BY <1>20 DEF ReleaseFails, ApplyInv, RollbackInv, OnDisk, Staged
  <2>7. ReportInv'
    BY <1>20 DEF ReleaseFails, UnlockedInv, CheckInv, ApplyInv, RollbackInv,
       ReportInv, FailureReported, OnDisk
  <2>8. QED
    BY <2>1, <2>2, <2>3, <2>4, <2>5, <2>6, <2>7
<1>21. CASE UNCHANGED vars
  BY <1>21 DEF vars, own, UnlockedInv, CheckInv, ApplyInv, RollbackInv, ReportInv,
     FailureReported, OnDisk, Staged
<1>22. QED
  BY <1>1, <1>2, <1>3, <1>4, <1>5, <1>6, <1>7, <1>8, <1>9, <1>10, <1>11, <1>12, <1>13,
     <1>14, <1>15, <1>16, <1>17, <1>18, <1>19, <1>20, <1>21
  DEF Next, Step, FileStep

\* Hence it holds in every state a commit can reach.
LEMMA Inductive == Spec => []IInv
<1>1. Init => IInv
  BY InitIInv
<1>2. IInv /\ [Next]_vars => IInv'
  BY NextIInv
<1>3. QED
  BY <1>1, <1>2, PTL DEF Spec

-----------------------------------------------------------------------------
(* What follows.                                                           *)

\* Captures, staged files, the lock's token and the lists of a commit are well-formed.
THEOREM TypeCorrect == Spec => []TypeOK
<1>1. IInv => TypeOK
  BY DEF IInv
<1>2. QED
  BY <1>1, Inductive, PTL

\* acquireLock and releaseLock: whoever compares, renames or rolls back is the one
\* that commit.lock names, and who has ended holds it only if its release failed.
THEOREM LockOwned == Spec => []HolderNamed
<1>1. IInv => HolderNamed
  BY DEF IInv
<1>2. QED
  BY <1>1, Inductive, PTL

\* rollbackCommitted: a commit that failed before its release has put every target back
\* that it does not report, unless somebody wrote to it without the lock.
THEOREM FailuresReported == Spec => []FailureReported
<1>1. IInv => FailureReported
  BY DEF IInv, ReportInv
<1>2. QED
  BY <1>1, Inductive, PTL

-----------------------------------------------------------------------------
(* The commit implements the atomic replacement of all its files.          *)

\* A transaction that has neither done its work nor failed.
Open == {"capture", "stage", "lock", "body", "check", "apply", "rollback"}

\* One whose report counts.
Failed == {"releaseFailed", "failed", "unreleased"}

\* The holder's masked files show what it captured, all others what is on disk.
VisibleFacts ==
    /\ Visible = [f \in File |-> Visible[f]]
    /\ \A t \in Txn : lock = t /\ t \notin dead /\ pc[t] \in {"apply", "rollback"} =>
         \A f \in File : Visible[f] = IF f \in Masked(t) THEN base[t][f] ELSE disk[f]
    /\ (\A t \in Txn : lock = t => t \in dead \/ pc[t] \notin {"apply", "rollback"}) =>
         Visible = disk
    /\ \A t \in Txn : pc[t] \in {"apply", "rollback"} =>
         /\ Masked(t) \subseteq Target[t]
         /\ \A f \in Masked(t) : disk[f] = New[t][f]

LEMMA Shown == IInv => VisibleFacts
<1> SUFFICES ASSUME IInv PROVE VisibleFacts
  OBVIOUS
<1> USE ConfigAssumption DEF IInv, TypeOK, HolderNamed, Holding
<1>1. Visible = [f \in File |-> Visible[f]]
  BY DEF Visible
<1>2. ASSUME NEW t \in Txn, lock = t, t \notin dead, pc[t] \in {"apply", "rollback"},
             NEW f \in File
      PROVE  Visible[f] = IF f \in Masked(t) THEN base[t][f] ELSE disk[f]
  BY <1>2 DEF Visible
<1>3. ASSUME \A t \in Txn : lock = t => t \in dead \/ pc[t] \notin {"apply", "rollback"}
      PROVE  Visible = disk
  <2>1. Visible = [f \in File |-> disk[f]]
    BY <1>3 DEF Visible
  <2>2. QED
    BY <2>1
<1>4. ASSUME NEW t \in Txn, pc[t] \in {"apply", "rollback"}
      PROVE  Masked(t) \subseteq Target[t] /\ \A f \in Masked(t) : disk[f] = New[t][f]
  <2>1. OnDisk(t) /\ written[t] \subseteq Target[t] /\ report[t] \subseteq Target[t]
    BY <1>4 DEF ApplyInv, RollbackInv, Staged
  <2>2. QED
    BY <2>1 DEF OnDisk, Masked
<1>5. QED
  BY <1>1, <1>2, <1>3, <1>4 DEF VisibleFacts

LEMMA ShownNext == IInv' => VisibleFacts'
  BY Shown, PTL

\* What a transaction's own step does to its outcome.
LEMMA Outcome ==
  ASSUME IInv, NEW t \in Txn, t \notin dead, NEW s \in States,
         pc' = [pc EXCEPT ![t] = s], UNCHANGED dead
  PROVE  /\ pc[t] \in Open => Status[t] = "open"
         /\ pc[t] \in Open /\ s \in Open => Status' = Status
         /\ s \in {"releaseDone", "done"} => Status' = [Status EXCEPT ![t] = "done"]
         /\ s \in {"releaseFailed", "failed"} => Status' = [Status EXCEPT ![t] = "failed"]
         /\ s = "unreleased" => Status' = [Status EXCEPT ![t] = "unreleased"]
         /\ s \notin Failed /\ pc[t] \notin Failed
              /\ (\A u \in Txn \ {t} : report'[u] = report[u]) => Reported' = Reported
         /\ s \in Failed /\ (\A u \in Txn \ {t} : report'[u] = report[u])
              => Reported' = [Reported EXCEPT ![t] = report'[t]]
<1> USE DEF IInv, TypeOK, States, Open, Failed
<1>1. pc[t] \in Open => Status[t] = "open"
  BY DEF Status
<1>2. pc[t] \in Open /\ s \in Open => Status' = Status
  BY DEF Status
<1>3. s \in {"releaseDone", "done"} => Status' = [Status EXCEPT ![t] = "done"]
  BY DEF Status
<1>4. s \in {"releaseFailed", "failed"} => Status' = [Status EXCEPT ![t] = "failed"]
  BY DEF Status
<1>5. s = "unreleased" => Status' = [Status EXCEPT ![t] = "unreleased"]
  BY DEF Status
<1>6. s \notin Failed /\ pc[t] \notin Failed
        /\ (\A u \in Txn \ {t} : report'[u] = report[u]) => Reported' = Reported
  BY DEF Reported
<1>7. s \in Failed /\ (\A u \in Txn \ {t} : report'[u] = report[u])
        => Reported' = [Reported EXCEPT ![t] = report'[t]]
  BY DEF Reported
<1>8. QED
  BY <1>1, <1>2, <1>3, <1>4, <1>5, <1>6, <1>7

\* Every step of a commit is a step of AtomicFiles, or none.
LEMMA StepImplements ==
  ASSUME IInv, IInv', VisibleFacts, VisibleFacts', [Next]_vars
  PROVE  [A!Next]_(A!vars)
<1> USE ConfigAssumption DEF IInv, TypeOK, HolderNamed, Holding, At, Goto, World
<1>1. ASSUME UNCHANGED <<Visible, base, Status, Reported, lock, touched>>
      PROVE  [A!Next]_(A!vars)
  BY <1>1 DEF A!vars
<1>2. ASSUME NEW t \in Txn, NEW f \in File, CaptureFile(t, f)
      PROVE  [A!Next]_(A!vars)
  <2>1. lock # t /\ pc[t] = "capture" /\ t \notin dead
    BY <1>2 DEF CaptureFile
  <2>2. Status[t] = "open" /\ UNCHANGED <<Status, Reported>>
    BY <1>2 DEF CaptureFile, Status, Reported
  <2>3. UNCHANGED Visible
    <3>1. \A u \in Txn : lock = u => base'[u] = base[u]
      BY <1>2, <2>1 DEF CaptureFile
    <3>2. QED
      BY <1>2, <3>1 DEF CaptureFile, Visible, Masked
  <2>4. A!See(t, f)
    <3>1. base' = [base EXCEPT ![t][f] = disk[f]] /\ disk[f] \in Content
      BY <1>2 DEF CaptureFile
    <3>2. UNCHANGED <<lock, touched>>
      BY <1>2 DEF CaptureFile
    <3>3. QED
      BY <2>1, <2>2, <2>3, <3>1, <3>2 DEF A!See
  <2>5. QED
    BY <2>4 DEF A!Next
<1>3. ASSUME NEW t \in Txn, \/ EndCapture(t) \/ StageWrites(t) \/ WriteBody(t)
                             \/ EndCheck(t) \/ ApplyFails(t)
      PROVE  [A!Next]_(A!vars)
  <2>1. UNCHANGED <<disk, base, written, report, lock, dead, touched>>
    BY <1>3 DEF EndCapture, StageWrites, WriteBody, EndCheck, ApplyFails
  <2>2. PICK s \in Open : pc' = [pc EXCEPT ![t] = s]
    BY <1>3 DEF EndCapture, StageWrites, WriteBody, EndCheck, ApplyFails, Open
  <2>3. pc[t] \in Open /\ t \notin dead
    BY <1>3 DEF EndCapture, StageWrites, WriteBody, EndCheck, ApplyFails, Open
  <2>4. UNCHANGED Status
    BY <2>1, <2>2, <2>3, Outcome DEF Open, States
  <2>5. UNCHANGED Reported
    <3>1. s \in States /\ s \notin Failed /\ pc[t] \notin Failed
      BY <2>2, <2>3 DEF Open, Failed, States
    <3>2. QED
      BY <2>1, <2>2, <2>3, <3>1, Outcome
  <2>6. UNCHANGED Visible
    <3>1. CASE ApplyFails(t)
      BY <2>1, <3>1 DEF ApplyFails, Visible, Masked
    <3>2. CASE EndCheck(t)
      <4>1. written[t] = {} /\ report[t] = {} /\ lock = t
        BY <3>2 DEF EndCheck, CheckInv
      <4>2. Masked(t)' = {}
        BY <4>1, <2>1 DEF Masked
      <4>3. Visible = disk
        BY <3>2, <4>1 DEF EndCheck, VisibleFacts
      <4>4. Visible' = [f \in File |-> disk[f]]
        BY <2>1, <4>1, <4>2 DEF Visible
      <4>5. QED
        BY <4>3, <4>4
    <3>3. CASE EndCapture(t) \/ StageWrites(t)
      <4>1. lock # t
        BY <3>3 DEF EndCapture, StageWrites
      <4>2. QED
        BY <2>1, <2>2, <4>1 DEF Visible, Masked
    <3>4. CASE WriteBody(t)
      <4>1. lock = t /\ pc[t] = "body" /\ pc'[t] = "check"
        BY <3>4 DEF WriteBody
      <4>2. QED
        BY <2>1, <4>1 DEF Visible
    <3>5. QED
      BY <1>3, <3>1, <3>2, <3>3, <3>4
  <2>7. QED
    BY <1>1, <2>1, <2>4, <2>5, <2>6
\* A failure before anything is in place.
<1>4. ASSUME NEW t \in Txn, pc[t] \in {"capture", "stage", "lock", "body", "check"},
             t \notin dead,
             \E s \in {"failed", "releaseFailed"} : pc' = [pc EXCEPT ![t] = s],
             UNCHANGED <<disk, base, written, report, lock, dead, touched>>
      PROVE  [A!Next]_(A!vars)
  <2>1. report[t] = {}
    BY <1>4 DEF UnlockedInv, CheckInv
  <2>2. Status[t] = "open" /\ Status' = [Status EXCEPT ![t] = "failed"]
    BY <1>4, Outcome DEF Open, States
  <2>3. Reported' = [Reported EXCEPT ![t] = {}]
    BY <1>4, <2>1, Outcome DEF States, Failed
  <2>4. UNCHANGED Visible
    BY <1>4 DEF Visible, Masked
  <2>5. Visible' = [f \in File |-> IF f \in {} \ touched THEN New[t][f] ELSE Visible[f]]
    BY <2>4 DEF VisibleFacts
  <2>6. A!Abort(t)
    BY <1>4, <2>2, <2>3, <2>5 DEF A!Abort
  <2>7. QED
    BY <2>6 DEF A!Next
<1>5. ASSUME NEW t \in Txn, GiveUp(t) PROVE [A!Next]_(A!vars)
  BY <1>4, <1>5 DEF GiveUp
<1>6. ASSUME NEW t \in Txn, AcquireLock(t) PROVE [A!Next]_(A!vars)
  <2>1. CASE lock # None
    BY <1>4, <1>6, <2>1 DEF AcquireLock
  <2>2. CASE lock = None
    <3>1. /\ pc[t] = "lock" /\ t \notin dead /\ lock' = t /\ touched' = {}
          /\ pc' = [pc EXCEPT ![t] = "body"]
          /\ UNCHANGED <<disk, base, report, dead>>
      BY <1>6, <2>2 DEF AcquireLock
    <3>2. Status[t] = "open" /\ UNCHANGED <<Status, Reported>>
      BY <3>1, Outcome DEF Open, Failed, States
    <3>3. Visible = disk /\ Visible' = disk'
      BY <2>2, <3>1 DEF VisibleFacts
    <3>4. A!Take(t)
      BY <2>2, <3>1, <3>2, <3>3 DEF A!Take
    <3>5. QED
      BY <3>4 DEF A!Next
  <2>3. QED
    BY <2>1, <2>2
<1>7. ASSUME NEW t \in Txn, NEW f \in File, CheckFile(t, f) PROVE [A!Next]_(A!vars)
  <2>1. CASE Drifted(t, f)
    BY <1>4, <1>7, <2>1 DEF CheckFile
  <2>2. CASE ~Drifted(t, f)
    <3>1. UNCHANGED <<disk, pc, base, written, report, lock, dead, touched>>
      BY <1>7, <2>2 DEF CheckFile
    <3>2. QED
      BY <1>1, <3>1 DEF Visible, Masked, Status, Reported
  <2>3. QED
    BY <2>1, <2>2
\* Putting a file in place shows only if somebody else has written it.
<1>8. ASSUME NEW t \in Txn, NEW f \in File, NEW v \in {New[t][f], base[t][f]},
             pc[t] \in {"apply", "rollback"}, t \notin dead, f \in Target[t],
             disk' = [disk EXCEPT ![f] = v],
             \A g \in File \ {f} : g \in Masked(t)' <=> g \in Masked(t),
             f \notin touched =>
                IF f \in Masked(t)' THEN f \in Masked(t) \/ disk[f] = base[t][f]
                                    ELSE v = base[t][f] /\ f \in Masked(t),
             UNCHANGED <<pc, base, lock, dead, touched>>,
             \A u \in Txn \ {t} : report'[u] = report[u]
      PROVE  [A!Next]_(A!vars)
  <2>1. lock = t
    BY <1>8
  <2>2. Status[t] = "open" /\ UNCHANGED <<Status, Reported>>
    BY <1>8 DEF Status, Reported
  <2>3. \A g \in File : Visible[g] = IF g \in Masked(t) THEN base[t][g] ELSE disk[g]
    BY <1>8, <2>1 DEF VisibleFacts
  <2>4. \A g \in File : Visible'[g] = IF g \in Masked(t)' THEN base[t][g] ELSE disk'[g]
    BY <1>8, <2>1 DEF Visible
  <2>5. \A g \in File \ {f} : Visible'[g] = Visible[g]
    <3> SUFFICES ASSUME NEW g \in File \ {f} PROVE Visible'[g] = Visible[g]
      OBVIOUS
    <3>1. disk'[g] = disk[g] /\ base' = base /\ (g \in Masked(t)' <=> g \in Masked(t))
      BY <1>8
    <3>2. QED
      BY <2>3, <2>4, <3>1
  <2>6. CASE f \notin touched
    <3>1. Visible'[f] = Visible[f]
      BY <1>8, <2>3, <2>4, <2>6
    <3>2. UNCHANGED Visible
      BY <2>5, <3>1 DEF VisibleFacts
    <3>3. QED
      BY <1>1, <1>8, <2>2, <3>2
  <2>7. CASE f \in touched
    <3>1. f \notin Masked(t)'
      BY <1>8, <2>7 DEF Masked
    <3>2. Visible'[f] = v
      BY <1>8, <2>4, <3>1
    <3>3. Visible' = [Visible EXCEPT ![f] = v]
      BY <2>5, <3>2 DEF VisibleFacts
    <3>4. A!Race(t, f)
      BY <1>8, <2>1, <2>2, <2>7, <3>3 DEF A!Race
    <3>5. QED
      BY <3>4 DEF A!Next
  <2>8. QED
    BY <2>6, <2>7
<1>9. ASSUME NEW t \in Txn, NEW f \in File, Apply(t, f) PROVE [A!Next]_(A!vars)
  <2>1. /\ pc[t] = "apply" /\ t \notin dead /\ f \in todo[t]
        /\ disk' = [disk EXCEPT ![f] = New[t][f]]
        /\ written'[t] = written[t] \cup {f}
        /\ UNCHANGED <<pc, base, lock, dead, touched, report>>
    BY <1>9 DEF Apply
  <2>2. f \in Target[t] /\ f \notin written[t] /\ report[t] = {}
    BY <2>1 DEF ApplyInv, Staged
  <2>3. f \notin touched => disk[f] = base[t][f] /\ f \in Masked(t)'
    <3>1. SUFFICES ASSUME f \notin touched PROVE disk[f] = base[t][f] /\ f \in Masked(t)'
      OBVIOUS
    <3>2. disk[f] = base[t][f]
      <4>1. OnDisk(t)
        BY <2>1 DEF ApplyInv
      <4>2. QED
        BY <2>2, <3>1, <4>1 DEF OnDisk
    <3>3. disk'[f] = New[t][f] /\ f \in written'[t] /\ f \notin touched'
      BY <2>1, <3>1
    <3>4. QED
      BY <3>2, <3>3 DEF Masked
  <2>4. \A g \in File \ {f} : g \in Masked(t)' <=> g \in Masked(t)
    BY <2>1 DEF Masked
  <2>5. QED
    BY <1>8, <2>1, <2>2, <2>3, <2>4
<1>10. ASSUME NEW t \in Txn, NEW f \in File, Restore(t, f) PROVE [A!Next]_(A!vars)
  <2>1. /\ pc[t] = "rollback" /\ t \notin dead /\ f \in current[t]
        /\ disk' = [disk EXCEPT ![f] = base[t][f]]
        /\ written'[t] = written[t] \ {f}
        /\ UNCHANGED <<pc, base, lock, dead, touched, report>>
    BY <1>10 DEF Restore
  <2>2. f \in Target[t] /\ f \in written[t] /\ f \notin report[t]
    BY <2>1 DEF RollbackInv
  <2>3. f \notin Masked(t)' /\ (f \notin touched => f \in Masked(t))
    BY <2>1, <2>2 DEF Masked
  <2>4. \A g \in File \ {f} : g \in Masked(t)' <=> g \in Masked(t)
    BY <2>1 DEF Masked
  <2>5. QED
    BY <1>8, <2>1, <2>2, <2>3, <2>4
<1>11. ASSUME NEW t \in Txn, NEW f \in File, RollbackCheck(t, f) \/ RestoreFails(t, f)
       PROVE  [A!Next]_(A!vars)
  <2>1. /\ pc[t] = "rollback" /\ t \notin dead
        /\ UNCHANGED <<disk, pc, base, lock, dead, touched>>
        /\ \A u \in Txn \ {t} : report'[u] = report[u]
    BY <1>11 DEF RollbackCheck, RestoreFails
  <2>2. written'[t] \cup report'[t] = written[t] \cup report[t]
    <3>1. CASE RollbackCheck(t, f)
      <4>1. CASE disk[f] = New[t][f]
        BY <3>1, <4>1 DEF RollbackCheck
      <4>2. CASE disk[f] # New[t][f]
        BY <3>1, <4>2 DEF RollbackCheck
      <4>3. QED
        BY <4>1, <4>2
    <3>2. CASE RestoreFails(t, f)
      BY <3>2 DEF RestoreFails, RollbackInv
    <3>3. QED
      BY <1>11, <3>1, <3>2
  <2>3. lock = t /\ Masked(t)' = Masked(t)
    BY <2>1, <2>2 DEF Masked
  <2>4. UNCHANGED Visible
    BY <2>1, <2>3 DEF Visible
  <2>5. UNCHANGED <<Status, Reported>>
    BY <2>1 DEF Status, Reported
  <2>6. QED
    BY <1>1, <2>1, <2>4, <2>5
<1>12. ASSUME NEW t \in Txn, EndApply(t) PROVE [A!Next]_(A!vars)
  <2>1. /\ pc[t] = "apply" /\ t \notin dead /\ todo[t] = {} /\ lock = t
        /\ pc' = [pc EXCEPT ![t] = "releaseDone"]
        /\ UNCHANGED <<disk, base, report, lock, dead, touched>>
    BY <1>12 DEF EndApply
  <2>2. /\ Status[t] = "open" /\ Status' = [Status EXCEPT ![t] = "done"]
        /\ UNCHANGED Reported
    BY <2>1, Outcome DEF Open, Failed, States
  <2>3. written[t] = Staged(t) /\ report[t] = {} /\ OnDisk(t)
    <3>1. {} \cup written[t] = Staged(t) /\ report[t] = {} /\ OnDisk(t)
      BY <2>1 DEF ApplyInv
    <3>2. QED
      BY <3>1
  <2>4. Masked(t) = Staged(t) \ touched
    BY <2>3 DEF Masked
  <2>5. \A f \in File : Visible[f] = IF f \in Masked(t) THEN base[t][f] ELSE disk[f]
    BY <2>1 DEF VisibleFacts
  <2>6. \A f \in Target[t] \ touched : Visible[f] = base[t][f]
    BY <2>3, <2>4, <2>5 DEF OnDisk, Staged
  <2>7. Visible' = [f \in File |-> IF f \in Target[t] \ touched THEN New[t][f] ELSE Visible[f]]
    <3>1. Visible' = disk
      BY <2>1 DEF VisibleFacts
    <3>2. \A f \in Target[t] \ touched : disk[f] = New[t][f]
      BY <2>3 DEF OnDisk, Staged
    <3>3. \A f \in File : f \notin Target[t] \ touched => Visible[f] = disk[f]
      BY <2>4, <2>5 DEF Staged
    <3>4. QED
      BY <3>1, <3>2, <3>3
  <2>8. A!Commit(t)
    BY <2>1, <2>2, <2>6, <2>7 DEF A!Commit
  <2>9. QED
    BY <2>8 DEF A!Next
<1>13. ASSUME NEW t \in Txn, EndRollback(t) PROVE [A!Next]_(A!vars)
  <2>1. /\ pc[t] = "rollback" /\ t \notin dead /\ written[t] = {} /\ lock = t
        /\ pc' = [pc EXCEPT ![t] = "releaseFailed"]
        /\ UNCHANGED <<disk, base, report, lock, dead, touched>>
    BY <1>13 DEF EndRollback
  <2>2. /\ Status[t] = "open" /\ Status' = [Status EXCEPT ![t] = "failed"]
        /\ Reported' = [Reported EXCEPT ![t] = report[t]]
    BY <2>1, Outcome DEF Open, Failed, States
  <2>3. Masked(t) = report[t] \ touched /\ report[t] \in SUBSET Target[t]
    BY <2>1 DEF Masked, RollbackInv
  <2>4. \A f \in File : Visible[f] = IF f \in Masked(t) THEN base[t][f] ELSE disk[f]
    BY <2>1 DEF VisibleFacts
  <2>5. \A f \in report[t] \ touched : disk[f] = New[t][f]
    BY <2>1, <2>3 DEF VisibleFacts
  <2>6. Visible' = [f \in File |-> IF f \in report[t] \ touched THEN New[t][f] ELSE Visible[f]]
    <3>1. Visible' = disk
      BY <2>1 DEF VisibleFacts
    <3>2. QED
      BY <2>3, <2>4, <2>5, <3>1
  <2>7. A!Abort(t)
    BY <2>1, <2>2, <2>3, <2>6 DEF A!Abort
  <2>8. QED
    BY <2>7 DEF A!Next
<1>14. ASSUME NEW t \in Txn, ReleaseLock(t) PROVE [A!Next]_(A!vars)
  <2>1. /\ t \notin dead /\ lock = t /\ lock' = None
        /\ UNCHANGED <<disk, base, report, dead, touched>>
    BY <1>14 DEF ReleaseLock
  <2>2. \/ pc[t] = "releaseDone" /\ pc' = [pc EXCEPT ![t] = "done"]
        \/ pc[t] = "releaseFailed" /\ pc' = [pc EXCEPT ![t] = "failed"]
    BY <1>14, <2>1 DEF ReleaseLock
  <2>3. Status[t] \in {"done", "failed"} /\ UNCHANGED <<Status, Reported>>
    BY <2>1, <2>2 DEF Status, Reported
  <2>4. Visible = disk /\ Visible' = disk
    BY <2>1, <2>2 DEF VisibleFacts
  <2>5. A!Release(t)
    BY <2>1, <2>3, <2>4 DEF A!Release
  <2>6. QED
    BY <2>5 DEF A!Next
<1>15. ASSUME NEW t \in Txn, LockedFailure(t) PROVE [A!Next]_(A!vars)
  BY <1>4, <1>15 DEF LockedFailure
<1>16. ASSUME NEW t \in Txn, ReleaseFails(t) PROVE [A!Next]_(A!vars)
  <2>1. /\ pc[t] \in {"releaseDone", "releaseFailed"} /\ t \notin dead /\ lock = t
        /\ pc' = [pc EXCEPT ![t] = "unreleased"]
        /\ UNCHANGED <<disk, base, report, lock, dead, touched>>
    BY <1>16 DEF ReleaseFails
  <2>2. Status[t] \in {"done", "failed"} /\ Status' = [Status EXCEPT ![t] = "unreleased"]
    <3>1. Status[t] \in {"done", "failed"}
      BY <2>1 DEF Status
    <3>2. QED
      BY <2>1, <3>1, Outcome DEF States
  <2>3. UNCHANGED Reported
    <3>1. Reported' = [Reported EXCEPT ![t] = report[t]]
      BY <2>1, Outcome DEF States, Failed
    <3>2. Reported[t] = report[t]
      BY <2>1 DEF Reported, ReportInv
    <3>3. QED
      BY <3>1, <3>2 DEF Reported
  <2>4. Visible = disk /\ Visible' = disk
    BY <2>1 DEF VisibleFacts
  <2>5. A!KeepLock(t)
    BY <2>1, <2>2, <2>3, <2>4 DEF A!KeepLock
  <2>6. QED
    BY <2>5 DEF A!Next
<1>17. ASSUME NEW f \in File, Edit(f) PROVE [A!Next]_(A!vars)
  <2>1. PICK v \in Content : disk' = [disk EXCEPT ![f] = v]
    BY <1>17 DEF Edit
  <2>2. /\ UNCHANGED <<pc, base, written, report, lock, dead>>
        /\ touched' = IF lock = None THEN touched ELSE touched \cup {f}
    BY <1>17 DEF Edit, own
  <2>3. UNCHANGED <<Status, Reported>>
    BY <2>2 DEF Status, Reported
  <2>4. Visible' = [Visible EXCEPT ![f] = v]
    BY <2>1, <2>2 DEF Visible, Masked
  <2>5. A!Edit(f)
    BY <2>1, <2>2, <2>3, <2>4 DEF A!Edit
  <2>6. QED
    BY <2>5 DEF A!Next
<1>18. ASSUME NEW t \in Txn, Kill(t) PROVE [A!Next]_(A!vars)
  <2>1. /\ t \notin dead /\ dead' = dead \cup {t}
        /\ UNCHANGED <<disk, pc, base, written, report, lock, touched>>
    BY <1>18 DEF Kill, own
  <2>2. UNCHANGED Reported
    BY <2>1 DEF Reported
  <2>3. CASE pc[t] \in {"apply", "rollback"}
    <3>1. Status[t] = "open" /\ Status' = [Status EXCEPT ![t] = "dead"]
      BY <2>1, <2>3 DEF Status
    <3>2. lock = t /\ Masked(t) \in SUBSET Target[t]
      BY <2>3 DEF VisibleFacts
    <3>3. Visible' = [f \in File |-> IF f \in Masked(t) \ touched THEN New[t][f] ELSE Visible[f]]
      <4>1. Visible' = disk
        BY <2>1, <3>2 DEF VisibleFacts
      <4>2. \A f \in File : Visible[f] = IF f \in Masked(t) THEN base[t][f] ELSE disk[f]
        BY <2>1, <2>3, <3>2 DEF VisibleFacts
      <4>3. Masked(t) \ touched = Masked(t)
        BY DEF Masked
      <4>4. \A f \in Masked(t) : disk[f] = New[t][f]
        BY <2>3 DEF VisibleFacts
      <4>5. QED
        BY <4>1, <4>2, <4>3, <4>4
    <3>4. A!Crash(t)
      BY <2>1, <2>2, <3>1, <3>2, <3>3 DEF A!Crash
    <3>5. QED
      BY <3>4 DEF A!Next
  <2>4. CASE pc[t] \in {"capture", "stage", "lock", "body", "check"}
    <3>1. Status[t] = "open" /\ Status' = [Status EXCEPT ![t] = "dead"]
      BY <2>1, <2>4 DEF Status
    <3>2. UNCHANGED Visible
      BY <2>1, <2>4 DEF Visible, Masked
    <3>3. Visible' = [f \in File |-> IF f \in {} \ touched THEN New[t][f] ELSE Visible[f]]
      BY <3>2 DEF VisibleFacts
    <3>4. A!Crash(t)
      BY <2>1, <2>2, <3>1, <3>3 DEF A!Crash
    <3>5. QED
      BY <3>4 DEF A!Next
  <2>5. CASE pc[t] \in {"releaseDone", "releaseFailed", "done", "failed", "unreleased"}
    <3>1. UNCHANGED Visible
      BY <2>1, <2>5 DEF Visible, Masked
    <3>2. UNCHANGED Status
      BY <2>1, <2>5 DEF Status
    <3>3. QED
      BY <1>1, <2>1, <2>2, <3>1, <3>2
  <2>6. QED
    BY <2>3, <2>4, <2>5 DEF States
<1>19. CASE UNCHANGED vars
  BY <1>1, <1>19 DEF vars, own, Visible, Masked, Status, Reported
<1>20. QED
  BY <1>2, <1>3, <1>5, <1>6, <1>7, <1>9, <1>10, <1>11, <1>12, <1>13, <1>14, <1>15,
     <1>16, <1>17, <1>18, <1>19 DEF Next, Step, FileStep

\* commitGatedWrites replaces all its files or none, and only over what it
\* captured, whatever the other commands, the editors and the kills do; the
\* exceptions are those its comment names (gated-file-transaction.ts:425), and a
\* release that fails, after which the lock stays and the outcome is not told.
THEOREM Implements == Spec => AtomicSpec
<1>1. Init => A!Init
  BY DEF Init, A!Init, Visible, Status, Reported
<1>2. IInv /\ IInv' /\ VisibleFacts /\ VisibleFacts' /\ [Next]_vars => [A!Next]_(A!vars)
  BY StepImplements
<1>3. QED
  BY <1>1, <1>2, Shown, Inductive, PTL DEF Spec, AtomicSpec, A!Spec
=============================================================================
