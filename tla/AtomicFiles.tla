---------------------------- MODULE AtomicFiles ----------------------------
(***************************************************************************)
(* What lib/gated-file-transaction.ts promises to the commands that use    *)
(* it: a transaction replaces all its files at once, if each of them still *)
(* is what the transaction saw, or none.  Two things are outside of the    *)
(* promise, as its comment says: a file that somebody writes without the   *)
(* lock while a transaction holds it, and a killed holder.  A third is not *)
(* mentioned there: once the files are dealt with, a release that fails.   *)
(***************************************************************************)
CONSTANTS Txn, File, Content, Target, New, None

VARIABLES
    disk,     \* the content of each file
    base,     \* what each transaction saw
    status,   \* open, done, failed, dead, or unreleased
    report,   \* the files that a failed transaction says it could not take back
    holder,   \* the transaction that commits, or None
    touched   \* files that were written without the lock since it was taken

vars == <<disk, base, status, report, holder, touched>>

Init ==
    /\ disk \in [File -> Content]
    /\ base \in [Txn -> [File -> Content]]
    /\ status = [t \in Txn |-> "open"]
    /\ report = [t \in Txn |-> {}]
    /\ holder = None
    /\ touched = {}

See(t, f) ==
    /\ status[t] = "open" /\ holder # t
    /\ \E v \in Content : base' = [base EXCEPT ![t][f] = v]
    /\ UNCHANGED <<disk, status, report, holder, touched>>

Take(t) ==
    /\ status[t] = "open" /\ holder = None
    /\ holder' = t
    /\ touched' = {}
    /\ UNCHANGED <<disk, base, status, report>>

\* All the files that nobody else writes change together.
Commit(t) ==
    /\ status[t] = "open" /\ holder = t
    /\ \A f \in Target[t] \ touched : disk[f] = base[t][f]
    /\ disk' = [f \in File |-> IF f \in Target[t] \ touched THEN New[t][f] ELSE disk[f]]
    /\ status' = [status EXCEPT ![t] = "done"]
    /\ UNCHANGED <<base, report, holder, touched>>

\* Nothing changes, except what is reported.
Abort(t) ==
    /\ status[t] = "open"
    /\ \E R \in SUBSET Target[t] :
         /\ R # {} => holder = t
         /\ report' = [report EXCEPT ![t] = R]
         /\ disk' = [f \in File |-> IF f \in R \ touched THEN New[t][f] ELSE disk[f]]
    /\ status' = [status EXCEPT ![t] = "failed"]
    /\ UNCHANGED <<base, holder, touched>>

Release(t) ==
    /\ holder = t /\ status[t] \in {"done", "failed"}
    /\ holder' = None
    /\ UNCHANGED <<disk, base, status, report, touched>>

\* All the files are written, or none but what is reported; the caller gets an error
\* either way, and the lock stays for good.
KeepLock(t) ==
    /\ holder = t /\ status[t] \in {"done", "failed"}
    /\ status' = [status EXCEPT ![t] = "unreleased"]
    /\ UNCHANGED <<disk, base, report, holder, touched>>

Edit(f) ==
    /\ \E v \in Content : disk' = [disk EXCEPT ![f] = v]
    /\ touched' = IF holder = None THEN touched ELSE touched \cup {f}
    /\ UNCHANGED <<base, status, report, holder>>

\* The transaction and whoever has written the file overwrite each other.
Race(t, f) ==
    /\ status[t] = "open" /\ holder = t
    /\ f \in Target[t] \cap touched
    /\ \E v \in {New[t][f], base[t][f]} : disk' = [disk EXCEPT ![f] = v]
    /\ UNCHANGED <<base, status, report, holder, touched>>

\* Some of the files are written, and the lock stays for good.
Crash(t) ==
    /\ status[t] = "open"
    /\ \E S \in SUBSET Target[t] :
         /\ S # {} => holder = t
         /\ disk' = [f \in File |-> IF f \in S \ touched THEN New[t][f] ELSE disk[f]]
    /\ status' = [status EXCEPT ![t] = "dead"]
    /\ UNCHANGED <<base, report, holder, touched>>

Next ==
    \/ \E t \in Txn : Take(t) \/ Commit(t) \/ Abort(t) \/ Release(t) \/ KeepLock(t)
    \/ \E t \in Txn : Crash(t)
    \/ \E t \in Txn, f \in File : See(t, f) \/ Race(t, f)
    \/ \E f \in File : Edit(f)

Spec == Init /\ [][Next]_vars
=============================================================================
