------------------------- MODULE ActivityLogProofs -------------------------
(***************************************************************************)
(* What holds of ActivityLog for every set of compact and sync commands,   *)
(* any number of them at once, any number of them killed, and logs of any  *)
(* length.                                                                 *)
(***************************************************************************)
EXTENDS ActivityLog, TLAPS, FiniteSetTheorems, SequenceTheorems

\* Where a compact command may stand: with the lock, with a decision to cut the log,
\* with a copy of what it will keep.
Critical  == {"publish", "link", "store", "cursor", "rename", "complete", "unclaim", "unlock"}
Committed == {"prepare", "lock", "publish", "link", "store", "cursor", "rename"}
Copied    == Committed \ {"prepare"}
States    == {"idle", "manifest", "claim"} \cup Committed \cup Critical
Rotations == {"rotate", "rotateAll"}

Cuts(c)  == pc[c] \in Committed /\ job[c].kind # "finish"
Holds(c) == pc[c] \in Copied /\ job[c].kind # "finish"

\* How many rows have left the live file.
Base == appended - Size

\* The rows are the oldest of the live file.
Leading(rows) == Len(rows) <= Size /\ \A i \in 1..Len(rows) : rows[i] = Base + i

\* The segment's rows have left, and the manifest does not say so yet.
Landed(s) == Pending(s) /\ s.pending.replacement = live.ino

Halfway == \E i \in DOMAIN segments : Landed(segments[i])

\* The live file holds the newest rows.
LogInv ==
    /\ Size <= appended
    /\ \A i \in 1..Size : live.rows[i] = Base + i

\* The manifest names its files, each once; what is cut from the live file comes after
\* everything that has left it, and is not cut while the last cut is halfway.
ArchiveInv ==
    /\ \A i \in DOMAIN segments : /\ segments[i].seq \in DOMAIN gz
                                  /\ gz[segments[i].seq] = segments[i].rows
    /\ \A i, j \in DOMAIN segments : segments[i].seq = segments[j].seq => i = j
    /\ \A i, j \in DOMAIN segments :
         Pending(segments[i]) /\ segments[i].pending.source = live.ino =>
            /\ Gone(segments[j]) => j < i
            /\ ~Landed(segments[j])

\* A claim on the live file is good: its rows lead it, and its number is new or that
\* of a pending drop of this file.
Planned(k) ==
    k.source = live.ino =>
        /\ Leading(k.rows)
        /\ ~Halfway
        /\ k.seq \in 1..Len(gz) + 1
        /\ \A i \in DOMAIN segments : segments[i].seq = k.seq =>
              Pending(segments[i]) /\ segments[i].pending.source = live.ino

\* A claim whose replacement is the live file has its rows in the archive.
Renamed(k) ==
    k.replacement = live.ino =>
        \E i \in DOMAIN segments : segments[i].seq = k.seq /\ Gone(segments[i])

Indexed(k) == \E i \in DOMAIN segments : segments[i].seq = k.seq /\ segments[i].rows = k.rows

ClaimInv == claim # None => Planned(claim) /\ Renamed(claim)

\* The archive and the live file together lose and double nothing.
KeptInv ==
    /\ \A i \in DOMAIN segments : Gone(segments[i]) =>
         \A m, n \in DOMAIN segments[i].rows :
            m < n => segments[i].rows[m] < segments[i].rows[n]
    /\ \A i, j \in DOMAIN segments : Gone(segments[i]) /\ Gone(segments[j]) /\ i < j =>
         \A m \in DOMAIN segments[i].rows, n \in DOMAIN segments[j].rows :
            segments[i].rows[m] < segments[j].rows[n]
    /\ \A i \in DOMAIN segments : Gone(segments[i]) =>
         \A m \in DOMAIN segments[i].rows : segments[i].rows[m] \in 1..Base \ dropped
    /\ \A r \in 1..Base \ dropped :
         \E i \in DOMAIN segments :
            Gone(segments[i]) /\ \E m \in DOMAIN segments[i].rows : segments[i].rows[m] = r
    /\ dropped \subseteq 1..Base

\* What a command does at each place, and what it has for it.
Fits(state, j) ==
    /\ state \in {"manifest", "claim"} => j.kind \in Rotations
    /\ state = "prepare" => j.kind \in Rotations \cup {"resume", "old"}
    /\ state \in {"link", "store"} => j.kind \in Rotations \cup {"resume"}
    /\ state \in {"publish", "rename"} => j.kind # "finish"
    /\ state = "unclaim" => j.kind # "old"
    /\ state \in Copied \cup {"complete", "unclaim"} => j.kind # "none" /\ j.claim # None
    /\ state = "prepare" /\ j.kind \notin Rotations => j.claim # None

\* The lock is its own where it must be.
KindInv(c) ==
    /\ c \in dead => pc[c] = "idle"
    /\ pc[c] \in Critical => holder = c
    /\ Fits(pc[c], job[c])

\* What a command knows of the live file, as long as that is the file it has seen.
SourceInv(c) ==
    LET j == job[c] IN
    /\ j.source = live.ino => j.size <= Size
    /\ pc[c] = "claim" /\ Halfway /\ j.source = live.ino => j.pending # None
    /\ Cuts(c) /\ j.source = live.ino => ~Halfway
    /\ Holds(c) \/ (Cuts(c) /\ ~Rotates(c)) => j.claim.source = j.source
    /\ pc[c] = "lock" /\ j.kind = "finish" =>
         j.source = j.claim.replacement /\ Renamed(j.claim)

PlanInv(c) ==
    LET j == job[c] IN
    /\ pc[c] \in {"prepare", "lock", "publish"} /\ j.kind \in {"resume", "old"} =>
         Planned(j.claim)
    /\ Holds(c) /\ j.source = live.ino =>
         /\ Leading(j.claim.rows)
         /\ Len(j.claim.rows) <= j.copied /\ j.copied <= Size
    /\ Cuts(c) /\ j.kind = "old" /\ j.source = live.ino => Indexed(j.claim)
    /\ Holds(c) /\ j.verified => j.kind \notin Rotations /\ Published(j.claim)

\* What the holder of the lock has made of it so far.
HolderInv(c) ==
    LET j == job[c] IN
    /\ pc[c] \in Critical /\ Holds(c) => j.source = live.ino
    /\ /\ pc[c] \in {"link", "store", "cursor", "rename", "complete", "unclaim"}
       /\ j.kind \in Rotations \cup {"resume"}
       => claim = j.claim
    /\ pc[c] = "store" => Published(j.claim)
    /\ pc[c] \in {"cursor", "rename"} /\ Holds(c) =>
         \E i \in DOMAIN segments : /\ segments[i].seq = j.claim.seq
                                    /\ segments[i].rows = j.claim.rows
                                    /\ segments[i].pending = Drop(j.claim)
    /\ pc[c] = "complete" => j.claim.replacement = live.ino /\ Renamed(j.claim)

\* Nobody has seen the replacement of a copy as a file yet ..
Unseen(r) ==
    /\ r # 0 /\ r # live.ino
    /\ \A i \in DOMAIN segments : Pending(segments[i]) => segments[i].pending.source # r
    /\ claim # None => claim.source # r
    /\ \A d \in Compactor : /\ job[d].source # r
                            /\ job[d].claim # None => job[d].claim.source # r

\* .. and nobody else will put it in place.
Fresh(c) ==
    LET r == job[c].claim.replacement IN
    /\ Unseen(r)
    /\ \A d \in Compactor \ {c} : Holds(d) => job[d].claim.replacement # r
    /\ /\ pc[c] \in {"lock", "publish"} \/ job[c].kind = "old"
       /\ claim # None
       => claim.replacement # r
    /\ \A i \in DOMAIN segments :
         Pending(segments[i]) /\ segments[i].pending.replacement = r =>
            pc[c] \in {"cursor", "rename"} /\ segments[i].seq = job[c].claim.seq

FreshInv == \A c \in Compactor : Holds(c) => Fresh(c)

\* The same of the file that a sync command reads.
SyncInv ==
    \A s \in Syncer :
        /\ sjob[s].ino = live.ino => sjob[s].end <= Size
        /\ \A c \in Compactor : Holds(c) => job[c].claim.replacement # sjob[s].ino

TypeInv    == TypeOK /\ pc \in [Compactor -> States] /\ \A c \in Compactor : KindInv(c)
WorldInv   == LogInv /\ ArchiveInv /\ ClaimInv /\ KeptInv
CommandInv == \A c \in Compactor : SourceInv(c) /\ PlanInv(c) /\ HolderInv(c)

IInv == TypeInv /\ WorldInv /\ CommandInv /\ FreshInv /\ SyncInv

-----------------------------------------------------------------------------
(* The operators of the model.                                             *)

\* A set of natural numbers has a least member ..
LEMMA Smallest ==
  ASSUME NEW S \in SUBSET Nat, S # {}
  PROVE  \E x \in S : \A y \in S : x <= y
<1>1. PICK x \in S : \A y \in S : ~ (<<y, x>> \in OpToRel(<, Nat))
  BY WFMin, NatLessThanWellFounded
<1>2. \A y \in S : ~ (y < x)
  BY <1>1 DEF OpToRel
<1>3. QED
  BY <1>2

\* .. and, if it is bounded, a greatest one.
LEMMA Largest ==
  ASSUME NEW n \in Nat, NEW S \in SUBSET (1..n), S # {}
  PROVE  \E x \in S : \A y \in S : y <= x
<1> DEFINE T == {n - x : x \in S}
<1>1. \A x \in S : n - x \in Nat
  OBVIOUS
<1>2. T \in SUBSET Nat /\ T # {}
  BY <1>1
<1>3. PICK t \in T : \A u \in T : t <= u
  BY <1>2, Smallest
<1>4. PICK x \in S : t = n - x
  OBVIOUS
<1>5. \A y \in S : n - x <= n - y
  BY <1>3, <1>4
<1>6. QED
  BY <1>5

\* planCut cuts no more than what the command has seen, nor, without --all, than what it
\* has taken for uploaded.
LEMMA CutBound ==
  ASSUME NEW j \in Jobs
  PROVE  /\ PlanCut(j) \in Int /\ PlanCut(j) <= j.size
         /\ j.kind # "rotateAll" => PlanCut(j) <= j.cursor
<1> DEFINE rows   == SubSeq(live.rows, 1, j.size)
           synced == IF j.kind = "rotateAll" THEN j.size ELSE j.cursor
           recent == Smaller(synced, j.size - KeepRecent)
           heads  == {i \in 1..j.size : rows[i] \in Chained}
           last   == CHOOSE i \in heads : \A h \in heads : h <= i
<1>1. j.size \in Nat /\ j.cursor \in Nat /\ KeepRecent \in Nat
  BY BoundsAssumption DEF Jobs
<1>2. /\ recent \in Int /\ recent <= j.size
      /\ j.kind # "rotateAll" => recent <= j.cursor
  BY <1>1 DEF Smaller
<1>3. CASE heads = {}
  BY <1>2, <1>3 DEF PlanCut
<1>4. CASE heads # {}
  <2>1. last \in heads
    BY <1>1, <1>4, Largest
  <2>2. last \in 1..j.size
    BY <2>1
  <2>3. PlanCut(j) = Smaller(recent, last - 1)
    BY <1>4 DEF PlanCut
  <2> HIDE DEF recent, last
  <2>4. QED
    BY <1>1, <1>2, <2>2, <2>3 DEF Smaller
<1>5. QED
  BY <1>3, <1>4

\* Math.max(0, ..) gives no negative cursor.
LEMMA LoweredType ==
  ASSUME NEW n \in Nat, NEW cut \in Int, cut > 0
  PROVE  Lowered(n, cut) \in Nat
  BY DEF Lowered

\* The drop that is looked for first is one of the manifest.
LEMMA PendingSegmentFacts ==
  ASSUME segments \in Seq(Segments)
  PROVE  IF \E i \in DOMAIN segments : Pending(segments[i])
         THEN \E i \in DOMAIN segments : Pending(segments[i]) /\ PendingSegment = segments[i]
         ELSE PendingSegment = None
<1>1. PendingAt \in SUBSET Nat
  BY DEF PendingAt
<1>2. CASE PendingAt = {}
  BY <1>2 DEF PendingAt, PendingSegment
<1>3. CASE PendingAt # {}
  <2> DEFINE first == CHOOSE i \in PendingAt : \A h \in PendingAt : i <= h
  <2>1. first \in PendingAt
    BY <1>1, <1>3, Smallest
  <2>2. PendingSegment = segments[first]
    BY <1>3 DEF PendingSegment
  <2>3. QED
    BY <2>1, <2>2 DEF PendingAt
<1>4. QED
  BY <1>2, <1>3

\* Changing a drop changes nothing else of the manifest.
LEMMA WithPendingFacts ==
  ASSUME segments \in Seq(Segments), NEW seq, NEW drop \in Drops \cup {None}
  PROVE  /\ WithPending(seq, drop) \in Seq(Segments)
         /\ DOMAIN WithPending(seq, drop) = DOMAIN segments
         /\ \A i \in DOMAIN segments :
              /\ WithPending(seq, drop)[i].seq = segments[i].seq
              /\ WithPending(seq, drop)[i].rows = segments[i].rows
              /\ WithPending(seq, drop)[i].pending =
                   IF segments[i].seq = seq THEN drop ELSE segments[i].pending
<1> DEFINE w == WithPending(seq, drop)
<1>1. \A i \in DOMAIN segments : segments[i] \in Segments
  OBVIOUS
<1>2. w = [i \in DOMAIN segments |->
             IF segments[i].seq = seq THEN [segments[i] EXCEPT !.pending = drop]
             ELSE segments[i]]
  BY DEF WithPending
<1>3. \A i \in DOMAIN segments :
        /\ w[i] \in Segments
        /\ w[i].seq = segments[i].seq /\ w[i].rows = segments[i].rows
        /\ w[i].pending = IF segments[i].seq = seq THEN drop ELSE segments[i].pending
  <2> SUFFICES ASSUME NEW i \in DOMAIN segments
               PROVE  /\ w[i] \in Segments
                      /\ w[i].seq = segments[i].seq /\ w[i].rows = segments[i].rows
                      /\ w[i].pending =
                           IF segments[i].seq = seq THEN drop ELSE segments[i].pending
    OBVIOUS
  <2> HIDE DEF w
  <2>1. CASE segments[i].seq = seq
    BY <1>1, <1>2, <2>1 DEF Segments
  <2>2. CASE segments[i].seq # seq
    BY <1>1, <1>2, <2>2 DEF Segments
  <2>3. QED
    BY <2>1, <2>2
<1>4. w \in Seq(Segments) /\ DOMAIN w = DOMAIN segments
  <2>1. DOMAIN segments = 1..Len(segments) /\ Len(segments) \in Nat
    OBVIOUS
  <2>2. DOMAIN w = 1..Len(segments)
    BY <1>2, <2>1
  <2>3. w \in [1..Len(segments) -> Segments]
    BY <1>2, <1>3, <2>1, <2>2
  <2> HIDE DEF w
  <2>4. w \in Seq(Segments)
    BY <2>1, <2>3, SeqDef
  <2>5. QED
    BY <2>1, <2>2, <2>4
<1>5. QED
  BY <1>3, <1>4

\* A new file's inode is that of no file that anybody remembers.
LEMMA NewFile ==
  ASSUME TypeOK, NEW ino \in Inodes, Unused(ino)
  PROVE  /\ ino \in Nat /\ ino # 0 /\ ino # live.ino
         /\ claim # None => ino \notin {claim.source, claim.replacement}
         /\ \A i \in DOMAIN segments : Pending(segments[i]) =>
              ino \notin {segments[i].pending.source, segments[i].pending.replacement}
         /\ \A d \in Compactor :
              /\ ino # job[d].source
              /\ job[d].claim # None =>
                   ino \notin {job[d].claim.source, job[d].claim.replacement}
         /\ \A s \in Syncer : ino # sjob[s].ino
<1>1. ino \notin Remembered
  BY DEF Unused
<1>2. ino \in Nat /\ ino # 0
  <2>1. Cardinality(Compactor) \in Nat /\ Cardinality(Syncer) \in Nat
    BY BoundsAssumption, FS_CardinalityType, Zenon
  <2>2. Len(segments) \in Nat
    BY DEF TypeOK
  <2>3. QED
    BY <2>1, <2>2 DEF Inodes
<1> DEFINE ofSegments == UNION {InodesOf(segments[i].pending) : i \in DOMAIN segments}
           ofJobs     == UNION {InodesOf(job[c].claim) \cup {job[c].source} : c \in Compactor}
           ofDrops    == UNION {IF job[c].pending = None THEN {}
                                ELSE InodesOf(job[c].pending.pending) : c \in Compactor}
           ofSyncs    == {sjob[s].ino : s \in Syncer}
<1>3. Remembered = {0, live.ino} \cup InodesOf(claim) \cup ofSegments
                     \cup ofJobs \cup ofDrops \cup ofSyncs
  BY DEF Remembered
<1> HIDE DEF ofSegments, ofJobs, ofDrops, ofSyncs
<1>4. /\ ino \notin {0, live.ino} /\ ino \notin InodesOf(claim)
      /\ ino \notin ofSegments /\ ino \notin ofJobs /\ ino \notin ofSyncs
  BY <1>1, <1>3
<1>5. /\ \A i \in DOMAIN segments : ino \notin InodesOf(segments[i].pending)
      /\ \A d \in Compactor : ino \notin InodesOf(job[d].claim) \cup {job[d].source}
      /\ \A s \in Syncer : ino # sjob[s].ino
  BY <1>4, Zenon DEF ofSegments, ofJobs, ofSyncs
<1>6. QED
  BY <1>2, <1>4, <1>5 DEF InodesOf, Pending

\* What Become says, command by command.
LEMMA BecomeFacts ==
  ASSUME TypeInv, NEW c \in Compactor, NEW state \in States, NEW j \in Jobs,
         Become(c, state, j)
  PROVE  /\ pc' \in [Compactor -> States] /\ job' \in [Compactor -> Jobs]
         /\ pc'[c] = state /\ job'[c] = j
         /\ \A d \in Compactor \ {c} : pc'[d] = pc[d] /\ job'[d] = job[d]
  BY DEF TypeInv, TypeOK, Become

LEMMA NoJobType == NoJob \in Jobs /\ NoSync \in Syncs
  BY DEF NoJob, NoSync, Jobs, Syncs

\* A prefix and a suffix of the live file are made of its rows.
LEMMA PrefixFacts ==
  ASSUME NEW T, NEW s \in Seq(T), NEW n \in Int, n <= Len(s)
  PROVE  /\ SubSeq(s, 1, n) \in Seq(T)
         /\ Len(SubSeq(s, 1, n)) = IF n > 0 THEN n ELSE 0
         /\ \A i \in 1..Len(SubSeq(s, 1, n)) : SubSeq(s, 1, n)[i] = s[i]
<1>1. \A i \in 1..n : s[i] \in T
  BY LenProperties, ElementOfSeq
<1>2. QED
  BY <1>1, SubSeqProperties

LEMMA SuffixFacts ==
  ASSUME NEW T, NEW s \in Seq(T), NEW m \in Nat, m <= Len(s)
  PROVE  /\ SubSeq(s, m + 1, Len(s)) \in Seq(T)
         /\ Len(SubSeq(s, m + 1, Len(s))) = Len(s) - m
         /\ \A i \in 1..(Len(s) - m) : SubSeq(s, m + 1, Len(s))[i] = s[m + i]
<1>1. \A i \in (m + 1)..Len(s) : s[i] \in T
  BY LenProperties, ElementOfSeq
<1>2. QED
  BY <1>1, SubSeqProperties

\* The new live file is the old one without its first n rows, wherever the copy ended.
LEMMA RenamedFile ==
  ASSUME NEW T, NEW s \in Seq(T), NEW n \in Nat, NEW m \in Nat, n <= m, m <= Len(s)
  PROVE  LET t == SubSeq(s, n + 1, m) \o SubSeq(s, m + 1, Len(s))
         IN  /\ t \in Seq(T)
             /\ Len(t) = Len(s) - n
             /\ \A i \in 1..Len(t) : t[i] = s[n + i]
<1> DEFINE u == SubSeq(s, n + 1, m)
           v == SubSeq(s, m + 1, Len(s))
<1>1. /\ u \in Seq(T) /\ Len(u) = m - n
      /\ \A i \in 1..(m - n) : u[i] = s[n + i]
  <2>1. \A i \in (n + 1)..m : s[i] \in T
    BY LenProperties, ElementOfSeq
  <2>2. QED
    BY <2>1, SubSeqProperties
<1>2. /\ v \in Seq(T) /\ Len(v) = Len(s) - m
      /\ \A i \in 1..(Len(s) - m) : v[i] = s[m + i]
  BY SuffixFacts
<1> HIDE DEF u, v
<1>3. /\ u \o v \in Seq(T) /\ Len(u \o v) = Len(s) - n
      /\ \A i \in 1..Len(u \o v) : (u \o v)[i] = IF i <= Len(u) THEN u[i] ELSE v[i - Len(u)]
  <2>1. /\ u \o v \in Seq(T) /\ Len(u \o v) = Len(u) + Len(v)
        /\ \A i \in 1..(Len(u) + Len(v)) :
             (u \o v)[i] = IF i <= Len(u) THEN u[i] ELSE v[i - Len(u)]
    BY ONLY <1>1, <1>2, ConcatProperties
  <2>2. Len(u) + Len(v) = Len(s) - n
    BY <1>1, <1>2
  <2>3. QED
    BY <2>1, <2>2
<1>4. \A i \in 1..Len(u \o v) : (u \o v)[i] = s[n + i]
  <2> SUFFICES ASSUME NEW i \in 1..Len(u \o v) PROVE (u \o v)[i] = s[n + i]
    OBVIOUS
  <2>1. CASE i <= m - n
    <3>1. i \in 1..(m - n) /\ i <= Len(u)
      BY <1>1, <1>3, <2>1
    <3>2. QED
      BY <1>1, <1>3, <3>1
  <2>2. CASE i > m - n
    <3>1. i - (m - n) \in 1..(Len(s) - m)
      BY <1>3, <2>2
    <3>2. (u \o v)[i] = v[i - (m - n)]
      BY <1>1, <1>3, <2>2
    <3>3. v[i - (m - n)] = s[m + (i - (m - n))]
      BY <1>2, <3>1
    <3>4. m + (i - (m - n)) = n + i
      BY <3>1
    <3>5. QED
      BY <3>2, <3>3, <3>4
  <2>3. QED
    BY <1>3, <2>1, <2>2
<1>5. QED
  BY <1>3, <1>4 DEF u, v

-----------------------------------------------------------------------------
(* At first the invariant holds.                                           *)

LEMMA InitIInv == Init => IInv
<1> SUFFICES ASSUME Init PROVE IInv
  OBVIOUS
<1> USE DEF Init
<1>1. /\ FirstRows \in Nat \ {0} /\ MaxRows \in Nat \ {0} /\ FirstRows <= MaxRows
  BY BoundsAssumption
<1>2. /\ live.rows \in Seq(1..MaxRows) /\ Size = FirstRows /\ Base = 0 /\ live.ino = 1
      /\ \A i \in 1..FirstRows : live.rows[i] = i
  <2>1. [i \in 1..FirstRows |-> i] \in [1..FirstRows -> 1..MaxRows]
    BY <1>1
  <2>2. [i \in 1..FirstRows |-> i] \in Seq(1..MaxRows)
    BY <1>1, <2>1, SeqDef
  <2>3. QED
    BY <1>1, <2>2 DEF Size, Base
<1>3. /\ segments \in Seq(Segments) /\ gz \in Seq(Seq(1..MaxRows))
      /\ sent \in SUBSET (1..MaxRows)
  <2> DEFINE one   == <<1>>
             entry == [seq |-> 1, rows |-> one,
                       pending |-> [source |-> 1, replacement |-> 2, cursor |-> 0]]
  <2>1. one \in Seq(1..MaxRows)
    BY <1>1
  <2>2. entry \in Segments
    BY <2>1 DEF Segments, Drops
  <2>3. \/ segments = <<>> /\ gz = <<>> /\ sent = {}
        \/ segments = <<entry>> /\ gz = <<one>> /\ sent = {1}
    OBVIOUS
  <2> HIDE DEF one, entry
  <2>4. <<entry>> \in Seq(Segments) /\ <<one>> \in Seq(Seq(1..MaxRows))
    BY <2>1, <2>2
  <2>5. <<>> \in Seq(Segments) /\ <<>> \in Seq(Seq(1..MaxRows))
    BY EmptySeq
  <2>6. {} \in SUBSET (1..MaxRows) /\ {1} \in SUBSET (1..MaxRows)
    BY <1>1
  <2>7. CASE segments = <<>> /\ gz = <<>> /\ sent = {}
    BY <2>5, <2>6, <2>7
  <2>8. CASE segments = <<entry>> /\ gz = <<one>> /\ sent = {1}
    BY <2>4, <2>6, <2>8
  <2>9. QED
    BY <2>3, <2>7, <2>8, Zenon
<1>4. TypeInv
  <2>1. TypeOK
    BY <1>1, <1>2, <1>3, NoJobType DEF TypeOK, L!vars, L!Init
  <2>2. QED
    BY <2>1 DEF TypeInv, KindInv, Fits, States, NoJob, L!Init, Committed, Critical,
       Copied
<1>5. LogInv /\ ClaimInv
  BY <1>1, <1>2 DEF LogInv, ClaimInv
<1>6. ArchiveInv /\ KeptInv
  <2>1. CASE segments = <<>>
    BY <1>2, <2>1 DEF ArchiveInv, KeptInv
  <2>2. CASE segments # <<>>
    <3>1. /\ DOMAIN segments = {1} /\ segments[1].seq = 1 /\ segments[1].rows = <<1>>
          /\ segments[1].pending = [source |-> 1, replacement |-> 2, cursor |-> 0]
          /\ DOMAIN gz = {1} /\ gz[1] = <<1>>
      BY <2>2
    <3>2. [source |-> 1, replacement |-> 2, cursor |-> 0] # None
      BY RecordAssumption DEF Drops
    <3>3. ~Gone(segments[1]) /\ ~Landed(segments[1])
      BY <1>2, <3>1, <3>2 DEF Gone, Landed
    <3>4. QED
      BY <1>2, <3>1, <3>3 DEF ArchiveInv, KeptInv
  <2>3. QED
    BY <2>1, <2>2
<1>7. CommandInv /\ FreshInv /\ SyncInv
  BY <1>2 DEF CommandInv, SourceInv, PlanInv, HolderInv, FreshInv, SyncInv, Cuts, Holds,
     Committed, Critical, Copied, NoJob, NoSync
<1>8. QED
  BY <1>4, <1>5, <1>6, <1>7 DEF IInv, WorldInv

-----------------------------------------------------------------------------
(* Types, the lock, and what each command does where.                      *)

\* A step of a command that does not touch the lock.
LEMMA KindStep ==
  ASSUME TypeInv, NEW c \in Compactor, c \notin dead, UNCHANGED lock,
         NEW state \in States, NEW j \in Jobs, Become(c, state, j),
         Fits(state, j), state \in Critical => holder = c
  PROVE  /\ pc' \in [Compactor -> States] /\ job' \in [Compactor -> Jobs]
         /\ \A d \in Compactor : KindInv(d)'
  BY BecomeFacts DEF TypeInv, KindInv, lock

\* A step of the holder that leaves its job alone.
LEMMA HolderStep ==
  ASSUME TypeInv, NEW c \in Compactor, NEW state \in Critical, pc[c] \in Critical,
         c \notin dead, UNCHANGED lock, Stay(c, state), Fits(state, job[c])
  PROVE  /\ pc' \in [Compactor -> States] /\ job' \in [Compactor -> Jobs]
         /\ \A d \in Compactor : KindInv(d)'
<1>1. job[c] \in Jobs /\ holder = c /\ state \in States
  BY DEF TypeInv, TypeOK, KindInv, States
<1>2. QED
  BY <1>1, KindStep DEF Stay

LEMMA NextTypeInv ==
  ASSUME IInv, [Next]_vars
  PROVE  TypeInv'
<1> USE BoundsAssumption DEF log, archive, lock, compact, sync, server, Reading, Locked
<1>1. TypeInv /\ TypeOK
  BY DEF IInv, TypeInv
<1>2. /\ live \in [ino : Nat, rows : Seq(1..MaxRows)]
      /\ appended \in 1..MaxRows /\ cursor \in Nat
      /\ segments \in Seq(Segments) /\ gz \in Seq(Seq(1..MaxRows))
      /\ claim \in Claims \cup {None}
      /\ holder \in Compactor \cup {None} /\ dead \in SUBSET Compactor
      /\ job \in [Compactor -> Jobs] /\ sjob \in [Syncer -> Syncs]
      /\ sent \in SUBSET (1..MaxRows) /\ waived \in SUBSET (1..MaxRows)
      /\ dropped \in SUBSET (1..MaxRows) /\ Size \in Nat
  BY <1>1 DEF TypeOK, L!vars, Size
<1>3. ASSUME UNCHANGED <<pc, holder, dead, job>>
      PROVE  pc' \in [Compactor -> States] /\ \A c \in Compactor : KindInv(c)'
  BY <1>1, <1>3 DEF TypeInv, KindInv
<1>4. ASSUME AddRow PROVE TypeInv'
  <2>1. /\ appended' \in 1..MaxRows /\ live' \in [ino : Nat, rows : Seq(1..MaxRows)]
    <3>1. appended + 1 \in 1..MaxRows
      BY <1>2, <1>4 DEF AddRow
    <3>2. Append(live.rows, appended + 1) \in Seq(1..MaxRows)
      BY <1>2, <3>1, AppendProperties
    <3>3. QED
      BY <1>2, <1>4, <3>1, <3>2 DEF AddRow
  <2>2. QED
    BY <1>2, <1>3, <1>4, <2>1 DEF AddRow, TypeInv, TypeOK, L!vars
<1>5. ASSUME Clean PROVE TypeInv'
  <2>1. PICK cut \in 1..(Size - TailRows), ino \in Inodes :
          /\ Unused(ino)
          /\ live' = [ino |-> ino, rows |-> SubSeq(live.rows, cut + 1, Size)]
          /\ dropped' = ToSet(SubSeq(live.rows, 1, cut))
    BY <1>5 DEF Clean, Truncate
  <2>2. ino \in Nat /\ cut \in Nat /\ cut <= Size /\ Size = Len(live.rows)
    BY <1>1, <1>2, <2>1, NewFile DEF Size
  <2>3. live.rows \in Seq(1..MaxRows)
    BY <1>2
  <2>4. /\ SubSeq(live.rows, cut + 1, Size) \in Seq(1..MaxRows)
        /\ SubSeq(live.rows, 1, cut) \in Seq(1..MaxRows)
    <3> DEFINE rows == live.rows
    <3>1. rows \in Seq(1..MaxRows) /\ cut \in Int /\ cut <= Len(rows) /\ Size = Len(rows)
      BY <2>2, <2>3
    <3> HIDE DEF rows
    <3>2. SubSeq(rows, cut + 1, Len(rows)) \in Seq(1..MaxRows)
      BY <2>2, <3>1, SuffixFacts
    <3>3. SubSeq(rows, 1, cut) \in Seq(1..MaxRows)
      BY <3>1, PrefixFacts
    <3>4. QED
      BY <3>1, <3>2, <3>3 DEF rows
  <2>5. dropped' \in SUBSET (1..MaxRows)
    BY <2>1, <2>4, LenProperties, ElementOfSeq DEF ToSet
  <2>6. QED
    BY <1>2, <1>3, <1>5, <2>1, <2>2, <2>4, <2>5
    DEF Clean, Truncate, TypeInv, TypeOK, L!vars
<1>6. ASSUME NEW s \in Syncer,
             \/ SyncBegin(s) \/ Capture(s) \/ ReadPage(s) \/ UploadAnswered(s)
             \/ UploadFails(s) \/ Checkpoint(s) \/ CheckpointTorn(s)
      PROVE  TypeInv'
  <2> USE DEF SyncReads, SyncBecome, SyncEnd
  <2>1. sjob[s] \in Syncs /\ NoSync \in Syncs
    BY <1>2, NoJobType
  <2>2. CASE SyncBegin(s)
    <3>1. [NoSync EXCEPT !.from = cursor] \in Syncs
      BY <1>2, <2>1 DEF Syncs
    <3>2. QED
      BY <1>2, <1>3, <2>2, <3>1 DEF SyncBegin, TypeInv, TypeOK, L!vars
  <2>3. CASE Capture(s)
    <3>1. [sjob[s] EXCEPT !.ino = live.ino, !.end = Size] \in Syncs
      BY <1>2, <2>1 DEF Syncs
    <3>2. sjob' \in [Syncer -> Syncs]
      BY <1>2, <2>1, <2>3, <3>1 DEF Capture
    <3>3. QED
      BY <1>2, <1>3, <2>3, <3>2 DEF Capture, TypeInv, TypeOK, L!vars
  <2>4. CASE ReadPage(s)
    <3> DEFINE j  == sjob[s]
               to == Smaller(j.from + PageRows, j.end)
               page == ToSet(SubSeq(live.rows, j.from + 1, to))
    <3>1. j.from \in Nat /\ j.end \in Nat /\ to \in Nat
      BY <2>1 DEF Syncs, Smaller
    <3>2. CASE j.from < j.end /\ live.ino = j.ino
      <4>1. to <= Size
        <5>1. j.end <= Size /\ Size \in Nat
          BY <1>2, <3>2 DEF IInv, SyncInv
        <5>2. to <= j.end
          BY <3>1, BoundsAssumption DEF Smaller
        <5>3. QED
          BY <3>1, <5>1, <5>2
      <4>2. \A i \in (j.from + 1)..to : live.rows[i] \in 1..MaxRows
        <5>1. live.rows \in Seq(1..MaxRows)
          BY <1>2
        <5>2. \A i \in (j.from + 1)..to : i \in 1..Len(live.rows)
          <6>1. Size = Len(live.rows) /\ Size \in Nat
            BY <1>2 DEF Size
          <6>2. QED
            BY <3>1, <4>1, <6>1
        <5>3. QED
          BY <5>1, <5>2, ElementOfSeq
      <4>3. SubSeq(live.rows, j.from + 1, to) \in Seq(1..MaxRows)
        BY <3>1, <4>2, SubSeqProperties
      <4>4. page \in SUBSET (1..MaxRows)
        <5> DEFINE t == SubSeq(live.rows, j.from + 1, to)
        <5> HIDE DEF t
        <5>1. \A i \in DOMAIN t : t[i] \in 1..MaxRows
          BY <4>3, LenProperties, ElementOfSeq DEF t
        <5>2. ToSet(t) \in SUBSET (1..MaxRows)
          BY <5>1 DEF ToSet
        <5>3. QED
          BY <5>2 DEF t
      <4> HIDE DEF to, page
      <4>5. [j EXCEPT !.to = to, !.page = page] \in Syncs
        BY <2>1, <3>1, <4>4 DEF Syncs
      <4>6. sjob' = [sjob EXCEPT ![s] = [j EXCEPT !.to = to, !.page = page]]
        BY <2>4, <3>2 DEF ReadPage, to, page
      <4>7. QED
        BY <1>2, <1>3, <2>4, <4>5, <4>6 DEF ReadPage, TypeInv, TypeOK, L!vars
    <3>3. CASE ~(j.from < j.end /\ live.ino = j.ino)
      BY <1>2, <1>3, <2>1, <2>4, <3>3 DEF ReadPage, TypeInv, TypeOK, L!vars
    <3>4. QED
      BY <3>2, <3>3
  <2>5. CASE UploadAnswered(s)
    <3>1. [sjob[s] EXCEPT !.page = {}] \in Syncs /\ sjob[s].page \in SUBSET (1..MaxRows)
      BY <2>1 DEF Syncs
    <3>2. QED
      BY <1>2, <1>3, <2>5, <3>1 DEF UploadAnswered, TypeInv, TypeOK, L!vars
  <2>6. CASE UploadFails(s)
    <3>1. sjob[s].page \in SUBSET (1..MaxRows)
      BY <2>1 DEF Syncs
    <3>2. QED
      BY <1>2, <1>3, <2>1, <2>6, <3>1 DEF UploadFails, TypeInv, TypeOK, L!vars
  <2>7. CASE Checkpoint(s)
    <3>1. sjob[s].to \in Nat /\ [sjob[s] EXCEPT !.from = sjob[s].to] \in Syncs
      BY <2>1 DEF Syncs
    <3>2. cursor' \in Nat /\ sjob' \in [Syncer -> Syncs]
      BY <1>2, <2>1, <2>7, <3>1 DEF Checkpoint
    <3>3. QED
      BY <1>2, <1>3, <2>7, <3>2 DEF Checkpoint, TypeInv, TypeOK, L!vars
  <2>8. CASE CheckpointTorn(s)
    BY <1>2, <1>3, <2>1, <2>8 DEF CheckpointTorn, TypeInv, TypeOK, L!vars
  <2>9. QED
    BY <1>6, <2>2, <2>3, <2>4, <2>5, <2>6, <2>7, <2>8
<1>7. ASSUME NEW c \in Compactor, NEW state \in States, NEW j \in Jobs, c \notin dead,
             Become(c, state, j), Fits(state, j), state \notin Critical, Reading
      PROVE  TypeInv'
  <2>1. /\ pc' \in [Compactor -> States] /\ job' \in [Compactor -> Jobs]
        /\ \A d \in Compactor : KindInv(d)'
    BY <1>1, <1>7, KindStep
  <2>2. QED
    BY <1>2, <1>7, <2>1 DEF TypeInv, TypeOK, L!vars
<1>8. ASSUME NEW c \in Compactor PROVE job[c] \in Jobs /\ NoJob \in Jobs
  BY <1>2, NoJobType
<1>9. ASSUME NEW c \in Compactor, c \notin dead, End(c), Reading PROVE TypeInv'
  BY <1>7, <1>8, <1>9 DEF End, Fits, States, Critical, Copied, Committed
<1>10. ASSUME NEW c \in Compactor, Begin(c) PROVE TypeInv'
  <2>1. PICK kind \in Rotations :
          Become(c, "manifest", [NoJob EXCEPT !.kind = kind, !.source = live.ino,
                                              !.size = Size, !.cursor = cursor])
    BY <1>10 DEF Begin, Rotations
  <2> DEFINE j == [NoJob EXCEPT !.kind = kind, !.source = live.ino,
                                !.size = Size, !.cursor = cursor]
  <2>2. j \in Jobs /\ j.kind = kind
    BY <1>2, <1>8 DEF Jobs, Rotations
  <2> HIDE DEF j
  <2>3. Fits("manifest", j) /\ "manifest" \in States \ Critical
    BY <2>2 DEF Fits, States, Critical, Copied, Committed
  <2>4. QED
    BY <1>7, <1>10, <2>1, <2>2, <2>3 DEF Begin, At, j
<1>11. ASSUME NEW c \in Compactor, ReadManifest(c) PROVE TypeInv'
  <2> DEFINE j == [job[c] EXCEPT !.pending = PendingSegment]
  <2>1. PendingSegment \in Segments \cup {None}
    BY <1>2, PendingSegmentFacts
  <2>2. j \in Jobs /\ j.kind = job[c].kind
    BY <1>8, <2>1 DEF Jobs
  <2>3. job[c].kind \in Rotations
    BY <1>1, <1>11 DEF ReadManifest, At, TypeInv, KindInv, Fits
  <2> HIDE DEF j
  <2>4. Fits("claim", j) /\ "claim" \in States \ Critical
    BY <2>2, <2>3 DEF Fits, States, Critical, Copied, Committed
  <2>5. QED
    BY <1>7, <1>11, <2>2, <2>4 DEF ReadManifest, At, j
<1>12. ASSUME NEW c \in Compactor, ReadClaim(c) PROVE TypeInv'
  <2>1. c \notin dead /\ Reading /\ job[c].kind \in Rotations
    BY <1>1, <1>12 DEF ReadClaim, At, TypeInv, KindInv, Fits
  <2>2. CASE Become(c, "prepare", job[c])
    BY <1>7, <1>8, <2>1, <2>2 DEF Fits, States, Critical, Copied, Committed
  <2>3. CASE claim = None /\ ResumeOld(c, PendingSegment)
    <3> DEFINE s == PendingSegment
               k == [seq |-> s.seq, rows |-> s.rows, source |-> live.ino,
                     replacement |-> 0, cursor |-> s.pending.cursor]
               j == [NoJob EXCEPT !.kind = "old", !.source = s.pending.source, !.claim = k]
    <3>1. End(c) \/ (s # None /\ Become(c, "prepare", j))
      BY <2>3 DEF ResumeOld
    <3>2. CASE s # None /\ Become(c, "prepare", j)
      <4>1. s \in Segments /\ s.pending \in Drops
        <5>1. PICK i \in DOMAIN segments : Pending(segments[i]) /\ s = segments[i]
          BY <1>2, <3>2, PendingSegmentFacts
        <5>2. segments[i] \in Segments
          BY <1>2, <5>1
        <5>3. QED
          BY <5>1, <5>2 DEF Segments, Pending
      <4>2. k \in Claims /\ k # None
        <5>1. /\ s.seq \in Nat /\ s.rows \in Seq(1..MaxRows) /\ live.ino \in Nat
              /\ s.pending.cursor \in Nat
          BY <1>2, <4>1 DEF Segments, Drops
        <5>2. k \in Claims
          BY <5>1 DEF Claims
        <5>3. QED
          BY <5>2, RecordAssumption
      <4> HIDE DEF k
      <4>3. j \in Jobs /\ j.kind = "old" /\ j.claim = k
        BY <1>8, <4>1, <4>2 DEF Jobs, Drops
      <4> HIDE DEF j
      <4>4. Fits("prepare", j) /\ "prepare" \in States \ Critical
        BY <4>2, <4>3 DEF Fits, States, Critical, Copied, Committed, Rotations
      <4>5. QED
        BY <1>7, <2>1, <3>2, <4>3, <4>4
    <3>3. QED
      BY <1>9, <2>1, <3>1, <3>2
  <2>4. CASE claim # None /\ Resume(c, claim)
    <3> DEFINE f == [NoJob EXCEPT !.kind = "finish", !.source = claim.replacement,
                                  !.claim = claim]
               r == [NoJob EXCEPT !.kind = "resume", !.source = claim.source,
                                  !.claim = claim]
    <3>1. End(c) \/ Become(c, "lock", f) \/ Become(c, "prepare", r)
      BY <2>4 DEF Resume
    <3>2. claim \in Claims
      BY <1>2, <2>4
    <3>3. /\ f \in Jobs /\ f.kind = "finish" /\ f.claim = claim
          /\ r \in Jobs /\ r.kind = "resume" /\ r.claim = claim
      BY <1>8, <3>2 DEF Jobs, Claims
    <3> HIDE DEF f, r
    <3>4. Fits("lock", f) /\ Fits("prepare", r) /\ {"lock", "prepare"} \subseteq States \ Critical
      BY <2>4, <3>3 DEF Fits, States, Critical, Copied, Committed, Rotations
    <3>5. QED
      BY <1>7, <1>9, <2>1, <3>1, <3>3, <3>4
  <2>5. CASE End(c)
    BY <1>9, <2>1, <2>5
  <2>6. QED
    BY <1>12, <2>2, <2>3, <2>4, <2>5 DEF ReadClaim
<1>13. ASSUME NEW c \in Compactor, Prepare(c) PROVE TypeInv'
  <2>1. c \notin dead /\ Reading /\ pc[c] = "prepare"
    BY <1>13 DEF Prepare, At
  <2> DEFINE j   == job[c]
             cut == PlanCut(j)
             new == [seq |-> 0, rows |-> SubSeq(live.rows, 1, cut), source |-> live.ino,
                     replacement |-> 0, cursor |-> Lowered(j.cursor, cut)]
             J(k, ino) == [j EXCEPT !.claim = [k EXCEPT !.replacement = ino],
                                    !.copied = Size, !.verified = Published(k)]
  <2>2. ASSUME NEW k \in Claims, NEW ino \in Nat, Become(c, "lock", J(k, ino))
        PROVE  TypeInv'
    <3>1. [k EXCEPT !.replacement = ino] \in Claims /\ Published(k) \in BOOLEAN
      BY DEF Claims, Published
    <3>2. [k EXCEPT !.replacement = ino] # None
      BY <3>1, RecordAssumption
    <3>3. /\ J(k, ino) \in Jobs /\ J(k, ino).kind = j.kind
          /\ J(k, ino).claim = [k EXCEPT !.replacement = ino]
      BY <1>2, <1>8, <3>1 DEF Jobs
    <3>4. j.kind \in Rotations \cup {"resume", "old"}
      BY <1>1, <2>1 DEF TypeInv, KindInv, Fits
    <3> HIDE DEF J
    <3>5. Fits("lock", J(k, ino)) /\ "lock" \in States \ Critical
      BY <3>2, <3>3, <3>4 DEF Fits, States, Critical, Copied, Committed, Rotations
    <3>6. QED
      BY <1>7, <2>1, <2>2, <3>3, <3>5
  <2>3. \/ End(c)
        \/ /\ live.ino = j.source /\ j.kind \in Rotations /\ cut > 0
           /\ \E ino \in Inodes : Unused(ino) /\ Become(c, "lock", J(new, ino))
        \/ /\ j.kind \notin Rotations
           /\ \E ino \in Inodes : Unused(ino) /\ Become(c, "lock", J(j.claim, ino))
    BY <1>13 DEF Prepare, Rotates, Rotations
  <2>4. \A ino \in Inodes : Unused(ino) => ino \in Nat
    BY <1>1, NewFile
  <2>5. ASSUME live.ino = j.source, cut > 0 PROVE new \in Claims
    <3>1. j.size <= Size /\ j.cursor \in Nat
      BY <1>8, <2>5 DEF IInv, CommandInv, SourceInv, Jobs
    <3>2. cut \in Int /\ cut <= Size
      <4>1. j \in Jobs /\ j.size \in Nat
        BY <1>8 DEF Jobs
      <4> HIDE DEF j
      <4>2. PlanCut(j) \in Int /\ PlanCut(j) <= j.size
        BY <4>1, CutBound
      <4>3. QED
        BY <1>2, <3>1, <4>1, <4>2
    <3>3. SubSeq(live.rows, 1, cut) \in Seq(1..MaxRows)
      BY <1>2, <3>2, PrefixFacts DEF Size
    <3>4. Lowered(j.cursor, cut) \in Nat
      BY <2>5, <3>1, <3>2, LoweredType
    <3>5. QED
      BY <1>2, <3>3, <3>4 DEF Claims
  <2>6. j.kind \notin Rotations => j.claim \in Claims
    BY <1>1, <1>8, <2>1 DEF TypeInv, KindInv, Fits, Jobs
  <2> HIDE DEF new, J, j, cut
  <2>7. QED
    BY <1>9, <2>1, <2>2, <2>3, <2>4, <2>5, <2>6
<1>14. ASSUME NEW c \in Compactor, Enter(c) PROVE TypeInv'
  <2>1. /\ pc[c] = "lock" /\ c \notin dead /\ holder = None /\ holder' = c /\ dead' = dead
        /\ UNCHANGED <<log, cursor, archive, sync, server>>
    BY <1>14 DEF Enter, At, L!Take
  <2>2. PICK state \in {"unlock", "complete", "publish"} :
          Stay(c, state) /\ (state = "publish" => job[c].kind # "finish")
    BY <1>14 DEF Enter
  <2>3. /\ pc' \in [Compactor -> States] /\ job' = job
        /\ pc'[c] = state /\ \A d \in Compactor \ {c} : pc'[d] = pc[d]
    BY <1>1, <1>2, <1>8, <2>2, BecomeFacts DEF Stay, Become, States, Critical
  <2>4. \A d \in Compactor : pc[d] \notin Critical
    BY <1>1, <2>1, RecordAssumption DEF TypeInv, KindInv
  <2>5. Fits(state, job[c])
    BY <1>1, <2>1, <2>2 DEF TypeInv, KindInv, Fits, Copied, Committed, Rotations
  <2>6. \A d \in Compactor : KindInv(d)'
    BY <1>1, <2>1, <2>3, <2>4, <2>5 DEF TypeInv, KindInv
  <2>7. QED
    BY <1>2, <2>1, <2>3, <2>6 DEF TypeInv, TypeOK, L!vars
<1>15. ASSUME NEW c \in Compactor, pc[c] \in Critical
       PROVE  holder = c /\ Fits(pc[c], job[c])
  BY <1>1, <1>15 DEF TypeInv, KindInv
<1>16. ASSUME NEW c \in Compactor, Publish(c) PROVE TypeInv'
  <2> DEFINE k == [job[c].claim EXCEPT !.seq = Len(gz) + 1]
             j == [job[c] EXCEPT !.claim = k]
  <2>1. /\ pc[c] = "publish" /\ c \notin dead /\ Locked /\ pc[c] \in Critical
        /\ UNCHANGED <<live, cursor, gz>>
    BY <1>16 DEF Publish, At, Critical
  <2>2. job[c].claim \in Claims /\ job[c].kind \notin {"none", "finish"}
    BY <1>8, <1>15, <2>1 DEF Fits, Jobs, Copied, Committed
  <2>3. k \in Claims /\ k # None
    <3>1. k \in Claims
      <4>1. Len(gz) + 1 \in Nat
        BY <1>2, LenProperties
      <4>2. QED
        BY <2>2, <4>1 DEF Claims
    <3>2. QED
      BY <3>1, RecordAssumption
  <2>4. k.rows = job[c].claim.rows
    BY <2>2 DEF Claims
  <2>5. j \in Jobs /\ j.kind = job[c].kind /\ j.claim = k
    <3> HIDE DEF k
    <3>1. QED
      BY <1>8, <2>3 DEF Jobs
  <2> HIDE DEF k, j
  <2>6. CASE Stay(c, "unlock") /\ UNCHANGED <<claim, segments, waived>>
    BY <1>1, <1>2, <2>1, <2>6, HolderStep
    DEF TypeInv, TypeOK, L!vars, Fits, Critical, Copied, Committed
  <2>7. CASE /\ Rotates(c) /\ claim' = k /\ Become(c, "link", j) /\ UNCHANGED segments
             /\ waived' = IF job[c].kind = "rotateAll"
                          THEN waived \cup (ToSet(k.rows) \ sent) ELSE waived
    <3>1. ToSet(k.rows) \in SUBSET (1..MaxRows)
      BY <2>3, LenProperties, ElementOfSeq DEF Claims, ToSet
    <3>2. waived' \in SUBSET (1..MaxRows)
      BY <1>2, <2>7, <3>1
    <3>3. Fits("link", j) /\ "link" \in States /\ holder = c
      BY <1>15, <2>1, <2>3, <2>5, <2>7
      DEF Fits, Rotates, Rotations, States, Critical, Copied, Committed
    <3>4. /\ pc' \in [Compactor -> States] /\ job' \in [Compactor -> Jobs]
          /\ \A d \in Compactor : KindInv(d)'
      BY <1>1, <2>1, <2>5, <2>7, <3>3, KindStep
    <3>5. QED
      BY <1>2, <2>1, <2>3, <2>7, <3>2, <3>4 DEF TypeInv, TypeOK, L!vars
  <2>8. CASE /\ job[c].kind = "resume" /\ claim' = job[c].claim /\ Stay(c, "link")
             /\ UNCHANGED <<segments, waived>>
    <3>1. Fits("link", job[c]) /\ "link" \in Critical
      BY <1>15, <2>1, <2>8 DEF Fits, Critical, Copied, Committed, Rotations
    <3>2. QED
      BY <1>1, <1>2, <2>1, <2>2, <2>8, <3>1, HolderStep DEF TypeInv, TypeOK, L!vars
  <2>9. CASE /\ job[c].kind = "old"
             /\ segments' = WithPending(job[c].claim.seq, Drop(job[c].claim))
             /\ Stay(c, "cursor")
             /\ UNCHANGED <<claim, waived>>
    <3>1. Fits("cursor", job[c]) /\ "cursor" \in Critical
      BY <1>15, <2>1, <2>9 DEF Fits, Critical, Copied, Committed, Rotations
    <3>2. Drop(job[c].claim) \in Drops
      BY <2>2 DEF Drop, Drops, Claims
    <3>3. segments' \in Seq(Segments)
      BY <1>2, <2>9, <3>2, WithPendingFacts
    <3>4. QED
      BY <1>1, <1>2, <2>1, <2>9, <3>1, <3>3, HolderStep DEF TypeInv, TypeOK, L!vars
  <2>10. QED
    BY <1>16, <2>6, <2>7, <2>8, <2>9 DEF Publish, k, j
<1>17. ASSUME NEW c \in Compactor, LinkSegment(c) PROVE TypeInv'
  <2>1. /\ pc[c] = "link" /\ c \notin dead /\ Locked /\ pc[c] \in Critical
        /\ UNCHANGED <<live, cursor, segments, claim, waived>>
    BY <1>17 DEF LinkSegment, At, Critical
  <2>2. job[c].claim \in Claims
    BY <1>8, <1>15, <2>1 DEF Fits, Jobs, Copied, Committed
  <2>3. PICK state \in {"store", "unlock"} : Stay(c, state)
    BY <1>17 DEF LinkSegment
  <2>4. Fits(state, job[c]) /\ state \in Critical
    BY <1>15, <2>1 DEF Fits, Critical, Copied, Committed
  <2>5. gz' \in Seq(Seq(1..MaxRows))
    <3>1. Append(gz, job[c].claim.rows) \in Seq(Seq(1..MaxRows))
      BY <1>2, <2>2, AppendProperties DEF Claims
    <3>2. QED
      BY <1>2, <1>17, <3>1 DEF LinkSegment
  <2>6. QED
    BY <1>1, <1>2, <2>1, <2>3, <2>4, <2>5, HolderStep DEF TypeInv, TypeOK, L!vars
<1>18. ASSUME NEW c \in Compactor, StoreSegment(c) PROVE TypeInv'
  <2>1. /\ pc[c] = "store" /\ c \notin dead /\ Locked /\ pc[c] \in Critical
        /\ UNCHANGED <<live, cursor, gz, claim, waived>>
    BY <1>18 DEF StoreSegment, At, Critical
  <2>2. job[c].claim \in Claims
    BY <1>8, <1>15, <2>1 DEF Fits, Jobs, Copied, Committed
  <2>3. PICK state \in {"cursor", "unlock"} : Stay(c, state)
    BY <1>18 DEF StoreSegment
  <2>4. Fits(state, job[c]) /\ state \in Critical
    BY <1>15, <2>1 DEF Fits, Critical, Copied, Committed
  <2> DEFINE k     == job[c].claim
             entry == [seq |-> k.seq, rows |-> k.rows, pending |-> Drop(k)]
  <2>5. Drop(k) \in Drops
    BY <2>2 DEF Drop, Drops, Claims
  <2>6. entry \in Segments
    BY <2>2, <2>5 DEF Segments, Claims
  <2>7. segments' \in {segments, WithPending(k.seq, Drop(k)), Append(segments, entry)}
    BY <1>18 DEF StoreSegment
  <2> HIDE DEF entry
  <2>8. segments' \in Seq(Segments)
    <3>1. Append(segments, entry) \in Seq(Segments)
      BY <1>2, <2>6, AppendProperties
    <3>2. WithPending(k.seq, Drop(k)) \in Seq(Segments)
      BY <1>2, <2>5, WithPendingFacts
    <3>3. QED
      BY <1>2, <2>7, <3>1, <3>2
  <2>9. QED
    BY <1>1, <1>2, <2>1, <2>3, <2>4, <2>8, HolderStep DEF TypeInv, TypeOK, L!vars
<1>19. ASSUME NEW c \in Compactor, WriteCursor(c) PROVE TypeInv'
  <2>1. /\ pc[c] = "cursor" /\ c \notin dead /\ Locked /\ pc[c] \in Critical
        /\ UNCHANGED <<live, archive, waived>> /\ cursor' = job[c].claim.cursor
    BY <1>19 DEF WriteCursor, At, Critical
  <2>2. job[c].claim \in Claims
    BY <1>8, <1>15, <2>1 DEF Fits, Jobs, Copied, Committed
  <2>3. PICK state \in {"unclaim", "rename"} :
          Stay(c, state) /\ state = IF job[c].kind = "finish" THEN "unclaim" ELSE "rename"
    BY <1>19 DEF WriteCursor
  <2>4. Fits(state, job[c]) /\ state \in Critical
    BY <1>15, <2>1, <2>3 DEF Fits, Critical, Copied, Committed
  <2>5. cursor' \in Nat
    BY <2>1, <2>2 DEF Claims
  <2>6. QED
    BY <1>1, <1>2, <2>1, <2>3, <2>4, <2>5, HolderStep DEF TypeInv, TypeOK, L!vars
<1>20. ASSUME NEW c \in Compactor, Rename(c) PROVE TypeInv'
  <2>1. /\ pc[c] = "rename" /\ c \notin dead /\ Locked /\ pc[c] \in Critical
        /\ UNCHANGED <<cursor, archive, waived>> /\ Stay(c, "complete")
        /\ live' = [ino  |-> job[c].claim.replacement,
                    rows |-> SubSeq(live.rows, Len(job[c].claim.rows) + 1, job[c].copied)
                               \o CaughtUp(c)]
    BY <1>20 DEF Rename, At, Critical
  <2>2. /\ job[c].claim \in Claims /\ job[c].copied \in Nat /\ Holds(c)
        /\ Len(job[c].claim.rows) \in Nat
    BY <1>8, <1>15, <2>1, LenProperties DEF Fits, Jobs, Copied, Committed, Holds, Claims
  <2>3. Len(job[c].claim.rows) <= job[c].copied /\ job[c].copied <= Size
    BY <2>1, <2>2 DEF IInv, CommandInv, HolderInv, PlanInv
  <2>4. live'.rows \in Seq(1..MaxRows) /\ live' \in [ino : Nat, rows : Seq(1..MaxRows)]
    BY <1>2, <2>1, <2>2, <2>3, RenamedFile DEF CaughtUp, Size, Claims
  <2>5. Fits("complete", job[c]) /\ "complete" \in Critical
    BY <1>15, <2>1 DEF Fits, Critical, Copied, Committed
  <2>6. QED
    BY <1>1, <1>2, <2>1, <2>4, <2>5, HolderStep DEF TypeInv, TypeOK, L!vars
<1>21. ASSUME NEW c \in Compactor, Complete(c) PROVE TypeInv'
  <2>1. /\ pc[c] = "complete" /\ c \notin dead /\ Locked /\ pc[c] \in Critical
        /\ UNCHANGED <<live, cursor, gz, claim, waived>>
        /\ segments' = WithPending(job[c].claim.seq, None)
    BY <1>21 DEF Complete, At, Critical
  <2>2. PICK state \in {"cursor", "unlock", "unclaim"} :
          Stay(c, state) /\ (state = "unclaim" => job[c].kind # "old")
    BY <1>21 DEF Complete
  <2>3. Fits(state, job[c]) /\ state \in Critical
    BY <1>15, <2>1, <2>2 DEF Fits, Critical, Copied, Committed
  <2>4. segments' \in Seq(Segments)
    BY <1>2, <2>1, WithPendingFacts
  <2>5. QED
    BY <1>1, <1>2, <2>1, <2>2, <2>3, <2>4, HolderStep DEF TypeInv, TypeOK, L!vars
<1>22. ASSUME NEW c \in Compactor, Unclaim(c) PROVE TypeInv'
  <2>1. /\ pc[c] = "unclaim" /\ c \notin dead /\ Locked /\ pc[c] \in Critical
        /\ UNCHANGED <<live, cursor, segments, gz, waived>> /\ claim' = None
        /\ Stay(c, "unlock")
    BY <1>22 DEF Unclaim, At, Critical
  <2>2. Fits("unlock", job[c]) /\ "unlock" \in Critical
    BY DEF Fits, Critical, Copied, Committed
  <2>3. QED
    BY <1>1, <1>2, <2>1, <2>2, HolderStep DEF TypeInv, TypeOK, L!vars
<1>23. ASSUME NEW c \in Compactor, End(c), dead' \in SUBSET Compactor,
              holder' \in Compactor \cup {None},
              dead' \subseteq dead \cup {c}, holder' = None => holder \in {c, None},
              holder' # None => holder' = holder,
              UNCHANGED <<log, cursor, archive, sync, server>>
       PROVE  TypeInv'
  <2>1. /\ pc' \in [Compactor -> States] /\ job' \in [Compactor -> Jobs]
        /\ pc'[c] = "idle" /\ job'[c] = NoJob
        /\ \A d \in Compactor \ {c} : pc'[d] = pc[d] /\ job'[d] = job[d]
    BY <1>1, <1>8, <1>23, BecomeFacts DEF End, States
  <2>2. Fits("idle", NoJob) /\ "idle" \notin Critical
    BY DEF Fits, Critical, Copied, Committed
  <2>3. \A d \in Compactor : KindInv(d)'
    BY <1>1, <1>23, <2>1, <2>2, RecordAssumption DEF TypeInv, KindInv
  <2>4. QED
    BY <1>2, <1>23, <2>1, <2>3 DEF TypeInv, TypeOK, L!vars
<1>24. ASSUME NEW c \in Compactor, Leave(c) PROVE TypeInv'
  BY <1>2, <1>23, <1>24 DEF Leave, L!Release
<1>25. ASSUME NEW c \in Compactor, Kill(c) PROVE TypeInv'
  BY <1>2, <1>23, <1>25 DEF Kill, L!Die
<1>26. ASSUME NEW c \in Compactor, Revoke(c) PROVE TypeInv'
  <2>1. /\ holder = c /\ c \in dead /\ holder' = None /\ dead' = dead
        /\ UNCHANGED <<log, cursor, archive, compact, sync, server>>
    BY <1>26 DEF Revoke, L!Revoke
  <2>2. \A d \in Compactor : pc[d] \notin Critical
    BY <1>1, <2>1 DEF TypeInv, KindInv, Critical
  <2>3. \A d \in Compactor : KindInv(d)'
    BY <1>1, <2>1, <2>2 DEF TypeInv, KindInv
  <2>4. QED
    BY <1>1, <1>2, <2>1, <2>3 DEF TypeInv, TypeOK, L!vars
<1>27. ASSUME UNCHANGED vars PROVE TypeInv'
  BY <1>1, <1>2, <1>3, <1>27 DEF vars, TypeInv, TypeOK, L!vars
<1>28. QED
  BY <1>4, <1>5, <1>6, <1>10, <1>11, <1>12, <1>13, <1>14, <1>16, <1>17, <1>18, <1>19,
     <1>20, <1>21, <1>22, <1>24, <1>25, <1>26, <1>27
  DEF Next, CompactStep, SyncStep

-----------------------------------------------------------------------------
(* Steps that leave the log and the archive alone.                         *)

\* A command moves on: what it then knows must be true, and nothing that it has seen
\* may be the replacement of a copy.
LEMMA OwnStep ==
  ASSUME IInv, TypeInv', NEW c \in Compactor, NEW state \in States, NEW j \in Jobs,
         Become(c, state, j),
         UNCHANGED <<live, appended, segments, gz, claim, dropped, sjob>>,
         SourceInv(c)', PlanInv(c)', HolderInv(c)',
         Holds(c)' => Fresh(c)' /\ \A s \in Syncer : j.claim.replacement # sjob[s].ino,
         \A d \in Compactor \ {c} : Holds(d) =>
            /\ j.source # job[d].claim.replacement
            /\ j.claim # None => j.claim.source # job[d].claim.replacement
  PROVE  IInv'
<1>1. /\ pc'[c] = state /\ job'[c] = j
      /\ \A d \in Compactor \ {c} : pc'[d] = pc[d] /\ job'[d] = job[d]
  BY BecomeFacts DEF IInv
<1>2. WorldInv'
  BY DEF IInv, WorldInv, LogInv, ArchiveInv, ClaimInv, KeptInv, Planned, Renamed, Leading,
     Landed, Halfway, Gone, Base, Size
<1>3. ASSUME NEW d \in Compactor \ {c}
      PROVE  SourceInv(d)' /\ PlanInv(d)' /\ HolderInv(d)'
  BY <1>1, <1>3 DEF IInv, CommandInv, SourceInv, PlanInv, HolderInv, Planned, Renamed,
     Indexed, Leading, Landed, Halfway, Gone, Base, Size, Cuts, Holds, Rotates, Published,
     Drop
<1>4. CommandInv'
  BY <1>3 DEF CommandInv
<1>5. ASSUME NEW d \in Compactor \ {c}, Holds(d)'
      PROVE  Fresh(d)'
  <2>1. Holds(d) /\ Fresh(d)
    BY <1>1, <1>5 DEF Holds, IInv, FreshInv
  <2>2. Unseen(job[d].claim.replacement)'
    BY <1>1, <2>1 DEF Fresh, Unseen
  <2>3. \A e \in Compactor \ {d} : Holds(e)' => job'[e].claim.replacement # job[d].claim.replacement
    <3> SUFFICES ASSUME NEW e \in Compactor \ {d}, Holds(e)'
                 PROVE  job'[e].claim.replacement # job[d].claim.replacement
      OBVIOUS
    <3>1. CASE e = c
      BY <1>1, <1>5, <3>1 DEF Fresh
    <3>2. CASE e # c
      BY <1>1, <2>1, <3>2 DEF Fresh, Holds
    <3>3. QED
      BY <3>1, <3>2
  <2>4. QED
    BY <1>1, <2>1, <2>2, <2>3 DEF Fresh
<1>6. FreshInv'
  BY <1>5 DEF FreshInv
<1>7. SyncInv'
  BY <1>1 DEF IInv, SyncInv, Holds, Size
<1>8. QED
  BY <1>2, <1>4, <1>6, <1>7 DEF IInv

\* A command that has ended knows nothing.
LEMMA EndStep ==
  ASSUME IInv, TypeInv', NEW c \in Compactor, End(c),
         UNCHANGED <<live, appended, segments, gz, claim, dropped, sjob>>
  PROVE  IInv'
<1>1. "idle" \in States /\ NoJob \in Jobs /\ NoJob.source = 0 /\ NoJob.size = 0
      /\ NoJob.claim = None /\ NoJob.kind = "none"
  BY NoJobType DEF States, NoJob
<1>2. pc'[c] = "idle" /\ job'[c] = NoJob /\ Size' \in Nat
  BY <1>1, BecomeFacts DEF IInv, End, Size, TypeInv, TypeOK
<1>3. ~Cuts(c)' /\ ~Holds(c)'
  BY <1>2 DEF Cuts, Holds, Committed, Copied
<1>4. SourceInv(c)' /\ PlanInv(c)' /\ HolderInv(c)'
  BY <1>1, <1>2, <1>3 DEF SourceInv, PlanInv, HolderInv, Critical
<1>5. \A d \in Compactor : Holds(d) => job[d].claim.replacement # 0
  BY DEF IInv, FreshInv, Fresh, Unseen
<1>6. QED
  BY <1>1, <1>3, <1>4, <1>5, OwnStep DEF End

\* What others hold in store is a file that nobody has seen.
LEMMA SeenFile ==
  ASSUME IInv, NEW d \in Compactor, Holds(d)
  PROVE  LET r == job[d].claim.replacement
         IN  /\ r # 0 /\ r # live.ino
             /\ claim # None => claim.source # r
             /\ \A i \in DOMAIN segments : Pending(segments[i]) => segments[i].pending.source # r
             /\ \A c \in Compactor : /\ job[c].source # r
                                     /\ job[c].claim # None => job[c].claim.source # r
  BY DEF IInv, FreshInv, Fresh, Unseen

\* A command looks at the log, or at the lock.
LEMMA BeginStep ==
  ASSUME IInv, TypeInv', NEW c \in Compactor, Begin(c)
  PROVE  IInv'
<1>1. PICK kind \in Rotations :
        Become(c, "manifest", [NoJob EXCEPT !.kind = kind, !.source = live.ino,
                                            !.size = Size, !.cursor = cursor])
  BY DEF Begin, Rotations
<1> DEFINE j == [NoJob EXCEPT !.kind = kind, !.source = live.ino,
                              !.size = Size, !.cursor = cursor]
<1>2. j \in Jobs /\ j.source = live.ino /\ j.size = Size /\ j.claim = None /\ Size \in Nat
  <2>1. Size \in Nat /\ live.ino \in Nat /\ cursor \in Nat
    BY DEF IInv, TypeInv, TypeOK, Size
  <2>2. QED
    BY <2>1, NoJobType DEF Jobs, Rotations, NoJob
<1> HIDE DEF j
<1>3. "manifest" \in States /\ Become(c, "manifest", j)
      /\ UNCHANGED <<live, appended, segments, gz, claim, dropped, sjob>>
  BY <1>1 DEF Begin, Reading, log, archive, server, sync, States, j
<1>4. pc'[c] = "manifest" /\ job'[c] = j /\ Size' = Size
  BY <1>2, <1>3, BecomeFacts DEF IInv, Size
<1>5. ~Cuts(c)' /\ ~Holds(c)'
  BY <1>4 DEF Cuts, Holds, Committed, Copied
<1>6. SourceInv(c)' /\ PlanInv(c)' /\ HolderInv(c)'
  BY <1>2, <1>3, <1>4, <1>5 DEF SourceInv, PlanInv, HolderInv, Critical
<1>7. QED
  BY <1>2, <1>3, <1>5, <1>6, OwnStep, SeenFile

LEMMA ReadManifestStep ==
  ASSUME IInv, TypeInv', NEW c \in Compactor, ReadManifest(c)
  PROVE  IInv'
<1> DEFINE j == [job[c] EXCEPT !.pending = PendingSegment]
<1>1. segments \in Seq(Segments) /\ job[c] \in Jobs
  BY DEF IInv, TypeInv, TypeOK
<1>2. PendingSegment \in Segments \cup {None} /\ (Halfway => PendingSegment # None)
  <2>1. \A i \in DOMAIN segments : segments[i] \in Segments
    BY <1>1
  <2>2. QED
    BY <1>1, <2>1, PendingSegmentFacts, RecordAssumption DEF Halfway, Landed
<1>3. /\ j \in Jobs /\ j.pending = PendingSegment /\ j.claim = job[c].claim
      /\ j.source = job[c].source /\ j.size = job[c].size
  BY <1>1, <1>2 DEF Jobs
<1> HIDE DEF j
<1>4. "claim" \in States /\ Become(c, "claim", j)
      /\ UNCHANGED <<live, appended, segments, gz, claim, dropped, sjob>>
  BY DEF ReadManifest, Reading, log, archive, server, sync, States, j
<1>5. pc'[c] = "claim" /\ job'[c] = j /\ Size' = Size
  BY <1>3, <1>4, BecomeFacts DEF IInv, Size
<1>6. ~Cuts(c)' /\ ~Holds(c)'
  BY <1>5 DEF Cuts, Holds, Committed, Copied
<1>7. SourceInv(c)' /\ PlanInv(c)' /\ HolderInv(c)'
  BY <1>2, <1>3, <1>4, <1>5, <1>6
  DEF SourceInv, PlanInv, HolderInv, Critical, IInv, CommandInv, Halfway, Landed
<1>8. QED
  BY <1>3, <1>4, <1>6, <1>7, OwnStep, SeenFile

\* What a command resumes leads the live file, if that has not been replaced yet.
LEMMA ReadClaimStep ==
  ASSUME IInv, TypeInv', NEW c \in Compactor, ReadClaim(c)
  PROVE  IInv'
<1>1. /\ pc[c] = "claim" /\ job[c].kind \in Rotations /\ job[c] \in Jobs
      /\ UNCHANGED <<live, appended, segments, gz, claim, dropped, sjob>>
  BY DEF ReadClaim, At, Reading, log, archive, server, sync, IInv, TypeInv, TypeOK, KindInv,
     Fits
<1>2. /\ live \in [ino : Nat, rows : Seq(1..MaxRows)] /\ Size \in Nat
      /\ segments \in Seq(Segments) /\ claim \in Claims \cup {None}
  BY DEF IInv, TypeInv, TypeOK, Size
<1>3. \A i \in DOMAIN segments : segments[i] \in Segments
  BY <1>2
<1>4. ASSUME NEW state \in {"prepare", "lock"}, NEW j \in Jobs, Become(c, state, j),
             j.source = live.ino => j.size <= Size,
             j.kind # "finish" /\ j.source = live.ino => ~Halfway,
             j.kind \in {"resume", "old"} => j.claim.source = j.source /\ Planned(j.claim),
             state = "prepare" => j.kind \in Rotations \cup {"resume", "old"},
             state = "lock" => /\ j.kind = "finish"
                               /\ j.source = j.claim.replacement /\ Renamed(j.claim),
             j.kind = "old" /\ j.source = live.ino => Indexed(j.claim),
             j.source \in {job[c].source, live.ino},
             j.claim # None => \/ j.claim = job[c].claim
                               \/ claim # None /\ j.claim.source = claim.source
                               \/ j.claim.source = live.ino
      PROVE  IInv'
  <2>1. state \in States /\ pc'[c] = state /\ job'[c] = j
    BY <1>4, BecomeFacts DEF IInv, States, Committed
  <2>2. ~Holds(c)'
    BY <1>4, <2>1 DEF Holds, Copied, Committed, Rotations
  <2>3. /\ \A k : Planned(k)' <=> Planned(k)
        /\ \A k : Renamed(k)' <=> Renamed(k)
        /\ \A k : Indexed(k)' <=> Indexed(k)
        /\ Halfway' <=> Halfway
    BY <1>1 DEF Planned, Renamed, Indexed, Halfway, Landed, Gone, Leading, Base, Size
  <2>4. SourceInv(c)' /\ PlanInv(c)' /\ HolderInv(c)'
    <3>1. Size' = Size /\ live' = live
      BY <1>1 DEF Size
    <3>2. SourceInv(c)'
      BY <1>4, <2>1, <2>2, <2>3, <3>1 DEF SourceInv, Cuts, Rotates, Rotations
    <3>3. PlanInv(c)' /\ HolderInv(c)'
      BY <1>4, <2>1, <2>2, <2>3, <3>1 DEF PlanInv, HolderInv, Cuts, Critical
    <3>4. QED
      BY <3>2, <3>3
  <2>5. \A d \in Compactor \ {c} : Holds(d) =>
          /\ j.source # job[d].claim.replacement
          /\ j.claim # None => j.claim.source # job[d].claim.replacement
    BY <1>4, SeenFile
  <2>6. QED
    BY <1>1, <1>4, <2>1, <2>2, <2>4, <2>5, OwnStep
<1>5. CASE claim = None /\ job[c].pending = None /\ Become(c, "prepare", job[c])
  <2>1. SourceInv(c)
    BY DEF IInv, CommandInv
  <2>2. QED
    BY <1>1, <1>4, <1>5, <2>1 DEF SourceInv, Rotations
<1>6. CASE End(c)
  BY <1>1, <1>6, EndStep
<1>7. CASE claim = None /\ ResumeOld(c, PendingSegment)
  <2> DEFINE s == PendingSegment
             k == [seq |-> s.seq, rows |-> s.rows, source |-> live.ino,
                   replacement |-> 0, cursor |-> s.pending.cursor]
             j == [NoJob EXCEPT !.kind = "old", !.source = s.pending.source, !.claim = k]
  <2>1. \/ End(c)
        \/ /\ s # None /\ live.ino = s.pending.source
           /\ Len(s.rows) <= Size /\ s.rows = SubSeq(live.rows, 1, Len(s.rows))
           /\ s.seq \in DOMAIN gz
           /\ Become(c, "prepare", j)
    BY <1>7 DEF ResumeOld
  <2>2. CASE /\ s # None /\ live.ino = s.pending.source
             /\ Len(s.rows) <= Size /\ s.rows = SubSeq(live.rows, 1, Len(s.rows))
             /\ s.seq \in DOMAIN gz
             /\ Become(c, "prepare", j)
    <3>1. PICK i \in DOMAIN segments : Pending(segments[i]) /\ s = segments[i]
      BY <1>2, <2>2, PendingSegmentFacts
    <3>2. s \in Segments /\ s.pending \in Drops
      BY <1>3, <3>1 DEF Segments, Pending
    <3>3. k \in Claims /\ k # None
      BY <1>2, <3>2, RecordAssumption DEF Segments, Drops, Claims
    <3>4. /\ k.source = live.ino /\ k.seq = s.seq /\ k.rows = s.rows
      OBVIOUS
    <3> HIDE DEF k
    <3>5. /\ j \in Jobs /\ j.kind = "old" /\ j.claim = k /\ j.source = live.ino
          /\ j.size = 0
      BY <2>2, <3>2, <3>3, NoJobType DEF Jobs, Drops, NoJob
    <3> HIDE DEF j, s
    <3>6. ~Halfway
      BY <2>2, <3>1 DEF IInv, WorldInv, ArchiveInv, Halfway
    <3>7. Leading(k.rows)
      <4>1. s.rows \in Seq(1..MaxRows)
        BY <3>2 DEF Segments
      <4>2. Len(s.rows) \in Nat
        BY <4>1
      <4>3. \A m \in 1..Len(s.rows) : SubSeq(live.rows, 1, Len(s.rows))[m] = live.rows[m]
        <5>1. live.rows \in Seq(1..MaxRows) /\ Len(s.rows) \in Int /\ Len(s.rows) <= Len(live.rows)
          BY <1>2, <2>2, <4>2 DEF Size
        <5>2. Len(SubSeq(live.rows, 1, Len(s.rows))) = Len(s.rows)
          BY <2>2
        <5>3. QED
          BY <5>1, <5>2, PrefixFacts
      <4>4. \A m \in 1..Len(s.rows) : s.rows[m] = live.rows[m] /\ m \in 1..Size
        BY <1>2, <2>2, <4>2, <4>3
      <4>5. QED
        BY <2>2, <3>4, <4>4 DEF Leading, IInv, WorldInv, LogInv
    <3>8. Planned(k) /\ Indexed(k)
      <4>1. \A m \in DOMAIN segments : segments[m].seq = k.seq => m = i
        BY <3>1, <3>4 DEF IInv, WorldInv, ArchiveInv
      <4>2. k.seq \in 1..Len(gz) + 1
        <5>1. gz \in Seq(Seq(1..MaxRows))
          BY DEF IInv, TypeInv, TypeOK
        <5>2. DOMAIN gz = 1..Len(gz) /\ Len(gz) \in Nat
          BY <5>1, LenProperties
        <5>3. QED
          BY <2>2, <3>4, <5>2
      <4>3. QED
        BY <2>2, <3>1, <3>4, <3>6, <3>7, <4>1, <4>2 DEF Planned, Indexed
    <3>9. Become(c, "prepare", j) /\ j.size <= Size
      BY <1>2, <2>2, <3>5 DEF j, s, k
    <3>10. /\ j.claim.source = j.source /\ Planned(j.claim) /\ Indexed(j.claim)
           /\ j.claim # None /\ j.claim.source = live.ino
      BY <3>3, <3>4, <3>5, <3>8
    <3>11. QED
      BY <1>4, <3>5, <3>6, <3>9, <3>10
  <2>3. QED
    BY <1>6, <2>1, <2>2
<1>8. CASE claim # None /\ Resume(c, claim)
  <2> DEFINE f == [NoJob EXCEPT !.kind = "finish", !.source = claim.replacement,
                                !.claim = claim]
             r == [NoJob EXCEPT !.kind = "resume", !.source = claim.source,
                                !.claim = claim]
  <2>1. \/ End(c)
        \/ live.ino = claim.replacement /\ Become(c, "lock", f)
        \/ live.ino = claim.source /\ Become(c, "prepare", r)
    BY <1>8 DEF Resume
  <2>2. claim \in Claims /\ Planned(claim) /\ Renamed(claim)
    BY <1>2, <1>8 DEF IInv, WorldInv, ClaimInv
  <2>3. /\ f \in Jobs /\ f.kind = "finish" /\ f.claim = claim /\ f.size = 0
        /\ f.source = claim.replacement
        /\ r \in Jobs /\ r.kind = "resume" /\ r.claim = claim /\ r.size = 0
        /\ r.source = claim.source
    BY <2>2, NoJobType DEF Jobs, Claims, NoJob
  <2> HIDE DEF f, r
  <2>4. live.ino = claim.source => ~Halfway
    BY <2>2 DEF Planned
  <2>5. CASE live.ino = claim.replacement /\ Become(c, "lock", f)
    BY <1>2, <1>4, <1>8, <2>2, <2>3, <2>5
  <2>6. CASE live.ino = claim.source /\ Become(c, "prepare", r)
    BY <1>2, <1>4, <1>8, <2>2, <2>3, <2>4, <2>6
  <2>7. QED
    BY <1>6, <2>1, <2>5, <2>6
<1>9. QED
  BY <1>5, <1>6, <1>7, <1>8 DEF ReadClaim

\* The copy and its replacement are of the file that the command has seen; nobody else
\* has seen the replacement.
LEMMA PrepareStep ==
  ASSUME IInv, TypeInv', NEW c \in Compactor, Prepare(c)
  PROVE  IInv'
<1>1. /\ pc[c] = "prepare" /\ job[c] \in Jobs
      /\ UNCHANGED <<live, appended, segments, gz, claim, dropped, sjob>>
  BY DEF Prepare, At, Reading, log, archive, server, sync, IInv, TypeInv, TypeOK
<1>2. TypeOK /\ live \in [ino : Nat, rows : Seq(1..MaxRows)] /\ Size \in Nat
  BY DEF IInv, TypeInv, TypeOK, Size
<1>3. /\ SourceInv(c) /\ PlanInv(c)
      /\ job[c].kind \in Rotations \cup {"resume", "old"}
      /\ job[c].kind \notin Rotations => job[c].claim # None
  BY <1>1 DEF IInv, CommandInv, TypeInv, KindInv, Fits
<1> DEFINE j   == job[c]
           cut == PlanCut(j)
           new == [seq |-> 0, rows |-> SubSeq(live.rows, 1, cut), source |-> live.ino,
                   replacement |-> 0, cursor |-> Lowered(j.cursor, cut)]
           J(k, ino) == [j EXCEPT !.claim = [k EXCEPT !.replacement = ino],
                                  !.copied = Size, !.verified = Published(k)]
<1>4. ASSUME NEW k \in Claims, NEW ino \in Inodes, Unused(ino), Become(c, "lock", J(k, ino)),
             live.ino = j.source, k.source = live.ino, Leading(k.rows),
             j.kind \in Rotations => ~Published(k),
             j.kind \in {"resume", "old"} => Planned(k),
             j.kind = "old" => Indexed(k)
      PROVE  IInv'
  <2> DEFINE q == [k EXCEPT !.replacement = ino]
  <2>1. ino \in Nat
    BY <1>2, <1>4, NewFile
  <2>2. /\ q \in Claims /\ q # None /\ q.source = live.ino /\ q.rows = k.rows
        /\ q.seq = k.seq /\ q.replacement = ino
    <3>1. q \in Claims /\ q.source = k.source /\ q.rows = k.rows /\ q.seq = k.seq
          /\ q.replacement = ino
      BY <2>1 DEF Claims
    <3>2. QED
      BY <1>4, <3>1, RecordAssumption
  <2> HIDE DEF q
  <2>3. /\ J(k, ino) \in Jobs /\ J(k, ino).claim = q /\ J(k, ino).kind = j.kind
        /\ J(k, ino).source = j.source /\ J(k, ino).size = j.size
        /\ J(k, ino).copied = Size /\ (J(k, ino).verified <=> Published(k))
    BY <1>1, <1>2, <2>2 DEF Jobs, Published, q
  <2>4. PICK h \in Jobs : h = J(k, ino)
    BY <2>3
  <2>5. /\ Become(c, "lock", h) /\ h.claim = q /\ h.kind = j.kind /\ h.source = j.source
        /\ h.size = j.size /\ h.copied = Size /\ (h.verified <=> Published(k))
    BY <1>4, <2>3, <2>4
  <2> HIDE DEF J
  <2>6. /\ "lock" \in States /\ pc'[c] = "lock" /\ job'[c] = h
        /\ \A d \in Compactor \ {c} : pc'[d] = pc[d] /\ job'[d] = job[d]
    BY <2>5, BecomeFacts DEF IInv, States, Committed
  <2>7. /\ \A x : Renamed(x)' <=> Renamed(x)
        /\ \A x : Leading(x)' <=> Leading(x)
        /\ Halfway' <=> Halfway
        /\ Size' = Size /\ live' = live
    BY <1>1 DEF Renamed, Halfway, Landed, Gone, Leading, Base, Size
  <2>8. /\ Published(q)' <=> Published(k)
        /\ Planned(k) => Planned(q)'
        /\ Indexed(k) => Indexed(q)'
    <3>1. Published(q)' <=> Published(k)
      BY <1>1, <2>2 DEF Published
    <3>2. Planned(k) => Planned(q)'
      <4>1. Leading(q.rows)' <=> Leading(k.rows)
        BY <2>2, <2>7
      <4>2. Planned(q)' <=> Planned(q)
        BY <1>1, <2>2, <2>7, <4>1 DEF Planned, Pending
      <4>3. Planned(q) <=> Planned(k)
        BY <1>4, <2>2 DEF Planned
      <4>4. QED
        BY <4>2, <4>3
    <3>3. Indexed(k) => Indexed(q)'
      BY <1>1, <2>2 DEF Indexed
    <3>4. QED
      BY <3>1, <3>2, <3>3
  <2>9. SourceInv(c)'
    BY <1>1, <1>3, <1>4, <2>2, <2>5, <2>6, <2>7
    DEF SourceInv, Cuts, Holds, Copied, Committed, Rotations
  <2>10. PlanInv(c)'
    <3>1. Leading(q.rows)' /\ Len(q.rows) <= Size
      BY <1>4, <2>2, <2>7 DEF Leading
    <3>2. QED
      BY <1>3, <1>4, <2>5, <2>6, <2>7, <2>8, <1>2, <3>1 DEF PlanInv, Rotations
  <2>11. HolderInv(c)'
    BY <2>6 DEF HolderInv, Critical
  <2>12. /\ ino # 0 /\ ino # live.ino
         /\ claim # None => ino \notin {claim.source, claim.replacement}
         /\ \A i \in DOMAIN segments : Pending(segments[i]) =>
              ino \notin {segments[i].pending.source, segments[i].pending.replacement}
         /\ \A d \in Compactor :
              /\ ino # job[d].source
              /\ job[d].claim # None =>
                   ino \notin {job[d].claim.source, job[d].claim.replacement}
         /\ \A s \in Syncer : ino # sjob[s].ino
    BY <1>2, <1>4, NewFile
  <2>13. Unseen(ino)'
    <3>1. \A d \in Compactor : /\ job'[d].source # ino
                               /\ job'[d].claim # None => job'[d].claim.source # ino
      BY <1>4, <2>2, <2>5, <2>6, <2>12
    <3>2. \A i \in DOMAIN segments' : Pending(segments'[i]) => segments'[i].pending.source # ino
      BY <1>1, <2>12 DEF Pending
    <3>3. QED
      BY <1>1, <2>12, <3>1, <3>2 DEF Unseen, Pending
  <2>14. \A d \in Compactor \ {c} : Holds(d) => job[d].claim # None
    BY DEF Holds, IInv, TypeInv, KindInv, Fits
  <2>15. Fresh(c)'
    <3>1. \A d \in Compactor \ {c} : Holds(d)' => job'[d].claim.replacement # ino
      BY <2>6, <2>12, <2>14 DEF Holds
    <3>2. \A i \in DOMAIN segments' : Pending(segments'[i]) =>
             segments'[i].pending.replacement # ino
      BY <1>1, <2>12 DEF Pending
    <3>3. claim' # None => claim'.replacement # ino
      BY <1>1, <2>12
    <3>4. job'[c].claim.replacement = ino
      BY <2>2, <2>5, <2>6
    <3>5. QED
      BY <2>13, <3>1, <3>2, <3>3, <3>4, Zenon DEF Fresh
  <2>16. \A s \in Syncer : h.claim.replacement # sjob[s].ino
    BY <2>2, <2>5, <2>12
  <2>17. \A d \in Compactor \ {c} : Holds(d) =>
           /\ h.source # job[d].claim.replacement
           /\ h.claim # None => h.claim.source # job[d].claim.replacement
    BY <1>4, <2>2, <2>5, SeenFile
  <2>18. QED
    BY <1>1, <2>5, <2>6, <2>9, <2>10, <2>11, <2>15, <2>16, <2>17, OwnStep
<1>5. \/ End(c)
      \/ /\ live.ino = j.source /\ j.kind \in Rotations /\ cut > 0
         /\ \E ino \in Inodes : Unused(ino) /\ Become(c, "lock", J(new, ino))
      \/ /\ live.ino = j.source /\ j.kind \notin Rotations
         /\ \E ino \in Inodes : Unused(ino) /\ Become(c, "lock", J(j.claim, ino))
  BY DEF Prepare, Rotates, Rotations
<1>6. ASSUME live.ino = j.source, j.kind \in Rotations, cut > 0
      PROVE  new \in Claims /\ new.source = live.ino /\ Leading(new.rows) /\ ~Published(new)
  <2>1. j.size <= Size /\ j.cursor \in Nat /\ j.size \in Nat
    BY <1>1, <1>3, <1>6 DEF SourceInv, Jobs
  <2>2. cut \in Int /\ cut <= Size
    <3>1. j \in Jobs
      BY <1>1
    <3> HIDE DEF j
    <3>2. PlanCut(j) \in Int /\ PlanCut(j) <= j.size
      BY <3>1, CutBound
    <3>3. QED
      BY <1>2, <2>1, <3>2
  <2>3. Lowered(j.cursor, cut) \in Nat
    BY <1>6, <2>1, <2>2, LoweredType
  <2> DEFINE rows == SubSeq(live.rows, 1, cut)
  <2> HIDE DEF cut
  <2>4. /\ rows \in Seq(1..MaxRows) /\ Len(rows) = cut
        /\ \A i \in 1..Len(rows) : rows[i] = live.rows[i]
    BY <1>2, <1>6, <2>2, PrefixFacts DEF Size
  <2> HIDE DEF rows
  <2>5. Leading(rows)
    <3>1. \A i \in 1..Len(rows) : i \in 1..Size
      BY <1>2, <2>2, <2>4
    <3>2. QED
      BY <2>2, <2>4, <3>1 DEF Leading, IInv, WorldInv, LogInv
  <2>6. 0 \notin DOMAIN gz
    <3>1. gz \in Seq(Seq(1..MaxRows))
      BY <1>2 DEF TypeOK
    <3>2. DOMAIN gz = 1..Len(gz) /\ Len(gz) \in Nat
      BY <3>1, LenProperties
    <3>3. QED
      BY <3>2
  <2>7. QED
    BY <1>2, <2>3, <2>4, <2>5, <2>6 DEF Claims, Published, rows
<1>7. ASSUME live.ino = j.source, j.kind \notin Rotations
      PROVE  /\ j.claim \in Claims /\ j.claim.source = live.ino /\ Leading(j.claim.rows)
             /\ Planned(j.claim) /\ (j.kind = "old" => Indexed(j.claim))
  <2>1. j.claim \in Claims
    BY <1>1, <1>3, <1>7 DEF Jobs
  <2>2. Cuts(c) /\ ~Rotates(c) /\ j.kind \in {"resume", "old"}
    BY <1>1, <1>3, <1>7 DEF Cuts, Rotates, Committed, Rotations
  <2>3. j.claim.source = live.ino
    BY <1>3, <1>7, <2>2 DEF SourceInv
  <2>4. Planned(j.claim) /\ (j.kind = "old" => Indexed(j.claim))
    BY <1>1, <1>3, <1>7, <2>2 DEF PlanInv
  <2>5. QED
    BY <2>1, <2>3, <2>4 DEF Planned
<1> HIDE DEF cut, new, J, j
<1>8. CASE End(c)
  BY <1>1, <1>8, EndStep
<1>9. CASE /\ live.ino = j.source /\ j.kind \in Rotations /\ cut > 0
           /\ \E ino \in Inodes : Unused(ino) /\ Become(c, "lock", J(new, ino))
  BY <1>4, <1>6, <1>9 DEF Rotations
<1>10. CASE /\ live.ino = j.source /\ j.kind \notin Rotations
            /\ \E ino \in Inodes : Unused(ino) /\ Become(c, "lock", J(j.claim, ino))
  BY <1>4, <1>7, <1>10
<1>11. QED
  BY <1>5, <1>8, <1>9, <1>10

\* Under the lock a command goes on only with the file that it has seen.
LEMMA EnterStep ==
  ASSUME IInv, TypeInv', NEW c \in Compactor, Enter(c)
  PROVE  IInv'
<1>1. /\ pc[c] = "lock" /\ job[c] \in Jobs
      /\ UNCHANGED <<live, appended, segments, gz, claim, dropped, sjob>>
  BY DEF Enter, At, log, archive, server, sync, IInv, TypeInv, TypeOK
<1>2. PICK state \in {"unlock", "complete", "publish"} :
        /\ Stay(c, state)
        /\ state # "unlock" => live.ino = job[c].source
        /\ state = "complete" => job[c].kind = "finish"
        /\ state = "publish" => job[c].kind # "finish"
  BY DEF Enter
<1>3. /\ state \in States /\ Become(c, state, job[c])
      /\ pc'[c] = state /\ job'[c] = job[c]
      /\ \A d \in Compactor \ {c} : pc'[d] = pc[d] /\ job'[d] = job[d]
  BY <1>1, <1>2, BecomeFacts DEF IInv, States, Critical, Stay
<1>4. /\ SourceInv(c) /\ PlanInv(c)
      /\ job[c].claim # None
  BY <1>1 DEF IInv, CommandInv, TypeInv, KindInv, Fits, Copied, Committed
<1>5. (Cuts(c)' => Cuts(c)) /\ (Holds(c)' => Holds(c) /\ state = "publish")
  BY <1>1, <1>2, <1>3 DEF Cuts, Holds, Copied, Committed
<1>6. SourceInv(c)' /\ PlanInv(c)' /\ HolderInv(c)'
  <2>1. /\ \A x : Renamed(x)' <=> Renamed(x)
        /\ \A x : Leading(x)' <=> Leading(x)
        /\ \A x : Planned(x)' <=> Planned(x)
        /\ \A x : Indexed(x)' <=> Indexed(x)
        /\ \A x : Published(x)' <=> Published(x)
        /\ Halfway' <=> Halfway
        /\ Size' = Size /\ live' = live
    BY <1>1 DEF Renamed, Planned, Indexed, Published, Halfway, Landed, Gone, Leading, Base,
       Size
  <2>2. SourceInv(c)'
    BY <1>2, <1>3, <1>4, <1>5, <2>1 DEF SourceInv, Rotates
  <2>3. PlanInv(c)'
    BY <1>1, <1>2, <1>3, <1>4, <1>5, <2>1 DEF PlanInv
  <2>4. HolderInv(c)'
    BY <1>1, <1>2, <1>3, <1>4, <1>5, <2>1 DEF SourceInv, HolderInv, Critical, Rotations
  <2>5. QED
    BY <2>2, <2>3, <2>4
<1>7. Holds(c)' => Fresh(c)' /\ \A s \in Syncer : job[c].claim.replacement # sjob[s].ino
  <2> SUFFICES ASSUME Holds(c)'
               PROVE  Fresh(c)' /\ \A s \in Syncer : job[c].claim.replacement # sjob[s].ino
    OBVIOUS
  <2>1. Holds(c) /\ Fresh(c) /\ pc'[c] = "publish"
    BY <1>3, <1>5 DEF IInv, FreshInv
  <2>2. job' = job /\ \A d \in Compactor : Holds(d)' => Holds(d)
    <3>1. job' = job
      BY <1>2 DEF Stay, Become, IInv, TypeInv, TypeOK
    <3>2. QED
      BY <1>3, <1>5, <3>1 DEF Holds
  <2>3. Unseen(job[c].claim.replacement)'
    BY <1>1, <2>1, <2>2 DEF Fresh, Unseen, Pending
  <2>4. Fresh(c)'
    BY <1>1, <2>1, <2>2, <2>3 DEF Fresh, Pending
  <2>5. QED
    BY <2>1, <2>4 DEF IInv, SyncInv
<1>8. QED
  BY <1>1, <1>3, <1>6, <1>7, OwnStep, SeenFile

LEMMA WriteCursorStep ==
  ASSUME IInv, TypeInv', NEW c \in Compactor, WriteCursor(c)
  PROVE  IInv'
<1>1. /\ pc[c] = "cursor" /\ job[c] \in Jobs
      /\ UNCHANGED <<live, appended, segments, gz, claim, dropped, sjob>>
  BY DEF WriteCursor, At, Locked, log, archive, sync, IInv, TypeInv, TypeOK
<1>2. PICK state \in {"unclaim", "rename"} :
        /\ Stay(c, state)
        /\ state = IF job[c].kind = "finish" THEN "unclaim" ELSE "rename"
  BY DEF WriteCursor
<1>3. /\ state \in States /\ Become(c, state, job[c])
      /\ pc'[c] = state /\ job' = job
      /\ \A d \in Compactor \ {c} : pc'[d] = pc[d]
  <2>1. state \in States /\ Become(c, state, job[c])
    BY <1>2 DEF States, Critical, Stay
  <2>2. QED
    BY <1>1, <2>1, BecomeFacts DEF IInv, TypeInv, TypeOK, Become
<1>4. SourceInv(c) /\ PlanInv(c) /\ HolderInv(c)
  BY DEF IInv, CommandInv
<1>5. (Cuts(c)' => Cuts(c)) /\ (Holds(c)' => Holds(c) /\ state = "rename")
  BY <1>1, <1>2, <1>3 DEF Cuts, Holds, Copied, Committed
<1>6. SourceInv(c)' /\ PlanInv(c)' /\ HolderInv(c)'
  <2>1. /\ \A x : Renamed(x)' <=> Renamed(x)
        /\ \A x : Leading(x)' <=> Leading(x)
        /\ \A x : Planned(x)' <=> Planned(x)
        /\ \A x : Indexed(x)' <=> Indexed(x)
        /\ \A x : Published(x)' <=> Published(x)
        /\ Halfway' <=> Halfway
        /\ Size' = Size /\ live' = live /\ claim' = claim /\ segments' = segments
    BY <1>1 DEF Renamed, Planned, Indexed, Published, Halfway, Landed, Gone, Leading, Base,
       Size
  <2>2. SourceInv(c)'
    BY <1>1, <1>2, <1>3, <1>4, <1>5, <2>1 DEF SourceInv, Rotates
  <2>3. PlanInv(c)'
    BY <1>1, <1>2, <1>3, <1>4, <1>5, <2>1 DEF PlanInv
  <2>4. HolderInv(c)'
    BY <1>1, <1>2, <1>3, <1>4, <1>5, <2>1 DEF HolderInv, Critical, Drop
  <2>5. QED
    BY <2>2, <2>3, <2>4
<1>7. Holds(c)' => Fresh(c)' /\ \A s \in Syncer : job[c].claim.replacement # sjob[s].ino
  <2> SUFFICES ASSUME Holds(c)'
               PROVE  Fresh(c)' /\ \A s \in Syncer : job[c].claim.replacement # sjob[s].ino
    OBVIOUS
  <2>1. Holds(c) /\ Fresh(c) /\ pc'[c] = "rename"
    BY <1>3, <1>5 DEF IInv, FreshInv
  <2>2. \A d \in Compactor : Holds(d)' => Holds(d)
    BY <1>3, <1>5 DEF Holds
  <2>3. Unseen(job[c].claim.replacement)'
    BY <1>1, <1>3, <2>1 DEF Fresh, Unseen, Pending
  <2>4. Fresh(c)'
    BY <1>1, <1>3, <2>1, <2>2, <2>3 DEF Fresh, Pending
  <2>5. QED
    BY <2>1, <2>4 DEF IInv, SyncInv
<1>8. QED
  BY <1>1, <1>3, <1>6, <1>7, OwnStep, SeenFile

LEMMA LeaveStep ==
  ASSUME IInv, TypeInv', NEW c \in Compactor, Leave(c) \/ Kill(c)
  PROVE  IInv'
  BY EndStep DEF Leave, Kill, log, archive, server, sync

LEMMA StutterStep ==
  ASSUME IInv, TypeInv', (\E c \in Compactor : Revoke(c)) \/ UNCHANGED vars
  PROVE  IInv'
<1>1. UNCHANGED <<live, appended, segments, gz, claim, dropped, sjob, pc, job>>
  BY DEF Revoke, vars, log, archive, server, sync, compact
<1>2. WorldInv'
  BY <1>1 DEF IInv, WorldInv, LogInv, ArchiveInv, ClaimInv, KeptInv, Planned, Renamed, Leading,
     Landed, Halfway, Gone, Base, Size
<1>3. CommandInv'
  BY <1>1 DEF IInv, CommandInv, SourceInv, PlanInv, HolderInv, Planned, Renamed,
     Indexed, Leading, Landed, Halfway, Gone, Base, Size, Cuts, Holds, Rotates, Published,
     Drop
<1>4. FreshInv' /\ SyncInv'
  BY <1>1 DEF IInv, FreshInv, Fresh, Unseen, SyncInv, Holds, Pending, Size
<1>5. QED
  BY <1>2, <1>3, <1>4 DEF IInv

\* A sync command looks at the file that is live.
LEMMA SyncActions ==
  ASSUME IInv, TypeInv', NEW s \in Syncer,
         \/ SyncBegin(s) \/ Capture(s) \/ ReadPage(s) \/ UploadAnswered(s)
         \/ UploadFails(s) \/ Checkpoint(s) \/ CheckpointTorn(s)
  PROVE  IInv'
<1>1. UNCHANGED <<live, appended, segments, gz, claim, dropped, pc, job>>
  BY DEF SyncBegin, Capture, ReadPage, UploadAnswered, UploadFails, Checkpoint, CheckpointTorn,
     SyncReads, log, archive, server, compact
<1>2. WorldInv'
  BY <1>1 DEF IInv, WorldInv, LogInv, ArchiveInv, ClaimInv, KeptInv, Planned, Renamed, Leading,
     Landed, Halfway, Gone, Base, Size
<1>3. CommandInv'
  BY <1>1 DEF IInv, CommandInv, SourceInv, PlanInv, HolderInv, Planned, Renamed,
     Indexed, Leading, Landed, Halfway, Gone, Base, Size, Cuts, Holds, Rotates, Published,
     Drop
<1>4. FreshInv'
  BY <1>1 DEF IInv, FreshInv, Fresh, Unseen, Holds, Pending
<1>5. /\ sjob \in [Syncer -> Syncs] /\ sjob' \in [Syncer -> Syncs] /\ Size \in Nat
      /\ live.ino \in Nat
  BY DEF IInv, TypeInv, TypeOK, Size
<1>6. /\ \A t \in Syncer \ {s} : sjob'[t] = sjob[t]
      /\ \/ sjob'[s].ino = sjob[s].ino /\ sjob'[s].end = sjob[s].end
         \/ sjob'[s].ino = live.ino /\ sjob'[s].end = Size
         \/ sjob'[s].ino = 0 /\ sjob'[s].end = 0
  <2>1. sjob[s] \in Syncs /\ NoSync \in Syncs /\ NoSync.ino = 0 /\ NoSync.end = 0
    BY <1>5, NoJobType DEF NoSync
  <2>2. PICK state, j : SyncBecome(s, state, j)
    BY DEF SyncBegin, Capture, ReadPage, UploadAnswered, UploadFails, Checkpoint,
       CheckpointTorn, SyncEnd
  <2>3. \A t \in Syncer \ {s} : sjob'[t] = sjob[t]
    BY <1>5, <2>2 DEF SyncBecome
  <2>4. \/ sjob'[s] = [NoSync EXCEPT !.from = cursor]
        \/ sjob'[s] = [sjob[s] EXCEPT !.ino = live.ino, !.end = Size]
        \/ \E to, page : sjob'[s] = [sjob[s] EXCEPT !.to = to, !.page = page]
        \/ sjob'[s] = [sjob[s] EXCEPT !.page = {}]
        \/ sjob'[s] = [sjob[s] EXCEPT !.from = sjob[s].to]
        \/ sjob'[s] = NoSync
    <3> USE <1>5 DEF SyncEnd, SyncBecome
    <3>1. CASE SyncBegin(s)
      BY <3>1 DEF SyncBegin
    <3>2. CASE Capture(s)
      BY <3>2 DEF Capture
    <3>3. CASE ReadPage(s)
      <4> DEFINE to   == Smaller(sjob[s].from + PageRows, sjob[s].end)
                 page == ToSet(SubSeq(live.rows, sjob[s].from + 1, to))
      <4>1. \/ sjob' = [sjob EXCEPT ![s] = [sjob[s] EXCEPT !.to = to, !.page = page]]
            \/ sjob' = [sjob EXCEPT ![s] = NoSync]
        BY <3>3 DEF ReadPage
      <4> HIDE DEF to, page
      <4>2. QED
        <5>1. CASE sjob' = [sjob EXCEPT ![s] = [sjob[s] EXCEPT !.to = to, !.page = page]]
          <6>1. sjob'[s] = [sjob[s] EXCEPT !.to = to, !.page = page]
            BY <5>1
          <6>2. QED
            BY <6>1
        <5>2. CASE sjob' = [sjob EXCEPT ![s] = NoSync]
          <6>1. sjob'[s] = NoSync
            BY <5>2
          <6>2. QED
            BY <6>1
        <5>3. QED
          BY <4>1, <5>1, <5>2
    <3>4. CASE UploadAnswered(s)
      BY <3>4 DEF UploadAnswered
    <3>5. CASE UploadFails(s)
      BY <3>5 DEF UploadFails
    <3>6. CASE Checkpoint(s)
      BY <3>6 DEF Checkpoint
    <3>7. CASE CheckpointTorn(s)
      BY <3>7 DEF CheckpointTorn
    <3>8. QED
      BY <3>1, <3>2, <3>3, <3>4, <3>5, <3>6, <3>7
  <2>5. QED
    BY <2>1, <2>3, <2>4 DEF Syncs
<1>7. SyncInv'
  BY <1>1, <1>5, <1>6, SeenFile DEF IInv, SyncInv, Holds, Size
<1>8. QED
  BY <1>2, <1>3, <1>4, <1>7 DEF IInv

-----------------------------------------------------------------------------
(* Steps of the holder that leave the live file alone.                     *)

\* What the holder of the lock has decided to cut is cut from the file that is live.
LEMMA HolderFacts ==
  ASSUME IInv, NEW c \in Compactor, pc[c] \in Critical
  PROVE  /\ \A d \in Compactor \ {c} : pc[d] \notin Critical
         /\ Fits(pc[c], job[c])
         /\ SourceInv(c) /\ PlanInv(c) /\ HolderInv(c)
         /\ Holds(c) =>
              /\ Cuts(c) /\ ~Halfway /\ Leading(job[c].claim.rows)
              /\ job[c].source = live.ino /\ job[c].claim.source = live.ino
              /\ Fresh(c) /\ job[c].claim.replacement # live.ino
<1>1. holder = c /\ Fits(pc[c], job[c])
  BY DEF IInv, TypeInv, KindInv
<1>2. \A d \in Compactor \ {c} : pc[d] \notin Critical
  BY <1>1 DEF IInv, TypeInv, KindInv
<1>3. SourceInv(c) /\ PlanInv(c) /\ HolderInv(c)
  BY DEF IInv, CommandInv
<1>4. ASSUME Holds(c)
      PROVE  /\ Cuts(c) /\ ~Halfway /\ Leading(job[c].claim.rows)
             /\ job[c].source = live.ino /\ job[c].claim.source = live.ino
             /\ Fresh(c) /\ job[c].claim.replacement # live.ino
  <2>1. Cuts(c)
    BY <1>4 DEF Cuts, Holds, Copied
  <2>2. job[c].source = live.ino
    BY <1>3, <1>4 DEF HolderInv
  <2>3. Fresh(c)
    BY <1>4 DEF IInv, FreshInv
  <2>4. QED
    BY <1>3, <1>4, <2>1, <2>2, <2>3 DEF SourceInv, PlanInv, Fresh, Unseen
<1>5. QED
  BY <1>1, <1>2, <1>3, <1>4

\* The archive keeps its files and rows, new entries are pending drops of the live file,
\* and the claim on disk may become the holder's.
Archives(c, state, j) ==
    /\ UNCHANGED <<live, appended, dropped, sjob>>
    /\ \A n \in DOMAIN gz : n \in DOMAIN gz' /\ gz'[n] = gz[n]
    /\ \A i \in DOMAIN segments :
         /\ i \in DOMAIN segments'
         /\ segments'[i].seq = segments[i].seq /\ segments'[i].rows = segments[i].rows
         /\ \/ segments'[i].pending = segments[i].pending
            \/ segments'[i].pending = None /\ Gone(segments[i])
            \/ /\ Holds(c) /\ Pending(segments[i]) /\ segments[i].pending.source = live.ino
               /\ segments'[i].pending = Drop(j.claim)
               /\ state = "cursor" /\ segments[i].seq = j.claim.seq
    /\ \A i \in DOMAIN segments' \ DOMAIN segments :
         /\ Holds(c) /\ Published(j.claim)' /\ segments'[i].pending = Drop(j.claim)
         /\ state = "cursor"
         /\ segments'[i].seq = j.claim.seq /\ segments'[i].rows = j.claim.rows
         /\ \A h \in DOMAIN segments : segments[h].seq # j.claim.seq
         /\ \A h \in DOMAIN segments' \ DOMAIN segments : h = i
    /\ \/ claim' \in {claim, None}
       \/ Holds(c) /\ claim' = j.claim /\ Planned(j.claim) /\ j.kind # "old"

\* The holder keeps its job, but for the number that a new claim gets.
SameJob(c, j) ==
    /\ j.kind = job[c].kind /\ j.source = job[c].source /\ j.size = job[c].size
    /\ j.copied = job[c].copied /\ j.verified = job[c].verified
    /\ j.claim # None => /\ job[c].claim # None
                         /\ j.claim.source = job[c].claim.source
                         /\ j.claim.replacement = job[c].claim.replacement
                         /\ j.claim.rows = job[c].claim.rows
    /\ j.kind \notin Rotations => j.claim = job[c].claim

LEMMA ArchiveStep ==
  ASSUME IInv, TypeInv', NEW c \in Compactor, pc[c] \in Critical \ {"cursor", "rename"},
         NEW state \in Critical \ {"publish"}, NEW j \in Jobs, Become(c, state, j),
         Archives(c, state, j), SameJob(c, j), Holds(c)' => Holds(c), HolderInv(c)'
  PROVE  IInv'
<1>1. /\ pc'[c] = state /\ job'[c] = j
      /\ \A d \in Compactor \ {c} : pc'[d] = pc[d] /\ job'[d] = job[d]
      /\ \A d \in Compactor : Holds(d)' => Holds(d)
  <2>1. /\ pc'[c] = state /\ job'[c] = j
        /\ \A d \in Compactor \ {c} : pc'[d] = pc[d] /\ job'[d] = job[d]
    BY BecomeFacts DEF IInv, States
  <2>2. QED
    BY <2>1 DEF Holds
<1>2. /\ live' = live /\ appended' = appended /\ dropped' = dropped /\ sjob' = sjob
      /\ Size' = Size /\ Base' = Base
  BY DEF Archives, Size, Base
<1>3. /\ segments \in Seq(Segments) /\ segments' \in Seq(Segments)
      /\ gz \in Seq(Seq(1..MaxRows)) /\ gz' \in Seq(Seq(1..MaxRows))
      /\ claim' \in Claims \cup {None} /\ claim \in Claims \cup {None}
  BY DEF IInv, TypeInv, TypeOK
<1>4. /\ Len(segments) \in Nat /\ Len(segments') \in Nat
      /\ DOMAIN segments = 1..Len(segments) /\ DOMAIN segments' = 1..Len(segments')
      /\ Len(gz) \in Nat /\ Len(gz') \in Nat
      /\ DOMAIN gz = 1..Len(gz) /\ DOMAIN gz' = 1..Len(gz')
  BY <1>3, LenProperties
<1>5. Len(gz) <= Len(gz')
  <2>1. \A n \in 1..Len(gz) : n \in 1..Len(gz')
    BY <1>4 DEF Archives
  <2>2. QED
    BY <1>4, <2>1
<1>6. \A h \in DOMAIN segments, i \in DOMAIN segments' \ DOMAIN segments : h < i
  BY <1>4
<1>7. Holds(c) /\ j.claim # None =>
        /\ ~Halfway /\ Drop(j.claim) # None
        /\ Drop(j.claim).source = live.ino
        /\ Drop(j.claim).replacement = job[c].claim.replacement
        /\ job[c].claim.replacement # live.ino
  <2> SUFFICES ASSUME Holds(c), j.claim # None
               PROVE  /\ ~Halfway /\ Drop(j.claim) # None
                      /\ Drop(j.claim).source = live.ino
                      /\ Drop(j.claim).replacement = job[c].claim.replacement
                      /\ job[c].claim.replacement # live.ino
    OBVIOUS
  <2>1. j.claim \in Claims
    BY DEF Jobs
  <2>2. Drop(j.claim) \in Drops
    BY <2>1 DEF Drop, Drops, Claims
  <2>3. QED
    BY <2>2, HolderFacts, RecordAssumption DEF SameJob, Drop
<1>8. Holds(c) /\ state # "unlock" => j.claim # None
  <2>1. Fits(state, j)
    BY <1>1 DEF TypeInv, KindInv
  <2>2. QED
    BY <2>1 DEF Fits, Critical, Copied, Committed
\* An entry of the new manifest: as before, done, or the holder's drop.
<1>9. ASSUME NEW i \in DOMAIN segments
      PROVE  /\ Gone(segments[i])' <=> Gone(segments[i])
             /\ Landed(segments[i])' => Landed(segments[i])
             /\ Pending(segments[i])' => Pending(segments[i])
             /\ Pending(segments[i])' /\ segments'[i].pending # segments[i].pending =>
                  /\ Holds(c) /\ segments'[i].pending = Drop(j.claim) /\ j.claim # None
                  /\ state = "cursor"
                  /\ segments[i].seq = j.claim.seq /\ segments[i].pending.source = live.ino
             /\ Pending(segments[i]) /\ segments[i].pending.source = live.ino =>
                  Pending(segments[i])' /\ segments'[i].pending.source = live.ino
  <2>1. CASE segments'[i].pending = segments[i].pending
    BY <1>2, <2>1 DEF Gone, Landed, Pending
  <2>2. CASE segments'[i].pending = None /\ Gone(segments[i])
    <3>1. ~(Pending(segments[i]) /\ segments[i].pending.source = live.ino)
      <4> SUFFICES ASSUME Pending(segments[i]) /\ segments[i].pending.source = live.ino
                   PROVE  FALSE
        OBVIOUS
      <4>1. i < i
        BY <2>2 DEF IInv, WorldInv, ArchiveInv
      <4>2. QED
        BY <1>4, <4>1
    <3>2. QED
      BY <1>2, <2>2, <3>1 DEF Gone, Landed, Pending
  <2>3. CASE /\ Holds(c) /\ Pending(segments[i]) /\ segments[i].pending.source = live.ino
             /\ segments'[i].pending = Drop(j.claim)
             /\ state = "cursor" /\ segments[i].seq = j.claim.seq
    <3>1. j.claim # None /\ Drop(j.claim) # None /\ Drop(j.claim).source = live.ino
          /\ Drop(j.claim).replacement # live.ino
      BY <1>7, <1>8, <2>3
    <3>2. ~Landed(segments[i])
      BY <1>7, <1>8, <2>3 DEF Halfway
    <3>3. QED
      BY <1>2, <2>3, <3>1, <3>2 DEF Gone, Landed, Pending
  <2>4. QED
    BY <2>1, <2>2, <2>3 DEF Archives
<1>10. ASSUME NEW i \in DOMAIN segments' \ DOMAIN segments
       PROVE  /\ ~Gone(segments[i])' /\ ~Landed(segments[i])' /\ Pending(segments[i])'
              /\ Holds(c) /\ segments'[i].pending = Drop(j.claim) /\ j.claim # None
              /\ segments'[i].pending.source = live.ino
              /\ segments'[i].seq = j.claim.seq
  BY <1>2, <1>7, <1>8 DEF Archives, Gone, Landed, Pending
<1>11. Halfway' => Halfway
  BY <1>9, <1>10 DEF Halfway
<1>12. /\ \A k : Renamed(k) => Renamed(k)'
       /\ \A k : Indexed(k) => Indexed(k)'
       /\ \A k : Published(k) => Published(k)'
       /\ \A k : Leading(k.rows)' <=> Leading(k.rows)
  <2>1. \A k : Renamed(k) => Renamed(k)'
    BY <1>2, <1>9 DEF Renamed, Archives
  <2>2. \A k : Indexed(k) => Indexed(k)'
    BY DEF Indexed, Archives
  <2>3. \A k : Published(k) => Published(k)'
    BY DEF Published, Archives
  <2>4. QED
    BY <1>2, <2>1, <2>2, <2>3 DEF Leading
<1>13. \A k : Planned(k) => Planned(k)'
  <2> SUFFICES ASSUME NEW k, Planned(k), k.source = live.ino PROVE Planned(k)'
    BY <1>2 DEF Planned
  <2>1. Leading(k.rows)' /\ ~Halfway'
    BY <1>11, <1>12 DEF Planned
  <2>2. k.seq \in 1..Len(gz') + 1
    BY <1>4, <1>5 DEF Planned
  <2>3. \A i \in DOMAIN segments' : segments'[i].seq = k.seq =>
           Pending(segments[i])' /\ segments'[i].pending.source = live.ino
    BY <1>9, <1>10 DEF Planned, Archives
  <2>4. QED
    BY <1>2, <2>1, <2>2, <2>3 DEF Planned, Pending
<1>14. LogInv'
  BY <1>2 DEF IInv, WorldInv, LogInv
<1>15. ArchiveInv'
  <2>1. ArchiveInv
    BY DEF IInv, WorldInv
  <2>2. ASSUME NEW i \in DOMAIN segments'
        PROVE  segments'[i].seq \in DOMAIN gz' /\ gz'[segments'[i].seq] = segments'[i].rows
    BY <2>1 DEF ArchiveInv, Archives, Published
  <2>3. ASSUME NEW i \in DOMAIN segments', NEW h \in DOMAIN segments',
               segments'[i].seq = segments'[h].seq
        PROVE  i = h
    BY <2>1, <2>3 DEF ArchiveInv, Archives
  <2>4. ASSUME NEW i \in DOMAIN segments', NEW h \in DOMAIN segments',
               Pending(segments[i])', segments'[i].pending.source = live.ino
        PROVE  (Gone(segments[h])' => h < i) /\ ~Landed(segments[h])'
    <3>1. CASE i \in DOMAIN segments
      <4>1. Pending(segments[i]) /\ segments[i].pending.source = live.ino
        BY <1>9, <2>4, <3>1
      <4>2. QED
        BY <1>9, <1>10, <2>1, <3>1, <4>1 DEF ArchiveInv
    <3>2. CASE i \notin DOMAIN segments
      BY <1>6, <1>7, <1>9, <1>10, <3>2 DEF Halfway
    <3>3. QED
      BY <3>1, <3>2
  <2>5. QED
    BY <1>2, <2>2, <2>3, <2>4 DEF ArchiveInv, Pending
<1>16. ClaimInv'
  <2>1. CASE claim' \in {claim, None}
    BY <1>12, <1>13, <2>1 DEF IInv, WorldInv, ClaimInv
  <2>2. CASE Holds(c) /\ claim' = j.claim /\ Planned(j.claim) /\ claim' # None
    <3>1. Planned(claim)' /\ claim'.replacement # live.ino
      BY <1>7, <1>13, <2>2 DEF SameJob
    <3>2. QED
      BY <1>2, <3>1 DEF ClaimInv, Renamed
  <2>3. QED
    BY <2>1, <2>2 DEF Archives, ClaimInv
<1>17. KeptInv'
  <2>1. KeptInv
    BY DEF IInv, WorldInv
  <2>2. \A i \in DOMAIN segments' : Gone(segments[i])' =>
          i \in DOMAIN segments /\ Gone(segments[i]) /\ segments'[i].rows = segments[i].rows
    BY <1>9, <1>10 DEF Archives
  <2>3. \A i \in DOMAIN segments : Gone(segments[i]) =>
          /\ i \in DOMAIN segments' /\ Gone(segments[i])'
          /\ segments'[i].rows = segments[i].rows
    BY <1>9 DEF Archives
  <2> DEFINE D == DOMAIN segments
             E == DOMAIN segments'
  <2>4. /\ \A i \in E : Gone(segments[i])' =>
             \A m, n \in DOMAIN segments'[i].rows :
                m < n => segments'[i].rows[m] < segments'[i].rows[n]
        /\ \A i, h \in E : Gone(segments[i])' /\ Gone(segments[h])' /\ i < h =>
             \A m \in DOMAIN segments'[i].rows, n \in DOMAIN segments'[h].rows :
                segments'[i].rows[m] < segments'[h].rows[n]
        /\ \A i \in E : Gone(segments[i])' =>
             \A m \in DOMAIN segments'[i].rows : segments'[i].rows[m] \in 1..Base \ dropped
    BY <2>1, <2>2 DEF KeptInv
  <2>5. \A r \in 1..Base \ dropped : \E i \in E :
           Gone(segments[i])' /\ \E m \in DOMAIN segments'[i].rows : segments'[i].rows[m] = r
    BY <2>1, <2>3 DEF KeptInv
  <2>6. dropped \subseteq 1..Base
    BY <2>1 DEF KeptInv
  <2>7. QED
    BY <1>2, <2>4, <2>5, <2>6 DEF KeptInv
<1>18. ASSUME NEW d \in Compactor
       PROVE  SourceInv(d)' /\ PlanInv(d)' /\ HolderInv(d)'
  <2>1. CASE d # c
    <3>1. pc'[d] = pc[d] /\ job'[d] = job[d] /\ pc[d] \notin Critical
      BY <1>1, <2>1, HolderFacts
    <3>2. SourceInv(d) /\ PlanInv(d)
      BY DEF IInv, CommandInv
    <3>3. SourceInv(d)'
      BY <1>2, <1>11, <1>12, <3>1, <3>2 DEF SourceInv, Cuts, Holds, Rotates
    <3>4. PlanInv(d)'
      BY <1>2, <1>12, <1>13, <3>1, <3>2 DEF PlanInv, Cuts, Holds
    <3>5. HolderInv(d)'
      BY <3>1 DEF HolderInv, Critical
    <3>6. QED
      BY <3>3, <3>4, <3>5
  <2>2. CASE d = c
    <3>1. SourceInv(c) /\ PlanInv(c)
      BY HolderFacts
    <3>2. (Cuts(c)' => Holds(c)') /\ (Holds(c) => Cuts(c))
      BY <1>1 DEF Cuts, Holds, Copied, Committed, Critical
    <3>3. Holds(c)' => Holds(c) /\ Cuts(c) /\ j.claim # None /\ job[c].source = live.ino
      BY <1>1, <1>8, <3>2, HolderFacts DEF Holds, Copied, Committed
    <3>4. SourceInv(c)'
      BY <1>1, <1>2, <1>11, <3>1, <3>2, <3>3, HolderFacts
      DEF SourceInv, SameJob, Critical, Rotates
    <3>5. PlanInv(c)'
      <4>1. Leading(j.claim.rows)' <=> Leading(j.claim.rows)
        BY <1>12
      <4>2. Indexed(j.claim) => Indexed(j.claim)'
        BY <1>12
      <4>3. Published(j.claim) => Published(j.claim)'
        BY <1>12
      <4>4. Cuts(c)' /\ j.kind = "old" => Indexed(j.claim)
        BY <3>1, <3>2, <3>3 DEF PlanInv, SameJob, Rotations
      <4>5. Holds(c)' /\ j.verified => j.kind \notin Rotations /\ Published(j.claim)
        BY <3>1, <3>3 DEF PlanInv, SameJob
      <4>6. Holds(c)' => /\ Leading(j.claim.rows)
                         /\ Len(j.claim.rows) <= j.copied /\ j.copied <= Size
        BY <3>1, <3>3 DEF PlanInv, SameJob
      <4>7. pc'[c] \notin {"prepare", "lock", "publish"}
        BY <1>1 DEF Critical
      <4>8. QED
        BY <1>1, <1>2, <4>1, <4>2, <4>3, <4>4, <4>5, <4>6, <4>7 DEF PlanInv
    <3>6. QED
      BY <2>2, <3>4, <3>5
  <2>3. QED
    BY <2>1, <2>2
<1>19. ASSUME NEW d \in Compactor, Holds(d)'
       PROVE  Fresh(d)'
  <2>0. PICK r : r = job[d].claim.replacement
    OBVIOUS
  <2>1. Holds(d) /\ Fresh(d) /\ Unseen(r)
    BY <1>1, <1>19, <2>0 DEF IInv, FreshInv, Fresh
  <2>2. job'[d].claim.replacement = r
    <3>1. CASE d = c
      <4>1. job'[c].claim # None
        BY <1>19, <3>1 DEF Holds, TypeInv, KindInv, Fits, Copied
      <4>2. QED
        BY <1>1, <2>0, <3>1, <4>1 DEF SameJob
    <3>2. QED
      BY <1>1, <2>0, <3>1
  <2>3. live.ino # r
    BY <2>1 DEF Unseen
  <2>4. ASSUME Holds(c), j.claim # None PROVE j.claim.source # r
    BY <2>3, <2>4, HolderFacts DEF SameJob
  <2>5. ASSUME NEW i \in DOMAIN segments', Pending(segments[i])'
        PROVE  segments'[i].pending.source # r
    <3>1. CASE i \in DOMAIN segments /\ segments'[i].pending = segments[i].pending
      BY <1>9, <2>1, <2>5, <3>1 DEF Unseen
    <3>2. CASE i \in DOMAIN segments /\ segments'[i].pending # segments[i].pending
      BY <1>7, <1>9, <2>3, <2>5, <3>2
    <3>3. CASE i \notin DOMAIN segments
      BY <1>10, <2>3, <3>3
    <3>4. QED
      BY <3>1, <3>2, <3>3
  <2>6. claim' # None => claim'.source # r
    BY <2>1, <2>4 DEF Archives, Unseen
  <2>7. \A e \in Compactor : /\ job'[e].source # r
                             /\ job'[e].claim # None => job'[e].claim.source # r
    BY <1>1, <2>1 DEF Unseen, SameJob
  <2>8. Unseen(r)'
    BY <1>2, <2>1, <2>5, <2>6, <2>7 DEF Unseen, Pending
  <2>9. \A e \in Compactor \ {d} : Holds(e)' => job'[e].claim.replacement # r
    <3> SUFFICES ASSUME NEW e \in Compactor \ {d}, Holds(e)'
                 PROVE  job'[e].claim.replacement # r
      OBVIOUS
    <3>1. Holds(e) /\ job[e].claim.replacement # r
      BY <1>1, <2>0, <2>1 DEF Fresh
    <3>2. job'[e].claim # None
      BY DEF Holds, TypeInv, KindInv, Fits, Copied
    <3>3. QED
      BY <1>1, <3>1, <3>2 DEF SameJob
  <2>10. d # c => pc[d] \in {"lock"} /\ pc'[d] = "lock"
    BY <1>1, <2>1, HolderFacts DEF Holds, Copied, Committed, Critical
  <2>11. d = c => pc'[d] = state /\ state # "publish" /\ job'[d].kind = job[d].kind
    BY <1>1 DEF SameJob
  <2>12. ASSUME pc'[d] \in {"lock", "publish"} \/ job'[d].kind = "old", claim' # None
         PROVE  claim'.replacement # r
    <3>1. CASE claim' = claim
      <4>1. pc[d] \in {"lock", "publish"} \/ job[d].kind = "old"
        BY <1>1, <2>10, <2>11, <2>12 DEF Critical
      <4>2. QED
        BY <2>0, <2>1, <2>12, <3>1, <4>1 DEF Fresh
    <3>2. CASE Holds(c) /\ claim' = j.claim /\ j.kind # "old"
      <4>1. d # c
        BY <1>1, <2>11, <2>12, <3>2 DEF Critical
      <4>2. j.claim.replacement = job[c].claim.replacement
        BY <2>12, <3>2 DEF SameJob
      <4>3. QED
        BY <2>0, <2>1, <3>2, <4>1, <4>2 DEF Fresh
    <3>3. QED
      BY <2>12, <3>1, <3>2 DEF Archives
  <2>13. ASSUME NEW i \in DOMAIN segments', Pending(segments[i])',
                segments'[i].pending.replacement = r
         PROVE  pc'[d] \in {"cursor", "rename"} /\ segments'[i].seq = job'[d].claim.seq
    <3>1. ASSUME segments'[i].pending = Drop(j.claim), Holds(c), j.claim # None,
                 segments'[i].seq = j.claim.seq, state = "cursor"
          PROVE  pc'[d] \in {"cursor", "rename"} /\ segments'[i].seq = job'[d].claim.seq
      <4>1. d = c
        BY <1>7, <2>0, <2>1, <2>13, <3>1 DEF Fresh
      <4>2. QED
        BY <1>1, <3>1, <4>1
    <3>2. CASE i \in DOMAIN segments /\ segments'[i].pending = segments[i].pending
      <4>1. pc[d] \in {"cursor", "rename"} /\ segments[i].seq = job[d].claim.seq
        BY <1>9, <2>0, <2>1, <2>13, <3>2 DEF Fresh
      <4>2. d = c
        BY <2>10, <4>1
      <4>3. QED
        BY <4>1, <4>2
    <3>3. CASE i \in DOMAIN segments /\ segments'[i].pending # segments[i].pending
      BY <1>9, <2>13, <3>1, <3>3 DEF Archives
    <3>4. CASE i \notin DOMAIN segments
      BY <1>10, <3>1, <3>4 DEF Archives
    <3>5. QED
      BY <3>2, <3>3, <3>4
  <2>14. QED
    BY <2>2, <2>8, <2>9, <2>12, <2>13, Zenon DEF Fresh
<1>20. SyncInv'
  <2>1. ASSUME NEW d \in Compactor, Holds(d)'
        PROVE  Holds(d) /\ job'[d].claim.replacement = job[d].claim.replacement
    <3>1. job'[d].claim # None
      BY <2>1 DEF Holds, TypeInv, KindInv, Fits, Copied
    <3>2. QED
      BY <1>1, <2>1, <3>1 DEF SameJob
  <2>2. QED
    BY <1>2, <2>1 DEF IInv, SyncInv
<1>21. QED
  BY <1>14, <1>15, <1>16, <1>17, <1>18, <1>19, <1>20
  DEF IInv, WorldInv, CommandInv, FreshInv

\* The claim is on disk, or the drop of an older release names the new replacement.
LEMMA PublishStep ==
  ASSUME IInv, TypeInv', NEW c \in Compactor, Publish(c)
  PROVE  IInv'
<1>1. /\ pc[c] = "publish" /\ pc[c] \in Critical \ {"cursor", "rename"} /\ job[c] \in Jobs
      /\ UNCHANGED <<live, appended, dropped, sjob, gz>>
  BY DEF Publish, At, Locked, sync, Critical, IInv, TypeInv, TypeOK
<1>2. /\ Fits("publish", job[c]) /\ SourceInv(c) /\ PlanInv(c) /\ HolderInv(c)
      /\ Holds(c) => /\ Cuts(c) /\ ~Halfway /\ Leading(job[c].claim.rows)
                     /\ job[c].source = live.ino /\ job[c].claim.source = live.ino
  BY <1>1, HolderFacts
<1>3. Holds(c) /\ Cuts(c) /\ job[c].claim # None /\ job[c].claim \in Claims
  <2>1. Holds(c) /\ job[c].claim # None
    BY <1>1, <1>2 DEF Fits, Holds, Copied, Committed
  <2>2. QED
    BY <1>1, <1>2, <2>1 DEF Jobs
<1>4. /\ segments \in Seq(Segments) /\ gz \in Seq(Seq(1..MaxRows)) /\ Len(gz) \in Nat
      /\ DOMAIN gz = 1..Len(gz)
  BY LenProperties DEF IInv, TypeInv, TypeOK
<1>5. PICK k : k = [job[c].claim EXCEPT !.seq = Len(gz) + 1]
  OBVIOUS
<1>6. /\ k \in Claims /\ k # None /\ k.seq = Len(gz) + 1 /\ k.rows = job[c].claim.rows
      /\ k.source = job[c].claim.source /\ k.replacement = job[c].claim.replacement
      /\ k.cursor = job[c].claim.cursor
  <2>1. Len(gz) + 1 \in Nat
    BY <1>4
  <2>2. k \in Claims
    BY <1>3, <1>5, <2>1 DEF Claims
  <2>3. k # None
    BY <2>2, RecordAssumption
  <2>4. QED
    BY <1>3, <1>5, <2>1, <2>2, <2>3 DEF Claims
<1>7. PICK j : j = [job[c] EXCEPT !.claim = k]
  OBVIOUS
<1>8. /\ j \in Jobs /\ j.kind = job[c].kind /\ j.source = job[c].source /\ j.size = job[c].size
      /\ j.copied = job[c].copied /\ j.verified = job[c].verified /\ j.claim = k
  BY <1>1, <1>6, <1>7 DEF Jobs
<1>9. CASE Stay(c, "unlock") /\ UNCHANGED <<claim, segments>>
  <2>1. Become(c, "unlock", job[c]) /\ "unlock" \in Critical \ {"publish"}
    BY <1>9 DEF Stay, Critical
  <2>2. pc'[c] = "unlock"
    BY <1>1, <2>1, BecomeFacts DEF IInv, States
  <2>3. ~Holds(c)' /\ HolderInv(c)'
    BY <2>2 DEF Holds, HolderInv, Copied, Committed
  <2>4. Archives(c, "unlock", job[c]) /\ SameJob(c, job[c])
    BY <1>1, <1>9 DEF Archives, SameJob
  <2>5. QED
    BY <1>1, <2>1, <2>3, <2>4, ArchiveStep
<1>10. CASE Rotates(c) /\ claim' = k /\ Become(c, "link", j) /\ UNCHANGED segments
  <2>1. pc'[c] = "link" /\ job'[c] = j /\ "link" \in Critical \ {"publish"}
    BY <1>8, <1>10, BecomeFacts DEF IInv, States, Critical
  <2>2. job[c].kind \in Rotations /\ j.kind \in Rotations /\ j.kind # "old"
    BY <1>8, <1>10 DEF Rotates, Rotations
  <2>3. Planned(k)
    <3>1. \A i \in DOMAIN segments : segments[i].seq # k.seq
      BY <1>4, <1>6 DEF IInv, WorldInv, ArchiveInv
    <3>2. k.seq \in 1..Len(gz) + 1
      BY <1>4, <1>6
    <3>3. QED
      BY <1>2, <1>3, <1>6, <3>1, <3>2 DEF Planned
  <2>4. Archives(c, "link", j)
    BY <1>1, <1>3, <1>8, <1>10, <2>2, <2>3 DEF Archives
  <2>5. SameJob(c, j)
    BY <1>3, <1>6, <1>8, <2>2 DEF SameJob
  <2>6. HolderInv(c)'
    BY <1>1, <1>2, <1>3, <1>8, <1>10, <2>1 DEF HolderInv
  <2>7. QED
    BY <1>1, <1>3, <1>8, <1>10, <2>1, <2>4, <2>5, <2>6, ArchiveStep
<1>11. CASE /\ job[c].kind = "resume" /\ claim' = job[c].claim /\ Stay(c, "link")
            /\ UNCHANGED segments
  <2>1. Become(c, "link", job[c]) /\ "link" \in Critical \ {"publish"}
    BY <1>11 DEF Stay, Critical
  <2>2. pc'[c] = "link" /\ job'[c] = job[c]
    BY <1>1, <2>1, BecomeFacts DEF IInv, States
  <2>3. Planned(job[c].claim)
    BY <1>1, <1>2, <1>11 DEF PlanInv
  <2>4. Archives(c, "link", job[c]) /\ SameJob(c, job[c])
    BY <1>1, <1>3, <1>11, <2>3 DEF Archives, SameJob
  <2>5. HolderInv(c)'
    BY <1>1, <1>2, <1>3, <1>11, <2>2 DEF HolderInv
  <2>6. QED
    BY <1>1, <1>3, <2>1, <2>4, <2>5, ArchiveStep
<1>12. CASE /\ job[c].kind = "old"
            /\ segments' = WithPending(job[c].claim.seq, Drop(job[c].claim))
            /\ Stay(c, "cursor")
            /\ UNCHANGED claim
  <2>1. Become(c, "cursor", job[c]) /\ "cursor" \in Critical \ {"publish"}
    BY <1>12 DEF Stay, Critical
  <2>2. pc'[c] = "cursor" /\ job'[c] = job[c]
    BY <1>1, <2>1, BecomeFacts DEF IInv, States
  <2>3. Drop(job[c].claim) \in Drops
    BY <1>3 DEF Drop, Drops, Claims
  <2>4. /\ DOMAIN segments' = DOMAIN segments
        /\ \A i \in DOMAIN segments :
             /\ segments'[i].seq = segments[i].seq
             /\ segments'[i].rows = segments[i].rows
             /\ segments'[i].pending =
                  IF segments[i].seq = job[c].claim.seq THEN Drop(job[c].claim)
                  ELSE segments[i].pending
    BY <1>4, <1>12, <2>3, WithPendingFacts
  <2>5. \A i \in DOMAIN segments : segments[i].seq = job[c].claim.seq =>
          Pending(segments[i]) /\ segments[i].pending.source = live.ino
    BY <1>1, <1>2, <1>3, <1>12 DEF PlanInv, Planned
  <2>6. Archives(c, "cursor", job[c]) /\ SameJob(c, job[c])
    BY <1>1, <1>3, <1>12, <2>4, <2>5 DEF Archives, SameJob
  <2>7. HolderInv(c)'
    <3>1. Indexed(job[c].claim)
      BY <1>2, <1>3, <1>12 DEF PlanInv
    <3>2. \E i \in DOMAIN segments' : /\ segments'[i].seq = job[c].claim.seq
                                      /\ segments'[i].rows = job[c].claim.rows
                                      /\ segments'[i].pending = Drop(job[c].claim)
      BY <2>4, <3>1 DEF Indexed
    <3>3. QED
      BY <1>1, <1>2, <1>3, <1>12, <2>2, <3>2 DEF HolderInv, Rotations, Drop
  <2>8. QED
    BY <1>1, <1>3, <2>1, <2>6, <2>7, ArchiveStep
<1>13. QED
  BY <1>5, <1>7, <1>9, <1>10, <1>11, <1>12 DEF Publish

\* The segment's file is there, under the number of the claim.
LEMMA LinkSegmentStep ==
  ASSUME IInv, TypeInv', NEW c \in Compactor, LinkSegment(c)
  PROVE  IInv'
<1>1. /\ pc[c] = "link" /\ pc[c] \in Critical \ {"cursor", "rename"} /\ job[c] \in Jobs
      /\ UNCHANGED <<live, appended, dropped, sjob, segments, claim>>
  BY DEF LinkSegment, At, Locked, sync, Critical, IInv, TypeInv, TypeOK
<1>2. /\ Fits("link", job[c]) /\ SourceInv(c) /\ PlanInv(c) /\ HolderInv(c)
      /\ Holds(c) => /\ Cuts(c) /\ ~Halfway /\ Leading(job[c].claim.rows)
                     /\ job[c].source = live.ino /\ job[c].claim.source = live.ino
  BY <1>1, HolderFacts
<1>3. /\ Holds(c) /\ job[c].claim # None /\ job[c].claim \in Claims
      /\ job[c].kind \in Rotations \cup {"resume"} /\ claim = job[c].claim
  <2>1. job[c].kind \in Rotations \cup {"resume"} /\ job[c].claim # None
    BY <1>2 DEF Fits, Copied, Committed
  <2>2. Holds(c) /\ claim = job[c].claim
    BY <1>1, <1>2, <2>1 DEF Holds, Copied, Committed, Rotations, HolderInv
  <2>3. QED
    BY <1>1, <2>1, <2>2 DEF Jobs
<1>4. gz \in Seq(Seq(1..MaxRows)) /\ Len(gz) \in Nat /\ DOMAIN gz = 1..Len(gz)
  BY LenProperties DEF IInv, TypeInv, TypeOK
<1>5. PICK state \in {"store", "unlock"} :
        /\ Stay(c, state)
        /\ state = "store" => \/ /\ job[c].claim.seq \notin DOMAIN gz
                                 /\ gz' = Append(gz, job[c].claim.rows)
                              \/ job[c].verified /\ gz' = gz
        /\ state = "unlock" => gz' = gz
  BY DEF LinkSegment
<1>6. Become(c, state, job[c]) /\ state \in Critical \ {"publish"}
  BY <1>5 DEF Stay, Critical
<1>7. pc'[c] = state /\ job'[c] = job[c]
  BY <1>1, <1>6, BecomeFacts DEF IInv, States
<1>8. /\ \A n \in DOMAIN gz : n \in DOMAIN gz' /\ gz'[n] = gz[n]
      /\ state = "store" => Published(job[c].claim)'
  <2>1. CASE gz' = gz
    BY <1>2, <1>3, <1>5, <1>7, <2>1 DEF PlanInv, Published
  <2>2. CASE job[c].claim.seq \notin DOMAIN gz /\ gz' = Append(gz, job[c].claim.rows)
    <3>1. Planned(job[c].claim)
      BY <1>3 DEF IInv, WorldInv, ClaimInv
    <3>2. job[c].claim.seq = Len(gz) + 1
      <4>1. job[c].claim.seq \in 1..Len(gz) + 1
        BY <1>2, <1>3, <3>1 DEF Planned
      <4>2. QED
        BY <1>4, <2>2, <4>1
    <3>3. /\ Len(gz') = Len(gz) + 1 /\ DOMAIN gz' = 1..Len(gz) + 1
          /\ \A n \in 1..Len(gz) : gz'[n] = gz[n]
          /\ gz'[Len(gz) + 1] = job[c].claim.rows
      <4>1. job[c].claim.rows \in Seq(1..MaxRows)
        BY <1>3 DEF Claims
      <4>2. QED
        BY <1>4, <2>2, <4>1, AppendProperties, LenProperties
    <3>4. QED
      BY <1>4, <1>7, <3>2, <3>3 DEF Published
  <2>3. QED
    BY <1>5, <2>1, <2>2
<1>9. Archives(c, state, job[c]) /\ SameJob(c, job[c])
  BY <1>1, <1>3, <1>8 DEF Archives, SameJob
<1>10. HolderInv(c)' /\ (Holds(c)' => Holds(c))
  BY <1>1, <1>2, <1>3, <1>5, <1>7, <1>8 DEF HolderInv
<1>11. QED
  BY <1>1, <1>6, <1>9, <1>10, ArchiveStep

\* The manifest names it, with a pending drop.
LEMMA StoreSegmentStep ==
  ASSUME IInv, TypeInv', NEW c \in Compactor, StoreSegment(c)
  PROVE  IInv'
<1>1. /\ pc[c] = "store" /\ pc[c] \in Critical \ {"cursor", "rename"} /\ job[c] \in Jobs
      /\ UNCHANGED <<live, appended, dropped, sjob, gz, claim>>
  BY DEF StoreSegment, At, Locked, sync, Critical, IInv, TypeInv, TypeOK
<1>2. /\ Fits("store", job[c]) /\ SourceInv(c) /\ PlanInv(c) /\ HolderInv(c)
      /\ Holds(c) => /\ Cuts(c) /\ ~Halfway /\ Leading(job[c].claim.rows)
                     /\ job[c].source = live.ino /\ job[c].claim.source = live.ino
  BY <1>1, HolderFacts
<1>3. /\ Holds(c) /\ job[c].claim # None /\ job[c].claim \in Claims
      /\ claim = job[c].claim /\ Published(job[c].claim)
  <2>1. job[c].kind \in Rotations \cup {"resume"} /\ job[c].claim # None
    BY <1>2 DEF Fits, Copied, Committed
  <2>2. Holds(c) /\ claim = job[c].claim /\ Published(job[c].claim)
    BY <1>1, <1>2, <2>1 DEF Holds, Copied, Committed, Rotations, HolderInv
  <2>3. QED
    BY <1>1, <2>1, <2>2 DEF Jobs
<1>4. PICK k : k = job[c].claim
  OBVIOUS
<1>5. /\ segments \in Seq(Segments) /\ Len(segments) \in Nat
      /\ DOMAIN segments = 1..Len(segments) /\ Drop(k) \in Drops
  BY <1>3, <1>4, LenProperties DEF IInv, TypeInv, TypeOK, Drop, Drops, Claims
<1>6. CASE Stay(c, "unlock") /\ UNCHANGED segments
  <2>1. Become(c, "unlock", job[c]) /\ "unlock" \in Critical \ {"publish"}
    BY <1>6 DEF Stay, Critical
  <2>2. pc'[c] = "unlock"
    BY <1>1, <2>1, BecomeFacts DEF IInv, States
  <2>3. ~Holds(c)' /\ HolderInv(c)'
    BY <2>2 DEF Holds, HolderInv, Copied, Committed
  <2>4. Archives(c, "unlock", job[c]) /\ SameJob(c, job[c])
    BY <1>1, <1>6 DEF Archives, SameJob
  <2>5. QED
    BY <1>1, <2>1, <2>3, <2>4, ArchiveStep
<1>7. ASSUME Stay(c, "cursor"),
             \A i \in DOMAIN segments :
               /\ i \in DOMAIN segments'
               /\ segments'[i].seq = segments[i].seq /\ segments'[i].rows = segments[i].rows
               /\ segments'[i].pending =
                    IF segments[i].seq = k.seq THEN Drop(k) ELSE segments[i].pending,
             \A i \in DOMAIN segments' \ DOMAIN segments :
               /\ segments'[i] = [seq |-> k.seq, rows |-> k.rows, pending |-> Drop(k)]
               /\ \A h \in DOMAIN segments : segments[h].seq # k.seq
               /\ \A h \in DOMAIN segments' \ DOMAIN segments : h = i,
             \E i \in DOMAIN segments' : /\ segments'[i].seq = k.seq
                                         /\ segments'[i].rows = k.rows
                                         /\ segments'[i].pending = Drop(k)
      PROVE  IInv'
  <2>1. Become(c, "cursor", job[c]) /\ "cursor" \in Critical \ {"publish"}
    BY <1>7 DEF Stay, Critical
  <2>2. pc'[c] = "cursor" /\ job'[c] = job[c]
    BY <1>1, <2>1, BecomeFacts DEF IInv, States
  <2>3. Planned(k) /\ Published(k)'
    BY <1>1, <1>3, <1>4 DEF IInv, WorldInv, ClaimInv, Published
  <2>4. \A i \in DOMAIN segments : segments[i].seq = k.seq =>
          Pending(segments[i]) /\ segments[i].pending.source = live.ino
    BY <1>2, <1>3, <1>4, <2>3 DEF Planned
  <2>5. Archives(c, "cursor", job[c]) /\ SameJob(c, job[c])
    BY <1>1, <1>3, <1>4, <1>7, <2>2, <2>3, <2>4 DEF Archives, SameJob
  <2>6. HolderInv(c)' /\ (Holds(c)' => Holds(c))
    BY <1>1, <1>2, <1>3, <1>4, <1>7, <2>2 DEF HolderInv, Drop
  <2>7. QED
    BY <1>1, <2>1, <2>5, <2>6, ArchiveStep
<1>8. CASE /\ \A i \in DOMAIN segments : segments[i].seq # k.seq
           /\ segments' = Append(segments, [seq |-> k.seq, rows |-> k.rows,
                                            pending |-> Drop(k)])
           /\ Stay(c, "cursor")
  <2>1. PICK entry : entry = [seq |-> k.seq, rows |-> k.rows, pending |-> Drop(k)]
    OBVIOUS
  <2>2. entry \in Segments
    BY <1>3, <1>4, <1>5, <2>1 DEF Segments, Claims
  <2>3. /\ DOMAIN segments' = 1..Len(segments) + 1
        /\ \A i \in 1..Len(segments) : segments'[i] = segments[i]
        /\ segments'[Len(segments) + 1] = entry
    <3>1. segments' = Append(segments, entry)
      BY <1>8, <2>1
    <3>2. QED
      BY <1>5, <2>2, <3>1, AppendProperties, LenProperties
  <2>4. \A i \in DOMAIN segments' \ DOMAIN segments : i = Len(segments) + 1
    BY <1>5, <2>3
  <2>5. entry.seq = k.seq /\ entry.rows = k.rows /\ entry.pending = Drop(k)
    BY <2>1
  <2>6. \A i \in DOMAIN segments : i \in DOMAIN segments' /\ segments'[i] = segments[i]
    BY <1>5, <2>3
  <2>7. Len(segments) + 1 \in DOMAIN segments'
    BY <1>5, <2>3
  <2>8. QED
    BY <1>7, <1>8, <2>1, <2>3, <2>4, <2>5, <2>6, <2>7
<1>9. CASE /\ \E i \in DOMAIN segments : segments[i].seq = k.seq
           /\ \A i \in DOMAIN segments : segments[i].seq = k.seq => segments[i].rows = k.rows
           /\ segments' = WithPending(k.seq, Drop(k))
           /\ Stay(c, "cursor")
  <2>1. /\ DOMAIN segments' = DOMAIN segments
        /\ \A i \in DOMAIN segments :
             /\ segments'[i].seq = segments[i].seq
             /\ segments'[i].rows = segments[i].rows
             /\ segments'[i].pending =
                  IF segments[i].seq = k.seq THEN Drop(k) ELSE segments[i].pending
    BY <1>5, <1>9, WithPendingFacts
  <2>2. QED
    BY <1>7, <1>9, <2>1
<1>10. QED
  BY <1>4, <1>6, <1>8, <1>9 DEF StoreSegment

\* The segment's rows have left the live file, and the manifest says so.
LEMMA CompleteStep ==
  ASSUME IInv, TypeInv', NEW c \in Compactor, Complete(c)
  PROVE  IInv'
<1>1. /\ pc[c] = "complete" /\ pc[c] \in Critical \ {"cursor", "rename"} /\ job[c] \in Jobs
      /\ UNCHANGED <<live, appended, dropped, sjob, gz, claim>>
      /\ segments' = WithPending(job[c].claim.seq, None)
  BY DEF Complete, At, Locked, sync, Critical, IInv, TypeInv, TypeOK
<1>2. Fits("complete", job[c]) /\ HolderInv(c)
  BY <1>1, HolderFacts
<1>3. PICK state \in {"cursor", "unlock", "unclaim"} :
        Stay(c, state) /\ (state = "cursor" <=> job[c].kind = "finish")
  BY DEF Complete
<1>4. Become(c, state, job[c]) /\ state \in Critical \ {"publish"}
  BY <1>3 DEF Stay, Critical
<1>5. pc'[c] = state /\ job'[c] = job[c] /\ ~Holds(c)'
  <2>1. pc'[c] = state /\ job'[c] = job[c]
    BY <1>1, <1>4, BecomeFacts DEF IInv, States
  <2>2. QED
    BY <1>3, <2>1 DEF Holds, Copied, Committed
<1>6. segments \in Seq(Segments)
  BY DEF IInv, TypeInv, TypeOK
<1>7. /\ DOMAIN segments' = DOMAIN segments
      /\ \A i \in DOMAIN segments :
           /\ segments'[i].seq = segments[i].seq
           /\ segments'[i].rows = segments[i].rows
           /\ segments'[i].pending = IF segments[i].seq = job[c].claim.seq THEN None
                                     ELSE segments[i].pending
  BY <1>1, <1>6, WithPendingFacts
<1>8. \A i \in DOMAIN segments : segments[i].seq = job[c].claim.seq => Gone(segments[i])
  <2>1. PICK h \in DOMAIN segments : segments[h].seq = job[c].claim.seq /\ Gone(segments[h])
    BY <1>1, <1>2 DEF HolderInv, Renamed
  <2>2. \A i \in DOMAIN segments : segments[i].seq = job[c].claim.seq => i = h
    BY <2>1 DEF IInv, WorldInv, ArchiveInv
  <2>3. QED
    BY <2>1, <2>2
<1>9. Archives(c, state, job[c]) /\ SameJob(c, job[c])
  BY <1>1, <1>7, <1>8 DEF Archives, SameJob
<1>10. HolderInv(c)'
  BY <1>1, <1>2, <1>3, <1>5 DEF HolderInv
<1>11. QED
  BY <1>1, <1>4, <1>5, <1>9, <1>10, ArchiveStep

LEMMA UnclaimStep ==
  ASSUME IInv, TypeInv', NEW c \in Compactor, Unclaim(c)
  PROVE  IInv'
<1>1. /\ pc[c] = "unclaim" /\ pc[c] \in Critical \ {"cursor", "rename"} /\ job[c] \in Jobs
      /\ UNCHANGED <<live, appended, dropped, sjob, gz, segments>>
      /\ claim' = None /\ Stay(c, "unlock")
  BY DEF Unclaim, At, Locked, sync, Critical, IInv, TypeInv, TypeOK
<1>2. Become(c, "unlock", job[c]) /\ "unlock" \in Critical \ {"publish"}
  BY <1>1 DEF Stay, Critical
<1>3. pc'[c] = "unlock"
  BY <1>1, <1>2, BecomeFacts DEF IInv, States
<1>4. ~Holds(c)' /\ HolderInv(c)'
  BY <1>3 DEF Holds, HolderInv, Copied, Committed
<1>5. Archives(c, "unlock", job[c]) /\ SameJob(c, job[c])
  BY <1>1 DEF Archives, SameJob
<1>6. QED
  BY <1>1, <1>2, <1>4, <1>5, ArchiveStep

-----------------------------------------------------------------------------
(* Steps that change the live file.                                        *)

\* Rows are appended behind everything that a command has seen.
LEMMA AddRowStep ==
  ASSUME IInv, TypeInv', AddRow
  PROVE  IInv'
<1>1. /\ live \in [ino : Nat, rows : Seq(1..MaxRows)] /\ appended \in Nat /\ Size \in Nat
      /\ sjob \in [Syncer -> Syncs]
  BY DEF IInv, TypeInv, TypeOK, Size
<1>2. /\ holder = None /\ appended' = appended + 1
      /\ live' = [live EXCEPT !.rows = Append(@, appended + 1)]
      /\ UNCHANGED <<segments, gz, claim, dropped, pc, job, sjob>>
  BY DEF AddRow, Free, archive, compact, sync, server
<1>3. /\ live'.ino = live.ino /\ Size' = Size + 1 /\ Base' = Base
      /\ \A i \in 1..Size : live'.rows[i] = live.rows[i]
      /\ live'.rows[Size + 1] = appended + 1
  <2>1. live.rows \in Seq(1..MaxRows) /\ appended + 1 \in 1..MaxRows
    BY <1>1, <1>2 DEF TypeInv, TypeOK
  <2>2. live'.ino = live.ino /\ live'.rows = Append(live.rows, appended + 1)
    BY <1>1, <1>2
  <2>3. QED
    BY <1>1, <1>2, <2>1, <2>2, AppendProperties DEF Size, Base
<1>4. /\ \A rows : Leading(rows) => Leading(rows)'
      /\ \A k : Renamed(k)' <=> Renamed(k)
      /\ \A k : Indexed(k)' <=> Indexed(k)
      /\ \A k : Published(k)' <=> Published(k)
      /\ Halfway' <=> Halfway
  <2>1. \A rows : Leading(rows) => Leading(rows)'
    <3> SUFFICES ASSUME NEW rows, Leading(rows) PROVE Leading(rows)'
      OBVIOUS
    <3>1. Len(rows) <= Size + 1
      <4>1. CASE Len(rows) \in Int
        BY <1>1, <4>1 DEF Leading
      <4>2. CASE Len(rows) \notin Int
        BY <4>2 DEF Leading
      <4>3. QED
        BY <4>1, <4>2
    <3>2. QED
      BY <1>3, <3>1 DEF Leading
  <2>2. QED
    BY <1>2, <1>3, <2>1 DEF Renamed, Indexed, Published, Halfway, Landed, Gone
<1>5. LogInv'
  <2>1. Size' <= appended'
    BY <1>1, <1>2, <1>3 DEF IInv, WorldInv, LogInv
  <2>2. ASSUME NEW i \in 1..Size' PROVE live'.rows[i] = Base + i
    <3>1. CASE i = Size + 1
      BY <1>1, <1>3, <3>1 DEF Base
    <3>2. CASE i # Size + 1
      <4>1. i \in 1..Size
        BY <1>1, <1>3, <3>2
      <4>2. QED
        BY <1>3, <4>1 DEF IInv, WorldInv, LogInv
    <3>3. QED
      BY <3>1, <3>2
  <2>3. QED
    BY <1>3, <2>1, <2>2 DEF LogInv
<1>6. ArchiveInv' /\ KeptInv'
  BY <1>2, <1>3 DEF IInv, WorldInv, ArchiveInv, KeptInv, Landed, Gone, Pending
<1>7. \A k : Planned(k) => Planned(k)'
  BY <1>2, <1>3, <1>4 DEF Planned, Pending
<1>8. ClaimInv'
  BY <1>2, <1>4, <1>7 DEF IInv, WorldInv, ClaimInv
<1>9. ASSUME NEW c \in Compactor
      PROVE  SourceInv(c)' /\ PlanInv(c)' /\ HolderInv(c)'
  <2>1. pc'[c] = pc[c] /\ job'[c] = job[c] /\ job[c] \in Jobs /\ SourceInv(c) /\ PlanInv(c)
    BY <1>2 DEF IInv, CommandInv, TypeInv, TypeOK
  <2>2. pc[c] \notin Critical
    BY <1>2, RecordAssumption DEF IInv, TypeInv, KindInv
  <2>3. job[c].size \in Nat /\ job[c].copied \in Nat
    BY <2>1 DEF Jobs
  <2>4. SourceInv(c)'
    BY <1>1, <1>3, <1>4, <2>1, <2>3 DEF SourceInv, Cuts, Holds, Rotates
  <2>5. PlanInv(c)'
    BY <1>1, <1>3, <1>4, <1>7, <2>1, <2>3 DEF PlanInv, Cuts, Holds
  <2>6. HolderInv(c)'
    BY <2>1, <2>2 DEF HolderInv, Critical
  <2>7. QED
    BY <2>4, <2>5, <2>6
<1>10. FreshInv'
  BY <1>2, <1>3 DEF IInv, FreshInv, Fresh, Unseen, Holds, Pending
<1>11. SyncInv'
  <2>1. \A s \in Syncer : sjob[s].end \in Nat
    BY <1>1 DEF Syncs
  <2>2. QED
    BY <1>1, <1>2, <1>3, <2>1 DEF IInv, SyncInv, Holds
<1>12. QED
  BY <1>5, <1>6, <1>8, <1>9, <1>10, <1>11 DEF IInv, WorldInv, CommandInv

\* When another file is put in place, what the others know is of an old one.
LEMMA LeftBehind ==
  ASSUME IInv, NEW d \in Compactor, pc'[d] = pc[d], job'[d] = job[d], gz' = gz,
         pc[d] \notin Critical, job[d].source # live'.ino,
         job[d].claim # None => job[d].claim.source # live'.ino
  PROVE  SourceInv(d)' /\ PlanInv(d)' /\ HolderInv(d)'
<1>1. SourceInv(d) /\ PlanInv(d) /\ Fits(pc[d], job[d])
  BY DEF IInv, CommandInv, TypeInv, KindInv
<1>2. SourceInv(d)'
  BY <1>1 DEF SourceInv, Cuts, Holds, Rotates, Renamed
<1>3. PlanInv(d)'
  <2>1. pc[d] \in {"prepare", "lock", "publish"} /\ job[d].kind \in {"resume", "old"} =>
          Planned(job[d].claim)'
    BY <1>1 DEF Fits, Planned, Rotations, Copied, Committed
  <2>2. QED
    BY <1>1, <2>1 DEF PlanInv, Cuts, Holds, Published
<1>4. HolderInv(d)'
  BY DEF HolderInv, Critical
<1>5. QED
  BY <1>2, <1>3, <1>4

\* clean keeps the newest rows, in a file that nobody has seen.
LEMMA CleanFacts ==
  ASSUME IInv, TypeInv', Clean
  PROVE  \E cut \in Nat, ino \in Inodes :
           /\ Unused(ino) /\ 0 < cut /\ cut <= Size
           /\ live'.ino = ino /\ Size' = Size - cut /\ Base' = Base + cut
           /\ \A i \in 1..(Size - cut) : live'.rows[i] = live.rows[cut + i]
           /\ \A r : r \in dropped' <=> r \in (Base + 1)..(Base + cut)
<1>1. /\ live \in [ino : Nat, rows : Seq(1..MaxRows)] /\ appended \in Nat /\ Size \in Nat
      /\ segments \in Seq(Segments) /\ Base \in Nat /\ TypeOK
  <2>1. /\ live \in [ino : Nat, rows : Seq(1..MaxRows)] /\ appended \in Nat /\ Size \in Nat
        /\ segments \in Seq(Segments) /\ TypeOK
    BY DEF IInv, TypeInv, TypeOK, Size
  <2>2. Base \in Nat
    BY <2>1 DEF Base, IInv, WorldInv, LogInv
  <2>3. QED
    BY <2>1, <2>2
<1>2. PICK cut \in 1..(Size - TailRows), ino \in Inodes :
        /\ Unused(ino)
        /\ live' = [ino |-> ino, rows |-> SubSeq(live.rows, cut + 1, Size)]
        /\ dropped' = ToSet(SubSeq(live.rows, 1, cut))
  BY DEF Clean, Truncate
<1>3. UNCHANGED <<appended, segments, gz, claim, pc, job, sjob>>
  BY DEF Clean, Truncate, archive, compact, sync
<1>4. cut \in Nat /\ 0 < cut /\ cut <= Size
  BY <1>1, BoundsAssumption
<1>5. /\ live'.ino = ino /\ Size' = Size - cut /\ Base' = Base + cut
      /\ \A i \in 1..(Size - cut) : live'.rows[i] = live.rows[cut + i]
  <2>1. live.rows \in Seq(1..MaxRows) /\ Size = Len(live.rows)
    BY <1>1 DEF Size
  <2>2. live'.ino = ino /\ live'.rows = SubSeq(live.rows, cut + 1, Len(live.rows))
    BY <1>2, <2>1
  <2>3. /\ Len(live'.rows) = Size - cut
        /\ \A i \in 1..(Size - cut) : live'.rows[i] = live.rows[cut + i]
    <3>1. cut \in Nat /\ cut <= Len(live.rows)
      BY <1>4, <2>1
    <3>2. /\ Len(SubSeq(live.rows, cut + 1, Len(live.rows))) = Len(live.rows) - cut
          /\ \A i \in 1..(Len(live.rows) - cut) :
               SubSeq(live.rows, cut + 1, Len(live.rows))[i] = live.rows[cut + i]
      BY ONLY <2>1, <3>1, SuffixFacts
    <3>3. QED
      BY <2>1, <2>2, <3>2
  <2>4. Size' = Size - cut
    BY <2>3 DEF Size
  <2>5. Base' = Base + cut
    BY <1>1, <1>3, <1>4, <2>4 DEF Base
  <2>6. QED
    BY <2>2, <2>3, <2>4, <2>5
<1>6. \A r : r \in dropped' <=> r \in (Base + 1)..(Base + cut)
  <2> DEFINE t == SubSeq(live.rows, 1, cut)
  <2>1. live.rows \in Seq(1..MaxRows) /\ Size = Len(live.rows)
    BY <1>1 DEF Size
  <2>2. t \in Seq(1..MaxRows) /\ Len(t) = cut /\ \A i \in 1..cut : t[i] = live.rows[i]
    <3>1. cut \in Int /\ cut <= Len(live.rows) /\ cut > 0
      BY <1>4, <2>1
    <3>2. /\ SubSeq(live.rows, 1, cut) \in Seq(1..MaxRows)
          /\ Len(SubSeq(live.rows, 1, cut)) = cut
          /\ \A i \in 1..Len(SubSeq(live.rows, 1, cut)) :
               SubSeq(live.rows, 1, cut)[i] = live.rows[i]
      BY <2>1, <3>1, PrefixFacts
    <3>3. QED
      BY <3>2
  <2> HIDE DEF t
  <2>3. \A i \in 1..cut : t[i] = Base + i
    BY <1>1, <1>4, <2>2 DEF IInv, WorldInv, LogInv
  <2>4. DOMAIN t = 1..cut
    BY <2>2, LenProperties
  <2>5. dropped' = {t[i] : i \in 1..cut}
    BY <1>2, <2>4 DEF ToSet, t
  <2>6. \A r \in (Base + 1)..(Base + cut) : r - Base \in 1..cut /\ r = Base + (r - Base)
    BY <1>1, <1>4
  <2>7. \A r \in (Base + 1)..(Base + cut) : r \in dropped'
    BY <2>3, <2>5, <2>6
  <2>8. \A r \in dropped' : r \in (Base + 1)..(Base + cut)
    <3>1. \A i \in 1..cut : Base + i \in (Base + 1)..(Base + cut)
      BY <1>1, <1>4
    <3>2. QED
      BY <2>3, <2>5, <3>1
  <2>9. QED
    BY <2>7, <2>8
<1>7. QED
  BY <1>2, <1>4, <1>5, <1>6

LEMMA CleanStep ==
  ASSUME IInv, TypeInv', Clean
  PROVE  IInv'
<1>1. /\ live \in [ino : Nat, rows : Seq(1..MaxRows)] /\ appended \in Nat /\ Size \in Nat
      /\ segments \in Seq(Segments) /\ Base \in Nat /\ TypeOK
  <2>1. /\ live \in [ino : Nat, rows : Seq(1..MaxRows)] /\ appended \in Nat /\ Size \in Nat
        /\ segments \in Seq(Segments) /\ TypeOK
    BY DEF IInv, TypeInv, TypeOK, Size
  <2>2. Base \in Nat
    BY <2>1 DEF Base, IInv, WorldInv, LogInv
  <2>3. QED
    BY <2>1, <2>2
<1>2. PICK cut \in Nat, ino \in Inodes :
        /\ Unused(ino) /\ 0 < cut /\ cut <= Size
        /\ live'.ino = ino /\ Size' = Size - cut /\ Base' = Base + cut
        /\ \A i \in 1..(Size - cut) : live'.rows[i] = live.rows[cut + i]
        /\ \A r : r \in dropped' <=> r \in (Base + 1)..(Base + cut)
  BY CleanFacts
<1>3. /\ holder = None /\ dropped = {} /\ claim = None
      /\ UNCHANGED <<appended, segments, gz, claim, pc, job, sjob>>
  BY DEF Clean, Truncate, Free, archive, compact, sync
<1>4. \A i \in DOMAIN segments : ~Pending(segments[i])
  <2>1. PendingSegment = None
    BY DEF Clean
  <2>2. \A i \in DOMAIN segments : segments[i] \in Segments
    BY <1>1
  <2>3. QED
    BY <1>1, <2>1, <2>2, PendingSegmentFacts, RecordAssumption
<1>5. cut \in Nat /\ 0 < cut /\ cut <= Size
  BY <1>2
<1>6. /\ live'.ino = ino /\ Size' = Size - cut /\ Base' = Base + cut
      /\ \A i \in 1..(Size - cut) : live'.rows[i] = live.rows[cut + i]
  BY <1>2
<1>7. \A r : r \in dropped' <=> r \in (Base + 1)..(Base + cut)
  BY <1>2
<1>8. /\ ino # 0 /\ ino # live.ino
      /\ \A d \in Compactor :
           /\ ino # job[d].source
           /\ job[d].claim # None =>
                ino \notin {job[d].claim.source, job[d].claim.replacement}
      /\ \A s \in Syncer : ino # sjob[s].ino
  BY <1>1, <1>2, NewFile
<1>9. LogInv'
  <2>1. Size' <= appended'
    BY <1>1, <1>3, <1>5, <1>6 DEF IInv, WorldInv, LogInv
  <2>2. ASSUME NEW i \in 1..Size' PROVE live'.rows[i] = (Base + cut) + i
    <3>1. cut + i \in 1..Size /\ i \in 1..(Size - cut)
      BY <1>1, <1>5, <1>6
    <3>2. live'.rows[i] = Base + (cut + i)
      BY <1>6, <3>1 DEF IInv, WorldInv, LogInv
    <3>3. QED
      BY <1>1, <1>5, <3>1, <3>2
  <2>3. QED
    BY <1>6, <2>1, <2>2 DEF LogInv
<1>10. ArchiveInv' /\ ClaimInv'
  BY <1>3, <1>4 DEF IInv, WorldInv, ArchiveInv, ClaimInv, Pending
<1>11. KeptInv'
  <2>1. \A i \in DOMAIN segments : Gone(segments[i]) /\ Gone(segments[i])'
    BY <1>3, <1>4 DEF Gone, Pending
  <2>2. KeptInv
    BY DEF IInv, WorldInv
  <2>3. \A r \in 1..Base : r \in 1..(Base + cut) /\ r \notin dropped'
    BY <1>1, <1>5, <1>7
  <2>4. \A r \in 1..(Base + cut) : r \notin dropped' => r \in 1..Base
    BY <1>1, <1>5, <1>7
  <2>5. dropped' \subseteq 1..(Base + cut)
    BY <1>1, <1>5, <1>7
  <2>6. QED
    BY <1>3, <1>6, <2>1, <2>2, <2>3, <2>4, <2>5 DEF KeptInv
<1>12. ASSUME NEW d \in Compactor
       PROVE  SourceInv(d)' /\ PlanInv(d)' /\ HolderInv(d)'
  <2>1. pc[d] \notin Critical
    BY <1>3, RecordAssumption DEF IInv, TypeInv, KindInv
  <2>2. QED
    BY <1>3, <1>6, <1>8, <2>1, LeftBehind
<1>13. FreshInv'
  <2> SUFFICES ASSUME NEW d \in Compactor, Holds(d)' PROVE Fresh(d)'
    BY DEF FreshInv
  <2>1. Holds(d) /\ Fresh(d) /\ job[d].claim # None
    BY <1>3 DEF Holds, IInv, FreshInv, TypeInv, KindInv, Fits
  <2>2. job[d].claim.replacement # ino
    BY <1>8, <2>1
  <2>3. QED
    BY <1>3, <1>6, <2>1, <2>2 DEF Fresh, Unseen, Holds, Pending
<1>14. SyncInv'
  BY <1>3, <1>6, <1>8 DEF IInv, SyncInv, Holds
<1>15. QED
  BY <1>9, <1>10, <1>11, <1>12, <1>13, <1>14 DEF IInv, WorldInv, CommandInv

\* The copy becomes the live file: exactly the rows of the segment have left.
LEMMA RenameFacts ==
  ASSUME IInv, TypeInv', NEW c \in Compactor, Rename(c)
  PROVE  LET k == job[c].claim
             n == Len(k.rows)
         IN  /\ Holds(c) /\ k # None /\ k \in Claims
             /\ n \in Nat /\ n <= Size /\ DOMAIN k.rows = 1..n
             /\ \A m \in 1..n : k.rows[m] = Base + m
             /\ live'.ino = k.replacement /\ Size' = Size - n /\ Base' = Base + n
             /\ \A i \in 1..(Size - n) : live'.rows[i] = live.rows[n + i]
<1>1. PICK k : k = job[c].claim
  OBVIOUS
<1>2. PICK r : r = k.replacement
  OBVIOUS
<1>3. /\ pc[c] = "rename" /\ pc[c] \in Critical /\ Stay(c, "complete")
      /\ live' = [ino  |-> r,
                  rows |-> SubSeq(live.rows, Len(k.rows) + 1, job[c].copied) \o CaughtUp(c)]
      /\ UNCHANGED <<appended, dropped, sjob, segments, gz, claim>>
  BY <1>1, <1>2 DEF Rename, At, Locked, archive, sync, Critical
<1>4. /\ live \in [ino : Nat, rows : Seq(1..MaxRows)] /\ appended \in Nat /\ Size \in Nat
      /\ Base \in Nat /\ job[c] \in Jobs
  <2>1. /\ live \in [ino : Nat, rows : Seq(1..MaxRows)] /\ appended \in Nat /\ Size \in Nat
        /\ job[c] \in Jobs
    BY DEF IInv, TypeInv, TypeOK, Size
  <2>2. Base \in Nat
    BY <2>1 DEF Base, IInv, WorldInv, LogInv
  <2>3. QED
    BY <2>1, <2>2
<1>5. /\ Fits("rename", job[c]) /\ PlanInv(c) /\ HolderInv(c)
      /\ \A d \in Compactor \ {c} : pc[d] \notin Critical
      /\ Holds(c) => /\ ~Halfway /\ Leading(k.rows) /\ job[c].source = live.ino
                     /\ k.source = live.ino /\ Fresh(c)
  BY <1>1, <1>3, HolderFacts
<1>6. Holds(c) /\ k # None /\ k \in Claims
  <2>1. Holds(c) /\ k # None
    BY <1>1, <1>3, <1>5 DEF Fits, Holds, Copied, Committed
  <2>2. QED
    BY <1>1, <1>4, <2>1 DEF Jobs
<1>7. PICK n : n = Len(k.rows)
  OBVIOUS
<1>8. /\ n \in Nat /\ n <= Size /\ job[c].copied \in Nat
      /\ n <= job[c].copied /\ job[c].copied <= Size
      /\ DOMAIN k.rows = 1..n /\ \A m \in 1..n : k.rows[m] = Base + m
  <2>1. k.rows \in Seq(1..MaxRows)
    BY <1>6 DEF Claims
  <2>2. n \in Nat /\ DOMAIN k.rows = 1..n
    BY <1>7, <2>1, LenProperties
  <2>3. job[c].copied \in Nat
    BY <1>4 DEF Jobs
  <2>4. QED
    BY <1>1, <1>4, <1>5, <1>6, <1>7, <2>2, <2>3 DEF PlanInv, Leading
<1>9. /\ live'.ino = r /\ Size' = Size - n /\ Base' = Base + n
       /\ \A i \in 1..(Size - n) : live'.rows[i] = live.rows[n + i]
  <2>1. live.rows \in Seq(1..MaxRows) /\ Size = Len(live.rows)
    BY <1>4 DEF Size
  <2>2. /\ live'.ino = r
        /\ live'.rows = SubSeq(live.rows, n + 1, job[c].copied)
                          \o SubSeq(live.rows, job[c].copied + 1, Len(live.rows))
    BY <1>3, <1>7, <2>1 DEF CaughtUp
  <2>3. /\ Len(live'.rows) = Size - n
        /\ \A i \in 1..(Size - n) : live'.rows[i] = live.rows[n + i]
    <3>1. PICK rows, m : rows = live.rows /\ m = job[c].copied
      OBVIOUS
    <3>2. rows \in Seq(1..MaxRows) /\ n \in Nat /\ m \in Nat /\ n <= m /\ m <= Len(rows)
      BY <1>8, <2>1, <3>1
    <3>3. PICK t : t = SubSeq(rows, n + 1, m) \o SubSeq(rows, m + 1, Len(rows))
      OBVIOUS
    <3>4. Len(t) = Len(rows) - n /\ \A i \in 1..Len(t) : t[i] = rows[n + i]
      BY <3>2, <3>3, RenamedFile
    <3>5. QED
      BY <2>1, <2>2, <3>1, <3>3, <3>4
  <2>4. Size' = Size - n
    BY <2>3 DEF Size
  <2>5. Base' = Base + n
    BY <1>3, <1>4, <1>8, <2>4 DEF Base
  <2>6. QED
    BY <2>2, <2>3, <2>4, <2>5
<1>10. QED
  BY <1>1, <1>2, <1>6, <1>7, <1>8, <1>9

LEMMA RenameStep ==
  ASSUME IInv, TypeInv', NEW c \in Compactor, Rename(c)
  PROVE  IInv'
<1>1. PICK k : k = job[c].claim
  OBVIOUS
<1>2. PICK r : r = k.replacement
  OBVIOUS
<1>3. /\ pc[c] = "rename" /\ pc[c] \in Critical /\ Stay(c, "complete")
      /\ live' = [ino  |-> r,
                  rows |-> SubSeq(live.rows, Len(k.rows) + 1, job[c].copied) \o CaughtUp(c)]
      /\ UNCHANGED <<appended, dropped, sjob, segments, gz, claim>>
  BY <1>1, <1>2 DEF Rename, At, Locked, archive, sync, Critical
<1>4. /\ live \in [ino : Nat, rows : Seq(1..MaxRows)] /\ appended \in Nat /\ Size \in Nat
      /\ Base \in Nat /\ job[c] \in Jobs
  <2>1. /\ live \in [ino : Nat, rows : Seq(1..MaxRows)] /\ appended \in Nat /\ Size \in Nat
        /\ job[c] \in Jobs
    BY DEF IInv, TypeInv, TypeOK, Size
  <2>2. Base \in Nat
    BY <2>1 DEF Base, IInv, WorldInv, LogInv
  <2>3. QED
    BY <2>1, <2>2
<1>5. /\ Fits("rename", job[c]) /\ PlanInv(c) /\ HolderInv(c)
      /\ \A d \in Compactor \ {c} : pc[d] \notin Critical
      /\ Holds(c) => /\ ~Halfway /\ Leading(k.rows) /\ job[c].source = live.ino
                     /\ k.source = live.ino /\ Fresh(c)
  BY <1>1, <1>3, HolderFacts
<1>6. Holds(c) /\ k # None /\ k \in Claims
  BY <1>1, RenameFacts
<1>7. /\ "complete" \in States /\ pc'[c] = "complete" /\ job'[c] = job[c]
      /\ \A d \in Compactor \ {c} : pc'[d] = pc[d] /\ job'[d] = job[d]
  <2>1. "complete" \in States /\ Become(c, "complete", job[c])
    BY <1>3 DEF Stay, States, Critical
  <2>2. QED
    BY <1>4, <2>1, BecomeFacts DEF IInv
<1>8. PICK n : n = Len(k.rows)
  OBVIOUS
<1>9. /\ n \in Nat /\ n <= Size
      /\ DOMAIN k.rows = 1..n /\ \A m \in 1..n : k.rows[m] = Base + m
  BY <1>1, <1>8, RenameFacts
<1>10. /\ live'.ino = r /\ Size' = Size - n /\ Base' = Base + n
       /\ \A i \in 1..(Size - n) : live'.rows[i] = live.rows[n + i]
  BY <1>1, <1>2, <1>8, RenameFacts
<1>11. PICK p \in DOMAIN segments : /\ segments[p].seq = k.seq /\ segments[p].rows = k.rows
                                    /\ segments[p].pending = Drop(k)
  BY <1>1, <1>3, <1>5, <1>6 DEF HolderInv
<1>12. /\ Pending(segments[p]) /\ segments[p].pending.source = live.ino
       /\ segments[p].pending.replacement = r
  <2>1. Drop(k) \in Drops
    BY <1>6 DEF Drop, Drops, Claims
  <2>2. QED
    BY <1>2, <1>5, <1>6, <1>11, <2>1, RecordAssumption DEF Drop, Pending
<1>13. Fresh(c) /\ Unseen(r)
  BY <1>1, <1>2, <1>5, <1>6 DEF Fresh
\* The one segment whose rows leave with this step is p.
<1>14. \A i \in DOMAIN segments : Gone(segments[i])' <=> Gone(segments[i]) \/ i = p
  <2> SUFFICES ASSUME NEW i \in DOMAIN segments
               PROVE  Gone(segments[i])' <=> Gone(segments[i]) \/ i = p
    OBVIOUS
  <2>1. Gone(segments[i]) => segments[i].pending = None
    BY <1>5, <1>6 DEF Gone, Halfway, Landed, Pending
  <2>2. Pending(segments[i]) /\ segments[i].pending.replacement = r => i = p
    <3>1. Pending(segments[i]) /\ segments[i].pending.replacement = r =>
            segments[i].seq = k.seq
      BY <1>1, <1>2, <1>13 DEF Fresh
    <3>2. QED
      BY <1>11, <3>1 DEF IInv, WorldInv, ArchiveInv
  <2>3. QED
    BY <1>3, <1>10, <1>12, <2>1, <2>2 DEF Gone, Pending
<1>15. LogInv'
  <2>1. Size' <= appended'
    BY <1>3, <1>4, <1>9, <1>10 DEF IInv, WorldInv, LogInv
  <2>2. ASSUME NEW i \in 1..Size' PROVE live'.rows[i] = (Base + n) + i
    <3>1. n + i \in 1..Size /\ i \in 1..(Size - n)
      BY <1>4, <1>9, <1>10
    <3>2. live'.rows[i] = Base + (n + i)
      BY <1>10, <3>1 DEF IInv, WorldInv, LogInv
    <3>3. QED
      BY <1>4, <1>9, <3>1, <3>2
  <2>3. QED
    BY <1>10, <2>1, <2>2 DEF LogInv
<1>16. ArchiveInv'
  <2>1. \A i \in DOMAIN segments : Pending(segments[i])' => segments'[i].pending.source # r
    BY <1>3, <1>13 DEF Unseen, Pending
  <2>2. QED
    BY <1>3, <1>10, <2>1 DEF IInv, WorldInv, ArchiveInv
<1>17. Renamed(k)'
  BY <1>3, <1>11, <1>14 DEF Renamed
<1>18. ClaimInv'
  <2> SUFFICES ASSUME claim # None PROVE Planned(claim)' /\ Renamed(claim)'
    BY <1>3 DEF ClaimInv
  <2>1. Planned(claim)'
    BY <1>3, <1>10, <1>13 DEF Unseen, Planned
  <2>2. CASE job[c].kind \in Rotations \cup {"resume"}
    BY <1>1, <1>3, <1>5, <1>17, <2>1, <2>2 DEF HolderInv, Renamed
  <2>3. CASE job[c].kind = "old"
    BY <1>1, <1>2, <1>3, <1>10, <1>13, <2>1, <2>3 DEF Fresh, Renamed
  <2>4. QED
    BY <1>4, <1>5, <2>2, <2>3 DEF Fits, Jobs, Rotations, Copied, Committed
<1>19. KeptInv'
  <2>1. KeptInv
    BY DEF IInv, WorldInv
  <2>2. ~Gone(segments[p]) /\ \A i \in DOMAIN segments : Gone(segments[i]) => i < p
    BY <1>4, <1>5, <1>6, <1>12 DEF IInv, WorldInv, ArchiveInv, Gone, Halfway, Landed, Pending
  <2>3. \A i \in DOMAIN segments : Gone(segments[i])' =>
           \A m, h \in DOMAIN segments[i].rows :
              m < h => segments[i].rows[m] < segments[i].rows[h]
    <3>1. \A m, h \in 1..n : m < h => k.rows[m] < k.rows[h]
      BY <1>4, <1>9
    <3>2. \A m, h \in DOMAIN segments[p].rows :
             m < h => segments[p].rows[m] < segments[p].rows[h]
      BY <1>9, <1>11, <3>1
    <3>3. QED
      BY <1>14, <2>1, <3>2 DEF KeptInv
  <2>4. ASSUME NEW i \in DOMAIN segments, NEW h \in DOMAIN segments,
               Gone(segments[i])', Gone(segments[h])', i < h,
               NEW m \in DOMAIN segments[i].rows, NEW q \in DOMAIN segments[h].rows
        PROVE  segments[i].rows[m] < segments[h].rows[q]
    <3>1. Gone(segments[i])
      <4>1. i \in Int /\ h \in Int /\ h # i
        <5>1. segments \in Seq(Segments)
          BY DEF IInv, TypeInv, TypeOK
        <5>2. i \in 1..Len(segments) /\ h \in 1..Len(segments)
          BY <5>1, LenProperties
        <5>3. QED
          BY <2>4, <5>2
      <4>2. i = p => Gone(segments[h])
        BY <1>14, <2>4, <4>1
      <4>3. ~(h < i)
        BY <2>4, <4>1
      <4>4. QED
        BY <1>14, <2>2, <2>4, <4>2, <4>3
    <3>2. CASE h = p
      <4>1. segments[i].rows[m] \in 1..Base
        BY <2>1, <3>1 DEF KeptInv
      <4>2. q \in 1..n /\ segments[h].rows[q] = Base + q
        BY <1>9, <1>11, <3>2
      <4>3. QED
        BY <1>4, <4>1, <4>2
    <3>3. CASE h # p
      BY <1>14, <2>1, <2>4, <3>1, <3>3 DEF KeptInv
    <3>4. QED
      BY <3>2, <3>3
  <2>5. ASSUME NEW i \in DOMAIN segments, Gone(segments[i])',
               NEW m \in DOMAIN segments[i].rows
        PROVE  segments[i].rows[m] \in 1..(Base + n) \ dropped
    <3>1. CASE i = p
      <4>1. m \in 1..n /\ segments[i].rows[m] = Base + m
        BY <1>9, <1>11, <3>1
      <4>2. dropped \subseteq 1..Base
        BY <2>1 DEF KeptInv
      <4>3. QED
        BY <1>4, <1>9, <4>1, <4>2
    <3>2. CASE i # p
      <4>1. segments[i].rows[m] \in 1..Base \ dropped
        BY <1>14, <2>1, <2>5, <3>2 DEF KeptInv
      <4>2. QED
        BY <1>4, <1>9, <4>1
    <3>3. QED
      BY <3>1, <3>2
  <2>6. ASSUME NEW x \in 1..(Base + n) \ dropped
        PROVE  \E i \in DOMAIN segments :
                 Gone(segments[i])' /\ \E m \in DOMAIN segments[i].rows : segments[i].rows[m] = x
    <3>1. CASE x \in 1..Base
      BY <1>14, <2>1, <3>1 DEF KeptInv
    <3>2. CASE x \notin 1..Base
      <4>1. x - Base \in 1..n /\ x = Base + (x - Base)
        BY <1>4, <1>9, <3>2
      <4>2. segments[p].rows[x - Base] = x /\ x - Base \in DOMAIN segments[p].rows
        BY <1>9, <1>11, <4>1
      <4>3. QED
        BY <1>14, <4>2
    <3>3. QED
      BY <3>1, <3>2
  <2>7. dropped \subseteq 1..(Base + n)
    BY <1>4, <1>9, <2>1 DEF KeptInv
  <2>8. segments' = segments /\ dropped' = dropped /\ Base' = Base + n
    BY <1>3, <1>10
  <2>9. \A i \in DOMAIN segments, h \in DOMAIN segments :
          Gone(segments[i])' /\ Gone(segments[h])' /\ i < h =>
            \A m \in DOMAIN segments[i].rows, q \in DOMAIN segments[h].rows :
               segments[i].rows[m] < segments[h].rows[q]
    BY <2>4
  <2>10. QED
    BY <2>3, <2>5, <2>6, <2>7, <2>8, <2>9 DEF KeptInv
<1>20. ASSUME NEW d \in Compactor
       PROVE  SourceInv(d)' /\ PlanInv(d)' /\ HolderInv(d)'
  <2>1. job[d].source # r /\ (job[d].claim # None => job[d].claim.source # r)
    BY <1>13 DEF Unseen
  <2>2. CASE d # c
    BY <1>3, <1>5, <1>7, <1>10, <2>1, <2>2, LeftBehind
  <2>3. CASE d = c
    <3>1. ~Cuts(c)' /\ ~Holds(c)'
      BY <1>7 DEF Cuts, Holds, Copied, Committed
    <3>2. SourceInv(c)' /\ PlanInv(c)'
      BY <1>7, <1>10, <2>1, <2>3, <3>1 DEF SourceInv, PlanInv
    <3>3. HolderInv(c)'
      BY <1>1, <1>2, <1>3, <1>5, <1>7, <1>10, <1>17, <3>1 DEF HolderInv
    <3>4. QED
      BY <2>3, <3>2, <3>3
  <2>4. QED
    BY <2>2, <2>3
<1>21. ASSUME NEW d \in Compactor, Holds(d)'
       PROVE  d # c /\ Holds(d) /\ job'[d] = job[d] /\ job[d].claim.replacement # r
  <2>1. d # c
    BY <1>7, <1>21 DEF Holds, Copied, Committed
  <2>2. Holds(d) /\ job'[d] = job[d]
    BY <1>7, <1>21, <2>1 DEF Holds
  <2>3. QED
    BY <1>1, <1>2, <1>13, <2>1, <2>2 DEF Fresh
<1>22. FreshInv'
  <2> SUFFICES ASSUME NEW d \in Compactor, Holds(d)' PROVE Fresh(d)'
    BY DEF FreshInv
  <2>1. Fresh(d) /\ pc'[d] = pc[d] /\ d # c /\ Holds(d) /\ job[d].claim.replacement # r
    BY <1>7, <1>21 DEF IInv, FreshInv
  <2>2. job' = job
    BY <1>3 DEF Stay, Become, IInv, TypeInv, TypeOK
  <2>3. PICK x : x = job[d].claim.replacement
    OBVIOUS
  <2>4. Unseen(x)'
    BY <1>3, <1>10, <2>1, <2>2, <2>3 DEF Fresh, Unseen, Pending
  <2>5. \A e \in Compactor \ {d} : Holds(e)' => job[e].claim.replacement # x
    BY <1>21, <2>1, <2>3 DEF Fresh
  <2>6. QED
    BY <1>3, <2>1, <2>2, <2>3, <2>4, <2>5 DEF Fresh, Pending
<1>23. SyncInv'
  BY <1>1, <1>2, <1>3, <1>6, <1>10, <1>21 DEF IInv, SyncInv
<1>24. QED
  BY <1>15, <1>16, <1>18, <1>19, <1>20, <1>22, <1>23 DEF IInv, WorldInv, CommandInv

-----------------------------------------------------------------------------
(* The invariant is inductive, and what follows from it.                   *)

LEMMA NextIInv == IInv /\ [Next]_vars => IInv'
<1> SUFFICES ASSUME IInv, [Next]_vars PROVE IInv'
  OBVIOUS
<1>1. TypeInv'
  BY NextTypeInv
<1>2. CASE AddRow
  BY <1>1, <1>2, AddRowStep
<1>3. CASE Clean
  BY <1>1, <1>3, CleanStep
<1>4. ASSUME NEW c \in Compactor, CompactStep(c)
      PROVE  IInv'
  BY <1>1, <1>4, ReadManifestStep, ReadClaimStep, PrepareStep, EnterStep, PublishStep,
     LinkSegmentStep, StoreSegmentStep, WriteCursorStep, RenameStep, CompleteStep,
     UnclaimStep, LeaveStep DEF CompactStep
<1>5. ASSUME NEW c \in Compactor, Begin(c) \/ Kill(c) \/ Revoke(c)
      PROVE  IInv'
  BY <1>1, <1>5, BeginStep, LeaveStep, StutterStep
<1>6. ASSUME NEW s \in Syncer, SyncBegin(s) \/ SyncStep(s) \/ CheckpointTorn(s)
      PROVE  IInv'
  BY <1>1, <1>6, SyncActions DEF SyncStep
<1>7. CASE UNCHANGED vars
  BY <1>1, <1>7, StutterStep
<1>8. QED
  BY <1>2, <1>3, <1>4, <1>5, <1>6, <1>7 DEF Next

LEMMA Inductive == Spec => []IInv
  BY InitIInv, NextIInv, PTL DEF Spec

\* Every action keeps the types; in particular no cursor and no offset is ever negative,
\* however many compact commands overlap and are killed.
THEOREM TypeCorrect == Spec => []TypeOK
<1>1. IInv => TypeOK
  BY DEF IInv, TypeInv
<1>2. QED
  BY <1>1, Inductive, PTL

\* What the archive contributes, segment by segment.
LEMMA PiecesFacts ==
  ASSUME IInv
  PROVE  /\ DOMAIN Pieces = 1..Len(segments) + 1 /\ Len(segments) \in Nat
         /\ DOMAIN segments = 1..Len(segments)
         /\ Pieces[Len(segments) + 1] = live.rows
         /\ \A i \in DOMAIN segments :
              Pieces[i] = IF Gone(segments[i]) THEN segments[i].rows ELSE <<>>
         /\ DOMAIN live.rows = 1..Size /\ Size \in Nat /\ Base \in Nat
         /\ appended = Base + Size
<1>1. segments \in Seq(Segments) /\ live.rows \in Seq(1..MaxRows) /\ appended \in Nat
  BY DEF IInv, TypeInv, TypeOK
<1>2. /\ Len(segments) \in Nat /\ DOMAIN segments = 1..Len(segments)
      /\ Size \in Nat /\ DOMAIN live.rows = 1..Size
  BY <1>1, LenProperties DEF Size
<1>3. Base \in Nat /\ appended = Base + Size
  BY <1>1, <1>2 DEF Base, IInv, WorldInv, LogInv
<1>4. /\ DOMAIN Pieces = 1..Len(segments) + 1
      /\ Pieces[Len(segments) + 1] = live.rows
      /\ \A i \in DOMAIN segments :
           Pieces[i] = IF Gone(segments[i]) THEN gz[segments[i].seq] ELSE <<>>
  BY <1>2 DEF Pieces
<1>5. QED
  BY <1>2, <1>3, <1>4 DEF IInv, WorldInv, ArchiveInv

LEMMA KeptLossless == IInv => Lossless
<1> SUFFICES ASSUME IInv PROVE Lossless
  OBVIOUS
<1>1. PICK z : z = Len(segments) + 1
  OBVIOUS
<1>2. /\ DOMAIN Pieces = 1..z /\ z \in Nat /\ DOMAIN segments = 1..(z - 1)
      /\ Pieces[z] = live.rows
      /\ \A i \in DOMAIN segments :
           Pieces[i] = IF Gone(segments[i]) THEN segments[i].rows ELSE <<>>
      /\ DOMAIN live.rows = 1..Size /\ Size \in Nat /\ Base \in Nat
      /\ appended = Base + Size
  BY <1>1, PiecesFacts
<1>3. KeptInv /\ \A i \in 1..Size : live.rows[i] = Base + i
  BY DEF IInv, WorldInv, LogInv
<1>4. ASSUME NEW i \in DOMAIN segments, NEW m \in DOMAIN Pieces[i]
      PROVE  /\ Gone(segments[i]) /\ Pieces[i] = segments[i].rows
             /\ m \in DOMAIN segments[i].rows /\ Pieces[i][m] \in 1..Base \ dropped
  <2>1. Gone(segments[i])
    BY <1>2, <1>4
  <2>2. QED
    BY <1>2, <1>3, <2>1 DEF KeptInv
<1>5. ASSUME NEW i \in DOMAIN Pieces, NEW j \in DOMAIN Pieces,
             NEW m \in DOMAIN Pieces[i], NEW n \in DOMAIN Pieces[j],
             i < j \/ (i = j /\ m < n)
      PROVE  Pieces[i][m] < Pieces[j][n]
  <2>1. i \in 1..z /\ j \in 1..z
    BY <1>2
  <2>2. CASE j = z
    <3>1. n \in 1..Size /\ Pieces[j][n] = Base + n
      BY <1>2, <1>3, <2>2
    <3>2. CASE i = z
      <4>1. m \in 1..Size /\ Pieces[i][m] = Base + m
        BY <1>2, <1>3, <3>2
      <4>2. QED
        BY <1>2, <1>5, <2>2, <3>1, <3>2, <4>1
    <3>3. CASE i # z
      <4>1. i \in DOMAIN segments
        BY <1>2, <2>1, <3>3
      <4>2. Pieces[i][m] \in 1..Base
        BY <1>4, <4>1
      <4>3. QED
        BY <1>2, <3>1, <4>2
    <3>4. QED
      BY <3>2, <3>3
  <2>3. CASE j # z
    <3>1. i \in DOMAIN segments /\ j \in DOMAIN segments
      BY <1>2, <1>5, <2>1, <2>3
    <3>2. /\ Gone(segments[i]) /\ Pieces[i] = segments[i].rows
          /\ m \in DOMAIN segments[i].rows
          /\ Gone(segments[j]) /\ Pieces[j] = segments[j].rows
          /\ n \in DOMAIN segments[j].rows
      BY <1>4, <3>1
    <3>3. QED
      BY <1>3, <1>5, <3>1, <3>2 DEF KeptInv
  <2>4. QED
    BY <2>2, <2>3
<1>6. Archived = 1..Base \ dropped
  <2>1. ASSUME NEW x \in Archived PROVE x \in 1..Base \ dropped
    <3>1. PICK i \in DOMAIN segments : x \in ToSet(Pieces[i])
      BY <2>1 DEF Archived
    <3>2. PICK m \in DOMAIN Pieces[i] : x = Pieces[i][m]
      BY <3>1 DEF ToSet
    <3>3. QED
      BY <1>4, <3>2
  <2>2. ASSUME NEW x \in 1..Base \ dropped PROVE x \in Archived
    <3>1. PICK i \in DOMAIN segments :
            Gone(segments[i]) /\ \E m \in DOMAIN segments[i].rows : segments[i].rows[m] = x
      BY <1>3 DEF KeptInv
    <3>2. x \in ToSet(Pieces[i])
      BY <1>2, <3>1 DEF ToSet
    <3>3. QED
      BY <3>2 DEF Archived
  <2>3. QED
    BY <2>1, <2>2
<1>7. ToSet(live.rows) = (Base + 1)..appended
  <2>1. ToSet(live.rows) = {Base + i : i \in 1..Size}
    BY <1>2, <1>3 DEF ToSet
  <2>2. \A x \in (Base + 1)..appended : x - Base \in 1..Size /\ x = Base + (x - Base)
    BY <1>2
  <2>3. \A i \in 1..Size : Base + i \in (Base + 1)..appended
    BY <1>2
  <2>4. QED
    BY <2>1, <2>2, <2>3
<1>8. Archived \cup ToSet(live.rows) = 1..appended \ dropped
  <2>1. dropped \subseteq 1..Base
    BY <1>3 DEF KeptInv
  <2>2. QED
    BY <1>2, <1>6, <1>7, <2>1
<1>9. QED
  BY <1>5, <1>8 DEF Lossless

\* compact is lossless (compact.ts:8): with any number of compact commands at once, any
\* number of them killed between any two of their steps, the archived segments and the
\* live file hold every row, once and in order.
THEOREM NothingLost == Spec => []Lossless
  BY KeptLossless, Inductive, PTL
=============================================================================
