------------------------ MODULE ActivityUploadProofs ------------------------
(***************************************************************************)
(* No upload passes over a row, for every set of compact and sync commands *)
(* and logs of any length: what stands before the cursor, and before every *)
(* cursor that a command, the claim or the manifest remembers for a file,  *)
(* has reached the server or was given up by compact --all.                *)
(***************************************************************************)
EXTENDS ActivityLogProofs

Settled == sent \cup waived

AllSettled(rows) == \A m \in DOMAIN rows : rows[m] \in Settled

\* n is a cursor that passes over nothing.
Covers(n) == n <= Size /\ \A i \in 1..n : live.rows[i] \in Settled

\* A cursor for the file that is left when n rows of this one have gone.
Lands(source, n, to) == source = live.ino /\ to > 0 => Covers(n + to)

\* A cursor for the file that has taken the place of another one.
Arrives(replacement, to) == replacement = live.ino => Covers(to)

\* What the archive has, or will have once the claim is followed.
SegmentUp(s) ==
    /\ AllSettled(s.rows)
    /\ Pending(s) => /\ Lands(s.pending.source, Len(s.rows), s.pending.cursor)
                     /\ Arrives(s.pending.replacement, s.pending.cursor)

ClaimUp(k) ==
    /\ AllSettled(k.rows)
    /\ Lands(k.source, Len(k.rows), k.cursor)
    /\ Arrives(k.replacement, k.cursor)

\* What a compact command knows.  With --all it waives its rows only when it publishes.
JobUp(j) ==
    /\ Arrives(j.source, j.cursor)
    /\ j.claim # None => /\ Lands(j.claim.source, Len(j.claim.rows), j.claim.cursor)
                         /\ AllSettled(j.claim.rows) \/ j.kind = "rotateAll"
    /\ j.kind = "finish" /\ j.claim # None => Arrives(j.claim.replacement, j.claim.cursor)

\* The cursor on disk follows the claim's in the last steps of a rotation.
WriterUp(c) ==
    /\ pc[c] = "idle" => job[c] = NoJob
    /\ pc[c] = "rename" => cursor = job[c].claim.cursor
    /\ pc[c] = "cursor" /\ job[c].kind = "finish" => job[c].claim.replacement = live.ino

SyncStates == {"idle", "capture", "read", "upload", "checkpoint"}

\* What a sync command has read of the live file, and then sent.
PageUp(state, j) ==
    /\ state \in {"upload", "checkpoint"} /\ j.ino = live.ino => j.to <= Size
    /\ state = "upload" /\ j.ino = live.ino =>
         \A i \in (j.from + 1)..j.to : live.rows[i] \in j.page
    /\ state = "checkpoint" /\ j.ino = live.ino =>
         \A i \in (j.from + 1)..j.to : live.rows[i] \in sent

CursorInv  == Covers(cursor)
ArchiveUp  == /\ \A i \in DOMAIN segments : SegmentUp(segments[i])
              /\ claim # None => ClaimUp(claim)
CompactUp  == \A c \in Compactor : JobUp(job[c]) /\ WriterUp(c)
SyncUp     == spc \in [Syncer -> SyncStates] /\ \A s \in Syncer : PageUp(spc[s], sjob[s])

UploadInv == CursorInv /\ ArchiveUp /\ CompactUp /\ SyncUp

-----------------------------------------------------------------------------
(* What a step changes and what it leaves alone.                           *)

\* No file is replaced; rows and uploads are added.
Grows ==
    /\ live'.ino = live.ino /\ Size <= Size'
    /\ \A i \in 1..Size : live'.rows[i] = live.rows[i]
    /\ sent \subseteq sent' /\ waived \subseteq waived'

LEMMA Types ==
  ASSUME IInv
  PROVE  /\ Size \in Nat /\ cursor \in Nat /\ live.ino \in Nat
         /\ segments \in Seq(Segments)
         /\ \A i \in DOMAIN segments : /\ segments[i] \in Segments /\ Len(segments[i].rows) \in Nat
                                       /\ Pending(segments[i]) => segments[i].pending \in Drops
         /\ claim # None => claim \in Claims /\ Len(claim.rows) \in Nat
         /\ \A c \in Compactor : /\ pc[c] \in States /\ job[c] \in Jobs
                                 /\ job[c].claim # None => job[c].claim \in Claims
         /\ \A s \in Syncer : sjob[s] \in Syncs
<1>1. /\ live.rows \in Seq(1..MaxRows) /\ cursor \in Nat /\ live.ino \in Nat
      /\ segments \in Seq(Segments)
      /\ claim \in Claims \cup {None} /\ pc \in [Compactor -> States]
      /\ job \in [Compactor -> Jobs] /\ sjob \in [Syncer -> Syncs]
  BY DEF IInv, TypeInv, TypeOK
<1>2. \A i \in DOMAIN segments : /\ segments[i] \in Segments /\ Len(segments[i].rows) \in Nat
                                 /\ Pending(segments[i]) => segments[i].pending \in Drops
  <2>1. \A i \in DOMAIN segments : segments[i] \in Segments
    BY <1>1
  <2>2. QED
    BY <2>1 DEF Segments, Pending
<1>3. claim # None => Len(claim.rows) \in Nat
  BY <1>1 DEF Claims
<1>4. \A c \in Compactor : job[c].claim # None => job[c].claim \in Claims
  BY <1>1 DEF Jobs
<1>5. QED
  BY <1>1, <1>2, <1>3, <1>4 DEF Size

\* What is covered stays covered.
LEMMA Growing ==
  ASSUME IInv, IInv', Grows
  PROVE  /\ \A n \in Nat : Covers(n) => Covers(n)'
         /\ \A rows : AllSettled(rows) => AllSettled(rows)'
         /\ \A k \in Claims : ClaimUp(k) => ClaimUp(k)'
         /\ \A s \in Segments : SegmentUp(s) => SegmentUp(s)'
         /\ \A j \in Jobs : JobUp(j) => JobUp(j)'
<1>1. \A n \in Nat : Covers(n) => Covers(n)'
  <2> SUFFICES ASSUME NEW n \in Nat, Covers(n) PROVE Covers(n)'
    OBVIOUS
  <2>1. Size \in Nat /\ Size' \in Nat
    BY Types DEF IInv, TypeInv, TypeOK, Size
  <2>2. n <= Size' /\ \A i \in 1..n : i \in 1..Size
    BY <2>1 DEF Grows, Covers
  <2>3. \A i \in 1..n : live'.rows[i] \in Settled'
    BY <2>2 DEF Grows, Covers, Settled
  <2>4. QED
    BY <2>2, <2>3 DEF Covers
<1>2. \A rows : AllSettled(rows) => AllSettled(rows)'
  BY DEF Grows, AllSettled, Settled
<1>3. /\ \A i \in Nat, n \in Nat, to \in Nat : Lands(i, n, to) => Lands(i, n, to)'
      /\ \A i \in Nat, to \in Nat : Arrives(i, to) => Arrives(i, to)'
  BY <1>1 DEF Grows, Lands, Arrives
<1>4. ASSUME NEW k \in Claims, Lands(k.source, Len(k.rows), k.cursor)
      PROVE  Lands(k.source, Len(k.rows), k.cursor)'
  <2>1. k.source \in Nat /\ Len(k.rows) \in Nat /\ k.cursor \in Nat
    BY DEF Claims
  <2>2. QED
    BY <1>3, <1>4, <2>1
<1>5. ASSUME NEW k \in Claims, Arrives(k.replacement, k.cursor)
      PROVE  Arrives(k.replacement, k.cursor)'
  BY <1>3, <1>5 DEF Claims
<1>6. \A k \in Claims : ClaimUp(k) => ClaimUp(k)'
  BY <1>2, <1>4, <1>5 DEF ClaimUp
<1>7. ASSUME NEW s \in Segments, SegmentUp(s) PROVE SegmentUp(s)'
  <2>1. Len(s.rows) \in Nat /\ (Pending(s) => s.pending \in Drops)
    BY DEF Segments, Pending
  <2>2. QED
    BY <1>2, <1>3, <1>7, <2>1 DEF SegmentUp, Drops, Pending
<1>8. ASSUME NEW j \in Jobs, JobUp(j) PROVE JobUp(j)'
  <2>1. j.source \in Nat /\ j.cursor \in Nat /\ (j.claim # None => j.claim \in Claims)
    BY DEF Jobs
  <2>2. QED
    BY <1>2, <1>3, <1>4, <1>5, <1>8, <2>1 DEF JobUp
<1>9. QED
  BY <1>1, <1>2, <1>6, <1>7, <1>8

\* What the cursor, the archive, a command and the syncs have of a step that only adds.
LEMMA CursorStays ==
  ASSUME IInv, IInv', UploadInv, Grows, UNCHANGED cursor
  PROVE  CursorInv'
<1>1. cursor \in Nat /\ Covers(cursor)
  BY Types DEF UploadInv, CursorInv
<1>2. Covers(cursor)'
  BY <1>1, Growing DEF Covers
<1>3. QED
  BY <1>2 DEF CursorInv

LEMMA SegmentStays ==
  ASSUME IInv, IInv', UploadInv, Grows, NEW i \in DOMAIN segments,
         segments'[i].rows = segments[i].rows,
         segments'[i].pending \in {None, segments[i].pending}
  PROVE  SegmentUp(segments[i])'
<1>1. PICK s, t : s = segments[i] /\ t = segments'[i]
  OBVIOUS
<1>2. s \in Segments /\ SegmentUp(s)
  BY <1>1, Types DEF UploadInv, ArchiveUp
<1>3. SegmentUp(s)' /\ t.rows = s.rows /\ t.pending \in {None, s.pending}
  BY <1>1, <1>2, Growing
<1>4. SegmentUp(t)'
  BY <1>3 DEF SegmentUp, Pending
<1>5. QED
  BY <1>1, <1>4

LEMMA ClaimStays ==
  ASSUME IInv, IInv', UploadInv, Grows, UNCHANGED claim, claim # None
  PROVE  ClaimUp(claim)'
<1>1. PICK k : k = claim
  OBVIOUS
<1>2. k \in Claims /\ ClaimUp(k)
  BY <1>1, Types DEF UploadInv, ArchiveUp
<1>3. ClaimUp(k)' /\ claim' = k
  BY <1>1, <1>2, Growing
<1>4. QED
  BY <1>3

LEMMA ArchiveStays ==
  ASSUME IInv, IInv', UploadInv, Grows, UNCHANGED <<segments, claim>>
  PROVE  ArchiveUp'
  BY SegmentStays, ClaimStays DEF ArchiveUp

LEMMA CommandStays ==
  ASSUME IInv, IInv', UploadInv, Grows, NEW d \in Compactor,
         pc'[d] = pc[d], job'[d] = job[d], pc[d] \in Critical => UNCHANGED cursor
  PROVE  JobUp(job[d])' /\ WriterUp(d)'
<1>1. PICK j : j = job[d]
  OBVIOUS
<1>2. j \in Jobs /\ JobUp(j) /\ WriterUp(d)
  BY <1>1, Types DEF UploadInv, CompactUp
<1>3. JobUp(j)' /\ job'[d] = j
  BY <1>1, <1>2, Growing
<1>4. JobUp(job[d])'
  BY <1>3
<1>5. WriterUp(d)'
  BY <1>2 DEF WriterUp, Grows, Critical
<1>6. QED
  BY <1>4, <1>5

LEMMA SyncStays ==
  ASSUME IInv, IInv', UploadInv, Grows, NEW s \in Syncer,
         spc'[s] = spc[s], sjob'[s] = sjob[s]
  PROVE  PageUp(spc[s], sjob[s])'
<1>1. PICK j : j = sjob[s]
  OBVIOUS
<1>2. j \in Syncs /\ PageUp(spc[s], j) /\ Size \in Nat
  BY <1>1, Types DEF UploadInv, SyncUp
<1>3. Size' \in Nat
  BY DEF IInv, TypeInv, TypeOK, Size
<1>4. /\ spc[s] \in {"upload", "checkpoint"} /\ j.ino = live.ino => j.to <= Size
      /\ spc[s] = "upload" /\ j.ino = live.ino =>
           \A i \in (j.from + 1)..j.to : live.rows[i] \in j.page
      /\ spc[s] = "checkpoint" /\ j.ino = live.ino =>
           \A i \in (j.from + 1)..j.to : live.rows[i] \in sent
  BY <1>1, <1>2 DEF PageUp
<1>5. j.from \in Nat /\ j.to \in Nat
  BY <1>2 DEF Syncs
<1>6. j.to <= Size => \A i \in (j.from + 1)..j.to : i \in 1..Size
  BY <1>2, <1>5
<1>7. /\ spc[s] \in {"upload", "checkpoint"} /\ j.ino = live.ino => j.to <= Size'
      /\ spc[s] = "upload" /\ j.ino = live.ino =>
           \A i \in (j.from + 1)..j.to : live'.rows[i] \in j.page
      /\ spc[s] = "checkpoint" /\ j.ino = live.ino =>
           \A i \in (j.from + 1)..j.to : live'.rows[i] \in sent'
  BY <1>2, <1>3, <1>4, <1>5, <1>6 DEF Grows
<1>8. QED
  BY <1>1, <1>7 DEF PageUp, Grows

\* A step of a compact command that leaves the log and the cursor alone.
LEMMA CommandStep ==
  ASSUME IInv, IInv', UploadInv, Grows, UNCHANGED <<cursor, spc, sjob>>,
         NEW c \in Compactor, NEW state \in States \ {"rename"}, NEW j \in Jobs,
         Become(c, state, j), ArchiveUp', JobUp(j)', state = "idle" => j = NoJob,
         state = "cursor" /\ j.kind = "finish" => j.claim.replacement = live.ino
  PROVE  UploadInv'
<1>1. /\ pc'[c] = state /\ job'[c] = j
      /\ \A d \in Compactor \ {c} : pc'[d] = pc[d] /\ job'[d] = job[d]
  BY BecomeFacts DEF IInv
<1>2. JobUp(job[c])' /\ WriterUp(c)'
  BY <1>1 DEF WriterUp, Grows
<1>3. CompactUp'
  BY <1>1, <1>2, CommandStays DEF CompactUp
<1>4. SyncUp'
  BY SyncStays DEF SyncUp, UploadInv
<1>5. QED
  BY <1>3, <1>4, CursorStays DEF UploadInv

-----------------------------------------------------------------------------
(* The compact commands, as long as they only read.                        *)

LEMMA ReadStep ==
  ASSUME IInv, IInv', UploadInv,
         UNCHANGED <<live, cursor, segments, claim, sent, waived, spc, sjob>>,
         NEW c \in Compactor, NEW state \in States \ {"rename", "cursor"}, NEW j \in Jobs,
         Become(c, state, j), JobUp(j), state = "idle" => j = NoJob
  PROVE  UploadInv'
<1>1. Grows
  BY Types DEF Grows, Size
<1>2. JobUp(j)'
  BY <1>1, Growing
<1>3. QED
  BY <1>1, <1>2, ArchiveStays, CommandStep

LEMMA NothingKnown == ASSUME IInv PROVE JobUp(NoJob)
  BY Types DEF JobUp, NoJob, Arrives, Covers

LEMMA EndUp ==
  ASSUME IInv, IInv', UploadInv,
         UNCHANGED <<live, cursor, segments, claim, sent, waived, spc, sjob>>,
         NEW c \in Compactor, End(c)
  PROVE  UploadInv'
<1>1. "idle" \in States \ {"rename", "cursor"} /\ NoJob \in Jobs /\ Become(c, "idle", NoJob)
  BY NoJobType DEF States, End
<1>2. QED
  BY <1>1, NothingKnown, ReadStep

LEMMA BeginUp ==
  ASSUME IInv, IInv', UploadInv, NEW c \in Compactor, Begin(c) \/ ReadManifest(c)
  PROVE  UploadInv'
<1>1. UNCHANGED <<live, cursor, segments, claim, sent, waived, spc, sjob>>
  BY DEF Begin, ReadManifest, Reading, log, archive, server, sync
<1>2. CASE Begin(c)
  <2>1. PICK kind \in {"rotate", "rotateAll"} :
          Become(c, "manifest", [NoJob EXCEPT !.kind = kind, !.source = live.ino,
                                              !.size = Size, !.cursor = cursor])
    BY <1>2 DEF Begin
  <2>2. PICK j : j = [NoJob EXCEPT !.kind = kind, !.source = live.ino,
                                   !.size = Size, !.cursor = cursor]
    OBVIOUS
  <2>3. /\ j \in Jobs /\ j.source = live.ino /\ j.cursor = cursor /\ j.claim = None
        /\ j.kind # "finish"
    BY <2>2, Types, NoJobType DEF Jobs, NoJob
  <2>4. JobUp(j)
    BY <2>3 DEF JobUp, Arrives, UploadInv, CursorInv
  <2>5. "manifest" \in States \ {"rename", "cursor"} /\ Become(c, "manifest", j)
    BY <2>1, <2>2 DEF States
  <2>6. QED
    BY <1>1, <2>3, <2>4, <2>5, ReadStep
<1>3. CASE ReadManifest(c)
  <2>1. PICK j : j = [job[c] EXCEPT !.pending = PendingSegment]
    OBVIOUS
  <2>2. Become(c, "claim", j) /\ "claim" \in States \ {"rename", "cursor"}
    BY <1>3, <2>1 DEF ReadManifest, States
  <2>3. PendingSegment \in Segments \cup {None}
    BY Types, PendingSegmentFacts
  <2>4. /\ j \in Jobs /\ j.kind = job[c].kind /\ j.source = job[c].source
        /\ j.cursor = job[c].cursor /\ j.claim = job[c].claim
    BY <2>1, <2>3, Types DEF Jobs
  <2>5. JobUp(j)
    BY <2>4 DEF JobUp, UploadInv, CompactUp
  <2>6. QED
    BY <1>1, <2>2, <2>4, <2>5, ReadStep
<1>4. QED
  BY <1>2, <1>3

\* A resuming command takes over what the claim, or the manifest, says.
LEMMA ReadClaimUp ==
  ASSUME IInv, IInv', UploadInv, NEW c \in Compactor, ReadClaim(c)
  PROVE  UploadInv'
<1>1. UNCHANGED <<live, cursor, segments, claim, sent, waived, spc, sjob>>
  BY DEF ReadClaim, Reading, log, archive, server, sync
<1>2. {"prepare", "lock"} \subseteq States \ {"rename", "cursor"}
  BY DEF States, Committed
<1>3. CASE Become(c, "prepare", job[c])
  BY <1>1, <1>2, <1>3, Types, ReadStep DEF UploadInv, CompactUp
<1>4. CASE claim = None /\ ResumeOld(c, PendingSegment)
  <2>1. PICK s : s = PendingSegment
    OBVIOUS
  <2>2. PICK k : k = [seq |-> s.seq, rows |-> s.rows, source |-> live.ino,
                      replacement |-> 0, cursor |-> s.pending.cursor]
    OBVIOUS
  <2>3. PICK j : j = [NoJob EXCEPT !.kind = "old", !.source = s.pending.source, !.claim = k]
    OBVIOUS
  <2>4. \/ End(c)
        \/ s # None /\ live.ino = s.pending.source /\ Become(c, "prepare", j)
    BY <1>4, <2>1, <2>2, <2>3 DEF ResumeOld
  <2>5. CASE s # None /\ live.ino = s.pending.source /\ Become(c, "prepare", j)
    <3>1. PICK i \in DOMAIN segments : Pending(segments[i]) /\ s = segments[i]
      BY <2>1, <2>5, Types, PendingSegmentFacts
    <3>2. s \in Segments /\ s.pending \in Drops /\ SegmentUp(s) /\ Pending(s)
      BY <3>1, Types DEF UploadInv, ArchiveUp
    <3>3. /\ k \in Claims /\ k.source = live.ino /\ k.rows = s.rows
          /\ k.cursor = s.pending.cursor
      BY <2>2, <3>2, Types DEF Claims, Segments, Drops
    <3>4. /\ j \in Jobs /\ j.kind = "old" /\ j.source = live.ino /\ j.cursor = 0
          /\ j.claim = k
      BY <2>3, <2>5, <3>3, Types, NoJobType DEF Jobs, NoJob
    <3>5. Lands(k.source, Len(k.rows), k.cursor) /\ AllSettled(k.rows)
      BY <2>5, <3>2, <3>3 DEF SegmentUp
    <3>6. JobUp(j)
      BY <3>4, <3>5, Types DEF JobUp, Arrives, Covers
    <3>7. QED
      BY <1>1, <1>2, <2>5, <3>4, <3>6, ReadStep
  <2>6. QED
    BY <1>1, <2>4, <2>5, EndUp
<1>5. CASE claim # None /\ Resume(c, claim)
  <2>1. PICK f : f = [NoJob EXCEPT !.kind = "finish", !.source = claim.replacement,
                                   !.claim = claim]
    OBVIOUS
  <2>2. PICK r : r = [NoJob EXCEPT !.kind = "resume", !.source = claim.source,
                                   !.claim = claim]
    OBVIOUS
  <2>3. End(c) \/ Become(c, "lock", f) \/ Become(c, "prepare", r)
    BY <1>5, <2>1, <2>2 DEF Resume
  <2>4. claim \in Claims /\ ClaimUp(claim)
    BY <1>5, Types DEF UploadInv, ArchiveUp
  <2>5. \A j \in {f, r} : j \in Jobs /\ j.cursor = 0 /\ j.claim = claim
    <3>1. \A source \in Nat, kind \in {"finish", "resume"} :
            [NoJob EXCEPT !.kind = kind, !.source = source, !.claim = claim] \in Jobs
      BY <2>4, NoJobType DEF Jobs
    <3>2. claim.source \in Nat /\ claim.replacement \in Nat
      BY <2>4 DEF Claims
    <3>3. f \in Jobs /\ r \in Jobs
      BY <2>1, <2>2, <3>1, <3>2
    <3>4. f.cursor = 0 /\ f.claim = claim /\ r.cursor = 0 /\ r.claim = claim
      BY <2>1, <2>2 DEF NoJob
    <3>5. QED
      BY <3>3, <3>4
  <2>6. \A j \in {f, r} : JobUp(j)
    BY <2>4, <2>5, Types DEF JobUp, ClaimUp, Arrives, Covers
  <2>7. QED
    BY <1>1, <1>2, <2>3, <2>5, <2>6, EndUp, ReadStep
<1>6. CASE End(c)
  BY <1>1, <1>6, EndUp
<1>7. QED
  BY <1>3, <1>4, <1>5, <1>6 DEF ReadClaim

\* What is cut off lies before the cursor that was read, or is waived with --all; and the
\* cursor that comes with it is the one that was read, less the rows that go.
LEMMA PrepareUp ==
  ASSUME IInv, IInv', UploadInv, NEW c \in Compactor, Prepare(c)
  PROVE  UploadInv'
<1>1. /\ pc[c] = "prepare" /\ job[c] \in Jobs
      /\ UNCHANGED <<live, cursor, segments, claim, sent, waived, spc, sjob>>
  BY Types DEF Prepare, At, Reading, log, archive, server, sync
<1>2. TypeOK /\ live.rows \in Seq(1..MaxRows) /\ Size \in Nat /\ live.ino \in Nat
  BY DEF IInv, TypeInv, TypeOK, Size
<1>3. /\ SourceInv(c) /\ JobUp(job[c])
      /\ job[c].kind \in Rotations \cup {"resume", "old"}
      /\ job[c].kind \notin Rotations => job[c].claim # None
  BY <1>1 DEF IInv, CommandInv, TypeInv, KindInv, Fits, UploadInv, CompactUp
<1> DEFINE j   == job[c]
           cut == PlanCut(j)
           new == [seq |-> 0, rows |-> SubSeq(live.rows, 1, cut), source |-> live.ino,
                   replacement |-> 0, cursor |-> Lowered(j.cursor, cut)]
           J(k, ino) == [j EXCEPT !.claim = [k EXCEPT !.replacement = ino],
                                  !.copied = Size, !.verified = Published(k)]
<1>4. ASSUME NEW k \in Claims, NEW ino \in Inodes, Unused(ino), Become(c, "lock", J(k, ino)),
             Lands(k.source, Len(k.rows), k.cursor),
             AllSettled(k.rows) \/ j.kind = "rotateAll"
      PROVE  UploadInv'
  <2>1. PICK q : q = [k EXCEPT !.replacement = ino]
    OBVIOUS
  <2>2. ino \in Nat
    BY <1>2, <1>4, NewFile
  <2>3. /\ q \in Claims /\ q.source = k.source /\ q.rows = k.rows /\ q.cursor = k.cursor
    BY <2>1, <2>2 DEF Claims
  <2>4. PICK h : h = J(k, ino)
    OBVIOUS
  <2>5. /\ h \in Jobs /\ h.claim = q /\ h.kind = j.kind /\ h.source = j.source
        /\ h.cursor = j.cursor
    BY <1>1, <1>2, <2>1, <2>3, <2>4 DEF Jobs, Published
  <2>6. h.kind # "finish"
    BY <1>3, <2>5 DEF Rotations
  <2>7. JobUp(h)
    BY <1>3, <1>4, <2>3, <2>5, <2>6 DEF JobUp
  <2>8. Become(c, "lock", h) /\ "lock" \in States \ {"rename", "cursor"}
    BY <1>4, <2>4 DEF States, Committed
  <2>9. QED
    BY <1>1, <2>5, <2>7, <2>8, ReadStep
<1>5. \/ End(c)
      \/ /\ live.ino = j.source /\ j.kind \in Rotations /\ cut > 0
         /\ \E ino \in Inodes : Unused(ino) /\ Become(c, "lock", J(new, ino))
      \/ /\ live.ino = j.source /\ j.kind \notin Rotations
         /\ \E ino \in Inodes : Unused(ino) /\ Become(c, "lock", J(j.claim, ino))
  BY DEF Prepare, Rotates, Rotations
<1>6. ASSUME live.ino = j.source, j.kind \in Rotations, cut > 0
      PROVE  /\ new \in Claims
             /\ Lands(new.source, Len(new.rows), new.cursor)
             /\ AllSettled(new.rows) \/ j.kind = "rotateAll"
  <2>1. PICK h \in Jobs : h = job[c]
    BY <1>1
  <2>2. PICK n : n = PlanCut(h)
    OBVIOUS
  <2>3. /\ n = cut /\ n \in Int /\ n <= h.size /\ n > 0
        /\ h.kind # "rotateAll" => n <= h.cursor
    BY <1>6, <2>1, <2>2, CutBound
  <2>4. h.size \in Nat /\ h.cursor \in Nat /\ h.size <= Size
    BY <1>3, <1>6, <2>1 DEF SourceInv, Jobs
  <2>5. Covers(h.cursor)
    BY <1>3, <1>6, <2>1 DEF JobUp, Arrives
  <2>6. PICK rows : rows = SubSeq(live.rows, 1, n)
    OBVIOUS
  <2>7. /\ rows \in Seq(1..MaxRows) /\ Len(rows) = n /\ DOMAIN rows = 1..n
        /\ \A i \in 1..n : rows[i] = live.rows[i]
    <3>1. n <= Len(live.rows)
      BY <1>2, <2>3, <2>4 DEF Size
    <3>2. /\ rows \in Seq(1..MaxRows) /\ Len(rows) = n
          /\ \A i \in 1..Len(rows) : rows[i] = live.rows[i]
      BY <1>2, <2>3, <2>6, <3>1, PrefixFacts
    <3>3. QED
      BY <3>2, LenProperties
  <2>8. PICK to : to = Lowered(h.cursor, n)
    OBVIOUS
  <2>9. to \in Nat /\ (to > 0 => n + to = h.cursor)
    BY <2>3, <2>4, <2>8 DEF Lowered
  <2>10. new = [seq |-> 0, rows |-> rows, source |-> live.ino, replacement |-> 0, cursor |-> to]
    BY <2>1, <2>2, <2>6, <2>8
  <2>11. h.kind # "rotateAll" => AllSettled(rows)
    BY <2>3, <2>4, <2>5, <2>7 DEF AllSettled, Covers
  <2>12. Lands(live.ino, n, to)
    BY <2>5, <2>9 DEF Lands
  <2> HIDE DEF new
  <2>13. /\ new \in Claims /\ new.source = live.ino /\ new.rows = rows /\ new.cursor = to
    BY <1>2, <2>7, <2>9, <2>10 DEF Claims
  <2>14. QED
    BY <2>1, <2>7, <2>11, <2>12, <2>13
<1>7. ASSUME j.kind \notin Rotations
      PROVE  /\ j.claim \in Claims
             /\ Lands(j.claim.source, Len(j.claim.rows), j.claim.cursor)
             /\ AllSettled(j.claim.rows)
  <2>1. j.claim # None /\ j.kind # "rotateAll"
    BY <1>3, <1>7 DEF Rotations
  <2>2. QED
    BY <1>1, <1>3, <2>1 DEF JobUp, Jobs
<1> HIDE DEF cut, new, J, j
<1>8. CASE End(c)
  BY <1>1, <1>8, EndUp
<1>9. CASE /\ live.ino = j.source /\ j.kind \in Rotations /\ cut > 0
           /\ \E ino \in Inodes : Unused(ino) /\ Become(c, "lock", J(new, ino))
  BY <1>4, <1>6, <1>9
<1>10. CASE /\ live.ino = j.source /\ j.kind \notin Rotations
            /\ \E ino \in Inodes : Unused(ino) /\ Become(c, "lock", J(j.claim, ino))
  BY <1>4, <1>7, <1>10
<1>11. QED
  BY <1>5, <1>8, <1>9, <1>10

LEMMA LockUp ==
  ASSUME IInv, IInv', UploadInv, NEW c \in Compactor,
         Enter(c) \/ Leave(c) \/ Kill(c) \/ Revoke(c)
  PROVE  UploadInv'
<1>1. UNCHANGED <<live, cursor, segments, claim, sent, waived, spc, sjob>>
  BY DEF Enter, Leave, Kill, Revoke, log, archive, server, sync
<1>2. CASE Enter(c)
  <2>1. PICK state \in {"unlock", "complete", "publish"} : Stay(c, state)
    BY <1>2 DEF Enter
  <2>2. state \in States \ {"rename", "cursor"} /\ Become(c, state, job[c])
    BY <2>1 DEF States, Critical, Stay
  <2>3. QED
    BY <1>1, <2>2, Types, ReadStep DEF UploadInv, CompactUp
<1>3. CASE Leave(c) \/ Kill(c)
  BY <1>1, <1>3, EndUp DEF Leave, Kill
<1>4. CASE Revoke(c)
  <2>1. UNCHANGED <<pc, job>>
    BY <1>4 DEF Revoke, compact
  <2>2. QED
    BY <1>1, <2>1 DEF UploadInv, CursorInv, ArchiveUp, CompactUp, SyncUp, SegmentUp, ClaimUp,
       JobUp, WriterUp, PageUp, Covers, Lands, Arrives, AllSettled, Settled, Size, Pending
<1>5. QED
  BY <1>2, <1>3, <1>4

-----------------------------------------------------------------------------
(* The compact command that holds the lock.                                *)

\* A step of the holder that keeps its job.
LEMMA WriteStep ==
  ASSUME IInv, IInv', UploadInv, UNCHANGED <<live, cursor, spc, sjob, sent>>,
         waived \subseteq waived', NEW c \in Compactor, NEW state \in States \ {"idle", "rename"},
         Stay(c, state), ArchiveUp',
         state = "cursor" /\ job[c].kind = "finish" => job[c].claim.replacement = live.ino
  PROVE  UploadInv'
<1>1. Grows
  BY Types DEF Grows, Size
<1>2. PICK j : j = job[c]
  OBVIOUS
<1>3. j \in Jobs /\ JobUp(j) /\ Become(c, state, j)
  BY <1>2, Types DEF UploadInv, CompactUp, Stay
<1>4. JobUp(j)'
  BY <1>1, <1>3, Growing
<1>5. QED
  BY <1>1, <1>2, <1>3, <1>4, CommandStep

\* What the holder has for the claim and for the manifest.
LEMMA ClaimReady ==
  ASSUME IInv, UploadInv, NEW c \in Compactor, pc[c] \in Critical, Holds(c)
  PROVE  /\ job[c].claim \in Claims
         /\ Lands(job[c].claim.source, Len(job[c].claim.rows), job[c].claim.cursor)
         /\ Arrives(job[c].claim.replacement, job[c].claim.cursor)
         /\ job[c].kind # "rotateAll" => ClaimUp(job[c].claim)
<1>1. job[c].claim # None /\ job[c].claim \in Claims
  BY Types, HolderFacts DEF Fits, Holds
<1>2. job[c].claim.replacement # live.ino
  BY HolderFacts
<1>3. JobUp(job[c])
  BY DEF UploadInv, CompactUp
<1>4. QED
  BY <1>1, <1>2, <1>3 DEF JobUp, Arrives, ClaimUp

\* Another drop for a segment.
LEMMA DropStored ==
  ASSUME IInv, IInv', UploadInv, Grows, NEW k \in Claims, ClaimUp(k),
         segments' = WithPending(k.seq, Drop(k)), UNCHANGED claim,
         \A i \in DOMAIN segments : segments[i].seq = k.seq => segments[i].rows = k.rows
  PROVE  ArchiveUp'
<1>1. Drop(k) \in Drops
  BY DEF Drop, Drops, Claims
<1>2. /\ DOMAIN segments' = DOMAIN segments
      /\ \A i \in DOMAIN segments :
           /\ segments'[i].rows = segments[i].rows
           /\ segments'[i].pending =
                IF segments[i].seq = k.seq THEN Drop(k) ELSE segments[i].pending
  BY <1>1, Types, WithPendingFacts
<1>3. ASSUME NEW i \in DOMAIN segments, segments[i].seq = k.seq PROVE SegmentUp(segments[i])'
  <2>1. PICK t : t = segments'[i]
    OBVIOUS
  <2>2. t.rows = k.rows /\ t.pending = Drop(k) /\ ClaimUp(k)'
    BY <1>2, <1>3, <2>1, Growing
  <2>3. SegmentUp(t)'
    BY <2>2 DEF SegmentUp, ClaimUp, Drop, Pending
  <2>4. QED
    BY <2>1, <2>3
<1>4. QED
  BY <1>2, <1>3, SegmentStays, ClaimStays DEF ArchiveUp

LEMMA PublishUp ==
  ASSUME IInv, IInv', UploadInv, NEW c \in Compactor, Publish(c)
  PROVE  UploadInv'
<1>1. /\ pc[c] = "publish" /\ pc[c] \in Critical /\ job[c] \in Jobs
      /\ UNCHANGED <<live, cursor, spc, sjob, sent>> /\ waived \subseteq waived'
  BY Types DEF Publish, At, Locked, sync, Critical
<1>2. Grows
  BY <1>1, Types DEF Grows, Size
<1>3. Holds(c)
  BY <1>1, HolderFacts DEF Fits, Holds, Copied, Committed
<1>4. {"unlock", "link", "cursor"} \subseteq States \ {"idle", "rename"}
  BY DEF States, Critical
<1>5. PICK k0 : k0 = job[c].claim
  OBVIOUS
<1>6. /\ k0 \in Claims /\ Lands(k0.source, Len(k0.rows), k0.cursor)
      /\ Arrives(k0.replacement, k0.cursor)
      /\ job[c].kind # "rotateAll" => ClaimUp(k0)
  BY <1>1, <1>3, <1>5, ClaimReady
<1>7. PICK k : k = [k0 EXCEPT !.seq = Len(gz) + 1]
  OBVIOUS
<1>8. /\ k \in Claims /\ k.rows = k0.rows /\ k.source = k0.source /\ k.cursor = k0.cursor
      /\ k.replacement = k0.replacement
  <2>1. Len(gz) + 1 \in Nat
    BY DEF IInv, TypeInv, TypeOK
  <2>2. QED
    BY <1>6, <1>7, <2>1 DEF Claims
<1>9. CASE Stay(c, "unlock") /\ UNCHANGED <<claim, segments>>
  BY <1>1, <1>2, <1>4, <1>9, ArchiveStays, WriteStep
<1>10. CASE /\ Rotates(c) /\ claim' = k /\ UNCHANGED segments
            /\ waived' = IF job[c].kind = "rotateAll"
                         THEN waived \cup (ToSet(k.rows) \ sent) ELSE waived
            /\ Become(c, "link", [job[c] EXCEPT !.claim = k])
  <2>1. AllSettled(k.rows)'
    <3>1. CASE job[c].kind = "rotateAll"
      BY <1>1, <1>10, <3>1 DEF AllSettled, Settled, ToSet
    <3>2. CASE job[c].kind # "rotateAll"
      BY <1>2, <1>6, <1>8, <3>2, Growing DEF ClaimUp
    <3>3. QED
      BY <3>1, <3>2
  <2>2. Lands(k.source, Len(k.rows), k.cursor)' /\ Arrives(k.replacement, k.cursor)'
    <3>1. Lands(k.source, Len(k.rows), k.cursor) /\ Arrives(k.replacement, k.cursor)
      BY <1>6, <1>8
    <3>2. Len(k.rows) \in Nat /\ k.cursor \in Nat
      BY <1>8 DEF Claims
    <3>3. /\ Covers(Len(k.rows) + k.cursor) => Covers(Len(k.rows) + k.cursor)'
          /\ Covers(k.cursor) => Covers(k.cursor)'
      BY <1>2, <3>2, Growing
    <3>4. QED
      BY <1>1, <3>1, <3>3 DEF Lands, Arrives
  <2>3. ClaimUp(k)' /\ claim' = k
    BY <1>10, <2>1, <2>2 DEF ClaimUp
  <2>4. ArchiveUp'
    <3>1. \A i \in DOMAIN segments' : SegmentUp(segments[i])'
      BY <1>2, <1>10, SegmentStays
    <3>2. ClaimUp(claim)'
      BY <2>3
    <3>3. QED
      BY <3>1, <3>2 DEF ArchiveUp
  <2>5. PICK j : j = [job[c] EXCEPT !.claim = k]
    OBVIOUS
  <2>6. /\ j \in Jobs /\ j.kind = job[c].kind /\ j.source = job[c].source
        /\ j.cursor = job[c].cursor /\ j.claim = k /\ j.kind # "finish"
    BY <1>1, <1>8, <1>10, <2>5 DEF Jobs, Rotates
  <2>7. Arrives(j.source, j.cursor)'
    <3>1. Arrives(j.source, j.cursor) /\ j.cursor \in Nat
      BY <2>6 DEF UploadInv, CompactUp, JobUp, Jobs
    <3>2. Covers(j.cursor) => Covers(j.cursor)'
      BY <1>2, <3>1, Growing
    <3>3. QED
      BY <1>1, <3>1, <3>2 DEF Arrives
  <2>8. JobUp(j)'
    BY <2>1, <2>2, <2>6, <2>7 DEF JobUp
  <2>9. Become(c, "link", j)
    BY <1>10, <2>5
  <2>10. QED
    BY <1>1, <1>2, <1>4, <2>4, <2>6, <2>8, <2>9, CommandStep
<1>11. CASE /\ job[c].kind = "resume" /\ claim' = k0 /\ Stay(c, "link")
            /\ UNCHANGED <<segments, waived>>
  <2>1. ClaimUp(k0)' /\ claim' = k0
    BY <1>2, <1>6, <1>11, Growing
  <2>2. ArchiveUp'
    <3>1. \A i \in DOMAIN segments' : SegmentUp(segments[i])'
      BY <1>2, <1>11, SegmentStays
    <3>2. ClaimUp(claim)'
      BY <2>1
    <3>3. QED
      BY <3>1, <3>2 DEF ArchiveUp
  <2>3. QED
    BY <1>1, <1>4, <1>11, <2>2, WriteStep
<1>12. CASE /\ job[c].kind = "old"
            /\ segments' = WithPending(k0.seq, Drop(k0))
            /\ Stay(c, "cursor")
            /\ UNCHANGED <<claim, waived>>
  <2>1. \A i \in DOMAIN segments : segments[i].seq = k0.seq => segments[i].rows = k0.rows
    <3>1. Indexed(k0)
      BY <1>1, <1>3, <1>5, <1>12, HolderFacts DEF PlanInv
    <3>2. QED
      BY <3>1 DEF Indexed, IInv, WorldInv, ArchiveInv
  <2>2. ArchiveUp'
    BY <1>2, <1>6, <1>12, <2>1, DropStored
  <2>3. QED
    BY <1>1, <1>4, <1>12, <2>2, WriteStep
<1>13. QED
  BY <1>5, <1>7, <1>9, <1>10, <1>11, <1>12 DEF Publish

LEMMA StoreSegmentUp ==
  ASSUME IInv, IInv', UploadInv, NEW c \in Compactor, StoreSegment(c)
  PROVE  UploadInv'
<1>1. /\ pc[c] = "store" /\ pc[c] \in Critical
      /\ UNCHANGED <<live, cursor, spc, sjob, sent, waived, claim>>
  BY DEF StoreSegment, At, Locked, sync, Critical
<1>2. Grows
  BY <1>1, Types DEF Grows, Size
<1>3. PICK k : k = job[c].claim
  OBVIOUS
<1>4. /\ claim = k /\ k # None /\ job[c].kind \in Rotations \cup {"resume"}
      /\ k \in Claims /\ ClaimUp(k)
  <2>1. Fits("store", job[c]) /\ HolderInv(c)
    BY <1>1, HolderFacts
  <2>2. job[c].kind \in Rotations \cup {"resume"} /\ k # None
    BY <1>3, <2>1 DEF Fits, Copied, Committed
  <2>3. claim = k
    BY <1>1, <1>3, <2>1, <2>2 DEF HolderInv
  <2>4. QED
    BY <2>2, <2>3, Types DEF UploadInv, ArchiveUp
<1>5. {"unlock", "cursor"} \subseteq States \ {"idle", "rename"} /\ job[c].kind # "finish"
  BY <1>4 DEF States, Critical, Rotations
<1>6. PICK known : known = {i \in DOMAIN segments : segments[i].seq = k.seq}
  OBVIOUS
<1>7. PICK t : t = [seq |-> k.seq, rows |-> k.rows, pending |-> Drop(k)]
  OBVIOUS
<1>8. \/ UNCHANGED segments /\ Stay(c, "unlock")
      \/ /\ \A i \in known : segments[i].rows = k.rows
         /\ segments' = IF known = {} THEN Append(segments, t) ELSE WithPending(k.seq, Drop(k))
         /\ Stay(c, "cursor")
  BY <1>3, <1>6, <1>7 DEF StoreSegment
<1>9. CASE UNCHANGED segments /\ Stay(c, "unlock")
  BY <1>1, <1>2, <1>5, <1>9, ArchiveStays, WriteStep
<1>10. CASE segments' = Append(segments, t) /\ Stay(c, "cursor")
  <2>1. /\ DOMAIN segments' = DOMAIN segments \cup {Len(segments) + 1}
        /\ segments'[Len(segments) + 1] = t
        /\ \A i \in DOMAIN segments : segments'[i] = segments[i]
    BY <1>10, Types, AppendProperties
  <2>2. \A i \in DOMAIN segments : SegmentUp(segments[i])'
    BY <1>2, <2>1, SegmentStays
  <2>3. ClaimUp(k)' /\ claim' = k
    BY <1>1, <1>2, <1>4, Growing
  <2>4. SegmentUp(t)'
    BY <1>7, <2>3 DEF SegmentUp, ClaimUp, Drop, Pending
  <2>5. ASSUME NEW i \in DOMAIN segments' PROVE SegmentUp(segments[i])'
    <3>1. CASE i \in DOMAIN segments
      BY <2>2, <3>1
    <3>2. CASE i = Len(segments) + 1
      <4>1. segments'[i] = t
        BY <2>1, <3>2
      <4>2. QED
        BY <2>4, <4>1
    <3>3. QED
      BY <2>1, <3>1, <3>2
  <2>6. ArchiveUp'
    BY <2>3, <2>5 DEF ArchiveUp
  <2>7. QED
    BY <1>1, <1>5, <1>10, <2>6, WriteStep
<1>11. CASE /\ \A i \in known : segments[i].rows = k.rows
            /\ segments' = WithPending(k.seq, Drop(k)) /\ Stay(c, "cursor")
  BY <1>1, <1>2, <1>4, <1>5, <1>6, <1>11, DropStored, WriteStep
<1>12. QED
  BY <1>8, <1>9, <1>10, <1>11

LEMMA CompleteUp ==
  ASSUME IInv, IInv', UploadInv, NEW c \in Compactor,
         LinkSegment(c) \/ Complete(c) \/ Unclaim(c)
  PROVE  UploadInv'
<1>1. /\ UNCHANGED <<live, cursor, spc, sjob, sent, waived>>
      /\ pc[c] \in {"link", "complete", "unclaim"} /\ pc[c] \in Critical
  BY DEF LinkSegment, Complete, Unclaim, At, Locked, sync, Critical
<1>2. Grows
  BY <1>1, Types DEF Grows, Size
<1>3. {"store", "unlock", "unclaim", "cursor"} \subseteq States \ {"idle", "rename"}
  BY DEF States, Critical
<1>4. CASE LinkSegment(c)
  <2>1. PICK state \in {"store", "unlock"} : Stay(c, state)
    BY <1>4 DEF LinkSegment
  <2>2. UNCHANGED <<segments, claim>>
    BY <1>4 DEF LinkSegment
  <2>3. QED
    BY <1>1, <1>2, <1>3, <2>1, <2>2, ArchiveStays, WriteStep
<1>5. CASE Unclaim(c)
  <2>1. UNCHANGED segments /\ claim' = None /\ Stay(c, "unlock")
    BY <1>5 DEF Unclaim
  <2>2. ArchiveUp'
    BY <1>2, <2>1, SegmentStays DEF ArchiveUp
  <2>3. QED
    BY <1>1, <1>3, <2>1, <2>2, WriteStep
<1>6. CASE Complete(c)
  <2>1. segments' = WithPending(job[c].claim.seq, None) /\ UNCHANGED claim
    BY <1>6 DEF Complete
  <2>2. PICK state : Stay(c, state) /\ state \in {"cursor", "unlock", "unclaim"}
    BY <1>6 DEF Complete
  <2>3. job[c].claim.replacement = live.ino
    BY <1>1, <1>6, HolderFacts DEF Complete, At, HolderInv
  <2>4. /\ DOMAIN segments' = DOMAIN segments
        /\ \A i \in DOMAIN segments :
             /\ segments'[i].rows = segments[i].rows
             /\ segments'[i].pending \in {None, segments[i].pending}
    BY <2>1, Types, WithPendingFacts
  <2>5. ArchiveUp'
    BY <1>2, <2>1, <2>4, SegmentStays, ClaimStays DEF ArchiveUp
  <2>6. QED
    BY <1>1, <1>3, <2>2, <2>3, <2>5, WriteStep
<1>7. QED
  BY <1>4, <1>5, <1>6

\* The cursor that is written is one for the live file, before the prefix is dropped and
\* after.
LEMMA WriteCursorUp ==
  ASSUME IInv, IInv', UploadInv, NEW c \in Compactor, WriteCursor(c)
  PROVE  UploadInv'
<1>1. /\ pc[c] = "cursor" /\ pc[c] \in Critical
      /\ UNCHANGED <<live, segments, claim, sent, waived, spc, sjob>>
  BY DEF WriteCursor, At, Locked, sync, archive, Critical
<1>2. Grows
  BY <1>1, Types DEF Grows, Size
<1>3. PICK j : j = job[c]
  OBVIOUS
<1>4. PICK k : k = j.claim
  OBVIOUS
<1>5. /\ j \in Jobs /\ JobUp(j) /\ WriterUp(c) /\ k # None /\ k \in Claims
      /\ j.kind # "none"
  BY <1>1, <1>3, <1>4, HolderFacts, Types DEF Fits, Copied, Committed, UploadInv, CompactUp
<1>6. PICK state : state = IF j.kind = "finish" THEN "unclaim" ELSE "rename"
  OBVIOUS
<1>7. Become(c, state, j) /\ state \in States /\ cursor' = k.cursor /\ k.cursor \in Nat
  BY <1>3, <1>4, <1>5, <1>6 DEF WriteCursor, Stay, States, Critical, Committed, Claims
<1>8. Covers(k.cursor)
  <2>1. CASE j.kind = "finish"
    BY <1>1, <1>3, <1>4, <1>5, <2>1 DEF WriterUp, JobUp, Arrives
  <2>2. CASE j.kind # "finish"
    <3>1. Holds(c)
      BY <1>1, <1>3, <2>2 DEF Holds, Copied, Committed
    <3>2. k.source = live.ino /\ Lands(k.source, Len(k.rows), k.cursor)
      BY <1>1, <1>3, <1>4, <3>1, HolderFacts, ClaimReady
    <3>3. Len(k.rows) \in Nat
      BY <1>5 DEF Claims
    <3>4. QED
      BY <1>7, <3>2, <3>3, Types DEF Lands, Covers
  <2>3. QED
    BY <2>1, <2>2
<1>9. CursorInv'
  <2>1. Covers(k.cursor)'
    BY <1>2, <1>7, <1>8, Growing
  <2>2. QED
    BY <1>7, <2>1 DEF CursorInv
<1>10. CompactUp'
  <2>1. /\ pc'[c] = state /\ job'[c] = j
        /\ \A d \in Compactor \ {c} : pc'[d] = pc[d] /\ job'[d] = job[d]
    BY <1>5, <1>7, BecomeFacts DEF IInv
  <2>2. JobUp(j)'
    BY <1>2, <1>5, Growing
  <2>3. JobUp(job[c])' /\ WriterUp(c)'
    BY <1>4, <1>6, <1>7, <2>1, <2>2 DEF WriterUp
  <2>4. \A d \in Compactor \ {c} : pc[d] \notin Critical
    BY <1>1, HolderFacts
  <2>5. QED
    BY <1>2, <2>1, <2>3, <2>4, CommandStays DEF CompactUp
<1>11. SyncUp'
  BY <1>1, <1>2, SyncStays DEF SyncUp, UploadInv
<1>12. QED
  BY <1>1, <1>2, <1>9, <1>10, <1>11, ArchiveStays DEF UploadInv

\* The new file is seen through the cursor that was lowered for it; every other file that
\* somebody remembers a cursor for is gone.
LEMMA RenameUp ==
  ASSUME IInv, IInv', UploadInv, NEW c \in Compactor, Rename(c)
  PROVE  UploadInv'
<1>1. /\ pc[c] = "rename" /\ pc[c] \in Critical /\ Stay(c, "complete")
      /\ UNCHANGED <<cursor, segments, claim, sent, waived, spc, sjob>>
  BY DEF Rename, At, Locked, archive, sync, Critical
<1>2. PICK k : k = job[c].claim
  OBVIOUS
<1>3. PICK n, r : n = Len(k.rows) /\ r = k.replacement
  OBVIOUS
<1>4. TypeInv'
  BY DEF IInv
<1>5. /\ Holds(c) /\ k \in Claims /\ n \in Nat /\ n <= Size
      /\ live'.ino = r /\ Size' = Size - n
      /\ \A i \in 1..(Size - n) : live'.rows[i] = live.rows[n + i]
  BY <1>2, <1>3, <1>4, RenameFacts
<1>6. Settled' = Settled
  BY <1>1 DEF Settled
<1>7. Covers(k.cursor)' /\ cursor = k.cursor
  <2>1. cursor = k.cursor /\ cursor \in Nat /\ Size \in Nat
    BY <1>1, <1>2, Types DEF UploadInv, CompactUp, WriterUp
  <2>2. cursor > 0 => Covers(n + cursor)
    BY <1>1, <1>2, <1>3, <1>5, <2>1, HolderFacts, ClaimReady DEF Lands
  <2>3. cursor <= Size - n
    BY <1>5, <2>1, <2>2 DEF Covers
  <2>4. \A i \in 1..cursor : n + i \in 1..(n + cursor) /\ i \in 1..(Size - n)
    BY <1>5, <2>1, <2>3
  <2>5. \A i \in 1..cursor : live'.rows[i] \in Settled'
    BY <1>5, <1>6, <2>1, <2>2, <2>4 DEF Covers
  <2>6. QED
    BY <1>5, <2>1, <2>3, <2>5 DEF Covers
<1>8. CursorInv'
  BY <1>1, <1>7 DEF CursorInv
<1>9. /\ Fresh(c) /\ HolderInv(c) /\ Fits("rename", job[c])
  BY <1>1, <1>5, HolderFacts
<1>10. \A i \in DOMAIN segments : SegmentUp(segments[i])'
  <2> SUFFICES ASSUME NEW i \in DOMAIN segments PROVE SegmentUp(segments[i])'
    OBVIOUS
  <2>1. PICK s : s = segments[i]
    OBVIOUS
  <2>2. AllSettled(s.rows)'
    BY <1>6, <2>1 DEF UploadInv, ArchiveUp, SegmentUp, AllSettled
  <2>3. Pending(s) => s.pending.source # r
    BY <1>2, <1>3, <1>9, <2>1 DEF Fresh, Unseen
  <2>4. Pending(s) /\ s.pending.replacement = r => s.pending.cursor = k.cursor
    <3>1. PICK h \in DOMAIN segments : /\ segments[h].seq = k.seq
                                       /\ segments[h].pending = Drop(k)
      BY <1>1, <1>2, <1>5, <1>9 DEF HolderInv
    <3>2. Pending(s) /\ s.pending.replacement = r => s.seq = k.seq
      BY <1>2, <1>3, <1>9, <2>1 DEF Fresh
    <3>3. s.seq = k.seq => h = i
      BY <2>1, <3>1 DEF IInv, WorldInv, ArchiveInv
    <3>4. QED
      BY <2>1, <3>1, <3>2, <3>3 DEF Drop
  <2>5. SegmentUp(s)'
    BY <1>5, <1>7, <2>2, <2>3, <2>4 DEF SegmentUp, Lands, Arrives, Pending
  <2>6. segments'[i] = s
    BY <1>1, <2>1
  <2>7. QED
    BY <2>5, <2>6
<1>11. ASSUME claim # None PROVE ClaimUp(claim)'
  <2>1. PICK q : q = claim
    OBVIOUS
  <2>2. AllSettled(q.rows)'
    BY <1>6, <1>11, <2>1 DEF UploadInv, ArchiveUp, ClaimUp, AllSettled
  <2>3. q.source # r
    BY <1>2, <1>3, <1>9, <1>11, <2>1 DEF Fresh, Unseen
  <2>4. q.replacement = r => q.cursor = k.cursor
    <3>1. job[c].kind \in Rotations \cup {"resume", "old"}
      <4>1. job[c] \in Jobs /\ job[c].kind # "finish" /\ job[c].kind # "none"
        BY <1>9, Types DEF Fits, Copied, Committed
      <4>2. QED
        BY <4>1 DEF Jobs, Rotations
    <3>2. CASE job[c].kind = "old"
      BY <1>2, <1>3, <1>9, <1>11, <2>1, <3>2 DEF Fresh
    <3>3. CASE job[c].kind \in Rotations \cup {"resume"}
      BY <1>1, <1>2, <1>9, <2>1, <3>3 DEF HolderInv
    <3>4. QED
      BY <3>1, <3>2, <3>3
  <2>5. ClaimUp(q)'
    BY <1>5, <1>7, <2>2, <2>3, <2>4 DEF ClaimUp, Lands, Arrives
  <2>6. claim' = q
    BY <1>1, <2>1
  <2>7. QED
    BY <2>5, <2>6
<1>12. ASSUME NEW d \in Compactor PROVE JobUp(job[d])' /\ WriterUp(d)'
  <2>1. PICK j : j = job[d]
    OBVIOUS
  <2>2. job'[d] = j /\ (d # c => pc'[d] = pc[d]) /\ pc'[c] = "complete"
    <3>1. "complete" \in States /\ job[c] \in Jobs /\ Become(c, "complete", job[c])
      BY <1>1, Types DEF States, Critical, Stay
    <3>2. QED
      BY <2>1, <3>1, BecomeFacts DEF IInv
  <2>3. JobUp(j) /\ WriterUp(d)
    BY <2>1 DEF UploadInv, CompactUp
  <2>4. j.source # r /\ (j.claim # None => j.claim.source # r)
    BY <1>2, <1>3, <1>9, <2>1 DEF Fresh, Unseen
  <2>5. j.kind = "finish" /\ j.claim # None => j.claim.replacement # r
    <3>1. CASE d = c
      BY <1>9, <2>1, <3>1 DEF Fits
    <3>2. CASE d # c
      <4>1. pc[d] \notin Critical /\ pc[d] \in States
        BY <1>1, <3>2, HolderFacts, Types
      <4>2. Fits(pc[d], j) /\ SourceInv(d)
        BY <2>1 DEF IInv, TypeInv, KindInv, CommandInv
      <4>3. pc[d] = "idle" => j.claim = None
        BY <2>1, <2>3 DEF WriterUp, NoJob
      <4>4. j.kind = "finish" /\ j.claim # None => pc[d] = "lock"
        BY <4>1, <4>2, <4>3 DEF Fits, States, Committed, Critical, Rotations
      <4>5. QED
        BY <2>1, <2>4, <4>2, <4>4 DEF SourceInv
    <3>3. QED
      BY <3>1, <3>2
  <2>6. j.claim # None => AllSettled(j.claim.rows)' \/ j.kind = "rotateAll"
    BY <1>6, <2>3 DEF JobUp, AllSettled
  <2>7. JobUp(j)'
    BY <1>5, <2>4, <2>5, <2>6 DEF JobUp, Lands, Arrives
  <2>8. JobUp(job[d])'
    BY <2>2, <2>7
  <2>9. WriterUp(d)'
    <3>1. d # c => pc[d] \notin Critical
      BY <1>1, HolderFacts
    <3>2. QED
      BY <2>1, <2>2, <2>3, <3>1 DEF WriterUp, Critical
  <2>10. QED
    BY <2>8, <2>9
<1>13. SyncUp'
  <2>1. \A s \in Syncer : sjob[s].ino # r
    BY <1>2, <1>3, <1>5 DEF IInv, SyncInv
  <2>2. QED
    BY <1>1, <1>5, <2>1 DEF SyncUp, PageUp, UploadInv
<1>14. QED
  BY <1>1, <1>8, <1>10, <1>11, <1>12, <1>13 DEF UploadInv, ArchiveUp, CompactUp

-----------------------------------------------------------------------------
(* Appends, clean and the sync commands.                                   *)

LEMMA NobodyWrites ==
  ASSUME IInv, Free
  PROVE  \A c \in Compactor : pc[c] \notin Critical
  BY RecordAssumption DEF IInv, TypeInv, KindInv, Free

LEMMA AddRowUp ==
  ASSUME IInv, IInv', UploadInv, AddRow
  PROVE  UploadInv'
<1>1. /\ live' = [live EXCEPT !.rows = Append(@, appended + 1)]
      /\ UNCHANGED <<cursor, segments, claim, pc, job, spc, sjob, sent, waived>>
  BY DEF AddRow, archive, compact, sync, server
<1>2. /\ live \in [ino : Nat, rows : Seq(1..MaxRows)] /\ appended \in Nat /\ Size \in Nat
      /\ appended + 1 \in 1..MaxRows
  BY DEF IInv, TypeInv, TypeOK, Size, AddRow
<1>3. live'.ino = live.ino /\ live'.rows = Append(live.rows, appended + 1)
  BY <1>1, <1>2
<1>4. Size' = Size + 1 /\ \A i \in 1..Size : live'.rows[i] = live.rows[i]
  BY <1>2, <1>3, AppendProperties DEF Size
<1>5. Grows
  <2>1. Size <= Size'
    BY <1>2, <1>4
  <2>2. /\ sent \subseteq sent' /\ waived \subseteq waived' /\ live'.ino = live.ino
        /\ \A i \in 1..Size : live'.rows[i] = live.rows[i]
    BY <1>1, <1>3, <1>4
  <2>3. QED
    BY <2>1, <2>2 DEF Grows
<1>6. CompactUp'
  BY <1>1, <1>5, CommandStays DEF CompactUp
<1>7. SyncUp'
  BY <1>1, <1>5, SyncStays DEF SyncUp, UploadInv
<1>8. QED
  BY <1>1, <1>5, <1>6, <1>7, CursorStays, ArchiveStays DEF UploadInv

\* Nobody has seen the truncated file, and its cursor is 0.
LEMMA CleanUp ==
  ASSUME IInv, IInv', UploadInv, Clean
  PROVE  UploadInv'
<1>1. /\ holder = None /\ claim = None /\ cursor' = 0
      /\ UNCHANGED <<segments, claim, pc, job, spc, sjob, sent, waived>>
  BY DEF Clean, Truncate, Free, archive, compact, sync
<1>2. PICK ino \in Inodes : Unused(ino) /\ live'.ino = ino
  BY CleanFacts DEF IInv
<1>3. /\ \A i \in DOMAIN segments : Pending(segments[i]) =>
           ino \notin {segments[i].pending.source, segments[i].pending.replacement}
      /\ \A d \in Compactor :
           /\ ino # job[d].source
           /\ job[d].claim # None =>
                ino \notin {job[d].claim.source, job[d].claim.replacement}
      /\ \A s \in Syncer : ino # sjob[s].ino
  BY <1>2, NewFile DEF IInv, TypeInv
<1>4. Size' \in Nat
  BY DEF IInv, TypeInv, TypeOK, Size
<1>5. CursorInv'
  BY <1>1, <1>4 DEF CursorInv, Covers
<1>6. ArchiveUp'
  BY <1>1, <1>2, <1>3 DEF UploadInv, ArchiveUp, SegmentUp, Lands, Arrives, AllSettled, Settled,
     Pending
<1>7. CompactUp'
  BY <1>1, <1>2, <1>3, NobodyWrites
  DEF UploadInv, CompactUp, JobUp, WriterUp, Lands, Arrives, AllSettled, Settled, Free, Critical
<1>8. SyncUp'
  BY <1>1, <1>2, <1>3 DEF UploadInv, SyncUp, PageUp
<1>9. QED
  BY <1>5, <1>6, <1>7, <1>8 DEF UploadInv

LEMMA SyncFrame ==
  ASSUME IInv, IInv', UploadInv, UNCHANGED <<live, pc, job, segments, claim, waived>>,
         sent \subseteq sent', \A c \in Compactor : pc[c] \in Critical => UNCHANGED cursor,
         NEW s \in Syncer, NEW state \in SyncStates, NEW j, SyncBecome(s, state, j),
         CursorInv', PageUp(state, j)'
  PROVE  UploadInv'
<1>1. Grows
  BY Types DEF Grows, Size
<1>2. /\ spc' \in [Syncer -> SyncStates] /\ spc'[s] = state /\ sjob'[s] = j
      /\ \A t \in Syncer \ {s} : spc'[t] = spc[t] /\ sjob'[t] = sjob[t]
  BY DEF SyncBecome, UploadInv, SyncUp, IInv, TypeInv, TypeOK
<1>3. PageUp(spc[s], sjob[s])'
  BY <1>2
<1>4. SyncUp'
  BY <1>1, <1>2, <1>3, SyncStays DEF SyncUp
<1>5. CompactUp'
  BY <1>1, CommandStays DEF CompactUp
<1>6. QED
  BY <1>1, <1>4, <1>5, ArchiveStays DEF UploadInv

LEMMA RangeFacts ==
  ASSUME NEW T, NEW rows \in Seq(T), NEW m \in Nat, NEW n \in Nat, n <= Len(rows),
         NEW i \in (m + 1)..n
  PROVE  rows[i] \in ToSet(SubSeq(rows, m + 1, n))
<1>1. \A h \in (m + 1)..n : rows[h] \in T
  BY LenProperties, ElementOfSeq
<1>2. /\ SubSeq(rows, m + 1, n) \in Seq(T) /\ Len(SubSeq(rows, m + 1, n)) = n - m
      /\ SubSeq(rows, m + 1, n)[i - m] = rows[i]
  <2>1. /\ m + 1 \in Int /\ n \in Int /\ m + 1 <= n /\ n - (m + 1) + 1 = n - m
        /\ i - m \in 1..(n - m) /\ (m + 1) + (i - m) - 1 = i
    OBVIOUS
  <2>2. \A h \in (m + 1)..n : h \in 1..Len(rows) /\ rows[h] \in T
    BY <1>1, LenProperties
  <2>3. \A h \in (m + 1)..n : rows[h] \in T
    BY <2>2
  <2>4. /\ SubSeq(rows, m + 1, n) \in Seq(T)
        /\ Len(SubSeq(rows, m + 1, n)) = n - (m + 1) + 1
        /\ \A k \in 1..(n - (m + 1) + 1) : SubSeq(rows, m + 1, n)[k] = rows[(m + 1) + k - 1]
    BY <2>1, <2>3, SubSeqProperties
  <2>5. QED
    BY <2>1, <2>4
<1>3. i - m \in DOMAIN SubSeq(rows, m + 1, n)
  BY <1>2, LenProperties
<1>4. QED
  BY <1>2, <1>3 DEF ToSet

\* A checkpoint moves the cursor over what the server has, and only in the file that was read.
LEMMA SyncUpStep ==
  ASSUME IInv, IInv', UploadInv, NEW s \in Syncer,
         \/ SyncBegin(s) \/ Capture(s) \/ ReadPage(s) \/ UploadAnswered(s)
         \/ UploadFails(s) \/ Checkpoint(s) \/ CheckpointTorn(s)
  PROVE  UploadInv'
<1>1. UNCHANGED <<live, pc, job, segments, claim, waived>> /\ sent \subseteq sent'
  BY DEF SyncBegin, Capture, ReadPage, UploadAnswered, UploadFails, Checkpoint, CheckpointTorn,
     SyncReads, log, archive, server, compact
<1>2. Grows
  BY <1>1, Types DEF Grows, Size
<1>3. PICK j : j = sjob[s]
  OBVIOUS
<1>4. j \in Syncs /\ PageUp(spc[s], j) /\ Size \in Nat /\ live.rows \in Seq(1..MaxRows)
  BY <1>3, Types DEF UploadInv, SyncUp, IInv, TypeInv, TypeOK
<1>5. {"idle", "capture", "read", "upload", "checkpoint"} \subseteq SyncStates
  BY DEF SyncStates
<1>6. ASSUME UNCHANGED cursor, NEW state \in {"idle", "capture", "read"}, NEW h,
             SyncBecome(s, state, h)
      PROVE  UploadInv'
  BY <1>1, <1>2, <1>5, <1>6, CursorStays, SyncFrame DEF PageUp
<1>7. CASE SyncBegin(s) \/ Capture(s)
  BY <1>6, <1>7 DEF SyncBegin, Capture, SyncReads, SyncEnd
<1>8. CASE ReadPage(s)
  <2>1. PICK to : to = Smaller(j.from + PageRows, j.end)
    OBVIOUS
  <2>2. PICK page : page = ToSet(SubSeq(live.rows, j.from + 1, to))
    OBVIOUS
  <2>3. /\ UNCHANGED cursor
        /\ \/ SyncEnd(s)
           \/ live.ino = j.ino /\ SyncBecome(s, "upload", [j EXCEPT !.to = to, !.page = page])
    BY <1>3, <1>8, <2>1, <2>2 DEF ReadPage, SyncReads
  <2>4. CASE live.ino = j.ino /\ SyncBecome(s, "upload", [j EXCEPT !.to = to, !.page = page])
    <3>1. j.end <= Size /\ j.from \in Nat /\ j.end \in Nat /\ PageRows \in Nat
      BY <1>3, <1>4, <2>4, BoundsAssumption DEF IInv, SyncInv, Syncs
    <3>2. to \in Nat /\ to <= Size
      BY <1>4, <2>1, <3>1 DEF Smaller
    <3>3. \A i \in (j.from + 1)..to : live.rows[i] \in page
      BY <1>4, <2>2, <3>1, <3>2, RangeFacts DEF Size
    <3>4. PICK h : h = [j EXCEPT !.to = to, !.page = page]
      OBVIOUS
    <3>5. h.to = to /\ h.page = page /\ h.from = j.from
      BY <1>4, <3>4 DEF Syncs
    <3>6. PageUp("upload", h)
      BY <3>2, <3>3, <3>5 DEF PageUp
    <3>7. PageUp("upload", h)'
      BY <1>1, <3>6 DEF PageUp, Size
    <3>8. QED
      BY <1>1, <1>2, <1>5, <2>3, <2>4, <3>4, <3>7, CursorStays, SyncFrame
  <2>5. QED
    BY <1>6, <2>3, <2>4 DEF SyncEnd
<1>9. CASE UploadAnswered(s)
  <2>1. PICK h : h = [j EXCEPT !.page = {}]
    OBVIOUS
  <2>2. /\ spc[s] = "upload" /\ sent' = sent \cup j.page /\ UNCHANGED cursor
        /\ SyncBecome(s, "checkpoint", h)
    BY <1>3, <1>9, <2>1 DEF UploadAnswered
  <2>3. h.ino = j.ino /\ h.from = j.from /\ h.to = j.to
    BY <1>4, <2>1 DEF Syncs
  <2>4. PageUp("checkpoint", h)'
    BY <1>1, <1>4, <2>2, <2>3 DEF PageUp, Size
  <2>5. QED
    BY <1>1, <1>2, <1>5, <2>2, <2>4, CursorStays, SyncFrame
<1>10. CASE UploadFails(s)
  BY <1>6, <1>10 DEF UploadFails, SyncEnd
<1>11. CASE Checkpoint(s)
  <2>1. PICK h : h = [j EXCEPT !.from = j.to]
    OBVIOUS
  <2>2. /\ spc[s] = "checkpoint" /\ Free
        /\ \/ SyncEnd(s) /\ UNCHANGED cursor
           \/ BasisHolds(s) /\ cursor' = j.to /\ SyncBecome(s, "read", h)
    BY <1>3, <1>11, <2>1 DEF Checkpoint
  <2>3. CASE BasisHolds(s) /\ cursor' = j.to /\ SyncBecome(s, "read", h)
    <3>1. j.from \in Nat /\ j.to \in Nat
      BY <1>4 DEF Syncs
    <3>2. live.ino = j.ino /\ j.to <= Size /\ cursor \in {j.from, j.to} /\ Covers(cursor)
      BY <1>3, <2>3 DEF BasisHolds, UploadInv, CursorInv
    <3>3. \A i \in (j.from + 1)..j.to : live.rows[i] \in sent
      BY <1>4, <2>2, <3>2 DEF PageUp
    <3>4. Covers(j.to)
      BY <3>1, <3>2, <3>3 DEF Covers, Settled
    <3>5. Covers(j.to)'
      BY <1>2, <3>1, <3>4, Growing
    <3>6. CursorInv'
      BY <2>3, <3>5 DEF CursorInv
    <3>7. PageUp("read", h)'
      BY DEF PageUp
    <3>8. QED
      BY <1>1, <1>5, <2>2, <2>3, <3>6, <3>7, NobodyWrites, SyncFrame
  <2>4. QED
    BY <1>6, <2>2, <2>3 DEF SyncEnd
<1>12. CASE CheckpointTorn(s)
  <2>1. Free /\ cursor' = 0 /\ SyncBecome(s, "idle", NoSync)
    BY <1>12 DEF CheckpointTorn, SyncEnd
  <2>2. Size' \in Nat
    BY DEF IInv, TypeInv, TypeOK, Size
  <2>3. CursorInv' /\ PageUp("idle", NoSync)'
    BY <2>1, <2>2 DEF CursorInv, Covers, PageUp
  <2>4. QED
    BY <1>1, <1>5, <2>1, <2>3, NobodyWrites, SyncFrame
<1>13. QED
  BY <1>7, <1>8, <1>9, <1>10, <1>11, <1>12

-----------------------------------------------------------------------------
(* The invariant is inductive, and what follows from it.                   *)

LEMMA InitUp == Init => UploadInv
<1> SUFFICES ASSUME Init PROVE UploadInv
  OBVIOUS
<1> USE DEF Init
<1>1. IInv
  BY InitIInv
<1>2. live.ino = 1 /\ cursor = 0 /\ claim = None
  OBVIOUS
<1>3. CursorInv
  BY <1>1, <1>2, Types DEF CursorInv, Covers
<1>4. ArchiveUp
  <2>1. CASE segments = <<>>
    BY <1>2, <2>1 DEF ArchiveUp
  <2>2. CASE segments # <<>>
    <3>1. /\ DOMAIN segments = {1} /\ segments[1].rows = <<1>> /\ sent = {1}
          /\ segments[1].pending = [source |-> 1, replacement |-> 2, cursor |-> 0]
      BY <2>2
    <3>2. SegmentUp(segments[1])
      BY <1>2, <3>1 DEF SegmentUp, AllSettled, Settled, Lands, Arrives
    <3>3. QED
      BY <1>2, <3>1, <3>2 DEF ArchiveUp
  <2>3. QED
    BY <2>1, <2>2
<1>5. CompactUp
  BY <1>1, NothingKnown DEF CompactUp, WriterUp
<1>6. SyncUp
  BY DEF SyncUp, PageUp, SyncStates
<1>7. QED
  BY <1>3, <1>4, <1>5, <1>6 DEF UploadInv

LEMMA NextUp == IInv /\ UploadInv /\ [Next]_vars => UploadInv'
<1> SUFFICES ASSUME IInv, UploadInv, [Next]_vars PROVE UploadInv'
  OBVIOUS
<1>1. IInv'
  BY NextIInv
<1>2. CASE AddRow \/ Clean
  BY <1>1, <1>2, AddRowUp, CleanUp
<1>3. ASSUME NEW c \in Compactor, Begin(c) \/ CompactStep(c) \/ Kill(c) \/ Revoke(c)
      PROVE  UploadInv'
  BY <1>1, <1>3, BeginUp, ReadClaimUp, PrepareUp, LockUp, PublishUp, StoreSegmentUp, CompleteUp,
     WriteCursorUp, RenameUp DEF CompactStep
<1>4. ASSUME NEW s \in Syncer, SyncBegin(s) \/ SyncStep(s) \/ CheckpointTorn(s)
      PROVE  UploadInv'
  BY <1>1, <1>4, SyncUpStep DEF SyncStep
<1>5. CASE UNCHANGED vars
  BY <1>5 DEF UploadInv, CursorInv, ArchiveUp, CompactUp, SyncUp, SegmentUp, ClaimUp, JobUp,
     WriterUp, PageUp, Covers, Lands, Arrives, AllSettled, Settled, Size, Pending,
     vars, log, archive, compact, sync, server
<1>6. QED
  BY <1>2, <1>3, <1>4, <1>5 DEF Next

\* compact keeps the un-sent rows for the upload (compact.ts:13): whatever has been archived, or
\* stands before the cursor, has reached the server or was given up by compact --all, for
\* any number of compact and sync commands at once and any number of kills.
THEOREM NonePassedOver == Spec => []NoRowPassedOver
<1>1. IInv /\ UploadInv => NoRowPassedOver
  <2> SUFFICES ASSUME IInv, UploadInv PROVE NoRowPassedOver
    OBVIOUS
  <2>1. Covers(cursor) /\ cursor \in Nat /\ live.rows \in Seq(1..MaxRows)
    BY Types DEF UploadInv, CursorInv, IInv, TypeInv, TypeOK
  <2>2. ToSet(SubSeq(live.rows, 1, cursor)) \subseteq sent \cup waived
    <3>1. /\ SubSeq(live.rows, 1, cursor) \in Seq(1..MaxRows)
          /\ Len(SubSeq(live.rows, 1, cursor)) = cursor
          /\ \A i \in 1..cursor : SubSeq(live.rows, 1, cursor)[i] = live.rows[i]
      <4>1. cursor <= Len(live.rows)
        BY <2>1 DEF Covers, Size
      <4>2. cursor \in Int
        BY <2>1
      <4>3. /\ SubSeq(live.rows, 1, cursor) \in Seq(1..MaxRows)
            /\ Len(SubSeq(live.rows, 1, cursor)) = IF cursor > 0 THEN cursor ELSE 0
            /\ \A i \in 1..Len(SubSeq(live.rows, 1, cursor)) :
                 SubSeq(live.rows, 1, cursor)[i] = live.rows[i]
        BY ONLY <2>1, <4>1, <4>2, PrefixFacts
      <4>4. Len(SubSeq(live.rows, 1, cursor)) = cursor
        BY <2>1, <4>3
      <4>5. QED
        BY <4>3, <4>4
    <3>2. QED
      BY <2>1, <3>1, LenProperties DEF ToSet, Covers, Settled
  <2>3. Archived \subseteq sent \cup waived
    <3>1. ASSUME NEW i \in DOMAIN segments PROVE ToSet(Pieces[i]) \subseteq sent \cup waived
      <4>1. Pieces[i] = segments[i].rows \/ Pieces[i] = <<>>
        BY PiecesFacts
      <4>2. AllSettled(segments[i].rows)
        BY DEF UploadInv, ArchiveUp, SegmentUp
      <4>3. QED
        BY <4>1, <4>2 DEF ToSet, AllSettled, Settled
    <3>2. QED
      BY <3>1 DEF Archived
  <2>4. QED
    BY <2>1, <2>2, <2>3 DEF NoRowPassedOver, Covers
<1>2. QED
  BY <1>1, InitIInv, InitUp, NextIInv, NextUp, PTL DEF Spec

=============================================================================
