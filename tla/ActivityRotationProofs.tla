---------------------- MODULE ActivityRotationProofs ----------------------
(***************************************************************************)
(* Two more things that rotations of ActivityLog leave intact.  The audit  *)
(* chain: no rotation, resumed rotation or truncation makes a chained row  *)
(* link past its predecessor.  The durable claim: what a killed rotation   *)
(* leaves behind says how to complete it.  What the log and the archive    *)
(* hold is ActivityLogProofs.                                              *)
(***************************************************************************)
EXTENDS ActivityLogProofs

\* A chained row that has been appended has its link.
LinkInv == DOMAIN link = 1..appended \cap Chained /\ ChainUnbroken

\* The newest chained row is live, unless clean has discarded it.
HeadInv ==
    \A r \in DOMAIN link :
        (\A q \in DOMAIN link : q <= r) => r > Base \/ r \in dropped

\* The newest chained row is not among the rows: they may leave the live file.
Spared(rows) ==
    \A m \in DOMAIN rows : rows[m] \in Chained => \E q \in DOMAIN link : q > rows[m]

\* Nobody has planned to cut it, however old the plan is.
SparedInv ==
    /\ \A i \in DOMAIN segments : Spared(segments[i].rows)
    /\ claim # None => Spared(claim.rows)
    /\ \A c \in Compactor : job[c].claim # None => Spared(job[c].claim.rows)

ChainInv == LinkInv /\ HeadInv /\ SparedInv

\* The newest chained row of the tail of some rows.
LEMMA LastChainedFacts ==
  ASSUME NEW rows \in Seq(1..MaxRows)
  PROVE  /\ AuditTail(rows) \subseteq DOMAIN rows
         /\ IF \E i \in AuditTail(rows) : rows[i] \in Chained
            THEN /\ \E i \in AuditTail(rows) : LastChained(rows) = rows[i]
                 /\ LastChained(rows) \in Chained
                 /\ \A i \in AuditTail(rows) :
                       rows[i] \in Chained => rows[i] <= LastChained(rows)
            ELSE LastChained(rows) = 0
<1> DEFINE chained == {rows[i] : i \in AuditTail(rows)} \cap Chained
<1>0. AuditTail(rows) \subseteq DOMAIN rows
  BY DEF AuditTail
<1>1. chained \in SUBSET (1..MaxRows) /\ MaxRows \in Nat
  BY <1>0, LenProperties, ElementOfSeq, BoundsAssumption
<1>2. LastChained(rows) = IF chained = {} THEN 0
                          ELSE CHOOSE r \in chained : \A q \in chained : q <= r
  BY DEF LastChained
<1>3. CASE chained = {}
  BY <1>0, <1>2, <1>3
<1>4. CASE chained # {}
  <2>1. \E r \in chained : \A q \in chained : q <= r
    BY <1>1, <1>4, Largest
  <2>2. LastChained(rows) \in chained /\ \A q \in chained : q <= LastChained(rows)
    BY <1>2, <1>4, <2>1
  <2>3. QED
    BY <1>0, <2>2
<1>5. QED
  BY <1>3, <1>4

\* planCut leaves a later chained row than any that it cuts.
LEMMA CutSpares ==
  ASSUME NEW j \in Jobs, live.rows \in Seq(1..MaxRows), j.size <= Size,
         NEW m \in 1..PlanCut(j), m <= j.size, live.rows[m] \in Chained
  PROVE  \E h \in 1..j.size : h > m /\ live.rows[h] \in Chained
<1> DEFINE rows   == SubSeq(live.rows, 1, j.size)
           synced == IF j.kind = "rotateAll" THEN j.size ELSE j.cursor
           recent == Smaller(synced, j.size - KeepRecent)
           heads  == {i \in 1..j.size : rows[i] \in Chained}
           last   == CHOOSE i \in heads : \A h \in heads : h <= i
<1>1. j.size \in Nat /\ j.cursor \in Nat /\ KeepRecent \in Nat
  BY BoundsAssumption DEF Jobs
<1>2. \A i \in 1..j.size : rows[i] = live.rows[i]
  BY <1>1, PrefixFacts DEF Size
<1>3. m \in heads /\ heads \in SUBSET (1..j.size)
  BY <1>1, <1>2
<1>4. last \in heads
  BY <1>1, <1>3, Largest
<1>5. PlanCut(j) = Smaller(recent, last - 1)
  BY <1>3 DEF PlanCut
<1>6. last \in 1..j.size /\ live.rows[last] \in Chained
  BY <1>2, <1>4
<1>7. recent \in Int
  BY <1>1 DEF Smaller
<1> HIDE DEF last, recent
<1>8. m <= last - 1
  BY <1>5, <1>6, <1>7 DEF Smaller
<1>9. QED
  BY <1>6, <1>8

-----------------------------------------------------------------------------
LEMMA InitChain == Init => ChainInv
<1> SUFFICES ASSUME Init PROVE ChainInv
  OBVIOUS
<1> USE DEF Init
<1>1. /\ FirstRows \in Nat \ {0} /\ MaxRows \in Nat \ {0} /\ FirstRows <= MaxRows
      /\ AuditRows \in Nat
      /\ DOMAIN link = 1..appended \cap Chained /\ appended = FirstRows
  BY BoundsAssumption
<1>2. ASSUME NEW r \in DOMAIN link
      PROVE  IF \A q \in DOMAIN link : r <= q THEN link[r] = 0
             ELSE \E before \in DOMAIN link :
                    /\ before < r
                    /\ \A q \in DOMAIN link : q < r => q <= before
                    /\ link[r] = before \/ (link[r] = 0 /\ before < r - AuditRows)
  <2> DEFINE older == [i \in 1..(r - 1) |-> i]
  <2>1. r \in 1..FirstRows /\ r - 1 \in Nat
    BY <1>1
  <2>2. older \in [1..(r - 1) -> 1..MaxRows]
    BY <1>1, <2>1
  <2>3. older \in Seq(1..MaxRows)
    BY <2>1, <2>2, SeqDef
  <2>4. /\ DOMAIN older = 1..(r - 1) /\ \A i \in 1..(r - 1) : older[i] = i
        /\ Len(older) = r - 1
    BY <2>1, <2>3, LenProperties
  <2>5. link[r] = LastChained(older)
    OBVIOUS
  <2> HIDE DEF older
  <2>6. \A q \in DOMAIN link : /\ q < r <=> q \in 1..(r - 1)
                              /\ q \in 1..(r - 1) <=> q \in DOMAIN older /\ older[q] = q
                              /\ q \in Chained
    BY <1>1, <2>1, <2>4
  <2>7. \A i \in DOMAIN older : /\ older[i] \in Chained => i \in DOMAIN link
                                /\ i \in AuditTail(older) <=> i >= r - AuditRows
                                /\ i \in Nat /\ i < r /\ older[i] = i
    BY <1>1, <2>1, <2>4 DEF AuditTail
  <2>8. CASE \A q \in DOMAIN link : r <= q
    <3>1. ~ \E i \in DOMAIN older : older[i] \in Chained
      BY <1>1, <2>1, <2>7, <2>8
    <3>2. link[r] = 0
      BY <2>3, <2>5, <3>1, LastChainedFacts
    <3>3. QED
      BY <2>8, <3>2
  <2>9. CASE ~ \A q \in DOMAIN link : r <= q
    <3>1. PICK b \in {q \in DOMAIN link : q < r} : \A q \in DOMAIN link : q < r => q <= b
      <4> DEFINE earlier == {q \in DOMAIN link : q < r}
      <4>1. earlier \in SUBSET (1..MaxRows)
        BY <1>1
      <4>2. earlier # {}
        BY <1>1, <2>1, <2>9
      <4>3. \E b \in earlier : \A q \in earlier : q <= b
        <5> HIDE DEF earlier
        <5>1. QED
          BY <1>1, <4>1, <4>2, Largest
      <4>4. QED
        BY <4>3
    <3>2. b \in DOMAIN older /\ older[b] = b /\ b \in Chained /\ b \in Nat
      BY <1>1, <2>6, <3>1
    <3>3. CASE b < r - AuditRows
      <4>1. ~ \E i \in AuditTail(older) : older[i] \in Chained
        <5> SUFFICES ASSUME NEW i \in AuditTail(older), older[i] \in Chained PROVE FALSE
          OBVIOUS
        <5>1. i \in DOMAIN older
          BY DEF AuditTail
        <5>2. i \in DOMAIN link /\ i < r /\ i >= r - AuditRows /\ i \in Nat
          BY <2>7, <5>1
        <5>3. i <= b
          BY <3>1, <5>2
        <5>4. QED
          BY <1>1, <2>1, <3>2, <3>3, <5>2, <5>3
      <4>2. link[r] = 0
        BY <2>3, <2>5, <4>1, LastChainedFacts
      <4>3. QED
        BY <2>9, <3>1, <3>3, <4>2
    <3>4. CASE ~(b < r - AuditRows)
      <4>1. b \in AuditTail(older)
        BY <1>1, <2>1, <2>7, <3>2, <3>4
      <4>2. /\ \E i \in AuditTail(older) : link[r] = older[i]
            /\ link[r] \in Chained /\ b <= link[r]
        <5>1. \E i \in AuditTail(older) : older[i] \in Chained
          BY <3>2, <4>1
        <5>2. /\ \E i \in AuditTail(older) : LastChained(older) = older[i]
              /\ LastChained(older) \in Chained
              /\ \A i \in AuditTail(older) :
                    older[i] \in Chained => older[i] <= LastChained(older)
          BY <2>3, <5>1, LastChainedFacts
        <5>3. QED
          BY <2>5, <3>2, <4>1, <5>2
      <4>3. link[r] \in DOMAIN link /\ link[r] < r /\ link[r] \in Nat
        BY <2>3, <2>7, <4>2, LastChainedFacts
      <4>4. link[r] = b
        BY <3>1, <3>2, <4>2, <4>3
      <4>5. QED
        BY <2>9, <3>1, <4>4
    <3>5. QED
      BY <3>3, <3>4
  <2>10. QED
    BY <2>8, <2>9
<1>3. LinkInv
  BY <1>1, <1>2 DEF LinkInv, ChainUnbroken
<1>4. HeadInv
  <2>1. Base = 0
    BY <1>1 DEF Base, Size
  <2>2. QED
    BY <1>1, <2>1 DEF HeadInv
<1>5. SparedInv
  <2>1. claim = None /\ \A c \in Compactor : job[c].claim = None
    BY DEF NoJob
  <2>2. \A i \in DOMAIN segments : Spared(segments[i].rows)
    <3>1. CASE segments = <<>>
      BY <3>1
    <3>2. CASE segments # <<>>
      <4>1. DOMAIN segments = {1} /\ segments[1].rows = <<1>>
        BY <3>2
      <4>2. 1 \in Chained => \E r \in 2..FirstRows : r \in Chained
        BY <3>2
      <4>3. 1 \in Chained => \E q \in DOMAIN link : q > 1
        BY <1>1, <4>2
      <4>4. QED
        BY <4>1, <4>3 DEF Spared
    <3>3. QED
      BY <3>1, <3>2
  <2>3. QED
    BY <2>1, <2>2 DEF SparedInv
<1>6. QED
  BY <1>3, <1>4, <1>5 DEF ChainInv

-----------------------------------------------------------------------------
(* Only AddRow links; only AddRow, Clean and Rename move rows.             *)

LEMMA LinkStays ==
  ASSUME [Next]_vars, ~AddRow
  PROVE  UNCHANGED <<appended, link>>
<1> USE DEF log, Locked, Reading
<1>1. CASE Clean
  BY <1>1 DEF Clean, Truncate
<1>2. ASSUME NEW c \in Compactor, CompactStep(c)
      PROVE  UNCHANGED <<appended, link>>
  BY <1>2 DEF CompactStep, ReadManifest, ReadClaim, Prepare, Enter, Publish, LinkSegment,
     StoreSegment, WriteCursor, Rename, Complete, Unclaim, Leave
<1>3. ASSUME NEW c \in Compactor, Begin(c) \/ Kill(c) \/ Revoke(c)
      PROVE  UNCHANGED <<appended, link>>
  BY <1>3 DEF Begin, Kill, Revoke
<1>4. ASSUME NEW s \in Syncer, SyncBegin(s) \/ SyncStep(s) \/ CheckpointTorn(s)
      PROVE  UNCHANGED <<appended, link>>
  BY <1>4 DEF SyncBegin, SyncStep, Capture, ReadPage, UploadAnswered, UploadFails, Checkpoint,
     CheckpointTorn, SyncReads
<1>5. CASE UNCHANGED vars
  BY <1>5 DEF vars
<1>6. QED
  BY <1>1, <1>2, <1>3, <1>4, <1>5 DEF Next

LEMMA RowsStay ==
  ASSUME [Next]_vars, ~AddRow, ~Clean, \A c \in Compactor : ~Rename(c)
  PROVE  UNCHANGED <<live, dropped>>
<1> USE DEF log, server, sync, Locked, Reading
<1>1. ASSUME NEW c \in Compactor, CompactStep(c)
      PROVE  UNCHANGED <<live, dropped>>
  BY <1>1 DEF CompactStep, ReadManifest, ReadClaim, Prepare, Enter, Publish, LinkSegment,
     StoreSegment, WriteCursor, Complete, Unclaim, Leave
<1>2. ASSUME NEW c \in Compactor, Begin(c) \/ Kill(c) \/ Revoke(c)
      PROVE  UNCHANGED <<live, dropped>>
  BY <1>2 DEF Begin, Kill, Revoke
<1>3. ASSUME NEW s \in Syncer, SyncBegin(s) \/ SyncStep(s) \/ CheckpointTorn(s)
      PROVE  UNCHANGED <<live, dropped>>
  BY <1>3 DEF SyncBegin, SyncStep, Capture, ReadPage, UploadAnswered, UploadFails, Checkpoint,
     CheckpointTorn, SyncReads
<1>4. CASE UNCHANGED vars
  BY <1>4 DEF vars
<1>5. QED
  BY <1>1, <1>2, <1>3, <1>4 DEF Next

\* The new row links to the newest chained row of the tail, which is the newest of all,
\* unless clean has discarded that one or it lies further back.
LEMMA AddRowLinks ==
  ASSUME IInv, TypeInv', ChainInv, AddRow
  PROVE  LinkInv' /\ HeadInv' /\ DOMAIN link \subseteq DOMAIN link'
<1>1. PICK r : r = appended + 1
  OBVIOUS
<1>2. /\ r \in Nat /\ r > appended /\ appended \in Nat /\ appended' = r
      /\ dropped' = dropped /\ Size \in Nat /\ Base \in Nat /\ appended = Base + Size
      /\ live.rows \in Seq(1..MaxRows) /\ DOMAIN live.rows = 1..Size
      /\ \A i \in 1..Size : live.rows[i] = Base + i
      /\ link' = IF r \in Chained
                 THEN [q \in DOMAIN link \cup {r} |->
                         IF q = r THEN LastChained(live.rows) ELSE link[q]]
                 ELSE link
  <2>1. /\ live.rows \in Seq(1..MaxRows) /\ appended \in Nat
        /\ \A i \in 1..Size : live.rows[i] = Base + i
    BY DEF IInv, TypeInv, TypeOK, WorldInv, LogInv
  <2>2. /\ DOMAIN live.rows = 1..Size /\ Size \in Nat /\ Base \in Nat
        /\ appended = Base + Size
    BY PiecesFacts
  <2>3. QED
    BY <1>1, <2>1, <2>2 DEF AddRow, server
<1>3. DOMAIN link = 1..appended \cap Chained /\ ChainUnbroken
  BY DEF ChainInv, LinkInv
<1>4. /\ DOMAIN link' = 1..r \cap Chained
      /\ \A q \in DOMAIN link : q < r /\ q \in DOMAIN link' /\ link'[q] = link[q]
      /\ \A q \in DOMAIN link' : q = r \/ q \in DOMAIN link
  BY <1>1, <1>2, <1>3
<1>5. Base' = Base
  <2>1. Size' = Size + 1
    <3>1. live'.rows = Append(live.rows, r)
      BY <1>1 DEF AddRow, IInv, TypeInv, TypeOK
    <3>2. QED
      BY <1>2, <3>1, AppendProperties DEF Size
  <2>2. QED
    BY <1>1, <1>2, <2>1 DEF Base
<1>6. ASSUME r \in Chained
      PROVE  IF \A q \in DOMAIN link' : r <= q THEN link'[r] = 0
             ELSE \E before \in DOMAIN link' :
                    /\ before < r
                    /\ \A q \in DOMAIN link' : q < r => q <= before
                    /\ \/ link'[r] = before
                       \/ link'[r] = 0 /\ (before \in dropped' \/ before < r - AuditRows)
  <2>1. link'[r] = LastChained(live.rows)
    BY <1>2, <1>6
  <2>2. /\ AuditTail(live.rows) \subseteq DOMAIN live.rows /\ AuditRows \in Nat
        /\ \A i \in DOMAIN live.rows :
             /\ live.rows[i] \in Chained => live.rows[i] \in DOMAIN link
             /\ i \in AuditTail(live.rows) <=> live.rows[i] >= r - AuditRows
             /\ live.rows[i] \in Nat /\ live.rows[i] = Base + i
    <3>1. \A i : i \in AuditTail(live.rows) <=> i \in 1..Size /\ i > Size - AuditRows
      BY <1>2 DEF AuditTail, Size
    <3>2. AuditRows \in Nat /\ r = Base + Size + 1
      BY <1>1, <1>2, BoundsAssumption
    <3>3. \A i \in 1..Size : /\ i > Size - AuditRows <=> Base + i >= r - AuditRows
                             /\ Base + i \in Nat
                             /\ Base + i \in Chained => Base + i \in DOMAIN link
      <4>1. \A i \in 1..Size : Base + i \in 1..appended
        BY <1>2
      <4>2. QED
        BY <1>2, <1>3, <3>2, <4>1
    <3>4. QED
      BY <1>2, <3>1, <3>2, <3>3
  <2>3. CASE DOMAIN link = {}
    <3>1. link'[r] = 0
      BY <1>2, <2>1, <2>2, <2>3, LastChainedFacts
    <3>2. \A q \in DOMAIN link' : r <= q
      BY <1>2, <1>4, <2>3
    <3>3. QED
      BY <3>1, <3>2
  <2>4. CASE DOMAIN link # {}
    <3>1. PICK b \in DOMAIN link : \A q \in DOMAIN link : q <= b
      <4>1. DOMAIN link \in SUBSET (1..appended)
        BY <1>3
      <4>2. QED
        BY <1>2, <2>4, <4>1, Largest
    <3>2. /\ b \in DOMAIN link' /\ b < r /\ ~(r <= b)
          /\ \A q \in DOMAIN link' : q < r => q <= b
      BY <1>2, <1>3, <1>4, <3>1
    <3>3. CASE b > Base
      <4>1. b - Base \in DOMAIN live.rows /\ live.rows[b - Base] = b /\ b \in Chained
        BY <1>2, <1>3, <3>3
      <4>2. CASE b >= r - AuditRows
        <5>1. b - Base \in AuditTail(live.rows)
          BY <2>2, <4>1, <4>2
        <5>2. /\ \E i \in AuditTail(live.rows) : link'[r] = live.rows[i]
              /\ link'[r] \in Chained /\ b <= link'[r]
          BY <1>2, <2>1, <4>1, <5>1, LastChainedFacts
        <5>3. link'[r] \in DOMAIN link /\ link'[r] <= b
          BY <2>2, <3>1, <5>2
        <5>4. link'[r] \in Nat /\ b \in Nat
          BY <1>3, <5>3
        <5>5. QED
          BY <3>2, <5>2, <5>3, <5>4
      <4>3. CASE ~(b >= r - AuditRows)
        <5>1. b < r - AuditRows /\ b \in Nat
          BY <1>1, <1>2, <1>3, <2>2, <4>3
        <5>2. ~ \E i \in AuditTail(live.rows) : live.rows[i] \in Chained
          BY <1>1, <1>2, <2>2, <3>1, <5>1
        <5>3. link'[r] = 0
          BY <1>2, <2>1, <5>2, LastChainedFacts
        <5>4. QED
          BY <3>2, <5>1, <5>3
      <4>4. QED
        BY <4>2, <4>3
    <3>4. CASE ~(b > Base)
      <4>1. b \in dropped
        BY <3>1, <3>4 DEF ChainInv, HeadInv
      <4>2. ~ \E i \in DOMAIN live.rows : live.rows[i] \in Chained
        BY <1>2, <1>3, <2>2, <3>1, <3>4
      <4>3. link'[r] = 0
        BY <1>2, <2>1, <2>2, <4>2, LastChainedFacts
      <4>4. QED
        BY <1>2, <3>2, <4>1, <4>3
    <3>5. QED
      BY <3>3, <3>4
  <2>5. QED
    BY <2>3, <2>4
<1>7. ASSUME NEW p \in DOMAIN link
      PROVE  IF \A q \in DOMAIN link' : p <= q THEN link'[p] = 0
             ELSE \E before \in DOMAIN link' :
                    /\ before < p
                    /\ \A q \in DOMAIN link' : q < p => q <= before
                    /\ \/ link'[p] = before
                       \/ link'[p] = 0 /\ (before \in dropped' \/ before < p - AuditRows)
  <2>1. p \in Nat /\ p < r /\ p <= r /\ ~(r < p) /\ link'[p] = link[p]
    BY <1>2, <1>3, <1>4
  <2>2. CASE \A q \in DOMAIN link : p <= q
    <3>1. link[p] = 0
      BY <1>3, <2>2 DEF ChainUnbroken
    <3>2. \A q \in DOMAIN link' : p <= q
      BY <1>4, <2>1, <2>2
    <3>3. QED
      BY <2>1, <3>1, <3>2
  <2>3. CASE ~ \A q \in DOMAIN link : p <= q
    <3>1. PICK before \in DOMAIN link :
            /\ before < p
            /\ \A q \in DOMAIN link : q < p => q <= before
            /\ \/ link[p] = before
               \/ link[p] = 0 /\ (before \in dropped \/ before < p - AuditRows)
      BY <1>3, <2>3 DEF ChainUnbroken
    <3>2. /\ before \in DOMAIN link' /\ \A q \in DOMAIN link' : q < p => q <= before
          /\ ~ \A q \in DOMAIN link' : p <= q
      BY <1>4, <2>1, <2>3, <3>1
    <3>3. QED
      BY <1>2, <2>1, <3>1, <3>2
  <2>4. QED
    BY <2>2, <2>3
<1>8. LinkInv'
  BY <1>2, <1>4, <1>6, <1>7 DEF LinkInv, ChainUnbroken
<1>9. HeadInv'
  <2> SUFFICES ASSUME NEW p \in DOMAIN link', \A q \in DOMAIN link' : q <= p
               PROVE  p > Base \/ p \in dropped
    BY <1>2, <1>5 DEF HeadInv
  <2>1. CASE p = r
    BY <1>2, <2>1
  <2>2. CASE p # r
    <3>1. p \in DOMAIN link /\ \A q \in DOMAIN link : q <= p
      BY <1>4, <2>2
    <3>2. QED
      BY <3>1 DEF ChainInv, HeadInv
  <2>3. QED
    BY <2>1, <2>2
<1>10. QED
  BY <1>4, <1>8, <1>9

\* A step that appends nothing: plans may change, but not what they must spare.
LEMMA SparedStep ==
  ASSUME IInv, TypeInv', ChainInv, [Next]_vars
  PROVE  SparedInv'
<1> USE DEF log, archive, compact, lock, sync, server, Reading, Locked
<1>1. SparedInv /\ \A rows : Spared(rows) => Spared(rows)'
  <2>1. DOMAIN link \subseteq DOMAIN link'
    BY AddRowLinks, LinkStays
  <2>2. QED
    BY <2>1 DEF ChainInv, Spared
<1>2. ASSUME NEW c \in Compactor, NEW state, NEW j, Become(c, state, j),
             j.claim # None => Spared(j.claim.rows), UNCHANGED <<segments, claim>>
      PROVE  SparedInv'
  <2>1. \A d \in Compactor : job'[d] = IF d = c THEN j ELSE job[d]
    BY <1>2 DEF Become, IInv, TypeInv, TypeOK
  <2>2. QED
    BY <1>1, <1>2, <2>1 DEF SparedInv
<1>3. ASSUME NEW c \in Compactor
      PROVE  /\ job[c].claim # None => Spared(job[c].claim.rows)
             /\ job[c] \in Jobs /\ NoJob.claim = None
  BY <1>1 DEF SparedInv, NoJob, IInv, TypeInv, TypeOK
<1>4. ASSUME NEW c \in Compactor, End(c), UNCHANGED <<segments, claim>>
      PROVE  SparedInv'
  BY <1>2, <1>3, <1>4 DEF End
<1>5. ASSUME NEW c \in Compactor, NEW state, Stay(c, state), UNCHANGED <<segments, claim>>
      PROVE  SparedInv'
  BY <1>2, <1>3, <1>5 DEF Stay
<1>6. ASSUME NEW c \in Compactor, Begin(c) PROVE SparedInv'
  <2>1. PICK kind, n, m, k : Become(c, "manifest", [NoJob EXCEPT !.kind = kind,
            !.source = n, !.size = m, !.cursor = k])
    BY <1>6 DEF Begin
  <2>2. [NoJob EXCEPT !.kind = kind, !.source = n, !.size = m, !.cursor = k].claim = None
    BY DEF NoJob
  <2>3. QED
    BY <1>2, <1>6, <2>1, <2>2 DEF Begin
<1>7. ASSUME NEW c \in Compactor, ReadManifest(c) PROVE SparedInv'
  <2>1. [job[c] EXCEPT !.pending = PendingSegment].claim = job[c].claim
    BY <1>3 DEF Jobs
  <2>2. QED
    BY <1>2, <1>3, <1>7, <2>1 DEF ReadManifest
<1>8. ASSUME NEW c \in Compactor, ReadClaim(c) PROVE SparedInv'
  <2>1. CASE Become(c, "prepare", job[c])
    BY <1>2, <1>3, <1>8, <2>1 DEF ReadClaim
  <2>2. CASE ResumeOld(c, PendingSegment)
    <3>1. PICK s : s = PendingSegment
      OBVIOUS
    <3>2. PICK k : k = [seq |-> s.seq, rows |-> s.rows, source |-> live.ino,
                        replacement |-> 0, cursor |-> s.pending.cursor]
      OBVIOUS
    <3>3. PICK j : j = [NoJob EXCEPT !.kind = "old", !.source = s.pending.source, !.claim = k]
      OBVIOUS
    <3>4. CASE s # None /\ Become(c, "prepare", j)
      <4>1. \E i \in DOMAIN segments : s = segments[i]
        BY <3>1, <3>4, PendingSegmentFacts DEF IInv, TypeInv, TypeOK
      <4>2. j.claim = k /\ k.rows = s.rows
        BY <3>2, <3>3 DEF NoJob
      <4>3. QED
        BY <1>1, <1>2, <1>8, <3>4, <4>1, <4>2 DEF SparedInv, ReadClaim
    <3>5. QED
      BY <1>4, <1>8, <2>2, <3>1, <3>2, <3>3, <3>4 DEF ResumeOld, ReadClaim
  <2>3. CASE claim # None /\ Resume(c, claim)
    <3>1. \/ End(c)
          \/ \E kind, state, n : Become(c, state, [NoJob EXCEPT !.kind = kind, !.source = n,
                                                             !.claim = claim])
      BY <2>3 DEF Resume
    <3>2. \A kind, n : [NoJob EXCEPT !.kind = kind, !.source = n, !.claim = claim].claim = claim
      BY DEF NoJob
    <3>3. Spared(claim.rows)
      BY <1>1, <2>3 DEF SparedInv
    <3>4. UNCHANGED <<segments, claim>>
      BY <1>8 DEF ReadClaim
    <3>5. QED
      BY <1>2, <1>4, <3>1, <3>2, <3>3, <3>4
  <2>4. CASE End(c)
    BY <1>4, <1>8, <2>4 DEF ReadClaim
  <2>5. \/ Become(c, "prepare", job[c])
        \/ ResumeOld(c, PendingSegment)
        \/ claim # None /\ Resume(c, claim)
        \/ End(c)
    BY <1>8, Zenon DEF ReadClaim
  <2>6. QED
    BY <2>1, <2>2, <2>3, <2>4, <2>5
<1>9. ASSUME NEW c \in Compactor, Prepare(c) PROVE SparedInv'
  <2>1. PICK j : j = job[c]
    OBVIOUS
  <2>2. PICK cut : cut = PlanCut(j)
    OBVIOUS
  <2>3. PICK new : new = [seq |-> 0, rows |-> SubSeq(live.rows, 1, cut), source |-> live.ino,
                          replacement |-> 0, cursor |-> Lowered(j.cursor, cut)]
    OBVIOUS
  <2>4. \/ End(c)
        \/ /\ live.ino = j.source /\ j.kind \in Rotations /\ cut > 0
           /\ \E ino, n, v : Become(c, "lock", [j EXCEPT !.claim = [new EXCEPT !.replacement = ino],
                                                        !.copied = n, !.verified = v])
        \/ /\ j.kind \notin Rotations
           /\ \E ino, n, v : Become(c, "lock", [j EXCEPT !.claim = [j.claim EXCEPT !.replacement = ino],
                                                        !.copied = n, !.verified = v])
    BY <1>9, <2>1, <2>2, <2>3 DEF Prepare, Rotates, Rotations
  <2>5. UNCHANGED <<segments, claim>>
    BY <1>9 DEF Prepare
  <2>6. ASSUME NEW k, NEW ino, NEW n, NEW v, DOMAIN k = DOMAIN new, Spared(k.rows),
               Become(c, "lock", [j EXCEPT !.claim = [k EXCEPT !.replacement = ino],
                                           !.copied = n, !.verified = v])
        PROVE  SparedInv'
    <3>1. [k EXCEPT !.replacement = ino].rows = k.rows
      BY <2>3, <2>6
    <3>2. [j EXCEPT !.claim = [k EXCEPT !.replacement = ino], !.copied = n, !.verified = v].claim
            = [k EXCEPT !.replacement = ino]
      BY <1>3, <2>1 DEF Jobs
    <3>3. QED
      BY <1>2, <2>5, <2>6, <3>1, <3>2
  <2>7. ASSUME live.ino = j.source, cut > 0 PROVE Spared(new.rows)
    <3>1. /\ j \in Jobs /\ j.size \in Nat /\ j.size <= Size /\ cut \in Int /\ cut <= j.size
          /\ live.rows \in Seq(1..MaxRows) /\ Size = Len(live.rows) /\ Size \in Nat
      <4>1. j \in Jobs /\ j.size \in Nat /\ j.size <= Size
        BY <1>3, <2>1, <2>7 DEF IInv, CommandInv, SourceInv, Jobs
      <4>2. cut \in Int /\ cut <= j.size
        BY <2>2, <4>1, CutBound
      <4>3. live.rows \in Seq(1..MaxRows) /\ Size = Len(live.rows) /\ Size \in Nat
        BY DEF IInv, TypeInv, TypeOK, Size
      <4>4. QED
        BY <4>1, <4>2, <4>3
    <3>2. DOMAIN new.rows = 1..cut /\ \A m \in 1..cut : new.rows[m] = live.rows[m]
      <4>1. cut <= Len(live.rows)
        BY <3>1
      <4>2. PICK t : t = SubSeq(live.rows, 1, cut)
        OBVIOUS
      <4>3. t \in Seq(1..MaxRows) /\ Len(t) = cut /\ \A m \in 1..Len(t) : t[m] = live.rows[m]
        BY <2>7, <3>1, <4>1, <4>2, PrefixFacts
      <4>4. DOMAIN t = 1..cut
        BY <4>3, LenProperties
      <4>5. QED
        BY <2>3, <4>2, <4>3, <4>4
    <3>3. ASSUME NEW m \in 1..cut, live.rows[m] \in Chained
          PROVE  \E q \in DOMAIN link : q > live.rows[m]
      <4>1. PICK h \in 1..j.size : h > m /\ live.rows[h] \in Chained
        BY <2>2, <3>1, <3>3, CutSpares
      <4>2. /\ live.rows[h] = Base + h /\ live.rows[m] = Base + m
            /\ Base \in Nat /\ appended = Base + Size /\ h <= Size
        <5>1. m \in 1..Size /\ h \in 1..Size /\ h <= Size
          BY <3>1, <3>3, <4>1
        <5>2. \A i \in 1..Size : live.rows[i] = Base + i
          BY PiecesFacts DEF IInv, WorldInv, LogInv
        <5>3. Base \in Nat /\ appended = Base + Size
          BY PiecesFacts
        <5>4. QED
          BY <5>1, <5>2, <5>3
      <4>3. live.rows[h] \in DOMAIN link
        BY <3>1, <4>1, <4>2 DEF ChainInv, LinkInv
      <4>4. QED
        BY <3>1, <4>1, <4>2, <4>3
    <3>4. QED
      BY <3>2, <3>3 DEF Spared
  <2>8. CASE End(c)
    BY <1>4, <2>5, <2>8
  <2>9. CASE /\ live.ino = j.source /\ j.kind \in Rotations /\ cut > 0
             /\ \E ino, n, v : Become(c, "lock", [j EXCEPT !.claim = [new EXCEPT !.replacement = ino],
                                                          !.copied = n, !.verified = v])
    BY <2>6, <2>7, <2>9
  <2>10. CASE /\ j.kind \notin Rotations
              /\ \E ino, n, v : Become(c, "lock", [j EXCEPT !.claim = [j.claim EXCEPT !.replacement = ino],
                                                           !.copied = n, !.verified = v])
    <3>1. j.claim # None /\ j.claim \in Claims
      BY <1>3, <1>9, <2>1, <2>10 DEF Prepare, At, IInv, TypeInv, KindInv, Fits, Jobs
    <3>2. DOMAIN j.claim = DOMAIN new
      BY <2>3, <3>1 DEF Claims
    <3>3. QED
      BY <1>3, <2>1, <2>6, <2>10, <3>1, <3>2
  <2>11. QED
    BY <2>4, <2>8, <2>9, <2>10
<1>10. ASSUME NEW c \in Compactor,
              Enter(c) \/ LinkSegment(c) \/ WriteCursor(c) \/ Rename(c)
       PROVE  SparedInv'
  <2>1. PICK state : Stay(c, state) /\ UNCHANGED <<segments, claim>>
    BY <1>10 DEF Enter, LinkSegment, WriteCursor, Rename
  <2>2. QED
    BY <1>5, <2>1
<1>11. ASSUME NEW c \in Compactor, NEW state, NEW j, Become(c, state, j),
              j.claim # None => Spared(j.claim.rows),
              claim' # None => Spared(claim'.rows),
              \A i \in DOMAIN segments' : Spared(segments'[i].rows)
       PROVE  SparedInv'
  <2>1. \A d \in Compactor : job'[d] = IF d = c THEN j ELSE job[d]
    BY <1>11 DEF Become, IInv, TypeInv, TypeOK
  <2>2. QED
    BY <1>1, <1>11, <2>1 DEF SparedInv
<1>12. ASSUME NEW seq, NEW drop \in Drops \cup {None}, segments' = WithPending(seq, drop)
       PROVE  \A i \in DOMAIN segments' : Spared(segments'[i].rows)
  BY <1>1, <1>12, WithPendingFacts DEF SparedInv, IInv, TypeInv, TypeOK
<1>13. ASSUME NEW c \in Compactor, job[c].claim # None
       PROVE  job[c].claim \in Claims /\ Drop(job[c].claim) \in Drops
  BY <1>3, <1>13 DEF Jobs, Drop, Drops, Claims
<1>14. ASSUME NEW c \in Compactor, Publish(c) PROVE SparedInv'
  <2>1. job[c].claim # None
    BY <1>14 DEF Publish, At, IInv, TypeInv, KindInv, Fits, Copied, Committed
  <2>2. PICK k : k = [job[c].claim EXCEPT !.seq = Len(gz) + 1]
    OBVIOUS
  <2>3. PICK j : j = [job[c] EXCEPT !.claim = k]
    OBVIOUS
  <2>4. k.rows = job[c].claim.rows /\ j.claim = k
    BY <1>3, <1>13, <2>1, <2>2, <2>3 DEF Jobs, Claims
  <2>5. \/ \E state : Stay(c, state) /\ UNCHANGED <<segments, claim>>
        \/ claim' = k /\ Become(c, "link", j) /\ UNCHANGED segments
        \/ claim' = job[c].claim /\ Stay(c, "link") /\ UNCHANGED segments
        \/ /\ segments' = WithPending(job[c].claim.seq, Drop(job[c].claim))
           /\ Stay(c, "cursor") /\ UNCHANGED claim
    BY <1>14, <2>2, <2>3 DEF Publish
  <2>6. CASE \E state : Stay(c, state) /\ UNCHANGED <<segments, claim>>
    BY <1>5, <2>6
  <2>7. CASE claim' = k /\ Become(c, "link", j) /\ UNCHANGED segments
    BY <1>1, <1>3, <1>11, <2>1, <2>4, <2>7 DEF SparedInv
  <2>8. CASE claim' = job[c].claim /\ Stay(c, "link") /\ UNCHANGED segments
    BY <1>1, <1>3, <1>11, <2>1, <2>8 DEF SparedInv, Stay
  <2>9. CASE /\ segments' = WithPending(job[c].claim.seq, Drop(job[c].claim))
             /\ Stay(c, "cursor") /\ UNCHANGED claim
    BY <1>1, <1>3, <1>11, <1>12, <1>13, <2>1, <2>9 DEF SparedInv, Stay
  <2>10. QED
    BY <2>5, <2>6, <2>7, <2>8, <2>9
<1>15. ASSUME NEW c \in Compactor, StoreSegment(c) PROVE SparedInv'
  <2>1. job[c].claim # None
    BY <1>15 DEF StoreSegment, At, IInv, TypeInv, KindInv, Fits, Copied, Committed
  <2>2. PICK k : k = job[c].claim
    OBVIOUS
  <2>3. PICK entry : entry = [seq |-> k.seq, rows |-> k.rows, pending |-> Drop(k)]
    OBVIOUS
  <2>4. entry.rows = k.rows /\ entry \in Segments /\ Spared(k.rows)
    BY <1>3, <1>13, <2>1, <2>2, <2>3 DEF Segments, Claims
  <2>5. /\ \E state : Stay(c, state)
        /\ segments' \in {segments, Append(segments, entry), WithPending(k.seq, Drop(k))}
        /\ UNCHANGED claim
    BY <1>15, <2>2, <2>3 DEF StoreSegment
  <2>6. \A i \in DOMAIN segments' : Spared(segments'[i].rows)
    <3>1. CASE segments' = segments
      BY <1>1, <3>1 DEF SparedInv
    <3>2. CASE segments' = Append(segments, entry)
      <4>1. \A i \in DOMAIN segments' : segments'[i] = entry \/
              (i \in DOMAIN segments /\ segments'[i] = segments[i])
        <5>1. segments \in Seq(Segments)
          BY DEF IInv, TypeInv, TypeOK
        <5>2. QED
          BY <2>4, <3>2, <5>1, AppendProperties, LenProperties
      <4>2. QED
        BY <1>1, <2>4, <4>1 DEF SparedInv
    <3>3. CASE segments' = WithPending(k.seq, Drop(k))
      BY <1>12, <1>13, <2>1, <2>2, <3>3
    <3>4. QED
      BY <2>5, <3>1, <3>2, <3>3
  <2>7. QED
    BY <1>1, <1>3, <1>11, <2>5, <2>6 DEF SparedInv, Stay
<1>16. ASSUME NEW c \in Compactor, Complete(c) PROVE SparedInv'
  <2>1. /\ \E state : Stay(c, state)
        /\ segments' = WithPending(job[c].claim.seq, None) /\ UNCHANGED claim
    BY <1>16 DEF Complete
  <2>2. QED
    BY <1>1, <1>3, <1>11, <1>12, <2>1 DEF SparedInv, Stay
<1>17. ASSUME NEW c \in Compactor, Unclaim(c) PROVE SparedInv'
  BY <1>1, <1>3, <1>11, <1>17 DEF SparedInv, Stay, Unclaim
<1>18. ASSUME NEW c \in Compactor, Leave(c) \/ Kill(c) PROVE SparedInv'
  BY <1>4, <1>18 DEF Leave, Kill
<1>19. ASSUME UNCHANGED <<segments, claim, job>> PROVE SparedInv'
  BY <1>1, <1>19 DEF SparedInv
<1>20. CASE AddRow \/ Clean \/ UNCHANGED vars
  BY <1>19, <1>20 DEF AddRow, Clean, Truncate, vars
<1>21. ASSUME NEW c \in Compactor, Revoke(c) PROVE SparedInv'
  BY <1>19, <1>21 DEF Revoke
<1>22. ASSUME NEW s \in Syncer, SyncBegin(s) \/ SyncStep(s) \/ CheckpointTorn(s)
       PROVE  SparedInv'
  BY <1>19, <1>22 DEF SyncBegin, SyncStep, Capture, ReadPage, UploadAnswered, UploadFails,
     Checkpoint, CheckpointTorn, SyncReads
<1>23. QED
  BY <1>6, <1>7, <1>8, <1>9, <1>10, <1>14, <1>15, <1>16, <1>17, <1>18, <1>20, <1>21, <1>22
  DEF Next, CompactStep

-----------------------------------------------------------------------------
\* What leaves the live file spares the newest chained row, or is discarded by clean.
LEMMA HeadStep ==
  ASSUME IInv, TypeInv', ChainInv, [Next]_vars, ~AddRow
  PROVE  HeadInv'
<1>1. UNCHANGED <<appended, link>> /\ DOMAIN link = 1..appended \cap Chained /\ appended \in Nat
  BY LinkStays DEF ChainInv, LinkInv, IInv, TypeInv, TypeOK
<1>2. SUFFICES ASSUME NEW r \in DOMAIN link, \A q \in DOMAIN link : q <= r
               PROVE  r > Base' \/ r \in dropped'
  BY <1>1 DEF HeadInv
<1>3. (r > Base \/ r \in dropped) /\ r \in Nat /\ r \in Chained /\ r <= appended
  BY <1>1, <1>2 DEF ChainInv, HeadInv
<1>4. CASE Clean
  <2>1. Base \in Nat /\ dropped = {}
    BY <1>4, PiecesFacts DEF Clean
  <2>2. PICK cut \in Nat : /\ Base' = Base + cut
                           /\ \A q : q \in dropped' <=> q \in (Base + 1)..(Base + cut)
    BY <1>4, CleanFacts
  <2>3. QED
    BY <1>3, <2>1, <2>2
<1>5. ASSUME NEW c \in Compactor, Rename(c) PROVE r > Base' \/ r \in dropped'
  <2>1. PICK k, n : k = job[c].claim /\ n = Len(k.rows)
    OBVIOUS
  <2>2. /\ k # None /\ n \in Nat /\ DOMAIN k.rows = 1..n /\ Base' = Base + n /\ Base \in Nat
        /\ \A m \in 1..n : k.rows[m] = Base + m
    BY <1>5, <2>1, RenameFacts, PiecesFacts
  <2>3. Spared(k.rows)
    BY <2>1, <2>2 DEF ChainInv, SparedInv
  <2>4. CASE r \in (Base + 1)..(Base + n)
    <3>1. r - Base \in DOMAIN k.rows /\ k.rows[r - Base] = r
      BY <1>3, <2>2, <2>4
    <3>2. PICK q \in DOMAIN link : q > r
      BY <1>3, <2>3, <3>1 DEF Spared
    <3>3. q <= r /\ q \in Nat
      BY <1>1, <1>2
    <3>4. QED
      BY <1>3, <3>2, <3>3
  <2>5. CASE r \notin (Base + 1)..(Base + n)
    <3>1. dropped' = dropped
      BY <1>5 DEF Rename, Locked
    <3>2. QED
      BY <1>3, <2>2, <2>5, <3>1
  <2>6. QED
    BY <2>4, <2>5
<1>6. CASE ~Clean /\ \A c \in Compactor : ~Rename(c)
  <2>1. UNCHANGED <<live, dropped>>
    BY <1>6, RowsStay
  <2>2. QED
    BY <1>1, <1>3, <2>1 DEF Base, Size
<1>7. QED
  BY <1>4, <1>5, <1>6

LEMMA LinkStep ==
  ASSUME IInv, IInv', ChainInv, [Next]_vars, ~AddRow
  PROVE  LinkInv'
<1>1. UNCHANGED <<appended, link>>
  BY LinkStays
<1>2. ChainUnbroken /\ dropped \subseteq dropped'
  <2>1. CASE Clean
    BY <2>1 DEF Clean, ChainInv, LinkInv
  <2>2. ASSUME NEW c \in Compactor, Rename(c) PROVE dropped' = dropped
    BY <2>2 DEF Rename, Locked
  <2>3. CASE ~Clean /\ \A c \in Compactor : ~Rename(c)
    <3>1. dropped' = dropped
      BY <2>3, RowsStay
    <3>2. QED
      BY <3>1 DEF ChainInv, LinkInv
  <2>4. QED
    BY <2>1, <2>2, <2>3 DEF ChainInv, LinkInv
<1>3. ChainUnbroken'
  BY <1>1, <1>2 DEF ChainUnbroken
<1>4. QED
  BY <1>1, <1>3 DEF LinkInv, ChainInv

LEMMA NextChain == IInv /\ ChainInv /\ [Next]_vars => ChainInv'
<1> SUFFICES ASSUME IInv, ChainInv, [Next]_vars PROVE ChainInv'
  OBVIOUS
<1>1. IInv' /\ TypeInv'
  BY NextIInv DEF IInv
<1>2. QED
  BY <1>1, AddRowLinks, SparedStep, HeadStep, LinkStep DEF ChainInv

\* The audit chain survives rotation (compact.ts:14): every chained row links to the one
\* before it or, when clean has discarded that one, to none, whatever compact commands
\* overlap, are killed and are resumed.
THEOREM ChainKept == Spec => []ChainUnbroken
<1>1. ChainInv => ChainUnbroken
  BY DEF ChainInv, LinkInv
<1>2. IInv /\ ChainInv /\ [Next]_vars => ChainInv'
  BY NextChain
<1>3. QED
  BY <1>1, <1>2, InitChain, Inductive, PTL DEF Spec

-----------------------------------------------------------------------------
(* The claim.                                                              *)

\* The command's live file is still the one.
Current(c) == job[c].source = live.ino

\* The claim on disk is one that this command has made, not one that it found.
Owns(c) ==
    Rotates(c) /\ pc[c] \in {"link", "store", "cursor", "rename", "complete", "unclaim"}

\* From here nothing but a kill keeps the command from putting its copy in place.
Committing(c) == Holds(c) /\ pc[c] \in {"link", "store", "cursor", "rename"}

Overtaken(c) == \E d \in Compactor \ {c} : Committing(d)

\* A command has replaced the claim and not yet the drop that goes with it.
Replacing == \E c \in Compactor : job[c].kind = "resume" /\ pc[c] \in {"link", "store"}

SameRotation(k, m) ==
    k.seq = m.seq /\ k.rows = m.rows /\ k.source = m.source /\ k.cursor = m.cursor

\* The pending drop belongs to the claim.
Belongs(s, k) ==
    /\ s.seq = k.seq /\ s.rows = k.rows
    /\ s.pending.source = k.source /\ s.pending.cursor = k.cursor

\* Only a kill leaves a claim to others.
AbandonedInv == claim # None => dead # {} \/ \E c \in Compactor : Owns(c)

NamedInv ==
    claim # None =>
        /\ live.ino \in {claim.source, claim.replacement}
        /\ claim.source # claim.replacement
        /\ \A i \in PendingAt :
             /\ Belongs(segments[i], claim)
             /\ segments[i].pending.replacement = claim.replacement \/ Replacing

\* No rotation is planned of a file that has a pending drop and no claim.
RotateInv(c) ==
    /\ Rotates(c) /\ Current(c) /\ claim = None
    /\ pc[c] \in {"prepare", "lock", "publish"} \/ (pc[c] = "claim" /\ job[c].pending = None)
    => PendingAt = {}

\* A claim that a command resumes is still the one on disk ..
ResumeInv(c) ==
    job[c].kind = "resume" /\ Current(c) /\ pc[c] \in {"prepare", "lock", "publish"} =>
        claim # None /\ SameRotation(job[c].claim, claim)

\* .. and if it had no segment file then it has none now.
UnlinkedInv(c) ==
    /\ pc[c] = "link" /\ Rotates(c) => job[c].claim.seq \notin DOMAIN gz
    /\ /\ job[c].kind = "resume" /\ Current(c) /\ ~job[c].verified
       /\ pc[c] \in {"lock", "publish", "link"}
       => job[c].claim.seq \notin DOMAIN gz \/ Overtaken(c)

\* A drop without a claim is not claimed by anybody else.
OldInv(c) ==
    job[c].kind = "old" /\ Current(c) /\ Cuts(c) =>
        /\ claim = None
        /\ \E i \in PendingAt : /\ segments[i].seq = job[c].claim.seq
                                /\ segments[i].pending.source = live.ino

\* A claim that a command is about to remove is the one that it has read.
FinishInv(c) ==
    /\ job[c].kind = "finish"
    /\ (pc[c] = "lock" /\ Current(c)) \/ pc[c] \in {"complete", "cursor", "unclaim"}
    => claim \in {None, job[c].claim} \/ Overtaken(c)

CompletedInv(c) ==
    pc[c] = "unclaim" \/ (pc[c] = "cursor" /\ job[c].kind = "finish") =>
        /\ job[c].claim.replacement = live.ino
        /\ \A i \in PendingAt : segments[i].seq # job[c].claim.seq

RecoverInv(c) ==
    /\ RotateInv(c) /\ ResumeInv(c) /\ UnlinkedInv(c)
    /\ OldInv(c) /\ FinishInv(c) /\ CompletedInv(c)

LoneInv == Overlap \/ \A c \in Compactor : pc[c] # "idle" => Alone(c)

KillInv == AbandonedInv /\ NamedInv /\ LoneInv /\ \A c \in Compactor : RecoverInv(c)

-----------------------------------------------------------------------------
LEMMA InitKill == Init => KillInv
  BY DEF Init, KillInv, AbandonedInv, NamedInv, LoneInv, RecoverInv, RotateInv, ResumeInv,
     UnlinkedInv, OldInv, FinishInv, CompletedInv, Cuts, Committed, L!Init

\* Two commands are never both at work under the lock.
LEMMA OneCommits ==
  ASSUME IInv, NEW c \in Compactor, pc[c] \in Critical
  PROVE  /\ ~Overtaken(c)
         /\ \A d \in Compactor \ {c} : pc[d] \notin Critical /\ ~Owns(d) /\ ~Committing(d)
         /\ Replacing => job[c].kind = "resume" /\ pc[c] \in {"link", "store"}
<1>1. \A d \in Compactor \ {c} : pc[d] \notin Critical
  BY HolderFacts
<1>2. \A d \in Compactor \ {c} : ~Owns(d) /\ ~Committing(d)
  BY <1>1 DEF Owns, Committing, Critical
<1>3. QED
  BY <1>1, <1>2 DEF Overtaken, Replacing, Critical

\* What is said of a command stays true while others leave the files alone.
LEMMA OtherStays ==
  ASSUME KillInv, NEW c \in Compactor, NEW d \in Compactor \ {c},
         UNCHANGED <<segments, gz, claim>>, live'.ino = live.ino,
         pc'[d] = pc[d], job'[d] = job[d],
         \A e \in Compactor \ {d} : Committing(e) => Committing(e)'
  PROVE  RecoverInv(d)'
<1>1. RecoverInv(d) /\ (Overtaken(d) => Overtaken(d)')
  BY DEF KillInv, Overtaken
<1>2. PendingAt' = PendingAt
  BY DEF PendingAt
<1>3. RotateInv(d)' /\ ResumeInv(d)' /\ UnlinkedInv(d)'
  BY <1>1, <1>2 DEF RecoverInv, RotateInv, ResumeInv, UnlinkedInv, Rotates, Current
<1>4. OldInv(d)' /\ FinishInv(d)' /\ CompletedInv(d)'
  BY <1>1, <1>2 DEF RecoverInv, OldInv, FinishInv, CompletedInv, Cuts, Current
<1>5. QED
  BY <1>3, <1>4 DEF RecoverInv

\* A step of a command that has no claim on disk.
LEMMA LookStep ==
  ASSUME IInv, KillInv, NEW c \in Compactor, NEW state \in States, NEW j \in Jobs,
         Become(c, state, j), UNCHANGED <<segments, gz, claim, dead>>, live'.ino = live.ino,
         pc[c] \notin {"link", "store", "cursor", "rename", "complete", "unclaim"},
         RecoverInv(c)', LoneInv'
  PROVE  KillInv'
<1>1. /\ pc'[c] = state /\ job'[c] = j
      /\ \A d \in Compactor \ {c} : pc'[d] = pc[d] /\ job'[d] = job[d]
  BY BecomeFacts DEF IInv
<1>2. \A d \in Compactor : /\ Owns(d) => Owns(d)'
                           /\ Committing(d) => Committing(d)'
  BY <1>1 DEF Owns, Committing, Holds, Rotates
<1>3. Replacing => Replacing'
  BY <1>1 DEF Replacing
<1>4. AbandonedInv'
  BY <1>2 DEF KillInv, AbandonedInv
<1>5. NamedInv'
  BY <1>3 DEF KillInv, NamedInv, PendingAt
<1>6. \A d \in Compactor \ {c} : RecoverInv(d)'
  BY <1>1, <1>2, OtherStays
<1>7. QED
  BY <1>4, <1>5, <1>6 DEF KillInv

\* Only one that is alone begins, unless they may overlap.
LEMMA LoneStep ==
  ASSUME IInv, LoneInv, [Next]_vars
  PROVE  LoneInv'
<1> USE DEF LoneInv, Alone
<1>1. pc \in [Compactor -> States]
  BY DEF IInv, TypeInv
<1>2. CASE pc' = pc
  BY <1>2
<1>3. ASSUME NEW c \in Compactor, NEW state, NEW j, Become(c, state, j),
             pc[c] # "idle" \/ Overlap \/ Alone(c)
      PROVE  LoneInv'
  BY <1>1, <1>3 DEF Become
<1>4. ASSUME NEW c \in Compactor, Begin(c) PROVE LoneInv'
  BY <1>3, <1>4 DEF Begin
<1>5. ASSUME NEW c \in Compactor, CompactStep(c) PROVE LoneInv'
  <2>1. pc[c] # "idle"
    BY <1>5 DEF CompactStep, ReadManifest, ReadClaim, Prepare, Enter, Publish, LinkSegment,
       StoreSegment, WriteCursor, Rename, Complete, Unclaim, Leave, At
  <2>2. \E state, j : Become(c, state, j)
    BY <1>5, Zenon DEF CompactStep, ReadManifest, ReadClaim, Resume, ResumeOld, Prepare, Enter,
       Publish, LinkSegment, StoreSegment, WriteCursor, Rename, Complete, Unclaim, Leave, Stay,
       End
  <2>3. QED
    BY <1>3, <2>1, <2>2
<1>6. ASSUME NEW c \in Compactor, Kill(c) PROVE LoneInv'
  BY <1>3, <1>6 DEF Kill, End
<1>7. CASE AddRow \/ Clean
  BY <1>2, <1>7 DEF AddRow, Clean, Truncate, compact
<1>8. ASSUME NEW c \in Compactor, Revoke(c) PROVE LoneInv'
  BY <1>2, <1>8 DEF Revoke, compact
<1>9. ASSUME NEW s \in Syncer, SyncBegin(s) \/ SyncStep(s) \/ CheckpointTorn(s) PROVE LoneInv'
  BY <1>2, <1>9 DEF SyncBegin, SyncStep, Capture, ReadPage, UploadAnswered, UploadFails,
     Checkpoint, CheckpointTorn, SyncReads, compact
<1>10. CASE UNCHANGED vars
  BY <1>2, <1>10 DEF vars, compact
<1>11. QED
  BY <1>4, <1>5, <1>6, <1>7, <1>8, <1>9, <1>10 DEF Next

-----------------------------------------------------------------------------
(* Steps before the claim.                                                 *)

\* A command that ends.
LEMMA EndKeeps ==
  ASSUME IInv, KillInv, LoneInv', NEW c \in Compactor, End(c),
         UNCHANGED <<segments, gz, claim, dead>>, live'.ino = live.ino,
         pc[c] \notin {"link", "store", "cursor", "rename", "complete", "unclaim"}
  PROVE  KillInv'
<1>1. "idle" \in States /\ NoJob \in Jobs /\ Become(c, "idle", NoJob)
  BY NoJobType DEF States, End
<1>2. pc'[c] = "idle" /\ job'[c] = NoJob
  BY <1>1, BecomeFacts DEF IInv
<1>3. RecoverInv(c)'
  BY <1>2 DEF RecoverInv, RotateInv, ResumeInv, UnlinkedInv, OldInv, FinishInv, CompletedInv,
     Cuts, Committed
<1>4. QED
  BY <1>1, <1>3, LookStep

LEMMA BeginKeeps ==
  ASSUME IInv, IInv', KillInv, LoneInv', NEW c \in Compactor, Begin(c) \/ ReadManifest(c)
  PROVE  KillInv'
<1>1. /\ UNCHANGED <<segments, gz, claim, dead>> /\ live'.ino = live.ino
      /\ pc[c] \in {"idle", "manifest"}
  BY DEF Begin, ReadManifest, At, Reading, log, archive, lock
<1>2. PICK state, j :
        /\ state \in {"manifest", "claim"}
        /\ Become(c, state, j)
        /\ state = "claim" => j.pending = PendingSegment
  <2>1. CASE Begin(c)
    BY <2>1 DEF Begin
  <2>2. CASE ReadManifest(c)
    <3>1. job[c] \in Jobs
      BY DEF IInv, TypeInv, TypeOK
    <3>2. [job[c] EXCEPT !.pending = PendingSegment].pending = PendingSegment
      BY <3>1 DEF Jobs
    <3>3. PICK k : k = [job[c] EXCEPT !.pending = PendingSegment]
      OBVIOUS
    <3>4. Become(c, "claim", k) /\ k.pending = PendingSegment
      BY <2>2, <3>2, <3>3 DEF ReadManifest
    <3>5. QED
      BY <3>4
  <2>3. QED
    BY <2>1, <2>2
<1>3. pc'[c] = state /\ job'[c] = j /\ j \in Jobs /\ state \in States
  BY <1>2 DEF Become, IInv, TypeInv, TypeOK, States
<1>4. state = "claim" /\ j.pending = None => PendingAt = {}
  <2>1. segments \in Seq(Segments) /\ \A i \in DOMAIN segments : segments[i] \in Segments
    BY DEF IInv, TypeInv, TypeOK
  <2>2. QED
    BY <1>2, <2>1, PendingSegmentFacts, RecordAssumption DEF PendingAt
<1>5. RecoverInv(c)'
  BY <1>1, <1>2, <1>3, <1>4 DEF RecoverInv, RotateInv, ResumeInv, UnlinkedInv, OldInv, FinishInv,
     CompletedInv, Cuts, Committed, PendingAt
<1>6. QED
  BY <1>1, <1>2, <1>3, <1>5, LookStep

LEMMA ReadClaimKeeps ==
  ASSUME IInv, IInv', KillInv, LoneInv', NEW c \in Compactor, ReadClaim(c)
  PROVE  KillInv'
<1>1. /\ UNCHANGED <<segments, gz, claim, dead>> /\ live'.ino = live.ino
      /\ pc[c] = "claim" /\ job[c] \in Jobs
  BY DEF ReadClaim, At, Reading, log, archive, lock, IInv, TypeInv, TypeOK
<1>2. CASE End(c)
  BY <1>1, <1>2, EndKeeps
<1>3. ASSUME NEW state \in {"prepare", "lock"}, NEW j, Become(c, state, j), RecoverInv(c)'
      PROVE  KillInv'
  <2>1. j \in Jobs /\ state \in States
    BY <1>3 DEF Become, IInv, TypeInv, TypeOK, States, Committed
  <2>2. QED
    BY <1>1, <1>3, <2>1, LookStep
<1>4. ASSUME NEW state \in {"prepare", "lock"}, NEW j, Become(c, state, j)
      PROVE  pc'[c] = state /\ job'[c] = j /\ j \in Jobs
  BY <1>4 DEF Become, IInv, TypeInv, TypeOK
<1>5. CASE claim = None /\ job[c].pending = None /\ Become(c, "prepare", job[c])
  <2>1. pc'[c] = "prepare" /\ job'[c] = job[c]
    BY <1>4, <1>5
  <2>2. RotateInv(c)'
    <3>1. RotateInv(c)
      BY DEF KillInv, RecoverInv
    <3>2. QED
      BY <1>1, <1>5, <2>1, <3>1 DEF RotateInv, Rotates, Current, PendingAt
  <2>3. job[c].kind \in Rotations
    BY <1>1 DEF IInv, TypeInv, KindInv, Fits
  <2>4. RecoverInv(c)'
    BY <2>1, <2>2, <2>3 DEF RecoverInv, ResumeInv, UnlinkedInv, OldInv, FinishInv, CompletedInv,
       Rotations
  <2>5. QED
    BY <1>3, <1>5, <2>4
<1>6. CASE claim = None /\ job[c].pending # None /\ ResumeOld(c, PendingSegment)
  <2>1. PICK s : s = PendingSegment
    OBVIOUS
  <2>2. PICK k : k = [seq |-> s.seq, rows |-> s.rows, source |-> live.ino,
                      replacement |-> 0, cursor |-> s.pending.cursor]
    OBVIOUS
  <2>3. PICK j : j = [NoJob EXCEPT !.kind = "old", !.source = s.pending.source, !.claim = k]
    OBVIOUS
  <2>4. CASE s # None /\ live.ino = s.pending.source /\ Become(c, "prepare", j)
    <3>1. pc'[c] = "prepare" /\ job'[c] = j /\ j.kind = "old" /\ j.claim.seq = s.seq
      BY <1>4, <2>2, <2>3, <2>4 DEF NoJob
    <3>2. \E i \in PendingAt : segments[i].seq = s.seq /\ segments[i].pending.source = live.ino
      <4>1. segments \in Seq(Segments)
        BY DEF IInv, TypeInv, TypeOK
      <4>2. QED
        BY <2>1, <2>4, <4>1, PendingSegmentFacts DEF PendingAt
    <3>3. OldInv(c)'
      BY <1>1, <1>6, <3>1, <3>2 DEF OldInv, PendingAt
    <3>4. RecoverInv(c)'
      BY <3>1, <3>3 DEF RecoverInv, RotateInv, ResumeInv, UnlinkedInv, FinishInv, CompletedInv,
         Rotates
    <3>5. QED
      BY <1>3, <2>4, <3>4
  <2>5. QED
    BY <1>2, <1>6, <2>1, <2>2, <2>3, <2>4 DEF ResumeOld
<1>7. CASE claim # None /\ Resume(c, claim)
  <2>1. PICK k : k = claim
    OBVIOUS
  <2>2. CASE Become(c, "lock", [NoJob EXCEPT !.kind = "finish", !.source = k.replacement,
                                             !.claim = k])
    <3>1. PICK j : j = [NoJob EXCEPT !.kind = "finish", !.source = k.replacement, !.claim = k]
      OBVIOUS
    <3>2. pc'[c] = "lock" /\ job'[c] = j /\ j.kind = "finish" /\ j.claim = claim
      BY <1>4, <2>1, <2>2, <3>1 DEF NoJob
    <3>3. FinishInv(c)'
      BY <1>1, <3>2 DEF FinishInv
    <3>4. RecoverInv(c)'
      BY <3>2, <3>3 DEF RecoverInv, RotateInv, ResumeInv, UnlinkedInv, OldInv, CompletedInv,
         Rotates
    <3>5. QED
      BY <1>3, <2>2, <3>1, <3>4
  <2>3. CASE Become(c, "prepare", [NoJob EXCEPT !.kind = "resume", !.source = k.source,
                                                !.claim = k])
    <3>1. PICK j : j = [NoJob EXCEPT !.kind = "resume", !.source = k.source, !.claim = k]
      OBVIOUS
    <3>2. pc'[c] = "prepare" /\ job'[c] = j /\ j.kind = "resume" /\ j.claim = claim
      BY <1>4, <2>1, <2>3, <3>1 DEF NoJob
    <3>3. ResumeInv(c)'
      BY <1>1, <1>7, <3>2 DEF ResumeInv, SameRotation
    <3>4. RecoverInv(c)'
      BY <3>2, <3>3 DEF RecoverInv, RotateInv, FinishInv, UnlinkedInv, OldInv, CompletedInv,
         Rotates
    <3>5. QED
      BY <1>3, <2>3, <3>1, <3>4
  <2>4. QED
    BY <1>2, <1>7, <2>1, <2>2, <2>3 DEF Resume
<1>8. QED
  BY <1>2, <1>5, <1>6, <1>7 DEF ReadClaim

\* What is planned and copied is what was to be rotated.
LEMMA PrepareKeeps ==
  ASSUME IInv, IInv', KillInv, LoneInv', NEW c \in Compactor, Prepare(c)
  PROVE  KillInv'
<1>1. /\ UNCHANGED <<segments, gz, claim, dead>> /\ live'.ino = live.ino
      /\ pc[c] = "prepare" /\ job[c] \in Jobs
  BY DEF Prepare, At, Reading, log, archive, lock, IInv, TypeInv, TypeOK
<1>2. CASE End(c)
  BY <1>1, <1>2, EndKeeps
<1>3. Fits("prepare", job[c])
  BY <1>1 DEF IInv, TypeInv, KindInv
<1>4. ASSUME NEW k, NEW ino,
             ~Rotates(c) => /\ k = job[c].claim
                            /\ job[c].claim.seq \notin DOMAIN gz \/ Published(job[c].claim),
             Become(c, "lock", [job[c] EXCEPT !.claim = [k EXCEPT !.replacement = ino],
                                              !.copied = Size, !.verified = Published(k)])
      PROVE  KillInv'
  <2>1. PICK m : m = [k EXCEPT !.replacement = ino]
    OBVIOUS
  <2>2. PICK j : j = [job[c] EXCEPT !.claim = m, !.copied = Size, !.verified = Published(k)]
    OBVIOUS
  <2>3. Become(c, "lock", j)
    BY <1>4, <2>1, <2>2
  <2>4. /\ pc'[c] = "lock" /\ job'[c] = j /\ j \in Jobs /\ "lock" \in States
    BY <2>3 DEF Become, IInv, TypeInv, TypeOK, States, Committed
  <2>5. /\ j.kind = job[c].kind /\ j.source = job[c].source
        /\ j.verified = Published(k) /\ j.claim = m
    BY <1>1, <2>2 DEF Jobs
  <2>6. ASSUME ~Rotates(c)
        PROVE  /\ job[c].claim \in Claims /\ SameRotation(m, job[c].claim)
               /\ m.seq \in DOMAIN gz => j.verified
    <3>1. job[c].claim \in Claims
      BY <1>1, <1>3, <2>6 DEF Fits, Jobs, Rotations, Rotates
    <3>2. SameRotation(m, job[c].claim)
      BY <1>4, <2>1, <2>6, <3>1 DEF SameRotation, Claims
    <3>3. QED
      BY <1>4, <2>5, <2>6, <3>1, <3>2 DEF SameRotation
  <2>7. RotateInv(c) /\ ResumeInv(c) /\ OldInv(c)
    BY DEF KillInv, RecoverInv
  <2>8. RotateInv(c)' /\ CompletedInv(c)'
    BY <1>1, <2>4, <2>5, <2>7 DEF RotateInv, CompletedInv, Rotates, Current, PendingAt
  <2>9. ResumeInv(c)' /\ UnlinkedInv(c)'
    BY <1>1, <2>4, <2>5, <2>6, <2>7 DEF ResumeInv, UnlinkedInv, Current, SameRotation, Rotates
  <2>10. OldInv(c)'
    BY <1>1, <2>4, <2>5, <2>6, <2>7 DEF OldInv, Current, SameRotation, PendingAt, Rotates, Cuts,
       Committed
  <2>11. FinishInv(c)'
    BY <1>3, <2>4, <2>5 DEF FinishInv, Fits, Rotations
  <2>12. QED
    BY <1>1, <2>3, <2>4, <2>8, <2>9, <2>10, <2>11, LookStep DEF RecoverInv
<1>5. QED
  BY <1>2, <1>4 DEF Prepare

\* The lock is taken, and the file is still the one.
LEMMA EnterKeeps ==
  ASSUME IInv, IInv', KillInv, LoneInv', NEW c \in Compactor, Enter(c)
  PROVE  KillInv'
<1>1. /\ UNCHANGED <<segments, gz, claim, dead>> /\ live'.ino = live.ino
      /\ pc[c] = "lock"
  BY DEF Enter, At, log, archive, L!Take
<1>2. PICK state \in {"unlock", "complete", "publish"} :
        /\ Stay(c, state)
        /\ state # "unlock" => Current(c)
        /\ state = "complete" => job[c].kind = "finish"
        /\ state = "publish" => job[c].kind # "finish"
  BY DEF Enter, Current
<1>3. pc'[c] = state /\ job'[c] = job[c] /\ job[c] \in Jobs /\ state \in States
  BY <1>2 DEF Stay, Become, IInv, TypeInv, TypeOK, States, Critical
<1>4. RecoverInv(c)
  BY DEF KillInv
<1>5. \A d \in Compactor \ {c} : Committing(d)' <=> Committing(d)
  BY <1>2 DEF Committing, Holds, Stay, Become, IInv, TypeInv, TypeOK
<1>6. Overtaken(c)' <=> Overtaken(c)
  BY <1>5 DEF Overtaken
<1>7. RecoverInv(c)'
  BY <1>1, <1>2, <1>3, <1>4, <1>6 DEF RecoverInv, RotateInv, ResumeInv, UnlinkedInv, OldInv,
     FinishInv, CompletedInv, Rotates, Current, Cuts, Committed, PendingAt
<1>8. QED
  BY <1>1, <1>2, <1>3, <1>7, LookStep DEF Stay

LEMMA LeaveKeeps ==
  ASSUME IInv, KillInv, LoneInv', NEW c \in Compactor, Leave(c)
  PROVE  KillInv'
<1>1. /\ UNCHANGED <<segments, gz, claim, dead>> /\ live'.ino = live.ino
      /\ pc[c] = "unlock" /\ End(c)
  BY DEF Leave, At, log, archive, L!Release
<1>2. QED
  BY <1>1, EndKeeps

\* A kill finds the others idle.  If it is the only one, nobody was resuming a claim.
LEMMA KillKeeps ==
  ASSUME IInv, KillInv, LoneInv', KillAlone \/ ~Overlap, MaxKills <= 1,
         NEW c \in Compactor, Kill(c)
  PROVE  KillInv'
<1>1. /\ UNCHANGED <<segments, gz, claim, live>> /\ dead' = dead \cup {c} /\ End(c)
      /\ Alone(c)
  BY DEF Kill, L!Die, log, archive, KillInv, LoneInv
<1>2. dead = {}
  <2>1. IsFiniteSet(dead)
    <3>1. dead \subseteq Compactor
      BY DEF IInv, TypeInv, TypeOK, L!vars
    <3>2. QED
      BY <3>1, BoundsAssumption, FS_Subset
  <2>2. Cardinality(dead) < 1
    <3>1. Cardinality(dead) \in Nat
      BY <2>1, FS_CardinalityType, Zenon
    <3>2. Cardinality(dead) < MaxKills
      BY DEF Kill
    <3>3. MaxKills \in Nat
      BY BoundsAssumption
    <3>4. QED
      BY <3>1, <3>2, <3>3
  <2>3. Cardinality(dead) = 0
    <3>1. Cardinality(dead) \in Nat
      BY <2>1, FS_CardinalityType, Zenon
    <3>2. QED
      BY <2>2, <3>1
  <2>4. QED
    BY <2>1, <2>3, FS_EmptySet, Zenon
<1>3. /\ pc'[c] = "idle" /\ job'[c] = NoJob
      /\ \A d \in Compactor \ {c} : pc[d] = "idle" /\ pc'[d] = "idle"
  BY <1>1 DEF End, Become, Alone, IInv, TypeInv, TypeOK
<1>4. \A d \in Compactor : pc'[d] = "idle"
  BY <1>3
<1>5. \A d \in Compactor : RecoverInv(d)'
  BY <1>4 DEF RecoverInv, RotateInv, ResumeInv, UnlinkedInv, OldInv, FinishInv, CompletedInv,
     Cuts, Committed
<1>6. AbandonedInv'
  BY <1>1 DEF AbandonedInv
<1>7. claim # None => ~Replacing
  BY <1>2, <1>3 DEF KillInv, AbandonedInv, Owns, Replacing, Rotates
<1>8. NamedInv'
  BY <1>1, <1>7 DEF KillInv, NamedInv, PendingAt, Belongs
<1>9. QED
  BY <1>5, <1>6, <1>8 DEF KillInv

-----------------------------------------------------------------------------
(* Steps under the claim.                                                  *)

\* Others have nothing to do with a rotation of the live file that is planned now.
LEMMA PublishKeeps ==
  ASSUME IInv, IInv', KillInv, LoneInv', NEW c \in Compactor, Publish(c)
  PROVE  KillInv'
<1>1. /\ UNCHANGED <<live, gz, dead>> /\ pc[c] = "publish" /\ pc[c] \in Critical
      /\ job[c] \in Jobs /\ pc \in [Compactor -> States] /\ job \in [Compactor -> Jobs]
  BY DEF Publish, At, Locked, lock, Critical, IInv, TypeInv, TypeOK
<1>2. Fits("publish", job[c]) /\ Holds(c)
  BY <1>1, HolderFacts DEF Fits, Holds, Copied, Committed
<1>3. /\ job[c].claim \in Claims /\ Current(c) /\ Cuts(c) /\ job[c].claim.source = live.ino
      /\ job[c].claim.replacement # live.ino
      /\ job[c].kind \in Rotations \cup {"resume", "old"}
  BY <1>1, <1>2, HolderFacts DEF Current, Fits, Jobs, Copied, Committed, Rotations, Holds
<1>4. /\ ~Overtaken(c) /\ ~Replacing
      /\ \A d \in Compactor \ {c} : pc[d] \notin Critical /\ ~Owns(d) /\ ~Committing(d)
  BY <1>1, OneCommits
<1>5. \A d \in Compactor : RecoverInv(d)
  BY DEF KillInv
<1>6. CASE Stay(c, "unlock") /\ UNCHANGED <<claim, segments>>
  <2>1. pc'[c] = "unlock" /\ "unlock" \in States
    BY <1>1, <1>6 DEF Stay, Become, States, Critical
  <2>2. RecoverInv(c)'
    BY <2>1 DEF RecoverInv, RotateInv, ResumeInv, UnlinkedInv, OldInv, FinishInv, CompletedInv,
       Cuts, Committed
  <2>3. QED
    BY <1>1, <1>6, <2>1, <2>2, LookStep DEF Stay
<1>7. ASSUME NEW state \in {"link", "cursor"}, NEW j \in Jobs, Become(c, state, j)
      PROVE  /\ pc'[c] = state /\ job'[c] = j
             /\ \A d \in Compactor \ {c} : pc'[d] = pc[d] /\ job'[d] = job[d]
  BY <1>1, <1>7 DEF Become
<1>8. PICK k : k = [job[c].claim EXCEPT !.seq = Len(gz) + 1]
  OBVIOUS
<1>9. CASE /\ Rotates(c) /\ claim = None /\ claim' = k /\ UNCHANGED segments
           /\ Become(c, "link", [job[c] EXCEPT !.claim = k])
  <2>1. PICK j : j = [job[c] EXCEPT !.claim = k]
    OBVIOUS
  <2>2. /\ k \in Claims /\ k.seq = Len(gz) + 1 /\ k.source = live.ino
        /\ k.replacement # live.ino /\ Len(gz) + 1 \notin DOMAIN gz
    <3>1. gz \in Seq(Seq(1..MaxRows)) /\ Len(gz) \in Nat /\ DOMAIN gz = 1..Len(gz)
      BY LenProperties DEF IInv, TypeInv, TypeOK
    <3>2. Len(gz) + 1 \in Nat /\ Len(gz) + 1 \notin DOMAIN gz
      BY <3>1
    <3>3. k \in Claims /\ k.seq = Len(gz) + 1
      BY <1>3, <1>8, <3>2 DEF Claims
    <3>4. k.source = job[c].claim.source /\ k.replacement = job[c].claim.replacement
      BY <1>3, <1>8 DEF Claims
    <3>5. QED
      BY <1>3, <3>2, <3>3, <3>4
  <2>3. j \in Jobs /\ j.kind = job[c].kind /\ j.claim = k
    BY <1>1, <2>1, <2>2 DEF Jobs
  <2>4. /\ pc'[c] = "link" /\ job'[c] = j
        /\ \A d \in Compactor \ {c} : pc'[d] = pc[d] /\ job'[d] = job[d]
    BY <1>7, <1>9, <2>1, <2>3
  <2>5. Owns(c)' /\ Committing(c)' /\ claim' # None /\ PendingAt' = PendingAt
    <3>1. j.kind \in {"rotate", "rotateAll"}
      BY <1>9, <2>3 DEF Rotates
    <3>2. QED
      BY <1>9, <2>2, <2>4, <3>1, RecordAssumption DEF Owns, Rotates, Committing, Holds, Copied,
         Committed, PendingAt
  <2>6. PendingAt = {}
    BY <1>1, <1>3, <1>5, <1>9 DEF RecoverInv, RotateInv
  <2>7. AbandonedInv' /\ NamedInv'
    BY <1>1, <1>9, <2>2, <2>5, <2>6 DEF AbandonedInv, NamedInv
  <2>8. RecoverInv(c)'
    BY <1>1, <1>9, <2>2, <2>3, <2>4, <2>5 DEF RecoverInv, RotateInv, ResumeInv, UnlinkedInv, OldInv,
       FinishInv, CompletedInv, Rotates
  <2>9. ASSUME NEW d \in Compactor \ {c} PROVE RecoverInv(d)'
    <3>1. Overtaken(d)'
      BY <2>5 DEF Overtaken
    <3>2. ~(job[d].kind = "resume" /\ Current(d) /\ pc[d] = "prepare")
          /\ ~(job[d].kind = "resume" /\ Current(d) /\ pc[d] = "lock")
          /\ ~(job[d].kind = "old" /\ Current(d) /\ Cuts(d))
      BY <1>5, <1>9, <2>6 DEF RecoverInv, ResumeInv, OldInv
    <3>3. RotateInv(d)' /\ ResumeInv(d)' /\ OldInv(d)'
      BY <1>1, <1>4, <2>4, <2>5, <3>2 DEF RotateInv, ResumeInv, OldInv, Current, Cuts, Critical
    <3>4. UnlinkedInv(d)' /\ FinishInv(d)' /\ CompletedInv(d)'
      BY <1>1, <1>4, <2>4, <3>1 DEF UnlinkedInv, FinishInv, CompletedInv, Critical
    <3>5. QED
      BY <3>3, <3>4 DEF RecoverInv
  <2>10. QED
    BY <2>7, <2>8, <2>9 DEF KillInv
<1>10. CASE /\ job[c].kind = "resume" /\ claim # None /\ claim' = job[c].claim
            /\ Stay(c, "link") /\ UNCHANGED segments
  <2>1. /\ pc'[c] = "link" /\ job'[c] = job[c]
        /\ \A d \in Compactor \ {c} : pc'[d] = pc[d] /\ job'[d] = job[d]
    BY <1>1, <1>7, <1>10 DEF Stay
  <2>2. SameRotation(job[c].claim, claim)
    BY <1>1, <1>3, <1>5, <1>10 DEF RecoverInv, ResumeInv
  <2>3. Committing(c)' /\ Replacing' /\ claim' # None /\ PendingAt' = PendingAt
    BY <1>3, <1>10, <2>1, RecordAssumption DEF Committing, Holds, Copied, Committed, Replacing,
       PendingAt
  <2>4. AbandonedInv'
    <3>1. ~Owns(c)
      BY <1>10 DEF Owns, Rotates
    <3>2. dead # {}
      BY <1>4, <1>10, <3>1 DEF KillInv, AbandonedInv
    <3>3. QED
      BY <1>1, <3>2 DEF AbandonedInv
  <2>5. NamedInv'
    <3>1. \A i \in PendingAt : Belongs(segments[i], job[c].claim)
      BY <1>10, <2>2 DEF KillInv, NamedInv, SameRotation, Belongs
    <3>2. QED
      BY <1>1, <1>3, <1>10, <2>3, <3>1 DEF NamedInv
  <2>6. RecoverInv(c)'
    <3>1. UnlinkedInv(c)'
      BY <1>1, <1>4, <1>5, <1>10, <2>1 DEF RecoverInv, UnlinkedInv, Current, Rotates
    <3>2. QED
      BY <1>10, <2>1, <3>1 DEF RecoverInv, RotateInv, ResumeInv, OldInv, FinishInv, CompletedInv,
         Rotates
  <2>7. ASSUME NEW d \in Compactor \ {c} PROVE RecoverInv(d)'
    <3>1. Overtaken(d)'
      BY <2>3 DEF Overtaken
    <3>2. ResumeInv(d)'
      BY <1>1, <1>5, <1>10, <2>1, <2>2, <2>3 DEF RecoverInv, ResumeInv, Current, SameRotation
    <3>3. RotateInv(d)' /\ OldInv(d)'
      BY <1>1, <1>5, <1>10, <2>1, <2>3 DEF RecoverInv, RotateInv, OldInv, Current, Cuts
    <3>4. UnlinkedInv(d)' /\ FinishInv(d)' /\ CompletedInv(d)'
      BY <1>1, <1>4, <2>1, <3>1 DEF UnlinkedInv, FinishInv, CompletedInv, Critical
    <3>5. QED
      BY <3>2, <3>3, <3>4 DEF RecoverInv
  <2>8. QED
    BY <2>4, <2>5, <2>6, <2>7 DEF KillInv
<1>11. CASE /\ job[c].kind = "old" /\ Stay(c, "cursor") /\ UNCHANGED claim
            /\ segments' = WithPending(job[c].claim.seq, Drop(job[c].claim))
  <2>1. /\ pc'[c] = "cursor" /\ job'[c] = job[c]
        /\ \A d \in Compactor \ {c} : pc'[d] = pc[d] /\ job'[d] = job[d]
    BY <1>1, <1>7, <1>11 DEF Stay
  <2>2. /\ claim = None
        /\ \E i \in PendingAt : /\ segments[i].seq = job[c].claim.seq
                                /\ segments[i].pending.source = live.ino
    BY <1>3, <1>5, <1>11 DEF RecoverInv, OldInv
  <2>3. Drop(job[c].claim) \in Drops /\ Drop(job[c].claim).source = live.ino
    BY <1>3 DEF Drop, Drops, Claims
  <2>4. /\ DOMAIN segments' = DOMAIN segments
        /\ \A i \in DOMAIN segments :
             /\ segments'[i].seq = segments[i].seq
             /\ segments'[i].pending =
                  IF segments[i].seq = job[c].claim.seq THEN Drop(job[c].claim)
                  ELSE segments[i].pending
    <3>1. segments \in Seq(Segments)
      BY DEF IInv, TypeInv, TypeOK
    <3>2. QED
      BY <1>11, <2>3, <3>1, WithPendingFacts
  <2>5. \A i \in PendingAt : segments[i].pending.source = live.ino =>
          i \in PendingAt' /\ segments'[i].pending.source = live.ino
    BY <2>3, <2>4, RecordAssumption DEF PendingAt, Pending
  <2>6. AbandonedInv' /\ NamedInv'
    BY <1>11, <2>2 DEF AbandonedInv, NamedInv
  <2>7. \A d \in Compactor : OldInv(d)'
    <3> SUFFICES ASSUME NEW d \in Compactor, job'[d].kind = "old", Current(d)', Cuts(d)'
                 PROVE  \E i \in PendingAt' : /\ segments'[i].seq = job'[d].claim.seq
                                              /\ segments'[i].pending.source = live.ino
      BY <1>1, <1>11, <2>2 DEF OldInv
    <3>1. job'[d] = job[d] /\ Current(d) /\ Cuts(d)
      BY <1>1, <1>3, <2>1 DEF Current, Cuts
    <3>2. PICK i \in PendingAt : /\ segments[i].seq = job[d].claim.seq
                                 /\ segments[i].pending.source = live.ino
      BY <1>5, <3>1 DEF RecoverInv, OldInv
    <3>3. i \in DOMAIN segments /\ segments'[i].seq = segments[i].seq
      BY <2>4, <3>2 DEF PendingAt
    <3>4. QED
      BY <2>5, <3>1, <3>2, <3>3
  <2>8. ASSUME NEW d \in Compactor \ {c} PROVE RecoverInv(d)'
    <3>1. RotateInv(d)'
      BY <1>1, <1>5, <1>11, <2>1, <2>2 DEF RecoverInv, RotateInv, Rotates, Current
    <3>2. ResumeInv(d)'
      BY <1>1, <1>5, <1>11, <2>1, <2>2 DEF RecoverInv, ResumeInv, Current
    <3>3. UnlinkedInv(d)' /\ CompletedInv(d)' /\ FinishInv(d)'
      BY <1>1, <1>4, <1>5, <1>11, <2>1, <2>2 DEF RecoverInv, UnlinkedInv, ResumeInv, FinishInv,
         CompletedInv, Current, Critical
    <3>4. QED
      BY <2>7, <3>1, <3>2, <3>3 DEF RecoverInv
  <2>9. RecoverInv(c)'
    BY <1>11, <2>1, <2>7 DEF RecoverInv, RotateInv, ResumeInv, UnlinkedInv, FinishInv, CompletedInv,
       Rotates
  <2>10. QED
    BY <2>6, <2>8, <2>9 DEF KillInv
<1>12. QED
  BY <1>6, <1>8, <1>9, <1>10, <1>11 DEF Publish

\* A claim whose segment file is not verified has none, so the link succeeds.
LEMMA LinkKeeps ==
  ASSUME IInv, IInv', KillInv, LoneInv', NEW c \in Compactor, LinkSegment(c)
  PROVE  KillInv'
<1>1. /\ UNCHANGED <<live, segments, claim, dead>> /\ pc[c] = "link" /\ pc[c] \in Critical
  BY DEF LinkSegment, At, Locked, lock, Critical
<1>2. Fits("link", job[c]) /\ job[c].kind \in Rotations \cup {"resume"} /\ Current(c)
  <2>1. Fits("link", job[c]) /\ job[c].kind \in Rotations \cup {"resume"}
    BY <1>1, HolderFacts DEF Fits
  <2>2. Holds(c)
    BY <1>1, <2>1 DEF Holds, Copied, Committed, Rotations
  <2>3. QED
    BY <1>1, <2>1, <2>2, HolderFacts DEF Current
<1>3. /\ ~Overtaken(c)
      /\ \A d \in Compactor \ {c} : pc[d] \notin Critical /\ ~Owns(d) /\ ~Committing(d)
  BY <1>1, OneCommits
<1>4. job[c].claim.seq \in DOMAIN gz => job[c].verified
  BY <1>1, <1>2, <1>3 DEF KillInv, RecoverInv, UnlinkedInv, Rotates, Rotations
<1>5. Stay(c, "store")
  BY <1>4 DEF LinkSegment
<1>6. /\ pc'[c] = "store" /\ job'[c] = job[c]
      /\ \A d \in Compactor \ {c} : pc'[d] = pc[d] /\ job'[d] = job[d]
  BY <1>5 DEF Stay, Become, IInv, TypeInv, TypeOK
<1>7. Committing(c)' /\ (Owns(c) => Owns(c)') /\ (Replacing => Replacing') /\ PendingAt' = PendingAt
  BY <1>1, <1>2, <1>6 DEF Committing, Holds, Owns, Replacing, Rotates, Rotations, Copied, Committed,
     PendingAt
<1>8. AbandonedInv' /\ NamedInv'
  BY <1>1, <1>3, <1>7 DEF KillInv, AbandonedInv, NamedInv
<1>9. RecoverInv(c)'
  BY <1>2, <1>6 DEF RecoverInv, RotateInv, ResumeInv, UnlinkedInv, OldInv, FinishInv, CompletedInv,
     Rotations
<1>10. ASSUME NEW d \in Compactor \ {c} PROVE RecoverInv(d)'
  <2>1. Overtaken(d)'
    BY <1>7 DEF Overtaken
  <2>2. RecoverInv(d)
    BY DEF KillInv
  <2>3. RotateInv(d)' /\ ResumeInv(d)' /\ OldInv(d)'
    BY <1>1, <1>6, <1>7, <2>2 DEF RecoverInv, RotateInv, ResumeInv, OldInv, Rotates, Current, Cuts
  <2>4. UnlinkedInv(d)' /\ FinishInv(d)' /\ CompletedInv(d)'
    BY <1>1, <1>3, <1>6, <2>1 DEF UnlinkedInv, FinishInv, CompletedInv, Critical
  <2>5. QED
    BY <2>3, <2>4 DEF RecoverInv
<1>11. QED
  BY <1>8, <1>9, <1>10 DEF KillInv

\* Every pending drop is then the one of the claim.
LEMMA StoreKeeps ==
  ASSUME IInv, IInv', KillInv, LoneInv', NEW c \in Compactor, StoreSegment(c)
  PROVE  KillInv'
<1>1. /\ UNCHANGED <<live, gz, claim, dead>> /\ pc[c] = "store" /\ pc[c] \in Critical
      /\ job[c] \in Jobs /\ segments \in Seq(Segments)
  BY DEF StoreSegment, At, Locked, lock, Critical, IInv, TypeInv, TypeOK
<1>2. PICK k : k = job[c].claim
  OBVIOUS
<1>3. /\ job[c].kind \in Rotations \cup {"resume"} /\ Holds(c) /\ claim = k /\ claim # None
      /\ k \in Claims /\ Published(k) /\ k.source = live.ino
  <2>1. /\ job[c].kind \in Rotations \cup {"resume"} /\ job[c].claim # None /\ HolderInv(c)
    BY <1>1, HolderFacts DEF Fits, Copied, Committed
  <2>2. Holds(c)
    BY <1>1, <2>1 DEF Holds, Copied, Committed, Rotations
  <2>3. QED
    BY <1>1, <1>2, <2>1, <2>2, HolderFacts DEF HolderInv, Jobs
<1>4. /\ ~Overtaken(c)
      /\ \A d \in Compactor \ {c} : pc[d] \notin Critical /\ ~Owns(d) /\ ~Committing(d)
  BY <1>1, OneCommits
<1>5. \A i \in DOMAIN segments : segments[i].seq = k.seq =>
        Pending(segments[i]) /\ segments[i].rows = k.rows
  BY <1>1, <1>3 DEF IInv, WorldInv, ClaimInv, ArchiveInv, Planned, Published
<1>6. PICK t : t = [seq |-> k.seq, rows |-> k.rows, pending |-> Drop(k)]
  OBVIOUS
<1>7. PICK known : known = {i \in DOMAIN segments : segments[i].seq = k.seq}
  OBVIOUS
<1>8. /\ Stay(c, "cursor")
      /\ segments' = IF known = {} THEN Append(segments, t) ELSE WithPending(k.seq, Drop(k))
  BY <1>2, <1>5, <1>6, <1>7 DEF StoreSegment
<1>9. /\ pc'[c] = "cursor" /\ job'[c] = job[c]
      /\ \A d \in Compactor \ {c} : pc'[d] = pc[d] /\ job'[d] = job[d]
  BY <1>8 DEF Stay, Become, IInv, TypeInv, TypeOK
<1>10. Drop(k) \in Drops /\ Drop(k).source = k.source /\ Drop(k).cursor = k.cursor
       /\ Drop(k).replacement = k.replacement /\ t \in Segments
  BY <1>3, <1>6 DEF Drop, Drops, Claims, Segments
<1>11. \A i \in PendingAt' : /\ segments'[i].seq = k.seq /\ segments'[i].rows = k.rows
                             /\ segments'[i].pending = Drop(k)
  <2>1. \A i \in PendingAt : segments[i].seq = k.seq
    BY <1>3 DEF KillInv, NamedInv, Belongs
  <2>2. CASE known = {}
    <3>1. /\ DOMAIN segments' = DOMAIN segments \cup {Len(segments) + 1}
          /\ segments'[Len(segments) + 1] = t
          /\ \A i \in DOMAIN segments : segments'[i] = segments[i]
      BY <1>1, <1>8, <1>10, <2>2, AppendProperties
    <3>2. PendingAt = {}
      BY <1>7, <2>1, <2>2 DEF PendingAt
    <3>3. PendingAt' \subseteq {Len(segments) + 1}
      BY <3>1, <3>2 DEF PendingAt
    <3>4. QED
      BY <1>6, <3>1, <3>3
  <2>3. CASE known # {}
    <3>1. /\ DOMAIN segments' = DOMAIN segments
          /\ \A i \in DOMAIN segments :
               /\ segments'[i].seq = segments[i].seq
               /\ segments'[i].rows = segments[i].rows
               /\ segments'[i].pending =
                    IF segments[i].seq = k.seq THEN Drop(k) ELSE segments[i].pending
      BY <1>1, <1>8, <1>10, <2>3, WithPendingFacts
    <3>2. \A i \in PendingAt' : i \in DOMAIN segments /\ segments[i].seq = k.seq
      BY <2>1, <3>1 DEF PendingAt, Pending
    <3>3. QED
      BY <1>5, <3>1, <3>2
  <2>4. QED
    BY <2>2, <2>3
<1>12. Committing(c)' /\ (Owns(c) => Owns(c)')
  BY <1>3, <1>9 DEF Committing, Holds, Owns, Rotates, Rotations, Copied, Committed
<1>13. AbandonedInv'
  BY <1>1, <1>4, <1>12 DEF KillInv, AbandonedInv
<1>14. NamedInv'
  BY <1>1, <1>3, <1>10, <1>11 DEF KillInv, NamedInv, Belongs
<1>15. RecoverInv(c)'
  BY <1>3, <1>9 DEF RecoverInv, RotateInv, ResumeInv, UnlinkedInv, OldInv, FinishInv, CompletedInv,
     Rotations
<1>16. ASSUME NEW d \in Compactor \ {c} PROVE RecoverInv(d)'
  <2>1. Overtaken(d)'
    BY <1>12 DEF Overtaken
  <2>2. RecoverInv(d)
    BY DEF KillInv
  <2>3. RotateInv(d)' /\ ResumeInv(d)' /\ OldInv(d)'
    BY <1>1, <1>3, <1>9, <2>2 DEF RecoverInv, RotateInv, ResumeInv, OldInv, Rotates, Current, Cuts
  <2>4. UnlinkedInv(d)' /\ FinishInv(d)' /\ CompletedInv(d)'
    BY <1>1, <1>4, <1>9, <2>1 DEF UnlinkedInv, FinishInv, CompletedInv, Critical
  <2>5. QED
    BY <2>3, <2>4 DEF RecoverInv
<1>17. QED
  BY <1>13, <1>14, <1>15, <1>16 DEF KillInv

LEMMA WriteCursorKeeps ==
  ASSUME IInv, IInv', KillInv, LoneInv', NEW c \in Compactor, WriteCursor(c)
  PROVE  KillInv'
<1>1. /\ UNCHANGED <<live, segments, gz, claim, dead>> /\ pc[c] = "cursor" /\ pc[c] \in Critical
  BY DEF WriteCursor, At, Locked, archive, lock, Critical
<1>2. /\ pc'[c] = IF job[c].kind = "finish" THEN "unclaim" ELSE "rename"
      /\ job'[c] = job[c]
      /\ \A d \in Compactor \ {c} : pc'[d] = pc[d] /\ job'[d] = job[d]
  BY DEF WriteCursor, Stay, Become, IInv, TypeInv, TypeOK
<1>3. /\ ~Overtaken(c) /\ ~Replacing
      /\ \A d \in Compactor \ {c} : pc[d] \notin Critical /\ ~Owns(d) /\ ~Committing(d)
  BY <1>1, OneCommits
<1>4. /\ Owns(c) => Owns(c)'
      /\ Committing(c) => Committing(c)'
  BY <1>1, <1>2 DEF Owns, Committing, Rotates, Holds, Copied, Committed
<1>5. PendingAt' = PendingAt
  BY <1>1 DEF PendingAt
<1>6. AbandonedInv' /\ NamedInv'
  BY <1>1, <1>3, <1>4, <1>5 DEF KillInv, AbandonedInv, NamedInv
<1>7. RecoverInv(c)'
  <2>1. OldInv(c)'
    BY <1>1, <1>2, <1>5 DEF KillInv, RecoverInv, OldInv, Current, Cuts, Committed
  <2>2. FinishInv(c)' /\ CompletedInv(c)'
    BY <1>1, <1>2, <1>3, <1>5 DEF KillInv, RecoverInv, FinishInv, CompletedInv
  <2>3. QED
    BY <1>2, <2>1, <2>2 DEF RecoverInv, RotateInv, ResumeInv, UnlinkedInv
<1>8. \A d \in Compactor \ {c} : RecoverInv(d)'
  BY <1>1, <1>2, <1>3, <1>4, OtherStays
<1>9. QED
  BY <1>6, <1>7, <1>8 DEF KillInv

\* Nobody has seen the file that is live now.
LEMMA RenameKeeps ==
  ASSUME IInv, IInv', KillInv, LoneInv', NEW c \in Compactor, Rename(c)
  PROVE  KillInv'
<1>1. /\ UNCHANGED <<segments, gz, claim, dead>> /\ pc[c] = "rename" /\ pc[c] \in Critical
      /\ live'.ino = job[c].claim.replacement
  BY DEF Rename, At, Locked, archive, lock, Critical
<1>2. /\ pc'[c] = "complete" /\ job'[c] = job[c]
      /\ \A d \in Compactor \ {c} : pc'[d] = pc[d] /\ job'[d] = job[d]
  BY DEF Rename, Stay, Become, IInv, TypeInv, TypeOK
<1>3. /\ Fits("rename", job[c]) /\ Holds(c) /\ Current(c) /\ Cuts(c) /\ HolderInv(c)
      /\ job[c].kind \in Rotations \cup {"resume", "old"}
  <2>1. Fits("rename", job[c]) /\ HolderInv(c)
    BY <1>1, HolderFacts
  <2>2. Holds(c) /\ job[c].kind # "none" /\ job[c] \in Jobs
    BY <1>1, <2>1 DEF Fits, Holds, Copied, Committed, IInv, TypeInv, TypeOK
  <2>3. QED
    BY <1>1, <2>1, <2>2, HolderFacts DEF Current, Fits, Jobs, Rotations
<1>4. \A d \in Compactor : ~Current(d)'
  <2>1. \A d \in Compactor : job[d].source # live'.ino
    BY <1>1, <1>3, SeenFile
  <2>2. QED
    BY <1>2, <2>1 DEF Current
<1>5. /\ ~Replacing
      /\ \A d \in Compactor \ {c} : pc[d] \notin Critical /\ ~Owns(d) /\ ~Committing(d)
  BY <1>1, OneCommits
<1>6. claim # None => claim = job[c].claim
  <2>1. job[c].kind = "old" => claim = None
    BY <1>3 DEF KillInv, RecoverInv, OldInv
  <2>2. QED
    BY <1>1, <1>3, <2>1 DEF HolderInv
<1>7. Owns(c) => Owns(c)'
  BY <1>2 DEF Owns, Rotates
<1>8. AbandonedInv' /\ NamedInv'
  BY <1>1, <1>5, <1>6, <1>7 DEF KillInv, AbandonedInv, NamedInv, PendingAt
<1>9. \A d \in Compactor : pc'[d] \notin {"link", "cursor", "unclaim"}
  BY <1>2, <1>5 DEF Critical
<1>10. ~ \E d \in Compactor : pc'[d] = "complete" /\ job'[d].kind = "finish"
  BY <1>2, <1>3, <1>5 DEF Critical, Rotations
<1>11. \A d \in Compactor : RecoverInv(d)'
  BY <1>4, <1>9, <1>10 DEF RecoverInv, RotateInv, ResumeInv, UnlinkedInv, OldInv, FinishInv,
     CompletedInv
<1>12. QED
  BY <1>8, <1>11 DEF KillInv

\* Only the drop of the file that is live now is completed.
LEMMA CompleteKeeps ==
  ASSUME IInv, IInv', KillInv, LoneInv', NEW c \in Compactor, Complete(c)
  PROVE  KillInv'
<1>1. /\ UNCHANGED <<live, gz, claim, dead>> /\ pc[c] = "complete" /\ pc[c] \in Critical
      /\ segments' = WithPending(job[c].claim.seq, None) /\ segments \in Seq(Segments)
  BY DEF Complete, At, Locked, lock, Critical, IInv, TypeInv, TypeOK
<1>2. /\ pc'[c] \in {"cursor", "unlock", "unclaim"} /\ job'[c] = job[c]
      /\ pc'[c] = "cursor" <=> job[c].kind = "finish"
      /\ job[c].kind \in {"rotate", "rotateAll"} => pc'[c] = "unclaim"
      /\ job[c].kind = "old" => pc'[c] = "unlock"
      /\ \A d \in Compactor \ {c} : pc'[d] = pc[d] /\ job'[d] = job[d]
  BY DEF Complete, Stay, Become, IInv, TypeInv, TypeOK
<1>3. /\ ~Overtaken(c) /\ ~Replacing
      /\ \A d \in Compactor \ {c} : pc[d] \notin Critical /\ ~Owns(d) /\ ~Committing(d)
  BY <1>1, OneCommits
<1>4. job[c].claim.replacement = live.ino /\ Renamed(job[c].claim)
  BY <1>1, HolderFacts DEF HolderInv
<1>5. /\ DOMAIN segments' = DOMAIN segments
      /\ \A i \in DOMAIN segments :
           /\ segments'[i].seq = segments[i].seq
           /\ segments'[i].rows = segments[i].rows
           /\ segments'[i].pending = IF segments[i].seq = job[c].claim.seq THEN None
                                     ELSE segments[i].pending
  BY <1>1, WithPendingFacts
<1>6. \A i \in PendingAt' : /\ i \in PendingAt /\ segments[i].seq # job[c].claim.seq
                            /\ segments'[i].seq = segments[i].seq
                            /\ segments'[i].rows = segments[i].rows
                            /\ segments'[i].pending = segments[i].pending
  BY <1>5 DEF PendingAt, Pending
<1>7. \A i \in PendingAt : segments[i].pending.source = live.ino =>
        /\ i \in PendingAt' /\ segments'[i].seq = segments[i].seq
        /\ segments'[i].pending.source = live.ino
  <2> SUFFICES ASSUME NEW i \in PendingAt, segments[i].pending.source = live.ino
               PROVE  segments[i].seq # job[c].claim.seq
    BY <1>5 DEF PendingAt, Pending
  <2>1. PICK h \in DOMAIN segments : segments[h].seq = job[c].claim.seq /\ Gone(segments[h])
    BY <1>4 DEF Renamed
  <2>2. ~Landed(segments[i]) /\ i \in DOMAIN segments /\ Pending(segments[i])
    BY DEF IInv, WorldInv, ArchiveInv, PendingAt
  <2>3. i # h
    BY <2>1, <2>2 DEF Gone, Landed, Pending
  <2>4. QED
    BY <2>1, <2>2, <2>3 DEF IInv, WorldInv, ArchiveInv
<1>8. Owns(c) => Owns(c)'
  BY <1>2 DEF Owns, Rotates
<1>9. AbandonedInv' /\ NamedInv'
  BY <1>1, <1>3, <1>6, <1>8 DEF KillInv, AbandonedInv, NamedInv, Belongs
<1>10. RecoverInv(c)'
  <2>1. FinishInv(c)'
    BY <1>1, <1>2, <1>3 DEF KillInv, RecoverInv, FinishInv
  <2>2. CompletedInv(c)'
    BY <1>1, <1>2, <1>4, <1>6 DEF CompletedInv
  <2>3. QED
    BY <1>2, <2>1, <2>2 DEF RecoverInv, RotateInv, ResumeInv, UnlinkedInv, OldInv, Cuts, Rotates,
       Committed
<1>11. ASSUME NEW d \in Compactor \ {c} PROVE RecoverInv(d)'
  <2>1. RecoverInv(d)
    BY DEF KillInv
  <2>2. Overtaken(d) => Overtaken(d)'
    <3>1. ~Committing(c)
      BY <1>1 DEF Committing
    <3>2. QED
      BY <1>2, <3>1 DEF Overtaken, Committing, Holds
  <2>3. RotateInv(d)' /\ ResumeInv(d)'
    BY <1>1, <1>2, <1>6, <2>1 DEF RecoverInv, RotateInv, ResumeInv, Rotates, Current
  <2>4. UnlinkedInv(d)' /\ FinishInv(d)' /\ CompletedInv(d)'
    BY <1>1, <1>2, <1>3, <2>1, <2>2 DEF RecoverInv, UnlinkedInv, FinishInv, CompletedInv, Critical,
       Current
  <2>5. OldInv(d)'
    BY <1>1, <1>2, <1>7, <2>1 DEF RecoverInv, OldInv, Current, Cuts
  <2>6. QED
    BY <2>3, <2>4, <2>5 DEF RecoverInv
<1>12. QED
  BY <1>9, <1>10, <1>11 DEF KillInv

\* The claim that is removed is the one whose drop is no longer pending.
LEMMA UnclaimKeeps ==
  ASSUME IInv, IInv', KillInv, LoneInv', NEW c \in Compactor, Unclaim(c)
  PROVE  KillInv'
<1>1. /\ UNCHANGED <<live, segments, gz, dead>> /\ claim' = None
      /\ pc[c] = "unclaim" /\ pc[c] \in Critical
  BY DEF Unclaim, At, Locked, lock, Critical
<1>2. /\ pc'[c] = "unlock" /\ job'[c] = job[c]
      /\ \A d \in Compactor \ {c} : pc'[d] = pc[d] /\ job'[d] = job[d]
  BY DEF Unclaim, Stay, Become, IInv, TypeInv, TypeOK
<1>3. /\ ~Overtaken(c)
      /\ \A d \in Compactor \ {c} : pc[d] \notin Critical /\ ~Committing(d)
  BY <1>1, OneCommits
<1>4. claim \in {None, job[c].claim}
  <2>1. Fits("unclaim", job[c]) /\ HolderInv(c) /\ job[c] \in Jobs
    BY <1>1, HolderFacts DEF IInv, TypeInv, TypeOK
  <2>2. CASE job[c].kind = "finish"
    BY <1>1, <1>3, <2>2 DEF KillInv, RecoverInv, FinishInv
  <2>3. CASE job[c].kind \in Rotations \cup {"resume"}
    BY <1>1, <2>1, <2>3 DEF HolderInv
  <2>4. QED
    BY <2>1, <2>2, <2>3 DEF Fits, Jobs, Rotations
<1>5. claim # None => PendingAt = {} /\ claim.source # live.ino
  BY <1>1, <1>4 DEF KillInv, NamedInv, RecoverInv, CompletedInv, Belongs
<1>6. PendingAt' = PendingAt
  BY <1>1 DEF PendingAt
<1>7. RecoverInv(c)'
  BY <1>2 DEF RecoverInv, RotateInv, ResumeInv, UnlinkedInv, OldInv, FinishInv, CompletedInv,
     Cuts, Committed
<1>8. ASSUME NEW d \in Compactor \ {c} PROVE RecoverInv(d)'
  <2>1. RecoverInv(d)
    BY DEF KillInv
  <2>2. RotateInv(d)'
    BY <1>1, <1>2, <1>5, <1>6, <2>1 DEF RecoverInv, RotateInv, Rotates, Current
  <2>3. ~(job[d].kind = "resume" /\ Current(d) /\ pc[d] \in {"prepare", "lock", "publish"})
    <3> SUFFICES ASSUME job[d].kind = "resume", Current(d),
                        pc[d] \in {"prepare", "lock", "publish"}
                 PROVE  FALSE
      OBVIOUS
    <3>1. claim # None /\ job[d].claim.source = claim.source
      BY <2>1 DEF RecoverInv, ResumeInv, SameRotation
    <3>2. job[d].claim.source = live.ino
      BY DEF IInv, CommandInv, SourceInv, Cuts, Committed, Rotates, Current
    <3>3. QED
      BY <1>5, <3>1, <3>2
  <2>4. ResumeInv(d)' /\ UnlinkedInv(d)'
    BY <1>1, <1>2, <1>3, <2>3 DEF ResumeInv, UnlinkedInv, Current, Critical
  <2>5. OldInv(d)' /\ FinishInv(d)' /\ CompletedInv(d)'
    BY <1>1, <1>2, <1>3, <1>6, <2>1 DEF RecoverInv, OldInv, FinishInv, CompletedInv, Current, Cuts
  <2>6. QED
    BY <2>2, <2>4, <2>5 DEF RecoverInv
<1>9. QED
  BY <1>1, <1>7, <1>8 DEF KillInv, AbandonedInv, NamedInv

-----------------------------------------------------------------------------
(* Steps of the others.                                                    *)

\* No command under the lock, no pending claim or drop, and a file that nobody has seen.
LEMMA CleanKeeps ==
  ASSUME IInv, KillInv, LoneInv', Clean
  PROVE  KillInv'
<1>1. UNCHANGED <<segments, gz, claim, dead, pc, job>> /\ claim = None /\ holder = None
  BY DEF Clean, Truncate, Free, archive, lock, compact
<1>2. PICK ino \in Inodes : Unused(ino) /\ live'.ino = ino
  BY DEF Clean, Truncate
<1>3. \A c \in Compactor : ~Current(c)'
  <2>1. TypeOK
    BY DEF IInv, TypeInv
  <2>2. \A c \in Compactor : ino # job[c].source
    BY <1>2, <2>1, NewFile
  <2>3. QED
    BY <1>1, <1>2, <2>2 DEF Current
<1>4. \A c \in Compactor : pc'[c] \notin Critical
  BY <1>1, RecordAssumption DEF IInv, TypeInv, KindInv
<1>5. \A c \in Compactor : RecoverInv(c)'
  BY <1>3, <1>4 DEF RecoverInv, RotateInv, ResumeInv, UnlinkedInv, OldInv, FinishInv, CompletedInv,
     Critical
<1>6. QED
  BY <1>1, <1>5 DEF KillInv, AbandonedInv, NamedInv

\* Whoever leaves the compact commands and their files alone changes nothing of this.
LEMMA RestKeeps ==
  ASSUME KillInv, UNCHANGED <<segments, gz, claim, dead, pc, job>>, live'.ino = live.ino
  PROVE  KillInv'
<1>1. PendingAt' = PendingAt
  BY DEF PendingAt
<1>2. \A c \in Compactor : Overtaken(c)' <=> Overtaken(c)
  BY DEF Overtaken, Committing, Holds
<1>3. AbandonedInv' /\ NamedInv' /\ LoneInv'
  BY <1>1 DEF KillInv, AbandonedInv, NamedInv, LoneInv, Alone, Owns, Rotates, Replacing, Belongs
<1>4. ASSUME NEW c \in Compactor PROVE RecoverInv(c)'
  <2>1. RecoverInv(c)
    BY DEF KillInv
  <2>2. RotateInv(c)' /\ ResumeInv(c)' /\ UnlinkedInv(c)'
    BY <1>1, <1>2, <2>1 DEF RecoverInv, RotateInv, ResumeInv, UnlinkedInv, Rotates, Current
  <2>3. OldInv(c)' /\ FinishInv(c)' /\ CompletedInv(c)'
    BY <1>1, <1>2, <2>1 DEF RecoverInv, OldInv, FinishInv, CompletedInv, Cuts, Current
  <2>4. QED
    BY <2>2, <2>3 DEF RecoverInv
<1>5. QED
  BY <1>3, <1>4 DEF KillInv

\* Every step keeps it, if at most one command is killed and that one has no company.
LEMMA NextKill ==
  ASSUME IInv, KillInv, [Next]_vars, KillAlone \/ ~Overlap, MaxKills <= 1
  PROVE  KillInv'
<1>1. IInv' /\ LoneInv'
  BY NextIInv, LoneStep DEF KillInv
<1>2. CASE AddRow
  BY <1>2, RestKeeps DEF AddRow, archive, lock, compact
<1>3. CASE Clean
  BY <1>1, <1>3, CleanKeeps
<1>4. ASSUME NEW c \in Compactor, CompactStep(c)
      PROVE  KillInv'
  BY <1>1, <1>4, BeginKeeps, ReadClaimKeeps, PrepareKeeps, EnterKeeps, PublishKeeps, LinkKeeps,
     StoreKeeps, WriteCursorKeeps, RenameKeeps, CompleteKeeps, UnclaimKeeps, LeaveKeeps
     DEF CompactStep
<1>5. ASSUME NEW c \in Compactor, Begin(c) \/ Kill(c)
      PROVE  KillInv'
  BY <1>1, <1>5, BeginKeeps, KillKeeps
<1>6. ASSUME NEW c \in Compactor, Revoke(c)
      PROVE  KillInv'
  BY <1>6, RestKeeps DEF Revoke, L!Revoke, log, archive, compact
<1>7. ASSUME NEW s \in Syncer, SyncBegin(s) \/ SyncStep(s) \/ CheckpointTorn(s)
      PROVE  KillInv'
  BY <1>7, RestKeeps DEF SyncBegin, SyncStep, Capture, ReadPage, UploadAnswered, UploadFails,
     Checkpoint, CheckpointTorn, SyncReads, log, archive, lock, compact
<1>8. CASE UNCHANGED vars
  BY <1>8, RestKeeps DEF vars, log, archive, lock, compact
<1>9. QED
  BY <1>2, <1>3, <1>4, <1>5, <1>6, <1>7, <1>8 DEF Next

\* With the lock free nobody is between the claim and its drop.
LEMMA KillRecoverable ==
  ASSUME IInv, KillInv
  PROVE  ClaimRecoverable
<1> SUFFICES ASSUME Free, claim # None
             PROVE  /\ live.ino \in {claim.source, claim.replacement}
                    /\ PendingSegment # None => Matches(PendingSegment, claim)
  BY DEF ClaimRecoverable
<1>1. ~Replacing
  BY RecordAssumption DEF IInv, TypeInv, KindInv, Replacing, Critical, Free
<1>2. segments \in Seq(Segments) /\ claim \in Claims
  BY DEF IInv, TypeInv, TypeOK
<1>3. ASSUME PendingSegment # None PROVE Matches(PendingSegment, claim)
  <2>1. PICK i \in PendingAt : PendingSegment = segments[i]
    BY <1>2, <1>3, PendingSegmentFacts DEF PendingAt
  <2>2. /\ Belongs(segments[i], claim)
        /\ segments[i].pending.replacement = claim.replacement
    BY <1>1 DEF KillInv, NamedInv
  <2>3. segments[i].pending \in Drops
    <3>1. i \in DOMAIN segments /\ segments[i].pending # None
      BY DEF PendingAt, Pending
    <3>2. segments[i] \in Segments
      BY <1>2, <3>1
    <3>3. QED
      BY <3>1, <3>2 DEF Segments
  <2>4. segments[i].pending = Drop(claim)
    BY <2>2, <2>3 DEF Belongs, Drops, Drop
  <2>5. QED
    BY <2>1, <2>2, <2>4 DEF Matches, Belongs
<1>4. QED
  BY <1>3 DEF KillInv, NamedInv

\* A killed rotation can always be taken up again (compact.ts:27): if commands do not
\* overlap, or the one that is killed has no company, and at most one is killed, then
\* whenever the lock is free the claim names the live file, and the manifest has no other
\* drop than the claim's.
THEOREM ClaimStaysRecoverable ==
  ASSUME KillAlone \/ ~Overlap, MaxKills <= 1
  PROVE  Spec => []ClaimRecoverable
<1>1. Init => KillInv
  BY InitKill
<1>2. IInv /\ IInv' /\ KillInv /\ [Next]_vars => KillInv'
  BY NextKill
<1>3. IInv /\ KillInv => ClaimRecoverable
  BY KillRecoverable
<1>4. QED
  BY <1>1, <1>2, <1>3, Inductive, PTL DEF Spec
=============================================================================
