------------------------ MODULE CanaryGateSlotProofs ------------------------
(***************************************************************************)
(* More proofs about CanaryGate: a gate stays readable (GateStaysReadable) *)
(* and a slot stays in somebody's hands (SlotsAreOwned).                   *)
(*                                                                         *)
(* The first is a property of every step (Reads); the second rests on      *)
(* SlotInv, which needs that no crash fell into the subject and that every *)
(* gate can be read: what cannot be read is never written again, so a disk *)
(* that can be read comes from one that could.                             *)
(***************************************************************************)
EXTENDS CanaryGateProofs

USE GateAssumption

-----------------------------------------------------------------------------
(* What an operation does to the checks of its gate.                       *)

\* The gate of s can still be read, or it is closed while it cannot be.
StaysOrCloses(d, w, s) ==
  \/ Readable(w, s)
  \/ /\ d.gate[s].state = "in_flight" /\ w.gate[s].state = "failed"
     /\ w.gate[s].active = d.gate[s].active
  \/ d.gate[s].retired /\ w.gate[s].state = "failed"

\* The exceptions of GateStaysReadable.
Excused(s) ==
  LET g == disk.gate[s]
      h == disk'.gate[s]
  IN \/ faults # faults' /\ s \in torn'
     \/ g.state = "in_flight" /\ h.state = "failed" /\ h.active = g.active
     \/ daemon[s].at = "press" /\ h.pressed
     \/ g.retired /\ h.state = "failed"
     \/ h.tainted

\* A step of s keeps its gate readable and writes none that is not.
Reads(s) ==
  /\ Readable(disk, s) => Readable(disk', s) \/ Excused(s)
  /\ Readable(disk, s) \/ (disk'.gate = disk.gate /\ disk'.queue = disk.queue)

LEMMA ReadableSame ==
  ASSUME NEW d, NEW w, NEW s, w.gate = d.gate, w.queue = d.queue
  PROVE  Readable(w, s) <=> Readable(d, s)
  BY DEF Readable, SelectionMatches, Queued

\* A commit.  Its task loses the slot and, with it, the check of its entry.
LEMMA ClosedByReads ==
  ASSUME NEW d \in Disk, NEW s \in Subjects, NEW w, Safe(d), Readable(d, s),
         ClosedBy(d, w, s)
  PROVE  StaysOrCloses(d, w, s)
<1> DEFINE g == d.gate[s]
           h == w.gate[s]
           k == d.failures[s].last
<1>1. /\ h.state = "failed" /\ h.active = g.active \ {k} /\ h.named = g.named \ {k}
      /\ ~ h.pressed /\ h.selected = (IF k \in g.active THEN Scan ELSE g.selected)
      /\ h.act = g.act /\ h.retired = g.retired /\ h.tainted = g.tainted
      /\ w.queue = AfterCommit(d, s)
  BY ClosedByFacts, ClosedGateFacts
<1>2. g.active \subseteq Of(s) /\ g.active \in SUBSET Units
  BY TaskFacts DEF Safe, DiskInv
<1>3. \A u \in Units : u # k => w.queue[u] = d.queue[u]
  <2>1. w.queue = AfterCommit(d, s)
    BY <1>1
  <2>2. \A u \in Units : u # d.failures[s].last => AfterCommit(d, s)[u] = d.queue[u]
    BY AfterCommitFacts
  <2> QED BY <2>1, <2>2
<1>4. /\ g.retired <=> g.state = "inactive"
      /\ Cardinality(g.active) <= Limit /\ ~ g.tainted
      /\ IF g.state = "in_flight" THEN g.active = {g.selected} ELSE g.selected = Scan
      /\ \A u \in g.active : SelectionMatches(d, s, u)
  BY DEF Readable
<1>5. Cardinality(h.active) <= Limit
  <2>1. CASE k \in g.active
    <3>1. k \in Units
      BY <1>2, <2>1
    <3> DEFINE us == g.active
    <3>2. us \in SUBSET Units /\ k \in us
      BY <1>2, <2>1
    <3> HIDE DEF us, g, k
    <3>3. Cardinality(us) \in Nat /\ Cardinality(us \ {k}) = Cardinality(us) - 1
      BY <3>1, <3>2, SizeFacts
    <3> QED BY <1>1, <1>4, <3>3 DEF us
  <2>2. CASE k \notin g.active
    <3>1. h.active = g.active
      BY <1>1, <2>2
    <3> QED BY <1>4, <3>1
  <2> QED BY <2>1, <2>2
<1>6. \A u \in h.active : SelectionMatches(w, s, u)
  <2> SUFFICES ASSUME NEW u \in h.active PROVE SelectionMatches(w, s, u)
    OBVIOUS
  <2>1. u \in g.active /\ u # k /\ u \in Units /\ SubjectOf[u] = s
    BY <1>1, <1>2, TaskFacts
  <2>2. w.queue[u] = d.queue[u] /\ (u \in h.named <=> u \in g.named)
    BY <1>1, <1>3, <2>1
  <2>3. SelectionMatches(d, s, u)
    BY <1>4, <2>1
  <2> QED BY <1>1, <2>1, <2>2, <2>3 DEF SelectionMatches, Queued
<1> HIDE DEF g, h, k
<1>7. CASE g.state = "in_flight" /\ k \notin g.active
  <2>1. h.active = g.active
    BY <1>1, <1>7
  <2> QED BY <1>1, <1>7, <2>1 DEF StaysOrCloses, g, h
<1>8. CASE g.retired
  BY <1>1, <1>8 DEF StaysOrCloses, g, h
<1>9. CASE ~ g.retired /\ ~ (g.state = "in_flight" /\ k \notin g.active)
  <2>1. h.selected = Scan /\ ~ h.retired /\ ~ h.tainted
    BY <1>1, <1>4, <1>9
  <2>2. Readable(w, s)
    BY <1>1, <1>5, <1>6, <2>1 DEF Readable, h
  <2> QED BY <2>2 DEF StaysOrCloses
<1> QED BY <1>7, <1>8, <1>9

LEMMA ReconcileReads ==
  ASSUME NEW d \in Disk, NEW s \in Subjects, Safe(d), Readable(d, s)
  PROVE  StaysOrCloses(d, Final(Reconcile(d, s)), s)
<1>1. CASE Outstanding(d, s)
  BY <1>1, ReconcileWrites, ClosedByReads
<1>2. CASE ~ Outstanding(d, s)
  BY <1>2, ReconcileWrites DEF StaysOrCloses
<1> QED BY <1>1, <1>2

\* A receipt is written only if the reconciliation has left every gate readable.
LEMMA FailPreclaimReads ==
  ASSUME NEW d \in Disk, NEW s \in Subjects, NEW k \in Of(s) \cup {Scan},
         Safe(d), Readable(d, s)
  PROVE  StaysOrCloses(d, Final(FailPreclaim(d, s, k)), s)
<1> DEFINE r == Final(Reconcile(d, s))
           e == Recorded(r, s, k)
           w == Final(FailPreclaim(d, s, k))
<1>1. k \in Keys
  BY TaskFacts DEF Keys
<1>2. /\ r \in Disk /\ e \in Disk /\ Receipted(r, e, s, k)
      /\ Refused(d, s) => w = r
      /\ ~ Refused(d, s) => ClosedBy(e, w, s)
  BY <1>1, FailPreclaimWrites
<1>3. StaysOrCloses(d, r, s)
  BY ReconcileReads
<1>4. CASE Refused(d, s)
  BY <1>2, <1>3, <1>4
<1>5. CASE ~ Refused(d, s)
  <2>1. Readable(r, s) /\ (r = d \/ r.gate[s].state = "failed")
    <3>1. CASE Outstanding(d, s)
      <4>1. AllReadable(r)
        BY <1>5, <3>1 DEF Refused, ReconcileRaises
      <4>2. r.gate[s].state = "failed"
        BY <3>1, ReconcileWrites, ClosedByFacts, ClosedGateFacts
      <4> QED BY <4>1, <4>2 DEF AllReadable
    <3>2. CASE ~ Outstanding(d, s)
      BY <3>2, ReconcileWrites
    <3> QED BY <3>1, <3>2
  <2>2. Safe(r)
    <3>1. CASE Outstanding(d, s)
      BY <3>1, ReconcileWrites, SafeClosedBy
    <3>2. CASE ~ Outstanding(d, s)
      BY <3>2, ReconcileWrites
    <3> QED BY <3>1, <3>2
  <2> HIDE DEF r, e, w
  <2>3. e.gate = r.gate /\ e.queue = r.queue /\ Safe(e) /\ Readable(e, s)
    BY <1>2, <2>1, <2>2, SafeReceipted, ReadableSame DEF Receipted
  <2>4. StaysOrCloses(e, w, s)
    BY <1>2, <1>5, <2>3, ClosedByReads
  <2>5. r = d \/ (e.gate[s].state = "failed" /\ ~ e.gate[s].retired)
    BY <2>1, <2>3 DEF Readable
  <2>6. CASE r = d
    BY <2>3, <2>4, <2>6 DEF StaysOrCloses, w
  <2>7. CASE e.gate[s].state = "failed" /\ ~ e.gate[s].retired
    BY <2>4, <2>7 DEF StaysOrCloses, w
  <2> QED BY <2>5, <2>6, <2>7
<1> QED BY <1>4, <1>5

-----------------------------------------------------------------------------
(* The steps of the specification, as far as the checks go.                *)

LEMMA UntouchedReads ==
  ASSUME NEW s \in Subjects, disk'.gate = disk.gate, disk'.queue = disk.queue
  PROVE  Reads(s)
<1>1. Readable(disk', s) <=> Readable(disk, s)
  BY DEF Readable, SelectionMatches, Queued
<1> QED BY <1>1 DEF Reads

\* An operation that is carried out or cut.
LEMMA WrittenReads ==
  ASSUME CanaryBase, NEW s \in Subjects, NEW ws, NEW opened, Readable(disk, s),
         StaysOrCloses(disk, Final(ws), s) \/ Final(ws).gate[s].tainted,
         disk' = Final(ws) \/ Torn(s, ws, opened)
  PROVE  Reads(s)
<1>1. CASE disk' = Final(ws)
  <2>1. StaysOrCloses(disk, disk', s) \/ disk'.gate[s].tainted
    BY <1>1
  <2>2. Readable(disk', s) \/ Excused(s)
    BY <2>1 DEF StaysOrCloses, Excused
  <2> QED BY <2>2 DEF Reads
<1>2. CASE Torn(s, ws, opened)
  <2>1. faults \in 0..Faults /\ faults' = faults + 1 /\ s \in torn'
    BY <1>2, BaseFacts DEF Torn, Faulty
  <2>2. Excused(s)
    BY <2>1 DEF Excused
  <2> QED BY <2>2 DEF Reads
<1> QED BY <1>1, <1>2

\* A lease is written, or nothing.
LEMMA QuietReads ==
  ASSUME CanaryBase, NEW s \in Subjects, NEW u \in Units, NEW x \in LeaseStates,
         disk' = disk \/ disk' = [disk EXCEPT !.lease[u] = x]
  PROVE  Reads(s)
<1>1. disk \in Disk
  BY BaseFacts
<1>2. disk'.gate = disk.gate /\ disk'.queue = disk.queue
  <2>1. CASE disk' = disk
    BY <2>1
  <2>2. CASE disk' = [disk EXCEPT !.lease[u] = x]
    BY <1>1, <2>2, LeaseWrite
  <2> QED BY <2>1, <2>2
<1> QED BY <1>2, UntouchedReads

\* The recording of a failure.
LEMMA RecordReads ==
  ASSUME CanaryBase, NEW s \in Subjects, NEW k \in Of(s) \cup {Scan}, Open(disk, s),
         \/ disk' = Final(FailPreclaim(disk, s, k))
         \/ Torn(s, FailPreclaim(disk, s, k), reopened)
  PROVE  Reads(s)
<1>1. disk \in Disk /\ Safe(disk) /\ Readable(disk, s)
  BY BaseFacts DEF Open
<1>2. StaysOrCloses(disk, Final(FailPreclaim(disk, s, k)), s)
  BY <1>1, FailPreclaimReads
<1> QED BY <1>1, <1>2, WrittenReads

\* A reconciliation.
LEMMA ReconciledReads ==
  ASSUME CanaryBase, NEW s \in Subjects, Open(disk, s),
         disk' = Final(Reconcile(disk, s)) \/ Torn(s, Reconcile(disk, s), reopened)
  PROVE  Reads(s)
<1>1. disk \in Disk /\ Safe(disk) /\ Readable(disk, s)
  BY BaseFacts DEF Open
<1>2. StaysOrCloses(disk, Final(Reconcile(disk, s)), s)
  BY <1>1, ReconcileReads
<1> QED BY <1>1, <1>2, WrittenReads

\* The steps of the daemon that write neither gate nor queue.
LEMMA QuietDaemonReads ==
  ASSUME CanaryBase, NEW s \in Subjects,
         \/ StartDaemon(s) \/ LoopHead(s) \/ Stop(s) \/ Exit(s) \/ Kill(s)
         \/ PassAborts(s) \/ Select(s)
  PROVE  Reads(s)
<1>1. disk' = disk
  BY DEF StartDaemon, LoopHead, Stop, Exit, Kill, PassAborts, Select, Moves
<1> QED BY <1>1, UntouchedReads

LEMMA LaunchReads ==
  ASSUME CanaryBase, NEW s \in Subjects, Launch(s)
  PROVE  Reads(s)
<1> DEFINE u == First(daemon[s].todo)
<1>1. u \in Units
  BY BaseFacts, AfterTaskFacts, TaskFacts DEF Launch, DaemonInv
<1>2. disk' = disk \/ disk' = [disk EXCEPT !.lease[u] = "retry_wait"]
  BY DEF Launch
<1>3. "retry_wait" \in LeaseStates
  BY DEF LeaseStates
<1> HIDE DEF u
<1> QED BY <1>1, <1>2, <1>3, QuietReads

LEMMA WorkerEndsReads ==
  ASSUME CanaryBase, NEW u \in Units, WorkerEnds(u)
  PROVE  Reads(SubjectOf[u])
<1>1. disk' = disk \/ disk' = [disk EXCEPT !.lease[u] = "completed"]
  BY DEF WorkerEnds
<1>2. "completed" \in LeaseStates /\ SubjectOf[u] \in Subjects
  BY TaskFacts DEF LeaseStates
<1> QED BY <1>1, <1>2, QuietReads

LEMMA ReconcilingReads ==
  ASSUME CanaryBase, NEW s \in Subjects, BeginScan(s) \/ ReadStatus(s) \/ Inspect(s)
  PROVE  Reads(s)
<1>1. /\ Open(disk, s)
      /\ disk' = Final(Reconcile(disk, s)) \/ Torn(s, Reconcile(disk, s), reopened)
  BY DEF BeginScan, ReadStatus, Inspect, Does
<1> QED BY <1>1, ReconciledReads

\* The tasks that are recorded as failed.
LEMMA RecordingReads ==
  ASSUME CanaryBase, NEW s \in Subjects, ScanFails(s) \/ SelectFails(s) \/ SubmitFails(s)
  PROVE  Reads(s)
<1>1. \E k \in Of(s) \cup {Scan} :
        /\ Open(disk, s)
        /\ \/ disk' = Final(FailPreclaim(disk, s, k))
           \/ Torn(s, FailPreclaim(disk, s, k), reopened)
  <2>1. CASE ScanFails(s)
    BY <2>1 DEF ScanFails, Unrecorded
  <2>2. CASE SelectFails(s)
    <3>1. Chosen(s) \subseteq Of(s) /\ Chosen(s) \in SUBSET Units
      BY TaskFacts DEF Chosen, Pending
    <3>2. Chosen(s) # {} => First(Chosen(s)) \in Of(s)
      BY <3>1, FirstIsOne
    <3> QED BY <2>2, <3>2 DEF SelectFails
  <2>3. CASE SubmitFails(s)
    <3>1. First(daemon[s].todo) \in Of(s)
      BY <2>3, BaseFacts, AfterTaskFacts DEF SubmitFails, DaemonInv
    <3> QED BY <2>3, <3>1 DEF SubmitFails, Records, Does
  <2> QED BY <2>1, <2>2, <2>3
<1> QED BY <1>1, RecordReads

\* A task is recorded: it had no entry, so it held no slot.
LEMMA MaterializeReads ==
  ASSUME CanaryBase, NEW s \in Subjects, Materialize(s)
  PROVE  Reads(s)
<1>1. Open(disk, s) /\ Readable(disk, s) /\ disk \in Disk /\ Safe(disk)
  BY BaseFacts DEF Materialize, Open
<1>2. PICK u \in Unrecorded(s) :
        IF disk.gate[s].state = "inactive" THEN Records(s, u, daemon[s])
        ELSE disk' = [disk EXCEPT !.queue[u] =
                        [status |-> "pending", named |-> FALSE,
                         act |-> disk.gate[s].act]]
  BY DEF Materialize
<1>3. u \in Of(s) /\ u \in Units /\ disk.queue[u].status = "none"
  BY TaskFacts DEF Unrecorded
<1>4. CASE disk.gate[s].state = "inactive"
  BY <1>1, <1>2, <1>3, <1>4, RecordReads DEF Records, Does
<1>5. CASE disk.gate[s].state # "inactive"
  <2>1. disk' = Enqueued(disk, s, u)
    BY <1>2, <1>5 DEF Enqueued, NewEntry
  <2>2. /\ disk'.gate = disk.gate
        /\ disk'.queue = [disk.queue EXCEPT ![u] = NewEntry(disk, s)]
    BY <1>1, <1>3, <2>1, EnqueueEffect
  <2>3. \A v \in Units : v # u => disk'.queue[v] = disk.queue[v]
    BY <1>1, <2>2, DiskParts
  <2>4. disk.gate[s].active \subseteq Units
    BY <1>1, TaskFacts DEF Safe, DiskInv
  <2>5. \A v \in disk.gate[s].active : SelectionMatches(disk', s, v)
    BY <1>1, <1>3, <2>2, <2>3, <2>4 DEF Readable, SelectionMatches, Queued
  <2>6. Readable(disk', s)
    BY <1>1, <2>2, <2>5 DEF Readable
  <2> QED BY <1>1, <2>6 DEF Reads
<1> QED BY <1>4, <1>5

LEMMA PressReads ==
  ASSUME CanaryBase, NEW s \in Subjects, Press(s)
  PROVE  Reads(s)
<1> DEFINE b == daemon[s].press
           g == disk.gate[s]
<1>1. /\ daemon[s].at = "press" /\ Readable(disk, s) /\ disk \in Disk /\ Safe(disk)
      /\ disk' = PressedDisk(disk, s, b) /\ g \in Gate /\ b \in BOOLEAN
      /\ g.state # "absent"
  BY BaseFacts, DiskParts DEF Press, PressedDisk, Open, Daemon
<1> HIDE DEF b
<1>2. disk'.gate[s] = PressedGate(disk, s, b) /\ disk'.queue = disk.queue
  BY <1>1, PressEffect
<1>3. /\ disk'.gate[s].pressed = b
      /\ disk'.gate[s].state = g.state /\ disk'.gate[s].active = g.active
      /\ disk'.gate[s].named = g.named /\ disk'.gate[s].act = g.act
      /\ disk'.gate[s].retired = g.retired /\ disk'.gate[s].tainted = g.tainted
      /\ disk'.gate[s].selected = g.selected
  BY <1>1, <1>2 DEF PressedGate, Gate
<1>4. \A u \in g.active : SelectionMatches(disk', s, u)
  <2>1. \A u \in g.active : SubjectOf[u] = s
    BY <1>1, TaskFacts DEF Safe, DiskInv
  <2> QED BY <1>1, <1>2, <1>3, <2>1 DEF Readable, SelectionMatches, Queued
<1>5. ~ b => Readable(disk', s)
  BY <1>1, <1>3, <1>4 DEF Readable
<1>6. b => Excused(s)
  BY <1>1, <1>3 DEF Excused
<1> QED BY <1>1, <1>5, <1>6 DEF Reads

\* The projection of a result fails.
LEMMA ReapReads ==
  ASSUME CanaryBase, NEW s \in Subjects, Reap(s)
  PROVE  Reads(s)
<1> DEFINE u == First(daemon[s].todo)
           g == disk.gate[s]
           h == disk'.gate[s]
<1>1. u \in Units /\ SubjectOf[u] = s
  <2>1. daemon[s].todo \subseteq Of(s) /\ daemon[s].todo # {}
        /\ daemon[s].todo \in SUBSET Units
    BY BaseFacts, TaskFacts DEF Reap, DaemonInv
  <2> QED BY <2>1, FirstIsOne, TaskFacts
<1>2. disk' = disk \/ (HasTerminal(disk, u) /\ disk' = Final(FailPostTerminal(disk, u)))
  BY DEF Reap
<1> HIDE DEF u
<1>3. CASE disk' = disk
  BY <1>3, UntouchedReads
<1>4. CASE HasTerminal(disk, u) /\ disk' = Final(FailPostTerminal(disk, u))
  <2>1. Readable(disk, s) /\ disk \in Disk /\ Safe(disk)
    BY <1>1, <1>4, BaseFacts DEF HasTerminal, Open
  <2>2. disk'.gate[s] = ProjectionGate(disk, u) /\ disk'.queue = disk.queue
    BY <1>1, <1>4, <2>1, PostTerminalEffect
  <2>3. /\ h.state = "failed" /\ h.selected = Scan /\ h.active = g.active
        /\ h.named = g.named /\ ~ h.pressed
        /\ h.act = g.act /\ h.retired = g.retired /\ h.tainted = g.tainted
    BY <1>1, <2>1, <2>2, ProjectionGateFacts
  <2>4. \A v \in g.active : SelectionMatches(disk', s, v)
    <3>1. \A v \in g.active : SubjectOf[v] = s
      BY <2>1, TaskFacts DEF Safe, DiskInv
    <3> QED BY <2>1, <2>2, <2>3, <3>1 DEF Readable, SelectionMatches, Queued
  <2>5. CASE g.retired
    BY <2>1, <2>3, <2>5 DEF Reads, Excused
  <2>6. CASE ~ g.retired
    <3>1. Readable(disk', s)
      BY <2>1, <2>3, <2>4, <2>6 DEF Readable
    <3> QED BY <2>1, <3>1 DEF Reads
  <2> QED BY <2>5, <2>6
<1> QED BY <1>2, <1>3, <1>4

\* The task that is claimed is admitted as AdmitEffect says, or refused.
LEMMA ClaimCases ==
  ASSUME CanaryBase, NEW s \in Subjects, Claim(s)
  PROVE  LET u == First(daemon[s].todo)
             ws == Admit(disk, u)
         IN /\ u \in daemon[s].todo /\ u \in Units /\ SubjectOf[u] = s
            /\ \/ disk' = disk /\ Moves(s, [daemon[s] EXCEPT !.at = "failing"])
               \/ /\ Admissible(disk, u) /\ Open(disk, s) /\ Grants(disk, Final(ws), s, u)
                  /\ Final(ws) \in Disk
                  /\ Final(ws).queue = QueueIs(disk, u, "claimed", FALSE)
                  /\ Final(ws).gate[s] = AdmitGate(disk, u)
                  /\ disk' = Final(ws) \/ Torn(s, ws, reopened)
<1> DEFINE u == First(daemon[s].todo)
           ws == Admit(disk, u)
<1>1. /\ daemon[s].at = "submit" /\ ~ disk.failures[s].unread /\ DiskInv(disk, s)
      /\ Settled(disk, s) \/ disk.failures[s].last \notin daemon[s].todo
      /\ disk \in Disk /\ Safe(disk)
  BY BaseFacts DEF Claim, DaemonInv
<1>2. u \in daemon[s].todo /\ u \in Units /\ SubjectOf[u] = s
  BY <1>1, AfterTaskFacts, TaskFacts
<1>3. \/ disk' = disk /\ Moves(s, [daemon[s] EXCEPT !.at = "failing"])
      \/ Admissible(disk, u) /\ (disk' = Final(ws) \/ Torn(s, ws, reopened))
  BY DEF Claim, Does, Moves
<1>4. disk.failures[s].last # u \/ disk.gate[s].notice = "acked"
  BY <1>1, <1>2, TaskFacts DEF Settled, DiskInv
<1> HIDE DEF u, ws
<1>5. ASSUME Admissible(disk, u)
      PROVE  /\ Open(disk, s) /\ Grants(disk, Final(ws), s, u) /\ Final(ws) \in Disk
             /\ Final(ws).queue = QueueIs(disk, u, "claimed", FALSE)
             /\ Final(ws).gate[s] = AdmitGate(disk, u)
  <2>1. Open(disk, s)
    BY <1>2, <1>5 DEF Admissible
  <2>2. /\ Len(ws) \in {2, 4} /\ Final(ws) = ws[Len(ws)]
        /\ \A i \in 1..Len(ws) :
             ws[i] \in Disk /\ IF i = 1 THEN Mild(disk, ws[i], s)
                                        ELSE Grants(disk, ws[i], s, u)
        /\ Final(ws).queue = QueueIs(disk, u, "claimed", FALSE)
        /\ Final(ws).gate[s] = AdmitGate(disk, u)
    BY <1>1, <1>2, <1>4, <1>5, AdmitEffect DEF ws
  <2>3. Len(ws) \in 1..Len(ws) /\ Len(ws) # 1
    BY <2>2
  <2> QED BY <2>1, <2>2, <2>3
<1> QED BY <1>2, <1>3, <1>5 DEF u, ws

LEMMA ClaimReads ==
  ASSUME CanaryBase, NEW s \in Subjects, Claim(s)
  PROVE  Reads(s)
<1> DEFINE u == First(daemon[s].todo)
           ws == Admit(disk, u)
<1>1. \/ disk' = disk
      \/ /\ Grants(disk, Final(ws), s, u)
         /\ disk' = Final(ws) \/ Torn(s, ws, reopened)
  BY ClaimCases
<1> HIDE DEF u, ws
<1>2. CASE disk' = disk
  BY <1>2, UntouchedReads
<1>3. CASE Grants(disk, Final(ws), s, u) /\ (disk' = Final(ws) \/ Torn(s, ws, reopened))
  BY <1>3, WrittenReads DEF Grants, StaysOrCloses
<1> QED BY <1>1, <1>2, <1>3

LEMMA RegisterReads ==
  ASSUME CanaryBase, NEW u \in Units, Register(u)
  PROVE  Reads(SubjectOf[u])
<1> DEFINE s == SubjectOf[u]
           ws == Identify(disk, u)
<1>1. s \in Subjects /\ disk \in Disk /\ Safe(disk)
  BY TaskFacts, BaseFacts
<1>2. \/ disk' = disk
      \/ /\ Readable(disk, s) /\ u \in disk.gate[s].active
         /\ disk' = Final(ws) \/ Torn(s, ws, reopened)
  BY DEF Register, Does, Open
<1>3. CASE disk' = disk
  BY <1>1, <1>3, UntouchedReads
<1>4. CASE /\ Readable(disk, s) /\ u \in disk.gate[s].active
           /\ disk' = Final(ws) \/ Torn(s, ws, reopened)
  <2>1. Readable(Final(ws), s)
    BY <1>1, <1>4, IdentifyEffect
  <2> HIDE DEF ws, s
  <2>2. Reads(s)
    BY <1>1, <1>4, <2>1, WrittenReads DEF StaysOrCloses
  <2> QED BY <2>2 DEF s
<1> QED BY <1>2, <1>3, <1>4

LEMMA FinishReads ==
  ASSUME CanaryBase, NEW u \in Units, FinishTask(u) \/ FailClosed(u)
  PROVE  Reads(SubjectOf[u])
<1> DEFINE s == SubjectOf[u]
<1>1. s \in Subjects /\ disk \in Disk /\ Safe(disk)
  BY TaskFacts, BaseFacts
<1>2. \/ disk' = disk
      \/ \E how : /\ Bound(disk, u)
                  /\ \/ disk' = Final(Finish(disk, u, how))
                     \/ Torn(s, Finish(disk, u, how), reopened)
  BY DEF FinishTask, FailClosed, Does
<1>3. CASE disk' = disk
  BY <1>1, <1>3, UntouchedReads
<1>4. ASSUME NEW how, Bound(disk, u),
             \/ disk' = Final(Finish(disk, u, how))
             \/ Torn(s, Finish(disk, u, how), reopened)
      PROVE  Reads(s)
  <2> DEFINE ws == Finish(disk, u, how)
  <2>1. Readable(disk, s)
    BY <1>4 DEF Bound, Open
  <2>2. Readable(Final(ws), s) \/ Final(ws).gate[s].tainted
    BY <1>1, <1>4, FinishEffect
  <2>3. disk' = Final(ws) \/ Torn(s, ws, reopened)
    BY <1>4
  <2> HIDE DEF ws, s
  <2> QED BY <1>1, <2>1, <2>2, <2>3, WrittenReads DEF StaysOrCloses
<1> QED BY <1>2, <1>3, <1>4

LEMMA ActivateReads ==
  ASSUME CanaryBase, NEW s \in Subjects, Activate(s)
  PROVE  Reads(s)
<1> DEFINE opened == reopened \cup {s}
           ws == Rewritten([disk EXCEPT !.failures[s] = NoFailure], s,
                   [NoGate EXCEPT !.state = "armed", !.act = disk.gate[s].act + 1])
<1>1. /\ disk.gate[s].act < Activations /\ Readable(disk, s)
      /\ disk.gate[s].state \in {"absent", "inactive"}
      /\ disk' = Final(ws) \/ Torn(s, ws, opened)
  BY DEF Activate, Commands
<1>2. Readable(Final(ws), s)
  <2>1. Final(ws) = ws[2] /\ \A i \in 1..2 : Opened(disk, ws[i], s)
    BY <1>1, BaseFacts, ActivateEffect
  <2>2. 2 \in 1..2
    OBVIOUS
  <2> HIDE DEF ws
  <2> QED BY <2>1, <2>2 DEF Opened
<1> HIDE DEF ws, opened
<1> QED BY <1>1, <1>2, WrittenReads DEF StaysOrCloses

LEMMA ResumeReads ==
  ASSUME CanaryBase, NEW s \in Subjects, Resume(s)
  PROVE  Reads(s)
<1> DEFINE opened == reopened \cup {s}
           ws == Rewritten(disk, s, ResumedGate(disk, s))
<1>1. /\ Readable(disk, s) /\ disk.gate[s].active = {}
      /\ disk.gate[s].state \in {"failed", "paused"}
      /\ disk' = Final(ws) \/ Torn(s, ws, opened)
  BY DEF Resume, Commands, ResumedGate, Open
<1>2. Readable(Final(ws), s)
  BY <1>1, BaseFacts, ResumeEffect DEF Opened
<1> HIDE DEF ws, opened
<1> QED BY <1>1, <1>2, WrittenReads DEF StaysOrCloses

\* A gate without slots is shut by a command.
LEMMA ShutReads ==
  ASSUME CanaryBase, NEW s \in Subjects, Deactivate(s) \/ Pause(s)
  PROVE  Reads(s)
<1> DEFINE g == disk.gate[s]
<1>1. disk \in Disk /\ Safe(disk) /\ g \in Gate
  BY BaseFacts, DiskParts
<1>2. PICK h \in {RetiredGate(disk, s), PausedGate(disk, s)} :
        /\ Open(disk, s) /\ g.active = {} /\ g.state # "inactive"
        /\ Commands(s, Rewritten(disk, s, h), reopened)
  BY DEF Deactivate, Pause, RetiredGate, PausedGate
<1> DEFINE ws == Rewritten(disk, s, h)
<1>3. Readable(disk, s) /\ (disk' = Final(ws) \/ Torn(s, ws, reopened))
  BY <1>2 DEF Commands, Open
<1>4. Final(ws).gate[s] = h /\ Final(ws).queue = disk.queue
  <2>1. /\ Len(ws) = 2 /\ Final(ws) = ws[2]
        /\ \A i \in 1..2 :
             /\ ws[i] \in Disk /\ Safe(ws[i]) /\ Kept(disk, ws[i], s)
             /\ Mild(disk, ws[i], s) /\ ws[i].gate[s] = h
             /\ ws[i].failures = disk.failures /\ ws[i].queue = disk.queue
    BY BaseFacts, ShutEffect
  <2>2. 2 \in 1..2
    OBVIOUS
  <2> HIDE DEF ws
  <2> QED BY <2>1, <2>2
<1> HIDE DEF ws
<1>5. /\ h.state \in {"inactive", "paused"} /\ (h.retired <=> h.state = "inactive")
      /\ h.active = {} /\ h.selected = g.selected /\ h.tainted = g.tainted /\ ~ h.pressed
  <2>1. ~ g.retired
    BY <1>2, <1>3 DEF Readable
  <2>2. h = [g EXCEPT !.state = "inactive", !.retired = TRUE, !.pressed = FALSE]
        \/ h = [g EXCEPT !.state = "paused", !.pressed = FALSE]
    BY DEF RetiredGate, PausedGate
  <2>3. g.active = {}
    BY <1>2
  <2> HIDE DEF g
  <2>4. CASE h = [g EXCEPT !.state = "inactive", !.retired = TRUE, !.pressed = FALSE]
    BY <1>1, <2>3, <2>4 DEF Gate
  <2>5. CASE h = [g EXCEPT !.state = "paused", !.pressed = FALSE]
    BY <1>1, <2>1, <2>3, <2>5 DEF Gate
  <2> QED BY <2>2, <2>4, <2>5
<1>6. g.selected = Scan /\ ~ g.tainted
  BY <1>2, <1>3 DEF Readable
<1>7. Cardinality({}) <= Limit
  BY FS_EmptySet
<1>8. Readable(Final(ws), s)
  BY <1>4, <1>5, <1>6, <1>7 DEF Readable
<1> QED BY <1>3, <1>8, WrittenReads DEF StaysOrCloses

\* Every step belongs to one subject and treats its gate so.
LEMMA NextReads ==
  ASSUME CanaryBase, CanaryNext
  PROVE  \E s \in Subjects : Step(s) /\ Reads(s)
<1>1. ASSUME NEW s \in Subjects, DaemonStep(s) PROVE Step(s) /\ Reads(s)
  <2>1. Reads(s)
    BY <1>1, QuietDaemonReads, ReapReads, ReconcilingReads, MaterializeReads, PressReads,
       ClaimReads, LaunchReads, RecordingReads DEF DaemonStep
  <2> QED BY <1>1, <2>1, StartDaemonStep, LoopHeadStep, DeathStep, ReapStep, BeginScanStep,
             PassAbortsStep, MaterializeStep, ReadStatusStep, PressStep, SelectStep,
             ClaimStep, LaunchStep, SubmitFailsStep DEF DaemonStep
<1>2. ASSUME NEW s \in Subjects, OperatorStep(s) PROVE Step(s) /\ Reads(s)
  BY <1>2, ActivateStep, ShutStep, InspectStep, ResumeStep,
     ActivateReads, ShutReads, ReconcilingReads, ResumeReads DEF OperatorStep
<1>3. ASSUME NEW s \in Subjects, FaultStep(s) PROVE Step(s) /\ Reads(s)
  BY <1>3, StopStep, DeathStep, ScanFailsStep, SelectFailsStep,
     QuietDaemonReads, RecordingReads DEF FaultStep
<1>4. ASSUME NEW u \in Units, ThreadStep(u)
      PROVE  Step(SubjectOf[u]) /\ Reads(SubjectOf[u])
  BY <1>4, RegisterStep, WorkerEndsStep, FinishTaskStep,
     RegisterReads, WorkerEndsReads, FinishReads DEF ThreadStep
<1>5. \A u \in Units : SubjectOf[u] \in Subjects
  BY TaskFacts
<1> QED BY <1>1, <1>2, <1>3, <1>4, <1>5 DEF CanaryNext

\* GateStaysReadable: a gate becomes unreadable in a crash, or in one of the
\* four ways the code has; nothing a subject does touches another's gate.
THEOREM GatesStayReadable == CanarySpec => GateStaysReadable
<1>1. ASSUME CanaryBase, CanaryNext, NEW t \in Subjects,
             Readable(disk, t), ~ Readable(disk', t)
      PROVE  Excused(t)
  <2>1. PICK s \in Subjects : Step(s) /\ Reads(s)
    BY <1>1, NextReads
  <2>2. CASE t = s
    BY <1>1, <2>1, <2>2 DEF Reads
  <2>3. CASE t # s
    BY <1>1, <2>1, <2>3, BaseFacts, ReadableElsewhere DEF Step, OnlyOf
  <2> QED BY <2>2, <2>3
<1>2. ASSUME UNCHANGED canaryVars, NEW t \in Subjects
      PROVE  Readable(disk', t) <=> Readable(disk, t)
  BY <1>2 DEF canaryVars, Readable, SelectionMatches, Queued
<1>3. CanaryBase /\ [CanaryNext]_canaryVars =>
        [\A s \in Subjects : Readable(disk, s) /\ ~ Readable(disk', s) => Excused(s)]_canaryVars
  BY <1>1, <1>2
<1>4. CanaryBase /\ [CanaryNext]_canaryVars =>
        [\A s \in Subjects : Readable(disk, s) /\ ~ Readable(disk', s) =>
           LET g == disk.gate[s]
               h == disk'.gate[s]
           IN \/ faults # faults' /\ s \in torn'
              \/ g.state = "in_flight" /\ h.state = "failed" /\ h.active = g.active
              \/ daemon[s].at = "press" /\ h.pressed
              \/ g.retired /\ h.state = "failed"
              \/ h.tainted]_canaryVars
  BY <1>3 DEF Excused
<1> QED BY <1>4, BaseHolds, PTL DEF CanarySpec, GateStaysReadable

-----------------------------------------------------------------------------
(* Slots and claimed entries.                                              *)

\* Slots and claimed entries of the activation are the same tasks.
Agree(d, s) ==
  \A u \in Of(s) :
    u \in d.gate[s].active <=> Queued(d, u) /\ d.queue[u].status = "claimed"

Handles == Live \cup {"refused"}

\* What SlotsAreOwned rests on: a pass takes up tasks that had no thread, and
\* a task without an entry has none.
SlotInv(s) ==
  /\ Agree(disk, s)
  /\ \A u \in Of(s) :
       /\ u \in disk.gate[s].active => Owned(u)
       /\ thread[u] \in {"starting", "running"} => u \in disk.gate[s].active
       /\ thread[u] # "none" => disk.queue[u].status \notin {"none", "pending"}
  /\ daemon[s].at \in {"submit", "launch", "failing"} =>
       \A u \in daemon[s].todo : thread[u] = "none"
  /\ daemon[s].at = "launch" => First(daemon[s].todo) \in disk.gate[s].active

SlotsInv == AllReadable(disk) => \A s \in Subjects \ torn : SlotInv(s)

\* A step of s keeps its slots in hands.
KeepsSlots(s) ==
  AllReadable(disk) /\ AllReadable(disk') /\ s \notin torn' /\ SlotInv(s) => SlotInv(s)'

SameSlots(d, w, s) ==
  /\ w.gate[s].active = d.gate[s].active /\ w.gate[s].act = d.gate[s].act
  /\ \A u \in Of(s) : w.queue[u].status = d.queue[u].status
                      /\ w.queue[u].act = d.queue[u].act

\* A commit whose task holds no slot only shuts the gate.
LEMMA ClosedBySame ==
  ASSUME NEW d \in Disk, NEW s \in Subjects, NEW w, Safe(d), Agree(d, s),
         ClosedBy(d, w, s), d.failures[s].last \notin d.gate[s].active
  PROVE  SameSlots(d, w, s)
<1> DEFINE k == d.failures[s].last
<1>1. k \in Of(s) \cup {Scan} /\ (k \in Units => k \in Of(s))
  BY TaskFacts DEF Safe, DiskInv
<1>2. ~ Requeues(d, k)
  BY <1>1 DEF Agree, Requeues
<1>3. w.queue = d.queue
  <2>1. w.queue = AfterCommit(d, s)
    BY ClosedByFacts
  <2> QED BY <1>2, <2>1 DEF AfterCommit
<1>4. w.gate[s].active = d.gate[s].active /\ w.gate[s].act = d.gate[s].act
  <2>1. w.gate[s] = ClosedGate(d, s)
    BY ClosedByFacts
  <2>2. w.gate[s].active = d.gate[s].active \ {k} /\ w.gate[s].act = d.gate[s].act
    BY <2>1, ClosedGateFacts
  <2>3. \A us : k \notin us => us \ {k} = us
    OBVIOUS
  <2> QED BY <2>2, <2>3
<1> QED BY <1>3, <1>4 DEF SameSlots

LEMMA SameSlotsAgree ==
  ASSUME NEW d, NEW w, NEW s \in Subjects, Agree(d, s), SameSlots(d, w, s)
  PROVE  Agree(w, s)
  BY TaskFacts DEF Agree, SameSlots, Queued

\* A reconciliation that finds no unread receipt.
LEMMA ReconcileSame ==
  ASSUME NEW d \in Disk, NEW s \in Subjects, Safe(d), Agree(d, s),
         ~ d.failures[s].unread
  PROVE  LET r == Final(Reconcile(d, s))
         IN r \in Disk /\ Safe(r) /\ SameSlots(d, r, s)
<1>1. CASE Outstanding(d, s)
  <2>1. d.failures[s].last \notin d.gate[s].active
    BY <1>1 DEF Outstanding, Safe, DiskInv
  <2>2. /\ Final(Reconcile(d, s)) \in Disk
        /\ ClosedBy(d, Final(Reconcile(d, s)), s)
    BY <1>1, ReconcileWrites
  <2> QED BY <2>1, <2>2, ClosedBySame, SafeClosedBy
<1>2. CASE ~ Outstanding(d, s)
  BY <1>2, ReconcileWrites DEF SameSlots
<1> QED BY <1>1, <1>2

\* Recording a failure takes the slot of its task and no other.
LEMMA FailPreclaimSlots ==
  ASSUME NEW d \in Disk, NEW s \in Subjects, NEW k \in Of(s) \cup {Scan}, Safe(d),
         Agree(d, s), ~ d.failures[s].unread
  PROVE  LET w == Final(FailPreclaim(d, s, k))
         IN /\ k \notin d.gate[s].active => SameSlots(d, w, s)
            /\ \/ SameSlots(d, w, s)
                  /\ (~ AllReadable(w) \/ w.gate[s].state = "inactive")
               \/ /\ w.gate[s].active = d.gate[s].active \ {k}
                  /\ w.gate[s].act = d.gate[s].act
                  /\ \A u \in Of(s) : w.queue[u].act = d.queue[u].act
                  /\ \A u \in Of(s) \ {k} : w.queue[u].status = d.queue[u].status
                  /\ k \in Of(s) => ~ (Queued(w, k) /\ w.queue[k].status = "claimed")
<1> DEFINE r == Final(Reconcile(d, s))
           e == Recorded(r, s, k)
           w == Final(FailPreclaim(d, s, k))
<1>1. k \in Keys
  BY TaskFacts DEF Keys
<1>2. /\ e \in Disk /\ Receipted(r, e, s, k)
      /\ Refused(d, s) => w = r
      /\ ~ Refused(d, s) => ClosedBy(e, w, s)
  BY <1>1, FailPreclaimWrites
<1>3. r \in Disk /\ Safe(r) /\ SameSlots(d, r, s) /\ Agree(r, s)
  BY ReconcileSame, SameSlotsAgree
<1>4. CASE Refused(d, s)
  <2>1. ~ AllReadable(w) \/ w.gate[s].state = "inactive"
    BY <1>2, <1>4 DEF Refused, ReconcileRaises, StaleAck
  <2> QED BY <1>2, <1>3, <1>4, <2>1
<1>5. CASE ~ Refused(d, s)
  <2> HIDE DEF r, e, w
  <2>1. /\ e.gate = r.gate /\ e.queue = r.queue /\ e.failures[s].last = k
        /\ Safe(e) /\ Agree(e, s) /\ SameSlots(d, e, s)
    <3>1. e.gate = r.gate /\ e.queue = r.queue
      BY <1>2 DEF Receipted
    <3>2. e.failures[s].last = k /\ Safe(e)
      BY <1>2, <1>3, ReceiptedEffect, SafeReceipted
    <3>3. Agree(e, s) /\ SameSlots(d, e, s)
      BY <1>3, <3>1 DEF Agree, Queued, SameSlots
    <3> QED BY <3>1, <3>2, <3>3
  <2>2. ClosedBy(e, w, s)
    BY <1>2, <1>5
  <2>3. k \notin e.gate[s].active => SameSlots(e, w, s)
    BY <1>2, <2>1, <2>2, ClosedBySame
  <2>4. w.gate[s].active = e.gate[s].active \ {k} /\ w.gate[s].act = e.gate[s].act
    BY <1>2, <2>1, <2>2, ClosedByFacts, ClosedGateFacts
  <2>5. /\ \A u \in Units : w.queue[u].act = e.queue[u].act
        /\ \A u \in Units \ {k} : w.queue[u].status = e.queue[u].status
        /\ k \in Units => w.queue[k].status = IF Requeues(e, k) THEN "pending"
                                              ELSE e.queue[k].status
    <3>1. w.queue = AfterCommit(e, s)
      BY <1>2, <2>2, ClosedByFacts
    <3> QED BY <1>2, <2>1, <3>1, AfterCommitFacts
  <2>6. ASSUME k \in Of(s) PROVE ~ (Queued(w, k) /\ w.queue[k].status = "claimed")
    <3>1. k \in Units /\ SubjectOf[k] = s
      BY <2>6, TaskFacts
    <3>2. Queued(w, k) <=> Queued(e, k)
      BY <2>4, <2>5, <3>1 DEF Queued
    <3> QED BY <2>5, <3>1, <3>2 DEF Requeues
  <2>7. /\ \A u \in Of(s) : w.queue[u].act = d.queue[u].act
        /\ \A u \in Of(s) \ {k} : w.queue[u].status = d.queue[u].status
    BY <2>1, <2>5, TaskFacts DEF SameSlots
  <2>8. w.gate[s].active = d.gate[s].active \ {k} /\ w.gate[s].act = d.gate[s].act
    BY <2>1, <2>4 DEF SameSlots
  <2>9. k \notin d.gate[s].active => SameSlots(d, w, s)
    BY <2>1, <2>3 DEF SameSlots
  <2> QED BY <2>6, <2>7, <2>8, <2>9 DEF w
<1> QED BY <1>4, <1>5

\* A step that leaves slots and entries as they are, and lets go of no thread
\* and no task of the pass that has a slot.
LEMMA SlotsFrame ==
  ASSUME NEW s \in Subjects, SlotInv(s), SameSlots(disk, disk', s),
         \A u \in Of(s) : /\ thread[u] \in Handles /\ u \in disk.gate[s].active
                               => thread'[u] \in Handles
                          /\ thread'[u] \in {"starting", "running"}
                               => thread[u] \in {"starting", "running"}
                          /\ thread[u] = "none" <=> thread'[u] = "none",
         \/ daemon'[s].at = daemon[s].at /\ daemon'[s].todo = daemon[s].todo
         \/ /\ daemon[s].at \notin {"launch", "failing"} \/ disk.gate[s].active = {}
            /\ daemon'[s].at \notin {"submit", "launch", "failing"},
         \A u \in daemon[s].todo : daemon[s].at \in {"submit", "launch", "failing"}
                                     => u \in Of(s)
  PROVE  SlotInv(s)'
<1>1. Agree(disk', s)
  BY SameSlotsAgree DEF SlotInv
<1>2. disk'.gate[s].active = disk.gate[s].active
  BY DEF SameSlots
<1>3. ASSUME NEW u \in Of(s)
      PROVE  /\ u \in disk'.gate[s].active => Owned(u)'
             /\ thread'[u] \in {"starting", "running"} => u \in disk'.gate[s].active
             /\ thread'[u] # "none" => disk'.queue[u].status \notin {"none", "pending"}
  <2>1. SubjectOf[u] = s
    BY TaskFacts
  <2>2. u \in disk'.gate[s].active => Owned(u)'
    BY <1>2, <2>1 DEF SlotInv, Owned, Handles
  <2>3. thread'[u] \in {"starting", "running"} => u \in disk'.gate[s].active
    BY <1>2 DEF SlotInv
  <2>4. thread'[u] # "none" => disk'.queue[u].status \notin {"none", "pending"}
    BY DEF SlotInv, SameSlots
  <2> QED BY <2>2, <2>3, <2>4
<1>4. daemon'[s].at \in {"submit", "launch", "failing"} =>
        \A u \in daemon'[s].todo : thread'[u] = "none"
  BY DEF SlotInv
<1>5. daemon'[s].at = "launch" => First(daemon'[s].todo) \in disk'.gate[s].active
  BY <1>2 DEF SlotInv
<1> QED BY <1>1, <1>3, <1>4, <1>5 DEF SlotInv

\* A step of the loop that takes up no task, or leaves it where it is.
LEMMA RestSlots ==
  ASSUME CanaryBase, NEW s \in Subjects, SlotInv(s), SameSlots(disk, disk', s),
         \A u \in Of(s) : thread'[u] = thread[u],
         \/ daemon'[s] = daemon[s]
         \/ /\ daemon[s].at \notin {"launch", "failing"} \/ disk.gate[s].active = {}
            /\ daemon'[s].at \notin {"submit", "launch", "failing"}
  PROVE  SlotInv(s)'
<1>1. daemon[s].todo \subseteq Of(s)
  BY BaseFacts DEF DaemonInv
<1> QED BY <1>1, SlotsFrame

\* The parts of the frame that a step of the specification gives.
LEMMA SlotFacts ==
  ASSUME CanaryBase, NEW s \in Subjects, s \notin torn'
  PROVE  /\ disk \in Disk /\ Safe(disk) /\ DiskInv(disk, s)
         /\ SameSlots(disk, disk, s)
         /\ daemon[s] \in Daemon /\ daemon[s].todo \subseteq Of(s)
         /\ s \notin torn => ~ disk.failures[s].unread
         /\ disk.gate[s].state = "absent" => disk.gate[s].active = {}
         /\ \A ws, opened : ~ Torn(s, ws, opened)
<1>1. DaemonInv(s) /\ DiskInv(disk, s)
  BY BaseFacts
<1>2. \A ws, opened : ~ Torn(s, ws, opened)
  BY DEF Torn
<1>3. /\ daemon[s].todo \subseteq Of(s)
      /\ s \notin torn => ~ disk.failures[s].unread
  BY <1>1 DEF DaemonInv
<1> QED BY <1>1, <1>2, <1>3, BaseFacts DEF DiskInv, SameSlots

\* No step repairs the history of crashes.
LEMMA TornGrows ==
  ASSUME NEW s \in Subjects, Step(s)
  PROVE  torn \subseteq torn'
  BY DEF Step, OnlyOf

-----------------------------------------------------------------------------
(* The steps of the daemon, as far as the slots go.                        *)

LEMMA QuietDaemonSlots ==
  ASSUME CanaryBase, NEW s \in Subjects,
         StartDaemon(s) \/ LoopHead(s) \/ Stop(s) \/ PassAborts(s)
  PROVE  KeepsSlots(s)
<1> SUFFICES ASSUME AllReadable(disk), s \notin torn', SlotInv(s) PROVE SlotInv(s)'
  BY DEF KeepsSlots
<1>1. /\ disk' = disk /\ thread' = thread
      /\ \E d \in Daemon : Goes(s, d) /\ d.at \in {"idle", "stopping", "reap"}
  <2>1. /\ Idle(s) \in Daemon /\ Idle(s).at = "idle"
        /\ [Idle(s) EXCEPT !.at = "stopping"] \in Daemon
        /\ [Idle(s) EXCEPT !.at = "stopping"].at = "stopping"
    BY BaseFacts, IdleFacts, IdleVariants
  <2>2. ASSUME LoopHead(s), Goes(s, [Idle(s) EXCEPT !.at = "reap", !.todo = DoneHandles(s)])
        PROVE  \E d \in Daemon : Goes(s, d) /\ d.at \in {"idle", "stopping", "reap"}
    <3> DEFINE r == Idle(s)
               x == DoneHandles(s)
    <3>1. r \in Daemon /\ x \in SUBSET Units
      BY <2>1, TaskFacts DEF DoneHandles
    <3> HIDE DEF r, x
    <3>2. /\ [r EXCEPT !.at = "reap", !.todo = x] \in Daemon
          /\ [r EXCEPT !.at = "reap", !.todo = x].at = "reap"
      BY <3>1 DEF Daemon
    <3> QED BY <2>2, <3>2 DEF r, x
  <2> QED BY <2>1, <2>2 DEF StartDaemon, LoopHead, Stop, PassAborts, Moves
<1>2. daemon'[s].at \in {"idle", "stopping", "reap"}
  BY <1>1, BaseFacts, GoesFacts
<1>3. daemon[s].at \notin {"launch", "failing"} \/ disk.gate[s].active = {}
  <2>1. CASE PassAborts(s)
    <3>1. ~ Open(disk, s)
      BY <2>1 DEF PassAborts
    <3> QED BY <3>1, BaseFacts DEF AllReadable, Open, DiskInv
  <2>2. CASE ~ PassAborts(s)
    BY <2>2 DEF StartDaemon, LoopHead, Stop
  <2> QED BY <2>1, <2>2
<1>4. SameSlots(disk, disk', s)
  BY <1>1 DEF SameSlots
<1> QED BY <1>1, <1>2, <1>3, <1>4, RestSlots

\* The process ends when no thread is left, so no slot is.
LEMMA ExitSlots ==
  ASSUME CanaryBase, NEW s \in Subjects, Exit(s)
  PROVE  KeepsSlots(s)
<1> SUFFICES ASSUME SlotInv(s) PROVE SlotInv(s)'
  BY DEF KeepsSlots
<1>1. /\ daemon[s].at = "stopping" /\ disk' = disk /\ Dies(s)
      /\ \A u \in Of(s) : thread[u] \notin Handles
  BY DEF Exit, Handles
<1>2. \A u \in Of(s) : SubjectOf[u] = s
  BY TaskFacts
<1>3. disk.gate[s].active = {}
  <2>1. \A u \in Of(s) : u \notin disk.gate[s].active
    BY <1>1, <1>2 DEF SlotInv, Owned, Handles
  <2> QED BY <2>1, BaseFacts DEF DiskInv
<1>4. /\ daemon'[s].at = "down"
      /\ \A u \in Of(s) : thread'[u] = IF thread[u] = "none" THEN "none" ELSE "gone"
  BY <1>1, BaseFacts, DiesFacts DEF Down
<1>5. daemon[s].todo \subseteq Of(s)
  BY BaseFacts DEF DaemonInv
<1>6. SameSlots(disk, disk', s)
  BY <1>1 DEF SameSlots
<1> QED BY <1>1, <1>3, <1>4, <1>5, <1>6, SlotsFrame

LEMMA KillSlots ==
  ASSUME NEW s \in Subjects, Kill(s)
  PROVE  KeepsSlots(s)
  BY DEF Kill, KeepsSlots

\* The pass takes up pending tasks, which have no thread.
LEMMA SelectSlots ==
  ASSUME CanaryBase, NEW s \in Subjects, Select(s)
  PROVE  KeepsSlots(s)
<1> SUFFICES ASSUME SlotInv(s), s \notin torn' PROVE SlotInv(s)'
  BY DEF KeepsSlots
<1> DEFINE d == IF Chosen(s) = {} THEN Idle(s)
                ELSE [Idle(s) EXCEPT !.at = "submit", !.todo = Chosen(s)]
<1>1. daemon[s].at = "select" /\ disk' = disk /\ thread' = thread /\ Goes(s, d)
  BY DEF Select, Moves
<1>2. /\ Idle(s) \in Daemon /\ Idle(s).at = "idle"
      /\ Chosen(s) \subseteq Pending(s) /\ Chosen(s) \in SUBSET Units
      /\ Pending(s) \subseteq Of(s)
  BY BaseFacts, IdleFacts, TaskFacts DEF Chosen, Pending
<1>3. /\ d \in Daemon
      /\ d.at = "idle" \/ (d.at = "submit" /\ d.todo = Chosen(s))
  <2>1. CASE Chosen(s) = {}
    BY <1>2, <2>1
  <2>2. CASE Chosen(s) # {}
    <3> DEFINE r == Idle(s)
               x == Chosen(s)
    <3>1. d = [r EXCEPT !.at = "submit", !.todo = x] /\ r \in Daemon /\ x \in SUBSET Units
      BY <1>2, <2>2
    <3> HIDE DEF r, x, d
    <3>2. d \in Daemon /\ d.at = "submit" /\ d.todo = x
      BY <3>1 DEF Daemon
    <3> QED BY <3>2 DEF x
  <2> QED BY <2>1, <2>2
<1> HIDE DEF d
<1>4. daemon'[s] = d
  BY <1>1, <1>3, BaseFacts, GoesFacts
<1>5. SameSlots(disk, disk', s)
  BY <1>1 DEF SameSlots
<1>6. CASE d.at = "idle"
  BY <1>1, <1>4, <1>5, <1>6, RestSlots
<1>7. CASE d.at = "submit" /\ d.todo = Chosen(s)
  <2>1. \A u \in Chosen(s) : thread[u] = "none"
    BY <1>2 DEF SlotInv, Pending
  <2>2. \A u \in Of(s) : SubjectOf[u] = s
    BY TaskFacts
  <2>3. \A u \in Of(s) : u \in disk.gate[s].active => thread[u] \in Handles
    BY <1>1, <2>2 DEF SlotInv, Owned, Handles
  <2>4. \A u \in Of(s) : u \in disk.gate[s].active => Owned(u)'
    BY <1>1, <2>3 DEF Owned, Handles
  <2>5. Agree(disk', s)
    BY <1>5, SameSlotsAgree DEF SlotInv
  <2>6. daemon'[s].at = "submit" /\ \A u \in daemon'[s].todo : thread'[u] = "none"
    BY <1>1, <1>4, <1>7, <2>1
  <2> QED BY <1>1, <2>4, <2>5, <2>6 DEF SlotInv
<1> QED BY <1>3, <1>6, <1>7

\* A result is persisted; its task has given its slot back.
LEMMA ReapSlots ==
  ASSUME CanaryBase, NEW s \in Subjects, Reap(s)
  PROVE  KeepsSlots(s)
<1> SUFFICES ASSUME SlotInv(s), s \notin torn' PROVE SlotInv(s)'
  BY DEF KeepsSlots
<1> DEFINE r == daemon[s]
           u == First(r.todo)
           rest == [r EXCEPT !.todo = r.todo \ {u}]
           shut == [rest EXCEPT !.closed = TRUE]
<1>1. /\ r.at = "reap" /\ r.todo # {} /\ r \in Daemon /\ r.todo \subseteq Of(s)
      /\ \A v \in r.todo : thread[v] = "done"
  BY BaseFacts DEF Reap, DaemonInv
<1>2. u \in r.todo /\ u \in Of(s) /\ u \in Units /\ SubjectOf[u] = s
  <2>1. r.todo \in SUBSET Units
    BY <1>1, TaskFacts
  <2> QED BY <1>1, <2>1, FirstIsOne, TaskFacts
<1>3. /\ Goes(s, rest) \/ Goes(s, shut)
      /\ thread' = thread \/ thread' = [thread EXCEPT ![u] = "gone"]
      /\ disk' = disk \/ disk' = Final(FailPostTerminal(disk, u))
  BY DEF Reap
<1>4. rest \in Daemon /\ rest.at = "reap" /\ shut \in Daemon /\ shut.at = "reap"
  <2> DEFINE x == r.todo \ {u}
  <2>1. x \in SUBSET Units
    BY <1>1, TaskFacts
  <2> HIDE DEF x, r
  <2> QED BY <1>1, <2>1 DEF Daemon
<1> HIDE DEF r, u, rest, shut
<1>5. daemon'[s].at = "reap"
  BY <1>3, <1>4, BaseFacts, GoesFacts
<1>6. SameSlots(disk, disk', s)
  <2>1. CASE disk' = disk
    BY <2>1 DEF SameSlots
  <2>2. CASE disk' = Final(FailPostTerminal(disk, u))
    BY <1>2, <2>2, BaseFacts, PostTerminalEffect, ProjectionGateFacts DEF SameSlots
  <2> QED BY <1>3, <2>1, <2>2
<1>7. /\ thread[u] = "done"
      /\ \A v \in Units : v # u => thread'[v] = thread[v]
      /\ thread'[u] = "done" \/ thread'[u] = "gone"
  <2>1. thread[u] = "done" /\ thread \in [Units -> ThreadStates]
    BY <1>1, <1>2, BaseFacts
  <2> QED BY <1>2, <1>3, <2>1
<1>8. "done" \notin Handles
  BY DEF Handles, Live
<1>9. \A v \in Of(s) :
        /\ thread[v] \in Handles => thread'[v] \in Handles
        /\ thread'[v] \in {"starting", "running"} => thread[v] \in {"starting", "running"}
        /\ thread[v] = "none" <=> thread'[v] = "none"
  <2> SUFFICES ASSUME NEW v \in Of(s)
               PROVE  /\ thread[v] \in Handles => thread'[v] \in Handles
                      /\ thread'[v] \in {"starting", "running"}
                           => thread[v] \in {"starting", "running"}
                      /\ thread[v] = "none" <=> thread'[v] = "none"
    OBVIOUS
  <2>1. CASE v = u
    BY <1>7, <1>8, <2>1
  <2>2. CASE v # u
    <3>1. thread'[v] = thread[v]
      BY <1>7, <2>2, TaskFacts
    <3> QED BY <3>1
  <2> QED BY <2>1, <2>2
<1> QED BY <1>1, <1>5, <1>6, <1>9, SlotsFrame DEF r

LEMMA GoesTo ==
  ASSUME CanaryBase, NEW s \in Subjects, NEW d, Goes(s, d)
  PROVE  daemon'[s] = d
  BY BaseFacts DEF Goes

\* A reconciliation, by the pass or by a command.
LEMMA ReconcilingSlots ==
  ASSUME CanaryBase, NEW s \in Subjects, BeginScan(s) \/ ReadStatus(s) \/ Inspect(s),
         torn \subseteq torn'
  PROVE  KeepsSlots(s)
<1> SUFFICES ASSUME SlotInv(s), s \notin torn' PROVE SlotInv(s)'
  BY DEF KeepsSlots
<1> DEFINE ws == Reconcile(disk, s)
<1>1. /\ disk' = Final(ws) /\ thread' = thread
      /\ \/ daemon' = daemon
         \/ daemon[s].at \in {"reap", "materialize"} /\ Goes(s, Idle(s))
         \/ \E a \in {"idle", "materialize"} :
              daemon[s].at = "reap" /\ Goes(s, [Idle(s) EXCEPT !.at = a])
         \/ \E n, p : /\ daemon[s].at = "materialize"
                      /\ Goes(s, [Idle(s) EXCEPT !.at = "press", !.room = n, !.press = p])
  <2>1. ~ Torn(s, ws, reopened)
    BY SlotFacts
  <2>2. CASE BeginScan(s)
    BY <2>1, <2>2 DEF BeginScan, Does
  <2>3. CASE ReadStatus(s)
    BY <2>1, <2>3 DEF ReadStatus, Does
  <2>4. CASE Inspect(s)
    BY <2>1, <2>4 DEF Inspect
  <2> QED BY <2>2, <2>3, <2>4
<1>2. SameSlots(disk, disk', s)
  <2>1. disk \in Disk /\ Safe(disk) /\ Agree(disk, s) /\ ~ disk.failures[s].unread
    BY SlotFacts DEF SlotInv
  <2> QED BY <1>1, <2>1, ReconcileSame
<1> HIDE DEF ws
<1>3. \/ daemon'[s] = daemon[s]
      \/ /\ daemon[s].at \in {"reap", "materialize"}
         /\ daemon'[s].at \in {"idle", "materialize", "press"}
  <2> DEFINE r == Idle(s)
  <2>1. r \in Daemon /\ r.at = "idle"
    BY BaseFacts, IdleFacts
  <2> HIDE DEF r
  <2>2. \A a \in {"idle", "materialize"} : [r EXCEPT !.at = a].at = a
    BY <2>1 DEF Daemon
  <2>3. \A n, p : [r EXCEPT !.at = "press", !.room = n, !.press = p].at = "press"
    BY <2>1 DEF Daemon
  <2>4. \A d : Goes(s, d) => daemon'[s] = d
    BY GoesTo
  <2>5. CASE daemon' = daemon
    BY <2>5
  <2>6. CASE daemon[s].at \in {"reap", "materialize"} /\ Goes(s, r)
    BY <2>1, <2>4, <2>6
  <2>7. ASSUME NEW a \in {"idle", "materialize"},
               daemon[s].at = "reap", Goes(s, [r EXCEPT !.at = a])
        PROVE  daemon[s].at = "reap" /\ daemon'[s].at = a
    <3>1. daemon'[s] = [r EXCEPT !.at = a]
      BY <2>4, <2>7
    <3> QED BY <2>2, <2>7, <3>1
  <2>8. ASSUME NEW n, NEW p, daemon[s].at = "materialize",
               Goes(s, [r EXCEPT !.at = "press", !.room = n, !.press = p])
        PROVE  daemon[s].at = "materialize" /\ daemon'[s].at = "press"
    <3>1. daemon'[s] = [r EXCEPT !.at = "press", !.room = n, !.press = p]
      BY <2>4, <2>8
    <3> QED BY <2>3, <2>8, <3>1
  <2> QED BY <1>1, <2>5, <2>6, <2>7, <2>8 DEF r
<1> QED BY <1>1, <1>2, <1>3, RestSlots

LEMMA PressSlots ==
  ASSUME CanaryBase, NEW s \in Subjects, Press(s)
  PROVE  KeepsSlots(s)
<1> SUFFICES ASSUME SlotInv(s), s \notin torn' PROVE SlotInv(s)'
  BY DEF KeepsSlots
<1> DEFINE b == daemon[s].press
           q == [daemon[s] EXCEPT !.at = "select", !.press = FALSE]
<1>1. /\ daemon[s].at = "press" /\ Open(disk, s) /\ disk' = PressedDisk(disk, s, b)
      /\ Goes(s, Idle(s)) \/ Goes(s, q)
      /\ thread' = thread
  BY DEF Press, PressedDisk
<1>2. Idle(s).at = "idle" /\ q.at = "select" /\ b \in BOOLEAN
  <2>1. Idle(s).at = "idle" /\ daemon[s] \in Daemon
    BY BaseFacts, IdleFacts
  <2>2. \A r \in Daemon : /\ r.press \in BOOLEAN
                         /\ [r EXCEPT !.at = "select", !.press = FALSE].at = "select"
    BY DEF Daemon
  <2> QED BY <2>1, <2>2
<1> HIDE DEF b, q
<1>3. daemon'[s].at \in {"idle", "select"}
  BY <1>1, <1>2, GoesTo
<1>4. SameSlots(disk, disk', s)
  <2>1. disk'.gate[s] = PressedGate(disk, s, b) /\ disk'.queue = disk.queue
    BY <1>1, <1>2, BaseFacts, PressEffect DEF Open
  <2>2. disk.gate[s] \in Gate
    BY BaseFacts, DiskParts
  <2> QED BY <2>1, <2>2 DEF SameSlots, PressedGate, Gate
<1> QED BY <1>1, <1>3, <1>4, RestSlots

\* The scan, or the choice of a batch, is recorded as failed: its task was
\* not recorded or pending.
LEMMA FailedScanSlots ==
  ASSUME CanaryBase, NEW s \in Subjects, NEW k \in Of(s) \cup {Scan},
         SlotInv(s), s \notin torn', torn \subseteq torn',
         disk' = Final(FailPreclaim(disk, s, k)), thread' = thread,
         k \in Of(s) => disk.queue[k].status # "claimed",
         daemon[s].at \in {"materialize", "select"},
         daemon'[s] = daemon[s] \/ daemon'[s].at = "idle"
  PROVE  SlotInv(s)'
<1>1. disk \in Disk /\ Safe(disk) /\ Agree(disk, s) /\ ~ disk.failures[s].unread
  BY SlotFacts DEF SlotInv
<1>2. k \notin disk.gate[s].active
  BY <1>1, TaskFacts DEF Agree, Safe, DiskInv
<1>3. SameSlots(disk, disk', s)
  BY <1>1, <1>2, FailPreclaimSlots
<1> QED BY <1>3, RestSlots

LEMMA ScanFailsSlots ==
  ASSUME CanaryBase, NEW s \in Subjects, ScanFails(s) \/ SelectFails(s),
         torn \subseteq torn'
  PROVE  KeepsSlots(s)
<1> SUFFICES ASSUME SlotInv(s), s \notin torn' PROVE SlotInv(s)'
  BY DEF KeepsSlots
<1>1. Idle(s).at = "idle"
  BY BaseFacts, IdleFacts
<1>2. CASE ScanFails(s)
  <2>1. PICK k \in {Scan} \cup Unrecorded(s) :
          /\ disk' = Final(FailPreclaim(disk, s, k)) /\ thread' = thread
          /\ Goes(s, Idle(s)) \/ Goes(s, daemon[s])
    BY <1>2 DEF ScanFails
  <2>2. k \in Of(s) \cup {Scan} /\ (k \in Of(s) => disk.queue[k].status # "claimed")
    BY TaskFacts DEF Unrecorded
  <2>3. daemon[s].at = "materialize"
    BY <1>2 DEF ScanFails
  <2> QED BY <1>1, <2>1, <2>2, <2>3, GoesTo, FailedScanSlots
<1>3. CASE SelectFails(s)
  <2>1. PICK k \in {Scan} \cup (IF Chosen(s) = {} THEN {} ELSE {First(Chosen(s))}) :
          disk' = Final(FailPreclaim(disk, s, k))
    BY <1>3 DEF SelectFails
  <2>2. Chosen(s) \subseteq Pending(s) /\ Chosen(s) \in SUBSET Units
        /\ Pending(s) \subseteq Of(s)
    BY TaskFacts DEF Chosen, Pending
  <2>3. Chosen(s) # {} => First(Chosen(s)) \in Pending(s)
    BY <2>2, FirstIsOne
  <2>4. k \in Of(s) \cup {Scan} /\ (k \in Of(s) => disk.queue[k].status # "claimed")
    BY <2>2, <2>3, TaskFacts DEF Pending
  <2>5. daemon[s].at = "select" /\ thread' = thread /\ Goes(s, Idle(s))
    BY <1>3 DEF SelectFails
  <2> QED BY <1>1, <2>1, <2>4, <2>5, GoesTo, FailedScanSlots
<1> QED BY <1>2, <1>3

\* A task gets an entry; it has neither a slot nor a thread.
LEMMA MaterializeSlots ==
  ASSUME CanaryBase, NEW s \in Subjects, Materialize(s), torn \subseteq torn'
  PROVE  KeepsSlots(s)
<1> SUFFICES ASSUME SlotInv(s), s \notin torn' PROVE SlotInv(s)'
  BY DEF KeepsSlots
<1>1. daemon[s].at = "materialize" /\ Open(disk, s) /\ disk \in Disk /\ Safe(disk)
  BY BaseFacts DEF Materialize
<1>2. PICK u \in Unrecorded(s) :
        IF disk.gate[s].state = "inactive" THEN Records(s, u, daemon[s])
        ELSE /\ disk' = [disk EXCEPT !.queue[u] =
                           [status |-> "pending", named |-> FALSE,
                            act |-> disk.gate[s].act]]
             /\ UNCHANGED <<thread, daemon, cli, faults, torn, reopened>>
  BY DEF Materialize
<1>3. u \in Of(s) /\ u \in Units /\ disk.queue[u].status = "none" /\ SubjectOf[u] = s
  BY TaskFacts DEF Unrecorded
<1>4. CASE disk.gate[s].state = "inactive"
  <2>1. ~ Torn(s, FailPreclaim(disk, s, u), reopened)
    BY SlotFacts
  <2>2. /\ disk' = Final(FailPreclaim(disk, s, u)) /\ thread' = thread
        /\ Goes(s, Idle(s)) \/ Goes(s, daemon[s])
    BY <1>2, <1>4, <2>1 DEF Records, Does
  <2>3. Idle(s).at = "idle"
    BY BaseFacts, IdleFacts
  <2> QED BY <1>1, <1>3, <2>2, <2>3, GoesTo, FailedScanSlots
<1>5. CASE disk.gate[s].state # "inactive"
  <2>1. disk' = Enqueued(disk, s, u) /\ thread' = thread /\ daemon' = daemon
    BY <1>2, <1>5 DEF Enqueued, NewEntry
  <2>2. /\ disk'.gate = disk.gate
        /\ disk'.queue = [disk.queue EXCEPT ![u] = NewEntry(disk, s)]
    <3>1. /\ Enqueued(disk, s, u).gate = disk.gate
          /\ Enqueued(disk, s, u).queue = [disk.queue EXCEPT ![u] = NewEntry(disk, s)]
      BY <1>1, <1>3, EnqueueEffect
    <3> QED BY <2>1, <3>1
  <2>3. /\ disk'.queue[u].status = "pending"
        /\ \A v \in Units : v # u => disk'.queue[v] = disk.queue[v]
    <3>1. NewEntry(disk, s).status = "pending"
      BY DEF NewEntry
    <3>2. disk.queue \in [Units -> QueueEntry]
      BY <1>1, DiskParts
    <3>3. /\ disk'.queue[u] = NewEntry(disk, s)
          /\ \A v \in Units : v # u => disk'.queue[v] = disk.queue[v]
      BY <1>3, <2>2, <3>2
    <3> QED BY <3>1, <3>3
  <2>4. u \notin disk.gate[s].active /\ thread[u] = "none"
    BY <1>3 DEF SlotInv, Agree
  <2>5. Agree(disk', s)
    <3> SUFFICES ASSUME NEW v \in Of(s)
                 PROVE  v \in disk'.gate[s].active
                          <=> Queued(disk', v) /\ disk'.queue[v].status = "claimed"
      BY DEF Agree
    <3>1. CASE v = u
      BY <2>2, <2>3, <2>4, <3>1
    <3>2. CASE v # u
      BY <2>2, <2>3, <3>2, TaskFacts DEF SlotInv, Agree, Queued
    <3> QED BY <3>1, <3>2
  <2>6. ASSUME NEW v \in Of(s)
        PROVE  /\ v \in disk'.gate[s].active => Owned(v)'
               /\ thread'[v] \in {"starting", "running"} => v \in disk'.gate[s].active
               /\ thread'[v] # "none" => disk'.queue[v].status \notin {"none", "pending"}
    <3>1. v \in disk'.gate[s].active => Owned(v)'
      BY <2>1, <2>2 DEF SlotInv, Owned
    <3>2. thread'[v] \in {"starting", "running"} => v \in disk'.gate[s].active
      BY <2>1, <2>2 DEF SlotInv
    <3>3. thread'[v] # "none" => disk'.queue[v].status \notin {"none", "pending"}
      BY <2>1, <2>3, <2>4, TaskFacts DEF SlotInv
    <3> QED BY <3>1, <3>2, <3>3
  <2> QED BY <1>1, <2>1, <2>5, <2>6 DEF SlotInv
<1> QED BY <1>4, <1>5

\* A command that leaves slots and entries alone.
LEMMA CommandSlots ==
  ASSUME CanaryBase, NEW s \in Subjects, NEW ws, NEW opened, Commands(s, ws, opened),
         SameSlots(disk, Final(ws), s)
  PROVE  KeepsSlots(s)
<1> SUFFICES ASSUME SlotInv(s), s \notin torn' PROVE SlotInv(s)'
  BY DEF KeepsSlots
<1>1. disk' = Final(ws) /\ thread' = thread /\ daemon' = daemon
  BY SlotFacts DEF Commands
<1> QED BY <1>1, RestSlots

LEMMA ShutSlots ==
  ASSUME CanaryBase, NEW s \in Subjects, Deactivate(s) \/ Pause(s)
  PROVE  KeepsSlots(s)
<1> DEFINE g == disk.gate[s]
<1>1. disk \in Disk /\ Safe(disk) /\ g \in Gate
  BY BaseFacts, DiskParts
<1>2. PICK h \in {RetiredGate(disk, s), PausedGate(disk, s)} :
        Commands(s, Rewritten(disk, s, h), reopened)
  BY DEF Deactivate, Pause, RetiredGate, PausedGate
<1> DEFINE ws == Rewritten(disk, s, h)
<1>3. Final(ws).gate[s] = h /\ Final(ws).queue = disk.queue
  <2>1. /\ Len(ws) = 2 /\ Final(ws) = ws[2]
        /\ \A i \in 1..2 :
             /\ ws[i] \in Disk /\ Safe(ws[i]) /\ Kept(disk, ws[i], s)
             /\ Mild(disk, ws[i], s) /\ ws[i].gate[s] = h
             /\ ws[i].failures = disk.failures /\ ws[i].queue = disk.queue
    BY BaseFacts, ShutEffect
  <2>2. 2 \in 1..2
    OBVIOUS
  <2> HIDE DEF ws
  <2> QED BY <2>1, <2>2
<1>4. h.active = g.active /\ h.act = g.act
  BY <1>1 DEF RetiredGate, PausedGate, Gate
<1>5. SameSlots(disk, Final(ws), s)
  BY <1>3, <1>4 DEF SameSlots
<1> QED BY <1>2, <1>5, CommandSlots

LEMMA ResumeSlots ==
  ASSUME CanaryBase, NEW s \in Subjects, Resume(s)
  PROVE  KeepsSlots(s)
<1> DEFINE opened == reopened \cup {s}
           g == disk.gate[s]
           h == ResumedGate(disk, s)
           ws == Rewritten(disk, s, h)
<1>1. /\ Readable(disk, s) /\ g.active = {} /\ g.state \in {"failed", "paused"}
      /\ Commands(s, ws, opened)
  BY DEF Resume, ResumedGate, Open
<1>2. g \in Gate
  BY BaseFacts, DiskParts
<1>3. Final(ws).gate[s] = h /\ Final(ws).queue = disk.queue
  <2>1. /\ Len(ws) = 2 /\ Final(ws) = ws[2]
        /\ \A i \in 1..2 :
             /\ ws[i] \in Disk /\ Safe(ws[i]) /\ Kept(disk, ws[i], s)
             /\ Opened(disk, ws[i], s) /\ ws[i].gate[s] = h
             /\ ws[i].failures = disk.failures /\ ws[i].queue = disk.queue
    BY <1>1, BaseFacts, ResumeEffect
  <2>2. 2 \in 1..2
    OBVIOUS
  <2> HIDE DEF ws
  <2> QED BY <2>1, <2>2
<1>4. h.active = g.active /\ h.act = g.act
  BY <1>2 DEF ResumedGate, Gate
<1>5. SameSlots(disk, Final(ws), s)
  BY <1>3, <1>4 DEF SameSlots
<1> QED BY <1>1, <1>5, CommandSlots

\* An activation starts without slots, and no entry is of it yet.
LEMMA ActivateSlots ==
  ASSUME CanaryBase, NEW s \in Subjects, Activate(s)
  PROVE  KeepsSlots(s)
<1> SUFFICES ASSUME SlotInv(s), s \notin torn' PROVE SlotInv(s)'
  BY DEF KeepsSlots
<1> DEFINE opened == reopened \cup {s}
           g == disk.gate[s]
           ws == Rewritten([disk EXCEPT !.failures[s] = NoFailure], s,
                   [NoGate EXCEPT !.state = "armed", !.act = disk.gate[s].act + 1])
<1>1. /\ g.act < Activations /\ Readable(disk, s) /\ g.state \in {"absent", "inactive"}
      /\ disk' = Final(ws) /\ thread' = thread /\ daemon' = daemon
  BY SlotFacts DEF Activate, Commands
<1>2. g \in Gate /\ DiskInv(disk, s) /\ disk \in Disk
  BY BaseFacts, DiskParts
<1>3. /\ Final(ws).gate[s] = SetUpGate(disk, s) /\ Final(ws).queue = disk.queue
      /\ g.active = {} /\ Final(ws).gate[s].active = {}
  <2>1. /\ Len(ws) = 2 /\ Final(ws) = ws[2]
        /\ \A i \in 1..2 :
             /\ ws[i] \in Disk /\ Safe(ws[i]) /\ Kept(disk, ws[i], s)
             /\ Opened(disk, ws[i], s) /\ ws[i].gate[s] = SetUpGate(disk, s)
             /\ ~ ws[i].failures[s].unread /\ ws[i].queue = disk.queue
    BY <1>1, BaseFacts, ActivateEffect
  <2>2. 2 \in 1..2
    OBVIOUS
  <2> HIDE DEF ws
  <2> QED BY <2>1, <2>2 DEF Opened
<1> HIDE DEF ws, opened
<1>4. SetUpGate(disk, s).act = g.act + 1
  BY DEF SetUpGate, NoGate
<1>5. disk'.gate[s].act = g.act + 1 /\ disk'.queue = disk.queue /\ disk'.gate[s].active = {}
  BY <1>1, <1>3, <1>4
<1>6. \A u \in Of(s) : ~ Queued(disk', u)
  <2> SUFFICES ASSUME NEW u \in Of(s) PROVE ~ Queued(disk', u)
    OBVIOUS
  <2>1. u \in Units /\ SubjectOf[u] = s
    BY TaskFacts
  <2>2. disk.queue[u].act \in Nat /\ g.act \in Nat
    BY <1>2, <2>1, DiskParts DEF QueueEntry, Gate
  <2>3. disk.queue[u].act <= g.act
    BY <1>2 DEF DiskInv
  <2> QED BY <1>5, <2>1, <2>2, <2>3 DEF Queued
<1>7. Agree(disk', s)
  BY <1>5, <1>6 DEF Agree
<1> QED BY <1>1, <1>3, <1>5, <1>7 DEF SlotInv

-----------------------------------------------------------------------------
(* The steps that give, use or take the slot of one task.                  *)

\* A step of one task leaves the slots of the others.
LEMMA OneTaskSlots ==
  ASSUME NEW s \in Subjects, NEW u \in Of(s), SlotInv(s),
         disk'.gate[s].act = disk.gate[s].act,
         \A v \in Of(s) \ {u} :
           /\ v \in disk'.gate[s].active <=> v \in disk.gate[s].active
           /\ disk'.queue[v].status = disk.queue[v].status
           /\ disk'.queue[v].act = disk.queue[v].act
           /\ thread'[v] = thread[v]
           /\ v \in disk.gate[s].active => Owned(v)',
         u \in disk'.gate[s].active
           <=> Queued(disk', u) /\ disk'.queue[u].status = "claimed",
         u \in disk'.gate[s].active => Owned(u)',
         thread'[u] \in {"starting", "running"} => u \in disk'.gate[s].active,
         thread'[u] # "none" => disk'.queue[u].status \notin {"none", "pending"},
         daemon'[s].at \in {"submit", "launch", "failing"} =>
           \A v \in daemon'[s].todo : thread'[v] = "none",
         daemon'[s].at = "launch" => First(daemon'[s].todo) \in disk'.gate[s].active
  PROVE  SlotInv(s)'
<1>1. Agree(disk', s)
  <2> SUFFICES ASSUME NEW v \in Of(s), v # u
               PROVE  v \in disk'.gate[s].active
                        <=> Queued(disk', v) /\ disk'.queue[v].status = "claimed"
    BY DEF Agree
  <2>1. Queued(disk', v) <=> Queued(disk, v)
    BY TaskFacts DEF Queued
  <2> QED BY <2>1 DEF SlotInv, Agree
<1>2. ASSUME NEW v \in Of(s)
      PROVE  /\ v \in disk'.gate[s].active => Owned(v)'
             /\ thread'[v] \in {"starting", "running"} => v \in disk'.gate[s].active
             /\ thread'[v] # "none" => disk'.queue[v].status \notin {"none", "pending"}
  BY DEF SlotInv
<1> QED BY <1>1, <1>2 DEF SlotInv

\* A task owned by its thread stays so.
LEMMA ThreadOwns ==
  ASSUME NEW u, thread'[u] \in Handles
  PROVE  Owned(u)'
  BY DEF Owned, Handles

LEMMA LeaseSame ==
  ASSUME NEW d \in Disk, NEW u \in Units, NEW x \in LeaseStates, NEW s
  PROVE  SameSlots(d, [d EXCEPT !.lease[u] = x], s)
<1> DEFINE w == [d EXCEPT !.lease[u] = x]
<1>1. w.gate = d.gate /\ w.queue = d.queue
  BY LeaseWrite
<1> HIDE DEF w
<1>2. SameSlots(d, w, s)
  BY <1>1 DEF SameSlots
<1> QED BY <1>2 DEF w

LEMMA RegisterSlots ==
  ASSUME CanaryBase, NEW u \in Units, Register(u)
  PROVE  KeepsSlots(SubjectOf[u])
<1> DEFINE s == SubjectOf[u]
           ws == Identify(disk, u)
<1>1. s \in Subjects /\ u \in Of(s) /\ disk \in Disk /\ Safe(disk)
  BY TaskFacts, BaseFacts
<1> SUFFICES ASSUME SlotInv(s), s \notin torn' PROVE SlotInv(s)'
  BY DEF KeepsSlots
<1>2. /\ thread[u] = "starting" /\ daemon' = daemon
      /\ \/ /\ Readable(disk, s) /\ u \in disk.gate[s].active
            /\ disk' = Final(ws) /\ Becomes(u, "running")
         \/ disk' = disk /\ Becomes(u, "failed")
  BY <1>1, SlotFacts DEF Register, Does, Open
<1>3. SameSlots(disk, disk', s)
  <2>1. CASE disk' = disk
    BY <2>1 DEF SameSlots
  <2>2. CASE /\ Readable(disk, s) /\ u \in disk.gate[s].active
             /\ disk' = Final(ws)
    <3>1. /\ Final(ws) = ws[2]
          /\ \A i \in 1..2 : /\ ws[i] \in Disk /\ Safe(ws[i]) /\ Kept(disk, ws[i], s)
                             /\ Mild(disk, ws[i], s)
          /\ \A v \in Units : ws[2].queue[v].status = disk.queue[v].status
                              /\ ws[2].queue[v].act = disk.queue[v].act
          /\ ws[2].gate[s].act = disk.gate[s].act
      BY <1>1, <2>2, IdentifyEffect
    <3>2. 2 \in 1..2
      OBVIOUS
    <3> HIDE DEF ws
    <3>3. ws[2].gate[s].active = disk.gate[s].active
      BY <3>1, <3>2 DEF Mild
    <3> QED BY <1>1, <2>2, <3>1, <3>3, TaskFacts DEF SameSlots
  <2> QED BY <1>2, <2>1, <2>2
<1> HIDE DEF ws
<1>4. /\ thread'[u] = "running" \/ thread'[u] = "failed"
      /\ \A v \in Units : v # u => thread'[v] = thread[v]
  BY <1>1, <1>2, BaseFacts DEF Becomes
<1>5. daemon[s].todo \subseteq Of(s)
  BY <1>1, SlotFacts
<1>6. {"running", "failed"} \subseteq Handles
  BY DEF Handles, Live
<1>7. \A v \in Of(s) :
        /\ thread[v] \in Handles => thread'[v] \in Handles
        /\ thread'[v] \in {"starting", "running"} => thread[v] \in {"starting", "running"}
        /\ thread[v] = "none" <=> thread'[v] = "none"
  BY <1>1, <1>2, <1>4, <1>6, TaskFacts
<1> HIDE DEF s
<1> QED BY <1>1, <1>2, <1>3, <1>5, <1>7, SlotsFrame

LEMMA WorkerEndsSlots ==
  ASSUME CanaryBase, NEW u \in Units, WorkerEnds(u)
  PROVE  KeepsSlots(SubjectOf[u])
<1> DEFINE s == SubjectOf[u]
<1>1. s \in Subjects /\ u \in Of(s) /\ disk \in Disk
  BY TaskFacts, BaseFacts
<1> SUFFICES ASSUME SlotInv(s), s \notin torn' PROVE SlotInv(s)'
  BY DEF KeepsSlots
<1>2. /\ thread[u] = "running" /\ daemon' = daemon
      /\ disk' = disk \/ disk' = [disk EXCEPT !.lease[u] = "completed"]
      /\ \E how \in {"succeeded", "failed", "closing", "unevidenced"} : Becomes(u, how)
  BY DEF WorkerEnds
<1>3. SameSlots(disk, disk', s)
  <2>1. "completed" \in LeaseStates
    BY DEF LeaseStates
  <2>2. SameSlots(disk, [disk EXCEPT !.lease[u] = "completed"], s)
    BY <1>1, <2>1, LeaseSame
  <2>3. SameSlots(disk, disk, s)
    BY DEF SameSlots
  <2> QED BY <1>2, <2>2, <2>3
<1>4. /\ thread'[u] \in {"succeeded", "failed", "closing", "unevidenced"}
      /\ \A v \in Units : v # u => thread'[v] = thread[v]
  BY <1>1, <1>2, BaseFacts DEF Becomes
<1>5. daemon[s].todo \subseteq Of(s)
  BY <1>1, SlotFacts
<1>6. {"succeeded", "failed", "closing", "unevidenced"} \subseteq Handles
  BY DEF Handles, Live
<1>7. \A v \in Of(s) :
        /\ thread[v] \in Handles => thread'[v] \in Handles
        /\ thread'[v] \in {"starting", "running"} => thread[v] \in {"starting", "running"}
        /\ thread[v] = "none" <=> thread'[v] = "none"
  BY <1>1, <1>2, <1>4, <1>6, TaskFacts
<1> HIDE DEF s
<1> QED BY <1>1, <1>2, <1>3, <1>5, <1>7, SlotsFrame

\* A task that ends gives its slot back, or held none.
LEMMA ReleaseSlots ==
  ASSUME CanaryBase, NEW u \in Units, SlotInv(SubjectOf[u]), NEW how,
         Bound(disk, u), disk' = Final(Finish(disk, u, how)),
         NEW to, Becomes(u, to), to \notin {"none", "starting", "running"},
         thread[u] # "none", daemon' = daemon
  PROVE  SlotInv(SubjectOf[u])'
<1> DEFINE s == SubjectOf[u]
           ws == Finish(disk, u, how)
<1>1. s \in Subjects /\ u \in Of(s) /\ disk \in Disk /\ Safe(disk)
  BY TaskFacts, BaseFacts
<1>2. /\ Final(ws) = ws[3]
      /\ ws[3].gate[s].active = disk.gate[s].active \ {u}
      /\ ws[3].gate[s].act = disk.gate[s].act
      /\ ws[3].queue[u].status \in {"succeeded", "failed"}
      /\ \A v \in Units : v # u => ws[3].queue[v] = disk.queue[v]
  BY <1>1, FinishEffect
<1> HIDE DEF ws
<1>3. /\ disk'.gate[s].active = disk.gate[s].active \ {u}
      /\ disk'.gate[s].act = disk.gate[s].act
      /\ disk'.queue[u].status \in {"succeeded", "failed"}
      /\ \A v \in Units : v # u => disk'.queue[v] = disk.queue[v]
  BY <1>2 DEF ws
<1>4. thread'[u] = to /\ \A v \in Units : v # u => thread'[v] = thread[v]
  BY <1>1, BaseFacts DEF Becomes
<1>5. daemon[s].todo \subseteq Of(s)
  BY <1>1, BaseFacts DEF DaemonInv
<1>6. ASSUME NEW v \in Of(s), v # u
      PROVE  /\ v \in disk'.gate[s].active <=> v \in disk.gate[s].active
             /\ disk'.queue[v].status = disk.queue[v].status
             /\ disk'.queue[v].act = disk.queue[v].act
             /\ thread'[v] = thread[v]
             /\ v \in disk.gate[s].active => Owned(v)'
  <2>1. v \in Units /\ SubjectOf[v] = s
    BY <1>1, TaskFacts
  <2>2. thread'[v] = thread[v] /\ disk'.queue[v] = disk.queue[v]
    BY <1>3, <1>4, <1>6, <2>1
  <2>3. v \in disk.gate[s].active => Owned(v)'
    BY <2>2 DEF SlotInv, Owned
  <2> QED BY <1>3, <1>6, <2>2, <2>3
<1>7. daemon'[s].at \in {"submit", "launch", "failing"} =>
        \A v \in daemon'[s].todo : v # u /\ thread'[v] = "none"
  <2> SUFFICES ASSUME daemon[s].at \in {"submit", "launch", "failing"},
                      NEW v \in daemon[s].todo
               PROVE  v # u /\ thread'[v] = "none"
    OBVIOUS
  <2>1. thread[v] = "none" /\ v \in Units
    BY <1>1, <1>5, TaskFacts DEF SlotInv
  <2> QED BY <1>4, <2>1
<1>8. daemon'[s].at = "launch" => First(daemon'[s].todo) \in disk'.gate[s].active
  <2> SUFFICES ASSUME daemon[s].at = "launch"
               PROVE  First(daemon[s].todo) \in disk'.gate[s].active
    OBVIOUS
  <2>1. First(daemon[s].todo) \in daemon[s].todo
    BY <1>1, AfterTaskFacts
  <2>2. First(daemon[s].todo) # u
    BY <1>7, <2>1
  <2> QED BY <1>3, <2>2 DEF SlotInv
<1>9. u \notin disk'.gate[s].active /\ disk'.queue[u].status \notin {"none", "pending", "claimed"}
  BY <1>3
<1> HIDE DEF s
<1>10. SlotInv(s)'
  BY <1>1, <1>3, <1>4, <1>6, <1>7, <1>8, <1>9, OneTaskSlots DEF s
<1> QED BY <1>10 DEF s

\* A task whose slot and entry disagree gives up its handle only if it holds
\* no slot.
LEMMA UnboundSlots ==
  ASSUME CanaryBase, NEW u \in Units, SlotInv(SubjectOf[u]), disk' = disk,
         daemon' = daemon, NEW to, Becomes(u, to), thread[u] # "none",
         to \notin {"none", "starting", "running"},
         to \in Handles \/ u \notin disk.gate[SubjectOf[u]].active
  PROVE  SlotInv(SubjectOf[u])'
<1> DEFINE s == SubjectOf[u]
<1>1. s \in Subjects /\ u \in Of(s)
  BY TaskFacts
<1>2. thread'[u] = to /\ \A v \in Units : v # u => thread'[v] = thread[v]
  BY <1>1, BaseFacts DEF Becomes
<1>3. daemon[s].todo \subseteq Of(s)
  BY <1>1, BaseFacts DEF DaemonInv
<1>4. SameSlots(disk, disk', s)
  BY DEF SameSlots
<1>5. \A v \in Of(s) :
        /\ thread[v] \in Handles /\ v \in disk.gate[s].active => thread'[v] \in Handles
        /\ thread'[v] \in {"starting", "running"} => thread[v] \in {"starting", "running"}
        /\ thread[v] = "none" <=> thread'[v] = "none"
  BY <1>1, <1>2, TaskFacts
<1> HIDE DEF s
<1>6. SlotInv(s)'
  BY <1>1, <1>3, <1>4, <1>5, SlotsFrame DEF s
<1> QED BY <1>6 DEF s

LEMMA FinishSlots ==
  ASSUME CanaryBase, NEW u \in Units, FinishTask(u) \/ FailClosed(u)
  PROVE  KeepsSlots(SubjectOf[u])
<1> DEFINE s == SubjectOf[u]
<1>1. s \in Subjects /\ u \in Of(s)
  BY TaskFacts
<1> SUFFICES ASSUME AllReadable(disk), SlotInv(s), s \notin torn' PROVE SlotInv(s)'
  BY DEF KeepsSlots
<1>2. \A ws, opened : ~ Torn(s, ws, opened)
  BY <1>1, SlotFacts
<1>3. ~ Bound(disk, u) => u \notin disk.gate[s].active
  <2>1. Readable(disk, s) /\ (disk.gate[s].state = "absent" => disk.gate[s].active = {})
    BY <1>1, BaseFacts DEF AllReadable, DiskInv
  <2> QED BY <2>1 DEF Bound, Open, Readable
<1>4. "closing" \in Handles
  BY DEF Handles, Live
<1>5. CASE Bound(disk, u)
  <2>1. \E how : disk' = Final(Finish(disk, u, how))
    BY <1>2, <1>5 DEF FinishTask, FailClosed, Does
  <2>2. daemon' = daemon /\ (Becomes(u, "done") \/ Becomes(u, "closing"))
    BY <1>2, <1>5 DEF FinishTask, FailClosed, Does
  <2>3. thread[u] # "none"
    BY DEF FinishTask, FailClosed
  <2> QED BY <1>5, <2>1, <2>2, <2>3, ReleaseSlots
<1>6. CASE ~ Bound(disk, u)
  <2>1. /\ disk' = disk /\ daemon' = daemon /\ thread[u] # "none"
        /\ Becomes(u, "done") \/ Becomes(u, "closing")
    BY <1>6 DEF FinishTask, FailClosed
  <2> QED BY <1>3, <1>6, <2>1, UnboundSlots
<1> QED BY <1>5, <1>6

\* What is at the hand of the pass while it takes up a task: tasks without a
\* thread; the others that hold slots have one.
LEMMA TakenUp ==
  ASSUME CanaryBase, NEW s \in Subjects, SlotInv(s),
         daemon[s].at \in {"submit", "launch", "failing"}
  PROVE  \E u \in Units :
           /\ u = First(daemon[s].todo) /\ u \in Of(s) /\ SubjectOf[u] = s
           /\ thread[u] = "none" /\ daemon[s].todo \subseteq Of(s)
           /\ \A v \in daemon[s].todo : thread[v] = "none"
           /\ \A v \in Of(s) \ {u} : v \in disk.gate[s].active => thread[v] \in Handles
<1> DEFINE u == First(daemon[s].todo)
<1>1. u \in daemon[s].todo /\ u \in Of(s)
  BY AfterTaskFacts
<1>2. u \in Units /\ SubjectOf[u] = s /\ \A v \in Of(s) : SubjectOf[v] = s
  BY <1>1, TaskFacts
<1>3. daemon[s].todo \subseteq Of(s)
  BY BaseFacts DEF DaemonInv
<1>4. \A v \in Of(s) \ {u} : v \in disk.gate[s].active => thread[v] \in Handles
  BY <1>2 DEF SlotInv, Owned, Handles
<1> QED BY <1>1, <1>2, <1>3, <1>4 DEF SlotInv

\* A task gets the slot and the claimed entry together.
LEMMA ClaimSlots ==
  ASSUME CanaryBase, NEW s \in Subjects, Claim(s)
  PROVE  KeepsSlots(s)
<1> SUFFICES ASSUME SlotInv(s), s \notin torn' PROVE SlotInv(s)'
  BY DEF KeepsSlots
<1>1. daemon[s].at = "submit" /\ disk \in Disk /\ daemon[s] \in Daemon
  BY BaseFacts DEF Claim
<1>2. PICK u \in Units :
        /\ u = First(daemon[s].todo) /\ u \in Of(s) /\ SubjectOf[u] = s
        /\ thread[u] = "none" /\ daemon[s].todo \subseteq Of(s)
        /\ \A v \in daemon[s].todo : thread[v] = "none"
        /\ \A v \in Of(s) \ {u} : v \in disk.gate[s].active => thread[v] \in Handles
  BY <1>1, TakenUp
<1> DEFINE ws == Admit(disk, u)
           f == [daemon[s] EXCEPT !.at = "failing"]
           l == [daemon[s] EXCEPT !.at = "launch"]
           d == [daemon[s] EXCEPT !.at = IF Final(ws).lease[u] = "claimed"
                                         THEN "launch" ELSE "failing"]
<1>3. /\ f.at = "failing" /\ f.todo = daemon[s].todo
      /\ l.at = "launch" /\ l.todo = daemon[s].todo
  BY <1>1, PlacedFacts
<1>4. /\ thread' = thread /\ (Goes(s, f) \/ Goes(s, l))
      /\ \/ disk' = disk /\ Goes(s, f)
         \/ /\ Admissible(disk, u) /\ disk' = Final(ws)
            /\ Final(ws).queue = QueueIs(disk, u, "claimed", FALSE)
            /\ Final(ws).gate[s] = AdmitGate(disk, u)
  <2>1. \A opened : ~ Torn(s, ws, opened)
    BY SlotFacts
  <2>2. d \in {f, l}
    OBVIOUS
  <2>3. /\ Goes(s, d) \/ Goes(s, f)
        /\ thread' = thread
        /\ (disk' = disk /\ Goes(s, f)) \/ (Admissible(disk, u) /\ disk' = Final(ws))
    BY <1>2, <2>1 DEF Claim, Does, Moves
  <2>4. \/ disk' = disk /\ Moves(s, f)
        \/ /\ Final(ws).queue = QueueIs(disk, u, "claimed", FALSE)
           /\ Final(ws).gate[s] = AdmitGate(disk, u)
    BY <1>2, ClaimCases
  <2> HIDE DEF d, f, l, ws
  <2> QED BY <2>2, <2>3, <2>4 DEF Moves
<1> HIDE DEF ws, f, l, d
<1>5. /\ daemon'[s].at \in {"failing", "launch"} /\ daemon'[s].todo = daemon[s].todo
      /\ Goes(s, f) => daemon'[s].at = "failing"
  BY <1>3, <1>4, GoesTo
<1>6. Owned(u)'
  BY <1>2, <1>5 DEF Owned
<1>7. \A v \in Of(s) \ {u} : v \in disk.gate[s].active => Owned(v)'
  BY <1>2, <1>4, ThreadOwns
<1>8. CASE disk' = disk /\ Goes(s, f)
  <2>1. Agree(disk', s)
    BY <1>8 DEF SlotInv
  <2>2. \A v \in Of(s) : v \in disk'.gate[s].active => Owned(v)'
    BY <1>6, <1>7, <1>8
  <2> QED BY <1>2, <1>4, <1>5, <1>8, <2>1, <2>2 DEF SlotInv
<1>9. CASE /\ Admissible(disk, u) /\ disk' = Final(ws)
           /\ Final(ws).queue = QueueIs(disk, u, "claimed", FALSE)
           /\ Final(ws).gate[s] = AdmitGate(disk, u)
  <2>1. /\ disk'.gate[s].active = disk.gate[s].active \cup {u}
        /\ disk'.gate[s].act = disk.gate[s].act
    BY <1>1, <1>2, <1>9, AdmitGateFacts
  <2>2. /\ disk'.queue[u].status = "claimed" /\ disk'.queue[u].act = disk.queue[u].act
        /\ \A v \in Units : v # u => disk'.queue[v] = disk.queue[v]
    <3> DEFINE q == QueueIs(disk, u, "claimed", FALSE)
    <3>1. /\ q[u].status = "claimed" /\ q[u].act = disk.queue[u].act
          /\ \A v \in Units : v # u => q[v] = disk.queue[v]
      BY <1>1, DiskParts DEF QueueIs
    <3> HIDE DEF q
    <3> QED BY <1>9, <3>1 DEF q
  <2>3. Queued(disk', u)
    BY <1>2, <1>9, <2>1, <2>2 DEF Admissible, Queued
  <2>4. ASSUME NEW v \in Of(s) \ {u}
        PROVE  /\ v \in disk'.gate[s].active <=> v \in disk.gate[s].active
               /\ disk'.queue[v].status = disk.queue[v].status
               /\ disk'.queue[v].act = disk.queue[v].act
               /\ thread'[v] = thread[v]
               /\ v \in disk.gate[s].active => Owned(v)'
    BY <1>4, <1>7, <2>1, <2>2, TaskFacts
  <2>5. u \in disk'.gate[s].active /\ First(daemon'[s].todo) = u
    BY <1>2, <1>5, <2>1
  <2>6. /\ thread'[u] = "none"
        /\ \A v \in daemon'[s].todo : thread'[v] = "none"
    BY <1>2, <1>4, <1>5
  <2> QED BY <1>2, <1>6, <2>1, <2>2, <2>3, <2>4, <2>5, <2>6, OneTaskSlots
<1> QED BY <1>4, <1>8, <1>9

\* The task whose slot was given gets its thread, or is left to be failed.
LEMMA LaunchSlots ==
  ASSUME CanaryBase, NEW s \in Subjects, Launch(s)
  PROVE  KeepsSlots(s)
<1> SUFFICES ASSUME SlotInv(s), s \notin torn' PROVE SlotInv(s)'
  BY DEF KeepsSlots
<1>1. daemon[s].at = "launch" /\ disk \in Disk /\ daemon[s] \in Daemon
  BY BaseFacts DEF Launch
<1>2. PICK u \in Units :
        /\ u = First(daemon[s].todo) /\ u \in Of(s) /\ SubjectOf[u] = s
        /\ thread[u] = "none" /\ daemon[s].todo \subseteq Of(s)
        /\ \A v \in daemon[s].todo : thread[v] = "none"
        /\ \A v \in Of(s) \ {u} : v \in disk.gate[s].active => thread[v] \in Handles
  BY <1>1, TakenUp
<1> DEFINE n == AfterTask(s)
           f == [daemon[s] EXCEPT !.at = "failing"]
<1>3. f.at = "failing" /\ f.todo = daemon[s].todo
  BY <1>1, PlacedFacts
<1>4. /\ n.todo \subseteq daemon[s].todo /\ u \notin n.todo
      /\ n.at \in {"idle", "submit"}
  BY <1>1, <1>2, AfterTaskFacts
<1>5. /\ \/ disk' = disk /\ Becomes(u, "starting") /\ Goes(s, n)
         \/ disk' = disk /\ thread' = thread /\ Goes(s, f)
         \/ Becomes(u, "refused") /\ Goes(s, n)
      /\ disk' = disk \/ disk' = [disk EXCEPT !.lease[u] = "retry_wait"]
  BY <1>2 DEF Launch, Becomes
<1> HIDE DEF n, f
<1>6. SameSlots(disk, disk', s)
  <2>1. "retry_wait" \in LeaseStates
    BY DEF LeaseStates
  <2>2. SameSlots(disk, [disk EXCEPT !.lease[u] = "retry_wait"], s)
    BY <1>1, <2>1, LeaseSame
  <2>3. SameSlots(disk, disk, s)
    BY DEF SameSlots
  <2> QED BY <1>5, <2>2, <2>3
<1>7. /\ disk'.gate[s].active = disk.gate[s].active /\ disk'.gate[s].act = disk.gate[s].act
      /\ u \in disk'.gate[s].active /\ Agree(disk', s)
      /\ disk'.queue[u].status = "claimed"
  <2>1. u \in disk.gate[s].active
    BY <1>1, <1>2 DEF SlotInv
  <2>2. disk.queue[u].status = "claimed"
    BY <1>2, <2>1 DEF SlotInv, Agree
  <2>3. Agree(disk', s)
    BY <1>6, SameSlotsAgree DEF SlotInv
  <2> QED BY <1>2, <1>6, <2>1, <2>2, <2>3 DEF SameSlots
<1>8. /\ \A v \in Units : v # u => thread'[v] = thread[v]
      /\ \/ thread'[u] = "starting" /\ Goes(s, n)
         \/ thread'[u] = "none" /\ Goes(s, f)
         \/ thread'[u] = "refused" /\ Goes(s, n)
  BY <1>2, <1>5, BaseFacts DEF Becomes
<1>9. Owned(u)'
  <2>1. CASE Goes(s, f) /\ thread'[u] = "none"
    <3>1. daemon'[s] = f
      BY <2>1, GoesTo
    <3> QED BY <1>2, <1>3, <3>1 DEF Owned
  <2>2. CASE thread'[u] \in Handles
    BY <2>2, ThreadOwns
  <2>3. {"starting", "refused"} \subseteq Handles
    BY DEF Handles, Live
  <2> QED BY <1>8, <2>1, <2>2, <2>3
<1>10. /\ daemon'[s].at \in {"idle", "submit", "failing"}
       /\ \A v \in daemon'[s].todo : thread'[v] = "none"
  <2>1. CASE Goes(s, f) /\ thread'[u] = "none"
    <3>1. daemon'[s] = f
      BY <2>1, GoesTo
    <3> QED BY <1>2, <1>3, <1>8, <2>1, <3>1, TaskFacts
  <2>2. CASE Goes(s, n)
    <3>1. daemon'[s] = n
      BY <2>2, GoesTo
    <3> QED BY <1>2, <1>4, <1>8, <3>1, TaskFacts
  <2> QED BY <1>8, <2>1, <2>2
<1>11. ASSUME NEW v \in Of(s) \ {u}
       PROVE  /\ v \in disk'.gate[s].active <=> v \in disk.gate[s].active
              /\ disk'.queue[v].status = disk.queue[v].status
              /\ disk'.queue[v].act = disk.queue[v].act
              /\ thread'[v] = thread[v]
              /\ v \in disk.gate[s].active => Owned(v)'
  <2>1. thread'[v] = thread[v]
    BY <1>8, TaskFacts
  <2> QED BY <1>2, <1>6, <2>1, ThreadOwns DEF SameSlots
<1> QED BY <1>2, <1>7, <1>9, <1>10, <1>11, OneTaskSlots DEF Agree

\* The task that could not be submitted gives up the slot it may have got.
LEMMA SubmitFailsSlots ==
  ASSUME CanaryBase, NEW s \in Subjects, SubmitFails(s), torn \subseteq torn'
  PROVE  KeepsSlots(s)
<1> SUFFICES ASSUME AllReadable(disk'), SlotInv(s), s \notin torn' PROVE SlotInv(s)'
  BY DEF KeepsSlots
<1>1. /\ daemon[s].at = "failing" /\ disk \in Disk /\ Safe(disk) /\ Agree(disk, s)
      /\ ~ disk.failures[s].unread
  BY SlotFacts DEF SubmitFails, SlotInv
<1>2. PICK u \in Units :
        /\ u = First(daemon[s].todo) /\ u \in Of(s) /\ SubjectOf[u] = s
        /\ thread[u] = "none" /\ daemon[s].todo \subseteq Of(s)
        /\ \A v \in daemon[s].todo : thread[v] = "none"
        /\ \A v \in Of(s) \ {u} : v \in disk.gate[s].active => thread[v] \in Handles
  BY <1>1, TakenUp
<1> DEFINE n == AfterTask(s)
<1>3. n.todo \subseteq daemon[s].todo /\ n.at \in {"idle", "submit"}
  BY <1>1, AfterTaskFacts
<1>4. Idle(s).at = "idle"
  BY BaseFacts, IdleFacts
<1>5. /\ disk' = Final(FailPreclaim(disk, s, u)) /\ thread' = thread
      /\ Goes(s, Idle(s)) \/ Goes(s, n)
  <2>1. ~ Torn(s, FailPreclaim(disk, s, u), reopened)
    BY SlotFacts
  <2> QED BY <1>2, <2>1 DEF SubmitFails, Records, Does
<1> HIDE DEF n
<1>6. /\ daemon'[s].at \in {"idle", "submit"}
      /\ daemon'[s].at = "submit" => daemon'[s].todo \subseteq daemon[s].todo
  BY <1>3, <1>4, <1>5, GoesTo
<1>7. daemon'[s].at = "submit" => \A v \in daemon'[s].todo : thread'[v] = "none"
  BY <1>2, <1>5, <1>6
<1>8. \A v \in Of(s) \ {u} : v \in disk.gate[s].active => Owned(v)'
  BY <1>2, <1>5, ThreadOwns
<1>9. \/ SameSlots(disk, disk', s) /\ (~ AllReadable(disk') \/ disk'.gate[s].state = "inactive")
      \/ /\ disk'.gate[s].active = disk.gate[s].active \ {u}
         /\ disk'.gate[s].act = disk.gate[s].act
         /\ \A v \in Of(s) : disk'.queue[v].act = disk.queue[v].act
         /\ \A v \in Of(s) \ {u} : disk'.queue[v].status = disk.queue[v].status
         /\ u \in Of(s) => ~ (Queued(disk', u) /\ disk'.queue[u].status = "claimed")
  <2> DEFINE w == Final(FailPreclaim(disk, s, u))
  <2>1. u \in Of(s) \cup {Scan}
    BY <1>2
  <2>2. \/ SameSlots(disk, w, s) /\ (~ AllReadable(w) \/ w.gate[s].state = "inactive")
        \/ /\ w.gate[s].active = disk.gate[s].active \ {u}
           /\ w.gate[s].act = disk.gate[s].act
           /\ \A v \in Of(s) : w.queue[v].act = disk.queue[v].act
           /\ \A v \in Of(s) \ {u} : w.queue[v].status = disk.queue[v].status
           /\ u \in Of(s) => ~ (Queued(w, u) /\ w.queue[u].status = "claimed")
    BY <1>1, <2>1, FailPreclaimSlots
  <2>3. disk' = w
    BY <1>5
  <2> HIDE DEF w
  <2> QED BY <2>2, <2>3
<1>10. CASE SameSlots(disk, disk', s) /\ disk'.gate[s].state = "inactive"
  <2>1. disk'.gate[s].active = {}
    BY <1>10 DEF AllReadable, Readable
  <2>2. Agree(disk', s)
    BY <1>1, <1>10, SameSlotsAgree
  <2>3. disk.gate[s].active = {}
    BY <1>10, <2>1 DEF SameSlots
  <2> QED BY <1>5, <1>6, <1>7, <1>10, <2>1, <2>2, <2>3 DEF SlotInv, SameSlots
<1>11. CASE /\ disk'.gate[s].active = disk.gate[s].active \ {u}
            /\ disk'.gate[s].act = disk.gate[s].act
            /\ \A v \in Of(s) : disk'.queue[v].act = disk.queue[v].act
            /\ \A v \in Of(s) \ {u} : disk'.queue[v].status = disk.queue[v].status
            /\ u \in Of(s) => ~ (Queued(disk', u) /\ disk'.queue[u].status = "claimed")
  <2>1. ASSUME NEW v \in Of(s) \ {u}
        PROVE  /\ v \in disk'.gate[s].active <=> v \in disk.gate[s].active
               /\ disk'.queue[v].status = disk.queue[v].status
               /\ disk'.queue[v].act = disk.queue[v].act
               /\ thread'[v] = thread[v]
               /\ v \in disk.gate[s].active => Owned(v)'
    BY <1>5, <1>8, <1>11
  <2>2. u \notin disk'.gate[s].active /\ thread'[u] = "none"
    BY <1>2, <1>5, <1>11
  <2> QED BY <1>2, <1>6, <1>7, <1>11, <2>1, <2>2, OneTaskSlots
<1> QED BY <1>9, <1>10, <1>11

-----------------------------------------------------------------------------
(* Every slot is in somebody's hands.                                      *)

\* Every step belongs to one subject and keeps its slots in hands.
LEMMA NextSlots ==
  ASSUME CanaryBase, CanaryNext
  PROVE  \E s \in Subjects : Step(s) /\ Reads(s) /\ KeepsSlots(s)
<1>1. ASSUME NEW s \in Subjects, DaemonStep(s) PROVE Step(s) /\ Reads(s) /\ KeepsSlots(s)
  <2>1. Step(s)
    BY <1>1, StartDaemonStep, LoopHeadStep, DeathStep, ReapStep, BeginScanStep,
       PassAbortsStep, MaterializeStep, ReadStatusStep, PressStep, SelectStep,
       ClaimStep, LaunchStep, SubmitFailsStep DEF DaemonStep
  <2>2. Reads(s)
    BY <1>1, QuietDaemonReads, ReapReads, ReconcilingReads, MaterializeReads, PressReads,
       ClaimReads, LaunchReads, RecordingReads DEF DaemonStep
  <2>3. torn \subseteq torn'
    BY <2>1, TornGrows
  <2>4. KeepsSlots(s)
    BY <1>1, <2>3, QuietDaemonSlots, ExitSlots, ReapSlots, ReconcilingSlots,
       MaterializeSlots, PressSlots, SelectSlots, ClaimSlots, LaunchSlots,
       SubmitFailsSlots DEF DaemonStep
  <2> QED BY <2>1, <2>2, <2>4
<1>2. ASSUME NEW s \in Subjects, OperatorStep(s)
      PROVE  Step(s) /\ Reads(s) /\ KeepsSlots(s)
  <2>1. Step(s) /\ Reads(s)
    BY <1>2, ActivateStep, ShutStep, InspectStep, ResumeStep,
       ActivateReads, ShutReads, ReconcilingReads, ResumeReads DEF OperatorStep
  <2>2. torn \subseteq torn'
    BY <2>1, TornGrows
  <2>3. KeepsSlots(s)
    BY <1>2, <2>2, ActivateSlots, ShutSlots, ReconcilingSlots, ResumeSlots
       DEF OperatorStep
  <2> QED BY <2>1, <2>3
<1>3. ASSUME NEW s \in Subjects, FaultStep(s) PROVE Step(s) /\ Reads(s) /\ KeepsSlots(s)
  <2>1. Step(s) /\ Reads(s)
    BY <1>3, StopStep, DeathStep, ScanFailsStep, SelectFailsStep,
       QuietDaemonReads, RecordingReads DEF FaultStep
  <2>2. torn \subseteq torn'
    BY <2>1, TornGrows
  <2>3. KeepsSlots(s)
    BY <1>3, <2>2, QuietDaemonSlots, KillSlots, ScanFailsSlots DEF FaultStep
  <2> QED BY <2>1, <2>3
<1>4. ASSUME NEW u \in Units, ThreadStep(u)
      PROVE  /\ Step(SubjectOf[u]) /\ Reads(SubjectOf[u]) /\ KeepsSlots(SubjectOf[u])
  <2>1. Step(SubjectOf[u])
    BY <1>4, RegisterStep, WorkerEndsStep, FinishTaskStep DEF ThreadStep
  <2>2. Reads(SubjectOf[u])
    BY <1>4, RegisterReads, WorkerEndsReads, FinishReads DEF ThreadStep
  <2>3. KeepsSlots(SubjectOf[u])
    BY <1>4, RegisterSlots, WorkerEndsSlots, FinishSlots DEF ThreadStep
  <2> QED BY <2>1, <2>2, <2>3
<1>5. \A u \in Units : SubjectOf[u] \in Subjects
  BY TaskFacts
<1> QED BY <1>1, <1>2, <1>3, <1>4, <1>5 DEF CanaryNext

\* The slots of another subject are as they were.
LEMMA OthersKeepSlots ==
  ASSUME CanaryBase, NEW s \in Subjects, OnlyOf(s), NEW t \in Subjects, t # s, SlotInv(t)
  PROVE  SlotInv(t)'
<1>1. /\ disk'.gate[t] = disk.gate[t] /\ daemon'[t] = daemon[t]
      /\ \A u \in Of(t) : disk'.queue[u] = disk.queue[u]
  BY BaseFacts, ReadableElsewhere DEF OnlyOf
<1>2. \A u \in Of(t) : thread'[u] = thread[u]
  BY TaskFacts DEF OnlyOf
<1>3. SameSlots(disk, disk', t)
  BY <1>1 DEF SameSlots
<1> QED BY <1>1, <1>2, <1>3, RestSlots

\* What is readable after a step was readable before it.
LEMMA NoneRepaired ==
  ASSUME CanaryBase, NEW s \in Subjects, OnlyOf(s), Reads(s), AllReadable(disk')
  PROVE  AllReadable(disk)
<1>1. Readable(disk, s)
  BY ReadableSame DEF Reads, AllReadable
<1>2. \A t \in Subjects \ {s} : Readable(disk, t)
  BY BaseFacts, ReadableElsewhere DEF OnlyOf, AllReadable
<1> QED BY <1>1, <1>2 DEF AllReadable

LEMMA StepKeepsSlots ==
  ASSUME CanaryBase, SlotsInv, NEW s \in Subjects, Step(s), Reads(s), KeepsSlots(s)
  PROVE  SlotsInv'
<1> SUFFICES ASSUME AllReadable(disk'), NEW t \in Subjects, t \notin torn'
             PROVE  SlotInv(t)'
  BY DEF SlotsInv
<1>1. OnlyOf(s) /\ AllReadable(disk) /\ t \notin torn
  BY NoneRepaired, TornGrows DEF Step
<1>2. SlotInv(t)
  BY <1>1 DEF SlotsInv
<1>3. CASE t = s
  BY <1>1, <1>2, <1>3 DEF KeepsSlots
<1>4. CASE t # s
  BY <1>1, <1>2, <1>4, OthersKeepSlots
<1> QED BY <1>3, <1>4

LEMMA InitSlots == CanaryInit => SlotsInv
<1> SUFFICES ASSUME CanaryInit, NEW s \in Subjects PROVE SlotInv(s)
  BY DEF SlotsInv
<1>1. disk.gate[s].active = {} /\ daemon[s].at = "down"
  BY DEF CanaryInit, NoGate, Down
<1>2. \A u \in Of(s) : disk.queue[u].status = "none" /\ thread[u] = "none"
  BY TaskFacts DEF CanaryInit
<1> QED BY <1>1, <1>2 DEF SlotInv, Agree

LEMMA StutterKeepsSlots ==
  ASSUME SlotsInv, UNCHANGED canaryVars
  PROVE  SlotsInv'
<1>1. disk' = disk /\ thread' = thread /\ daemon' = daemon /\ torn' = torn
  BY DEF canaryVars
<1> QED BY <1>1 DEF SlotsInv, SlotInv, Owned, AllReadable

\* While every gate can be read, the slots of a subject no crash fell into are
\* its claimed entries, somebody's, and the pass holds tasks without a thread.
THEOREM SlotsHold == CanarySpec => []SlotsInv
<1>1. CanaryInit => CanaryBase /\ SlotsInv
  BY InitBase, InitSlots
<1>2. CanaryBase /\ SlotsInv /\ [CanaryNext]_canaryVars => (CanaryBase /\ SlotsInv)'
  <2> SUFFICES ASSUME CanaryBase, SlotsInv, [CanaryNext]_canaryVars
               PROVE  CanaryBase' /\ SlotsInv'
    OBVIOUS
  <2>1. CASE CanaryNext
    BY <2>1, NextSlots, StepKeepsBase, StepKeepsSlots
  <2>2. CASE UNCHANGED canaryVars
    BY <2>2, StutterKeepsBase, StutterKeepsSlots
  <2> QED BY <2>1, <2>2
<1> QED BY <1>1, <1>2, PTL DEF CanarySpec

\* SlotsAreOwned: slots and claimed entries are the same tasks, each in
\* somebody's hands, and no task runs without a slot.
THEOREM SlotsOwned == CanarySpec => []SlotsAreOwned
<1>1. SlotsInv => SlotsAreOwned
  BY DEF SlotsInv, SlotInv, Agree, SlotsAreOwned
<1> QED BY <1>1, SlotsHold, PTL
=============================================================================
