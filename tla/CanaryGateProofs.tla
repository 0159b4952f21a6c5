-------------------------- MODULE CanaryGateProofs --------------------------
(***************************************************************************)
(* Proofs about CanaryGate, for any subjects and any finite set of tasks.  *)
(*                                                                         *)
(* An operation changes what belongs to one subject only (Elsewhere), so   *)
(* every invariant is stated of one subject.  DiskInv holds of every disk  *)
(* an operation writes, the half-written ones included; DaemonInv relates  *)
(* the disk to the loop that is in the middle of a pass.                   *)
(***************************************************************************)
EXTENDS CanaryGate, FiniteSetTheorems, WellFoundedInduction, TLAPS

\* The failure receipts of s are settled: there is none, or a resume has
\* acknowledged the latest.
Settled(d, s) == d.failures[s].keys = {} \/ d.gate[s].notice = "acked"

OpenStates == {"armed", "in_flight", "unlocked"}

\* What every disk satisfies.  The latest receipt never names a task that
\* holds a slot, unless it is acknowledged or the state does not know it yet.
DiskInv(d, s) ==
  /\ d.gate[s].active \subseteq Of(s)
  /\ d.gate[s].named \subseteq d.gate[s].active
  /\ d.gate[s].state = "absent" => d.gate[s].active = {}
  /\ d.gate[s].state = "unlocked" => d.gate[s].unlocked
  /\ d.failures[s].last \in Of(s) \cup {Scan}
  /\ d.failures[s].keys = {} => d.failures[s].last = Scan /\ ~ d.failures[s].unread
  /\ d.failures[s].last \in d.gate[s].active
       => d.gate[s].notice = "acked" \/ d.failures[s].unread
  /\ \A u \in Of(s) : d.queue[u].act <= d.gate[s].act

\* A pass that is about to admit tasks has seen every receipt.
DaemonInv(s) ==
  /\ daemon[s].todo \subseteq Of(s)
  /\ daemon[s].at = "reap" => \A u \in daemon[s].todo : thread[u] = "done"
  /\ disk.failures[s].unread => daemon[s].at \in {"down", "idle", "reap", "stopping"}
  /\ disk.failures[s].unread => s \in torn
  /\ daemon[s].at = "press" /\ daemon[s].room # 0 => Settled(disk, s)
  /\ daemon[s].at = "select" => Settled(disk, s)
  /\ daemon[s].at \in {"submit", "launch", "failing"} =>
       /\ daemon[s].todo # {}
       /\ Settled(disk, s) \/ disk.failures[s].last \notin daemon[s].todo

\* A gate that takes tasks was opened by an operator after the last failure.
OpenedInv(s) ==
  disk.gate[s].state \in OpenStates /\ ~ disk.failures[s].unread => s \in reopened

USE GateAssumption

-----------------------------------------------------------------------------
(* Tasks and disks.                                                        *)

\* The tasks of a subject are numbers, finitely many.
LEMMA TaskFacts ==
  ASSUME NEW s \in Subjects
  PROVE  /\ Of(s) \subseteq Units
         /\ \A u \in Of(s) : SubjectOf[u] = s
         /\ \A u \in Units : u \in Of(SubjectOf[u]) /\ SubjectOf[u] \in Subjects
         /\ Scan \notin Units
  BY DEF Of, Scan

LEMMA SmallerThan ==
  ASSUME NEW us, us \subseteq Nat, us # {}
  PROVE  \E u \in us : \A v \in us : ~ (v < u)
<1> DEFINE less == OpToRel(<, Nat)
<1>1. IsWellFoundedOn(less, Nat)
  BY NatLessThanWellFounded
<1>2. PICK u \in us : \A v \in us : ~ (<<v, u>> \in less)
  <2> HIDE DEF less
  <2> QED BY <1>1, WFMin
<1>3. \A v \in us : v < u => <<v, u>> \in less
  BY DEF OpToRel
<1> QED BY <1>2, <1>3

\* The first of some tasks is one of them.
LEMMA FirstIsOne ==
  ASSUME NEW us \in SUBSET Units, us # {}
  PROVE  First(us) \in us
<1>1. us \subseteq Nat
  OBVIOUS
<1>2. PICK u \in us : \A v \in us : ~ (v < u)
  BY <1>1, SmallerThan
<1>3. \A v \in us : u <= v
  BY <1>1, <1>2
<1> QED BY <1>3 DEF First

\* Sets of tasks are finite.
LEMMA SizeFacts ==
  ASSUME NEW us \in SUBSET Units
  PROVE  /\ IsFiniteSet(us) /\ Cardinality(us) \in Nat
         /\ Cardinality(us) = 0 <=> us = {}
         /\ \A u \in Units : /\ Cardinality(us \cup {u}) = IF u \in us THEN Cardinality(us)
                                                           ELSE Cardinality(us) + 1
                             /\ Cardinality(us \ {u}) = IF u \in us THEN Cardinality(us) - 1
                                                        ELSE Cardinality(us)
         /\ \A v : us = {v} => Cardinality(us) = 1
<1>1. IsFiniteSet(us)
  BY FS_Subset
<1>2. Cardinality(us) \in Nat
  BY <1>1, FS_CardinalityType
<1>3. Cardinality(us) = 0 <=> us = {}
  BY <1>1, FS_EmptySet
<1>4. ASSUME NEW u \in Units
      PROVE  /\ Cardinality(us \cup {u}) = IF u \in us THEN Cardinality(us)
                                           ELSE Cardinality(us) + 1
             /\ Cardinality(us \ {u}) = IF u \in us THEN Cardinality(us) - 1
                                        ELSE Cardinality(us)
  BY <1>1, FS_AddElement, FS_RemoveElement
<1>5. ASSUME NEW v, us = {v} PROVE Cardinality(us) = 1
  BY <1>5, FS_Singleton
<1> QED BY <1>1, <1>2, <1>3, <1>4, <1>5

\* The parts of a disk.
LEMMA DiskParts ==
  ASSUME NEW d \in Disk
  PROVE  /\ d.gate \in [Subjects -> Gate] /\ d.queue \in [Units -> QueueEntry]
         /\ d.lease \in [Units -> LeaseStates]
         /\ d.failures \in [Subjects -> FailureIndex]
         /\ d.current \in [Subjects -> BOOLEAN]
         /\ d = [gate |-> d.gate, queue |-> d.queue, lease |-> d.lease,
                 failures |-> d.failures, current |-> d.current]
  BY DEF Disk

\* Recounting touches nothing but the telemetry.
LEMMA RecountedFacts ==
  ASSUME NEW d \in Disk
  PROVE  /\ Recounted(d) \in Disk
         /\ Recounted(d).gate = d.gate /\ Recounted(d).queue = d.queue
         /\ Recounted(d).lease = d.lease /\ Recounted(d).failures = d.failures
  BY DEF Disk, Recounted

\* Writing a state file.
LEMMA WithGateFacts ==
  ASSUME NEW d \in Disk, NEW s \in Subjects, NEW g \in Gate
  PROVE  /\ WithGate(d, s, g) \in Disk
         /\ WithGate(d, s, g).gate = [d.gate EXCEPT ![s] = g]
         /\ WithGate(d, s, g).queue = d.queue
         /\ WithGate(d, s, g).lease = d.lease
         /\ WithGate(d, s, g).failures = d.failures
<1> DEFINE e == d.current[s] /\ d.gate[s].act = g.act
                /\ d.gate[s].index = g.index
                /\ Cardinality(d.gate[s].active) = Cardinality(g.active)
<1>1. WithGate(d, s, g) = [d EXCEPT !.gate[s] = g, !.current[s] = e]
  BY Zenon DEF WithGate
<1>2. e \in BOOLEAN
  BY Zenon
<1> HIDE DEF e
<1>3. [d EXCEPT !.gate[s] = g, !.current[s] = e] \in Disk
  BY <1>2 DEF Disk
<1>4. [d EXCEPT !.gate[s] = g, !.current[s] = e].gate = [d.gate EXCEPT ![s] = g]
  BY DEF Disk
<1>5. /\ [d EXCEPT !.gate[s] = g, !.current[s] = e].queue = d.queue
      /\ [d EXCEPT !.gate[s] = g, !.current[s] = e].lease = d.lease
      /\ [d EXCEPT !.gate[s] = g, !.current[s] = e].failures = d.failures
  BY DEF Disk
<1> QED BY <1>1, <1>3, <1>4, <1>5

\* Writing one field of a lease, of a queue entry, or of a failure index.
LEMMA LeaseWrite ==
  ASSUME NEW d \in Disk, NEW u \in Units, NEW x \in LeaseStates
  PROVE  LET w == [d EXCEPT !.lease[u] = x]
         IN /\ w \in Disk /\ w.lease = [d.lease EXCEPT ![u] = x]
            /\ w.gate = d.gate /\ w.queue = d.queue /\ w.failures = d.failures
<1>1. [d EXCEPT !.lease[u] = x] \in Disk
  BY DEF Disk
<1> QED BY <1>1 DEF Disk

LEMMA StatusWrite ==
  ASSUME NEW d \in Disk, NEW u \in Units,
         NEW x \in {"none", "pending", "claimed", "succeeded", "failed"}
  PROVE  LET w == [d EXCEPT !.queue[u].status = x]
         IN /\ w \in Disk
            /\ w.queue = [d.queue EXCEPT ![u] = [d.queue[u] EXCEPT !.status = x]]
            /\ w.gate = d.gate /\ w.lease = d.lease /\ w.failures = d.failures
<1> DEFINE q == [d.queue[u] EXCEPT !.status = x]
<1>1. q \in QueueEntry
  BY DiskParts DEF QueueEntry
<1>2. [d EXCEPT !.queue[u].status = x] = [d EXCEPT !.queue[u] = q]
  BY DEF Disk
<1> HIDE DEF q
<1>3. [d EXCEPT !.queue[u] = q] \in Disk
  BY <1>1 DEF Disk
<1>4. [d EXCEPT !.queue[u] = q].queue = [d.queue EXCEPT ![u] = q]
  BY DEF Disk
<1>5. /\ [d EXCEPT !.queue[u] = q].gate = d.gate
      /\ [d EXCEPT !.queue[u] = q].lease = d.lease
      /\ [d EXCEPT !.queue[u] = q].failures = d.failures
  BY DEF Disk
<1> QED BY <1>2, <1>3, <1>4, <1>5 DEF q

LEMMA UnreadWrite ==
  ASSUME NEW d \in Disk, NEW s \in Subjects
  PROVE  LET w == [d EXCEPT !.failures[s].unread = FALSE]
         IN /\ w \in Disk
            /\ w.failures = [d.failures EXCEPT ![s] =
                               [d.failures[s] EXCEPT !.unread = FALSE]]
            /\ w.gate = d.gate /\ w.lease = d.lease /\ w.queue = d.queue
<1> DEFINE f == [d.failures[s] EXCEPT !.unread = FALSE]
<1>1. f \in FailureIndex
  <2>1. d.failures[s] \in FailureIndex
    BY DiskParts
  <2> QED BY <2>1 DEF FailureIndex
<1>2. [d EXCEPT !.failures[s].unread = FALSE] = [d EXCEPT !.failures[s] = f]
  BY DEF Disk
<1> HIDE DEF f
<1>3. [d EXCEPT !.failures[s] = f] \in Disk
  BY <1>1 DEF Disk
<1>4. [d EXCEPT !.failures[s] = f].failures = [d.failures EXCEPT ![s] = f]
  BY DEF Disk
<1>5. /\ [d EXCEPT !.failures[s] = f].gate = d.gate
      /\ [d EXCEPT !.failures[s] = f].lease = d.lease
      /\ [d EXCEPT !.failures[s] = f].queue = d.queue
  BY DEF Disk
<1> QED BY <1>2, <1>3, <1>4, <1>5 DEF f

-----------------------------------------------------------------------------
(* The disks the operations write.                                         *)

Untouched(d, w) == w.gate = d.gate /\ w.queue = d.queue /\ w.failures = d.failures

Requeues(d, k) == k \in Units /\ Queued(d, k) /\ d.queue[k].status = "claimed"

AfterCommit(d, s) ==
  LET k == d.failures[s].last IN
  IF Requeues(d, k) THEN [d.queue EXCEPT ![k] = [d.queue[k] EXCEPT !.status = "pending"]]
                    ELSE d.queue

ClosedGate(d, s) ==
  LET k == d.failures[s].last
      g == d.gate[s]
  IN [g EXCEPT !.state = "failed", !.active = @ \ {k}, !.named = @ \ {k},
               !.pressed = FALSE, !.selected = IF k \in g.active THEN Scan ELSE @,
               !.notice = "named"]

HalfClosed(d, w, s) ==
  w.gate = d.gate /\ w.queue = AfterCommit(d, s) /\ w.failures = d.failures

ClosedBy(d, w, s) ==
  /\ w.gate = [d.gate EXCEPT ![s] = ClosedGate(d, s)]
  /\ w.queue = AfterCommit(d, s)
  /\ w.failures = [d.failures EXCEPT ![s] = [d.failures[s] EXCEPT !.unread = FALSE]]

\* The four writes of a commit.
LEMMA CommitWrites ==
  ASSUME NEW d \in Disk, NEW s \in Subjects
  PROVE  /\ Len(Commit(d, s)) = 4 /\ Commit(d, s) \in Seq(Disk)
         /\ \A i \in 1..4 : Commit(d, s)[i] \in Disk
         /\ Untouched(d, Commit(d, s)[1]) /\ HalfClosed(d, Commit(d, s)[2], s)
         /\ ClosedBy(d, Commit(d, s)[3], s) /\ ClosedBy(d, Commit(d, s)[4], s)
         /\ Final(Commit(d, s)) = Commit(d, s)[4]
<1> DEFINE k == d.failures[s].last
           g == d.gate[s]
           lease == IF k \in Units /\ d.lease[k] = "claimed"
                    THEN [d EXCEPT !.lease[k] = "preclaim_failed"] ELSE d
           queue == IF Requeues(d, k)
                    THEN [lease EXCEPT !.queue[k].status = "pending"] ELSE lease
           held == WithGate(queue, s, ClosedGate(d, s))
           gate == [held EXCEPT !.failures[s].unread = FALSE]
<1>1. Commit(d, s) = <<lease, queue, gate, Recounted(gate)>>
  BY DEF Commit, ClosedGate, Requeues
<1>2. lease \in Disk /\ Untouched(d, lease)
  BY LeaseWrite DEF LeaseStates, Untouched
<1>3. queue \in Disk /\ HalfClosed(d, queue, s)
  <2> HIDE DEF lease
  <2>1. CASE Requeues(d, k)
    <3>1. queue = [lease EXCEPT !.queue[k].status = "pending"]
      BY <2>1
    <3>2. k \in Units
      BY <2>1 DEF Requeues
    <3> HIDE DEF queue, k
    <3>3. /\ queue \in Disk
          /\ queue.queue = [lease.queue EXCEPT ![k] =
                              [lease.queue[k] EXCEPT !.status = "pending"]]
          /\ queue.gate = lease.gate /\ queue.failures = lease.failures
      BY <1>2, <3>1, <3>2, StatusWrite
    <3>4. AfterCommit(d, s) = [d.queue EXCEPT ![k] = [d.queue[k] EXCEPT !.status = "pending"]]
      BY <2>1 DEF AfterCommit, k
    <3> QED BY <1>2, <3>3, <3>4 DEF Untouched, HalfClosed
  <2>2. CASE ~ Requeues(d, k)
    BY <1>2, <2>2 DEF Untouched, HalfClosed, AfterCommit
  <2> QED BY <2>1, <2>2
<1>4. g \in Gate /\ k \in Keys
  BY DiskParts DEF FailureIndex
<1>5. ClosedGate(d, s) \in Gate
  <2> HIDE DEF g
  <2> QED BY <1>4 DEF ClosedGate, Gate, GateStates, Keys, g
<1>6. /\ held \in Disk
      /\ held.gate = [d.gate EXCEPT ![s] = ClosedGate(d, s)]
      /\ held.queue = AfterCommit(d, s) /\ held.failures = d.failures
  <2> HIDE DEF queue
  <2> QED BY <1>3, <1>5, WithGateFacts DEF HalfClosed
<1>7. gate \in Disk /\ ClosedBy(d, gate, s)
  <2> HIDE DEF held
  <2> QED BY <1>6, UnreadWrite DEF ClosedBy
<1>8. Recounted(gate) \in Disk /\ ClosedBy(d, Recounted(gate), s)
  <2> HIDE DEF gate
  <2> QED BY <1>7, RecountedFacts DEF ClosedBy
<1> HIDE DEF lease, queue, gate
<1>9. Commit(d, s) \in Seq(Disk)
  BY <1>1, <1>2, <1>3, <1>7, <1>8
<1> QED BY <1>1, <1>2, <1>3, <1>7, <1>8, <1>9 DEF Final

\* The writes of a reconciliation.
LEMMA ReconcileWrites ==
  ASSUME NEW d \in Disk, NEW s \in Subjects
  PROVE  LET ws == Reconcile(d, s)
         IN /\ Len(ws) \in Nat \ {0} /\ ws \in Seq(Disk)
            /\ \A i \in 1..Len(ws) :
                 /\ ws[i] \in Disk
                 /\ \/ Untouched(d, ws[i])
                    \/ Outstanding(d, s) /\ HalfClosed(d, ws[i], s)
                    \/ Outstanding(d, s) /\ ClosedBy(d, ws[i], s)
            /\ Final(ws) \in Disk
            /\ Outstanding(d, s) => ClosedBy(d, Final(ws), s)
            /\ ~ Outstanding(d, s) => Final(ws) = d
<1>1. CASE Outstanding(d, s)
  <2>1. Reconcile(d, s) = Commit(d, s)
    BY <1>1 DEF Reconcile
  <2>2. \A i \in 1..4 : i = 1 \/ i = 2 \/ i = 3 \/ i = 4
    OBVIOUS
  <2>3. \A i \in 1..4 : \/ Untouched(d, Commit(d, s)[i])
                        \/ HalfClosed(d, Commit(d, s)[i], s)
                        \/ ClosedBy(d, Commit(d, s)[i], s)
    BY <2>2, CommitWrites
  <2>4. /\ Len(Commit(d, s)) = 4 /\ Commit(d, s) \in Seq(Disk)
        /\ \A i \in 1..4 : Commit(d, s)[i] \in Disk
        /\ Final(Commit(d, s)) \in Disk /\ ClosedBy(d, Final(Commit(d, s)), s)
    BY CommitWrites
  <2> QED BY <1>1, <2>1, <2>3, <2>4
<1>2. CASE ~ Outstanding(d, s)
  <2>1. Reconcile(d, s) = <<d>>
    BY <1>2 DEF Reconcile
  <2>2. Len(<<d>>) = 1 /\ <<d>> \in Seq(Disk) /\ \A i \in 1..1 : <<d>>[i] = d
    OBVIOUS
  <2>3. Final(<<d>>) = d /\ Untouched(d, d)
    BY DEF Final, Untouched
  <2> QED BY <1>2, <2>1, <2>2, <2>3
<1> QED BY <1>1, <1>2

\* One sequence after another.
LEMMA Joined ==
  ASSUME NEW a \in Seq(Disk), NEW b \in Seq(Disk)
  PROVE  /\ a \o b \in Seq(Disk) /\ Len(a \o b) = Len(a) + Len(b)
         /\ \A i \in 1..Len(a) : (a \o b)[i] = a[i]
         /\ \A i \in 1..Len(b) : (a \o b)[Len(a) + i] = b[i]
  OBVIOUS

Receipted(d, w, s, k) ==
  /\ w.gate = d.gate /\ w.queue = d.queue
  /\ w.failures = [d.failures EXCEPT ![s] =
                     [keys |-> d.failures[s].keys \cup {k}, last |-> k, unread |-> TRUE]]

\* Writing a receipt.
LEMMA ReceiptWrite ==
  ASSUME NEW d \in Disk, NEW s \in Subjects, NEW k \in Keys
  PROVE  Recorded(d, s, k) \in Disk /\ Receipted(d, Recorded(d, s, k), s, k)
<1> DEFINE f == [keys |-> d.failures[s].keys \cup {k}, last |-> k, unread |-> TRUE]
<1>1. d.failures[s] \in FailureIndex
  BY DiskParts
<1>2. f \in FailureIndex
  BY <1>1 DEF FailureIndex
<1>3. Recorded(d, s, k) = [d EXCEPT !.failures[s] = f]
  BY DEF Recorded, Disk
<1> HIDE DEF f
<1>4. [d EXCEPT !.failures[s] = f] \in Disk
  BY <1>2 DEF Disk
<1>5. [d EXCEPT !.failures[s] = f].failures = [d.failures EXCEPT ![s] = f]
  BY DEF Disk
<1>6. /\ [d EXCEPT !.failures[s] = f].gate = d.gate
      /\ [d EXCEPT !.failures[s] = f].queue = d.queue
  BY DEF Disk
<1> QED BY <1>3, <1>4, <1>5, <1>6 DEF Receipted, f

\* The recording does not get to the receipt.
Refused(d, s) ==
  ReconcileRaises(d, s) \/ Final(Reconcile(d, s)).gate[s].state = "inactive"

\* The writes of recording a failure: reconciliation, receipt, commit.
LEMMA FailPreclaimWrites ==
  ASSUME NEW d \in Disk, NEW s \in Subjects, NEW k \in Keys
  PROVE  LET ws == FailPreclaim(d, s, k)
             r == Final(Reconcile(d, s))
             e == Recorded(r, s, k)
         IN /\ r \in Disk /\ e \in Disk /\ Receipted(r, e, s, k)
            /\ Len(ws) \in Nat
            /\ \A i \in 1..Len(ws) :
                 /\ ws[i] \in Disk
                 /\ \/ \E j \in 1..Len(Reconcile(d, s)) : ws[i] = Reconcile(d, s)[j]
                    \/ ~ Refused(d, s) /\ Untouched(e, ws[i])
                    \/ ~ Refused(d, s) /\ HalfClosed(e, ws[i], s)
                    \/ ~ Refused(d, s) /\ ClosedBy(e, ws[i], s)
            /\ Final(ws) \in Disk
            /\ Refused(d, s) => Final(ws) = r
            /\ ~ Refused(d, s) => ClosedBy(e, Final(ws), s)
<1> DEFINE before == Reconcile(d, s)
           r == Final(before)
           e == Recorded(r, s, k)
<1>1. /\ Len(before) \in Nat \ {0} /\ \A i \in 1..Len(before) : before[i] \in Disk
      /\ r \in Disk
  BY ReconcileWrites
<1>2. e \in Disk /\ Receipted(r, e, s, k)
  <2> HIDE DEF r
  <2> QED BY <1>1, ReceiptWrite
<1>3. CASE Refused(d, s)
  <2>1. FailPreclaim(d, s, k) = before
    BY <1>3 DEF FailPreclaim, Refused
  <2> QED BY <1>1, <1>2, <1>3, <2>1
<1>4. CASE ~ Refused(d, s)
  <2> HIDE DEF e
  <2>1. FailPreclaim(d, s, k) = before \o <<e>> \o Commit(e, s)
    BY <1>4 DEF FailPreclaim, Refused, e
  <2> DEFINE c == Commit(e, s)
             n == Len(before)
             ws == (before \o <<e>>) \o c
  <2>2. /\ Len(c) = 4 /\ c \in Seq(Disk)
        /\ \A i \in 1..4 : \/ Untouched(e, c[i]) \/ HalfClosed(e, c[i], s)
                           \/ ClosedBy(e, c[i], s)
        /\ ClosedBy(e, c[4], s) /\ c[4] \in Disk
    <3>1. Len(c) = 4 /\ \A i \in 1..4 : c[i] \in Disk
      BY <1>2, CommitWrites
    <3>3. c \in Seq(Disk)
      BY <1>2, CommitWrites
    <3>4. \A i \in 1..4 : i = 1 \/ i = 2 \/ i = 3 \/ i = 4
      OBVIOUS
    <3> HIDE DEF c
    <3>5. /\ Untouched(e, c[1]) /\ HalfClosed(e, c[2], s)
          /\ ClosedBy(e, c[3], s) /\ ClosedBy(e, c[4], s)
      BY <1>2, CommitWrites DEF c
    <3> QED BY <3>1, <3>3, <3>4, <3>5
  <2>3. before \in Seq(Disk)
    BY ReconcileWrites
  <2> HIDE DEF before, c, n
  <2>n. n \in Nat /\ n = Len(before)
    BY <2>3 DEF n
  <2>4. /\ ws \in Seq(Disk) /\ Len(ws) = n + 5
        /\ \A i \in 1..n : ws[i] = before[i]
        /\ ws[n + 1] = e
        /\ \A i \in 1..4 : ws[n + 1 + i] = c[i]
    <3> DEFINE m == before \o <<e>>
    <3>1. /\ m \in Seq(Disk) /\ Len(m) = n + 1
          /\ \A i \in 1..n : m[i] = before[i]
          /\ m[n + 1] = e
      BY <1>2, <2>3, <2>n
    <3> HIDE DEF m
    <3>2. c \in Seq(Disk) /\ Len(c) = 4
      BY <2>2
    <3>3. /\ m \o c \in Seq(Disk) /\ Len(m \o c) = Len(m) + Len(c)
          /\ \A i \in 1..Len(m) : (m \o c)[i] = m[i]
          /\ \A i \in 1..Len(c) : (m \o c)[Len(m) + i] = c[i]
      <4>1. m \in Seq(Disk)
        BY <3>1
      <4>2. c \in Seq(Disk)
        BY <3>2
      <4> QED BY ONLY <4>1, <4>2, Joined
    <3>4. ws = m \o c
      BY DEF m
    <3> HIDE DEF ws
    <3>5. /\ ws \in Seq(Disk) /\ Len(ws) = (n + 1) + 4
          /\ \A i \in 1..4 : ws[(n + 1) + i] = c[i]
      BY Zenon, <3>1, <3>2, <3>3, <3>4
    <3>7. (n + 1) + 4 = n + 5
      BY <2>n
    <3>6. \A i \in 1..n + 1 : ws[i] = m[i]
      BY <3>1, <3>3, <3>4
    <3> QED BY <3>1, <3>5, <3>6, <3>7, <2>n
  <2>5. Final(ws) = c[4]
    BY <2>n, <2>4 DEF Final
  <2>6. \A i \in 1..Len(ws) : i \in 1..n \/ i = n + 1 \/ \E j \in 1..4 : i = n + 1 + j
    <3>1. n \in Nat
      BY <2>n
    <3>2. SUFFICES ASSUME NEW i \in 1..n + 5, i \notin 1..n, i # n + 1
                   PROVE  \E j \in 1..4 : i = n + 1 + j
      BY <2>4
    <3>3. i - n - 1 \in 1..4 /\ i = n + 1 + (i - n - 1)
      BY <3>1, <3>2
    <3> QED BY <3>3
  <2>7. Untouched(e, e)
    BY DEF Untouched
  <2> HIDE DEF ws
  <2>8. ASSUME NEW i \in 1..Len(ws)
        PROVE  /\ ws[i] \in Disk
               /\ \/ \E j \in 1..Len(before) : ws[i] = before[j]
                  \/ Untouched(e, ws[i]) \/ HalfClosed(e, ws[i], s)
                  \/ ClosedBy(e, ws[i], s)
    <3>1. CASE i \in 1..n
      BY <2>4, <3>1, <1>1, <2>n
    <3>2. CASE i = n + 1
      BY <2>4, <2>7, <3>2, <1>2
    <3>3. CASE \E j \in 1..4 : i = n + 1 + j
      BY <2>2, <2>4, <3>3
    <3> QED BY <2>6, <3>1, <3>2, <3>3
  <2>9. Len(ws) \in Nat
    BY <2>4, <2>n
  <2>10. FailPreclaim(d, s, k) = ws
    BY <2>1 DEF ws, c
  <2>11. Final(ws) \in Disk /\ ClosedBy(e, Final(ws), s)
    BY <2>2, <2>5
  <2> QED BY <1>1, <1>2, <1>4, <2>8, <2>9, <2>10, <2>11 DEF before, e
<1> QED BY <1>3, <1>4

-----------------------------------------------------------------------------
(* What a write does to the gate of its subject and to the others.         *)

\* Only the subject s is concerned.
Elsewhere(d, w, s) ==
  /\ \A t \in Subjects \ {s} :
       w.gate[t] = d.gate[t] /\ w.failures[t] = d.failures[t]
  /\ \A u \in Units : SubjectOf[u] # s => w.queue[u] = d.queue[u]

\* The gate does not open and nobody gets or loses a slot.
Mild(d, w, s) ==
  /\ Elsewhere(d, w, s)
  /\ w.gate[s].active = d.gate[s].active
  /\ w.gate[s].unlocked = d.gate[s].unlocked
  /\ w.gate[s].state = d.gate[s].state \/ w.gate[s].state \notin OpenStates
  /\ w.gate[s].state \in OpenStates /\ ~ w.failures[s].unread => ~ d.failures[s].unread

\* The gate is shut and k loses its slot.
LetsGo(d, w, s, k) ==
  /\ Elsewhere(d, w, s)
  /\ w.gate[s].active = d.gate[s].active \ {k}
  /\ w.gate[s].unlocked = d.gate[s].unlocked
  /\ w.gate[s].state = "failed"

\* No receipt is recorded, and what was settled stays so.
Kept(d, w, s) ==
  /\ w.failures[s].unread => d.failures[s].unread
  /\ Settled(w, s) \/ w.failures[s].last = d.failures[s].last
  /\ Settled(d, s) /\ ~ d.failures[s].unread => Settled(w, s)

\* What writes nothing of the three files is mild.
LEMMA UntouchedIsMild ==
  ASSUME NEW d, NEW w, NEW s, Untouched(d, w)
  PROVE  /\ Mild(d, w, s) /\ Kept(d, w, s)
         /\ \A t \in Subjects : DiskInv(d, t) => DiskInv(w, t)
  BY DEF Untouched, Mild, Kept, Elsewhere, DiskInv, Settled, Of

\* The entry that a commit may set back to pending.
LEMMA AfterCommitFacts ==
  ASSUME NEW d \in Disk, NEW s \in Subjects
  PROVE  LET k == d.failures[s].last
             q == AfterCommit(d, s)
         IN /\ \A u \in Units : u # k => q[u] = d.queue[u]
            /\ \A u \in Units : q[u].act = d.queue[u].act /\ q[u].named = d.queue[u].named
            /\ k \in Units =>
                 q[k].status = IF Requeues(d, k) THEN "pending" ELSE d.queue[k].status
<1> DEFINE k == d.failures[s].last
           q == AfterCommit(d, s)
<1>1. d.queue \in [Units -> QueueEntry]
  BY DiskParts
<1>2. CASE Requeues(d, k)
  <2>1. q = [d.queue EXCEPT ![k] = [d.queue[k] EXCEPT !.status = "pending"]] /\ k \in Units
    BY <1>2 DEF AfterCommit, Requeues
  <2>2. d.queue[k] \in QueueEntry
    BY <1>1, <2>1
  <2>3. \A u \in Units : u # k => q[u] = d.queue[u]
    BY <1>1, <2>1
  <2>4. q[k] = [d.queue[k] EXCEPT !.status = "pending"]
    BY <1>1, <2>1
  <2> HIDE DEF q, k
  <2>5. q[k].act = d.queue[k].act /\ q[k].named = d.queue[k].named /\ q[k].status = "pending"
    BY <2>2, <2>4 DEF QueueEntry
  <2> QED BY <1>2, <2>3, <2>5 DEF q, k
<1>3. CASE ~ Requeues(d, k)
  <2>1. q = d.queue
    BY <1>3 DEF AfterCommit
  <2> QED BY <1>3, <2>1
<1> QED BY <1>2, <1>3

\* The state a commit writes.
LEMMA ClosedGateFacts ==
  ASSUME NEW d \in Disk, NEW s \in Subjects
  PROVE  LET k == d.failures[s].last
             g == d.gate[s]
             h == ClosedGate(d, s)
         IN /\ h.state = "failed" /\ h.active = g.active \ {k}
            /\ h.named = g.named \ {k} /\ ~ h.pressed /\ h.notice = "named"
            /\ h.selected = IF k \in g.active THEN Scan ELSE g.selected
            /\ h.act = g.act /\ h.retired = g.retired /\ h.tainted = g.tainted
            /\ h.unlocked = g.unlocked /\ h.index = g.index
<1>1. d.gate[s] \in Gate
  BY DiskParts
<1> QED BY <1>1 DEF ClosedGate, Gate

\* What a commit leaves, field by field.
LEMMA ClosedByFacts ==
  ASSUME NEW d \in Disk, NEW s \in Subjects, NEW w, ClosedBy(d, w, s)
  PROVE  /\ w.gate[s] = ClosedGate(d, s)
         /\ \A t \in Subjects \ {s} :
              w.gate[t] = d.gate[t] /\ w.failures[t] = d.failures[t]
         /\ w.failures[s].last = d.failures[s].last
         /\ w.failures[s].keys = d.failures[s].keys
         /\ ~ w.failures[s].unread
         /\ w.queue = AfterCommit(d, s)
<1>1. d.failures[s] \in FailureIndex
  BY DiskParts
<1>2. w.failures[s] = [d.failures[s] EXCEPT !.unread = FALSE]
  BY DiskParts DEF ClosedBy
<1>3. /\ w.failures[s].last = d.failures[s].last
      /\ w.failures[s].keys = d.failures[s].keys
      /\ ~ w.failures[s].unread
  BY <1>1, <1>2 DEF FailureIndex
<1> QED BY <1>3, DiskParts DEF ClosedBy

\* A commit shuts the gate and takes the slot of the task it names.
LEMMA ClosedByEffect ==
  ASSUME NEW d \in Disk, NEW s \in Subjects, NEW w, ClosedBy(d, w, s),
         d.failures[s].last \in Of(s) \cup {Scan}
  PROVE  /\ LetsGo(d, w, s, d.failures[s].last)
         /\ d.failures[s].last \notin d.gate[s].active => Mild(d, w, s)
         /\ Outstanding(d, s) => Kept(d, w, s)
<1>1. Elsewhere(d, w, s)
  BY ClosedByFacts, AfterCommitFacts, TaskFacts DEF Elsewhere
<1>2. /\ w.gate[s].active = d.gate[s].active \ {d.failures[s].last}
      /\ w.gate[s].unlocked = d.gate[s].unlocked /\ w.gate[s].state = "failed"
  BY ClosedByFacts, ClosedGateFacts
<1>3. Outstanding(d, s) => Kept(d, w, s)
  <2>1. /\ ~ w.failures[s].unread
        /\ w.failures[s].last = d.failures[s].last
    BY ClosedByFacts
  <2>2. Outstanding(d, s) => ~ Settled(d, s) \/ d.failures[s].unread
    BY DEF Outstanding, Settled
  <2> QED BY <2>1, <2>2 DEF Kept
<1> QED BY <1>1, <1>2, <1>3 DEF LetsGo, Mild, OpenStates

LEMMA HalfClosedEffect ==
  ASSUME NEW d \in Disk, NEW s \in Subjects, NEW w, HalfClosed(d, w, s),
         d.failures[s].last \in Of(s) \cup {Scan}
  PROVE  Mild(d, w, s) /\ Kept(d, w, s)
<1>1. w.gate = d.gate /\ w.failures = d.failures /\ w.queue = AfterCommit(d, s)
  BY DEF HalfClosed
<1>2. Elsewhere(d, w, s)
  BY <1>1, AfterCommitFacts, TaskFacts DEF Elsewhere
<1> QED BY <1>1, <1>2 DEF Mild, Kept, Settled

LEMMA ReceiptedEffect ==
  ASSUME NEW d \in Disk, NEW s \in Subjects, NEW w, NEW k, Receipted(d, w, s, k)
  PROVE  /\ Mild(d, w, s)
         /\ w.failures[s].last = k /\ w.failures[s].unread
         /\ k \in w.failures[s].keys
<1>1. w.failures[s] = [keys |-> d.failures[s].keys \cup {k}, last |-> k, unread |-> TRUE]
  BY DiskParts DEF Receipted
<1>2. \A t \in Subjects \ {s} : w.failures[t] = d.failures[t]
  BY DiskParts DEF Receipted
<1> QED BY <1>1, <1>2 DEF Receipted, Mild, Elsewhere

LEMMA MildThenMild ==
  ASSUME NEW d, NEW e, NEW w, NEW s \in Subjects, NEW k, Mild(d, e, s)
  PROVE  /\ Mild(e, w, s) => Mild(d, w, s)
         /\ LetsGo(e, w, s, k) => LetsGo(d, w, s, k)
<1>1. Elsewhere(d, e, s)
  BY DEF Mild
<1>2. ASSUME Elsewhere(e, w, s) PROVE Elsewhere(d, w, s)
  BY <1>1, <1>2 DEF Elsewhere
<1> QED BY <1>2 DEF Mild, LetsGo

-----------------------------------------------------------------------------
(* Every disk satisfies DiskInv.                                           *)

Safe(d) == \A t \in Subjects : DiskInv(d, t)

LEMMA SafeElsewhere ==
  ASSUME NEW d, NEW w, NEW s \in Subjects, Safe(d), Elsewhere(d, w, s), DiskInv(w, s)
  PROVE  Safe(w)
<1> SUFFICES ASSUME NEW t \in Subjects, t # s PROVE DiskInv(w, t)
  BY DEF Safe
<1>1. DiskInv(d, t)
  BY DEF Safe
<1>2. w.gate[t] = d.gate[t] /\ w.failures[t] = d.failures[t]
  BY DEF Elsewhere
<1>3. \A u \in Of(t) : w.queue[u] = d.queue[u]
  BY TaskFacts DEF Elsewhere
<1> QED BY <1>1, <1>2, <1>3 DEF DiskInv

LEMMA SafeHalfClosed ==
  ASSUME NEW d \in Disk, NEW s \in Subjects, NEW w, Safe(d), HalfClosed(d, w, s)
  PROVE  Safe(w)
<1>1. DiskInv(d, s)
  BY DEF Safe
<1>2. Elsewhere(d, w, s)
  BY <1>1, HalfClosedEffect DEF Mild, DiskInv
<1>3. w.gate = d.gate /\ w.failures = d.failures /\ w.queue = AfterCommit(d, s)
  BY DEF HalfClosed
<1>4. \A u \in Of(s) : w.queue[u].act = d.queue[u].act
  <2>1. \A u \in Units : AfterCommit(d, s)[u].act = d.queue[u].act
    BY AfterCommitFacts
  <2> QED BY <1>3, <2>1, TaskFacts
<1>5. DiskInv(w, s)
  <2>1. w.gate = d.gate /\ w.failures = d.failures
    BY <1>3
  <2>2. \A u \in Of(s) : w.queue[u].act <= w.gate[s].act
    BY <1>1, <1>4, <2>1 DEF DiskInv
  <2> QED BY <1>1, <2>1, <2>2 DEF DiskInv, Settled
<1> QED BY <1>2, <1>5, SafeElsewhere

LEMMA SafeClosedBy ==
  ASSUME NEW d \in Disk, NEW s \in Subjects, NEW w, Safe(d), ClosedBy(d, w, s)
  PROVE  Safe(w)
<1> DEFINE k == d.failures[s].last
           g == d.gate[s]
           h == w.gate[s]
<1>1. DiskInv(d, s)
  BY DEF Safe
<1>2. Elsewhere(d, w, s)
  BY <1>1, ClosedByEffect DEF LetsGo, DiskInv
<1>3. /\ h.state = "failed" /\ h.active = g.active \ {k} /\ h.named = g.named \ {k}
      /\ h.act = g.act
  BY ClosedByFacts, ClosedGateFacts
<1>4. /\ w.failures[s].last = k /\ w.failures[s].keys = d.failures[s].keys
      /\ ~ w.failures[s].unread
  BY ClosedByFacts
<1>5. \A u \in Of(s) : w.queue[u].act = d.queue[u].act
  BY ClosedByFacts, AfterCommitFacts, TaskFacts
<1> HIDE DEF h, g, k
<1>6. DiskInv(w, s)
  <2>1. /\ g.active \subseteq Of(s) /\ g.named \subseteq g.active
        /\ k \in Of(s) \cup {Scan}
        /\ d.failures[s].keys = {} => k = Scan
        /\ \A u \in Of(s) : d.queue[u].act <= g.act
    BY <1>1 DEF DiskInv, g, k
  <2>2. h.active \subseteq Of(s) /\ h.named \subseteq h.active /\ k \notin h.active
    BY <1>3, <2>1
  <2>3. \A u \in Of(s) : w.queue[u].act <= h.act
    BY <1>3, <1>5, <2>1
  <2> QED BY <1>3, <1>4, <2>1, <2>2, <2>3 DEF DiskInv, h
<1> QED BY <1>2, <1>6, SafeElsewhere

LEMMA SafeReceipted ==
  ASSUME NEW d \in Disk, NEW s \in Subjects, NEW w, NEW k \in Of(s) \cup {Scan},
         Safe(d), Receipted(d, w, s, k)
  PROVE  Safe(w)
<1>1. DiskInv(d, s)
  BY DEF Safe
<1>2. Elsewhere(d, w, s)
  BY ReceiptedEffect DEF Mild
<1>3. /\ w.gate = d.gate /\ w.queue = d.queue /\ w.failures[s].last = k
      /\ w.failures[s].unread /\ w.failures[s].keys # {}
  BY ReceiptedEffect DEF Receipted
<1>4. DiskInv(w, s)
  BY <1>1, <1>3 DEF DiskInv
<1> QED BY <1>2, <1>4, SafeElsewhere

\* A reconciliation shuts the gate at most; it takes a slot only for a
\* receipt that a crash has left unread, and it leaves one unread only beside
\* a stale acknowledgement.
LEMMA ReconcileEffect ==
  ASSUME NEW d \in Disk, NEW s \in Subjects, Safe(d)
  PROVE  LET ws == Reconcile(d, s)
             k == d.failures[s].last
         IN /\ \A i \in 1..Len(ws) :
                 /\ ws[i] \in Disk /\ Safe(ws[i]) /\ Kept(d, ws[i], s)
                 /\ Mild(d, ws[i], s) \/ LetsGo(d, ws[i], s, k)
                 /\ ~ d.failures[s].unread => Mild(d, ws[i], s)
            /\ Len(ws) \in Nat \ {0}
            /\ ~ StaleAck(d, s) => ~ Final(ws).failures[s].unread
<1> DEFINE ws == Reconcile(d, s)
           k == d.failures[s].last
<1>1. DiskInv(d, s)
  BY DEF Safe
<1>2. k \in Of(s) \cup {Scan}
  BY <1>1 DEF DiskInv
<1>3. Outstanding(d, s) /\ ~ d.failures[s].unread => k \notin d.gate[s].active
  BY <1>1 DEF DiskInv, Outstanding
<1>4. ASSUME NEW w \in Disk,
             \/ Untouched(d, w)
             \/ Outstanding(d, s) /\ HalfClosed(d, w, s)
             \/ Outstanding(d, s) /\ ClosedBy(d, w, s)
      PROVE  /\ Safe(w) /\ Kept(d, w, s)
             /\ Mild(d, w, s) \/ LetsGo(d, w, s, k)
             /\ ~ d.failures[s].unread => Mild(d, w, s)
  <2>1. CASE Untouched(d, w)
    BY <2>1, UntouchedIsMild DEF Safe
  <2>2. CASE Outstanding(d, s) /\ HalfClosed(d, w, s)
    BY <1>2, <2>2, HalfClosedEffect, SafeHalfClosed
  <2>3. CASE Outstanding(d, s) /\ ClosedBy(d, w, s)
    BY <1>2, <1>3, <2>3, ClosedByEffect, SafeClosedBy
  <2> QED BY <1>4, <2>1, <2>2, <2>3
<1>5. ~ StaleAck(d, s) => ~ Final(ws).failures[s].unread
  <2>1. CASE Outstanding(d, s)
    BY <2>1, ReconcileWrites, ClosedByFacts
  <2>2. CASE ~ Outstanding(d, s) /\ ~ StaleAck(d, s)
    BY <1>1, <2>2, ReconcileWrites DEF Outstanding, StaleAck, DiskInv
  <2> QED BY <2>1, <2>2
<1>6. \A i \in 1..Len(ws) :
        /\ ws[i] \in Disk
        /\ \/ Untouched(d, ws[i])
           \/ Outstanding(d, s) /\ HalfClosed(d, ws[i], s)
           \/ Outstanding(d, s) /\ ClosedBy(d, ws[i], s)
  BY ReconcileWrites
<1>7. Len(ws) \in Nat \ {0}
  BY ReconcileWrites
<1> HIDE DEF ws, k
<1> QED BY <1>4, <1>5, <1>6, <1>7 DEF ws, k

\* Recording a failure, when no receipt is unread: the gate is shut at most,
\* and the task that is recorded is the only one that may lose its slot.
LEMMA FailPreclaimEffect ==
  ASSUME NEW d \in Disk, NEW s \in Subjects, NEW k \in Of(s) \cup {Scan},
         Safe(d), ~ d.failures[s].unread
  PROVE  LET ws == FailPreclaim(d, s, k)
             r == Final(Reconcile(d, s))
         IN /\ Len(ws) \in Nat
            /\ \A i \in 1..Len(ws) :
                 /\ ws[i] \in Disk /\ Safe(ws[i])
                 /\ Mild(d, ws[i], s) \/ LetsGo(d, ws[i], s, k)
            /\ Final(ws) \in Disk /\ Safe(Final(ws))
            /\ Mild(d, Final(ws), s) \/ LetsGo(d, Final(ws), s, k)
            /\ ~ Final(ws).failures[s].unread
            /\ Refused(d, s) => Final(ws) = r /\ Kept(d, Final(ws), s)
            /\ ~ Refused(d, s) => /\ LetsGo(d, Final(ws), s, k)
                                  /\ Final(ws).failures[s].last = k
<1> DEFINE ws == FailPreclaim(d, s, k)
           rs == Reconcile(d, s)
           r == Final(rs)
           e == Recorded(r, s, k)
<1>1. k \in Keys
  BY TaskFacts DEF Keys
<1>2. /\ r \in Disk /\ e \in Disk /\ Receipted(r, e, s, k) /\ Len(ws) \in Nat
      /\ Final(ws) \in Disk
      /\ Refused(d, s) => Final(ws) = r
      /\ ~ Refused(d, s) => ClosedBy(e, Final(ws), s)
  BY <1>1, FailPreclaimWrites
<1>3. \A i \in 1..Len(ws) :
        /\ ws[i] \in Disk
        /\ \/ \E j \in 1..Len(rs) : ws[i] = rs[j]
           \/ ~ Refused(d, s) /\ Untouched(e, ws[i])
           \/ ~ Refused(d, s) /\ HalfClosed(e, ws[i], s)
           \/ ~ Refused(d, s) /\ ClosedBy(e, ws[i], s)
  BY <1>1, FailPreclaimWrites
<1>4. /\ \A j \in 1..Len(rs) : Safe(rs[j]) /\ Mild(d, rs[j], s) /\ Kept(d, rs[j], s)
      /\ Len(rs) \in Nat \ {0} /\ ~ r.failures[s].unread
  BY ReconcileEffect DEF StaleAck
<1>5. Safe(r) /\ Mild(d, r, s) /\ Kept(d, r, s)
  BY <1>4 DEF Final
<1> HIDE DEF ws, rs, r, e
<1>6. Safe(e) /\ Mild(d, e, s) /\ e.failures[s].last = k
  BY <1>2, <1>5, SafeReceipted, ReceiptedEffect, MildThenMild
<1>7. ASSUME NEW w, Untouched(e, w) \/ HalfClosed(e, w, s) \/ ClosedBy(e, w, s)
      PROVE  /\ Safe(w)
             /\ Mild(d, w, s) \/ LetsGo(d, w, s, k)
             /\ ClosedBy(e, w, s) => LetsGo(d, w, s, k)
  <2>1. CASE ClosedBy(e, w, s)
    BY <1>2, <1>6, <2>1, ClosedByEffect, SafeClosedBy, MildThenMild
  <2>2. CASE ~ ClosedBy(e, w, s) /\ HalfClosed(e, w, s)
    BY <1>2, <1>6, <2>2, HalfClosedEffect, SafeHalfClosed, MildThenMild
  <2>3. CASE ~ ClosedBy(e, w, s) /\ Untouched(e, w)
    BY <1>2, <1>6, <2>3, UntouchedIsMild, MildThenMild DEF Safe
  <2> QED BY <1>7, <2>1, <2>2, <2>3
<1>8. \A i \in 1..Len(ws) : Safe(ws[i]) /\ (Mild(d, ws[i], s) \/ LetsGo(d, ws[i], s, k))
  BY <1>3, <1>4, <1>7
<1>9. ClosedBy(e, Final(ws), s) => /\ ~ Final(ws).failures[s].unread
                                  /\ Final(ws).failures[s].last = k
  BY <1>2, <1>6, ClosedByFacts
<1>10. /\ Mild(d, Final(ws), s) \/ LetsGo(d, Final(ws), s, k)
       /\ ~ Final(ws).failures[s].unread
  BY <1>2, <1>4, <1>5, <1>7, <1>9
<1>11. Safe(Final(ws))
  BY <1>2, <1>5, <1>7
<1> QED BY <1>2, <1>3, <1>5, <1>7, <1>8, <1>9, <1>10, <1>11 DEF ws, rs, r

-----------------------------------------------------------------------------
(* Admission, identification and the end of a task, field by field.        *)

QueueIs(d, u, x, n) ==
  [d.queue EXCEPT ![u] = [status |-> x, act |-> d.queue[u].act, named |-> n]]

\* w is d with the queue q, and with the gate g of s.
Queues(d, w, q) == w.gate = d.gate /\ w.queue = q /\ w.failures = d.failures
Gates(d, w, s, g, q) ==
  w.gate = [d.gate EXCEPT ![s] = g] /\ w.queue = q /\ w.failures = d.failures

AdmitGate(d, u) ==
  LET g == d.gate[SubjectOf[u]]
      more == g.active \cup {u}
  IN [g EXCEPT !.state = IF @ = "armed" THEN "in_flight" ELSE @,
               !.selected = IF g.state = "armed" THEN u ELSE Scan,
               !.active = more,
               !.pressed = g.state = "unlocked" /\ Cardinality(more) >= Limit]

NamedGate(d, u) ==
  LET g == d.gate[SubjectOf[u]] IN [g EXCEPT !.named = @ \cup {u}]

Opens(d, u, how) == how = "succeeded" /\ d.gate[SubjectOf[u]].state # "failed"

FinishGate(d, u, how) ==
  LET g == d.gate[SubjectOf[u]]
      rest == g.active \ {u}
  IN [g EXCEPT !.active = rest, !.named = @ \ {u}, !.selected = Scan,
               !.index = @ \cup {<<u, "terminal">>},
               !.tainted = @ \/ how = "unevidenced",
               !.notice = Overtaken(@),
               !.state = IF Opens(d, u, how) THEN "unlocked" ELSE "failed",
               !.unlocked = @ \/ Opens(d, u, how),
               !.pressed = Opens(d, u, how) /\ Cardinality(rest) >= Limit]

ProjectionGate(d, u) ==
  [d.gate[SubjectOf[u]] EXCEPT !.index = @ \cup {<<u, "projection">>},
                               !.notice = Overtaken(@), !.state = "failed",
                               !.selected = Scan, !.pressed = FALSE]

\* The gates that are written, field by field.
LEMMA AdmitGateFacts ==
  ASSUME NEW d \in Disk, NEW u \in Units
  PROVE  LET g == d.gate[SubjectOf[u]]
             h == AdmitGate(d, u)
         IN /\ h \in Gate
            /\ h.state = IF g.state = "armed" THEN "in_flight" ELSE g.state
            /\ h.selected = IF g.state = "armed" THEN u ELSE Scan
            /\ h.active = g.active \cup {u} /\ h.named = g.named
            /\ h.pressed = (g.state = "unlocked" /\ Cardinality(h.active) >= Limit)
            /\ h.act = g.act /\ h.retired = g.retired /\ h.tainted = g.tainted
            /\ h.unlocked = g.unlocked /\ h.notice = g.notice
<1> DEFINE g == d.gate[SubjectOf[u]]
           p == g.state = "unlocked" /\ Cardinality(g.active \cup {u}) >= Limit
<1>1. g \in Gate
  BY DiskParts
<1>2. p \in BOOLEAN
  BY Zenon
<1>3. AdmitGate(d, u) =
        [g EXCEPT !.state = IF @ = "armed" THEN "in_flight" ELSE @,
                  !.selected = IF g.state = "armed" THEN u ELSE Scan,
                  !.active = g.active \cup {u}, !.pressed = p]
  BY Zenon DEF AdmitGate
<1> HIDE DEF p, g
<1>4. u \in Keys /\ Scan \in Keys
  BY DEF Keys
<1>5. AdmitGate(d, u) \in Gate
  <2>1. /\ g.active \cup {u} \in SUBSET Units
        /\ (IF g.state = "armed" THEN "in_flight" ELSE g.state) \in GateStates
        /\ (IF g.state = "armed" THEN u ELSE Scan) \in Keys
    BY <1>1, <1>4 DEF Gate, GateStates
  <2> QED BY <1>1, <1>2, <1>3, <2>1 DEF Gate
<1>6. AdmitGate(d, u).pressed = p /\ AdmitGate(d, u).active = g.active \cup {u}
  BY <1>1, <1>3 DEF Gate
<1> QED BY <1>1, <1>3, <1>5, <1>6 DEF Gate, p, g

LEMMA NamedGateFacts ==
  ASSUME NEW d \in Disk, NEW u \in Units
  PROVE  LET g == d.gate[SubjectOf[u]]
             h == NamedGate(d, u)
         IN /\ h \in Gate
            /\ h.state = g.state /\ h.selected = g.selected /\ h.active = g.active
            /\ h.named = g.named \cup {u} /\ h.pressed = g.pressed
            /\ h.act = g.act /\ h.retired = g.retired /\ h.tainted = g.tainted
            /\ h.unlocked = g.unlocked /\ h.notice = g.notice
<1>1. d.gate[SubjectOf[u]] \in Gate
  BY DiskParts
<1> QED BY <1>1 DEF NamedGate, Gate

LEMMA FinishGateFacts ==
  ASSUME NEW d \in Disk, NEW u \in Units, NEW how
  PROVE  LET g == d.gate[SubjectOf[u]]
             h == FinishGate(d, u, how)
         IN /\ h \in Gate
            /\ h.state = IF Opens(d, u, how) THEN "unlocked" ELSE "failed"
            /\ h.selected = Scan /\ h.active = g.active \ {u}
            /\ h.named = g.named \ {u}
            /\ h.pressed = (Opens(d, u, how) /\ Cardinality(h.active) >= Limit)
            /\ h.act = g.act /\ h.retired = g.retired
            /\ h.tainted = (g.tainted \/ how = "unevidenced")
            /\ h.unlocked = (g.unlocked \/ Opens(d, u, how))
            /\ h.notice = Overtaken(g.notice)
<1> DEFINE g == d.gate[SubjectOf[u]]
           o == Opens(d, u, how)
           p == o /\ Cardinality(g.active \ {u}) >= Limit
           a == g.tainted \/ how = "unevidenced"
           l == g.unlocked \/ o
           n == Overtaken(g.notice)
<1>1. g \in Gate
  BY DiskParts
<1>2. p \in BOOLEAN /\ a \in BOOLEAN /\ l \in BOOLEAN
  BY Zenon
<1>3. n \in {"none", "named", "overtaken", "acked"}
  BY <1>1 DEF Overtaken, Gate
<1>4. FinishGate(d, u, how) =
        [g EXCEPT !.active = g.active \ {u}, !.named = g.named \ {u}, !.selected = Scan,
                  !.index = g.index \cup {<<u, "terminal">>},
                  !.tainted = a, !.notice = n,
                  !.state = IF o THEN "unlocked" ELSE "failed",
                  !.unlocked = l, !.pressed = p]
  BY Zenon DEF FinishGate
<1> HIDE DEF g, p, a, l, n, o
<1>5. Scan \in Keys
  BY DEF Keys
<1>6. g.index \cup {<<u, "terminal">>} \in SUBSET (Units \X {"terminal", "projection"})
  BY <1>1 DEF Gate
<1>7. FinishGate(d, u, how) \in Gate
  <2>1. /\ g.active \ {u} \in SUBSET Units /\ g.named \ {u} \in SUBSET Units
        /\ (IF o THEN "unlocked" ELSE "failed") \in GateStates
    BY <1>1 DEF Gate, GateStates
  <2> QED BY <1>1, <1>2, <1>3, <1>4, <1>5, <1>6, <2>1 DEF Gate
<1>8. LET h == FinishGate(d, u, how)
      IN /\ h.state = IF o THEN "unlocked" ELSE "failed"
         /\ h.selected = Scan /\ h.active = g.active \ {u}
         /\ h.named = g.named \ {u} /\ h.act = g.act /\ h.retired = g.retired
         /\ h.notice = n
  BY <1>1, <1>4 DEF Gate
<1>9. /\ FinishGate(d, u, how).tainted = a /\ FinishGate(d, u, how).unlocked = l
      /\ FinishGate(d, u, how).pressed = p
  BY <1>1, <1>4 DEF Gate
<1> QED BY <1>7, <1>8, <1>9 DEF g, p, a, l, n, o

LEMMA ProjectionGateFacts ==
  ASSUME NEW d \in Disk, NEW u \in Units
  PROVE  LET g == d.gate[SubjectOf[u]]
             h == ProjectionGate(d, u)
         IN /\ h \in Gate
            /\ h.state = "failed" /\ h.selected = Scan /\ h.active = g.active
            /\ h.named = g.named /\ ~ h.pressed
            /\ h.act = g.act /\ h.retired = g.retired /\ h.tainted = g.tainted
            /\ h.unlocked = g.unlocked /\ h.notice = Overtaken(g.notice)
<1> DEFINE g == d.gate[SubjectOf[u]]
           n == Overtaken(g.notice)
<1>1. g \in Gate
  BY DiskParts
<1>2. n \in {"none", "named", "overtaken", "acked"}
  BY <1>1 DEF Overtaken, Gate
<1>3. ProjectionGate(d, u) =
        [g EXCEPT !.index = g.index \cup {<<u, "projection">>}, !.notice = n,
                  !.state = "failed", !.selected = Scan, !.pressed = FALSE]
  BY Zenon DEF ProjectionGate
<1> HIDE DEF g, n
<1>4. Scan \in Keys
  BY DEF Keys
<1>5. g.index \cup {<<u, "projection">>} \in SUBSET (Units \X {"terminal", "projection"})
  BY <1>1 DEF Gate
<1>6. ProjectionGate(d, u) \in Gate
  BY <1>1, <1>2, <1>3, <1>4, <1>5 DEF Gate, GateStates
<1>7. LET h == ProjectionGate(d, u)
      IN /\ h.state = "failed" /\ h.selected = Scan /\ h.active = g.active
         /\ h.named = g.named /\ ~ h.pressed
         /\ h.act = g.act /\ h.retired = g.retired /\ h.tainted = g.tainted
         /\ h.unlocked = g.unlocked /\ h.notice = n
  BY <1>1, <1>3 DEF Gate
<1> QED BY <1>6, <1>7 DEF g, n

LEMMA EntryFields ==
  ASSUME NEW r \in QueueEntry, NEW x, NEW n
  PROVE  /\ [r EXCEPT !.status = x, !.named = n] =
              [status |-> x, act |-> r.act, named |-> n]
         /\ [r EXCEPT !.named = n] = [status |-> r.status, act |-> r.act, named |-> n]
<1>1. [r EXCEPT !.named = n] = [status |-> r.status, act |-> r.act, named |-> n]
  BY DEF QueueEntry
<1>2. [r EXCEPT !.status = x] = [status |-> x, act |-> r.act, named |-> r.named]
  BY DEF QueueEntry
<1>3. [r EXCEPT !.status = x, !.named = n] = [[r EXCEPT !.status = x] EXCEPT !.named = n]
  BY DEF QueueEntry
<1>4. [[status |-> x, act |-> r.act, named |-> r.named] EXCEPT !.named = n] =
        [status |-> x, act |-> r.act, named |-> n]
  OBVIOUS
<1> QED BY <1>1, <1>2, <1>3, <1>4

\* Writing one queue entry.
LEMMA EntryWrite ==
  ASSUME NEW d \in Disk, NEW u \in Units,
         NEW x \in {"none", "pending", "claimed", "succeeded", "failed"}, NEW n \in BOOLEAN
  PROVE  /\ [d EXCEPT !.queue[u].status = x, !.queue[u].named = n] \in Disk
         /\ Queues(d, [d EXCEPT !.queue[u].status = x, !.queue[u].named = n],
                   QueueIs(d, u, x, n))
         /\ [d EXCEPT !.queue[u].status = x] \in Disk
         /\ Queues(d, [d EXCEPT !.queue[u].status = x],
                   QueueIs(d, u, x, d.queue[u].named))
         /\ [d EXCEPT !.queue[u].named = n] \in Disk
         /\ Queues(d, [d EXCEPT !.queue[u].named = n],
                   QueueIs(d, u, d.queue[u].status, n))
<1>1. d.queue[u] \in QueueEntry
  BY DiskParts
<1>2. ASSUME NEW q \in QueueEntry
      PROVE  LET w == [d EXCEPT !.queue[u] = q]
             IN /\ w \in Disk /\ w.queue = [d.queue EXCEPT ![u] = q]
                /\ w.gate = d.gate /\ w.failures = d.failures
  <2>1. [d EXCEPT !.queue[u] = q] \in Disk
    BY DEF Disk
  <2>2. [d EXCEPT !.queue[u] = q].queue = [d.queue EXCEPT ![u] = q]
    BY DEF Disk
  <2> QED BY <2>1, <2>2 DEF Disk
<1>3. /\ [status |-> x, act |-> d.queue[u].act, named |-> n] \in QueueEntry
      /\ [status |-> x, act |-> d.queue[u].act, named |-> d.queue[u].named] \in QueueEntry
      /\ [status |-> d.queue[u].status, act |-> d.queue[u].act, named |-> n] \in QueueEntry
  BY <1>1 DEF QueueEntry
<1> DEFINE r == d.queue[u]
<1>4. [d EXCEPT !.queue[u].status = x, !.queue[u].named = n] =
        [d EXCEPT !.queue[u] = [status |-> x, act |-> d.queue[u].act, named |-> n]]
  <2>1. [d EXCEPT !.queue[u].status = x, !.queue[u].named = n] =
          [d EXCEPT !.queue[u] = [r EXCEPT !.status = x, !.named = n]]
    BY DEF Disk
  <2>2. [r EXCEPT !.status = x, !.named = n] =
          [status |-> x, act |-> r.act, named |-> n]
    BY <1>1, EntryFields
  <2> QED BY Zenon, <2>1, <2>2
<1>5. [d EXCEPT !.queue[u].status = x] =
        [d EXCEPT !.queue[u] = [status |-> x, act |-> d.queue[u].act,
                                named |-> d.queue[u].named]]
  <2>1. [d EXCEPT !.queue[u].status = x] =
          [d EXCEPT !.queue[u] = [r EXCEPT !.status = x]]
    BY DEF Disk
  <2>2. [r EXCEPT !.status = x] = [status |-> x, act |-> r.act, named |-> r.named]
    BY <1>1 DEF QueueEntry
  <2> QED BY Zenon, <2>1, <2>2
<1>6. [d EXCEPT !.queue[u].named = n] =
        [d EXCEPT !.queue[u] = [status |-> d.queue[u].status, act |-> d.queue[u].act,
                                named |-> n]]
  <2> DEFINE q == [r EXCEPT !.named = n]
             p == [status |-> d.queue[u].status, act |-> d.queue[u].act, named |-> n]
  <2>1. [d EXCEPT !.queue[u].named = n] = [d EXCEPT !.queue[u] = q]
    BY DEF Disk
  <2>2. q = p
    BY <1>1, EntryFields
  <2>3. [d EXCEPT !.queue[u].named = n] = [d EXCEPT !.queue[u] = p]
    <3> HIDE DEF q, p
    <3> QED BY <2>1, <2>2
  <2> QED BY <2>3
<1>7. ASSUME NEW y, NEW m, NEW w,
             [status |-> y, act |-> d.queue[u].act, named |-> m] \in QueueEntry,
             w = [d EXCEPT !.queue[u] = [status |-> y, act |-> d.queue[u].act, named |-> m]]
      PROVE  w \in Disk /\ Queues(d, w, QueueIs(d, u, y, m))
  <2> DEFINE q == [status |-> y, act |-> d.queue[u].act, named |-> m]
  <2>1. q \in QueueEntry /\ w = [d EXCEPT !.queue[u] = q]
    BY <1>7
  <2>2. QueueIs(d, u, y, m) = [d.queue EXCEPT ![u] = q]
    BY DEF QueueIs
  <2> HIDE DEF q
  <2> QED BY <1>2, <2>1, <2>2 DEF Queues
<1>8. /\ [d EXCEPT !.queue[u].status = x, !.queue[u].named = n] \in Disk
      /\ Queues(d, [d EXCEPT !.queue[u].status = x, !.queue[u].named = n],
                QueueIs(d, u, x, n))
  BY Zenon, <1>3, <1>4, <1>7
<1>9. /\ [d EXCEPT !.queue[u].status = x] \in Disk
      /\ Queues(d, [d EXCEPT !.queue[u].status = x],
                QueueIs(d, u, x, d.queue[u].named))
  BY Zenon, <1>3, <1>5, <1>7
<1>10. /\ [d EXCEPT !.queue[u].named = n] \in Disk
       /\ Queues(d, [d EXCEPT !.queue[u].named = n],
                 QueueIs(d, u, d.queue[u].status, n))
  BY Zenon, <1>3, <1>6, <1>7
<1> QED BY <1>8, <1>9, <1>10

\* The entry that is written, and the others.
LEMMA QueueIsFacts ==
  ASSUME NEW d \in Disk, NEW u \in Units, NEW x, NEW n
  PROVE  LET q == QueueIs(d, u, x, n)
         IN /\ q[u].status = x /\ q[u].act = d.queue[u].act /\ q[u].named = n
            /\ \A v \in Units : v # u => q[v] = d.queue[v]
            /\ \A v \in Units : q[v].act = d.queue[v].act
  BY DiskParts DEF QueueIs

\* A queue entry, then the state, then the telemetry.
LEMMA EntryThenGate ==
  ASSUME NEW d \in Disk, NEW q, NEW s \in Subjects, NEW g \in Gate, NEW w \in Disk,
         Queues(d, w, q)
  PROVE  /\ WithGate(w, s, g) \in Disk /\ Gates(d, WithGate(w, s, g), s, g, q)
         /\ Recounted(WithGate(w, s, g)) \in Disk
         /\ Gates(d, Recounted(WithGate(w, s, g)), s, g, q)
<1>1. WithGate(w, s, g) \in Disk /\ Gates(d, WithGate(w, s, g), s, g, q)
  BY WithGateFacts DEF Queues, Gates
<1> QED BY <1>1, RecountedFacts DEF Gates

\* The writes of an admission; without a lease only if a gate cannot be read.
LEMMA AdmitWrites ==
  ASSUME NEW d \in Disk, NEW u \in Units
  PROVE  LET ws == Admit(d, u)
             s == SubjectOf[u]
             q == QueueIs(d, u, "claimed", FALSE)
         IN /\ Len(ws) \in {2, 4}
            /\ ws[1] \in Disk /\ Queues(d, ws[1], q)
            /\ \A i \in 2..Len(ws) : /\ ws[i] \in Disk
                                     /\ Gates(d, ws[i], s, AdmitGate(d, u), q)
            /\ Final(ws) = ws[Len(ws)]
            /\ AllReadable(ws[2]) => Final(ws).lease[u] = "claimed"
<1> DEFINE s == SubjectOf[u]
           q == QueueIs(d, u, "claimed", FALSE)
           queue == [d EXCEPT !.queue[u].status = "claimed", !.queue[u].named = FALSE]
           gate == WithGate(queue, s, AdmitGate(d, u))
           counted == Recounted(gate)
           leased == [counted EXCEPT !.lease[u] = "claimed"]
<1>1. Admit(d, u) = IF AllReadable(gate) THEN <<queue, gate, counted, leased>>
                                         ELSE <<queue, gate>>
  BY Zenon DEF Admit, AdmitGate
<1>2. queue \in Disk /\ Queues(d, queue, q)
  BY EntryWrite
<1>3. s \in Subjects /\ AdmitGate(d, u) \in Gate
  BY AdmitGateFacts
<1> HIDE DEF queue, q
<1>4. /\ gate \in Disk /\ Gates(d, gate, s, AdmitGate(d, u), q)
      /\ counted \in Disk /\ Gates(d, counted, s, AdmitGate(d, u), q)
  BY <1>2, <1>3, EntryThenGate
<1> HIDE DEF gate, counted
<1>5. leased \in Disk /\ Gates(d, leased, s, AdmitGate(d, u), q) /\ leased.lease[u] = "claimed"
  <2>1. "claimed" \in LeaseStates
    BY DEF LeaseStates
  <2>2. /\ leased \in Disk /\ leased.lease = [counted.lease EXCEPT ![u] = "claimed"]
        /\ leased.gate = counted.gate /\ leased.queue = counted.queue
        /\ leased.failures = counted.failures
    BY <1>4, <2>1, LeaseWrite
  <2>3. counted.lease \in [Units -> LeaseStates]
    BY <1>4, DiskParts
  <2> HIDE DEF leased
  <2> QED BY <1>4, <2>2, <2>3 DEF Gates
<1> HIDE DEF leased, s
<1>6. CASE AllReadable(gate)
  <2>1. Admit(d, u) = <<queue, gate, counted, leased>>
    BY <1>1, <1>6
  <2>2. \A i \in 2..4 : i = 2 \/ i = 3 \/ i = 4
    OBVIOUS
  <2>3. \A i \in 2..4 : /\ Admit(d, u)[i] \in Disk
                        /\ Gates(d, Admit(d, u)[i], s, AdmitGate(d, u), q)
    BY <1>4, <1>5, <2>1, <2>2
  <2>4. Len(Admit(d, u)) = 4 /\ Admit(d, u)[1] = queue /\ Admit(d, u)[4] = leased
    BY <2>1
  <2>5. Final(Admit(d, u)) = Admit(d, u)[Len(Admit(d, u))]
    BY DEF Final
  <2> QED BY <1>2, <1>5, <2>3, <2>4, <2>5 DEF s, q
<1>7. CASE ~ AllReadable(gate)
  <2>1. Admit(d, u) = <<queue, gate>>
    BY <1>1, <1>7
  <2>2. \A i \in 2..2 : /\ Admit(d, u)[i] \in Disk
                        /\ Gates(d, Admit(d, u)[i], s, AdmitGate(d, u), q)
    BY <1>4, <2>1
  <2>3. Len(Admit(d, u)) = 2 /\ Admit(d, u)[1] = queue /\ Admit(d, u)[2] = gate
    BY <2>1
  <2>4. Final(Admit(d, u)) = Admit(d, u)[Len(Admit(d, u))]
    BY DEF Final
  <2> QED BY <1>2, <1>7, <2>2, <2>3, <2>4 DEF s, q
<1> QED BY <1>6, <1>7

\* The writes of an identification.
LEMMA IdentifyWrites ==
  ASSUME NEW d \in Disk, NEW u \in Units
  PROVE  LET ws == Identify(d, u)
             s == SubjectOf[u]
             q == QueueIs(d, u, d.queue[u].status, TRUE)
         IN /\ Len(ws) = 2 /\ Final(ws) = ws[2]
            /\ ws[1] \in Disk /\ Queues(d, ws[1], q)
            /\ ws[2] \in Disk /\ Gates(d, ws[2], s, NamedGate(d, u), q)
<1> DEFINE s == SubjectOf[u]
           q == QueueIs(d, u, d.queue[u].status, TRUE)
           queue == [d EXCEPT !.queue[u].named = TRUE]
           gate == [queue EXCEPT !.gate[s].named = @ \cup {u}]
<1>1. Identify(d, u) = <<queue, gate>>
  BY Zenon DEF Identify
<1>2. queue \in Disk /\ Queues(d, queue, q)
  BY EntryWrite
<1> HIDE DEF queue, q
<1>3. gate = [queue EXCEPT !.gate[s] = NamedGate(d, u)]
  BY <1>2, DiskParts DEF NamedGate, Queues, Disk, Gate
<1>4. s \in Subjects /\ NamedGate(d, u) \in Gate
  BY NamedGateFacts
<1>5. [queue EXCEPT !.gate[s] = NamedGate(d, u)] \in Disk
  BY <1>2, <1>4 DEF Disk
<1>6. /\ [queue EXCEPT !.gate[s] = NamedGate(d, u)].gate =
           [queue.gate EXCEPT ![s] = NamedGate(d, u)]
      /\ [queue EXCEPT !.gate[s] = NamedGate(d, u)].queue = queue.queue
      /\ [queue EXCEPT !.gate[s] = NamedGate(d, u)].failures = queue.failures
  BY <1>2, <1>4 DEF Disk
<1>7. gate \in Disk /\ Gates(d, gate, s, NamedGate(d, u), q)
  BY <1>2, <1>3, <1>5, <1>6 DEF Gates, Queues
<1> HIDE DEF gate, s
<1>8. Len(Identify(d, u)) = 2 /\ Identify(d, u)[1] = queue /\ Identify(d, u)[2] = gate
  BY <1>1
<1>9. Final(Identify(d, u)) = Identify(d, u)[2]
  BY <1>8 DEF Final
<1> QED BY <1>2, <1>7, <1>8, <1>9 DEF s, q

\* The writes of the end of a task.
LEMMA FinishWrites ==
  ASSUME NEW d \in Disk, NEW u \in Units, NEW how
  PROVE  LET ws == Finish(d, u, how)
             s == SubjectOf[u]
             q == QueueIs(d, u, IF how = "succeeded" THEN "succeeded" ELSE "failed",
                          d.queue[u].named)
         IN /\ Len(ws) = 3 /\ Final(ws) = ws[3]
            /\ ws[1] \in Disk /\ Queues(d, ws[1], q)
            /\ ws[2] \in Disk /\ Gates(d, ws[2], s, FinishGate(d, u, how), q)
            /\ ws[3] \in Disk /\ Gates(d, ws[3], s, FinishGate(d, u, how), q)
<1> DEFINE s == SubjectOf[u]
           x == IF how = "succeeded" THEN "succeeded" ELSE "failed"
           q == QueueIs(d, u, x, d.queue[u].named)
           queue == [d EXCEPT !.queue[u].status = x]
           gate == WithGate(queue, s, FinishGate(d, u, how))
           counted == Recounted(gate)
<1>1. Finish(d, u, how) = <<queue, gate, counted>>
  BY Zenon DEF Finish, FinishGate, Opens
<1>2. queue \in Disk /\ Queues(d, queue, q)
  <2>1. x \in {"none", "pending", "claimed", "succeeded", "failed"}
    OBVIOUS
  <2> HIDE DEF x
  <2> QED BY <2>1, EntryWrite
<1>3. s \in Subjects /\ FinishGate(d, u, how) \in Gate
  BY FinishGateFacts
<1> HIDE DEF queue, q
<1>4. /\ gate \in Disk /\ Gates(d, gate, s, FinishGate(d, u, how), q)
      /\ counted \in Disk /\ Gates(d, counted, s, FinishGate(d, u, how), q)
  BY <1>2, <1>3, EntryThenGate
<1> HIDE DEF gate, counted, s
<1> QED BY <1>1, <1>2, <1>4 DEF Final, s, q

\* Writes of the state and the telemetry only.
LEMMA RewrittenWrites ==
  ASSUME NEW d \in Disk, NEW s \in Subjects, NEW g \in Gate
  PROVE  LET ws == Rewritten(d, s, g)
         IN /\ Len(ws) = 2 /\ Final(ws) = ws[2]
            /\ ws[1] \in Disk /\ Gates(d, ws[1], s, g, d.queue)
            /\ ws[2] \in Disk /\ Gates(d, ws[2], s, g, d.queue)
<1>1. Queues(d, d, d.queue)
  BY DEF Queues
<1>2. /\ WithGate(d, s, g) \in Disk /\ Gates(d, WithGate(d, s, g), s, g, d.queue)
      /\ Recounted(WithGate(d, s, g)) \in Disk
      /\ Gates(d, Recounted(WithGate(d, s, g)), s, g, d.queue)
  BY <1>1, EntryThenGate
<1> QED BY <1>2 DEF Rewritten, Final

LEMMA PostTerminalWrites ==
  ASSUME NEW d \in Disk, NEW u \in Units
  PROVE  LET ws == FailPostTerminal(d, u)
             s == SubjectOf[u]
         IN /\ Final(ws) \in Disk
            /\ Gates(d, Final(ws), s, ProjectionGate(d, u), d.queue)
<1>1. FailPostTerminal(d, u) = Rewritten(d, SubjectOf[u], ProjectionGate(d, u))
  BY Zenon DEF FailPostTerminal, Rewritten, ProjectionGate
<1>2. SubjectOf[u] \in Subjects /\ ProjectionGate(d, u) \in Gate
  BY ProjectionGateFacts
<1> QED BY <1>1, <1>2, RewrittenWrites

-----------------------------------------------------------------------------
(* What the operations of the tasks do to the gate.                        *)

LEMMA GatesFacts ==
  ASSUME NEW d \in Disk, NEW w, NEW s \in Subjects, NEW g, NEW q, Gates(d, w, s, g, q)
  PROVE  /\ w.gate[s] = g /\ \A t \in Subjects \ {s} : w.gate[t] = d.gate[t]
         /\ w.queue = q /\ w.failures = d.failures
  BY DiskParts DEF Gates

\* The checks of a gate do not depend on what belongs to other subjects.
LEMMA ReadableElsewhere ==
  ASSUME NEW d, NEW w, NEW s \in Subjects, Elsewhere(d, w, s), Safe(d),
         NEW t \in Subjects, t # s
  PROVE  /\ Readable(w, t) <=> Readable(d, t)
         /\ w.gate[t] = d.gate[t] /\ w.failures[t] = d.failures[t]
         /\ \A u \in Of(t) : w.queue[u] = d.queue[u] /\ (Queued(w, u) <=> Queued(d, u))
<1>1. w.gate[t] = d.gate[t] /\ w.failures[t] = d.failures[t]
  BY DEF Elsewhere
<1>2. \A u \in Of(t) : w.queue[u] = d.queue[u] /\ (Queued(w, u) <=> Queued(d, u))
  BY <1>1, TaskFacts DEF Elsewhere, Queued
<1>3. d.gate[t].active \subseteq Of(t)
  BY DEF Safe, DiskInv
<1>4. (\A u \in w.gate[t].active : SelectionMatches(w, t, u))
        <=> (\A u \in d.gate[t].active : SelectionMatches(d, t, u))
  BY <1>1, <1>2, <1>3 DEF SelectionMatches
<1> QED BY <1>1, <1>2, <1>4 DEF Readable

\* A task gets a slot through an open gate, which stays open.
Grants(d, w, s, u) ==
  /\ Elsewhere(d, w, s)
  /\ u \notin d.gate[s].active /\ w.gate[s].active = d.gate[s].active \cup {u}
  /\ w.gate[s].unlocked = d.gate[s].unlocked
  /\ d.gate[s].state \in OpenStates /\ w.gate[s].state \in OpenStates
  /\ w.failures = d.failures /\ Readable(d, s) /\ Readable(w, s)
  /\ IF d.gate[s].unlocked THEN Cardinality(d.gate[s].active) < Limit
                           ELSE d.gate[s].active = {}

\* A task gives its slot back and leaves the gate open.
Proves(d, w, s, u) ==
  /\ Elsewhere(d, w, s)
  /\ u \in d.gate[s].active /\ w.gate[s].active = d.gate[s].active \ {u}
  /\ w.gate[s].unlocked
  /\ d.gate[s].state \in OpenStates /\ w.gate[s].state \in OpenStates
  /\ w.failures = d.failures /\ Readable(d, s) /\ Readable(w, s)

LEMMA AdmitEffect ==
  ASSUME NEW d \in Disk, NEW u \in Units, Safe(d), Admissible(d, u),
         \/ d.failures[SubjectOf[u]].last # u
         \/ d.gate[SubjectOf[u]].notice = "acked"
  PROVE  LET ws == Admit(d, u)
             s == SubjectOf[u]
         IN /\ Len(ws) \in {2, 4} /\ Final(ws) = ws[Len(ws)]
            /\ AllReadable(ws[2]) => Final(ws).lease[u] = "claimed"
            /\ \A i \in 1..Len(ws) :
                 /\ ws[i] \in Disk /\ Safe(ws[i]) /\ Kept(d, ws[i], s)
                 /\ IF i = 1 THEN Mild(d, ws[i], s) ELSE Grants(d, ws[i], s, u)
            /\ ws[2].gate = Final(ws).gate /\ ws[2].queue = Final(ws).queue
            /\ Final(ws).queue = QueueIs(d, u, "claimed", FALSE)
            /\ Final(ws).gate[s] = AdmitGate(d, u)
<1> DEFINE s == SubjectOf[u]
           g == d.gate[s]
           h == AdmitGate(d, u)
           q == QueueIs(d, u, "claimed", FALSE)
           ws == Admit(d, u)
<1>1. /\ Len(ws) \in {2, 4} /\ Final(ws) = ws[Len(ws)]
      /\ AllReadable(ws[2]) => Final(ws).lease[u] = "claimed"
      /\ ws[1] \in Disk /\ Queues(d, ws[1], q)
      /\ \A i \in 2..Len(ws) : ws[i] \in Disk /\ Gates(d, ws[i], s, h, q)
  BY AdmitWrites
<1>2. s \in Subjects /\ g \in Gate /\ u \in Of(s) /\ DiskInv(d, s)
  BY TaskFacts, DiskParts DEF Safe
<1>3. /\ q[u].status = "claimed" /\ q[u].act = d.queue[u].act /\ q[u].named = FALSE
      /\ \A v \in Units : v # u => q[v] = d.queue[v]
      /\ \A v \in Units : q[v].act = d.queue[v].act
  BY DiskParts DEF QueueIs
<1>4. /\ h \in Gate /\ h.state = IF g.state = "armed" THEN "in_flight" ELSE g.state
      /\ h.selected = IF g.state = "armed" THEN u ELSE Scan
      /\ h.active = g.active \cup {u} /\ h.named = g.named
      /\ h.pressed = (g.state = "unlocked" /\ Cardinality(h.active) >= Limit)
      /\ h.act = g.act /\ h.retired = g.retired /\ h.tainted = g.tainted
      /\ h.unlocked = g.unlocked /\ h.notice = g.notice
  BY AdmitGateFacts
<1>5. /\ Readable(d, s) /\ g.state \in {"armed", "unlocked"}
      /\ g.state = "armed" => g.active = {}
      /\ g.state = "unlocked" => Cardinality(g.active) < Limit
      /\ Queued(d, u) /\ d.queue[u].status = "pending"
  BY DEF Admissible, Open
<1> HIDE DEF ws, q, h
<1>6. u \notin g.active /\ u \notin g.named
  BY <1>2, <1>5 DEF Readable, SelectionMatches, DiskInv
<1>7. ASSUME NEW w, w.queue = q
      PROVE  \A v \in Units : SubjectOf[v] # s => w.queue[v] = d.queue[v]
  BY <1>3, <1>7
<1>8. ASSUME NEW w \in Disk, Queues(d, w, q)
      PROVE  Mild(d, w, s) /\ Kept(d, w, s) /\ Safe(w)
  <2>1. w.gate = d.gate /\ w.failures = d.failures /\ w.queue = q
    BY <1>8 DEF Queues
  <2>2. Elsewhere(d, w, s)
    BY <1>7, <2>1 DEF Elsewhere
  <2>3. \A v \in Of(s) : w.queue[v].act = d.queue[v].act
    BY <1>2, <1>3, <2>1, TaskFacts
  <2>4. DiskInv(w, s)
    BY <1>2, <2>1, <2>3 DEF DiskInv
  <2>5. Safe(w)
    BY <1>2, <2>2, <2>4, SafeElsewhere
  <2> QED BY <2>1, <2>2, <2>5 DEF Mild, Kept, Settled
<1>9. ASSUME NEW w \in Disk, Gates(d, w, s, h, q)
      PROVE  Grants(d, w, s, u) /\ Kept(d, w, s) /\ Safe(w)
  <2>1. /\ w.gate[s] = h /\ w.failures = d.failures /\ w.queue = q
        /\ \A t \in Subjects \ {s} : w.gate[t] = d.gate[t]
    BY <1>2, <1>9, GatesFacts
  <2>2. Elsewhere(d, w, s)
    BY <1>7, <2>1 DEF Elsewhere
  <2>3. \A v \in Of(s) : w.queue[v].act = d.queue[v].act
    BY <1>2, <1>3, <2>1, TaskFacts
  <2>4. DiskInv(w, s)
    <3>1. /\ h.active \subseteq Of(s) /\ h.named \subseteq h.active
          /\ h.state # "absent" /\ (h.state = "unlocked" => h.unlocked)
      BY <1>2, <1>4, <1>5 DEF DiskInv
    <3>2. \A v \in Of(s) : w.queue[v].act <= h.act
      BY <1>2, <1>4, <2>3 DEF DiskInv
    <3>3. d.failures[s].last \in h.active => h.notice = "acked" \/ d.failures[s].unread
      BY <1>2, <1>4 DEF DiskInv
    <3> QED BY <1>2, <2>1, <3>1, <3>2, <3>3 DEF DiskInv
  <2>5. Safe(w)
    BY <1>2, <2>2, <2>4, SafeElsewhere
  <2>6. Kept(d, w, s)
    BY <1>4, <2>1 DEF Kept, Settled
  <2>7. Readable(w, s)
    <3>1. Cardinality(h.active) = Cardinality(g.active) + 1 /\ Cardinality(g.active) \in Nat
      BY <1>2, <1>4, <1>6, SizeFacts DEF Gate
    <3>2. Cardinality(h.active) <= Limit
      <4>1. g.active = {} => Cardinality(g.active) = 0
        BY FS_EmptySet
      <4> QED BY <1>5, <3>1, <4>1
    <3>3. \A v \in h.active : SelectionMatches(w, s, v)
      <4>1. Queued(w, u) /\ w.queue[u].status = "claimed" /\ ~ w.queue[u].named
        BY <1>3, <1>4, <1>5, <2>1 DEF Queued
      <4>2. ASSUME NEW v \in g.active, v # u PROVE SelectionMatches(w, s, v)
        <5>1. SelectionMatches(d, s, v) /\ v \in Units /\ SubjectOf[v] = s
          BY <1>2, <1>5, <4>2, TaskFacts DEF Readable, DiskInv
        <5>2. w.queue[v] = d.queue[v]
          BY <1>3, <2>1, <4>2, <5>1
        <5> QED BY <1>4, <2>1, <5>1, <5>2 DEF SelectionMatches, Queued
      <4>3. SelectionMatches(w, s, u)
        BY <1>4, <1>6, <2>1, <4>1 DEF SelectionMatches
      <4> QED BY <1>4, <4>2, <4>3
    <3>4. h.state = "in_flight" => h.active = {h.selected}
      BY <1>4, <1>5
    <3>5. h.state # "in_flight" => h.selected = Scan
      BY <1>4, <1>5
    <3>6. h.retired <=> h.state = "inactive"
      BY <1>4, <1>5 DEF Readable
    <3>7. ~ h.tainted
      BY <1>4, <1>5 DEF Readable
    <3>8. h.state \notin {"armed", "paused", "inactive"}
      BY <1>4, <1>5
    <3>9. h.pressed => h.state = "unlocked" /\ Cardinality(h.active) >= Limit
      BY <1>4
    <3> QED BY <2>1, <3>2, <3>3, <3>4, <3>5, <3>6, <3>7, <3>8, <3>9 DEF Readable
  <2>8. IF g.unlocked THEN Cardinality(g.active) < Limit ELSE g.active = {}
    <3>1. g.active = {} => Cardinality(g.active) = 0
      BY FS_EmptySet
    <3> QED BY <1>2, <1>5, <3>1 DEF DiskInv
  <2> QED BY <1>2, <1>4, <1>5, <1>6, <2>1, <2>2, <2>5, <2>6, <2>7, <2>8
          DEF Grants, OpenStates
<1>10. \A i \in 1..Len(ws) : i = 1 \/ i \in 2..Len(ws)
  BY <1>1
<1>11. Final(ws).gate[s] = h /\ Final(ws).queue = q
  <2>1. Len(ws) \in 2..Len(ws)
    BY <1>1
  <2> QED BY <1>1, <1>2, <2>1, GatesFacts
<1>12. ws[2].gate = Final(ws).gate /\ ws[2].queue = Final(ws).queue
  <2>1. Len(ws) \in 2..Len(ws) /\ 2 \in 2..Len(ws)
    BY <1>1
  <2>2. Gates(d, ws[2], s, h, q) /\ Gates(d, Final(ws), s, h, q)
    BY <1>1, <2>1
  <2> QED BY <2>2 DEF Gates
<1>13. ASSUME NEW i \in 1..Len(ws)
       PROVE  /\ ws[i] \in Disk /\ Safe(ws[i]) /\ Kept(d, ws[i], s)
              /\ IF i = 1 THEN Mild(d, ws[i], s) ELSE Grants(d, ws[i], s, u)
  <2>1. CASE i = 1
    BY <1>1, <1>8, <2>1
  <2>2. CASE i # 1 /\ i \in 2..Len(ws)
    BY <1>1, <1>9, <2>2
  <2> QED BY <1>10, <2>1, <2>2
<1> HIDE DEF s, g
<1> QED BY <1>1, <1>11, <1>12, <1>13 DEF ws, q, h, s

\* A write that records nothing, grants nothing and forgets no acknowledgement.
LEMMA SafeRewrite ==
  ASSUME NEW d, NEW w, NEW s \in Subjects, Safe(d), Elsewhere(d, w, s),
         w.failures[s] = d.failures[s],
         w.gate[s].active \subseteq d.gate[s].active,
         w.gate[s].named \subseteq w.gate[s].active,
         w.gate[s].state = "absent" => w.gate[s].active = {},
         w.gate[s].state = "unlocked" => w.gate[s].unlocked,
         d.gate[s].notice = "acked" => w.gate[s].notice = "acked",
         \A u \in Of(s) : w.queue[u].act <= w.gate[s].act
  PROVE  Safe(w) /\ Kept(d, w, s)
<1>1. DiskInv(d, s)
  BY DEF Safe
<1>2. DiskInv(w, s)
  BY <1>1 DEF DiskInv
<1>3. Kept(d, w, s)
  BY DEF Kept, Settled
<1> QED BY <1>2, <1>3, SafeElsewhere

\* The identity of a process enters its entry, then its slot.
LEMMA IdentifyEffect ==
  ASSUME NEW d \in Disk, NEW u \in Units, Safe(d), Readable(d, SubjectOf[u]),
         u \in d.gate[SubjectOf[u]].active
  PROVE  LET ws == Identify(d, u)
             s == SubjectOf[u]
         IN /\ Len(ws) = 2 /\ Final(ws) = ws[2]
            /\ \A i \in 1..2 : /\ ws[i] \in Disk /\ Safe(ws[i]) /\ Kept(d, ws[i], s)
                               /\ Mild(d, ws[i], s)
            /\ Readable(ws[2], s)
            /\ \A v \in Units : ws[2].queue[v].status = d.queue[v].status
                                /\ ws[2].queue[v].act = d.queue[v].act
            /\ ws[2].gate[s].act = d.gate[s].act
            /\ ws[2].gate[s].state = d.gate[s].state /\ ws[2].failures = d.failures
<1> DEFINE s == SubjectOf[u]
           g == d.gate[s]
           h == NamedGate(d, u)
           q == QueueIs(d, u, d.queue[u].status, TRUE)
           ws == Identify(d, u)
<1>1. /\ Len(ws) = 2 /\ Final(ws) = ws[2]
      /\ ws[1] \in Disk /\ Queues(d, ws[1], q)
      /\ ws[2] \in Disk /\ Gates(d, ws[2], s, h, q)
  BY IdentifyWrites
<1>2. s \in Subjects /\ g \in Gate /\ u \in Of(s) /\ DiskInv(d, s)
  BY TaskFacts, DiskParts DEF Safe
<1>3. /\ \A v \in Units : v # u => q[v] = d.queue[v]
      /\ \A v \in Units : q[v].act = d.queue[v].act /\ q[v].status = d.queue[v].status
      /\ q[u].named
  BY DiskParts DEF QueueIs
<1>4. /\ h.state = g.state /\ h.selected = g.selected /\ h.active = g.active
      /\ h.named = g.named \cup {u} /\ h.pressed = g.pressed
      /\ h.act = g.act /\ h.retired = g.retired /\ h.tainted = g.tainted
      /\ h.unlocked = g.unlocked /\ h.notice = g.notice
  BY NamedGateFacts
<1> HIDE DEF ws, q, h
<1>5. /\ ws[1].gate = d.gate /\ ws[1].failures = d.failures /\ ws[1].queue = q
      /\ ws[2].gate[s] = h /\ ws[2].failures = d.failures /\ ws[2].queue = q
      /\ \A t \in Subjects \ {s} : ws[2].gate[t] = d.gate[t]
  BY <1>1, <1>2, GatesFacts DEF Queues
<1>6. Elsewhere(d, ws[1], s) /\ Elsewhere(d, ws[2], s)
  BY <1>3, <1>5 DEF Elsewhere
<1>7. \A v \in Of(s) : q[v].act <= g.act
  BY <1>2, <1>3, TaskFacts DEF DiskInv
<1>8. Safe(ws[1]) /\ Kept(d, ws[1], s)
  BY <1>2, <1>5, <1>6, <1>7, SafeRewrite DEF DiskInv
<1>9. Safe(ws[2]) /\ Kept(d, ws[2], s)
  BY <1>2, <1>4, <1>5, <1>6, <1>7, SafeRewrite DEF DiskInv
<1>10. Mild(d, ws[1], s) /\ Mild(d, ws[2], s)
  BY <1>4, <1>5, <1>6 DEF Mild
<1>11. Readable(ws[2], s)
  <2>1. ASSUME NEW v \in h.active PROVE SelectionMatches(ws[2], s, v)
    <3>1. SelectionMatches(d, s, v) /\ v \in Units /\ SubjectOf[v] = s
      BY <1>2, <1>4, <2>1, TaskFacts DEF Readable, DiskInv
    <3>2. Queued(ws[2], v) /\ ws[2].queue[v].status = "claimed"
      BY <1>3, <1>4, <1>5, <3>1 DEF SelectionMatches, Queued
    <3>3. ASSUME v # u PROVE ws[2].queue[v].named <=> v \in h.named
      <4>1. ws[2].queue[v] = d.queue[v]
        BY <1>3, <1>5, <3>1, <3>3
      <4>2. v \in h.named <=> v \in g.named
        BY <1>4, <3>3
      <4>3. d.queue[v].named <=> v \in g.named
        BY <3>1, Zenon DEF SelectionMatches
      <4> QED BY <4>1, <4>2, <4>3, Zenon
    <3>4. ws[2].queue[u].named /\ u \in h.named
      BY <1>3, <1>4, <1>5
    <3> QED BY <1>5, <3>2, <3>3, <3>4 DEF SelectionMatches
  <2>2. Readable(d, s)
    OBVIOUS
  <2>3. h.retired <=> h.state = "inactive"
    BY <1>4, <2>2, Zenon DEF Readable
  <2>4. ~ h.tainted
    BY <1>4, <2>2, Zenon DEF Readable
  <2>5. h.pressed => h.state = "unlocked" /\ Cardinality(h.active) >= Limit
    BY <1>4, <2>2, Zenon DEF Readable
  <2>6. /\ Cardinality(h.active) <= Limit
        /\ h.state \in {"armed", "paused", "inactive"} => h.active = {}
        /\ IF h.state = "in_flight" THEN h.active = {h.selected} ELSE h.selected = Scan
    BY <1>4, <2>2 DEF Readable
  <2> QED BY <1>5, <2>1, <2>3, <2>4, <2>5, <2>6 DEF Readable
<1>12. \A i \in 1..2 : i = 1 \/ i = 2
  OBVIOUS
<1> HIDE DEF s, g
<1> QED BY <1>1, <1>3, <1>4, <1>5, <1>8, <1>9, <1>10, <1>11, <1>12 DEF ws, s, g

\* The end of a task takes its slot: a success leaves the gate open unless it
\* was shut before, everything else shuts it.
LEMMA FinishEffect ==
  ASSUME NEW d \in Disk, NEW u \in Units, NEW how, Safe(d), Bound(d, u)
  PROVE  LET ws == Finish(d, u, how)
             s == SubjectOf[u]
         IN /\ Len(ws) = 3 /\ Final(ws) = ws[3]
            /\ \A i \in 1..3 :
                 /\ ws[i] \in Disk /\ Safe(ws[i]) /\ Kept(d, ws[i], s)
                 /\ \/ Mild(d, ws[i], s) \/ LetsGo(d, ws[i], s, u)
                    \/ Proves(d, ws[i], s, u)
            /\ Readable(ws[3], s) \/ ws[3].gate[s].tainted
            /\ ws[3].gate[s].active = d.gate[s].active \ {u}
            /\ ws[3].gate[s].act = d.gate[s].act /\ ws[3].failures = d.failures
            /\ ws[3].queue[u].status \in {"succeeded", "failed"}
            /\ \A v \in Units : v # u => ws[3].queue[v] = d.queue[v]
            /\ ws[3].queue[u].act = d.queue[u].act
<1> DEFINE s == SubjectOf[u]
           g == d.gate[s]
           h == FinishGate(d, u, how)
           x == IF how = "succeeded" THEN "succeeded" ELSE "failed"
           q == QueueIs(d, u, x, d.queue[u].named)
           o == Opens(d, u, how)
           ws == Finish(d, u, how)
<1>1. /\ Len(ws) = 3 /\ Final(ws) = ws[3]
      /\ ws[1] \in Disk /\ Queues(d, ws[1], q)
      /\ ws[2] \in Disk /\ Gates(d, ws[2], s, h, q)
      /\ ws[3] \in Disk /\ Gates(d, ws[3], s, h, q)
  BY FinishWrites
<1>2. s \in Subjects /\ g \in Gate /\ u \in Of(s) /\ DiskInv(d, s)
  BY TaskFacts, DiskParts DEF Safe
<1>3. /\ \A v \in Units : v # u => q[v] = d.queue[v]
      /\ \A v \in Units : q[v].act = d.queue[v].act
      /\ q[u].status \in {"succeeded", "failed"}
  BY DiskParts DEF QueueIs
<1>4. /\ h.state = IF o THEN "unlocked" ELSE "failed"
      /\ h.selected = Scan /\ h.active = g.active \ {u} /\ h.named = g.named \ {u}
      /\ h.pressed = (o /\ Cardinality(h.active) >= Limit)
      /\ h.act = g.act /\ h.retired = g.retired
      /\ h.tainted = (g.tainted \/ how = "unevidenced")
      /\ h.unlocked = (g.unlocked \/ o) /\ h.notice = Overtaken(g.notice)
  BY FinishGateFacts
<1>5. /\ Readable(d, s) /\ u \in g.active /\ SelectionMatches(d, s, u)
  BY DEF Bound, Open
<1>6. g.state \notin {"armed", "paused", "inactive", "absent"}
  BY <1>2, <1>5 DEF Readable, DiskInv
<1>7. o => g.state \in OpenStates /\ how # "unevidenced"
  BY <1>2, <1>6 DEF Opens, OpenStates, Gate, GateStates
<1> HIDE DEF ws, q, h, o, x
<1>8. ASSUME NEW w \in Disk, Queues(d, w, q)
      PROVE  Safe(w) /\ Kept(d, w, s) /\ Mild(d, w, s)
  <2>1. w.gate = d.gate /\ w.failures = d.failures /\ w.queue = q
    BY <1>8 DEF Queues
  <2>2. Elsewhere(d, w, s)
    BY <1>3, <2>1 DEF Elsewhere
  <2>3. \A v \in Of(s) : w.queue[v].act <= g.act
    BY <1>2, <1>3, <2>1, TaskFacts DEF DiskInv
  <2>4. Safe(w) /\ Kept(d, w, s)
    BY <1>2, <2>1, <2>2, <2>3, SafeRewrite DEF DiskInv
  <2> QED BY <2>1, <2>2, <2>4 DEF Mild
<1>9. ASSUME NEW w \in Disk, Gates(d, w, s, h, q)
      PROVE  /\ Safe(w) /\ Kept(d, w, s)
             /\ Readable(w, s) \/ w.gate[s].tainted
             /\ LetsGo(d, w, s, u) \/ Proves(d, w, s, u)
  <2>1. /\ w.gate[s] = h /\ w.failures = d.failures /\ w.queue = q
        /\ \A t \in Subjects \ {s} : w.gate[t] = d.gate[t]
    BY <1>2, <1>9, GatesFacts
  <2>2. Elsewhere(d, w, s)
    BY <1>3, <2>1 DEF Elsewhere
  <2>3. \A v \in Of(s) : w.queue[v].act <= h.act
    BY <1>2, <1>3, <1>4, <2>1, TaskFacts DEF DiskInv
  <2>4. Safe(w) /\ Kept(d, w, s)
    <3>1. h.active \subseteq g.active /\ h.named \subseteq h.active
      BY <1>2, <1>4 DEF DiskInv
    <3>2. h.state # "absent" /\ (h.state = "unlocked" => h.unlocked)
      BY <1>4
    <3>3. g.notice = "acked" => h.notice = "acked"
      BY <1>4 DEF Overtaken
    <3> QED BY <1>2, <2>1, <2>2, <2>3, <3>1, <3>2, <3>3, SafeRewrite
  <2>5. Readable(w, s) \/ h.tainted
    <3>1. Cardinality(h.active) <= Limit
      <4>1. g.active \in SUBSET Units
        BY <1>2 DEF Gate
      <4>2. Cardinality(h.active) = Cardinality(g.active) - 1 /\ Cardinality(g.active) \in Nat
        BY <1>4, <1>5, <4>1, SizeFacts
      <4>3. Cardinality(g.active) <= Limit
        BY <1>5 DEF Readable
      <4> QED BY <4>2, <4>3
    <3>2. ASSUME NEW v \in h.active PROVE SelectionMatches(w, s, v)
      <4>1. SelectionMatches(d, s, v) /\ v \in Units /\ SubjectOf[v] = s /\ v # u
        BY <1>2, <1>4, <1>5, <3>2, TaskFacts DEF Readable, DiskInv
      <4>2. w.queue[v] = d.queue[v] /\ (v \in h.named <=> v \in g.named) /\ h.act = g.act
        BY <1>3, <1>4, <2>1, <4>1
      <4> QED BY <2>1, <4>1, <4>2 DEF SelectionMatches, Queued
    <3>3. (h.retired <=> h.state = "inactive")
      BY <1>4, <1>5, <1>6 DEF Readable
    <3> QED BY <1>4, <2>1, <3>1, <3>2, <3>3 DEF Readable
  <2>6. CASE o
    <3>1. ~ h.tainted
      BY <1>4, <1>5, <1>7, <2>6 DEF Readable
    <3>2. Proves(d, w, s, u)
      BY <1>4, <1>5, <1>7, <2>1, <2>2, <2>5, <2>6, <3>1 DEF Proves, OpenStates
    <3> QED BY <2>1, <2>4, <2>5, <3>2
  <2>7. CASE ~ o
    <3>1. h.unlocked = g.unlocked
      BY <1>2, <1>4, <2>7 DEF Gate
    <3>2. LetsGo(d, w, s, u)
      BY <1>4, <2>1, <2>2, <2>7, <3>1 DEF LetsGo
    <3> QED BY <2>1, <2>4, <2>5, <3>2
  <2> QED BY <2>6, <2>7
<1>10. \A i \in 1..3 : i = 1 \/ i = 2 \/ i = 3
  OBVIOUS
<1>11. \A i \in 1..3 :
         /\ ws[i] \in Disk /\ Safe(ws[i]) /\ Kept(d, ws[i], s)
         /\ Mild(d, ws[i], s) \/ LetsGo(d, ws[i], s, u) \/ Proves(d, ws[i], s, u)
  BY <1>1, <1>8, <1>9, <1>10
<1>12. /\ ws[3].gate[s] = h /\ ws[3].failures = d.failures /\ ws[3].queue = q
  BY <1>1, <1>2, GatesFacts
<1>13. Readable(ws[3], s) \/ ws[3].gate[s].tainted
  BY <1>1, <1>9
<1> HIDE DEF s, g
<1> QED BY <1>1, <1>3, <1>4, <1>11, <1>12, <1>13 DEF ws, s, g

-----------------------------------------------------------------------------
(* Rewriting a gate, back pressure, a new entry.                           *)

\* A gate that is written with its slots, its activation and its history.
LEMMA RewriteEffect ==
  ASSUME NEW d \in Disk, NEW s \in Subjects, NEW h \in Gate, Safe(d),
         h.active = d.gate[s].active, h.named = d.gate[s].named,
         h.act = d.gate[s].act, h.unlocked = d.gate[s].unlocked,
         d.gate[s].notice = "acked" => h.notice = "acked",
         h.state # "absent", h.state = "unlocked" => h.unlocked,
         NEW w \in Disk, Gates(d, w, s, h, d.queue)
  PROVE  /\ Safe(w) /\ Kept(d, w, s) /\ Elsewhere(d, w, s)
         /\ w.gate[s] = h /\ w.failures = d.failures /\ w.queue = d.queue
         /\ h.state \notin OpenStates \/ h.state = d.gate[s].state => Mild(d, w, s)
<1>1. /\ w.gate[s] = h /\ w.failures = d.failures /\ w.queue = d.queue
      /\ \A t \in Subjects \ {s} : w.gate[t] = d.gate[t]
  BY GatesFacts
<1>2. Elsewhere(d, w, s)
  BY <1>1 DEF Elsewhere
<1>3. DiskInv(d, s)
  BY DEF Safe
<1>4. Safe(w) /\ Kept(d, w, s)
  BY <1>1, <1>2, <1>3, SafeRewrite DEF DiskInv
<1> QED BY <1>1, <1>2, <1>4 DEF Mild

LEMMA PostTerminalEffect ==
  ASSUME NEW d \in Disk, NEW u \in Units, Safe(d)
  PROVE  LET w == Final(FailPostTerminal(d, u))
             s == SubjectOf[u]
         IN /\ w \in Disk /\ Safe(w) /\ Kept(d, w, s) /\ Mild(d, w, s)
            /\ w.gate[s] = ProjectionGate(d, u)
            /\ w.failures = d.failures /\ w.queue = d.queue
<1> DEFINE w == Final(FailPostTerminal(d, u))
           s == SubjectOf[u]
           h == ProjectionGate(d, u)
<1>1. w \in Disk /\ Gates(d, w, s, h, d.queue) /\ s \in Subjects
  BY PostTerminalWrites, TaskFacts
<1>2. /\ h \in Gate /\ h.state = "failed" /\ h.active = d.gate[s].active
      /\ h.named = d.gate[s].named /\ h.act = d.gate[s].act
      /\ h.unlocked = d.gate[s].unlocked /\ h.notice = Overtaken(d.gate[s].notice)
  BY ProjectionGateFacts
<1> HIDE DEF w, s, h
<1>3. d.gate[s].notice = "acked" => h.notice = "acked"
  BY <1>2 DEF Overtaken
<1> QED BY <1>1, <1>2, <1>3, RewriteEffect DEF OpenStates, w, s, h

\* The field that back pressure writes.
PressedGate(d, s, b) == [d.gate[s] EXCEPT !.pressed = b]
PressedDisk(d, s, b) == [d EXCEPT !.gate[s].pressed = b]

LEMMA PressEffect ==
  ASSUME NEW d \in Disk, NEW s \in Subjects, NEW b \in BOOLEAN, Safe(d),
         d.gate[s].state # "absent"
  PROVE  LET w == PressedDisk(d, s, b)
         IN /\ w \in Disk /\ Safe(w) /\ Kept(d, w, s) /\ Mild(d, w, s)
            /\ w.gate[s] = PressedGate(d, s, b)
            /\ w.failures = d.failures /\ w.queue = d.queue
<1> DEFINE h == PressedGate(d, s, b)
           w == PressedDisk(d, s, b)
<1>1. d.gate[s] \in Gate /\ DiskInv(d, s)
  BY DiskParts DEF Safe
<1>2. /\ h \in Gate /\ h.active = d.gate[s].active
      /\ h.named = d.gate[s].named /\ h.act = d.gate[s].act
      /\ h.unlocked = d.gate[s].unlocked /\ h.notice = d.gate[s].notice
      /\ h.state = d.gate[s].state
  BY <1>1 DEF Gate, PressedGate
<1>3. w = [d EXCEPT !.gate[s] = h]
  BY DEF Disk, PressedGate, PressedDisk
<1> HIDE DEF w, h
<1>4. [d EXCEPT !.gate[s] = h] \in Disk
  BY <1>2 DEF Disk
<1>5. [d EXCEPT !.gate[s] = h].gate = [d.gate EXCEPT ![s] = h]
  BY DEF Disk
<1>6. /\ [d EXCEPT !.gate[s] = h].queue = d.queue
      /\ [d EXCEPT !.gate[s] = h].failures = d.failures
  BY DEF Disk
<1>7. w \in Disk /\ Gates(d, w, s, h, d.queue)
  BY <1>3, <1>4, <1>5, <1>6 DEF Gates
<1>8. h.state = "unlocked" => h.unlocked
  BY <1>1, <1>2 DEF DiskInv
<1>9. /\ Safe(w) /\ Kept(d, w, s) /\ w.gate[s] = h
      /\ w.failures = d.failures /\ w.queue = d.queue /\ Mild(d, w, s)
  BY <1>2, <1>7, <1>8, RewriteEffect
<1> QED BY <1>7, <1>9 DEF w, h

\* A task that was not recorded gets an entry of the current activation.
NewEntry(d, s) == [status |-> "pending", named |-> FALSE, act |-> d.gate[s].act]
Enqueued(d, s, u) == [d EXCEPT !.queue[u] = NewEntry(d, s)]

LEMMA EnqueueEffect ==
  ASSUME NEW d \in Disk, NEW s \in Subjects, NEW u \in Of(s), Safe(d)
  PROVE  LET w == Enqueued(d, s, u)
         IN /\ w \in Disk /\ Safe(w) /\ Kept(d, w, s) /\ Mild(d, w, s)
            /\ w.queue = [d.queue EXCEPT ![u] = NewEntry(d, s)]
            /\ w.gate = d.gate /\ w.failures = d.failures
<1> DEFINE q == [d.queue EXCEPT ![u] = NewEntry(d, s)]
           w == [d EXCEPT !.queue[u] = NewEntry(d, s)]
<1>1. d.gate[s] \in Gate /\ DiskInv(d, s) /\ u \in Units /\ SubjectOf[u] = s
  BY DiskParts, TaskFacts DEF Safe
<1>2. NewEntry(d, s) \in QueueEntry /\ NewEntry(d, s).act = d.gate[s].act
  BY <1>1 DEF NewEntry, QueueEntry, Gate
<1> HIDE DEF NewEntry
<1>3. w \in Disk
  BY <1>2 DEF Disk
<1>4. w.queue = q
  BY DEF Disk
<1>5. w.gate = d.gate /\ w.failures = d.failures
  BY DEF Disk
<1> HIDE DEF w
<1>6. \A v \in Units : q[v] = IF v = u THEN NewEntry(d, s) ELSE d.queue[v]
  BY <1>1, DiskParts
<1> HIDE DEF q
<1>7. Elsewhere(d, w, s)
  BY <1>1, <1>4, <1>5, <1>6 DEF Elsewhere
<1>8. \A v \in Of(s) : w.queue[v].act <= w.gate[s].act
  <2> SUFFICES ASSUME NEW v \in Of(s) PROVE w.queue[v].act <= w.gate[s].act
    OBVIOUS
  <2>1. CASE v = u
    <3>1. d.gate[s].act \in Nat
      BY <1>1 DEF Gate
    <3> QED BY <1>1, <1>2, <1>4, <1>5, <1>6, <2>1, <3>1
  <2>2. CASE v # u
    BY <1>1, <1>4, <1>5, <1>6, <2>2, TaskFacts DEF DiskInv
  <2> QED BY <2>1, <2>2
<1>9. Safe(w) /\ Kept(d, w, s)
  BY <1>1, <1>5, <1>7, <1>8, SafeRewrite DEF DiskInv
<1>10. Mild(d, w, s)
  BY <1>5, <1>7 DEF Mild
<1> QED BY <1>3, <1>4, <1>5, <1>9, <1>10 DEF w, q, Enqueued

\* The gate of s opens, without slots.
Opened(d, w, s) ==
  /\ Elsewhere(d, w, s)
  /\ d.gate[s].active = {} /\ w.gate[s].active = {}
  /\ Readable(w, s) /\ w.gate[s].state \in OpenStates
  /\ ~ w.gate[s].unlocked \/ w.gate[s].unlocked = d.gate[s].unlocked
  /\ ~ w.gate[s].unlocked /\ d.gate[s].unlocked => d.gate[s].state \notin OpenStates

SetUpGate(d, s) == [NoGate EXCEPT !.state = "armed", !.act = d.gate[s].act + 1]

\* An activation, which forgets the failures.
LEMMA ActivateEffect ==
  ASSUME NEW d \in Disk, NEW s \in Subjects, Safe(d), Readable(d, s),
         d.gate[s].state \in {"absent", "inactive"}, d.gate[s].act < Activations
  PROVE  LET ws == Rewritten([d EXCEPT !.failures[s] = NoFailure], s,
                             [NoGate EXCEPT !.state = "armed", !.act = d.gate[s].act + 1])
         IN /\ Len(ws) = 2 /\ Final(ws) = ws[2]
            /\ \A i \in 1..2 :
                 /\ ws[i] \in Disk /\ Safe(ws[i]) /\ Kept(d, ws[i], s)
                 /\ Opened(d, ws[i], s) /\ ws[i].gate[s] = SetUpGate(d, s)
                 /\ ~ ws[i].failures[s].unread /\ ws[i].queue = d.queue
<1> DEFINE e == [d EXCEPT !.failures[s] = NoFailure]
           h == SetUpGate(d, s)
           ws == Rewritten(e, s, h)
<1>1. d.gate[s] \in Gate /\ DiskInv(d, s)
  BY DiskParts DEF Safe
<1>2. d.gate[s].active = {}
  BY <1>1 DEF Readable, DiskInv
<1>3. /\ h = [state |-> "armed", retired |-> FALSE, act |-> d.gate[s].act + 1,
              active |-> {}, selected |-> Scan, named |-> {}, index |-> {},
              tainted |-> FALSE, unlocked |-> FALSE, pressed |-> FALSE,
              notice |-> "none"]
  <2> DEFINE a == d.gate[s].act + 1
  <2>1. h = [NoGate EXCEPT !.state = "armed", !.act = a]
    BY DEF SetUpGate
  <2> HIDE DEF a, h
  <2>2. h = [state |-> "armed", retired |-> FALSE, act |-> a,
             active |-> {}, selected |-> Scan, named |-> {}, index |-> {},
             tainted |-> FALSE, unlocked |-> FALSE, pressed |-> FALSE,
             notice |-> "none"]
    BY <2>1 DEF NoGate
  <2> QED BY <2>2 DEF a, h
<1>4. d.gate[s].act + 1 \in 0..Activations /\ d.gate[s].act \in 0..Activations
  BY <1>1 DEF Gate
<1>5. h \in Gate
  BY <1>3, <1>4 DEF Gate, GateStates, Keys
<1>6. NoFailure \in FailureIndex
  BY DEF NoFailure, FailureIndex, Keys
<1>7. e \in Disk
  BY <1>6 DEF Disk
<1>8. /\ e.failures = [d.failures EXCEPT ![s] = NoFailure]
      /\ e.gate = d.gate /\ e.queue = d.queue
  BY DEF Disk
<1>9. e.failures[s] = NoFailure /\ \A t \in Subjects \ {s} : e.failures[t] = d.failures[t]
  BY <1>8, DiskParts
<1> HIDE DEF e, ws
<1>10. /\ Len(ws) = 2 /\ Final(ws) = ws[2]
       /\ \A i \in 1..2 : ws[i] \in Disk /\ Gates(e, ws[i], s, h, e.queue)
  <2>1. \A i \in 1..2 : i = 1 \/ i = 2
    OBVIOUS
  <2> HIDE DEF h
  <2> QED BY <1>5, <1>7, <2>1, RewrittenWrites DEF ws
<1>11. ASSUME NEW w \in Disk, Gates(e, w, s, h, e.queue)
       PROVE  /\ Safe(w) /\ Kept(d, w, s) /\ Opened(d, w, s) /\ w.gate[s] = h
              /\ ~ w.failures[s].unread /\ w.queue = d.queue
  <2>1. /\ w.gate[s] = h /\ w.failures = e.failures /\ w.queue = d.queue
        /\ \A t \in Subjects \ {s} : w.gate[t] = d.gate[t]
    BY <1>7, <1>8, <1>11, GatesFacts
  <2>2. Elsewhere(d, w, s)
    BY <1>9, <2>1 DEF Elsewhere
  <2>3. w.failures[s].keys = {} /\ w.failures[s].last = Scan /\ ~ w.failures[s].unread
    BY <1>9, <2>1 DEF NoFailure
  <2>4. Settled(w, s) /\ Kept(d, w, s)
    BY <2>3 DEF Kept, Settled
  <2>5. ASSUME NEW u \in Of(s) PROVE w.queue[u].act <= h.act
    <3>1. d.queue[u].act <= d.gate[s].act /\ d.queue[u] \in QueueEntry
      BY <1>1, DiskParts, TaskFacts DEF DiskInv
    <3>2. d.queue[u].act \in Int
      BY <3>1 DEF QueueEntry
    <3>3. h.act = d.gate[s].act + 1
      BY <1>3
    <3> QED BY <1>4, <2>1, <3>1, <3>2, <3>3
  <2>6. DiskInv(w, s)
    BY <1>3, <2>1, <2>3, <2>5 DEF DiskInv
  <2>7. Safe(w)
    BY <2>2, <2>6, SafeElsewhere
  <2>8. Readable(w, s)
    <3>1. Cardinality({}) <= Limit
      BY FS_EmptySet
    <3> QED BY <1>3, <2>1, <3>1 DEF Readable
  <2>9. Opened(d, w, s)
    BY <1>2, <1>3, <2>1, <2>2, <2>8 DEF Opened, OpenStates
  <2> QED BY <2>1, <2>3, <2>4, <2>7, <2>9
<1>12. \A i \in 1..2 :
         /\ ws[i] \in Disk /\ Safe(ws[i]) /\ Kept(d, ws[i], s)
         /\ Opened(d, ws[i], s) /\ ws[i].gate[s] = h
         /\ ~ ws[i].failures[s].unread /\ ws[i].queue = d.queue
  BY <1>10, <1>11
<1>13. Len(ws) = 2 /\ Final(ws) = ws[2]
  BY <1>10
<1> QED BY <1>12, <1>13 DEF ws, e, SetUpGate

ResumedGate(d, s) ==
  LET g == d.gate[s] IN
  [g EXCEPT !.state = IF g.unlocked THEN "unlocked" ELSE "armed",
            !.notice = IF g.state = "failed" /\ @ = "named" THEN "acked" ELSE @,
            !.selected = Scan, !.pressed = FALSE]

\* A resume, which acknowledges the failure the state names.
LEMMA ResumeEffect ==
  ASSUME NEW d \in Disk, NEW s \in Subjects, Safe(d), Readable(d, s),
         d.gate[s].state \in {"failed", "paused"}, d.gate[s].active = {}
  PROVE  LET ws == Rewritten(d, s, ResumedGate(d, s))
         IN /\ Len(ws) = 2 /\ Final(ws) = ws[2]
            /\ \A i \in 1..2 :
                 /\ ws[i] \in Disk /\ Safe(ws[i]) /\ Kept(d, ws[i], s)
                 /\ Opened(d, ws[i], s) /\ ws[i].gate[s] = ResumedGate(d, s)
                 /\ ws[i].failures = d.failures /\ ws[i].queue = d.queue
<1> DEFINE g == d.gate[s]
           h == ResumedGate(d, s)
           n == IF g.state = "failed" /\ g.notice = "named" THEN "acked" ELSE g.notice
           x == IF g.unlocked THEN "unlocked" ELSE "armed"
           ws == Rewritten(d, s, h)
<1>1. g \in Gate /\ DiskInv(d, s)
  BY DiskParts DEF Safe
<1>2. h = [g EXCEPT !.state = x, !.notice = n, !.selected = Scan, !.pressed = FALSE]
  BY DEF ResumedGate
<1>3. n \in {"none", "named", "overtaken", "acked"} /\ x \in {"unlocked", "armed"}
      /\ (g.notice = "acked" => n = "acked")
  BY <1>1 DEF Gate
<1>4. x = "unlocked" <=> g.unlocked
  BY Zenon DEF x
<1> HIDE DEF h, n, x, g, ws
<1>5. h \in Gate
  BY <1>1, <1>2, <1>3 DEF Gate, GateStates, Keys
<1>6. /\ h.state = x /\ h.notice = n /\ h.selected = Scan /\ ~ h.pressed
      /\ h.active = g.active /\ h.named = g.named /\ h.act = g.act
      /\ h.retired = g.retired /\ h.tainted = g.tainted
  BY <1>1, <1>2 DEF Gate
<1>7. h.unlocked = g.unlocked
  BY <1>1, <1>2 DEF Gate
<1>8. /\ Len(ws) = 2 /\ Final(ws) = ws[2]
      /\ \A i \in 1..2 : ws[i] \in Disk /\ Gates(d, ws[i], s, h, d.queue)
  <2>1. \A i \in 1..2 : i = 1 \/ i = 2
    OBVIOUS
  <2> QED BY <1>5, <2>1, RewrittenWrites DEF ws
<1>9. h.state = "unlocked" => h.unlocked
  BY <1>4, <1>6, <1>7, Zenon
<1>10. ASSUME NEW w \in Disk, Gates(d, w, s, h, d.queue)
       PROVE  /\ Safe(w) /\ Kept(d, w, s) /\ Opened(d, w, s) /\ w.gate[s] = h
              /\ w.failures = d.failures /\ w.queue = d.queue
  <2>1. h.state # "absent" /\ h.state \in OpenStates
    BY <1>3, <1>6 DEF OpenStates
  <2>2. g.notice = "acked" => h.notice = "acked"
    BY <1>3, <1>6
  <2>3. /\ Safe(w) /\ Kept(d, w, s) /\ Elsewhere(d, w, s)
        /\ w.gate[s] = h /\ w.failures = d.failures /\ w.queue = d.queue
    <3>1. /\ w.gate[s] = h /\ w.failures = d.failures /\ w.queue = d.queue
          /\ \A t \in Subjects \ {s} : w.gate[t] = d.gate[t]
      BY <1>10, GatesFacts
    <3>2. Elsewhere(d, w, s)
      BY <3>1 DEF Elsewhere
    <3>3. /\ h.active = d.gate[s].active /\ h.named = d.gate[s].named
          /\ h.act = d.gate[s].act
      BY <1>6 DEF g
    <3>4. d.gate[s].notice = "acked" => h.notice = "acked"
      BY <2>2 DEF g
    <3>5. DiskInv(d, s)
      BY DEF Safe
    <3>6. w.gate[s].state = "unlocked" => w.gate[s].unlocked
      BY <1>9, <3>1, Zenon
    <3>7. Safe(w) /\ Kept(d, w, s)
      BY <2>1, <3>1, <3>2, <3>3, <3>4, <3>5, <3>6, SafeRewrite DEF DiskInv
    <3> QED BY <3>1, <3>2, <3>7
  <2>4. h.active = {} /\ Cardinality({}) <= Limit
    BY <1>6, FS_EmptySet DEF g
  <2>5. ~ h.retired /\ h.state # "inactive" /\ h.state # "in_flight" /\ ~ h.tainted
    BY <1>3, <1>6 DEF Readable, g
  <2>6. Readable(w, s)
    BY <1>6, <2>3, <2>4, <2>5 DEF Readable
  <2>7. Opened(d, w, s)
    BY <1>7, <2>1, <2>3, <2>4, <2>6 DEF Opened, OpenStates, g
  <2> QED BY <2>3, <2>7
<1> QED BY <1>8, <1>10 DEF ws, h

-----------------------------------------------------------------------------
(* The steps of the specification, without the slots' owners: every step   *)
(* belongs to one subject, keeps what its daemon relies on, and turns its  *)
(* gate in one of five ways.                                               *)

CanaryBase ==
  /\ CanaryTypeOK
  /\ \A s \in Subjects : DiskInv(disk, s) /\ DaemonInv(s) /\ OpenedInv(s)

Turned(d, w, s) ==
  \/ Mild(d, w, s) /\ (Readable(d, s) \/ (w.gate = d.gate /\ w.queue = d.queue))
  \/ \E k \in Units \cup {Scan} : LetsGo(d, w, s, k)
  \/ \E u \in Units : Grants(d, w, s, u) /\ ~ d.failures[s].unread
  \/ \E u \in Units : Proves(d, w, s, u)

Turns(s) ==
  \/ Turned(disk, disk', s)
  \/ /\ Opened(disk, disk', s)
     /\ ~ disk'.failures[s].unread => s \in reopened'

OnlyOf(s) ==
  /\ Safe(disk') /\ Elsewhere(disk, disk', s)
  /\ \A t \in Subjects \ {s} : daemon'[t] = daemon[t]
  /\ \A u \in Units : SubjectOf[u] # s => thread'[u] = thread[u]
  /\ torn \subseteq torn'
  /\ \A t \in reopened : disk'.gate[t].state # "failed" /\ ~ disk'.failures[t].unread
                            => t \in reopened'

Step(s) == CanaryTypeOK' /\ OnlyOf(s) /\ Turns(s) /\ DaemonInv(s)'

LEMMA BaseFacts ==
  ASSUME CanaryBase, NEW s \in Subjects
  PROVE  /\ disk \in Disk /\ Safe(disk) /\ daemon[s] \in Daemon
         /\ daemon \in [Subjects -> Daemon] /\ thread \in [Units -> ThreadStates]
         /\ cli \subseteq Subjects /\ faults \in 0..Faults
         /\ torn \subseteq Subjects /\ reopened \subseteq Subjects
         /\ DiskInv(disk, s) /\ DaemonInv(s) /\ OpenedInv(s)
  BY DEF CanaryBase, CanaryTypeOK, Safe

\* The daemon's loop goes to d.
LEMMA GoesFacts ==
  ASSUME daemon \in [Subjects -> Daemon], NEW s \in Subjects, NEW d \in Daemon, Goes(s, d)
  PROVE  /\ daemon' \in [Subjects -> Daemon] /\ daemon'[s] = d
         /\ \A t \in Subjects \ {s} : daemon'[t] = daemon[t]
  BY DEF Goes

LEMMA IdleFacts ==
  ASSUME NEW s \in Subjects, daemon[s] \in Daemon
  PROVE  /\ Idle(s) \in Daemon
         /\ Idle(s).at = "idle" /\ Idle(s).todo = {}
         /\ Idle(s) = [at |-> "idle", room |-> 0, press |-> FALSE, todo |-> {},
                       closed |-> daemon[s].closed]
<1> DEFINE c == daemon[s].closed
<1>1. Idle(s) = [Down EXCEPT !.at = "idle", !.closed = c]
  BY Zenon DEF Idle
<1>2. c \in BOOLEAN
  BY DEF Daemon
<1> HIDE DEF c
<1>3. Idle(s) = [at |-> "idle", room |-> 0, press |-> FALSE, todo |-> {}, closed |-> c]
  BY <1>1 DEF Down
<1>4. [at |-> "idle", room |-> 0, press |-> FALSE, todo |-> {}, closed |-> c] \in Daemon
  BY <1>2 DEF Daemon
<1> QED BY <1>3, <1>4 DEF c

\* The process of s is gone.
LEMMA DiesFacts ==
  ASSUME daemon \in [Subjects -> Daemon], thread \in [Units -> ThreadStates],
         NEW s \in Subjects, Dies(s)
  PROVE  /\ daemon' \in [Subjects -> Daemon] /\ daemon'[s] = Down
         /\ thread' \in [Units -> ThreadStates]
         /\ \A t \in Subjects \ {s} : daemon'[t] = daemon[t]
         /\ \A u \in Units : SubjectOf[u] # s => thread'[u] = thread[u]
         /\ \A u \in Of(s) : thread'[u] = IF thread[u] = "none" THEN "none" ELSE "gone"
<1>1. Down \in Daemon
  BY DEF Down, Daemon
<1>2. \A u \in Units : thread'[u] = IF SubjectOf[u] = s /\ thread[u] # "none"
                                    THEN "gone" ELSE thread[u]
  BY DEF Dies
<1>3. thread' \in [Units -> ThreadStates]
  BY DEF Dies, ThreadStates
<1>4. \A u \in Of(s) : u \in Units /\ SubjectOf[u] = s
  BY TaskFacts
<1> QED BY <1>1, <1>2, <1>3, <1>4 DEF Dies

\* A loop that holds no tasks relies on nothing but the receipts being read.
LEMMA AtRest ==
  ASSUME NEW s \in Subjects, daemon'[s].todo = {},
         daemon'[s].at \in {"idle", "down", "stopping", "materialize"},
         disk'.failures[s].unread => daemon'[s].at # "materialize" /\ s \in torn'
  PROVE  DaemonInv(s)'
  BY DEF DaemonInv

\* What keeps the receipts as they were seen keeps the loop's reliance.
LEMMA KeptKeeps ==
  ASSUME CanaryBase, NEW s \in Subjects, Kept(disk, disk', s),
         daemon'[s] = daemon[s], torn \subseteq torn',
         \A u \in Of(s) : thread[u] = "done" => thread'[u] = "done"
  PROVE  DaemonInv(s)'
<1>1. DaemonInv(s)
  BY DEF CanaryBase
<1>2. /\ disk'.failures[s].unread => disk.failures[s].unread
      /\ Settled(disk', s) \/ disk'.failures[s].last = disk.failures[s].last
      /\ Settled(disk, s) /\ ~ disk.failures[s].unread => Settled(disk', s)
  BY DEF Kept
<1> QED BY <1>1, <1>2 DEF DaemonInv, Settled

LEMMA TurnsIsElsewhere ==
  ASSUME NEW d, NEW w, NEW s, Turned(d, w, s)
  PROVE  Elsewhere(d, w, s)
  BY DEF Turned, Mild, LetsGo, Grants, Proves

LEMMA RemembersFacts ==
  ASSUME NEW s \in Subjects, NEW opened \in SUBSET Subjects, reopened \subseteq opened,
         Remembers(opened)
  PROVE  /\ reopened' \subseteq Subjects
         /\ \A t \in opened : disk'.gate[t].state # "failed" /\ ~ disk'.failures[t].unread
                                => t \in reopened'
  BY DEF Remembers

\* A crash in the middle of the writes of a daemon's operation.
LEMMA TornStep ==
  ASSUME CanaryBase, NEW s \in Subjects, NEW ws, Len(ws) \in Nat,
         \A i \in 1..Len(ws) : ws[i] \in Disk /\ Safe(ws[i]) /\ Turned(disk, ws[i], s),
         Torn(s, ws, reopened), Dies(s)
  PROVE  Step(s)
<1>1. PICK i \in 1..(Len(ws) - 1) : disk' = ws[i]
  BY DEF Torn
<1>2. disk' \in Disk /\ Safe(disk') /\ Turned(disk, disk', s)
  BY <1>1
<1>3. /\ faults' \in 0..Faults /\ torn' = torn \cup {s} /\ cli' = cli
      /\ Remembers(reopened)
  BY BaseFacts DEF Torn, Faulty
<1>4. CanaryTypeOK'
  BY <1>2, <1>3, BaseFacts, DiesFacts, RemembersFacts DEF CanaryTypeOK
<1>5. OnlyOf(s)
  BY <1>2, <1>3, BaseFacts, DiesFacts, RemembersFacts, TurnsIsElsewhere DEF OnlyOf
<1>6. DaemonInv(s)'
  <2>1. daemon'[s].todo = {} /\ daemon'[s].at = "down"
    BY BaseFacts, DiesFacts DEF Down
  <2> QED BY <1>3, <2>1, AtRest
<1> QED BY <1>2, <1>4, <1>5, <1>6 DEF Step, Turns

\* An operation that is carried out.
LEMMA DoneStep ==
  ASSUME CanaryBase, NEW s \in Subjects,
         disk' \in Disk, Safe(disk'), Turned(disk, disk', s),
         Remembers(reopened) \/ reopened' = reopened,
         cli' \in SUBSET Subjects, torn' = torn, faults' \in 0..Faults,
         thread' \in [Units -> ThreadStates], daemon' \in [Subjects -> Daemon],
         \A t \in Subjects \ {s} : daemon'[t] = daemon[t],
         \A u \in Units : SubjectOf[u] # s => thread'[u] = thread[u],
         DaemonInv(s)'
  PROVE  Step(s)
<1>1. CanaryTypeOK'
  BY BaseFacts, RemembersFacts DEF CanaryTypeOK
<1>2. OnlyOf(s)
  BY BaseFacts, RemembersFacts, TurnsIsElsewhere DEF OnlyOf
<1> QED BY <1>1, <1>2 DEF Step, Turns

\* A step that writes nothing the gate reads.
LEMMA QuietStep ==
  ASSUME CanaryBase, NEW s \in Subjects,
         disk' \in Disk, Untouched(disk, disk'), reopened' = reopened,
         cli' = cli, torn' \in SUBSET Subjects, torn \subseteq torn',
         faults' \in 0..Faults,
         thread' \in [Units -> ThreadStates], daemon' \in [Subjects -> Daemon],
         \A t \in Subjects \ {s} : daemon'[t] = daemon[t],
         \A u \in Units : SubjectOf[u] # s => thread'[u] = thread[u],
         DaemonInv(s)'
  PROVE  Step(s)
<1>1. Mild(disk, disk', s) /\ Safe(disk')
  BY BaseFacts, UntouchedIsMild DEF Safe
<1>2. Turned(disk, disk', s)
  BY <1>1 DEF Turned, Untouched
<1>3. CanaryTypeOK'
  BY BaseFacts DEF CanaryTypeOK
<1>4. OnlyOf(s)
  BY <1>1, <1>2, TurnsIsElsewhere DEF OnlyOf
<1> QED BY <1>2, <1>3, <1>4 DEF Step, Turns

\* A step that moves the loop only.
LEMMA MovesStep ==
  ASSUME CanaryBase, NEW s \in Subjects, NEW d \in Daemon, Moves(s, d),
         DaemonInv(s)'
  PROVE  Step(s)
<1>1. /\ disk' = disk /\ thread' = thread /\ cli' = cli /\ faults' = faults
      /\ torn' = torn /\ reopened' = reopened
      /\ daemon' \in [Subjects -> Daemon] /\ daemon'[s] = d
      /\ \A t \in Subjects \ {s} : daemon'[t] = daemon[t]
  BY BaseFacts, GoesFacts DEF Moves
<1>2. Untouched(disk, disk')
  BY <1>1 DEF Untouched
<1> QED BY <1>1, <1>2, BaseFacts, QuietStep

\* To a loop that holds no task, when the receipts are read or nothing is under way.
LEMMA IdleStep ==
  ASSUME CanaryBase, NEW s \in Subjects, NEW d \in Daemon, Moves(s, d),
         d.at \in {"idle", "stopping"}, d.todo = {}
  PROVE  Step(s)
<1>1. daemon'[s] = d /\ disk' = disk /\ torn' = torn
  BY BaseFacts, GoesFacts DEF Moves
<1>2. disk.failures[s].unread => s \in torn
  BY BaseFacts DEF DaemonInv
<1>3. DaemonInv(s)'
  BY <1>1, <1>2, AtRest
<1> QED BY <1>3, MovesStep

\* An idle loop with another place.
LEMMA IdleVariants ==
  ASSUME NEW s \in Subjects, daemon[s] \in Daemon,
         NEW a \in {"idle", "reap", "materialize", "press", "submit", "stopping"}
  PROVE  /\ [Idle(s) EXCEPT !.at = a] \in Daemon
         /\ [Idle(s) EXCEPT !.at = a].at = a /\ [Idle(s) EXCEPT !.at = a].todo = {}
<1> DEFINE r == Idle(s)
<1>1. r \in Daemon /\ r.todo = {}
  BY IdleFacts
<1> HIDE DEF r
<1>2. [r EXCEPT !.at = a] \in Daemon
  BY <1>1 DEF Daemon
<1>3. [r EXCEPT !.at = a].at = a /\ [r EXCEPT !.at = a].todo = {}
  BY <1>1 DEF Daemon
<1> QED BY <1>2, <1>3 DEF r

LEMMA StartDaemonStep ==
  ASSUME CanaryBase, NEW s \in Subjects, StartDaemon(s)
  PROVE  Step(s)
BY BaseFacts, IdleFacts, IdleStep DEF StartDaemon

LEMMA StopStep ==
  ASSUME CanaryBase, NEW s \in Subjects, Stop(s)
  PROVE  Step(s)
<1>1. Moves(s, [Idle(s) EXCEPT !.at = "stopping"])
  BY DEF Stop
<1>2. /\ [Idle(s) EXCEPT !.at = "stopping"] \in Daemon
      /\ [Idle(s) EXCEPT !.at = "stopping"].at = "stopping"
      /\ [Idle(s) EXCEPT !.at = "stopping"].todo = {}
  BY BaseFacts, IdleVariants
<1> QED BY <1>1, <1>2, IdleStep

LEMMA LoopHeadStep ==
  ASSUME CanaryBase, NEW s \in Subjects, LoopHead(s)
  PROVE  Step(s)
<1>1. CASE Moves(s, [Idle(s) EXCEPT !.at = "stopping"])
  <2>1. /\ [Idle(s) EXCEPT !.at = "stopping"] \in Daemon
        /\ [Idle(s) EXCEPT !.at = "stopping"].at = "stopping"
        /\ [Idle(s) EXCEPT !.at = "stopping"].todo = {}
    BY BaseFacts, IdleVariants
  <2> QED BY <1>1, <2>1, IdleStep
<1>2. CASE Moves(s, [Idle(s) EXCEPT !.at = "reap", !.todo = DoneHandles(s)])
  <2> DEFINE d == [Idle(s) EXCEPT !.at = "reap", !.todo = DoneHandles(s)]
  <2>1. /\ DoneHandles(s) \subseteq Of(s) /\ DoneHandles(s) \in SUBSET Units
        /\ \A u \in DoneHandles(s) : thread[u] = "done"
    BY TaskFacts DEF DoneHandles
  <2>2. d \in Daemon /\ d.at = "reap" /\ d.todo = DoneHandles(s)
    <3> DEFINE r == Idle(s)
    <3>1. r \in Daemon
      BY BaseFacts, IdleFacts
    <3> HIDE DEF r
    <3>2. [r EXCEPT !.at = "reap", !.todo = DoneHandles(s)] \in Daemon
      BY <2>1, <3>1 DEF Daemon
    <3>3. /\ [r EXCEPT !.at = "reap", !.todo = DoneHandles(s)].at = "reap"
          /\ [r EXCEPT !.at = "reap", !.todo = DoneHandles(s)].todo = DoneHandles(s)
      BY <3>1 DEF Daemon
    <3> QED BY <3>2, <3>3 DEF r
  <2>3. Moves(s, d)
    BY <1>2
  <2> HIDE DEF d
  <2>4. daemon'[s] = d /\ disk' = disk /\ torn' = torn /\ thread' = thread
    BY <2>2, <2>3, BaseFacts, GoesFacts DEF Moves
  <2>5. disk.failures[s].unread => s \in torn
    BY BaseFacts DEF DaemonInv
  <2>6. DaemonInv(s)'
    BY <2>1, <2>2, <2>4, <2>5 DEF DaemonInv
  <2> QED BY <2>2, <2>3, <2>6, MovesStep
<1> QED BY <1>1, <1>2 DEF LoopHead

LEMMA DeathStep ==
  ASSUME CanaryBase, NEW s \in Subjects, Exit(s) \/ Kill(s)
  PROVE  Step(s)
<1>1. /\ Dies(s) /\ disk' = disk /\ cli' = cli /\ reopened' = reopened
      /\ faults' \in 0..Faults /\ torn' \in SUBSET Subjects /\ torn \subseteq torn'
  BY BaseFacts DEF Exit, Kill, Faulty
<1>2. /\ daemon'[s].todo = {} /\ daemon'[s].at = "down"
      /\ disk'.failures[s].unread => s \in torn'
  BY <1>1, BaseFacts, DiesFacts DEF Down, DaemonInv
<1>3. DaemonInv(s)'
  BY <1>2, AtRest
<1>4. Untouched(disk, disk')
  BY <1>1 DEF Untouched
<1> QED BY <1>1, <1>3, <1>4, BaseFacts, DiesFacts, QuietStep

LEMMA PassAbortsStep ==
  ASSUME CanaryBase, NEW s \in Subjects, PassAborts(s)
  PROVE  Step(s)
BY BaseFacts, IdleFacts, IdleStep DEF PassAborts

LEMMA SelectStep ==
  ASSUME CanaryBase, NEW s \in Subjects, Select(s)
  PROVE  Step(s)
<1>1. /\ daemon[s].at = "select" /\ Settled(disk, s) /\ ~ disk.failures[s].unread
  BY BaseFacts DEF Select, DaemonInv
<1>2. CASE Chosen(s) = {}
  BY <1>2, BaseFacts, IdleFacts, IdleStep DEF Select
<1>3. CASE Chosen(s) # {}
  <2> DEFINE d == [Idle(s) EXCEPT !.at = "submit", !.todo = Chosen(s)]
  <2>1. Chosen(s) \subseteq Of(s) /\ Chosen(s) \in SUBSET Units
    BY TaskFacts DEF Chosen, Pending
  <2>2. d \in Daemon /\ d.at = "submit" /\ d.todo = Chosen(s)
    <3> DEFINE r == Idle(s)
    <3>1. r \in Daemon
      BY BaseFacts, IdleFacts
    <3> HIDE DEF r
    <3>2. [r EXCEPT !.at = "submit", !.todo = Chosen(s)] \in Daemon
      BY <2>1, <3>1 DEF Daemon
    <3>3. /\ [r EXCEPT !.at = "submit", !.todo = Chosen(s)].at = "submit"
          /\ [r EXCEPT !.at = "submit", !.todo = Chosen(s)].todo = Chosen(s)
      BY <3>1 DEF Daemon
    <3> QED BY <3>2, <3>3 DEF r
  <2>3. Moves(s, d)
    BY <1>3 DEF Select
  <2> HIDE DEF d
  <2>4. daemon'[s] = d /\ disk' = disk
    BY <2>2, <2>3, BaseFacts, GoesFacts DEF Moves
  <2>5. DaemonInv(s)'
    BY <1>1, <1>3, <2>1, <2>2, <2>4 DEF DaemonInv, Settled
  <2> QED BY <2>2, <2>3, <2>5, MovesStep
<1> QED BY <1>2, <1>3

\* The reconciliation of the receipts, as a step.
LEMMA ReconcileTurns ==
  ASSUME CanaryBase, NEW s \in Subjects, Open(disk, s)
  PROVE  LET ws == Reconcile(disk, s)
         IN /\ Len(ws) \in Nat
            /\ \A i \in 1..Len(ws) : /\ ws[i] \in Disk /\ Safe(ws[i])
                                     /\ Kept(disk, ws[i], s) /\ Turned(disk, ws[i], s)
            /\ Final(ws) \in Disk /\ Safe(Final(ws)) /\ Kept(disk, Final(ws), s)
            /\ Turned(disk, Final(ws), s)
            /\ ~ StaleAck(disk, s) => ~ Final(ws).failures[s].unread
<1> DEFINE ws == Reconcile(disk, s)
           k == disk.failures[s].last
<1>1. disk \in Disk /\ Safe(disk) /\ Readable(disk, s)
  BY BaseFacts DEF Open
<1>2. k \in Units \cup {Scan}
  BY BaseFacts, TaskFacts DEF DiskInv
<1>3. /\ \A i \in 1..Len(ws) :
           /\ ws[i] \in Disk /\ Safe(ws[i]) /\ Kept(disk, ws[i], s)
           /\ Mild(disk, ws[i], s) \/ LetsGo(disk, ws[i], s, k)
      /\ Len(ws) \in Nat \ {0}
      /\ ~ StaleAck(disk, s) => ~ Final(ws).failures[s].unread
  BY <1>1, ReconcileEffect
<1> HIDE DEF ws, k
<1>4. \A i \in 1..Len(ws) : Turned(disk, ws[i], s)
  BY <1>1, <1>2, <1>3 DEF Turned
<1>5. Len(ws) \in 1..Len(ws) /\ Final(ws) = ws[Len(ws)]
  BY <1>3 DEF Final
<1> QED BY <1>3, <1>4, <1>5 DEF ws

\* The recording of a failure, as a step.
LEMMA FailPreclaimTurns ==
  ASSUME CanaryBase, NEW s \in Subjects, NEW k \in Of(s) \cup {Scan},
         Open(disk, s), ~ disk.failures[s].unread
  PROVE  LET ws == FailPreclaim(disk, s, k)
         IN /\ Len(ws) \in Nat
            /\ \A i \in 1..Len(ws) :
                 ws[i] \in Disk /\ Safe(ws[i]) /\ Turned(disk, ws[i], s)
            /\ Final(ws) \in Disk /\ Safe(Final(ws))
            /\ Turned(disk, Final(ws), s) /\ ~ Final(ws).failures[s].unread
            /\ FailPreclaimRaises(disk, s, k) \/ Final(ws).failures[s].last = k
<1> DEFINE ws == FailPreclaim(disk, s, k)
           r == Final(Reconcile(disk, s))
<1>1. disk \in Disk /\ Safe(disk) /\ Readable(disk, s)
  BY BaseFacts DEF Open
<1>2. k \in Units \cup {Scan}
  BY TaskFacts
<1>3. /\ Len(ws) \in Nat
      /\ \A i \in 1..Len(ws) :
           /\ ws[i] \in Disk /\ Safe(ws[i])
           /\ Mild(disk, ws[i], s) \/ LetsGo(disk, ws[i], s, k)
      /\ Final(ws) \in Disk /\ Safe(Final(ws))
      /\ Mild(disk, Final(ws), s) \/ LetsGo(disk, Final(ws), s, k)
      /\ ~ Final(ws).failures[s].unread
      /\ Refused(disk, s) => Final(ws) = r
      /\ ~ Refused(disk, s) => Final(ws).failures[s].last = k
  BY <1>1, FailPreclaimEffect
<1>4. Final(ws) = r /\ Refused(disk, s) => FailPreclaimRaises(disk, s, k)
  BY DEF Refused, FailPreclaimRaises, ReconcileRaises
<1> HIDE DEF ws, r
<1>5. /\ \A i \in 1..Len(ws) : Turned(disk, ws[i], s)
      /\ Turned(disk, Final(ws), s)
  BY <1>1, <1>2, <1>3 DEF Turned
<1> QED BY <1>3, <1>4, <1>5 DEF ws

\* A failure is recorded, and the loop goes on or ends its pass.
LEMMA RecordedStep ==
  ASSUME CanaryBase, NEW s \in Subjects, NEW k \in Of(s) \cup {Scan},
         Open(disk, s), ~ disk.failures[s].unread,
         disk' = Final(FailPreclaim(disk, s, k)), NEW d \in Daemon, Goes(s, d),
         \/ d = Idle(s)
         \/ /\ ~ FailPreclaimRaises(disk, s, k)
            /\ d.todo \subseteq Of(s) /\ d.at \in {"idle", "materialize", "submit"}
            /\ d.at = "submit" => d.todo # {} /\ k \notin d.todo,
         Remembers(reopened), cli' = cli, torn' = torn, faults' \in 0..Faults,
         thread' = thread
  PROVE  Step(s)
<1>1. /\ disk' \in Disk /\ Safe(disk') /\ Turned(disk, disk', s)
      /\ ~ disk'.failures[s].unread
      /\ FailPreclaimRaises(disk, s, k) \/ disk'.failures[s].last = k
  BY FailPreclaimTurns
<1>2. /\ daemon' \in [Subjects -> Daemon] /\ daemon'[s] = d
      /\ \A t \in Subjects \ {s} : daemon'[t] = daemon[t]
  BY BaseFacts, GoesFacts
<1>3. DaemonInv(s)'
  <2>1. CASE d = Idle(s)
    <3>1. d.at = "idle" /\ d.todo = {}
      BY <2>1, BaseFacts, IdleFacts
    <3> QED BY <1>1, <1>2, <3>1, AtRest
  <2>2. CASE d # Idle(s)
    BY <1>1, <1>2, <2>2 DEF DaemonInv
  <2> QED BY <2>1, <2>2
<1>4. cli' \in SUBSET Subjects /\ thread' \in [Units -> ThreadStates]
      /\ \A u \in Units : SubjectOf[u] # s => thread'[u] = thread[u]
  BY BaseFacts
<1> QED BY <1>1, <1>2, <1>3, <1>4, DoneStep

LEMMA RecordsStep ==
  ASSUME CanaryBase, NEW s \in Subjects, NEW k \in Of(s) \cup {Scan},
         Open(disk, s), ~ disk.failures[s].unread, NEW next \in Daemon,
         next.todo \subseteq Of(s), next.at \in {"idle", "materialize", "submit"},
         next.at = "submit" => next.todo # {} /\ k \notin next.todo,
         Records(s, k, next)
  PROVE  Step(s)
<1> DEFINE d == IF FailPreclaimRaises(disk, s, k) THEN Idle(s) ELSE next
           ws == FailPreclaim(disk, s, k)
<1>1. \/ /\ disk' = Final(ws) /\ Goes(s, d) /\ thread' = thread /\ faults' = faults
         /\ Remembers(reopened) /\ cli' = cli /\ torn' = torn
      \/ Torn(s, ws, reopened) /\ Dies(s)
  BY DEF Records, Does
<1>2. d \in Daemon
  BY BaseFacts, IdleFacts
<1>3. CASE disk' = Final(ws) /\ Goes(s, d) /\ thread' = thread /\ faults' = faults
           /\ Remembers(reopened) /\ cli' = cli /\ torn' = torn
  <2>1. d = Idle(s) \/ (~ FailPreclaimRaises(disk, s, k) /\ d = next)
    OBVIOUS
  <2> HIDE DEF d
  <2> QED BY <1>2, <1>3, <2>1, BaseFacts, RecordedStep
<1>4. CASE Torn(s, ws, reopened) /\ Dies(s)
  BY <1>4, FailPreclaimTurns, TornStep
<1> QED BY <1>1, <1>3, <1>4

LEMMA ScanFailsStep ==
  ASSUME CanaryBase, NEW s \in Subjects, ScanFails(s)
  PROVE  Step(s)
<1>1. /\ daemon[s].at = "materialize" /\ Open(disk, s) /\ faults' \in 0..Faults
      /\ Remembers(reopened) /\ thread' = thread /\ cli' = cli /\ torn' = torn
  BY BaseFacts DEF ScanFails, Faulty
<1>2. ~ disk.failures[s].unread
  BY <1>1, BaseFacts DEF DaemonInv
<1>3. PICK k \in {Scan} \cup Unrecorded(s) :
        /\ disk' = Final(FailPreclaim(disk, s, k))
        /\ Goes(s, IF k = Scan \/ FailPreclaimRaises(disk, s, k) THEN Idle(s)
                   ELSE daemon[s])
  BY DEF ScanFails
<1>4. k \in Of(s) \cup {Scan}
  BY DEF Unrecorded
<1>5. CASE k = Scan \/ FailPreclaimRaises(disk, s, k)
  <2>1. Goes(s, Idle(s)) /\ Idle(s) \in Daemon
    BY <1>3, <1>5, BaseFacts, IdleFacts
  <2> QED BY <1>1, <1>2, <1>3, <1>4, <2>1, RecordedStep
<1>6. CASE ~ (k = Scan \/ FailPreclaimRaises(disk, s, k))
  <2>1. /\ Goes(s, daemon[s]) /\ daemon[s] \in Daemon
        /\ daemon[s].todo \subseteq Of(s)
    BY <1>3, <1>6, BaseFacts DEF DaemonInv
  <2> QED BY <1>1, <1>2, <1>3, <1>4, <1>6, <2>1, RecordedStep
<1> QED BY <1>5, <1>6

LEMMA SelectFailsStep ==
  ASSUME CanaryBase, NEW s \in Subjects, SelectFails(s)
  PROVE  Step(s)
<1>1. /\ daemon[s].at = "select" /\ Open(disk, s) /\ faults' \in 0..Faults
      /\ Remembers(reopened) /\ thread' = thread /\ cli' = cli /\ torn' = torn
      /\ Goes(s, Idle(s)) /\ Idle(s) \in Daemon
  BY BaseFacts, IdleFacts DEF SelectFails, Faulty
<1>2. ~ disk.failures[s].unread
  BY <1>1, BaseFacts DEF DaemonInv
<1>3. PICK k \in {Scan} \cup (IF Chosen(s) = {} THEN {} ELSE {First(Chosen(s))}) :
        disk' = Final(FailPreclaim(disk, s, k))
  BY DEF SelectFails
<1>4. Chosen(s) \subseteq Of(s) /\ Chosen(s) \in SUBSET Units
  BY TaskFacts DEF Chosen, Pending
<1>5. Chosen(s) # {} => First(Chosen(s)) \in Chosen(s)
  BY <1>4, FirstIsOne
<1>6. k \in Of(s) \cup {Scan}
  BY <1>3, <1>4, <1>5
<1> QED BY <1>1, <1>2, <1>3, <1>6, RecordedStep

\* The loop after the task it was at.
LEMMA AfterTaskFacts ==
  ASSUME CanaryBase, NEW s \in Subjects,
         daemon[s].at \in {"submit", "launch", "failing"}
  PROVE  LET u == First(daemon[s].todo)
             n == AfterTask(s)
         IN /\ u \in Of(s) /\ u \in daemon[s].todo
            /\ n \in Daemon /\ n.todo \subseteq Of(s) /\ u \notin n.todo
            /\ n.todo \subseteq daemon[s].todo
            /\ \/ n.at = "idle" /\ n.todo = {}
               \/ n.at = "submit" /\ n.todo # {}
<1> DEFINE r == daemon[s]
           u == First(r.todo)
           rest == r.todo \ {u}
           n == [r EXCEPT !.at = "submit", !.todo = rest]
<1>1. r \in Daemon /\ r.todo \subseteq Of(s) /\ r.todo # {} /\ r.todo \in SUBSET Units
  BY BaseFacts, TaskFacts DEF DaemonInv
<1>2. u \in r.todo
  BY <1>1, FirstIsOne
<1> HIDE DEF u, r
<1>3. rest \subseteq Of(s) /\ rest \in SUBSET Units /\ u \notin rest /\ rest \subseteq r.todo
  BY <1>1
<1> HIDE DEF rest
<1>4. n \in Daemon
  BY <1>1, <1>3 DEF Daemon
<1>5. n.at = "submit" /\ n.todo = rest
  BY <1>1 DEF Daemon
<1> HIDE DEF n
<1>6. AfterTask(s) = IF rest = {} THEN Idle(s) ELSE n
  BY DEF AfterTask, rest, u, r, n
<1>7. Idle(s) \in Daemon /\ Idle(s).at = "idle" /\ Idle(s).todo = {}
  BY BaseFacts, IdleFacts
<1>8. CASE rest = {}
  <2>1. AfterTask(s) = Idle(s)
    BY <1>6, <1>8
  <2> QED BY <1>1, <1>2, <1>7, <2>1 DEF u, r
<1>9. CASE rest # {}
  <2>1. AfterTask(s) = n
    BY <1>6, <1>9
  <2> QED BY <1>1, <1>2, <1>3, <1>4, <1>5, <1>9, <2>1 DEF u, r
<1> QED BY <1>8, <1>9

LEMMA SubmitFailsStep ==
  ASSUME CanaryBase, NEW s \in Subjects, SubmitFails(s)
  PROVE  Step(s)
<1> DEFINE u == First(daemon[s].todo)
           n == AfterTask(s)
<1>1. daemon[s].at = "failing" /\ Open(disk, s) /\ Records(s, u, n)
  BY DEF SubmitFails
<1>2. ~ disk.failures[s].unread
  BY <1>1, BaseFacts DEF DaemonInv
<1>3. /\ u \in Of(s) /\ n \in Daemon /\ n.todo \subseteq Of(s) /\ u \notin n.todo
      /\ \/ n.at = "idle" /\ n.todo = {}
         \/ n.at = "submit" /\ n.todo # {}
  BY <1>1, AfterTaskFacts
<1> HIDE DEF u, n
<1> QED BY <1>1, <1>2, <1>3, RecordsStep

LEMMA MaterializeStep ==
  ASSUME CanaryBase, NEW s \in Subjects, Materialize(s)
  PROVE  Step(s)
<1>1. daemon[s].at = "materialize" /\ Open(disk, s)
  BY DEF Materialize
<1>2. ~ disk.failures[s].unread
  BY <1>1, BaseFacts DEF DaemonInv
<1>3. PICK u \in Unrecorded(s) :
        IF disk.gate[s].state = "inactive" THEN Records(s, u, daemon[s])
        ELSE /\ disk' = [disk EXCEPT !.queue[u] =
                           [status |-> "pending", named |-> FALSE,
                            act |-> disk.gate[s].act]]
             /\ UNCHANGED <<thread, daemon, cli, faults, torn, reopened>>
  BY DEF Materialize
<1>4. u \in Of(s)
  BY DEF Unrecorded
<1>5. CASE disk.gate[s].state = "inactive"
  <2>1. daemon[s] \in Daemon /\ daemon[s].todo \subseteq Of(s)
    BY BaseFacts DEF DaemonInv
  <2> QED BY <1>1, <1>2, <1>3, <1>4, <1>5, <2>1, RecordsStep
<1>6. CASE disk.gate[s].state # "inactive"
  <2>1. /\ disk' \in Disk /\ Safe(disk') /\ Kept(disk, disk', s) /\ Mild(disk, disk', s)
        /\ disk'.gate = disk.gate /\ disk'.failures = disk.failures
    <3>1. disk' = Enqueued(disk, s, u)
      BY <1>3, <1>6 DEF Enqueued, NewEntry
    <3> QED BY <1>4, <3>1, BaseFacts, EnqueueEffect
  <2>2. /\ thread' = thread /\ daemon' = daemon /\ cli' = cli /\ faults' = faults
        /\ torn' = torn /\ reopened' = reopened
    BY <1>3, <1>6
  <2>3. Turned(disk, disk', s) /\ Readable(disk, s)
    BY <1>1, <2>1 DEF Turned, Open
  <2>4. DaemonInv(s)'
    BY <2>1, <2>2, KeptKeeps
  <2>5. cli' \in SUBSET Subjects /\ faults' \in 0..Faults
        /\ thread' \in [Units -> ThreadStates] /\ daemon' \in [Subjects -> Daemon]
    BY <2>2, BaseFacts
  <2> QED BY <2>1, <2>2, <2>3, <2>4, <2>5, DoneStep
<1> QED BY <1>5, <1>6

\* The receipts are reconciled, and the loop goes on without tasks.
LEMMA ReconciledStep ==
  ASSUME CanaryBase, NEW s \in Subjects, Open(disk, s), NEW d \in Daemon,
         disk' = Final(Reconcile(disk, s)), Goes(s, d), Remembers(reopened),
         cli' = cli, torn' = torn, thread' = thread, faults' = faults,
         d.todo = {}, d.at \in {"idle", "materialize", "press"},
         d.at = "press" /\ d.room # 0 => Settled(disk', s),
         StaleAck(disk, s) => d.at = "idle"
  PROVE  Step(s)
<1>1. /\ disk' \in Disk /\ Safe(disk') /\ Turned(disk, disk', s)
      /\ d.at = "idle" \/ ~ disk'.failures[s].unread
      /\ disk'.failures[s].unread => s \in torn
  BY ReconcileTurns, BaseFacts DEF Kept, DaemonInv
<1>2. /\ daemon' \in [Subjects -> Daemon] /\ daemon'[s] = d
      /\ \A t \in Subjects \ {s} : daemon'[t] = daemon[t]
  BY BaseFacts, GoesFacts
<1>3. DaemonInv(s)'
  BY <1>1, <1>2 DEF DaemonInv, Settled
<1>4. /\ cli' \in SUBSET Subjects /\ thread' \in [Units -> ThreadStates]
      /\ faults' \in 0..Faults
      /\ \A u \in Units : SubjectOf[u] # s => thread'[u] = thread[u]
  BY BaseFacts
<1> QED BY <1>1, <1>2, <1>3, <1>4, DoneStep

LEMMA BeginScanStep ==
  ASSUME CanaryBase, NEW s \in Subjects, BeginScan(s)
  PROVE  Step(s)
<1> DEFINE ws == Reconcile(disk, s)
           a == IF \/ ReconcileRaises(disk, s)
                   \/ /\ Final(ws).gate[s].state = "failed"
                      /\ Scan \in Final(ws).failures[s].keys
                THEN "idle" ELSE "materialize"
           d == [Idle(s) EXCEPT !.at = a]
<1>1. /\ Open(disk, s)
      /\ \/ /\ disk' = Final(ws) /\ Goes(s, d) /\ thread' = thread /\ faults' = faults
            /\ Remembers(reopened) /\ cli' = cli /\ torn' = torn
         \/ Torn(s, ws, reopened) /\ Dies(s)
  BY DEF BeginScan, Does
<1>2. a \in {"idle", "materialize"} /\ (StaleAck(disk, s) => a = "idle")
  BY DEF ReconcileRaises
<1> HIDE DEF a
<1>3. /\ d \in Daemon /\ d.at \in {"idle", "materialize"} /\ d.todo = {}
      /\ StaleAck(disk, s) => d.at = "idle"
  <2> DEFINE r == Idle(s)
  <2>1. r \in Daemon /\ r.todo = {}
    BY BaseFacts, IdleFacts
  <2> HIDE DEF r
  <2>2. [r EXCEPT !.at = a] \in Daemon
    BY <1>2, <2>1 DEF Daemon
  <2>3. [r EXCEPT !.at = a].at = a /\ [r EXCEPT !.at = a].todo = {}
    BY <2>1 DEF Daemon
  <2> QED BY <1>2, <2>2, <2>3 DEF r
<1> HIDE DEF d
<1>4. CASE Torn(s, ws, reopened) /\ Dies(s)
  BY <1>1, <1>4, ReconcileTurns, TornStep
<1>5. CASE disk' = Final(ws) /\ Goes(s, d) /\ thread' = thread /\ faults' = faults
           /\ Remembers(reopened) /\ cli' = cli /\ torn' = torn
  BY <1>1, <1>3, <1>5, ReconciledStep
<1> QED BY <1>1, <1>4, <1>5

\* The capacity that a pass takes from the gate.
Room(s, g) ==
  CASE daemon[s].closed -> 0
    [] g.state = "armed" /\ ~ daemon[s].closed -> 1
    [] g.state = "unlocked" /\ ~ daemon[s].closed -> Limit - Cardinality(g.active)
    [] OTHER -> 0

LEMMA RoomFacts ==
  ASSUME CanaryBase, NEW s \in Subjects, Open(disk, s), ~ ReconcileRaises(disk, s)
  PROVE  LET d == Final(Reconcile(disk, s))
             n == Room(s, d.gate[s])
         IN n \in 0..Limit /\ (n # 0 => Settled(d, s))
<1> DEFINE d == Final(Reconcile(disk, s))
           g == d.gate[s]
           n == Room(s, g)
<1>1. disk \in Disk /\ Readable(disk, s) /\ DiskInv(disk, s) /\ daemon[s] \in Daemon
  BY BaseFacts DEF Open
<1>2. CASE Outstanding(disk, s)
  <2>1. g.state = "failed"
    BY <1>1, <1>2, ReconcileWrites, ClosedByFacts, ClosedGateFacts
  <2> HIDE DEF g
  <2>2. n = 0
    BY <1>1, <2>1 DEF Room, Daemon
  <2> QED BY <2>2 DEF g
<1>3. CASE ~ Outstanding(disk, s)
  <2>1. d = disk
    BY <1>1, <1>3, ReconcileWrites
  <2>2. Cardinality(g.active) <= Limit /\ Cardinality(g.active) \in Nat
    <3>1. g.active \in SUBSET Units
      BY <1>1, <2>1, DiskParts DEF Gate
    <3> QED BY <1>1, <2>1, <3>1, SizeFacts DEF Readable
  <2>3. g.state # "failed" => Settled(d, s)
    BY <1>3, <2>1 DEF Outstanding, Settled
  <2> HIDE DEF g, d
  <2>4. n \in 0..Limit /\ (n # 0 => g.state # "failed")
    <3>1. CASE daemon[s].closed
      BY <3>1 DEF Room
    <3>2. CASE ~ daemon[s].closed /\ g.state = "armed"
      <4>1. n = 1
        BY <3>2 DEF Room
      <4> QED BY <3>2, <4>1
    <3>3. CASE ~ daemon[s].closed /\ g.state = "unlocked"
      <4>1. n = Limit - Cardinality(g.active)
        BY <3>3 DEF Room
      <4> QED BY <2>2, <3>3, <4>1
    <3>4. CASE ~ daemon[s].closed /\ g.state \notin {"armed", "unlocked"}
      <4>1. n = 0
        BY <3>4 DEF Room
      <4> QED BY <4>1
    <3> QED BY <3>1, <3>2, <3>3, <3>4
  <2> QED BY <2>3, <2>4 DEF g, d
<1> QED BY <1>2, <1>3

LEMMA ReadStatusStep ==
  ASSUME CanaryBase, NEW s \in Subjects, ReadStatus(s)
  PROVE  Step(s)
<1> DEFINE ws == Reconcile(disk, s)
           g == Final(ws).gate[s]
           n == Room(s, g)
           p == g.state = "unlocked" /\ n = 0
           q == [Idle(s) EXCEPT !.at = "press", !.room = n, !.press = p]
           d == IF ReconcileRaises(disk, s) THEN Idle(s) ELSE q
<1>1. /\ Open(disk, s)
      /\ \/ /\ disk' = Final(ws) /\ Goes(s, d) /\ thread' = thread /\ faults' = faults
            /\ Remembers(reopened) /\ cli' = cli /\ torn' = torn
         \/ Torn(s, ws, reopened) /\ Dies(s)
  BY DEF ReadStatus, Does, Room
<1>2. CASE Torn(s, ws, reopened) /\ Dies(s)
  BY <1>1, <1>2, ReconcileTurns, TornStep
<1>3. CASE disk' = Final(ws) /\ Goes(s, d) /\ thread' = thread /\ faults' = faults
           /\ Remembers(reopened) /\ cli' = cli /\ torn' = torn
  <2>1. CASE ReconcileRaises(disk, s)
    <3>1. d = Idle(s) /\ d \in Daemon /\ d.at = "idle" /\ d.todo = {}
      BY <2>1, BaseFacts, IdleFacts
    <3> HIDE DEF d
    <3> QED BY <1>1, <1>3, <3>1, ReconciledStep
  <2>2. CASE ~ ReconcileRaises(disk, s)
    <3>0. ~ StaleAck(disk, s)
      BY <2>2 DEF ReconcileRaises
    <3>1. n \in 0..Limit /\ (n # 0 => Settled(Final(ws), s)) /\ p \in BOOLEAN
      <4>1. p \in BOOLEAN
        BY Zenon
      <4> QED BY <1>1, <2>2, <4>1, RoomFacts
    <3>2. d = q
      BY <2>2
    <3> HIDE DEF d, n, p
    <3>3. q \in Daemon /\ q.at = "press" /\ q.todo = {} /\ q.room = n
      <4> DEFINE r == Idle(s)
      <4>1. r \in Daemon /\ r.todo = {}
        BY BaseFacts, IdleFacts
      <4> HIDE DEF r
      <4>2. [r EXCEPT !.at = "press", !.room = n, !.press = p] \in Daemon
        BY <3>1, <4>1 DEF Daemon
      <4>3. /\ [r EXCEPT !.at = "press", !.room = n, !.press = p].at = "press"
            /\ [r EXCEPT !.at = "press", !.room = n, !.press = p].todo = {}
            /\ [r EXCEPT !.at = "press", !.room = n, !.press = p].room = n
        BY <4>1 DEF Daemon
      <4> QED BY <4>2, <4>3 DEF r
    <3> HIDE DEF q
    <3> QED BY <1>1, <1>3, <3>0, <3>1, <3>2, <3>3, ReconciledStep
  <2> QED BY <2>1, <2>2
<1> QED BY <1>1, <1>2, <1>3

LEMMA PressStep ==
  ASSUME CanaryBase, NEW s \in Subjects, Press(s)
  PROVE  Step(s)
<1> DEFINE b == daemon[s].press
           q == [daemon[s] EXCEPT !.at = "select", !.press = FALSE]
           d == IF daemon[s].room = 0 THEN Idle(s) ELSE q
<1>1. /\ daemon[s].at = "press" /\ Open(disk, s) /\ disk' = PressedDisk(disk, s, b)
      /\ Goes(s, d) /\ thread' = thread /\ cli' = cli /\ faults' = faults
      /\ torn' = torn /\ reopened' = reopened
  BY DEF Press, PressedDisk
<1>2. /\ ~ disk.failures[s].unread
      /\ daemon[s].room # 0 => Settled(disk, s)
      /\ daemon[s] \in Daemon /\ b \in BOOLEAN /\ daemon[s].todo \subseteq Of(s)
  BY <1>1, BaseFacts DEF DaemonInv, Daemon
<1> HIDE DEF b
<1>3. /\ disk' \in Disk /\ Safe(disk') /\ Kept(disk, disk', s) /\ Mild(disk, disk', s)
      /\ disk'.failures = disk.failures
  BY <1>1, <1>2, BaseFacts, PressEffect DEF Open
<1>4. Turned(disk, disk', s)
  BY <1>1, <1>3 DEF Turned, Open
<1>5. /\ d \in Daemon
      /\ \/ d.at = "idle" /\ d.todo = {}
         \/ d.at = "select" /\ d.todo \subseteq Of(s) /\ Settled(disk, s)
  <2>1. CASE daemon[s].room = 0
    <3>1. d = Idle(s)
      BY <2>1
    <3> HIDE DEF d
    <3> QED BY <3>1, BaseFacts, IdleFacts
  <2>2. CASE daemon[s].room # 0
    <3> DEFINE r == daemon[s]
    <3>1. r \in Daemon /\ r.todo \subseteq Of(s)
      BY <1>2
    <3>2. d = [r EXCEPT !.at = "select", !.press = FALSE]
      BY <2>2
    <3> HIDE DEF d, r
    <3>3. d \in Daemon /\ d.at = "select" /\ d.todo = r.todo
      BY <3>1, <3>2 DEF Daemon
    <3> QED BY <1>2, <2>2, <3>1, <3>3
  <2> QED BY <2>1, <2>2
<1> HIDE DEF d
<1>6. /\ daemon' \in [Subjects -> Daemon] /\ daemon'[s] = d
      /\ \A t \in Subjects \ {s} : daemon'[t] = daemon[t]
  BY <1>1, <1>5, BaseFacts, GoesFacts
<1>7. DaemonInv(s)'
  <2>1. ~ disk'.failures[s].unread /\ (Settled(disk, s) => Settled(disk', s))
    BY <1>2, <1>3 DEF Kept
  <2> QED BY <1>5, <1>6, <2>1 DEF DaemonInv, Settled
<1>8. cli' \in SUBSET Subjects /\ faults' \in 0..Faults /\ thread' \in [Units -> ThreadStates]
  BY <1>1, BaseFacts
<1> QED BY <1>1, <1>3, <1>4, <1>6, <1>7, <1>8, DoneStep

LEMMA ReapStep ==
  ASSUME CanaryBase, NEW s \in Subjects, Reap(s)
  PROVE  Step(s)
<1> DEFINE r == daemon[s]
           u == First(r.todo)
           rest == [r EXCEPT !.todo = r.todo \ {u}]
           shut == [rest EXCEPT !.closed = TRUE]
<1>1. /\ r.at = "reap" /\ r.todo # {} /\ r \in Daemon /\ r.todo \subseteq Of(s)
      /\ \A v \in r.todo : thread[v] = "done"
      /\ disk.failures[s].unread => s \in torn
  BY BaseFacts DEF Reap, DaemonInv
<1>2. u \in r.todo /\ u \in Of(s) /\ u \in Units /\ SubjectOf[u] = s
  <2>1. r.todo \in SUBSET Units
    BY <1>1, TaskFacts
  <2> QED BY <1>1, <2>1, FirstIsOne, TaskFacts
<1>3. /\ cli' = cli /\ torn' = torn /\ faults' \in 0..Faults
      /\ Goes(s, rest) \/ Goes(s, shut)
      /\ thread' = thread \/ thread' = [thread EXCEPT ![u] = "gone"]
      /\ \/ disk' = disk /\ reopened' = reopened
         \/ /\ HasTerminal(disk, u) /\ Remembers(reopened)
            /\ disk' = Final(FailPostTerminal(disk, u))
  BY BaseFacts DEF Reap, Faulty
<1>4. PICK d \in {rest, shut} : Goes(s, d)
  BY <1>3
<1>5. /\ rest \in Daemon /\ shut \in Daemon
      /\ rest.at = "reap" /\ rest.todo = r.todo \ {u}
      /\ shut.at = "reap" /\ shut.todo = r.todo \ {u}
  <2> DEFINE x == r.todo \ {u}
  <2>1. x \in SUBSET Units
    BY <1>1, TaskFacts
  <2> HIDE DEF x, r
  <2> QED BY <1>1, <2>1 DEF Daemon
<1>6. d \in Daemon /\ d.at = "reap" /\ d.todo = r.todo \ {u}
  BY <1>4, <1>5
<1>7. /\ daemon' \in [Subjects -> Daemon] /\ daemon'[s] = d
      /\ \A t \in Subjects \ {s} : daemon'[t] = daemon[t]
  BY <1>4, <1>6, BaseFacts, GoesFacts
<1>8. /\ thread' \in [Units -> ThreadStates]
      /\ \A v \in Units : v # u => thread'[v] = thread[v]
  BY <1>3, BaseFacts DEF ThreadStates
<1> HIDE DEF r, u, rest, shut
<1>9. /\ \A v \in Units : SubjectOf[v] # s => thread'[v] = thread[v]
      /\ \A v \in d.todo : thread'[v] = "done"
  BY <1>1, <1>2, <1>6, <1>8, TaskFacts
<1>10. /\ disk' \in Disk /\ Safe(disk') /\ Kept(disk, disk', s) /\ Turned(disk, disk', s)
  <2>1. CASE disk' = disk
    <3>1. Untouched(disk, disk')
      BY <2>1 DEF Untouched
    <3> QED BY <2>1, <3>1, BaseFacts, UntouchedIsMild DEF Turned, Untouched
  <2>2. CASE HasTerminal(disk, u) /\ disk' = Final(FailPostTerminal(disk, u))
    BY <1>2, <2>2, BaseFacts, PostTerminalEffect DEF Turned, HasTerminal, Open
  <2> QED BY <1>3, <2>1, <2>2
<1>11. DaemonInv(s)'
  BY <1>1, <1>3, <1>6, <1>7, <1>9, <1>10 DEF DaemonInv, Kept
<1>12. cli' \in SUBSET Subjects
  BY <1>3, BaseFacts
<1> QED BY <1>3, <1>7, <1>8, <1>9, <1>10, <1>11, <1>12, DoneStep

\* The loop at another place, with the same tasks.
LEMMA PlacedFacts ==
  ASSUME NEW s \in Subjects, daemon[s] \in Daemon
  PROVE  /\ [daemon[s] EXCEPT !.at = "failing"] \in Daemon
         /\ [daemon[s] EXCEPT !.at = "failing"].at = "failing"
         /\ [daemon[s] EXCEPT !.at = "failing"].todo = daemon[s].todo
         /\ [daemon[s] EXCEPT !.at = "launch"] \in Daemon
         /\ [daemon[s] EXCEPT !.at = "launch"].at = "launch"
         /\ [daemon[s] EXCEPT !.at = "launch"].todo = daemon[s].todo
<1> DEFINE r == daemon[s]
<1>1. r \in Daemon
  OBVIOUS
<1> HIDE DEF r
<1>2. [r EXCEPT !.at = "failing"] \in Daemon /\ [r EXCEPT !.at = "launch"] \in Daemon
  BY <1>1 DEF Daemon
<1>3. /\ [r EXCEPT !.at = "failing"].at = "failing"
      /\ [r EXCEPT !.at = "failing"].todo = r.todo
      /\ [r EXCEPT !.at = "launch"].at = "launch"
      /\ [r EXCEPT !.at = "launch"].todo = r.todo
  BY <1>1 DEF Daemon
<1> QED BY <1>2, <1>3 DEF r

LEMMA ClaimStep ==
  ASSUME CanaryBase, NEW s \in Subjects, Claim(s)
  PROVE  Step(s)
<1> DEFINE u == First(daemon[s].todo)
           ws == Admit(disk, u)
           f == [daemon[s] EXCEPT !.at = "failing"]
           l == [daemon[s] EXCEPT !.at = "launch"]
           d == [daemon[s] EXCEPT !.at = IF Final(ws).lease[u] = "claimed"
                                         THEN "launch" ELSE "failing"]
<1>1. /\ daemon[s].at = "submit" /\ daemon[s] \in Daemon
      /\ ~ disk.failures[s].unread /\ DaemonInv(s) /\ DiskInv(disk, s)
      /\ daemon[s].todo \subseteq Of(s) /\ daemon[s].todo # {}
      /\ Settled(disk, s) \/ disk.failures[s].last \notin daemon[s].todo
  BY BaseFacts DEF Claim, DaemonInv
<1>2. u \in daemon[s].todo /\ u \in Units /\ SubjectOf[u] = s
  BY <1>1, AfterTaskFacts, TaskFacts
<1>3. /\ f \in Daemon /\ f.at = "failing" /\ f.todo = daemon[s].todo
      /\ l \in Daemon /\ l.at = "launch" /\ l.todo = daemon[s].todo
  BY <1>1, PlacedFacts
<1>4. d \in {f, l}
  OBVIOUS
<1>5. \/ Moves(s, f)
      \/ /\ Admissible(disk, u)
         /\ \/ /\ disk' = Final(ws) /\ Goes(s, d) /\ thread' = thread /\ faults' = faults
               /\ Remembers(reopened) /\ cli' = cli /\ torn' = torn
            \/ Torn(s, ws, reopened) /\ Dies(s)
  BY DEF Claim, Does
<1>6. ASSUME Moves(s, f) PROVE Step(s)
  <2>1. daemon'[s] = f /\ disk' = disk
    BY <1>3, <1>6, BaseFacts, GoesFacts DEF Moves
  <2>2. DaemonInv(s)'
    BY <1>1, <1>3, <2>1 DEF DaemonInv, Settled
  <2> QED BY <1>3, <1>6, <2>2, MovesStep
<1>7. ASSUME Admissible(disk, u) PROVE
        /\ Len(ws) \in Nat \ {0} /\ Final(ws) = ws[Len(ws)]
        /\ \A i \in 1..Len(ws) : /\ ws[i] \in Disk /\ Safe(ws[i])
                                 /\ Kept(disk, ws[i], s) /\ Turned(disk, ws[i], s)
  <2>1. disk.failures[s].last # u \/ disk.gate[s].notice = "acked"
    BY <1>1, <1>2, TaskFacts DEF Settled, DiskInv
  <2>2. /\ Len(ws) \in {2, 4} /\ Final(ws) = ws[Len(ws)]
        /\ \A i \in 1..Len(ws) :
             /\ ws[i] \in Disk /\ Safe(ws[i]) /\ Kept(disk, ws[i], s)
             /\ IF i = 1 THEN Mild(disk, ws[i], s) ELSE Grants(disk, ws[i], s, u)
    <3>1. disk \in Disk /\ Safe(disk)
      BY BaseFacts
    <3>2. \/ disk.failures[SubjectOf[u]].last # u
          \/ disk.gate[SubjectOf[u]].notice = "acked"
      BY <1>2, <2>1
    <3> HIDE DEF u
    <3> QED BY <1>2, <1>7, <3>1, <3>2, AdmitEffect
  <2>3. Readable(disk, s)
    BY <1>2, <1>7 DEF Admissible, Open
  <2> HIDE DEF ws, u
  <2>4. \A i \in 1..Len(ws) : Turned(disk, ws[i], s)
    BY <1>1, <1>2, <2>2, <2>3 DEF Turned
  <2> QED BY <2>2, <2>4
<1> HIDE DEF d, f, l, u, ws
<1>8. ASSUME Admissible(disk, u), Torn(s, ws, reopened), Dies(s) PROVE Step(s)
  BY <1>7, <1>8, TornStep
<1>9. ASSUME Admissible(disk, u), disk' = Final(ws), Goes(s, d), thread' = thread,
             faults' = faults, Remembers(reopened), cli' = cli, torn' = torn
      PROVE  Step(s)
  <2>1. Len(ws) \in 1..Len(ws)
    BY <1>7, <1>9
  <2>2. /\ disk' \in Disk /\ Safe(disk') /\ Kept(disk, disk', s) /\ Turned(disk, disk', s)
    BY <1>7, <1>9, <2>1
  <2>3. d \in Daemon /\ d.at \in {"failing", "launch"} /\ d.todo = daemon[s].todo
    BY <1>3, <1>4
  <2>4. /\ daemon' \in [Subjects -> Daemon] /\ daemon'[s] = d
        /\ \A t \in Subjects \ {s} : daemon'[t] = daemon[t]
    BY <1>9, <2>3, BaseFacts, GoesFacts
  <2>5. /\ ~ disk'.failures[s].unread
        /\ Settled(disk', s) \/ disk'.failures[s].last \notin daemon[s].todo
    BY <1>1, <2>2 DEF Kept
  <2>6. DaemonInv(s)'
    BY <1>1, <2>3, <2>4, <2>5 DEF DaemonInv, Settled
  <2>7. cli' \in SUBSET Subjects /\ faults' \in 0..Faults /\ thread' \in [Units -> ThreadStates]
    BY <1>9, BaseFacts
  <2> QED BY <1>9, <2>2, <2>4, <2>6, <2>7, DoneStep
<1> QED BY <1>5, <1>6, <1>8, <1>9

LEMMA LaunchStep ==
  ASSUME CanaryBase, NEW s \in Subjects, Launch(s)
  PROVE  Step(s)
<1> DEFINE u == First(daemon[s].todo)
           n == AfterTask(s)
           f == [daemon[s] EXCEPT !.at = "failing"]
<1>1. /\ daemon[s].at = "launch" /\ daemon[s] \in Daemon
      /\ ~ disk.failures[s].unread
      /\ daemon[s].todo \subseteq Of(s) /\ daemon[s].todo # {}
      /\ Settled(disk, s) \/ disk.failures[s].last \notin daemon[s].todo
  BY BaseFacts DEF Launch, DaemonInv
<1>2. /\ u \in Units /\ SubjectOf[u] = s /\ n \in Daemon /\ n.todo \subseteq Of(s)
      /\ n.todo \subseteq daemon[s].todo
      /\ \/ n.at = "idle" /\ n.todo = {}
         \/ n.at = "submit" /\ n.todo # {}
  BY <1>1, AfterTaskFacts, TaskFacts
<1>3. f \in Daemon /\ f.at = "failing" /\ f.todo = daemon[s].todo
  BY <1>1, PlacedFacts
<1>4. /\ Goes(s, n) \/ Goes(s, f)
      /\ \/ thread' = thread \/ thread' = [thread EXCEPT ![u] = "starting"]
         \/ thread' = [thread EXCEPT ![u] = "refused"]
      /\ disk' = disk \/ disk' = [disk EXCEPT !.lease[u] = "retry_wait"]
      /\ faults' \in 0..Faults /\ cli' = cli /\ torn' = torn /\ reopened' = reopened
  BY BaseFacts DEF Launch, Faulty
<1>5. PICK d \in {n, f} : Goes(s, d)
  BY <1>4
<1> HIDE DEF u, n, f
<1>6. /\ d \in Daemon /\ d.todo \subseteq Of(s) /\ d.todo \subseteq daemon[s].todo
      /\ d.at \in {"idle", "submit", "failing"}
      /\ d.at # "idle" => d.todo # {}
  BY <1>1, <1>2, <1>3, <1>5
<1>7. /\ daemon' \in [Subjects -> Daemon] /\ daemon'[s] = d
      /\ \A t \in Subjects \ {s} : daemon'[t] = daemon[t]
  BY <1>5, <1>6, BaseFacts, GoesFacts
<1>8. disk' \in Disk /\ Untouched(disk, disk')
  <2>1. CASE disk' = disk
    BY <2>1, BaseFacts DEF Untouched
  <2>2. CASE disk' = [disk EXCEPT !.lease[u] = "retry_wait"]
    BY <1>2, <2>2, BaseFacts, LeaseWrite DEF Untouched, LeaseStates
  <2> QED BY <1>4, <2>1, <2>2
<1>9. /\ thread' \in [Units -> ThreadStates]
      /\ \A v \in Units : SubjectOf[v] # s => thread'[v] = thread[v]
  <2>1. "starting" \in ThreadStates /\ "refused" \in ThreadStates
    BY DEF ThreadStates
  <2> QED BY <1>2, <1>4, <2>1, BaseFacts
<1>10. DaemonInv(s)'
  <2>1. disk'.failures = disk.failures /\ disk'.gate = disk.gate
    BY <1>8 DEF Untouched
  <2> QED BY <1>1, <1>6, <1>7, <2>1 DEF DaemonInv, Settled
<1> QED BY <1>4, <1>7, <1>8, <1>9, <1>10, BaseFacts, QuietStep

-----------------------------------------------------------------------------
(* The steps of the threads and of the operator.                           *)

LEMMA BecomesFacts ==
  ASSUME thread \in [Units -> ThreadStates], NEW u \in Units, NEW to \in ThreadStates,
         Becomes(u, to)
  PROVE  /\ thread' \in [Units -> ThreadStates] /\ thread'[u] = to
         /\ \A v \in Units : v # u => thread'[v] = thread[v]
  BY DEF Becomes

\* An operation of a thread that has not handed over its handle.
LEMMA ThreadStepDone ==
  ASSUME CanaryBase, NEW u \in Units, NEW to \in ThreadStates, Becomes(u, to),
         thread[u] # "done", disk' \in Disk, Safe(disk'),
         Kept(disk, disk', SubjectOf[u]), Turned(disk, disk', SubjectOf[u]),
         Remembers(reopened) \/ reopened' = reopened,
         daemon' = daemon, cli' = cli, torn' = torn, faults' \in 0..Faults
  PROVE  Step(SubjectOf[u])
<1> DEFINE s == SubjectOf[u]
<1>1. s \in Subjects
  BY TaskFacts
<1>2. /\ thread' \in [Units -> ThreadStates]
      /\ \A v \in Units : v # u => thread'[v] = thread[v]
  BY <1>1, BaseFacts, BecomesFacts
<1>3. /\ \A v \in Units : SubjectOf[v] # s => thread'[v] = thread[v]
      /\ \A v \in Of(s) : thread[v] = "done" => thread'[v] = "done"
  BY <1>1, <1>2, TaskFacts
<1> HIDE DEF s
<1>4. DaemonInv(s)'
  BY <1>1, <1>3, KeptKeeps DEF s
<1>5. /\ cli' \in SUBSET Subjects /\ daemon' \in [Subjects -> Daemon]
      /\ \A t \in Subjects \ {s} : daemon'[t] = daemon[t]
  BY <1>1, BaseFacts
<1>6. Step(s)
  BY <1>1, <1>2, <1>3, <1>4, <1>5, DoneStep DEF s
<1> QED BY <1>6 DEF s

LEMMA RegisterStep ==
  ASSUME CanaryBase, NEW u \in Units, Register(u)
  PROVE  Step(SubjectOf[u])
<1> DEFINE s == SubjectOf[u]
           ws == Identify(disk, u)
<1>1. s \in Subjects /\ thread[u] = "starting"
  BY TaskFacts DEF Register
<1>2. \/ /\ Open(disk, s) /\ u \in disk.gate[s].active
         /\ \/ /\ disk' = Final(ws) /\ Becomes(u, "running") /\ daemon' = daemon
               /\ faults' = faults /\ Remembers(reopened) /\ cli' = cli /\ torn' = torn
            \/ Torn(s, ws, reopened) /\ Dies(s)
      \/ /\ Becomes(u, "failed") /\ disk' = disk /\ daemon' = daemon /\ cli' = cli
         /\ faults' = faults /\ torn' = torn /\ reopened' = reopened
  BY DEF Register, Does
<1>3. "running" \in ThreadStates /\ "failed" \in ThreadStates
  BY DEF ThreadStates
<1>4. ASSUME Becomes(u, "failed"), disk' = disk, daemon' = daemon, cli' = cli,
             faults' = faults, torn' = torn, reopened' = reopened
      PROVE  Step(s)
  <2>1. /\ disk' \in Disk /\ Safe(disk') /\ Kept(disk, disk', s) /\ Turned(disk, disk', s)
        /\ faults' \in 0..Faults
    <3>1. Untouched(disk, disk')
      BY <1>4 DEF Untouched
    <3> QED BY <1>1, <1>4, <3>1, BaseFacts, UntouchedIsMild DEF Turned, Untouched
  <2> QED BY <1>1, <1>3, <1>4, <2>1, ThreadStepDone
<1>5. ASSUME Open(disk, s), u \in disk.gate[s].active
      PROVE  /\ Len(ws) = 2 /\ Final(ws) = ws[2]
             /\ \A i \in 1..2 : /\ ws[i] \in Disk /\ Safe(ws[i])
                                /\ Kept(disk, ws[i], s) /\ Turned(disk, ws[i], s)
  BY <1>1, <1>5, BaseFacts, IdentifyEffect DEF Turned, Open
<1> HIDE DEF ws
<1>6. ASSUME Open(disk, s), u \in disk.gate[s].active, Torn(s, ws, reopened), Dies(s)
      PROVE  Step(s)
  <2>1. Len(ws) \in Nat /\ \A i \in 1..Len(ws) :
                             ws[i] \in Disk /\ Safe(ws[i]) /\ Turned(disk, ws[i], s)
    BY <1>5, <1>6
  <2> QED BY <1>1, <1>6, <2>1, TornStep
<1>7. ASSUME Open(disk, s), u \in disk.gate[s].active, disk' = Final(ws),
             Becomes(u, "running"), daemon' = daemon, faults' = faults,
             Remembers(reopened), cli' = cli, torn' = torn
      PROVE  Step(s)
  <2>1. /\ disk' \in Disk /\ Safe(disk') /\ Kept(disk, disk', s) /\ Turned(disk, disk', s)
        /\ faults' \in 0..Faults
    BY <1>1, <1>5, <1>7, BaseFacts
  <2> QED BY <1>1, <1>3, <1>7, <2>1, ThreadStepDone
<1> QED BY <1>2, <1>4, <1>6, <1>7

LEMMA WorkerEndsStep ==
  ASSUME CanaryBase, NEW u \in Units, WorkerEnds(u)
  PROVE  Step(SubjectOf[u])
<1> DEFINE s == SubjectOf[u]
<1>1. s \in Subjects /\ thread[u] = "running" /\ disk \in Disk /\ Safe(disk)
      /\ faults \in 0..Faults
  BY TaskFacts, BaseFacts DEF WorkerEnds
<1>2. /\ disk' = disk \/ disk' = [disk EXCEPT !.lease[u] = "completed"]
      /\ faults' \in 0..Faults
      /\ daemon' = daemon /\ cli' = cli /\ torn' = torn /\ reopened' = reopened
      /\ \E how \in {"succeeded", "failed", "closing", "unevidenced"} : Becomes(u, how)
  BY <1>1 DEF WorkerEnds
<1>3. PICK how \in ThreadStates : Becomes(u, how)
  BY <1>2 DEF ThreadStates
<1>4. disk' \in Disk /\ Untouched(disk, disk')
  <2>1. CASE disk' = disk
    BY <1>1, <2>1 DEF Untouched
  <2>2. CASE disk' = [disk EXCEPT !.lease[u] = "completed"]
    BY <1>1, <2>2, LeaseWrite DEF Untouched, LeaseStates
  <2> QED BY <1>2, <2>1, <2>2
<1>5. Safe(disk') /\ Kept(disk, disk', s) /\ Turned(disk, disk', s)
  BY <1>1, <1>4, UntouchedIsMild DEF Turned, Untouched, Safe
<1> QED BY <1>1, <1>2, <1>3, <1>4, <1>5, ThreadStepDone

\* What the end of a task writes, as a step.
LEMMA FinishTurns ==
  ASSUME CanaryBase, NEW u \in Units, NEW how, Bound(disk, u)
  PROVE  LET ws == Finish(disk, u, how)
             s == SubjectOf[u]
         IN /\ Len(ws) \in Nat
            /\ \A i \in 1..Len(ws) : ws[i] \in Disk /\ Safe(ws[i]) /\ Turned(disk, ws[i], s)
            /\ Final(ws) \in Disk /\ Safe(Final(ws)) /\ Kept(disk, Final(ws), s)
            /\ Turned(disk, Final(ws), s)
<1> DEFINE s == SubjectOf[u]
           ws == Finish(disk, u, how)
<1>1. s \in Subjects /\ disk \in Disk /\ Safe(disk) /\ Readable(disk, s)
  BY TaskFacts, BaseFacts DEF Bound, Open
<1>2. /\ Len(ws) = 3 /\ Final(ws) = ws[3]
      /\ \A i \in 1..3 :
           /\ ws[i] \in Disk /\ Safe(ws[i]) /\ Kept(disk, ws[i], s)
           /\ \/ Mild(disk, ws[i], s) \/ LetsGo(disk, ws[i], s, u)
              \/ Proves(disk, ws[i], s, u)
  BY <1>1, FinishEffect
<1> HIDE DEF ws
<1>3. \A i \in 1..3 : Turned(disk, ws[i], s)
  BY <1>1, <1>2 DEF Turned
<1>4. 3 \in 1..3
  OBVIOUS
<1> QED BY <1>2, <1>3, <1>4 DEF ws

LEMMA FinishTaskStep ==
  ASSUME CanaryBase, NEW u \in Units, FinishTask(u) \/ FailClosed(u)
  PROVE  Step(SubjectOf[u])
<1> DEFINE s == SubjectOf[u]
<1>1. s \in Subjects /\ disk \in Disk /\ Safe(disk) /\ faults \in 0..Faults
      /\ thread[u] # "done"
  BY TaskFacts, BaseFacts DEF FinishTask, FailClosed
<1>2. \/ \E how \in {"succeeded", "unevidenced", "failed"} :
           /\ Bound(disk, u)
           /\ \/ /\ disk' = Final(Finish(disk, u, how)) /\ daemon' = daemon
                 /\ Becomes(u, "done") \/ Becomes(u, "closing")
                 /\ faults' = faults /\ Remembers(reopened) /\ cli' = cli /\ torn' = torn
              \/ Torn(s, Finish(disk, u, how), reopened) /\ Dies(s)
      \/ /\ Becomes(u, "done") \/ Becomes(u, "closing")
         /\ disk' = disk /\ daemon' = daemon /\ cli' = cli
         /\ faults' = faults /\ torn' = torn /\ reopened' = reopened
  <2>1. CASE FinishTask(u)
    BY <2>1, Zenon DEF FinishTask, Does
  <2>2. CASE FailClosed(u)
    BY <2>2 DEF FailClosed, Does
  <2> QED BY <2>1, <2>2
<1>3. Becomes(u, "done") \/ Becomes(u, "closing")
        => \E to \in ThreadStates : Becomes(u, to)
  BY DEF ThreadStates
<1>4. ASSUME Becomes(u, "done") \/ Becomes(u, "closing"), disk' = disk,
             daemon' = daemon, cli' = cli,
             faults' = faults, torn' = torn, reopened' = reopened
      PROVE  Step(s)
  <2>1. Safe(disk') /\ Kept(disk, disk', s) /\ Turned(disk, disk', s)
    <3>1. Untouched(disk, disk')
      BY <1>4 DEF Untouched
    <3> QED BY <1>1, <1>4, <3>1, UntouchedIsMild DEF Turned, Untouched
  <2> QED BY <1>1, <1>3, <1>4, <2>1, ThreadStepDone
<1>5. ASSUME NEW how \in {"succeeded", "unevidenced", "failed"}, Bound(disk, u),
             Torn(s, Finish(disk, u, how), reopened), Dies(s)
      PROVE  Step(s)
  BY <1>1, <1>5, FinishTurns, TornStep
<1>6. ASSUME NEW how \in {"succeeded", "unevidenced", "failed"}, Bound(disk, u),
             disk' = Final(Finish(disk, u, how)), daemon' = daemon,
             Becomes(u, "done") \/ Becomes(u, "closing"),
             faults' = faults, Remembers(reopened), cli' = cli, torn' = torn
      PROVE  Step(s)
  <2>1. /\ disk' \in Disk /\ Safe(disk') /\ Kept(disk, disk', s)
        /\ Turned(disk, disk', s)
    BY <1>6, FinishTurns
  <2> QED BY <1>1, <1>3, <1>6, <2>1, ThreadStepDone
<1> QED BY <1>2, <1>4, <1>5, <1>6

\* An operation of a command, carried out or cut.
LEMMA CommandStep ==
  ASSUME CanaryBase, NEW s \in Subjects, NEW opened \in {reopened, reopened \cup {s}},
         NEW ws, Len(ws) \in Nat \ {0},
         \A i \in 1..Len(ws) :
           /\ ws[i] \in Disk /\ Safe(ws[i]) /\ Kept(disk, ws[i], s)
           /\ Turned(disk, ws[i], s) \/ (Opened(disk, ws[i], s) /\ s \in opened),
         \/ /\ disk' = ws[Len(ws)] /\ Remembers(opened) /\ torn' = torn
            /\ faults' = faults /\ cli' \in SUBSET Subjects
         \/ Torn(s, ws, opened),
         thread' = thread, daemon' = daemon
  PROVE  Step(s)
<1>1. /\ cli \subseteq Subjects /\ faults \in 0..Faults /\ torn \subseteq Subjects
      /\ daemon' \in [Subjects -> Daemon] /\ thread' \in [Units -> ThreadStates]
      /\ reopened \subseteq Subjects
  BY BaseFacts
<1>2. /\ Remembers(opened) /\ cli' \subseteq Subjects /\ faults' \in 0..Faults
      /\ torn \subseteq torn' /\ torn' \subseteq Subjects
  BY <1>1 DEF Torn, Faulty
<1>3. PICK i \in 1..Len(ws) : disk' = ws[i]
  <2>1. CASE Torn(s, ws, opened)
    BY <2>1 DEF Torn
  <2>2. CASE ~ Torn(s, ws, opened)
    BY <2>2
  <2> QED BY <2>1, <2>2
<1>4. /\ disk' \in Disk /\ Safe(disk') /\ Kept(disk, disk', s)
      /\ Turned(disk, disk', s) \/ (Opened(disk, disk', s) /\ s \in opened)
  BY <1>3
<1>5. /\ opened \in SUBSET Subjects /\ reopened \subseteq opened
  BY <1>1
<1>6. /\ reopened' \subseteq Subjects
      /\ \A t \in opened : disk'.gate[t].state # "failed" /\ ~ disk'.failures[t].unread
                             => t \in reopened'
  BY <1>2, <1>5, RemembersFacts
<1>7. Turns(s)
  BY <1>4, <1>6 DEF Turns, Opened, OpenStates
<1>8. Elsewhere(disk, disk', s)
  BY <1>4, TurnsIsElsewhere DEF Opened
<1>9. DaemonInv(s)'
  BY <1>2, <1>4, KeptKeeps
<1>10. CanaryTypeOK'
  BY <1>1, <1>2, <1>4, <1>6 DEF CanaryTypeOK
<1>11. OnlyOf(s)
  BY <1>2, <1>4, <1>5, <1>6, <1>8 DEF OnlyOf
<1> QED BY <1>7, <1>9, <1>10, <1>11 DEF Step

LEMMA InspectStep ==
  ASSUME CanaryBase, NEW s \in Subjects, Inspect(s)
  PROVE  Step(s)
<1> DEFINE ws == Reconcile(disk, s)
<1>1. /\ Open(disk, s) /\ thread' = thread /\ daemon' = daemon
      /\ \/ /\ disk' = Final(ws) /\ Remembers(reopened) /\ torn' = torn
            /\ faults' = faults /\ cli' \in {cli \ {s}, cli \cup {s}}
         \/ Torn(s, ws, reopened)
  BY DEF Inspect
<1>2. cli' \in {cli \ {s}, cli \cup {s}} => cli' \in SUBSET Subjects
  BY BaseFacts
<1>3. /\ Len(ws) \in Nat \ {0} /\ Final(ws) = ws[Len(ws)]
      /\ \A i \in 1..Len(ws) :
           /\ ws[i] \in Disk /\ Safe(ws[i]) /\ Kept(disk, ws[i], s)
           /\ Turned(disk, ws[i], s)
  BY <1>1, BaseFacts, ReconcileTurns, ReconcileWrites DEF Final
<1> HIDE DEF ws
<1> QED BY <1>1, <1>2, <1>3, CommandStep

LEMMA ActivateStep ==
  ASSUME CanaryBase, NEW s \in Subjects, Activate(s)
  PROVE  Step(s)
<1> DEFINE opened == reopened \cup {s}
           ws == Rewritten([disk EXCEPT !.failures[s] = NoFailure], s,
                   [NoGate EXCEPT !.state = "armed", !.act = disk.gate[s].act + 1])
<1>1. /\ disk.gate[s].act < Activations /\ Readable(disk, s)
      /\ disk.gate[s].state \in {"absent", "inactive"}
      /\ thread' = thread /\ daemon' = daemon
      /\ \/ /\ disk' = Final(ws) /\ Remembers(opened) /\ torn' = torn
            /\ faults' = faults /\ cli' = cli \ {s}
         \/ Torn(s, ws, opened)
  BY DEF Activate, Commands
<1>2. cli' = cli \ {s} => cli' \in SUBSET Subjects
  BY BaseFacts
<1>3. /\ Len(ws) = 2 /\ Final(ws) = ws[2]
      /\ \A i \in 1..2 :
           /\ ws[i] \in Disk /\ Safe(ws[i]) /\ Kept(disk, ws[i], s)
           /\ Opened(disk, ws[i], s)
  BY <1>1, BaseFacts, ActivateEffect
<1> HIDE DEF ws
<1>4. /\ Len(ws) \in Nat \ {0} /\ Final(ws) = ws[Len(ws)]
      /\ \A i \in 1..Len(ws) :
           /\ ws[i] \in Disk /\ Safe(ws[i]) /\ Kept(disk, ws[i], s)
           /\ Opened(disk, ws[i], s)
  BY <1>3
<1>5. s \in opened /\ opened \in {reopened, reopened \cup {s}}
  OBVIOUS
<1> HIDE DEF opened
<1> QED BY <1>1, <1>2, <1>4, <1>5, CommandStep

LEMMA ResumeStep ==
  ASSUME CanaryBase, NEW s \in Subjects, Resume(s)
  PROVE  Step(s)
<1> DEFINE opened == reopened \cup {s}
           ws == Rewritten(disk, s, ResumedGate(disk, s))
<1>1. /\ Readable(disk, s) /\ disk.gate[s].active = {}
      /\ disk.gate[s].state \in {"failed", "paused"}
      /\ thread' = thread /\ daemon' = daemon
      /\ \/ /\ disk' = Final(ws) /\ Remembers(opened) /\ torn' = torn
            /\ faults' = faults /\ cli' = cli \ {s}
         \/ Torn(s, ws, opened)
  BY DEF Resume, Commands, ResumedGate, Open
<1>2. cli' = cli \ {s} => cli' \in SUBSET Subjects
  BY BaseFacts
<1>3. /\ Len(ws) = 2 /\ Final(ws) = ws[2]
      /\ \A i \in 1..2 :
           /\ ws[i] \in Disk /\ Safe(ws[i]) /\ Kept(disk, ws[i], s)
           /\ Opened(disk, ws[i], s)
  BY <1>1, BaseFacts, ResumeEffect
<1> HIDE DEF ws
<1>4. /\ Len(ws) \in Nat \ {0} /\ Final(ws) = ws[Len(ws)]
      /\ \A i \in 1..Len(ws) :
           /\ ws[i] \in Disk /\ Safe(ws[i]) /\ Kept(disk, ws[i], s)
           /\ Opened(disk, ws[i], s)
  BY <1>3
<1>5. s \in opened /\ opened \in {reopened, reopened \cup {s}}
  OBVIOUS
<1> HIDE DEF opened
<1> QED BY <1>1, <1>2, <1>4, <1>5, CommandStep

RetiredGate(d, s) ==
  [d.gate[s] EXCEPT !.state = "inactive", !.retired = TRUE, !.pressed = FALSE]
PausedGate(d, s) == [d.gate[s] EXCEPT !.state = "paused", !.pressed = FALSE]

\* A command that shuts a gate without slots.
LEMMA ShutEffect ==
  ASSUME NEW d \in Disk, NEW s \in Subjects, Safe(d),
         NEW h \in {RetiredGate(d, s), PausedGate(d, s)}
  PROVE  LET ws == Rewritten(d, s, h)
         IN /\ Len(ws) = 2 /\ Final(ws) = ws[2]
            /\ \A i \in 1..2 :
                 /\ ws[i] \in Disk /\ Safe(ws[i]) /\ Kept(d, ws[i], s)
                 /\ Mild(d, ws[i], s) /\ ws[i].gate[s] = h
                 /\ ws[i].failures = d.failures /\ ws[i].queue = d.queue
<1> DEFINE g == d.gate[s]
           ws == Rewritten(d, s, h)
<1>1. g \in Gate
  BY DiskParts
<1>2. /\ h \in Gate /\ h.state \in {"inactive", "paused"} /\ h.active = g.active
      /\ h.named = g.named /\ h.act = g.act /\ h.notice = g.notice
      /\ h.unlocked = g.unlocked
  <2>1. h = [g EXCEPT !.state = "inactive", !.retired = TRUE, !.pressed = FALSE]
        \/ h = [g EXCEPT !.state = "paused", !.pressed = FALSE]
    BY DEF RetiredGate, PausedGate
  <2> HIDE DEF g
  <2>2. CASE h = [g EXCEPT !.state = "inactive", !.retired = TRUE, !.pressed = FALSE]
    BY <1>1, <2>2 DEF Gate, GateStates
  <2>3. CASE h = [g EXCEPT !.state = "paused", !.pressed = FALSE]
    BY <1>1, <2>3 DEF Gate, GateStates
  <2> QED BY <2>1, <2>2, <2>3
<1>3. /\ Len(ws) = 2 /\ Final(ws) = ws[2]
      /\ \A i \in 1..2 : ws[i] \in Disk /\ Gates(d, ws[i], s, h, d.queue)
  <2>1. \A i \in 1..2 : i = 1 \/ i = 2
    OBVIOUS
  <2> QED BY <1>2, <2>1, RewrittenWrites
<1> HIDE DEF ws
<1>4. ASSUME NEW w \in Disk, Gates(d, w, s, h, d.queue)
      PROVE  /\ Safe(w) /\ Kept(d, w, s) /\ Mild(d, w, s) /\ w.gate[s] = h
             /\ w.failures = d.failures /\ w.queue = d.queue
  <2>1. h.state # "absent" /\ h.state # "unlocked" /\ h.state \notin OpenStates
    BY <1>2 DEF OpenStates
  <2> QED BY <1>2, <1>4, <2>1, RewriteEffect
<1> QED BY <1>3, <1>4 DEF ws

LEMMA ShutStep ==
  ASSUME CanaryBase, NEW s \in Subjects, Deactivate(s) \/ Pause(s)
  PROVE  Step(s)
<1>1. PICK h \in {RetiredGate(disk, s), PausedGate(disk, s)} :
        Open(disk, s) /\ Commands(s, Rewritten(disk, s, h), reopened)
  BY DEF Deactivate, Pause, RetiredGate, PausedGate
<1> DEFINE ws == Rewritten(disk, s, h)
<1>2. /\ thread' = thread /\ daemon' = daemon
      /\ \/ /\ disk' = Final(ws) /\ Remembers(reopened) /\ torn' = torn
            /\ faults' = faults /\ cli' = cli \ {s}
         \/ Torn(s, ws, reopened)
  BY <1>1 DEF Commands
<1>3. cli' = cli \ {s} => cli' \in SUBSET Subjects
  BY BaseFacts
<1>4. /\ Len(ws) = 2 /\ Final(ws) = ws[2]
      /\ \A i \in 1..2 : /\ ws[i] \in Disk /\ Safe(ws[i]) /\ Kept(disk, ws[i], s)
                         /\ Mild(disk, ws[i], s)
  BY BaseFacts, ShutEffect
<1> HIDE DEF ws
<1>5. \A i \in 1..2 : Turned(disk, ws[i], s)
  BY <1>1, <1>4 DEF Turned, Open
<1>6. /\ Len(ws) \in Nat \ {0} /\ Final(ws) = ws[Len(ws)]
      /\ \A i \in 1..Len(ws) :
           /\ ws[i] \in Disk /\ Safe(ws[i]) /\ Kept(disk, ws[i], s)
           /\ Turned(disk, ws[i], s)
  BY <1>4, <1>5
<1> QED BY <1>2, <1>3, <1>6, CommandStep

-----------------------------------------------------------------------------
(* The invariant, without the slots' owners.                               *)

LEMMA NextSteps ==
  ASSUME CanaryBase, CanaryNext
  PROVE  \E s \in Subjects : Step(s)
<1>1. ASSUME NEW s \in Subjects, DaemonStep(s) PROVE Step(s)
  BY <1>1, StartDaemonStep, LoopHeadStep, DeathStep, ReapStep, BeginScanStep,
     PassAbortsStep, MaterializeStep, ReadStatusStep, PressStep, SelectStep,
     ClaimStep, LaunchStep, SubmitFailsStep DEF DaemonStep
<1>2. ASSUME NEW s \in Subjects, OperatorStep(s) PROVE Step(s)
  BY <1>2, ActivateStep, ShutStep, InspectStep, ResumeStep DEF OperatorStep
<1>3. ASSUME NEW s \in Subjects, FaultStep(s) PROVE Step(s)
  BY <1>3, StopStep, DeathStep, ScanFailsStep, SelectFailsStep DEF FaultStep
<1>4. ASSUME NEW u \in Units, ThreadStep(u) PROVE Step(SubjectOf[u])
  BY <1>4, RegisterStep, WorkerEndsStep, FinishTaskStep DEF ThreadStep
<1>5. \A u \in Units : SubjectOf[u] \in Subjects
  BY TaskFacts
<1> QED BY <1>1, <1>2, <1>3, <1>4, <1>5 DEF CanaryNext

\* What a step of another subject leaves alone.
LEMMA OthersKeep ==
  ASSUME CanaryBase, NEW s \in Subjects, OnlyOf(s), NEW t \in Subjects, t # s
  PROVE  DaemonInv(t)' /\ OpenedInv(t)'
<1>1. /\ disk'.gate[t] = disk.gate[t] /\ disk'.failures[t] = disk.failures[t]
      /\ daemon'[t] = daemon[t]
      /\ torn \subseteq torn'
      /\ t \in reopened /\ disk'.gate[t].state # "failed" /\ ~ disk'.failures[t].unread
           => t \in reopened'
  BY DEF OnlyOf, Elsewhere
<1>2. \A u \in Of(t) : thread'[u] = thread[u]
  BY TaskFacts DEF OnlyOf
<1>3. DaemonInv(t) /\ OpenedInv(t)
  BY BaseFacts
<1>4. DaemonInv(t)'
  BY <1>1, <1>2, <1>3 DEF DaemonInv, Settled
<1>5. OpenedInv(t)'
  BY <1>1, <1>3 DEF OpenedInv, OpenStates
<1> QED BY <1>4, <1>5

\* A gate that has opened or stays open was opened by an operator.
LEMMA TurnsKeepsOpened ==
  ASSUME CanaryBase, NEW s \in Subjects, OnlyOf(s), Turns(s)
  PROVE  OpenedInv(s)'
<1>1. /\ OpenedInv(s)
      /\ s \in reopened /\ disk'.gate[s].state # "failed" /\ ~ disk'.failures[s].unread
           => s \in reopened'
  BY BaseFacts DEF OnlyOf
<1>2. CASE Mild(disk, disk', s)
  BY <1>1, <1>2 DEF Mild, OpenedInv, OpenStates
<1>3. ASSUME NEW k, LetsGo(disk, disk', s, k) PROVE OpenedInv(s)'
  BY <1>3 DEF LetsGo, OpenedInv, OpenStates
<1>4. ASSUME NEW u, Grants(disk, disk', s, u) \/ Proves(disk, disk', s, u)
      PROVE  OpenedInv(s)'
  BY <1>1, <1>4 DEF Grants, Proves, OpenedInv, OpenStates
<1>5. CASE ~ disk'.failures[s].unread => s \in reopened'
  BY <1>5 DEF OpenedInv
<1> QED BY <1>2, <1>3, <1>4, <1>5 DEF Turns, Turned

LEMMA StepKeepsBase ==
  ASSUME CanaryBase, NEW s \in Subjects, Step(s)
  PROVE  CanaryBase'
<1>1. CanaryTypeOK' /\ OnlyOf(s) /\ DaemonInv(s)' /\ OpenedInv(s)'
  BY TurnsKeepsOpened DEF Step
<1>2. \A t \in Subjects : DiskInv(disk', t)
  BY <1>1 DEF OnlyOf, Safe
<1>3. \A t \in Subjects \ {s} : DaemonInv(t)' /\ OpenedInv(t)'
  BY <1>1, OthersKeep
<1>4. \A t \in Subjects : DaemonInv(t)' /\ OpenedInv(t)'
  BY <1>1, <1>3
<1> QED BY <1>1, <1>2, <1>4 DEF CanaryBase

LEMMA InitBase == CanaryInit => CanaryBase
<1> SUFFICES ASSUME CanaryInit PROVE CanaryBase
  OBVIOUS
<1>1. NoGate \in Gate /\ NoGate.active = {} /\ NoGate.named = {} /\ NoGate.act = 0
      /\ NoGate.state = "absent"
  BY DEF NoGate, Gate, GateStates, Keys
<1>2. /\ NoFailure \in FailureIndex /\ NoFailure.keys = {} /\ NoFailure.last = Scan
      /\ NoFailure.unread = FALSE
  BY DEF NoFailure, FailureIndex, Keys
<1>3. Down \in Daemon /\ Down.at = "down" /\ Down.todo = {}
  BY DEF Down, Daemon
<1> DEFINE q == [status |-> "none", act |-> 0, named |-> FALSE]
<1>4. q \in QueueEntry /\ q.act = 0
  BY DEF QueueEntry
<1> HIDE DEF q
<1>5. disk = [gate |-> [s \in Subjects |-> NoGate], queue |-> [u \in Units |-> q],
              lease |-> [u \in Units |-> "none"],
              failures |-> [s \in Subjects |-> NoFailure],
              current |-> [s \in Subjects |-> TRUE]]
  BY DEF CanaryInit, q
<1>6. /\ disk.gate = [s \in Subjects |-> NoGate] /\ disk.queue = [u \in Units |-> q]
      /\ disk.lease = [u \in Units |-> "none"]
      /\ disk.failures = [s \in Subjects |-> NoFailure]
      /\ disk.current = [s \in Subjects |-> TRUE]
  BY <1>5
<1>7. disk \in Disk
  <2>1. /\ [s \in Subjects |-> NoGate] \in [Subjects -> Gate]
        /\ [u \in Units |-> q] \in [Units -> QueueEntry]
        /\ [u \in Units |-> "none"] \in [Units -> LeaseStates]
        /\ [s \in Subjects |-> NoFailure] \in [Subjects -> FailureIndex]
        /\ [s \in Subjects |-> TRUE] \in [Subjects -> BOOLEAN]
    BY <1>1, <1>2, <1>4 DEF LeaseStates
  <2> QED BY <1>5, <2>1 DEF Disk
<1>8. CanaryTypeOK
  BY <1>3, <1>7 DEF CanaryInit, CanaryTypeOK, ThreadStates
<1>9. ASSUME NEW s \in Subjects PROVE DiskInv(disk, s) /\ DaemonInv(s) /\ OpenedInv(s)
  <2>1. disk.gate[s] = NoGate /\ disk.failures[s] = NoFailure /\ daemon[s] = Down
    BY <1>6 DEF CanaryInit
  <2>2. \A u \in Of(s) : disk.queue[u].act = 0
    BY <1>4, <1>6, TaskFacts
  <2>3. DiskInv(disk, s)
    BY <1>1, <1>2, <2>1, <2>2 DEF DiskInv
  <2>4. DaemonInv(s)
    BY <1>2, <1>3, <2>1 DEF DaemonInv
  <2>5. OpenedInv(s)
    BY <1>1, <2>1 DEF OpenedInv, OpenStates
  <2> QED BY <2>3, <2>4, <2>5
<1> QED BY <1>8, <1>9 DEF CanaryBase

LEMMA StutterKeepsBase ==
  ASSUME CanaryBase, UNCHANGED canaryVars
  PROVE  CanaryBase'
<1>1. /\ disk' = disk /\ thread' = thread /\ daemon' = daemon /\ cli' = cli
      /\ faults' = faults /\ torn' = torn /\ reopened' = reopened
  BY DEF canaryVars
<1> QED BY <1>1 DEF CanaryBase, CanaryTypeOK, DaemonInv, OpenedInv, Settled

\* Files, loops and history keep their parts: receipts never name a task that
\* holds a slot unless they are acknowledged, a pass that admits tasks has read
\* every receipt, and an open gate was opened after the last failure.
THEOREM BaseHolds == CanarySpec => []CanaryBase
<1>1. CanaryInit => CanaryBase
  BY InitBase
<1>2. CanaryBase /\ [CanaryNext]_canaryVars => CanaryBase'
  BY NextSteps, StepKeepsBase, StutterKeepsBase
<1> QED BY <1>1, <1>2, PTL DEF CanarySpec

\* The files, the threads and the daemons always have their types.
THEOREM CanaryTypes == CanarySpec => []CanaryTypeOK
<1>1. CanaryBase => CanaryTypeOK
  BY DEF CanaryBase
<1> QED BY <1>1, BaseHolds, PTL

\* A task gets a slot only through a gate that an operator has resumed or
\* activated since the last recorded failure.
THEOREM OperatorReopens == CanarySpec => FailureNeedsOperator
<1>1. ASSUME CanaryBase, CanaryNext, NEW u \in Units,
             u \in disk'.gate[SubjectOf[u]].active, u \notin disk.gate[SubjectOf[u]].active
      PROVE  SubjectOf[u] \in reopened
  <2> DEFINE t == SubjectOf[u]
  <2>1. PICK s \in Subjects : Step(s)
    BY <1>1, NextSteps
  <2>2. t \in Subjects /\ OnlyOf(s) /\ Turns(s)
    BY <2>1, TaskFacts DEF Step
  <2>3. t = s
    BY <1>1, <2>2 DEF OnlyOf, Elsewhere
  <2>4. \E v \in Units : Grants(disk, disk', s, v) /\ ~ disk.failures[s].unread
    BY <1>1, <2>2, <2>3 DEF Turns, Turned, Mild, LetsGo, Proves, Opened
  <2>5. disk.gate[s].state \in OpenStates /\ ~ disk.failures[s].unread
    BY <2>4 DEF Grants
  <2> QED BY <1>1, <2>3, <2>5, BaseFacts DEF OpenedInv
<1>2. CanaryBase /\ [CanaryNext]_canaryVars =>
        [\A u \in Units :
           LET s == SubjectOf[u]
           IN u \in disk'.gate[s].active /\ u \notin disk.gate[s].active
                => s \in reopened]_canaryVars
  BY <1>1
<1> QED BY <1>2, BaseHolds, PTL DEF CanarySpec, FailureNeedsOperator

-----------------------------------------------------------------------------
(* The gates implement FirstTaskGate.                                      *)

Takers(d) == {s \in Subjects : Readable(d, s) /\ d.gate[s].state \in OpenStates}
Provers(d) == {s \in Subjects : d.gate[s].unlocked}
Holders(d) == [s \in Subjects |-> d.gate[s].active]

\* What belongs to the other subjects is mapped to the same.
LEMMA OthersMapped ==
  ASSUME NEW d \in Disk, NEW w \in Disk, NEW s \in Subjects, Safe(d), Elsewhere(d, w, s)
  PROVE  /\ \A t \in Subjects \ {s} : /\ t \in Takers(w) <=> t \in Takers(d)
                                      /\ t \in Provers(w) <=> t \in Provers(d)
         /\ Holders(w) = [Holders(d) EXCEPT ![s] = w.gate[s].active]
<1>1. \A t \in Subjects \ {s} : /\ Readable(w, t) <=> Readable(d, t)
                                /\ w.gate[t] = d.gate[t]
  BY ReadableElsewhere
<1>2. \A t \in Subjects \ {s} : /\ t \in Takers(w) <=> t \in Takers(d)
                                /\ t \in Provers(w) <=> t \in Provers(d)
  BY <1>1 DEF Takers, Provers
<1>3. Holders(w) = [Holders(d) EXCEPT ![s] = w.gate[s].active]
  <2>1. \A t \in Subjects : Holders(w)[t] = IF t = s THEN w.gate[s].active
                                            ELSE Holders(d)[t]
    BY <1>1 DEF Holders
  <2> QED BY <2>1 DEF Holders
<1> QED BY <1>2, <1>3

LEMMA OthersFixed ==
  ASSUME NEW d \in Disk, NEW w \in Disk, NEW s \in Subjects, Safe(d), Elsewhere(d, w, s)
  PROVE  /\ (s \in Takers(w) <=> s \in Takers(d)) => Takers(w) = Takers(d)
         /\ s \notin Takers(w) => Takers(w) = Takers(d) \ {s}
         /\ s \in Takers(w) => Takers(w) = Takers(d) \cup {s}
         /\ (s \in Provers(w) <=> s \in Provers(d)) => Provers(w) = Provers(d)
         /\ s \notin Provers(w) => Provers(w) = Provers(d) \ {s}
         /\ s \in Provers(w) => Provers(w) = Provers(d) \cup {s}
         /\ w.gate[s].active = d.gate[s].active => Holders(w) = Holders(d)
<1>1. /\ \A t \in Subjects \ {s} : /\ t \in Takers(w) <=> t \in Takers(d)
                                   /\ t \in Provers(w) <=> t \in Provers(d)
      /\ Holders(w) = [Holders(d) EXCEPT ![s] = w.gate[s].active]
  BY OthersMapped
<1>2. Takers(w) \subseteq Subjects /\ Takers(d) \subseteq Subjects
      /\ Provers(w) \subseteq Subjects /\ Provers(d) \subseteq Subjects
  BY DEF Takers, Provers
<1>3. ASSUME w.gate[s].active = d.gate[s].active PROVE Holders(w) = Holders(d)
  <2>1. Holders(d) = [t \in Subjects |-> Holders(d)[t]] /\ Holders(d)[s] = d.gate[s].active
    BY DEF Holders
  <2> HIDE DEF Holders
  <2> QED BY <1>1, <1>3, <2>1
<1> QED BY <1>1, <1>2, <1>3

\* The abstract gate counts as this one does.
LEMMA SameCount == \A us : Abstract!Cardinality(us) = Cardinality(us)
  BY DEF Abstract!Cardinality, Cardinality

\* Every way to turn a gate is an action of the abstract gate, or none.
LEMMA TurnsImplement ==
  ASSUME CanaryBase, NEW s \in Subjects, Step(s)
  PROVE  Abstract!GateNext \/ UNCHANGED <<Takers(disk), Provers(disk), Holders(disk)>>
<1> DEFINE d == disk
           w == disk'
<1>1. d \in Disk /\ w \in Disk /\ Safe(d) /\ DiskInv(d, s) /\ OnlyOf(s) /\ Turns(s)
      /\ Elsewhere(d, w, s)
  BY BaseFacts DEF Step, OnlyOf, CanaryTypeOK
<1>2. /\ Takers(d) = {t \in Subjects : /\ Readable(disk, t)
                        /\ disk.gate[t].state \in {"armed", "in_flight", "unlocked"}}
      /\ Takers(w) = {t \in Subjects : /\ Readable(disk', t)
                        /\ disk'.gate[t].state \in {"armed", "in_flight", "unlocked"}}
  BY DEF Takers, OpenStates
<1>3. d.gate[s].active \in SUBSET Units /\ w.gate[s].active \in SUBSET Units
  BY <1>1, DiskParts DEF Gate
<1>4. /\ Holders(d)[s] = d.gate[s].active
      /\ Holders(w) = [Holders(d) EXCEPT ![s] = w.gate[s].active]
  BY <1>1, OthersMapped DEF Holders
<1>5. /\ s \in Takers(d) <=> Readable(d, s) /\ d.gate[s].state \in OpenStates
      /\ s \in Takers(w) <=> Readable(w, s) /\ w.gate[s].state \in OpenStates
      /\ s \in Provers(d) <=> d.gate[s].unlocked
      /\ s \in Provers(w) <=> w.gate[s].unlocked
  BY DEF Takers, Provers
<1>6. CASE Mild(d, w, s) /\ (Readable(d, s) \/ (w.gate = d.gate /\ w.queue = d.queue))
  <2>1. Provers(w) = Provers(d) /\ Holders(w) = Holders(d)
    BY <1>1, <1>5, <1>6, OthersFixed, Zenon DEF Mild
  <2>2. CASE s \in Takers(w)
    <3>1. s \in Takers(d)
      <4>1. d.gate[s].state = w.gate[s].state
        BY <1>5, <1>6, <2>2 DEF Mild
      <4>2. w.gate = d.gate /\ w.queue = d.queue => Readable(d, s)
        BY <1>5, <2>2 DEF Readable, SelectionMatches, Queued
      <4> QED BY <1>5, <1>6, <2>2, <4>1, <4>2
    <3>2. Takers(w) = Takers(d)
      BY <1>1, <2>2, <3>1, OthersFixed
    <3> QED BY <2>1, <3>2
  <2>3. CASE s \notin Takers(w)
    <3>1. Takers(w) = Takers(d) \ {s}
      BY <1>1, <2>3, OthersFixed
    <3>2. Abstract!Shut(s)
      BY <1>2, <2>1, <3>1 DEF Abstract!Shut, Provers, Holders
    <3> QED BY <3>2 DEF Abstract!GateNext
  <2> QED BY <2>2, <2>3
<1>7. ASSUME NEW k \in Units \cup {Scan}, LetsGo(d, w, s, k)
      PROVE  Abstract!GateNext
  <2>1. s \notin Takers(w) /\ Takers(w) = Takers(d) \ {s} /\ Provers(w) = Provers(d)
    <3>1. s \notin Takers(w)
      BY <1>5, <1>7 DEF LetsGo, OpenStates
    <3>2. s \in Provers(w) <=> s \in Provers(d)
      BY <1>5, <1>7, Zenon DEF LetsGo
    <3> QED BY <1>1, <3>1, <3>2, OthersFixed
  <2>2. CASE k \in d.gate[s].active
    <3>1. Holders(w) = [Holders(d) EXCEPT ![s] = Holders(d)[s] \ {k}]
      BY <1>4, <1>7 DEF LetsGo
    <3>2. Abstract!Fail(s, k)
      BY <1>2, <1>4, <2>1, <2>2, <3>1
      DEF Abstract!Fail, Abstract!Leave, Provers, Holders
    <3> QED BY <1>3, <2>2, <3>2 DEF Abstract!GateNext
  <2>3. CASE k \notin d.gate[s].active
    <3>1. Holders(w) = Holders(d)
      <4>1. w.gate[s].active = d.gate[s].active
        BY <1>7, <2>3 DEF LetsGo
      <4> QED BY <1>1, <4>1, OthersFixed
    <3>2. Abstract!Shut(s)
      BY <1>2, <2>1, <3>1 DEF Abstract!Shut, Provers, Holders
    <3> QED BY <3>2 DEF Abstract!GateNext
  <2> QED BY <2>2, <2>3
<1>8. ASSUME NEW u \in Units, Grants(d, w, s, u)
      PROVE  Abstract!GateNext
  <2>1. Takers(w) = Takers(d) /\ Provers(w) = Provers(d) /\ s \in Takers(d)
    <3>1. s \in Takers(w) /\ s \in Takers(d)
      BY <1>5, <1>8 DEF Grants
    <3>2. s \in Provers(w) <=> s \in Provers(d)
      BY <1>5, <1>8, Zenon DEF Grants
    <3> QED BY <1>1, <3>1, <3>2, OthersFixed
  <2>2. Holders(w) = [Holders(d) EXCEPT ![s] = Holders(d)[s] \cup {u}]
    BY <1>4, <1>8 DEF Grants
  <2>3. Cardinality(Holders(d)[s]) < IF s \in Provers(d) THEN Limit ELSE 1
    <3>1. CASE d.gate[s].unlocked
      BY <1>4, <1>5, <1>8, <3>1 DEF Grants
    <3>2. CASE ~ d.gate[s].unlocked
      <4>1. Holders(d)[s] = {} /\ s \notin Provers(d)
        BY <1>4, <1>5, <1>8, <3>2 DEF Grants
      <4>2. Cardinality(Holders(d)[s]) = 0
        BY <4>1, FS_EmptySet
      <4> QED BY <4>1, <4>2
    <3> QED BY <3>1, <3>2
  <2>4. u \notin Holders(d)[s]
    BY <1>4, <1>8 DEF Grants
  <2>5. Abstract!Take(s, u)
    BY <1>2, <2>1, <2>2, <2>3, <2>4, SameCount DEF Abstract!Take, Provers, Holders
  <2> QED BY <2>5 DEF Abstract!GateNext
<1>9. ASSUME NEW u \in Units, Proves(d, w, s, u)
      PROVE  Abstract!GateNext
  <2>1. Takers(w) = Takers(d) /\ s \in Takers(d)
        /\ Provers(w) = Provers(d) \cup ({s} \cap Takers(d))
    <3>1. s \in Takers(w) /\ s \in Takers(d) /\ s \in Provers(w)
      BY <1>5, <1>9 DEF Proves
    <3>2. Takers(w) = Takers(d) /\ Provers(w) = Provers(d) \cup {s}
      BY <1>1, <3>1, OthersFixed
    <3> QED BY <3>1, <3>2
  <2>2. Holders(w) = [Holders(d) EXCEPT ![s] = Holders(d)[s] \ {u}] /\ u \in Holders(d)[s]
    BY <1>4, <1>9 DEF Proves
  <2>3. Abstract!Succeed(s, u)
    BY <1>2, <2>1, <2>2 DEF Abstract!Succeed, Abstract!Leave, Provers, Holders
  <2> QED BY <2>3 DEF Abstract!GateNext
<1>10. ASSUME Opened(d, w, s) PROVE Abstract!GateNext
  <2>1. /\ Takers(w) = Takers(d) \cup {s} /\ Holders(d)[s] = {} /\ Holders(w) = Holders(d)
    <3>1. s \in Takers(w) /\ w.gate[s].active = d.gate[s].active /\ Holders(d)[s] = {}
      BY <1>4, <1>5, <1>10 DEF Opened
    <3> QED BY <1>1, <3>1, OthersFixed
  <2>2. CASE w.gate[s].unlocked = d.gate[s].unlocked
    <3>1. Provers(w) = Provers(d)
      BY <1>1, <1>5, <2>2, OthersFixed, Zenon
    <3>2. Abstract!Reopen(s)
      BY <1>2, <2>1, <3>1 DEF Abstract!Reopen, Provers, Holders
    <3> QED BY <3>2 DEF Abstract!GateNext
  <2>3. CASE w.gate[s].unlocked # d.gate[s].unlocked
    <3>1. ~ w.gate[s].unlocked /\ d.gate[s].unlocked
      <4>1. /\ ~ w.gate[s].unlocked
            /\ w.gate[s].unlocked \in BOOLEAN /\ d.gate[s].unlocked \in BOOLEAN
        <5>1. d.gate[s] \in Gate /\ w.gate[s] \in Gate
          BY <1>1, DiskParts
        <5> QED BY <1>10, <2>3, <5>1 DEF Opened, Gate
      <4> QED BY <2>3, <4>1
    <3>2. s \notin Takers(d) /\ s \notin Provers(w)
      BY <1>5, <1>10, <3>1 DEF Opened
    <3>3. Provers(w) = Provers(d) \ {s}
      BY <1>1, <3>2, OthersFixed
    <3>4. Abstract!SetUp(s)
      BY <1>2, <2>1, <3>2, <3>3 DEF Abstract!SetUp, Provers, Holders
    <3> QED BY <3>4 DEF Abstract!GateNext
  <2> QED BY <2>2, <2>3
<1> HIDE DEF d, w
<1>11. \/ Mild(d, w, s) /\ (Readable(d, s) \/ (w.gate = d.gate /\ w.queue = d.queue))
       \/ \E k \in Units \cup {Scan} : LetsGo(d, w, s, k)
       \/ \E u \in Units : Grants(d, w, s, u)
       \/ \E u \in Units : Proves(d, w, s, u)
       \/ Opened(d, w, s)
  BY <1>1 DEF Turns, Turned, d, w
<1> QED BY <1>6, <1>7, <1>8, <1>9, <1>10, <1>11 DEF d, w

\* Each gate, whatever crashes and failed writes happen, does what the abstract
\* gate allows: one task until one has succeeded, then Limit; shut by a failure.
THEOREM GateIsImplemented == CanarySpec => ImplementsFirstTaskGate
<1>1. CanaryInit => Abstract!GateInit
  <2> SUFFICES ASSUME CanaryInit PROVE Abstract!GateInit
    OBVIOUS
  <2>1. \A s \in Subjects : disk.gate[s] = NoGate
    BY DEF CanaryInit
  <2>2. \A s \in Subjects : /\ disk.gate[s].state = "absent" /\ ~ disk.gate[s].unlocked
                            /\ disk.gate[s].active = {}
    BY <2>1 DEF NoGate
  <2> QED BY <2>2 DEF Abstract!GateInit
<1>2. CanaryBase /\ [CanaryNext]_canaryVars => [Abstract!GateNext]_(Abstract!gateVars)
  <2>1. ASSUME CanaryBase, CanaryNext
        PROVE  Abstract!GateNext \/ UNCHANGED Abstract!gateVars
    <3>1. PICK s \in Subjects : Step(s)
      BY <2>1, NextSteps
    <3>2. Abstract!GateNext \/ UNCHANGED <<Takers(disk), Provers(disk), Holders(disk)>>
      BY <2>1, <3>1, TurnsImplement
    <3>3. UNCHANGED <<Takers(disk), Provers(disk), Holders(disk)>>
            => UNCHANGED Abstract!gateVars
      BY DEF Abstract!gateVars, Takers, Provers, Holders, OpenStates
    <3> QED BY <3>2, <3>3
  <2>2. ASSUME UNCHANGED canaryVars PROVE UNCHANGED Abstract!gateVars
    <3>1. disk' = disk
      BY <2>2 DEF canaryVars
    <3> QED BY <3>1 DEF Abstract!gateVars, Readable, SelectionMatches, Queued
  <2> QED BY <2>1, <2>2
<1> QED BY <1>1, <1>2, BaseHolds, PTL DEF CanarySpec, ImplementsFirstTaskGate, Abstract!GateSpec


\* A subject has one slot until a task of it succeeded, then Limit.
Slots(s) == IF disk.gate[s].unlocked THEN Limit ELSE 1
SlotBound == \A s \in Subjects : Cardinality(disk.gate[s].active) <= Slots(s)

\* A step of the abstract gate takes a slot only where there is one, and takes
\* the others' away only when nobody has them.
LEMMA GateStepBound ==
  ASSUME SlotBound, Abstract!GateNext,
         \A s \in Subjects : IsFiniteSet(disk.gate[s].active)
  PROVE  SlotBound'
<1> DEFINE More(s) == \E u \in Units :
                        /\ u \notin disk.gate[s].active
                        /\ Cardinality(disk.gate[s].active) < Slots(s)
                        /\ disk'.gate[s].active = disk.gate[s].active \cup {u}
           Less(s) == disk'.gate[s].active \subseteq disk.gate[s].active
           Unlocks(s) == disk.gate[s].unlocked => disk'.gate[s].unlocked
           Restarts(s) == disk'.gate[s].active = {}
<1>1. \A s \in Subjects : \/ (More(s) \/ Less(s)) /\ Unlocks(s)
                          \/ Restarts(s)
  <2> DEFINE Same(s) == /\ disk'.gate[s].active = disk.gate[s].active
                        /\ Unlocks(s)
  <2>1. PICK s \in Subjects :
          \/ \E u \in Units : \/ Abstract!Take(s, u) \/ Abstract!Succeed(s, u)
                              \/ Abstract!Fail(s, u)
          \/ Abstract!Shut(s) \/ Abstract!Reopen(s) \/ Abstract!SetUp(s)
    BY DEF Abstract!GateNext
  <2>2. ASSUME NEW u \in Units, Abstract!Take(s, u)
        PROVE  /\ More(s) /\ Unlocks(s)
               /\ \A t \in Subjects : t # s => Same(t)
    <3>1. /\ Holders(disk)' = [Holders(disk) EXCEPT ![s] = @ \cup {u}]
          /\ Provers(disk)' = Provers(disk)
          /\ u \notin Holders(disk)[s]
          /\ Cardinality(Holders(disk)[s]) < IF s \in Provers(disk) THEN Limit ELSE 1
      BY <2>2, SameCount DEF Abstract!Take, Holders, Provers
    <3>2. /\ disk'.gate[s].active = disk.gate[s].active \cup {u}
          /\ \A t \in Subjects : t # s => disk'.gate[t].active = disk.gate[t].active
      BY <3>1 DEF Holders
    <3>3. \A t \in Subjects : Unlocks(t)
      BY <3>1 DEF Provers
    <3>4. More(s)
      BY <3>1, <3>2 DEF Holders, Provers, Slots
    <3> QED
      BY <3>2, <3>3, <3>4
  <2>3. ASSUME NEW u \in Units, Abstract!Succeed(s, u) \/ Abstract!Fail(s, u)
        PROVE  /\ Less(s) /\ Unlocks(s)
               /\ \A t \in Subjects : t # s => Same(t)
    <3>1. /\ Holders(disk)' = [Holders(disk) EXCEPT ![s] = @ \ {u}]
          /\ Provers(disk) \subseteq Provers(disk)'
      BY <2>3 DEF Abstract!Succeed, Abstract!Fail, Abstract!Leave, Holders, Provers
    <3>2. /\ disk'.gate[s].active = disk.gate[s].active \ {u}
          /\ \A t \in Subjects : t # s => disk'.gate[t].active = disk.gate[t].active
      BY <3>1 DEF Holders
    <3>3. \A t \in Subjects : Unlocks(t)
      BY <3>1 DEF Provers
    <3> QED
      BY <3>2, <3>3
  <2>4. ASSUME Abstract!Shut(s) \/ Abstract!Reopen(s)
        PROVE  \A t \in Subjects : Same(t)
    <3>1. Holders(disk)' = Holders(disk) /\ Provers(disk)' = Provers(disk)
      BY <2>4 DEF Abstract!Shut, Abstract!Reopen, Holders, Provers
    <3>2. \A t \in Subjects : disk'.gate[t].active = disk.gate[t].active
      BY <3>1 DEF Holders
    <3>3. \A t \in Subjects : Unlocks(t)
      BY <3>1 DEF Provers
    <3> QED
      BY <3>2, <3>3
  <2>5. ASSUME Abstract!SetUp(s)
        PROVE  /\ Restarts(s)
               /\ \A t \in Subjects : t # s => Same(t)
    <3>1. /\ Holders(disk)' = Holders(disk) /\ Holders(disk)[s] = {}
          /\ Provers(disk)' = Provers(disk) \ {s}
      BY <2>5 DEF Abstract!SetUp, Holders, Provers
    <3>2. /\ disk'.gate[s].active = {}
          /\ \A t \in Subjects : disk'.gate[t].active = disk.gate[t].active
      BY <3>1 DEF Holders
    <3>3. \A t \in Subjects : t # s => Unlocks(t)
      BY <3>1 DEF Provers
    <3> QED
      BY <3>2, <3>3
  <2> QED
    BY <2>1, <2>2, <2>3, <2>4, <2>5
<1>2. ASSUME NEW s \in Subjects
      PROVE  Cardinality(disk'.gate[s].active) <= Slots(s)'
  <2> DEFINE A == disk.gate[s].active
             B == disk'.gate[s].active
  <2>1. /\ IsFiniteSet(A) /\ Cardinality(A) \in Nat /\ Cardinality(A) <= Slots(s)
        /\ Slots(s) \in Nat /\ Slots(s)' \in Nat
        /\ 1 <= Slots(s)' /\ (Unlocks(s) => Slots(s) <= Slots(s)')
    BY FS_CardinalityType DEF SlotBound, Slots
  <2>2. CASE More(s) /\ Unlocks(s)
    <3>1. PICK u \in Units : u \notin A /\ B = A \cup {u} /\ Cardinality(A) < Slots(s)
      BY <2>2
    <3>2. Cardinality(B) = Cardinality(A) + 1
      BY <2>1, <3>1, FS_AddElement
    <3> HIDE DEF A, B
    <3>3. Cardinality(B) <= Slots(s)'
      BY <2>1, <2>2, <3>1, <3>2
    <3> QED
      BY <3>3 DEF B
  <2>3. CASE Less(s) /\ Unlocks(s)
    <3>1. Cardinality(B) <= Cardinality(A) /\ Cardinality(B) \in Nat
      BY <2>1, <2>3, FS_Subset, FS_CardinalityType
    <3> HIDE DEF A, B
    <3>2. Cardinality(B) <= Slots(s)'
      BY <2>1, <2>3, <3>1
    <3> QED
      BY <3>2 DEF B
  <2>4. CASE Restarts(s)
    BY <2>1, <2>4, FS_EmptySet
  <2> QED
    BY <1>1, <2>2, <2>3, <2>4
<1> QED
  BY <1>2 DEF SlotBound

\* However often the gate was shut, its files half written or its daemon killed,
\* at most one task of a subject holds a slot until a task of it succeeded
\* since the gate was set up, and at most continuous_concurrency_limit after
\* that: what the abstract gate promises is true of the slots of the state file.
THEOREM OneBeforeSuccess == CanarySpec => []SlotBound
<1>1. CanaryInit => SlotBound
  <2> SUFFICES ASSUME CanaryInit, NEW s \in Subjects
               PROVE  Cardinality(disk.gate[s].active) <= Slots(s)
    BY DEF SlotBound
  <2>1. disk.gate[s].active = {}
    BY DEF CanaryInit, NoGate
  <2> QED
    BY <2>1, FS_EmptySet DEF Slots
<1>2. CanaryBase => \A s \in Subjects : IsFiniteSet(disk.gate[s].active)
  BY TaskFacts, FS_Subset DEF CanaryBase, DiskInv
<1>3. /\ SlotBound /\ CanaryBase
      /\ [Abstract!GateNext]_(Abstract!gateVars)
      => SlotBound'
  <2>1. ASSUME SlotBound, UNCHANGED Abstract!gateVars PROVE SlotBound'
    <3>1. Holders(disk)' = Holders(disk) /\ Provers(disk)' = Provers(disk)
      BY <2>1 DEF Abstract!gateVars, Holders, Provers
    <3>2. \A t \in Subjects : /\ disk'.gate[t].active = disk.gate[t].active
                              /\ disk'.gate[t].unlocked <=> disk.gate[t].unlocked
      BY <3>1 DEF Holders, Provers
    <3> QED
      BY <2>1, <3>2 DEF SlotBound, Slots
  <2> QED
    BY <1>2, <2>1, GateStepBound
<1> QED
  BY <1>1, <1>3, BaseHolds, GateIsImplemented, PTL
  DEF CanarySpec, ImplementsFirstTaskGate, Abstract!GateSpec
=============================================================================
