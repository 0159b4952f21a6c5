-------------------------- MODULE LeaseStoreProofs --------------------------
(***************************************************************************)
(* The safety of the lease store for any units, owners, time to live, lock *)
(* delay and bounds.  Every theorem rests on one inductive invariant.      *)
(***************************************************************************)
EXTENDS LeaseStore, TLAPS

\* Every lease handed out is at or below the generation in the lease file.
GrantsBelowFile ==
  \A l \in granted : 1 <= l.fence /\ l.fence <= lease[l.unit].fence

\* A claimed lease file names a lease that was handed out.
ClaimedIsGranted ==
  \A u \in Units :
    lease[u].status = "claimed" =>
      [unit |-> u, owner |-> lease[u].owner, fence |-> lease[u].fence]
        \in granted

\* A unit without a completion has no trace of one.
NoTraceOfCompletion ==
  \A u \in Units : ~ Completed(u) => completion[u] = NoCompletion

\* The recovery count survives every rewriting of the lease file.
RecoveriesCounted ==
  \A u \in Units : regenerated[u] = lease[u].recoveries /\ lease[u].recoveries <= 1

\* The checkpoint pointer and the task detail are never ahead of the lease.
PointersBelowFile ==
  \A u \in Units : /\ ckptLatest[u] <= lease[u].fence
                   /\ detail[u].fence <= lease[u].fence

\* A heartbeat is older than the refresh that wrote it by a lock wait at most.
HeartbeatIsRecent ==
  \A u \in Units :
    lease[u].status = "claimed" => lease[u].heartbeat >= touched[u] - LockDelay

StoreInv ==
  /\ TypeOK
  /\ GrantsBelowFile
  /\ FencesUnique
  /\ ClaimedIsGranted
  /\ NoTraceOfCompletion
  /\ CompletedIsDurable
  /\ ResultIsGranted
  /\ RecoveriesCounted
  /\ PointersBelowFile
  /\ ResumeFollowsAnalysis
  /\ HeartbeatIsRecent

USE StoreAssumption

LEMMA InitStoreInv == Init => StoreInv
  BY DEF Init, StoreInv, TypeOK, LeaseFile, Completion, Detail, Statuses,
    NoLease, NoCompletion, Pointer, NoPointer, GrantsBelowFile, FencesUnique, ClaimedIsGranted,
    NoTraceOfCompletion, CompletedIsDurable, ResultIsGranted,
    RecoveriesCounted, PointersBelowFile, ResumeFollowsAnalysis,
    HeartbeatIsRecent, Completed

\* A resume flag stays justified while events and fences only grow.
LEMMA ResumeIsKept ==
  ASSUME TypeOK, ResumeFollowsAnalysis, ckptEvents \subseteq ckptEvents',
         \A v \in Units : /\ lease'[v].fence \in Nat
                          /\ lease[v].fence <= lease'[v].fence,
         \A v \in Units :
           \/ lease'[v].resume = lease[v].resume
           \/ lease'[v].resume =>
                \E e \in ckptEvents : e.unit = v /\ e.fence <= lease'[v].fence
  PROVE  ResumeFollowsAnalysis'
<1> SUFFICES ASSUME NEW u \in Units, lease'[u].resume
             PROVE  \E e \in ckptEvents' : e.unit = u /\ e.fence <= lease'[u].fence
  BY DEF ResumeFollowsAnalysis
<1>1. CASE \E e \in ckptEvents : e.unit = u /\ e.fence <= lease'[u].fence
  BY <1>1
<1>2. CASE lease[u].resume
  <2>1. PICK e \in ckptEvents : e.unit = u /\ e.fence <= lease[u].fence
    BY <1>2 DEF ResumeFollowsAnalysis
  <2>2. e.fence \in Nat /\ lease[u].fence \in Nat
    BY DEF TypeOK, Lease, LeaseFile
  <2> QED BY <2>1, <2>2
<1> QED BY <1>1, <1>2

\* Results stay what they are while nobody publishes and completed lease files
\* are left alone.
LEMMA ResultsAreKept ==
  ASSUME StoreInv, UNCHANGED <<completion, latest>>, granted \subseteq granted',
         \A v \in Units : lease'[v].status = "completed" =>
           /\ lease[v].status = "completed"
           /\ lease'[v].fence = lease[v].fence /\ lease'[v].owner = lease[v].owner
  PROVE  NoTraceOfCompletion' /\ CompletedIsDurable' /\ ResultIsGranted'
<1>1. ASSUME NEW c PROVE LatestIsResult(c) => LatestIsResult(c)'
  BY DEF LatestIsResult, Completed
<1>2. NoTraceOfCompletion'
  BY DEF StoreInv, NoTraceOfCompletion, Completed
<1>3. CompletedIsDurable'
  BY <1>1 DEF StoreInv, CompletedIsDurable
<1>4. ResultIsGranted'
  BY <1>1 DEF StoreInv, ResultIsGranted, Completed
<1> QED BY <1>2, <1>3, <1>4

\* Whichever way a unit is claimed, the file and the grants change alike.
LEMMA NewGenerationKeepsInv ==
  ASSUME StoreInv, NEW u \in Units, NEW o \in Owners, NEW ts \in Timestamps,
         ~ Completed(u), NewGeneration(u, o, ts),
         consumed' \subseteq Allowlists \X Units,
         UNCHANGED <<completion, latest, ckptLatest, ckptEvents, detail,
                     draining, alive, now, regenerated>>
  PROVE  StoreInv'
<1> DEFINE l == [unit |-> u, owner |-> o, fence |-> lease[u].fence + 1]
           f == ClaimedFile(o, lease[u].fence + 1, ts, lease[u].recoveries,
                            lease[u].resume)
<1> USE DEF NewGeneration, Touch
<1>1. TypeOK /\ lease[u] \in LeaseFile /\ ts \in Int
  BY DEF StoreInv, TypeOK, Timestamps
<1>2. l \in Lease /\ granted' = granted \cup {l}
  BY <1>1 DEF LeaseFile, Lease
<1>3. f \in LeaseFile
  BY <1>1 DEF LeaseFile, Statuses, ClaimedFile
<1>4. /\ lease'[u] = f
      /\ \A v \in Units \ {u} : lease'[v] = lease[v]
  BY <1>1 DEF TypeOK
<1>5. TypeOK'
  BY <1>1, <1>2, <1>3 DEF TypeOK
<1> HIDE DEF l, f
<1>6. /\ l.unit = u /\ l.owner = o /\ l.fence = lease[u].fence + 1
      /\ f.owner = o /\ f.fence = lease[u].fence + 1 /\ f.status = "claimed"
      /\ f.heartbeat = ts /\ f.recoveries = lease[u].recoveries
      /\ f.resume = lease[u].resume
      /\ lease[u].fence \in Nat
  BY <1>1 DEF l, f, ClaimedFile, LeaseFile
<1>7. GrantsBelowFile'
  BY <1>1, <1>2, <1>4, <1>6 DEF StoreInv, TypeOK, GrantsBelowFile, LeaseFile, Lease
<1>8. FencesUnique'
  BY <1>1, <1>2, <1>4, <1>6 DEF StoreInv, TypeOK, GrantsBelowFile, FencesUnique, Lease
<1>9. ClaimedIsGranted'
  BY <1>2, <1>4, <1>6 DEF StoreInv, ClaimedIsGranted, l
<1>10. NoTraceOfCompletion' /\ CompletedIsDurable' /\ ResultIsGranted'
  BY <1>2, <1>4, <1>6, ResultsAreKept
<1>12. RecoveriesCounted' /\ PointersBelowFile'
  BY <1>1, <1>4, <1>6 DEF StoreInv, TypeOK, Detail, LeaseFile, RecoveriesCounted,
    PointersBelowFile
<1>14. ResumeFollowsAnalysis'
  <2>1. \A v \in Units : /\ lease'[v].fence \in Nat
                         /\ lease[v].fence <= lease'[v].fence
                         /\ lease'[v].resume = lease[v].resume
    BY <1>1, <1>4, <1>6 DEF TypeOK, LeaseFile
  <2> QED
    BY <2>1, <1>1, ResumeIsKept DEF StoreInv
<1>13. HeartbeatIsRecent'
  BY <1>1, <1>4, <1>6 DEF StoreInv, TypeOK, HeartbeatIsRecent, Timestamps
<1> QED
  BY <1>5, <1>7, <1>8, <1>9, <1>10, <1>12, <1>13, <1>14 DEF StoreInv

\* What a claim does, whichever branch of it is taken.
LEMMA ClaimKinds ==
  ASSUME NEW u \in Units, NEW o \in Owners, NEW ts \in Timestamps,
         ClaimStep(u, o, ts), TypeOK
  PROVE  /\ UNCHANGED <<completion, latest, ckptLatest, ckptEvents, detail,
                        draining, alive, now, regenerated>>
         /\ consumed' \subseteq Allowlists \X Units
         /\ \/ ~ Completed(u) /\ ~ Fresh(u, ts) /\ NewGeneration(u, o, ts)
            \/ UNCHANGED <<lease, granted, touched>>
<1>1. CASE Claim(u, o, ts)
  BY <1>1 DEF Claim, TypeOK
<1>2. CASE ClaimCanary(u, o, ts)
  BY <1>2 DEF ClaimCanary, Fresh, TypeOK
<1>3. ASSUME NEW a \in Allowlists, ClaimReplay(a, u, o, ts)
      PROVE  /\ UNCHANGED <<completion, latest, ckptLatest, ckptEvents, detail,
                            draining, alive, now, regenerated>>
             /\ consumed' \subseteq Allowlists \X Units
             /\ \/ ~ Completed(u) /\ ~ Fresh(u, ts) /\ NewGeneration(u, o, ts)
                \/ UNCHANGED <<lease, granted, touched>>
  BY <1>3 DEF ClaimReplay, TypeOK
<1> QED BY <1>1, <1>2, <1>3 DEF ClaimStep

LEMMA RecoverKeepsInv ==
  ASSUME StoreInv, NEW l \in granted, NEW ts \in Timestamps,
         NEW resume \in BOOLEAN, Recover(l, ts, resume)
  PROVE  StoreInv'
<1> DEFINE u == l.unit
           m == [unit |-> u, owner |-> l.owner, fence |-> l.fence + 1]
           f == ClaimedFile(l.owner, l.fence + 1, ts, lease[u].recoveries + 1,
                            resume)
<1> USE DEF Recover, Touch, Matches, Names
<1>1. TypeOK /\ l \in Lease /\ u \in Units /\ lease[u] \in LeaseFile /\ ts \in Int
  BY DEF StoreInv, TypeOK, Timestamps, Lease
<1>2. m \in Lease /\ granted' = granted \cup {m}
  BY <1>1 DEF Lease
<1>3. f \in LeaseFile
  BY <1>1 DEF LeaseFile, Lease, Statuses, ClaimedFile
<1>4. /\ lease'[u] = f
      /\ \A v \in Units \ {u} : lease'[v] = lease[v]
      /\ regenerated'[u] = regenerated[u] + 1
      /\ \A v \in Units \ {u} : regenerated'[v] = regenerated[v]
  BY <1>1 DEF TypeOK
<1>5. TypeOK'
  BY <1>1, <1>2, <1>3 DEF TypeOK
<1>a. lease[u].fence = l.fence /\ lease[u].owner = l.owner
      /\ lease[u].status = "claimed" /\ lease[u].recoveries < 1
  OBVIOUS
<1> HIDE DEF m, f
<1>6. /\ m.unit = u /\ m.owner = l.owner /\ m.fence = lease[u].fence + 1
      /\ f.owner = l.owner /\ f.fence = lease[u].fence + 1
      /\ f.status = "claimed" /\ f.heartbeat = ts
      /\ f.recoveries = lease[u].recoveries + 1 /\ f.resume = resume
      /\ lease[u].fence \in Nat /\ lease[u].recoveries \in Nat
  BY <1>1, <1>a DEF m, f, ClaimedFile, LeaseFile
<1>7. GrantsBelowFile'
  BY <1>1, <1>2, <1>4, <1>6 DEF StoreInv, TypeOK, GrantsBelowFile, Lease
<1>8. FencesUnique'
  BY <1>1, <1>2, <1>4, <1>6 DEF StoreInv, TypeOK, GrantsBelowFile, FencesUnique, Lease
<1>9. ClaimedIsGranted'
  BY <1>2, <1>4, <1>6, <1>a DEF StoreInv, ClaimedIsGranted, m
<1>10. NoTraceOfCompletion' /\ CompletedIsDurable' /\ ResultIsGranted'
  BY <1>2, <1>4, <1>6, ResultsAreKept
<1>12. RecoveriesCounted'
  BY <1>1, <1>4, <1>6, <1>a DEF StoreInv, RecoveriesCounted
<1>13. PointersBelowFile'
  BY <1>1, <1>4, <1>6 DEF StoreInv, TypeOK, Detail, PointersBelowFile
<1>14. ResumeFollowsAnalysis'
  <2>1. resume => l \in ckptEvents /\ l.fence <= lease'[u].fence
    <3>1. l.fence = lease[u].fence /\ lease'[u].fence = lease[u].fence + 1
      BY <1>4, <1>6, <1>a
    <3>2. resume => l \in ckptEvents
      BY DEF Recoverable
    <3>3. l.fence <= lease'[u].fence
      BY <3>1, <1>6
    <3> QED BY <3>2, <3>3, Zenon
  <2>2. ASSUME NEW v \in Units
        PROVE  lease'[v].fence \in Nat /\ lease[v].fence <= lease'[v].fence
    BY <1>1, <1>4, <1>6 DEF TypeOK, LeaseFile
  <2>3. ASSUME NEW v \in Units
        PROVE  \/ lease'[v].resume = lease[v].resume
               \/ lease'[v].resume =>
                    \E e \in ckptEvents : e.unit = v /\ e.fence <= lease'[v].fence
    <3>1. CASE v = u
      BY <3>1, <2>1, <1>4, <1>6
    <3>2. CASE v # u
      BY <3>2, <1>4
    <3> QED BY <3>1, <3>2
  <2> QED
    BY <2>2, <2>3, <1>1, ResumeIsKept DEF StoreInv
<1>15. HeartbeatIsRecent'
  BY <1>1, <1>4, <1>6 DEF StoreInv, TypeOK, HeartbeatIsRecent, Timestamps
<1> QED
  BY <1>5, <1>7, <1>8, <1>9, <1>10, <1>12, <1>13, <1>14, <1>15 DEF StoreInv

LEMMA MarkRetryWaitKeepsInv ==
  ASSUME StoreInv, NEW l \in granted, NEW resume \in BOOLEAN,
         MarkRetryWait(l, resume)
  PROVE  StoreInv'
<1> DEFINE u == l.unit
<1>1. TypeOK /\ l \in Lease /\ u \in Units /\ lease[u] \in LeaseFile
  BY DEF StoreInv, TypeOK, Lease
<1>a. /\ lease[u].fence = l.fence /\ lease[u].owner = l.owner
      /\ resume => Recoverable(l)
      /\ UNCHANGED <<completion, latest, ckptLatest, ckptEvents, detail,
                     draining, consumed, granted, alive, now, touched, regenerated>>
  BY DEF MarkRetryWait, Matches, Names
<1>2. lease'[u] = [lease[u] EXCEPT !.status = "retry_wait", !.resume = resume]
  BY <1>1 DEF TypeOK, MarkRetryWait
<1>3. /\ lease'[u] \in LeaseFile
      /\ lease'[u].status = "retry_wait" /\ lease'[u].resume = resume
      /\ lease'[u].owner = lease[u].owner /\ lease'[u].fence = lease[u].fence
      /\ lease'[u].recoveries = lease[u].recoveries
      /\ lease[u].fence \in Nat
  BY <1>1, <1>2 DEF LeaseFile, Statuses
<1>4. /\ DOMAIN lease' = Units
      /\ \A v \in Units \ {u} : lease'[v] = lease[v]
  BY <1>1 DEF TypeOK, MarkRetryWait
<1>5. TypeOK'
  BY <1>1, <1>3, <1>a DEF TypeOK, MarkRetryWait
<1>6. GrantsBelowFile' /\ FencesUnique'
  BY <1>1, <1>3, <1>4, <1>a DEF StoreInv, TypeOK, Lease, GrantsBelowFile, FencesUnique
<1>7. ClaimedIsGranted' /\ RecoveriesCounted' /\ PointersBelowFile'
      /\ HeartbeatIsRecent'
  BY <1>1, <1>3, <1>4, <1>a DEF StoreInv, ClaimedIsGranted, RecoveriesCounted,
    PointersBelowFile, HeartbeatIsRecent
<1>9. NoTraceOfCompletion' /\ CompletedIsDurable' /\ ResultIsGranted'
  BY <1>1, <1>3, <1>4, <1>a, ResultsAreKept
<1>8. ResumeFollowsAnalysis'
  <2>1. resume => l \in ckptEvents /\ l.fence <= lease'[u].fence
    BY <1>1, <1>3, <1>a DEF Recoverable
  <2>2. ASSUME NEW v \in Units
        PROVE  lease'[v].fence \in Nat /\ lease[v].fence <= lease'[v].fence
    BY <1>1, <1>3, <1>4 DEF TypeOK, LeaseFile
  <2>3. ASSUME NEW v \in Units
        PROVE  \/ lease'[v].resume = lease[v].resume
               \/ lease'[v].resume =>
                    \E e \in ckptEvents : e.unit = v /\ e.fence <= lease'[v].fence
    <3>1. CASE v = u
      BY <3>1, <2>1, <1>3
    <3>2. CASE v # u
      BY <3>2, <1>4
    <3> QED BY <3>1, <3>2
  <2> QED
    BY <2>2, <2>3, <1>1, <1>a, ResumeIsKept DEF StoreInv
<1> QED
  BY <1>5, <1>6, <1>7, <1>8, <1>9 DEF StoreInv

\* Heartbeat and RecordTaskEvent rewrite the heartbeat of one lease file.
LEMMA RefreshKeepsInv ==
  ASSUME StoreInv, NEW l \in granted, Names(l), NEW ts \in Timestamps,
         lease' = [lease EXCEPT ![l.unit].heartbeat = ts], Touch(l.unit),
         \/ /\ UNCHANGED ckptEvents
            /\ UNCHANGED detail
         \/ /\ \/ ckptEvents' = ckptEvents \cup {l}
               \/ UNCHANGED ckptEvents
            /\ detail' = [detail EXCEPT ![l.unit] = [owner |-> l.owner,
                                                     fence |-> l.fence]],
         UNCHANGED <<completion, latest, ckptLatest, draining, consumed, granted, alive,
                     now, regenerated>>
  PROVE  StoreInv'
<1> DEFINE u == l.unit
<1> USE DEF Touch, Names
<1>1. /\ TypeOK /\ l \in Lease /\ u \in Units /\ lease[u] \in LeaseFile
      /\ ts \in Int /\ 1 <= l.fence
  BY DEF StoreInv, TypeOK, Lease, Timestamps, GrantsBelowFile
<1>2. /\ lease'[u] = [lease[u] EXCEPT !.heartbeat = ts]
      /\ \A v \in Units \ {u} : lease'[v] = lease[v]
  BY <1>1 DEF TypeOK
<1>3. /\ lease'[u] \in LeaseFile /\ lease'[u].heartbeat = ts
      /\ lease'[u].status = lease[u].status /\ lease'[u].resume = lease[u].resume
      /\ lease'[u].owner = lease[u].owner /\ lease'[u].fence = lease[u].fence
      /\ lease'[u].recoveries = lease[u].recoveries
      /\ lease[u].fence \in Nat
  BY <1>1, <1>2 DEF LeaseFile, Statuses
<1>4. /\ detail' \in [Units -> Detail]
      /\ \A v \in Units : detail'[v].fence <= lease[v].fence
  <2>1. detail \in [Units -> Detail] /\ \A v \in Units : detail[v].fence <= lease[v].fence
    BY DEF StoreInv, TypeOK, PointersBelowFile
  <2>2. CASE UNCHANGED detail
    BY <2>1, <2>2
  <2>3. CASE detail' = [detail EXCEPT ![u] = [owner |-> l.owner, fence |-> l.fence]]
    <3>1. [owner |-> l.owner, fence |-> l.fence] \in Detail /\ l.fence = lease[u].fence
      BY <1>1 DEF Detail, Lease
    <3> QED BY <2>1, <2>3, <3>1, <1>1, <1>3
  <2> QED BY <2>2, <2>3
<1>5. ckptEvents' \subseteq Lease /\ ckptEvents \subseteq ckptEvents'
  BY <1>1 DEF TypeOK
<1>6. TypeOK'
  BY <1>1, <1>3, <1>4, <1>5 DEF TypeOK
<1>7. GrantsBelowFile' /\ FencesUnique'
  BY <1>1, <1>2, <1>3 DEF StoreInv, TypeOK, Lease, GrantsBelowFile, FencesUnique
<1>8. ClaimedIsGranted' /\ RecoveriesCounted'
  BY <1>1, <1>2, <1>3 DEF StoreInv, ClaimedIsGranted, RecoveriesCounted
<1>12. NoTraceOfCompletion' /\ CompletedIsDurable' /\ ResultIsGranted'
  BY <1>1, <1>2, <1>3, ResultsAreKept
<1>11. ResumeFollowsAnalysis'
  <2>1. \A v \in Units : /\ lease'[v].fence \in Nat
                         /\ lease[v].fence <= lease'[v].fence
                         /\ lease'[v].resume = lease[v].resume
    BY <1>1, <1>2, <1>3 DEF TypeOK, LeaseFile
  <2> QED
    BY <2>1, <1>1, <1>5, ResumeIsKept DEF StoreInv
<1>9. PointersBelowFile'
  BY <1>1, <1>2, <1>3, <1>4, <1>5 DEF StoreInv, PointersBelowFile
<1>10. HeartbeatIsRecent'
  BY <1>1, <1>2, <1>3 DEF StoreInv, TypeOK, HeartbeatIsRecent, Timestamps
<1> QED
  BY <1>6, <1>7, <1>8, <1>9, <1>10, <1>11, <1>12 DEF StoreInv

LEMMA PublishCheckpointKeepsInv ==
  ASSUME StoreInv, NEW l \in granted, PublishCheckpoint(l)
  PROVE  StoreInv'
<1> DEFINE u == l.unit
<1>1. /\ TypeOK /\ l \in Lease /\ u \in Units /\ 1 <= l.fence
      /\ l.fence = lease[u].fence
  BY DEF StoreInv, TypeOK, Lease, GrantsBelowFile, PublishCheckpoint, Matches, Names
<1>2. /\ ckptLatest' = [ckptLatest EXCEPT ![u] = l.fence]
      /\ UNCHANGED <<lease, completion, latest, ckptEvents, detail, draining, consumed,
                     granted, alive, now, touched, regenerated>>
  BY DEF PublishCheckpoint
<1>3. TypeOK'
  BY <1>1, <1>2 DEF TypeOK, Lease
<1>4. GrantsBelowFile' /\ FencesUnique' /\ ClaimedIsGranted'
      /\ RecoveriesCounted' /\ HeartbeatIsRecent' /\ ResumeFollowsAnalysis'
  BY <1>2 DEF StoreInv, GrantsBelowFile, FencesUnique, ClaimedIsGranted,
    RecoveriesCounted, HeartbeatIsRecent, ResumeFollowsAnalysis
<1>7. NoTraceOfCompletion' /\ CompletedIsDurable' /\ ResultIsGranted'
  BY <1>2, ResultsAreKept
<1>5. /\ \A v \in Units : lease[v].fence \in Nat /\ ckptLatest[v] \in Nat
      /\ ckptLatest'[u] = lease[u].fence /\ 1 <= lease[u].fence
      /\ \A v \in Units \ {u} : ckptLatest'[v] = ckptLatest[v]
  BY <1>1, <1>2 DEF TypeOK, LeaseFile
<1>6. PointersBelowFile'
  BY <1>1, <1>2, <1>5 DEF StoreInv, TypeOK, Lease, PointersBelowFile
<1> QED
  BY <1>3, <1>4, <1>6, <1>7 DEF StoreInv

LEMMA PublishTerminalKeepsInv ==
  ASSUME StoreInv, NEW l \in granted, NEW out \in Outcomes, NEW upto \in 1..3,
         PublishTerminal(l, out, upto)
  PROVE  StoreInv'
<1> DEFINE u == l.unit
           c == [fence |-> l.fence, owner |-> l.owner, outcome |-> out]
           mine == [unit |-> u, fence |-> l.fence]
<1>1. /\ TypeOK /\ l \in Lease /\ u \in Units /\ lease[u] \in LeaseFile
      /\ 1 <= l.fence /\ l.fence = lease[u].fence /\ l.owner = lease[u].owner
      /\ lease[u].status = "claimed"
      /\ l = [unit |-> u, owner |-> l.owner, fence |-> l.fence]
  BY DEF StoreInv, TypeOK, Lease, GrantsBelowFile, PublishTerminal, Matches, Names
<1>2. /\ completion' = [completion EXCEPT ![u] = c]
      /\ ~ Completed(u)
      /\ \/ lease' = lease
         \/ upto = 3 /\ lease' = [lease EXCEPT ![u].status = "completed"]
      /\ UNCHANGED <<ckptLatest, ckptEvents, detail, draining, consumed, granted,
                     alive, now, touched, regenerated>>
  BY DEF PublishTerminal
<1>a. PICK moved \in SUBSET CapturesOf[u] :
        /\ upto = 3 => moved = CapturesOf[u]
        /\ latest' = [d \in Captures |-> IF d \in moved THEN mine ELSE latest[d]]
  BY DEF PublishTerminal
<1>3. c \in Completion /\ mine \in Pointer
  BY <1>1 DEF Completion, Lease, Pointer
<1>b. mine # NoPointer
  BY <1>1 DEF NoPointer
<1> HIDE DEF c
<1>4. c.fence = l.fence /\ c.owner = l.owner /\ completion'[u] = c
      /\ \A v \in Units \ {u} : completion'[v] = completion[v]
  BY <1>1, <1>2 DEF c, TypeOK
<1>5. /\ lease' \in [Units -> LeaseFile]
      /\ \A v \in Units :
           /\ lease'[v].fence = lease[v].fence /\ lease'[v].owner = lease[v].owner
           /\ lease'[v].resume = lease[v].resume
           /\ lease'[v].recoveries = lease[v].recoveries
           /\ lease'[v].heartbeat = lease[v].heartbeat
           /\ \/ lease'[v].status = lease[v].status
              \/ v = u /\ lease'[v].status = "completed" /\ upto = 3
  <2>1. CASE lease' = lease
    BY <1>1, <2>1 DEF TypeOK
  <2>2. CASE upto = 3 /\ lease' = [lease EXCEPT ![u].status = "completed"]
    BY <1>1, <2>2 DEF TypeOK, LeaseFile, Statuses
  <2> QED BY <1>2, <2>1, <2>2
<1>6. latest' \in [Captures -> Pointer]
  BY <1>1, <1>3, <1>a DEF TypeOK
<1>7. TypeOK'
  BY <1>1, <1>2, <1>3, <1>5, <1>6 DEF TypeOK
<1>8. GrantsBelowFile' /\ FencesUnique'
  BY <1>1, <1>2, <1>5 DEF StoreInv, TypeOK, Lease, GrantsBelowFile, FencesUnique
<1>9. ClaimedIsGranted' /\ RecoveriesCounted' /\ PointersBelowFile'
      /\ ResumeFollowsAnalysis' /\ HeartbeatIsRecent'
  BY <1>2, <1>5 DEF StoreInv, ClaimedIsGranted, RecoveriesCounted,
    PointersBelowFile, ResumeFollowsAnalysis, HeartbeatIsRecent
<1>10. Completed(u)' /\ \A v \in Units : Completed(v) => v # u /\ Completed(v)'
  BY <1>1, <1>2, <1>4 DEF Completed
<1>11. NoTraceOfCompletion'
  BY <1>4, <1>10 DEF StoreInv, NoTraceOfCompletion, Completed
<1>d. ASSUME NEW d \in Captures, LatestIsResult(d) PROVE LatestIsResult(d)'
  <2>1. CASE d \in moved
    <3>1. latest'[d] = mine /\ d \in CapturesOf[u]
      BY <1>a, <2>1
    <3> QED BY <3>1, <1>1, <1>4, <1>10 DEF LatestIsResult
  <2>2. CASE d \notin moved
    <3>1. latest'[d] = latest[d]
      BY <1>a, <2>2
    <3>2. PICK v \in Units : /\ d \in CapturesOf[v] /\ Completed(v)
                             /\ latest[d] = [unit |-> v, fence |-> completion[v].fence]
      BY <1>d DEF LatestIsResult
    <3> QED BY <3>1, <3>2, <1>4, <1>10 DEF LatestIsResult
  <2> QED BY <2>1, <2>2
<1>e. ASSUME NEW d \in moved PROVE LatestIsResult(d)'
  <2>1. d \in Captures /\ d \in CapturesOf[u]
    BY <1>1
  <2>2. latest'[d] = mine
    BY <1>a, <2>1
  <2> QED BY <2>1, <2>2, <1>1, <1>4, <1>10 DEF LatestIsResult
<1>12. CompletedIsDurable'
  <2> SUFFICES ASSUME NEW v \in Units, lease'[v].status = "completed"
               PROVE  /\ completion'[v].fence = lease'[v].fence
                      /\ completion'[v].owner = lease'[v].owner
                      /\ \A d \in CapturesOf[v] : LatestIsResult(d)'
    BY DEF CompletedIsDurable
  <2>1. CASE v = u
    <3>1. upto = 3
      BY <2>1, <1>1, <1>5
    <3>2. \A d \in CapturesOf[v] : LatestIsResult(d)'
      BY <2>1, <3>1, <1>a, <1>e
    <3> QED BY <2>1, <3>2, <1>1, <1>4, <1>5
  <2>2. CASE v # u
    <3>1. lease[v].status = "completed"
      BY <2>2, <1>5
    <3>2. \A d \in CapturesOf[v] : d \in Captures /\ LatestIsResult(d)
      BY <3>1 DEF StoreInv, CompletedIsDurable
    <3> QED BY <2>2, <3>1, <3>2, <1>4, <1>5, <1>d DEF StoreInv, CompletedIsDurable
  <2> QED BY <2>1, <2>2
<1>13. ResultIsGranted'
  <2>1. ASSUME NEW v \in Units, completion'[v].fence # 0
        PROVE  [unit |-> v, owner |-> completion'[v].owner,
                fence |-> completion'[v].fence] \in granted'
    <3>1. CASE v = u
      BY <3>1, <1>1, <1>2, <1>4
    <3>2. CASE v # u
      BY <3>2, <2>1, <1>2, <1>4 DEF StoreInv, ResultIsGranted, Completed
    <3> QED BY <3>1, <3>2
  <2>2. ASSUME NEW d \in Captures, latest'[d] # NoPointer
        PROVE  LatestIsResult(d)'
    <3>1. CASE d \in moved
      BY <3>1, <1>e
    <3>2. CASE d \notin moved
      BY <3>2, <2>2, <1>a, <1>d DEF StoreInv, ResultIsGranted
    <3> QED BY <3>1, <3>2
  <2> QED BY <2>1, <2>2 DEF ResultIsGranted, Completed
<1> QED
  BY <1>7, <1>8, <1>9, <1>11, <1>12, <1>13 DEF StoreInv

LEMMA QuarantineKeepsInv ==
  ASSUME StoreInv, NEW u \in Units, NEW ts \in Timestamps, Quarantine(u, ts)
  PROVE  StoreInv'
<1>1. TypeOK /\ lease[u] \in LeaseFile
  BY DEF StoreInv, TypeOK
<1>2. UNCHANGED <<completion, latest, ckptLatest, ckptEvents, detail,
                  draining, consumed, granted, alive, now, touched, regenerated>>
  BY DEF Quarantine
<1>3. /\ lease'[u] = [lease[u] EXCEPT !.status = "quarantined",
                                      !.fence = lease[u].fence + 1]
  BY <1>1 DEF TypeOK, Quarantine
<1>a. \A v \in Units \ {u} : lease'[v] = lease[v]
  BY <1>1 DEF TypeOK, Quarantine
<1>4. /\ lease'[u] \in LeaseFile
      /\ lease'[u].status = "quarantined" /\ lease'[u].fence = lease[u].fence + 1
      /\ lease'[u].resume = lease[u].resume
      /\ lease'[u].recoveries = lease[u].recoveries
      /\ lease[u].fence \in Nat
  <2>1. lease[u].fence \in Nat /\ lease[u].fence + 1 \in Nat
    BY <1>1 DEF LeaseFile
  <2> QED BY <2>1, <1>1, <1>3 DEF LeaseFile, Statuses
<1>5. TypeOK'
  BY <1>1, <1>2, <1>4 DEF TypeOK, Quarantine
<1>6. GrantsBelowFile' /\ FencesUnique'
  BY <1>1, <1>2, <1>a, <1>4 DEF StoreInv, TypeOK, Lease, GrantsBelowFile, FencesUnique
<1>7. ClaimedIsGranted' /\ RecoveriesCounted' /\ HeartbeatIsRecent'
  BY <1>2, <1>a, <1>4 DEF StoreInv, ClaimedIsGranted, RecoveriesCounted,
    HeartbeatIsRecent
<1>10. NoTraceOfCompletion' /\ CompletedIsDurable' /\ ResultIsGranted'
  BY <1>2, <1>a, <1>4, ResultsAreKept
<1>8. PointersBelowFile'
  BY <1>1, <1>2, <1>a, <1>4 DEF StoreInv, TypeOK, Detail, PointersBelowFile
<1>9. ResumeFollowsAnalysis'
  <2>1. \A v \in Units : /\ lease'[v].fence \in Nat
                         /\ lease[v].fence <= lease'[v].fence
                         /\ lease'[v].resume = lease[v].resume
    BY <1>1, <1>a, <1>4 DEF TypeOK, LeaseFile
  <2> QED
    BY <2>1, <1>1, <1>2, ResumeIsKept DEF StoreInv
<1> QED
  BY <1>5, <1>6, <1>7, <1>8, <1>9, <1>10 DEF StoreInv

\* Drains, crashes and the passing of time leave every record alone.
LEMMA EnvironmentKeepsInv ==
  ASSUME StoreInv,
         UNCHANGED <<lease, completion, latest, ckptLatest, ckptEvents, detail,
                     granted, touched, regenerated>>,
         draining' \subseteq Subjects, consumed' \subseteq Allowlists \X Units,
         alive' \subseteq alive, now' \in Nat
  PROVE  StoreInv'
  BY DEF StoreInv, TypeOK, GrantsBelowFile, FencesUnique, ClaimedIsGranted,
    NoTraceOfCompletion, CompletedIsDurable, ResultIsGranted, LatestIsResult,
    RecoveriesCounted, PointersBelowFile, ResumeFollowsAnalysis,
    HeartbeatIsRecent, Completed

LEMMA StepStoreInv == StoreInv /\ [Next]_vars => StoreInv'
<1> SUFFICES ASSUME StoreInv, [Next]_vars PROVE StoreInv'
  OBVIOUS
<1>0. TypeOK
  BY DEF StoreInv
<1>1. ASSUME NEW u \in Units, NEW o \in Owners, NEW ts \in Timestamps,
             ClaimStep(u, o, ts)
      PROVE  StoreInv'
  <2>1. CASE ~ Completed(u) /\ NewGeneration(u, o, ts)
    BY <1>0, <1>1, <2>1, ClaimKinds, NewGenerationKeepsInv
  <2>2. CASE UNCHANGED <<lease, granted, touched>>
    BY <1>0, <1>1, <2>2, ClaimKinds, EnvironmentKeepsInv DEF TypeOK
  <2> QED BY <1>0, <1>1, <2>1, <2>2, ClaimKinds
<1>2. ASSUME NEW l \in granted, ClientStep(l) PROVE StoreInv'
  <2>1. ASSUME NEW resume \in BOOLEAN, MarkRetryWait(l, resume) PROVE StoreInv'
    BY <2>1, MarkRetryWaitKeepsInv
  <2>2. ASSUME NEW ts \in Timestamps, NEW resume \in BOOLEAN,
               Recover(l, ts, resume)
        PROVE  StoreInv'
    BY <2>2, RecoverKeepsInv
  <2>3. ASSUME NEW ts \in Timestamps, Heartbeat(l, ts) PROVE StoreInv'
    BY <2>3, RefreshKeepsInv DEF Heartbeat, Matches
  <2>4. ASSUME PublishCheckpoint(l) PROVE StoreInv'
    BY <2>4, PublishCheckpointKeepsInv
  <2>5. ASSUME NEW event \in {"analysis_completed", "progress"},
               RecordTaskEvent(l, event)
        PROVE  StoreInv'
    <3>1. now \in Timestamps
      BY <1>0 DEF TypeOK, Timestamps
    <3> QED BY <2>5, <3>1, RefreshKeepsInv DEF RecordTaskEvent
  <2>6. ASSUME NEW out \in Outcomes, NEW upto \in 1..3,
               PublishTerminal(l, out, upto)
        PROVE  StoreInv'
    BY <2>6, PublishTerminalKeepsInv
  <2> QED
    BY <1>2, <2>1, <2>2, <2>3, <2>4, <2>5, <2>6 DEF ClientStep
<1>3. ASSUME NEW u \in Units, NEW ts \in Timestamps, Quarantine(u, ts)
      PROVE  StoreInv'
  BY <1>3, QuarantineKeepsInv
<1>4. ASSUME NEW s \in Subjects, BeginSubjectDrain(s) \/ ClearSubjectDrain(s)
      PROVE  StoreInv'
  BY <1>0, <1>4, EnvironmentKeepsInv DEF TypeOK, BeginSubjectDrain, ClearSubjectDrain
<1>5. ASSUME NEW o \in Owners, Crash(o) PROVE StoreInv'
  BY <1>0, <1>5, EnvironmentKeepsInv DEF TypeOK, Crash
<1>6. CASE Tick
  BY <1>0, <1>6, EnvironmentKeepsInv DEF TypeOK, Tick
<1>7. CASE UNCHANGED vars
  BY <1>0, <1>7, EnvironmentKeepsInv DEF TypeOK, vars
<1> QED
  BY <1>1, <1>2, <1>3, <1>4, <1>5, <1>6, <1>7 DEF Next

\* The invariant every other theorem about the lease store rests on.
THEOREM StoreInvariant == Spec => []StoreInv
<1> QED
  BY InitStoreInv, StepStoreInv, PTL DEF Spec

\* The store's files always have the shape the code expects to read.
THEOREM StoreTypeCorrect == Spec => []TypeOK
<1> QED
  BY StoreInvariant, PTL DEF StoreInv

\* No fence number of a unit is ever shared by two owners.
THEOREM StoreFencesUnique == Spec => []FencesUnique
<1> QED
  BY StoreInvariant, PTL DEF StoreInv

\* A completed lease always has its completion on disk, and its captures an
\* authoritative result.
THEOREM StoreCompletedIsDurable == Spec => []CompletedIsDurable
<1> QED
  BY StoreInvariant, PTL DEF StoreInv

\* Results come from granted leases, and the latest pointers name such results.
THEOREM StoreResultIsGranted == Spec => []ResultIsGranted
<1> QED
  BY StoreInvariant, PTL DEF StoreInv

\* One infrastructure recovery in the life of a unit.
THEOREM StoreRecoveredAtMostOnce == Spec => []RecoveredAtMostOnce
<1>1. StoreInv => RecoveredAtMostOnce
  BY DEF StoreInv, RecoveriesCounted, RecoveredAtMostOnce
<1> QED
  BY <1>1, StoreInvariant, PTL

\* A generation told to resume follows a recorded analysis of its unit.
THEOREM StoreResumeFollowsAnalysis == Spec => []ResumeFollowsAnalysis
<1> QED
  BY StoreInvariant, PTL DEF StoreInv

-----------------------------------------------------------------------------
\* Leases are only ever taken from an owner that was silent for a TTL.
THEOREM StoreTakeoverOnlyAfterSilence == Spec => TakeoverOnlyAfterSilence
<1> DEFINE Silent ==
      \A u \in Units :
        /\ lease[u].status = "claimed"
        /\ \/ lease'[u].owner # lease[u].owner
           \/ lease'[u].status = "quarantined"
        => now - touched[u] >= TTL - LockDelay
<1>1. StoreInv /\ [Next]_vars => [Silent]_vars
  <2> SUFFICES ASSUME StoreInv, Next, NEW u \in Units,
                      lease[u].status = "claimed",
                      \/ lease'[u].owner # lease[u].owner
                      \/ lease'[u].status = "quarantined"
               PROVE  now - touched[u] >= TTL - LockDelay
    OBVIOUS
  <2>0. /\ TypeOK /\ lease[u] \in LeaseFile /\ touched[u] \in Nat /\ now \in Nat
        /\ lease[u].heartbeat \in Int
        /\ lease[u].heartbeat >= touched[u] - LockDelay
    BY DEF StoreInv, TypeOK, HeartbeatIsRecent, LeaseFile
  <2>1. ASSUME NEW v \in Units, NEW o \in Owners, NEW ts \in Timestamps,
               ClaimStep(v, o, ts)
        PROVE  now - touched[u] >= TTL - LockDelay
    <3>0. ~ Fresh(v, ts) /\ NewGeneration(v, o, ts)
      BY <2>0, <2>1, ClaimKinds
    <3>1. CASE v = u
      BY <2>0, <2>1, <3>0, <3>1 DEF Fresh, Timestamps
    <3>2. CASE v # u
      BY <2>0, <3>0, <3>2 DEF NewGeneration, TypeOK
    <3> QED BY <3>1, <3>2
  <2>2. ASSUME NEW l \in granted, ClientStep(l)
        PROVE  now - touched[u] >= TTL - LockDelay
    <3>0. l \in Lease /\ l.unit \in Units /\ lease[l.unit] \in LeaseFile
      BY <2>0 DEF TypeOK, Lease
    <3>1. ASSUME NEW resume \in BOOLEAN, MarkRetryWait(l, resume)
          PROVE  lease'[u].owner = lease[u].owner /\ lease'[u].status # "quarantined"
      BY <2>0, <3>0, <3>1 DEF MarkRetryWait, TypeOK, LeaseFile
    <3>2. ASSUME NEW ts \in Timestamps, NEW resume \in BOOLEAN, Recover(l, ts, resume)
          PROVE  lease'[u].owner = lease[u].owner /\ lease'[u].status # "quarantined"
      BY <2>0, <3>0, <3>2 DEF Recover, Matches, Names, TypeOK, ClaimedFile
    <3>3. ASSUME NEW ts \in Int,
                 lease' = [lease EXCEPT ![l.unit].heartbeat = ts]
          PROVE  lease'[u].owner = lease[u].owner /\ lease'[u].status # "quarantined"
      BY <2>0, <3>0, <3>3 DEF TypeOK, LeaseFile
    <3>4. ASSUME PublishCheckpoint(l)
          PROVE  lease'[u].owner = lease[u].owner /\ lease'[u].status # "quarantined"
      BY <3>4 DEF PublishCheckpoint
    <3>5. ASSUME NEW out \in Outcomes, NEW upto \in 1..3, PublishTerminal(l, out, upto)
          PROVE  lease'[u].owner = lease[u].owner /\ lease'[u].status # "quarantined"
      BY <2>0, <3>0, <3>5 DEF PublishTerminal, TypeOK, LeaseFile
    <3>6. ASSUME NEW ts \in Timestamps, Heartbeat(l, ts)
          PROVE  lease'[u].owner = lease[u].owner /\ lease'[u].status # "quarantined"
      BY <2>0, <3>3, <3>6 DEF Heartbeat, Timestamps
    <3>7. ASSUME NEW event \in {"analysis_completed", "progress"},
                 RecordTaskEvent(l, event)
          PROVE  lease'[u].owner = lease[u].owner /\ lease'[u].status # "quarantined"
      BY <2>0, <3>3, <3>7 DEF RecordTaskEvent
    <3> QED
      BY <2>2, <3>1, <3>2, <3>4, <3>5, <3>6, <3>7 DEF ClientStep
  <2>3. ASSUME NEW v \in Units, NEW ts \in Timestamps, Quarantine(v, ts)
        PROVE  now - touched[u] >= TTL - LockDelay
    <3>1. CASE v = u
      BY <2>0, <2>3, <3>1 DEF Quarantine, Timestamps
    <3>2. CASE v # u
      BY <2>0, <2>3, <3>2 DEF Quarantine, TypeOK
    <3> QED BY <3>1, <3>2
  <2>4. ASSUME UNCHANGED lease PROVE FALSE
    BY <2>4
  <2>5. ASSUME NEW s \in Subjects, BeginSubjectDrain(s) \/ ClearSubjectDrain(s)
        PROVE  FALSE
    BY <2>4, <2>5 DEF BeginSubjectDrain, ClearSubjectDrain
  <2>6. ASSUME NEW o \in Owners, Crash(o) PROVE FALSE
    BY <2>4, <2>6 DEF Crash
  <2>7. ASSUME Tick PROVE FALSE
    BY <2>4, <2>7 DEF Tick
  <2> QED
    BY <2>1, <2>2, <2>3, <2>5, <2>6, <2>7 DEF Next
<1> QED
  BY <1>1, StoreInvariant, PTL DEF Spec, TakeoverOnlyAfterSilence

\* What a step does to the records of a unit.
RecordsKept(u) ==
  /\ Completed(u) => completion'[u] = completion[u]
  /\ ckptLatest'[u] >= ckptLatest[u]
  /\ detail'[u].fence >= detail[u].fence
  /\ lease'[u].fence >= lease[u].fence

\* No step of the store takes a record back.
LEMMA StepKeepsRecords ==
  ASSUME StoreInv, Next, NEW u \in Units
  PROVE  RecordsKept(u)
<1> DEFINE Goal == /\ Completed(u) => completion'[u] = completion[u]
                   /\ ckptLatest'[u] >= ckptLatest[u]
                   /\ detail'[u].fence >= detail[u].fence
                   /\ lease'[u].fence >= lease[u].fence
<1>0. /\ TypeOK /\ lease[u].fence \in Nat /\ ckptLatest[u] \in Nat
      /\ detail[u].fence \in Nat /\ ckptLatest[u] <= lease[u].fence
      /\ detail[u].fence <= lease[u].fence
  BY DEF StoreInv, TypeOK, PointersBelowFile, LeaseFile, Detail
<1>1. ASSUME NEW v \in Units, NEW o \in Owners, NEW ts \in Timestamps,
             ClaimStep(v, o, ts)
      PROVE  Goal
  <2>1. lease'[u] = lease[u] \/ lease'[u].fence = lease[u].fence + 1
    BY <1>0, <1>1, ClaimKinds DEF NewGeneration, TypeOK, ClaimedFile
  <2> QED BY <2>1, <1>0, <1>1, ClaimKinds
<1>2. ASSUME NEW l \in granted, ClientStep(l) PROVE Goal
  <2>0. l \in Lease /\ l.unit \in Units /\ l.fence \in Nat /\ lease[l.unit] \in LeaseFile
    BY <1>0 DEF TypeOK, Lease
  <2>1. ASSUME NEW resume \in BOOLEAN, MarkRetryWait(l, resume) PROVE Goal
    <3>1. lease'[u].fence = lease[u].fence
      BY <1>0, <2>0, <2>1 DEF MarkRetryWait, TypeOK, LeaseFile
    <3> QED BY <3>1, <1>0, <2>1 DEF MarkRetryWait
  <2>2. ASSUME NEW ts \in Timestamps, NEW resume \in BOOLEAN, Recover(l, ts, resume)
        PROVE  Goal
    <3>1. lease'[u] = lease[u] \/ lease'[u].fence = lease[u].fence + 1
      BY <1>0, <2>0, <2>2 DEF Recover, Matches, Names, TypeOK, ClaimedFile
    <3> QED BY <3>1, <1>0, <2>2 DEF Recover
  <2>3. ASSUME NEW ts \in Timestamps, Heartbeat(l, ts) PROVE Goal
    <3>1. lease'[u].fence = lease[u].fence
      BY <1>0, <2>0, <2>3 DEF Heartbeat, TypeOK, LeaseFile
    <3> QED BY <3>1, <1>0, <2>3 DEF Heartbeat
  <2>4. ASSUME PublishCheckpoint(l) PROVE Goal
    BY <1>0, <2>0, <2>4 DEF PublishCheckpoint, Matches, Names, TypeOK
  <2>5. ASSUME NEW event \in {"analysis_completed", "progress"},
               RecordTaskEvent(l, event)
        PROVE  Goal
    <3>1. lease'[u].fence = lease[u].fence
      BY <1>0, <2>0, <2>5 DEF RecordTaskEvent, TypeOK, LeaseFile
    <3>2. detail'[u] = detail[u] \/ detail'[u].fence = lease[u].fence
      BY <1>0, <2>0, <2>5 DEF RecordTaskEvent, Names, TypeOK
    <3> QED BY <3>1, <3>2, <1>0, <2>5 DEF RecordTaskEvent
  <2>6. ASSUME NEW out \in Outcomes, NEW upto \in 1..3, PublishTerminal(l, out, upto)
        PROVE  Goal
    <3>1. lease'[u].fence = lease[u].fence
      BY <1>0, <2>0, <2>6 DEF PublishTerminal, TypeOK, LeaseFile
    <3>2. Completed(u) => completion'[u] = completion[u]
      BY <1>0, <2>0, <2>6 DEF PublishTerminal, TypeOK
    <3> QED BY <3>1, <3>2, <1>0, <2>6 DEF PublishTerminal
  <2> QED
    BY <1>2, <2>1, <2>2, <2>3, <2>4, <2>5, <2>6 DEF ClientStep
<1>3. ASSUME NEW v \in Units, NEW ts \in Timestamps, Quarantine(v, ts) PROVE Goal
  <2>1. lease[v] \in LeaseFile
    BY <1>0 DEF TypeOK
  <2>2. lease'[u] = lease[u] \/ lease'[u].fence = lease[u].fence + 1
    BY <1>0, <1>3, <2>1 DEF Quarantine, TypeOK, LeaseFile
  <2> QED BY <2>2, <1>0, <1>3 DEF Quarantine
<1>4. ASSUME NEW s \in Subjects, BeginSubjectDrain(s) \/ ClearSubjectDrain(s)
      PROVE  Goal
  BY <1>0, <1>4 DEF BeginSubjectDrain, ClearSubjectDrain
<1>5. ASSUME NEW o \in Owners, Crash(o) PROVE Goal
  BY <1>0, <1>5 DEF Crash
<1>6. ASSUME Tick PROVE Goal
  BY <1>0, <1>6 DEF Tick
<1> QED
  BY <1>1, <1>2, <1>3, <1>4, <1>5, <1>6 DEF Next, RecordsKept

\* The completion is final, and no pointer moves back to an older generation.
THEOREM StoreRecordsNeverRegress == Spec => RecordsNeverRegress
<1> DEFINE Kept == \A u \in Units : RecordsKept(u)
<1>1. StoreInv /\ [Next]_vars => [Kept]_vars
  BY StepKeepsRecords
<1>2. Kept => \A u \in Units :
                /\ Completed(u) => completion'[u] = completion[u]
                /\ ckptLatest'[u] >= ckptLatest[u]
                /\ detail'[u].fence >= detail[u].fence
                /\ lease'[u].fence >= lease[u].fence
  BY DEF RecordsKept
<1> QED
  BY <1>1, <1>2, StoreInvariant, PTL DEF Spec, RecordsNeverRegress

\* A draining subject takes up no unit but the canary's and the allowlists'.
THEOREM StoreDrainIsKept == Spec => DrainIsKept
<1> DEFINE By(u) ==
      \/ lease'[u].owner = lease[u].owner /\ regenerated'[u] > regenerated[u]
      \/ lease[u].status = "absent"
      \/ \E a \in Allowlists : <<a, u>> \in consumed' \ consumed
<1> DEFINE Kept ==
      \A u \in Units :
        /\ SubjectOf[u] \in draining
        /\ lease'[u].status = "claimed" /\ lease'[u].fence # lease[u].fence
        => By(u)
<1>1. StoreInv /\ [Next]_vars => [Kept]_vars
  <2> SUFFICES ASSUME StoreInv, Next, NEW u \in Units, SubjectOf[u] \in draining,
                      lease'[u].status = "claimed", lease'[u].fence # lease[u].fence
               PROVE  By(u)
    OBVIOUS
  <2>0. /\ TypeOK /\ lease[u] \in LeaseFile /\ regenerated[u] \in Nat
    BY DEF StoreInv, TypeOK
  <2>1. ASSUME NEW v \in Units, NEW o \in Owners, NEW ts \in Timestamps,
               ClaimStep(v, o, ts)
        PROVE  By(u)
    <3>1. CASE Claim(v, o, ts)
      <4>1. lease'[u] = lease[u] \/ u = v
        BY <2>0, <3>1 DEF Claim, NewGeneration, TypeOK
      <4> QED BY <3>1, <4>1 DEF Claim
    <3>2. CASE ClaimCanary(v, o, ts)
      <4>1. lease'[u] = lease[u] \/ u = v
        BY <2>0, <3>2 DEF ClaimCanary, NewGeneration, TypeOK
      <4> QED BY <3>2, <4>1, <2>0 DEF ClaimCanary
    <3>3. ASSUME NEW a \in Allowlists, ClaimReplay(a, v, o, ts) PROVE By(u)
      <4>1. lease'[u] = lease[u] \/ u = v
        BY <2>0, <3>3 DEF ClaimReplay, NewGeneration, TypeOK
      <4>2. <<a, v>> \in consumed' \ consumed
        BY <3>3 DEF ClaimReplay
      <4> QED BY <4>1, <4>2
    <3> QED BY <2>1, <3>1, <3>2, <3>3 DEF ClaimStep
  <2>2. ASSUME NEW l \in granted, ClientStep(l)
        PROVE  By(u)
    <3>0. l \in Lease /\ l.unit \in Units /\ lease[l.unit] \in LeaseFile
      BY <2>0 DEF TypeOK, Lease
    <3>1. ASSUME NEW resume \in BOOLEAN, MarkRetryWait(l, resume)
          PROVE  FALSE
      BY <2>0, <3>0, <3>1 DEF MarkRetryWait, TypeOK, LeaseFile
    <3>2. ASSUME NEW ts \in Timestamps, NEW resume \in BOOLEAN, Recover(l, ts, resume)
          PROVE  By(u)
      <4>1. lease'[u] = lease[u] \/ u = l.unit
        BY <2>0, <3>0, <3>2 DEF Recover, TypeOK
      <4>2. u = l.unit
        BY <4>1
      <4>3. lease'[u].owner = l.owner /\ lease[u].owner = l.owner
        BY <2>0, <3>2, <4>2 DEF Recover, Matches, Names, ClaimedFile, TypeOK
      <4>4. regenerated'[u] = regenerated[u] + 1
        BY <2>0, <3>2, <4>2 DEF Recover, TypeOK
      <4> QED BY <4>3, <4>4, <2>0
    <3>3. ASSUME NEW ts \in Int, lease' = [lease EXCEPT ![l.unit].heartbeat = ts]
          PROVE  FALSE
      BY <2>0, <3>0, <3>3 DEF TypeOK, LeaseFile
    <3>4. ASSUME PublishCheckpoint(l) PROVE FALSE
      BY <3>4 DEF PublishCheckpoint
    <3>5. ASSUME NEW out \in Outcomes, NEW upto \in 1..3, PublishTerminal(l, out, upto)
          PROVE  FALSE
      BY <2>0, <3>0, <3>5 DEF PublishTerminal, TypeOK, LeaseFile
    <3>6. ASSUME NEW ts \in Timestamps, Heartbeat(l, ts)
          PROVE  FALSE
      BY <2>0, <3>3, <3>6 DEF Heartbeat, Timestamps, TypeOK
    <3>7. ASSUME NEW event \in {"analysis_completed", "progress"},
                 RecordTaskEvent(l, event)
          PROVE  FALSE
      BY <2>0, <3>3, <3>7 DEF RecordTaskEvent, TypeOK
    <3> QED
      BY <2>2, <3>1, <3>2, <3>4, <3>5, <3>6, <3>7 DEF ClientStep
  <2>3. ASSUME NEW v \in Units, NEW ts \in Timestamps, Quarantine(v, ts)
        PROVE  FALSE
    BY <2>0, <2>3 DEF Quarantine, TypeOK
  <2>4. ASSUME NEW r \in Subjects, BeginSubjectDrain(r) \/ ClearSubjectDrain(r)
        PROVE  FALSE
    BY <2>4 DEF BeginSubjectDrain, ClearSubjectDrain
  <2>5. ASSUME NEW o \in Owners, Crash(o) PROVE FALSE
    BY <2>5 DEF Crash
  <2>6. ASSUME Tick PROVE FALSE
    BY <2>6 DEF Tick
  <2> QED
    BY <2>1, <2>2, <2>3, <2>4, <2>5, <2>6 DEF Next
<1> QED
  BY <1>1, StoreInvariant, PTL DEF Spec, DrainIsKept

-----------------------------------------------------------------------------
\* Step simulation: every step of the store is a step of the ledger or leaves
\* it unchanged.
LEMMA StoreStepSimulates ==
  ASSUME StoreInv, [Next]_vars
  PROVE  [Ledger!LedgerNext]_Ledger!ledgerVars
<1> DEFINE gen == [u \in Units |-> lease[u].fence]
           Sim == [Ledger!LedgerNext]_Ledger!ledgerVars
<1> USE DEF Ledger!LedgerNext, Ledger!ledgerVars
<1>0. TypeOK
  BY DEF StoreInv
<1>1. ASSUME NEW u \in Units, NEW o \in Owners, NEW ts \in Timestamps,
             ClaimStep(u, o, ts)
      PROVE  Sim
  <2>1. CASE NewGeneration(u, o, ts)
    <3>1. gen' = [gen EXCEPT ![u] = @ + 1]
      BY <1>0, <2>1 DEF NewGeneration, TypeOK, ClaimedFile
    <3>2. Ledger!Grant(u, o)
      BY <1>0, <1>1, <2>1, <3>1, ClaimKinds DEF NewGeneration, Ledger!Grant
    <3> QED BY <3>2
  <2>2. CASE UNCHANGED <<lease, granted>>
    BY <1>0, <1>1, <2>2, ClaimKinds
  <2> QED BY <1>0, <1>1, <2>1, <2>2, ClaimKinds
<1>2. ASSUME NEW l \in granted, ClientStep(l) PROVE Sim
  <2>0. l \in Lease /\ l.unit \in Units /\ l.owner \in Owners
        /\ lease[l.unit] \in LeaseFile
    BY <1>0 DEF TypeOK, Lease
  <2>1. ASSUME NEW resume \in BOOLEAN, MarkRetryWait(l, resume) PROVE Sim
    <3>1. gen' = gen
      BY <1>0, <2>0, <2>1 DEF MarkRetryWait, TypeOK, LeaseFile
    <3> QED BY <3>1, <2>1 DEF MarkRetryWait
  <2>2. ASSUME NEW ts \in Timestamps, NEW resume \in BOOLEAN, Recover(l, ts, resume)
        PROVE  Sim
    <3>1. gen' = [gen EXCEPT ![l.unit] = @ + 1] /\ gen[l.unit] = l.fence
      BY <1>0, <2>0, <2>2 DEF Recover, Matches, Names, TypeOK, ClaimedFile
    <3>2. Ledger!Grant(l.unit, l.owner)
      BY <3>1, <2>2 DEF Recover, Ledger!Grant
    <3> QED BY <3>2, <2>0
  <2>3. ASSUME NEW ts \in Timestamps,
               lease' = [lease EXCEPT ![l.unit].heartbeat = ts],
               UNCHANGED <<granted, completion>>
        PROVE  Sim
    <3>1. gen' = gen
      BY <1>0, <2>0, <2>3 DEF TypeOK, LeaseFile
    <3> QED BY <3>1, <2>3
  <2>4. ASSUME PublishCheckpoint(l) PROVE Sim
    BY <2>4 DEF PublishCheckpoint
  <2>5. ASSUME NEW out \in Outcomes, NEW upto \in 1..3, PublishTerminal(l, out, upto)
        PROVE  Sim
    <3>1. gen' = gen /\ gen[l.unit] = l.fence /\ lease[l.unit].owner = l.owner
      BY <1>0, <2>0, <2>5 DEF PublishTerminal, Matches, Names, TypeOK, LeaseFile
    <3>2. completion[l.unit] = Ledger!NoResult
      BY <2>0, <2>5 DEF PublishTerminal, StoreInv, NoTraceOfCompletion,
        NoCompletion, Ledger!NoResult
    <3>3. [unit |-> l.unit, owner |-> l.owner, fence |-> gen[l.unit]] \in granted
      BY <3>1, <2>0, <2>5 DEF PublishTerminal, Matches, Names, StoreInv, ClaimedIsGranted
    <3>4. Ledger!Decide(l.unit, l.owner, out)
      BY <3>1, <3>2, <3>3, <2>5 DEF PublishTerminal, Ledger!Decide
    <3> QED BY <3>4, <2>0
  <2>6. ASSUME NEW ts \in Timestamps, Heartbeat(l, ts) PROVE Sim
    BY <2>3, <2>6 DEF Heartbeat
  <2>7. ASSUME NEW event \in {"analysis_completed", "progress"},
               RecordTaskEvent(l, event)
        PROVE  Sim
    <3>1. now \in Timestamps
      BY <1>0 DEF TypeOK, Timestamps
    <3> QED BY <3>1, <2>3, <2>7 DEF RecordTaskEvent
  <2> QED
    BY <1>2, <2>1, <2>2, <2>4, <2>5, <2>6, <2>7 DEF ClientStep
<1>3. ASSUME NEW u \in Units, NEW ts \in Timestamps, Quarantine(u, ts) PROVE Sim
  <2>0. lease[u] \in LeaseFile
    BY <1>0 DEF TypeOK
  <2>1. gen' = [gen EXCEPT ![u] = @ + 1]
    BY <1>0, <1>3, <2>0 DEF Quarantine, TypeOK, LeaseFile
  <2>2. Ledger!Revoke(u)
    BY <2>1, <1>3 DEF Quarantine, Ledger!Revoke
  <2> QED BY <2>2
<1>4. ASSUME NEW s \in Subjects, BeginSubjectDrain(s) \/ ClearSubjectDrain(s)
      PROVE  Sim
  BY <1>4 DEF BeginSubjectDrain, ClearSubjectDrain
<1>5. ASSUME NEW o \in Owners, Crash(o) PROVE Sim
  BY <1>5 DEF Crash
<1>6. CASE Tick
  BY <1>6 DEF Tick
<1>7. CASE UNCHANGED vars
  BY <1>7 DEF vars
<1> QED
  BY <1>1, <1>2, <1>3, <1>4, <1>5, <1>6, <1>7 DEF Next

\* The store refines the abstract ledger: one numbered holder at a time, one
\* result per unit, decided by the newest holder.
THEOREM StoreImplementsLedger == Spec => ImplementsLedger
<1>1. Init => Ledger!LedgerInit
  BY DEF Init, NoLease, NoCompletion, Ledger!LedgerInit, Ledger!NoResult
<1>2. StoreInv /\ [Next]_vars => [Ledger!LedgerNext]_Ledger!ledgerVars
  BY StoreStepSimulates
<1> QED
  BY <1>1, <1>2, StoreInvariant, PTL DEF Spec, ImplementsLedger, Ledger!LedgerSpec
=============================================================================
