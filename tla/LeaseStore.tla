----------------------------- MODULE LeaseStore -----------------------------
(***************************************************************************)
(* The durable coordination store of lib/concurrent_dispatch.py: one lease *)
(* file, one write-once completion, one mutable checkpoint pointer and one *)
(* task detail per frozen unit, and one mutable "latest" pointer per       *)
(* capture, which every unit frozen from that capture moves.  All are      *)
(* read and written by any number of dispatcher processes under one        *)
(* exclusive file lock.  Every locked section is one action; a section     *)
(* that makes several durable writes before it releases the lock also has  *)
(* an action for each prefix of them, for the crash or I/O error in        *)
(* between.  A client may use any lease it was ever given, in any order,   *)
(* however late: the store alone has to make that safe.                    *)
(*                                                                         *)
(* touched and regenerated are history variables: the code has no such     *)
(* state, no action reads them.                                            *)
(***************************************************************************)
EXTENDS Integers, FiniteSets

CONSTANTS
  Units,        \* frozen unique units (unit_sha256)
  Owners,       \* dispatcher incarnations: "dispatcher-<pid>-<uuid>"
  Subjects,     \* math, cs408, english
  SubjectOf,    \* the subject of each unit
  Outcomes,     \* terminal outcomes
  Captures,     \* captures the units were frozen from
  CapturesOf,   \* captures of each unit: its own, or its math group's
  Allowlists,   \* controlled-replay allowlists an operator sealed
  TasksOf,      \* the units each of them names
  NoOwner,      \* the owner of a lease file that does not exist
  NoUnit,       \* the unit a missing latest pointer names
  TTL,          \* LEASE_TTL_SECONDS
  LockDelay,    \* longest wait for the lock after the caller read the clock
  MaxTime,      \* model bound: last clock value
  MaxFence      \* model bound: last lease generation of a unit

ASSUME StoreAssumption ==
  /\ SubjectOf \in [Units -> Subjects]
  /\ CapturesOf \in [Units -> SUBSET Captures]
  /\ TasksOf \in [Allowlists -> SUBSET Units]
  /\ NoUnit \notin Units
  /\ NoOwner \notin Owners
  /\ TTL \in Nat \ {0}
  /\ LockDelay \in Nat
  /\ MaxTime \in Nat
  /\ MaxFence \in Nat

VARIABLES
  lease,        \* lease file of each unit
  completion,   \* immutable completion of each unit; fence 0 when absent
  latest,       \* authoritative-latest pointer of each capture
  ckptLatest,   \* source_fence of the latest-checkpoint pointer, 0: absent
  ckptEvents,   \* leases with an indexed analysis_completed event
  detail,       \* lease that wrote the task detail last
  draining,     \* subjects whose drain file exists
  consumed,     \* <<allowlist, unit>>: marker of a replay already begun
  granted,      \* leases ever handed out: what a client may still hold
  alive,        \* running dispatcher processes
  now,          \* wall clock
  touched,      \* history: clock at the last refresh of each lease
  regenerated   \* history: crash recoveries granted to each unit

vars == <<lease, completion, latest, ckptLatest, ckptEvents, detail,
          draining, consumed, granted, alive, now, touched, regenerated>>

Statuses == {"absent", "claimed", "retry_wait", "quarantined", "completed"}

Lease == [unit : Units, owner : Owners, fence : Nat]

LeaseFile == [owner : Owners \cup {NoOwner}, fence : Nat, status : Statuses,
              heartbeat : Int, recoveries : Nat, resume : BOOLEAN]

Completion == [fence : Nat, owner : Owners \cup {NoOwner},
               outcome : Outcomes \cup {"none"}]

Pointer == [unit : Units \cup {NoUnit}, fence : Nat]

Detail == [owner : Owners \cup {NoOwner}, fence : Nat]

TypeOK ==
  /\ lease \in [Units -> LeaseFile]
  /\ completion \in [Units -> Completion]
  /\ latest \in [Captures -> Pointer]
  /\ ckptLatest \in [Units -> Nat]
  /\ ckptEvents \subseteq Lease
  /\ detail \in [Units -> Detail]
  /\ draining \subseteq Subjects
  /\ consumed \subseteq Allowlists \X Units
  /\ granted \subseteq Lease
  /\ alive \subseteq Owners
  /\ now \in Nat
  /\ touched \in [Units -> Nat]
  /\ regenerated \in [Units -> Nat]

NoLease == [owner |-> NoOwner, fence |-> 0, status |-> "absent",
            heartbeat |-> 0, recoveries |-> 0, resume |-> FALSE]

NoCompletion == [fence |-> 0, owner |-> NoOwner, outcome |-> "none"]

NoPointer == [unit |-> NoUnit, fence |-> 0]

Init ==
  /\ lease = [u \in Units |-> NoLease]
  /\ completion = [u \in Units |-> NoCompletion]
  /\ latest = [c \in Captures |-> NoPointer]
  /\ ckptLatest = [u \in Units |-> 0]
  /\ ckptEvents = {}
  /\ detail = [u \in Units |-> [owner |-> NoOwner, fence |-> 0]]
  /\ draining = {}
  /\ consumed = {}
  /\ granted = {}
  /\ alive = Owners
  /\ now = 0
  /\ touched = [u \in Units |-> 0]
  /\ regenerated = [u \in Units |-> 0]

-----------------------------------------------------------------------------
Completed(u) == completion[u].fence # 0

\* Mutant: the owner is compared, the fence is not.
NamesOwnerOnly(l) == lease[l.unit].owner = l.owner

\* The lease l is the one the file names, whatever its status.
Names(l) == lease[l.unit].owner = l.owner /\ lease[l.unit].fence = l.fence

\* Mutant: _matches without the fence.
MatchesOwnerOnly(l) == /\ lease[l.unit].owner = l.owner
                       /\ lease[l.unit].status = "claimed"

\* LeaseStore._matches(value, lease, status="claimed").
Matches(l) == Names(l) /\ lease[l.unit].status = "claimed"

\* A caller reads the clock before it waits for the lock.
Timestamps == (now - LockDelay)..now

\* Mutant: the TTL is cut short by one.
FreshOffByOne(u, ts) == /\ lease[u].status = "claimed"
                        /\ ts - lease[u].heartbeat < TTL - 1

\* claim: a claimed lease heard of within the TTL stays with its owner.
Fresh(u, ts) == /\ lease[u].status = "claimed"
                /\ ts - lease[u].heartbeat < TTL

\* The lease file written for a new generation.
ClaimedFile(o, f, ts, recoveries, resume) ==
  [owner |-> o, fence |-> f, status |-> "claimed", heartbeat |-> ts,
   recoveries |-> recoveries, resume |-> resume]

Touch(u) == touched' = [touched EXCEPT ![u] = now]

\* lease_has_recoverable_analysis_checkpoint.
Recoverable(l) == l \in ckptEvents

-----------------------------------------------------------------------------
\* The last part of claim: a new generation of the unit, one above the file's.
\* The recovery count and the resume flag are carried over.
NewGeneration(u, o, ts) ==
  /\ lease[u].fence < MaxFence
  /\ lease' = [lease EXCEPT ![u] = ClaimedFile(o, lease[u].fence + 1, ts,
                                  lease[u].recoveries, lease[u].resume)]
  /\ granted' = granted \cup
       {[unit |-> u, owner |-> o, fence |-> lease[u].fence + 1]}
  /\ Touch(u)

\* Mutant of claim: the drain file is not looked at.
ClaimWhileDraining(u, o, ts) ==
  /\ o \in alive
  /\ ~ Completed(u) /\ ~ Fresh(u, ts)
  /\ NewGeneration(u, o, ts)
  /\ UNCHANGED <<completion, latest, ckptLatest, ckptEvents, detail,
                 draining, consumed, alive, now, regenerated>>

\* claim, plain path.  A completed or actively held unit is reported as such
\* with no write, so the action is the remaining case: no lease, a released
\* one (retry_wait, quarantined), or a claimed one gone silent.
Claim(u, o, ts) ==
  /\ o \in alive
  /\ SubjectOf[u] \notin draining
  /\ ~ Completed(u)
  /\ ~ Fresh(u, ts)
  /\ NewGeneration(u, o, ts)
  /\ UNCHANGED <<completion, latest, ckptLatest, ckptEvents, detail,
                 draining, consumed, alive, now, regenerated>>

\* claim, production_canary: it wants the drain file to be there, and a unit
\* the store never saw.  The gate that admits the unit is CanaryGate's.
ClaimCanary(u, o, ts) ==
  /\ o \in alive
  /\ SubjectOf[u] \in draining
  /\ ~ Completed(u)
  /\ lease[u].status = "absent"
  /\ NewGeneration(u, o, ts)
  /\ UNCHANGED <<completion, latest, ckptLatest, ckptEvents, detail,
                 draining, consumed, alive, now, regenerated>>

\* claim, controlled replay: the drain file is not looked at.  The unit's
\* marker under the allowlist is written first, also when nothing is claimed
\* then: the unit is completed or actively held, or the process dies.
ClaimReplay(a, u, o, ts) ==
  /\ o \in alive
  /\ u \in TasksOf[a] /\ <<a, u>> \notin consumed
  /\ consumed' = consumed \cup {<<a, u>>}
  /\ \/ ~ Completed(u) /\ ~ Fresh(u, ts) /\ NewGeneration(u, o, ts)
     \/ UNCHANGED <<lease, granted, touched>>
  /\ UNCHANGED <<completion, latest, ckptLatest, ckptEvents, detail,
                 draining, alive, now, regenerated>>

\* mark_retry_wait: the generation is over, the unit may be claimed again.
\* Every caller passes what lease_has_recoverable_analysis_checkpoint said of
\* this lease in an earlier locked section; events are never removed.
MarkRetryWait(l, resume) ==
  /\ l.owner \in alive
  /\ Matches(l)
  /\ resume => Recoverable(l)
  /\ lease' = [lease EXCEPT ![l.unit].status = "retry_wait",
                            ![l.unit].resume = resume]
  /\ UNCHANGED <<completion, latest, ckptLatest, ckptEvents, detail,
                 draining, consumed, granted, alive, now, touched, regenerated>>

\* Mutant: the recovery is not counted.
RecoverUncounted(l, ts, resume) ==
  /\ l.owner \in alive
  /\ Matches(l)
  /\ resume => Recoverable(l)
  /\ lease[l.unit].recoveries < 1
  /\ lease[l.unit].fence < MaxFence
  /\ lease' = [lease EXCEPT ![l.unit] = ClaimedFile(l.owner, l.fence + 1, ts,
                                  lease[l.unit].recoveries, resume)]
  /\ granted' = granted \cup
       {[unit |-> l.unit, owner |-> l.owner, fence |-> l.fence + 1]}
  /\ regenerated' = [regenerated EXCEPT ![l.unit] = @ + 1]
  /\ Touch(l.unit)
  /\ UNCHANGED <<completion, latest, ckptLatest, ckptEvents, detail,
                 draining, consumed, alive, now>>

\* recover_after_infrastructure_crash: the same owner, one generation later,
\* at most once in the life of the unit.
Recover(l, ts, resume) ==
  /\ l.owner \in alive
  /\ Matches(l)
  /\ resume => Recoverable(l)
  /\ lease[l.unit].recoveries < 1
  /\ lease[l.unit].fence < MaxFence
  /\ lease' = [lease EXCEPT ![l.unit] = ClaimedFile(l.owner, l.fence + 1, ts,
                                  lease[l.unit].recoveries + 1, resume)]
  /\ granted' = granted \cup
       {[unit |-> l.unit, owner |-> l.owner, fence |-> l.fence + 1]}
  /\ regenerated' = [regenerated EXCEPT ![l.unit] = @ + 1]
  /\ Touch(l.unit)
  /\ UNCHANGED <<completion, latest, ckptLatest, ckptEvents, detail,
                 draining, consumed, alive, now>>

Heartbeat(l, ts) ==
  /\ l.owner \in alive
  /\ Matches(l)
  /\ lease' = [lease EXCEPT ![l.unit].heartbeat = ts]
  /\ Touch(l.unit)
  /\ UNCHANGED <<completion, latest, ckptLatest, ckptEvents, detail,
                 draining, consumed, granted, alive, now, regenerated>>

\* publish_analysis_checkpoint: the content-addressed object is unreachable
\* until the pointer names it, so the pointer is the write that counts.
PublishCheckpoint(l) ==
  /\ l.owner \in alive
  /\ Matches(l)
  /\ ckptLatest' = [ckptLatest EXCEPT ![l.unit] = l.fence]
  /\ UNCHANGED <<lease, completion, latest, ckptEvents, detail, draining, consumed,
                 granted, alive, now, touched, regenerated>>

\* record_task_event checks the owner and the fence but not the status, reads
\* the clock under the lock, and may be called by a task process that
\* outlived its dispatcher.  Only the analysis_completed event is read back
\* by the store.  It carries the reference of a checkpoint: the one this store
\* published or, from the production task runner, the preprocessor's own.
RecordTaskEvent(l, event) ==
  /\ Names(l)
  /\ lease' = [lease EXCEPT ![l.unit].heartbeat = now]
  /\ \/ event = "analysis_completed" /\ ckptEvents' = ckptEvents \cup {l}
     \/ event = "progress" /\ UNCHANGED ckptEvents
  /\ detail' = [detail EXCEPT ![l.unit] = [owner |-> l.owner,
                                           fence |-> l.fence]]
  /\ Touch(l.unit)
  /\ UNCHANGED <<completion, latest, ckptLatest, draining, consumed, granted,
                 alive, now, regenerated>>

\* publish_terminal: package, reports, receipt and ledger entry are content
\* addressed and unreachable until the completion names them, so the writes
\* that count are the write-once completion, the latest pointer of each
\* capture of the unit in turn, and the lease.  upto = 1: only the completion
\* is made; 2: the pointers too, or some of them; 3: all.  Fewer than all is a
\* crash, an I/O error or a DispatchError in between.
PublishTerminal(l, out, upto) ==
  /\ l.owner \in alive
  /\ Matches(l)
  /\ ~ Completed(l.unit)
  /\ completion' = [completion EXCEPT ![l.unit] =
       [fence |-> l.fence, owner |-> l.owner, outcome |-> out]]
  /\ \E moved \in SUBSET CapturesOf[l.unit] :
       /\ upto = 1 => moved = {}
       /\ upto = 3 => moved = CapturesOf[l.unit]
       /\ latest' = [c \in Captures |->
            IF c \in moved THEN [unit |-> l.unit, fence |-> l.fence]
                           ELSE latest[c]]
  /\ lease' = IF upto = 3
              THEN [lease EXCEPT ![l.unit].status = "completed"]
              ELSE lease
  /\ UNCHANGED <<ckptLatest, ckptEvents, detail, draining, consumed, granted,
                 alive, now, touched, regenerated>>

\* quarantine_stale_claim(apply): an operator fences off the silent claim of
\* a dead process of a drained subject.  The receipt written first has the
\* same bytes on every retry, so a crash before the lease swap leaves nothing.
Quarantine(u, ts) ==
  /\ SubjectOf[u] \in draining
  /\ lease[u].status = "claimed"
  /\ ts > lease[u].heartbeat + TTL
  /\ lease[u].owner \notin alive
  /\ detail[u] = [owner |-> lease[u].owner, fence |-> lease[u].fence]
  /\ lease[u].fence < MaxFence
  /\ lease' = [lease EXCEPT ![u].status = "quarantined", ![u].fence = @ + 1]
  /\ UNCHANGED <<completion, latest, ckptLatest, ckptEvents, detail,
                 draining, consumed, granted, alive, now, touched, regenerated>>

BeginSubjectDrain(s) ==
  /\ draining' = draining \cup {s}
  /\ UNCHANGED <<lease, completion, latest, ckptLatest, ckptEvents, detail,
                 consumed, granted, alive, now, touched, regenerated>>

ClearSubjectDrain(s) ==
  /\ draining' = draining \ {s}
  /\ UNCHANGED <<lease, completion, latest, ckptLatest, ckptEvents, detail,
                 consumed, granted, alive, now, touched, regenerated>>

\* A dispatcher process dies; its restart is another owner.
Crash(o) ==
  /\ o \in alive
  /\ alive' = alive \ {o}
  /\ UNCHANGED <<lease, completion, latest, ckptLatest, ckptEvents,
                 detail, draining, consumed, granted, now, touched, regenerated>>

Tick ==
  /\ now < MaxTime
  /\ now' = now + 1
  /\ UNCHANGED <<lease, completion, latest, ckptLatest, ckptEvents,
                 detail, draining, consumed, granted, alive, touched, regenerated>>

ClaimStep(u, o, ts) ==
  \/ Claim(u, o, ts)
  \/ ClaimCanary(u, o, ts)
  \/ \E a \in Allowlists : ClaimReplay(a, u, o, ts)

ClientStep(l) ==
  \/ \E resume \in BOOLEAN : MarkRetryWait(l, resume)
  \/ \E ts \in Timestamps, resume \in BOOLEAN : Recover(l, ts, resume)
  \/ \E ts \in Timestamps : Heartbeat(l, ts)
  \/ PublishCheckpoint(l)
  \/ \E event \in {"analysis_completed", "progress"} : RecordTaskEvent(l, event)
  \/ \E out \in Outcomes, upto \in 1..3 : PublishTerminal(l, out, upto)

Next ==
  \/ \E u \in Units, o \in Owners, ts \in Timestamps : ClaimStep(u, o, ts)
  \/ \E l \in granted : ClientStep(l)
  \/ \E u \in Units, ts \in Timestamps : Quarantine(u, ts)
  \/ \E s \in Subjects : BeginSubjectDrain(s) \/ ClearSubjectDrain(s)
  \/ \E o \in Owners : Crash(o)
  \/ Tick

Spec == Init /\ [][Next]_vars

-----------------------------------------------------------------------------
\* A fence number of a unit is given to one owner only, across takeovers,
\* recoveries, retry waits, quarantines and restarts: whoever still holds an
\* old lease can never be taken for the current holder.
FencesUnique ==
  \A l1, l2 \in granted :
    l1.unit = l2.unit /\ l1.fence = l2.fence => l1.owner = l2.owner

\* The latest pointer of capture c names the durable result of a unit frozen
\* from c.
LatestIsResult(c) ==
  \E u \in Units :
    /\ c \in CapturesOf[u] /\ Completed(u)
    /\ latest[c] = [unit |-> u, fence |-> completion[u].fence]

\* A lease file that says completed speaks of the durable completion of its
\* unit, and each capture of the unit then has an authoritative result: this
\* unit's or that of another unit of the capture, whichever write of
\* publish_terminal a crash cut off in either of them.
CompletedIsDurable ==
  \A u \in Units :
    lease[u].status = "completed" =>
      /\ completion[u].fence = lease[u].fence
      /\ completion[u].owner = lease[u].owner
      /\ \A c \in CapturesOf[u] : LatestIsResult(c)

\* The result of a unit was written by a lease the store granted, and a latest
\* pointer never names anything but such a result.
ResultIsGranted ==
  /\ \A u \in Units :
       Completed(u) =>
         [unit |-> u, owner |-> completion[u].owner,
          fence |-> completion[u].fence] \in granted
  /\ \A c \in Captures : latest[c] # NoPointer => LatestIsResult(c)

\* A unit is regenerated after an infrastructure crash at most once, however
\* many retry waits, takeovers and quarantines follow the recovery.
RecoveredAtMostOnce == \A u \in Units : regenerated[u] <= 1

\* A generation told to resume from the analysis checkpoint follows, over any
\* number of takeovers, retry waits and recoveries, a generation of its own
\* unit whose analysis_completed event is on disk.
ResumeFollowsAnalysis ==
  \A u \in Units :
    lease[u].resume =>
      \E l \in ckptEvents : l.unit = u /\ l.fence <= lease[u].fence

\* A generation is replaced by another owner's, or fenced off by the operator,
\* only after the store heard nothing of it for a TTL, less the time a caller
\* waited for the lock with a clock value already read.
TakeoverOnlyAfterSilence ==
  [][\A u \in Units :
       /\ lease[u].status = "claimed"
       /\ \/ lease'[u].owner # lease[u].owner
          \/ lease'[u].status = "quarantined"
       => now - touched[u] >= TTL - LockDelay]_vars

\* What late holders may write never moves back: the completion is written
\* once, and the pointers and the task detail never return to an older
\* generation's.
RecordsNeverRegress ==
  [][\A u \in Units :
       /\ Completed(u) => completion'[u] = completion[u]
       /\ ckptLatest'[u] >= ckptLatest[u]
       /\ detail'[u].fence >= detail[u].fence
       /\ lease'[u].fence >= lease[u].fence]_vars

\* While a subject drains, a generation of one of its units begins in three
\* ways only: the holder's one crash recovery, the first generation of a unit
\* new to the store (a canary), or the marker of a sealed allowlist, written
\* in the same step.  Retry waits, quarantined units and silent claims, a
\* dead process's included, are not taken up again.
DrainIsKept ==
  [][\A u \in Units :
       /\ SubjectOf[u] \in draining
       /\ lease'[u].status = "claimed" /\ lease'[u].fence # lease[u].fence
       => \/ lease'[u].owner = lease[u].owner /\ regenerated'[u] > regenerated[u]
          \/ lease[u].status = "absent"
          \/ \E a \in Allowlists : <<a, u>> \in consumed' \ consumed]_vars

\* The store implements the abstract ledger.
Ledger == INSTANCE FencedLedger WITH
  newest <- [u \in Units |-> lease[u].fence],
  grants <- granted,
  result <- completion

ImplementsLedger == Ledger!LedgerSpec
=============================================================================
