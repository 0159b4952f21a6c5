-------------------------- MODULE DispatcherProofs --------------------------
(***************************************************************************)
(* The safety of the dispatcher's threads, for any units, owners and       *)
(* bounds.  Every step of a thread is a step of the lease store or leaves  *)
(* it alone, so the store's invariant holds here too; on it rests one      *)
(* inductive invariant of the threads, in parts: who may use which lease,  *)
(* who owns the ending of a unit, what draining leaves, who tends a claim  *)
(* or reported it, what a reported completion is worth, and that a recorded *)
(* analysis has its checkpoint.                                            *)
(***************************************************************************)
EXTENDS Dispatcher, LeaseStoreProofs

Workers == [at : WorkerPoints, fence : Nat, resume : BOOLEAN,
            outcome : Outcomes \cup {"none"}, result : Results]

\* The lease of the context bound to the handle of u.
BoundLease(u) == [unit |-> u, owner |-> Me, fence |-> bound[u]]

\* The emergency stop has chosen a unit, or owns the ending of one.
StopHolds == stop.at \in {"claiming", "publishing", "announcing", "popping"}
StopOwns == stop.at \in {"publishing", "announcing", "popping"}

\* Threads only use leases that were handed out to this dispatcher.
LeasesAreGranted ==
  /\ \A u \in Units : ~ At(u, "idle") => Held(u) \in granted
  /\ \A u \in Units : bound[u] # 0 => BoundLease(u) \in granted
  /\ \A u \in active \cup stop.todo : bound[u] # 0
  /\ \A u \in Units : ~ At(u, "idle") => bound[u] # 0
  /\ StopHolds => stop.unit \in Units /\ StopLease \in granted

\* A unit is ending if and only if its worker or the emergency stop ends it.
EndingsAreOwned ==
  /\ EndingHasOneOwner
  /\ \A u \in Units : At(u, "popping") => u \in finishing
  /\ StopOwns => stop.unit \in finishing
  /\ \A u \in Units : At(u, "claimed") => u \notin active
  /\ \A u \in Units : At(u, "launching") => u \notin finishing

\* Draining lets no worker start; until an emergency stop every worker that
\* did is in the list drain() waits for.
DrainWaitsForAll ==
  /\ closing => ConditionFree
  /\ drained \/ stop.at # "off" => closing
  /\ stop.at = "off" =>
       \A u \in Units : At(u, "idle") \/ At(u, "claimed") \/ u \in active
  /\ drained /\ stop.at = "off" => active = {}

\* u is claimed by this dispatcher.
Mine(u) == lease[u].owner = Me /\ lease[u].status = "claimed"

\* A worker uses its newest generation; once it has published, or says that it
\* was refused, the claim is over or the refusal is what it will report.
WorkerTends(u) ==
  /\ Mine(u) /\ ~ At(u, "idle") => worker[u].fence = lease[u].fence
  /\ At(u, "announcing") => ~ Mine(u)
  /\ worker[u].at \in {"finishing", "popping"} /\ Mine(u) =>
       worker[u].result.status = "publish_rejected"
WorkersTend == \A u \in Units : WorkerTends(u)

\* The same of the emergency stop.
StopTends ==
  /\ stop.at = "announcing" => ~ Mine(stop.unit)
  /\ stop.at = "popping" /\ Mine(stop.unit) =>
       stop.result.status = "publish_rejected"

\* The submitter of u was told that a claim may be left.
Reported(u) == result[u].status \in {"publish_rejected", "submit_raised"}

\* Only a claim whose handle is gone was reported, and a handle without a
\* worker is left to the emergency stop.
HandleReports(u) ==
  /\ Mine(u) => u \in active \/ At(u, "claimed") \/ Reported(u)
  /\ u \in active \/ At(u, "claimed") => result[u].status = "none"
  /\ At(u, "idle") /\ u \in active => u \in finishing
HandlesReport == \A u \in Units : HandleReports(u)

ClaimsHaveWorkers == WorkersTend /\ StopTends /\ HandlesReport

\* A runner that runs in stages records an analysis after its checkpoint.
AnalysesHaveCheckpoints ==
  ~ Opaque =>
    /\ \A l \in ckptEvents : ckptLatest[l.unit] # 0
    /\ \A u \in Units : At(u, "recording") => ckptLatest[u] # 0

\* The completion of u is this dispatcher's, with the outcome out.
Published(u, out) == completion[u].owner = Me /\ completion[u].outcome = out

\* What the result r says of unit u is true.
Truthful(u, r) == r.status = "completed" => Published(u, r.outcome)

ResultsAreTrue ==
  /\ \A u \in Units :
       /\ Truthful(u, result[u])
       /\ At(u, "announcing") => Published(u, worker[u].outcome)
       /\ worker[u].at \in {"finishing", "popping"} =>
            Truthful(u, worker[u].result)
  /\ stop.at = "announcing" => Published(stop.unit, "cancelled")
  /\ stop.at = "popping" => Truthful(stop.unit, stop.result)

\* A worker that has left its try block has an outcome.
Decided == {"retry_read", "crash_read", "publishing", "announcing"}
OutcomesAreDecided ==
  \A u \in Units : worker[u].at \in Decided => worker[u].outcome \in Outcomes

ThreadInv ==
  /\ OutcomesAreDecided /\ DispatcherTypeOK /\ LeasesAreGranted /\ EndingsAreOwned
  /\ DrainWaitsForAll /\ ClaimsHaveWorkers /\ ResultsAreTrue
  /\ AnalysesHaveCheckpoints

USE StoreAssumption, DispatcherAssumption

-----------------------------------------------------------------------------
(* Steps of the store.                                                     *)

\* A step of the store, which the threads do not notice: leases stay handed
\* out, completions stay, no unit becomes this dispatcher's or changes its
\* generation, checkpoints stay, and an event that appears has one.
Unnoticed ==
  /\ [Next]_vars
  /\ granted \subseteq granted'
  /\ \A u \in Units :
       /\ Completed(u) => completion'[u] = completion[u]
       /\ Mine(u)' => Mine(u) /\ lease'[u].fence = lease[u].fence
       /\ ckptLatest[u] # 0 => ckptLatest'[u] # 0
  /\ \A l \in ckptEvents' :
       l \in ckptEvents \/ Opaque \/ ckptLatest'[l.unit] # 0

\* The store's invariant and its consequences are at hand in every state.
LEMMA StoreFacts ==
  ASSUME StoreInv
  PROVE  /\ TypeOK /\ granted \subseteq Lease
         /\ \A l \in granted :
              /\ l.unit \in Units /\ l.owner \in Owners /\ l.fence \in Nat \ {0}
              /\ l.fence <= lease[l.unit].fence
         /\ \A u \in Units : lease[u] \in LeaseFile /\ lease[u].fence \in Nat
         /\ \A u \in Units : ~ Completed(u) => completion[u] = NoCompletion
         /\ now \in Timestamps /\ {Me, Rival} \subseteq Owners
  BY DEF StoreInv, TypeOK, GrantsBelowFile, Lease, LeaseFile,
     NoTraceOfCompletion, Timestamps

LEMMA NothingUnnoticed == UNCHANGED vars => Unnoticed
  BY DEF Unnoticed, vars, Completed, Mine

LEMMA EventUnnoticed ==
  ASSUME StoreInv, NEW l \in granted,
         NEW event \in {"analysis_completed", "progress"},
         RecordTaskEvent(l, event),
         event = "progress" \/ Opaque \/ ckptLatest[l.unit] # 0
  PROVE  /\ Unnoticed /\ Mine(l.unit)' = Mine(l.unit)
         /\ completion' = completion
<1>1. /\ [Next]_vars /\ completion' = completion /\ granted' = granted
      /\ ckptLatest' = ckptLatest
  BY DEF Next, ClientStep, RecordTaskEvent
<1>3. \/ ckptEvents' = ckptEvents
      \/ event = "analysis_completed" /\ ckptEvents' = ckptEvents \cup {l}
  BY DEF RecordTaskEvent
<1>2. \A u \in Units : /\ lease'[u].owner = lease[u].owner
                       /\ lease'[u].status = lease[u].status
                       /\ lease'[u].fence = lease[u].fence
  BY StoreFacts DEF RecordTaskEvent, TypeOK
<1> QED
  BY <1>1, <1>2, <1>3, StoreFacts DEF Unnoticed, Completed, Mine

LEMMA HeartbeatUnnoticed ==
  ASSUME StoreInv, NEW l \in granted, Heartbeat(l, now)
  PROVE  Unnoticed
<1>1. /\ [Next]_vars /\ completion' = completion /\ granted' = granted
      /\ UNCHANGED <<ckptLatest, ckptEvents>>
  BY StoreFacts DEF Next, ClientStep, Heartbeat
<1>2. \A u \in Units : /\ lease'[u].owner = lease[u].owner
                       /\ lease'[u].status = lease[u].status
                       /\ lease'[u].fence = lease[u].fence
  BY StoreFacts DEF Heartbeat, TypeOK
<1> QED
  BY <1>1, <1>2, StoreFacts DEF Unnoticed, Completed, Mine

LEMMA CheckpointUnnoticed ==
  ASSUME StoreInv, NEW l \in granted, PublishCheckpoint(l)
  PROVE  Unnoticed /\ ckptLatest'[l.unit] # 0
<1>1. /\ [Next]_vars /\ completion' = completion /\ granted' = granted
      /\ lease' = lease /\ ckptEvents' = ckptEvents
  BY DEF Next, ClientStep, PublishCheckpoint
<1>2. /\ ckptLatest'[l.unit] # 0
      /\ \A u \in Units : ckptLatest[u] # 0 => ckptLatest'[u] # 0
  BY StoreFacts DEF PublishCheckpoint, TypeOK
<1> QED
  BY <1>1, <1>2 DEF Unnoticed, Completed, Mine

LEMMA RetryWaitUnnoticed ==
  ASSUME StoreInv, NEW l \in granted, NEW resume \in BOOLEAN,
         MarkRetryWait(l, resume)
  PROVE  Unnoticed /\ ~ Mine(l.unit)'
<1>1. /\ [Next]_vars /\ completion' = completion /\ granted' = granted
      /\ UNCHANGED <<ckptLatest, ckptEvents>>
  BY DEF Next, ClientStep, MarkRetryWait
<1>2. \A u \in Units \ {l.unit} : lease'[u] = lease[u]
  BY StoreFacts DEF MarkRetryWait, TypeOK
<1>3. lease'[l.unit].status = "retry_wait"
  BY StoreFacts DEF MarkRetryWait, TypeOK
<1> QED
  BY <1>1, <1>2, <1>3, StoreFacts DEF Unnoticed, Completed, Mine

\* A whole publication ends the claim; one cut short by an error may leave it.
LEMMA PublicationUnnoticed ==
  ASSUME StoreInv, NEW l \in granted, l.owner \in Owners, NEW out \in Outcomes,
         NEW upto \in 1..3, PublishTerminal(l, out, upto)
  PROVE  /\ Unnoticed
         /\ upto = 3 => ~ Mine(l.unit)'
         /\ completion'[l.unit].owner = l.owner
         /\ completion'[l.unit].outcome = out
<1>1. [Next]_vars /\ granted' = granted /\ UNCHANGED <<ckptLatest, ckptEvents>>
  BY DEF Next, ClientStep, PublishTerminal
<1>2. \A u \in Units \ {l.unit} :
        lease'[u] = lease[u] /\ completion'[u] = completion[u]
  BY StoreFacts DEF PublishTerminal, TypeOK
<1>3. /\ lease'[l.unit].owner = lease[l.unit].owner
      /\ lease'[l.unit].fence = lease[l.unit].fence
      /\ lease'[l.unit].status = IF upto = 3 THEN "completed"
                                             ELSE lease[l.unit].status
  BY StoreFacts DEF PublishTerminal, TypeOK
<1>4. /\ completion'[l.unit].owner = l.owner
      /\ completion'[l.unit].outcome = out
  BY StoreFacts DEF PublishTerminal, TypeOK
<1>5. ~ Completed(l.unit) /\ lease[l.unit].status = "claimed"
  BY DEF PublishTerminal, Matches
<1> QED
  BY <1>1, <1>2, <1>3, <1>4, <1>5, StoreFacts DEF Unnoticed, Completed, Mine

\* The other dispatcher may take a unit of this one, never give it one.
LEMMA RivalUnnoticed ==
  ASSUME StoreInv, RivalStep
  PROVE  Unnoticed /\ UNCHANGED threadVars
<1>1. ASSUME NEW u \in Units, Claim(u, Rival, now) PROVE Unnoticed
  <2>1. /\ [Next]_vars /\ granted \subseteq granted' /\ completion' = completion
        /\ UNCHANGED <<ckptLatest, ckptEvents>>
    BY <1>1, StoreFacts DEF Next, ClaimStep, Claim, NewGeneration
  <2>2. \A v \in Units \ {u} : lease'[v] = lease[v]
    BY <1>1, StoreFacts DEF Claim, NewGeneration, TypeOK
  <2>3. lease'[u].owner = Rival
    BY <1>1, StoreFacts DEF Claim, NewGeneration, TypeOK, ClaimedFile
  <2> QED
    BY <2>1, <2>2, <2>3 DEF Unnoticed, Completed, Mine, DispatcherAssumption
<1>2. ASSUME NEW l \in granted, PublishTerminal(l, "succeeded", 3)
      PROVE  Unnoticed
  BY <1>2, StoreFacts, PublicationUnnoticed
<1>3. ASSUME Tick PROVE Unnoticed
  BY <1>3, StoreFacts DEF Tick, Unnoticed, Next, Completed, Mine
<1> QED
  BY <1>1, <1>2, <1>3 DEF RivalStep

-----------------------------------------------------------------------------
(* Steps of one attempt.                                                   *)

Busy == WorkerPoints \ {"idle", "claimed", "launching", "finishing", "popping"}

OthersRest == UNCHANGED <<active, finishing, closing, bound, cancelled, result,
                          stop, drained>>

\* The worker of u goes on as w, within its attempt or to the attempt's end.
\* Before it reports that the claim is over it has given it up, what it
\* reports is true, and an analysis it will record has its checkpoint.
GoesOn(u, w) ==
  /\ w \in Workers /\ worker' = [worker EXCEPT ![u] = w]
  /\ worker[u].at \in Busy /\ w.at \in Busy \cup {"finishing"}
  /\ w.fence = worker[u].fence
  /\ w.at \in Decided => w.outcome \in Outcomes
  /\ w.at = "announcing" => ~ Mine(u)'
  /\ w.at = "finishing" /\ Mine(u)' => w.result.status = "publish_rejected"
  /\ w.at = "recording" /\ ~ Opaque => ckptLatest'[u] # 0
  /\ w.at = "announcing" => Published(u, w.outcome)'
  /\ w.at = "finishing" => Truthful(u, w.result)'
  /\ Unnoticed /\ OthersRest

Attempt(u) == \E w : GoesOn(u, w)

Kinds == {"retry", "infra", "succeeded", "failed", "cancelled"}

LEMMA ThreadFacts ==
  ASSUME ThreadInv
  PROVE  /\ worker \in [Units -> Workers]
         /\ \A u \in Units : worker[u] \in Workers
         /\ \A u \in Units :
              ~ At(u, "idle") => Held(u) \in granted /\ Held(u).owner \in Owners
         /\ {"retry_wait", "publish_rejected", "completed"} \subseteq
              {"none", "completed", "publish_rejected", "retry_wait"}
  BY DEF ThreadInv, DispatcherTypeOK, LeasesAreGranted, Workers, Held

\* The worker goes to another point of its attempt.
LEMMA GoesTo ==
  ASSUME ThreadInv, NEW u \in Units, NEW p \in Busy \ {"announcing", "dead"},
         worker[u].at \in Busy, Goto(u, p), Unnoticed, OthersRest,
         p \in Decided => worker[u].outcome \in Outcomes,
         p = "recording" /\ ~ Opaque => ckptLatest'[u] # 0
  PROVE  Attempt(u)
<1> PICK w : w = [worker[u] EXCEPT !.at = p]
  OBVIOUS
<1>1. worker' = [worker EXCEPT ![u] = w]
  BY DEF Goto
<1>2. /\ w \in Workers /\ w.at = p /\ w.fence = worker[u].fence
      /\ w.outcome = worker[u].outcome
  BY ThreadFacts DEF Workers, Busy
<1>3. GoesOn(u, w)
  BY <1>1, <1>2 DEF GoesOn, Busy
<1> QED
  BY <1>3 DEF Attempt

\* An I/O error ends the thread.
LEMMA ThreadDies ==
  ASSUME ThreadInv, NEW u \in Units, IOErrors, worker[u].at \in Busy,
         Goto(u, "dead"), Unnoticed, OthersRest
  PROVE  Attempt(u)
<1> PICK w : w = [worker[u] EXCEPT !.at = "dead"]
  OBVIOUS
<1>1. worker' = [worker EXCEPT ![u] = w]
  BY DEF Goto
<1>2. w \in Workers /\ w.at = "dead" /\ w.fence = worker[u].fence
  BY ThreadFacts DEF Workers, Busy, WorkerPoints
<1>3. GoesOn(u, w)
  BY <1>1, <1>2 DEF GoesOn, Busy, Decided, WorkerPoints
<1> QED
  BY <1>3 DEF Attempt

\* The try block ends.
LEMMA AttemptEnds ==
  ASSUME ThreadInv, NEW u \in Units, NEW kind \in Kinds,
         worker[u].at \in Busy, EndAttempt(u, kind), Unnoticed, OthersRest
  PROVE  Attempt(u)
<1> DEFINE p == CASE kind = "retry" -> "retry_read"
                  [] kind = "infra" -> "crash_read"
                  [] OTHER -> "publishing"
           out == IF kind \in {"retry", "infra"} THEN "failed" ELSE kind
<1> PICK w : w = [worker[u] EXCEPT !.at = p, !.outcome = out]
  OBVIOUS
<1>1. worker' = [worker EXCEPT ![u] = w]
  BY DEF EndAttempt
<1>2. p \in {"retry_read", "crash_read", "publishing"} /\ out \in Outcomes
  BY DEF Kinds
<1> HIDE DEF p, out
<1>3. /\ w \in Workers /\ w.at = p /\ w.fence = worker[u].fence
      /\ w.outcome = out
  BY <1>2, ThreadFacts DEF Workers, WorkerPoints
<1>4. GoesOn(u, w)
  BY <1>1, <1>2, <1>3 DEF GoesOn, Busy, Decided, WorkerPoints
<1> QED
  BY <1>4 DEF Attempt

\* The attempt is over, with a result for the handle.
LEMMA AttemptFinishes ==
  ASSUME ThreadInv, NEW u \in Units, worker[u].at \in Busy,
         NEW status \in {"completed", "publish_rejected", "retry_wait"},
         NEW out \in Outcomes \cup {"none", "waiting_retry"},
         Finish(u, status, out),
         status = "completed" => Published(u, out)',
         status = "publish_rejected" \/ ~ Mine(u)', Unnoticed, OthersRest
  PROVE  Attempt(u)
<1> DEFINE r == [status |-> status, outcome |-> out]
<1> PICK w : w = [worker[u] EXCEPT !.at = "finishing", !.result = r]
  OBVIOUS
<1>1. worker' = [worker EXCEPT ![u] = w]
  BY DEF Finish
<1>2. r \in Results
  BY DEF Results
<1>3. r.status = status /\ r.outcome = out
  OBVIOUS
<1> HIDE DEF r
<1>4. /\ w \in Workers /\ w.at = "finishing" /\ w.fence = worker[u].fence
      /\ w.result = r
  BY <1>2, ThreadFacts DEF Workers, WorkerPoints
<1>5. Truthful(u, w.result)'
  BY <1>3, <1>4 DEF Truthful
<1>6. GoesOn(u, w)
  BY <1>1, <1>3, <1>4, <1>5 DEF GoesOn, Busy, Decided
<1> QED
  BY <1>6 DEF Attempt

\* A store call inside the attempt raises.
LEMMA CallRaisesEnds ==
  ASSUME ThreadInv, NEW u \in Units, NEW valid, worker[u].at \in Busy,
         CallRaises(u, valid), OthersRest
  PROVE  Attempt(u)
  BY AttemptEnds, NothingUnnoticed DEF CallRaises, Kinds

\* The worker reads what to resume from.
LEMMA ReadsResume ==
  ASSUME ThreadInv, NEW u \in Units, NEW p \in {"retry_event", "crash_event"},
         NEW b \in BOOLEAN, worker[u].at \in Busy,
         worker' = [worker EXCEPT ![u].at = p, ![u].resume = b],
         Unnoticed, OthersRest
  PROVE  Attempt(u)
<1> PICK w : w = [worker[u] EXCEPT !.at = p, !.resume = b]
  OBVIOUS
<1>1. worker' = [worker EXCEPT ![u] = w]
  OBVIOUS
<1>2. w \in Workers /\ w.at = p /\ w.fence = worker[u].fence
  BY ThreadFacts DEF Workers, WorkerPoints
<1>3. GoesOn(u, w)
  BY <1>1, <1>2 DEF GoesOn, Busy, Decided, WorkerPoints
<1> QED
  BY <1>3 DEF Attempt

\* The publication of the terminal is announced next.
LEMMA WillAnnounce ==
  ASSUME ThreadInv, NEW u \in Units, At(u, "publishing"),
         Goto(u, "announcing"), completion'[u].owner = Me,
         completion'[u].outcome = worker[u].outcome,
         ~ Mine(u)', Unnoticed, OthersRest
  PROVE  Attempt(u)
<1> PICK w : w = [worker[u] EXCEPT !.at = "announcing"]
  OBVIOUS
<1>1. worker' = [worker EXCEPT ![u] = w]
  BY DEF Goto
<1>2. /\ w \in Workers /\ w.at = "announcing" /\ w.fence = worker[u].fence
      /\ w.outcome = worker[u].outcome
  BY ThreadFacts DEF Workers, WorkerPoints
<1>3. worker[u].outcome \in Outcomes
  BY DEF ThreadInv, OutcomesAreDecided, Decided, At
<1>4. Published(u, w.outcome)'
  BY <1>2 DEF Published
<1>5. GoesOn(u, w)
  BY <1>1, <1>2, <1>3, <1>4 DEF GoesOn, Busy, WorkerPoints, At
<1> QED
  BY <1>5 DEF Attempt

Trying(u) ==
  \/ StartAttempt(u) \/ BeginAnalysis(u) \/ EndAnalysis(u) \/ Checkpoint(u)
  \/ RecordAnalysis(u) \/ BeginCritical(u) \/ EndCritical(u)

LEMMA TryingIsAttempt ==
  ASSUME StoreInv, ThreadInv, NEW u \in Units, Trying(u)
  PROVE  Attempt(u)
<1> DEFINE Tries == {"starting", "restoring", "analysis", "checkpointing",
                     "recording", "checking", "critical"}
<1>1. worker[u].at \in Tries /\ OthersRest
  BY DEF Trying, StartAttempt, BeginAnalysis, EndAnalysis, Checkpoint,
     RecordAnalysis, BeginCritical, EndCritical, At, OnlyWorker, OthersRest
<1>2. worker[u].at \in Busy
  BY <1>1 DEF Busy, WorkerPoints
<1>3. Held(u) \in granted
  BY <1>1, ThreadFacts DEF At
<1>4. UNCHANGED vars \/ Event(u) => Unnoticed
  BY <1>3, EventUnnoticed, NothingUnnoticed DEF Event
<1>5. ASSUME NEW p \in Tries, Goto(u, p), Unnoticed,
             p = "recording" /\ ~ Opaque => ckptLatest'[u] # 0
      PROVE  Attempt(u)
  BY <1>1, <1>2, <1>5, GoesTo DEF Busy, WorkerPoints, Decided
<1>6. ASSUME NEW kind \in Kinds, EndAttempt(u, kind), Unnoticed
      PROVE  Attempt(u)
  BY <1>1, <1>2, <1>6, AttemptEnds
<1>7. ASSUME NEW valid, CallRaises(u, valid) PROVE Attempt(u)
  BY <1>1, <1>2, <1>7, CallRaisesEnds
<1>8. ASSUME StageFails(u), Unnoticed PROVE Attempt(u)
  BY <1>6, <1>8 DEF StageFails, Kinds
<1> HIDE DEF Tries
<1>9. CASE StartAttempt(u)
  BY <1>4, <1>5, <1>6, <1>7, <1>9 DEF StartAttempt, Tries, Kinds
<1>10. CASE BeginAnalysis(u)
  BY <1>4, <1>5, <1>6, <1>7, <1>10 DEF BeginAnalysis, Tries, Kinds
<1>11. CASE EndAnalysis(u)
  BY <1>4, <1>5, <1>8, <1>11 DEF EndAnalysis, Tries, OnlyWorker
<1>12. CASE Checkpoint(u)
  <2>1. ASSUME PublishCheckpoint(Held(u)), Goto(u, "recording")
        PROVE  Attempt(u)
    <3>1. Unnoticed /\ ckptLatest'[u] # 0
      BY <1>3, <2>1, CheckpointUnnoticed DEF Held
    <3> QED
      BY <1>5, <2>1, <3>1 DEF Tries
  <2> QED
    BY <1>7, <1>12, <2>1 DEF Checkpoint
<1>13. CASE RecordAnalysis(u)
  <2>1. Opaque \/ ckptLatest[Held(u).unit] # 0
    BY <1>13 DEF RecordAnalysis, ThreadInv, AnalysesHaveCheckpoints, Held
  <2> QED
    BY <1>3, <1>5, <1>7, <1>13, <2>1, EventUnnoticed DEF RecordAnalysis, Tries
<1>14. CASE BeginCritical(u)
  BY <1>4, <1>5, <1>6, <1>7, <1>14 DEF BeginCritical, Tries, Kinds
<1>15. CASE EndCritical(u)
  BY <1>4, <1>6, <1>7, <1>8, <1>15 DEF EndCritical, Kinds
<1> QED
  BY <1>9, <1>10, <1>11, <1>12, <1>13, <1>14, <1>15 DEF Trying

\* A recovered generation is another one: its lease and its context are new.
Recovers(u) ==
  /\ At(u, "recovering")
  /\ Recover(Held(u), now, worker[u].resume)
  /\ worker' = [worker EXCEPT ![u].at = "rebinding", ![u].fence = @ + 1]
  /\ OthersRest
Rebinds(u) ==
  /\ At(u, "rebinding") /\ Goto(u, "reclaiming")
  /\ bound' = [bound EXCEPT ![u] = worker[u].fence]
  /\ UNCHANGED <<vars, active, finishing, closing, cancelled, result, stop,
                 drained>>

Ending(u) ==
  \/ RetryRead(u) \/ RetryEvent(u) \/ RetryMark(u)
  \/ CrashRead(u) \/ CrashEvent(u) \/ RecoverLease(u) \/ Rebind(u) \/ Reclaim(u)
  \/ Publish(u) \/ Announce(u)

LEMMA EndingIsAttempt ==
  ASSUME StoreInv, ThreadInv, NEW u \in Units, Ending(u)
  PROVE  Attempt(u) \/ Recovers(u) \/ Rebinds(u)
<1> DEFINE Ends == {"retry_read", "retry_event", "retry_mark", "crash_read",
                    "crash_event", "recovering", "rebinding", "reclaiming",
                    "publishing", "announcing"}
<1>1. worker[u].at \in Ends
  BY DEF Ending, RetryRead, RetryEvent, RetryMark, CrashRead, CrashEvent,
     RecoverLease, Rebind, Reclaim, Publish, Announce, At
<1>2. worker[u].at \in Busy
  BY <1>1 DEF Busy, WorkerPoints
<1>3. /\ Held(u) \in granted /\ Held(u).unit = u /\ Held(u).owner = Me
      /\ worker[u] \in Workers
  BY <1>1, ThreadFacts DEF At, Held
<1>4. /\ UNCHANGED vars \/ Event(u) => Unnoticed
      /\ Event(u) => Mine(u)' = Mine(u) /\ completion' = completion
  BY <1>3, EventUnnoticed, NothingUnnoticed DEF Event
<1>6. ASSUME NEW p \in (Ends \ {"announcing", "retry_read", "crash_read"})
                \cup {"starting"},
             p = "publishing" => worker[u].outcome \in Outcomes,
             Goto(u, p), Unnoticed, OthersRest
      PROVE  Attempt(u)
  BY <1>2, <1>6, GoesTo DEF Busy, WorkerPoints, Decided
<1>7. ASSUME NEW out \in Outcomes \cup {"none", "waiting_retry"},
             Finish(u, "publish_rejected", out),
             UNCHANGED vars, OthersRest
      PROVE  Attempt(u)
  BY <1>2, <1>4, <1>7, AttemptFinishes
<1>8. ASSUME IOErrors, Goto(u, "dead"), UNCHANGED vars, OthersRest
      PROVE  Attempt(u)
  BY <1>2, <1>4, <1>8, ThreadDies
<1>9. worker[u].at \in Decided => worker[u].outcome \in Outcomes
  BY DEF ThreadInv, OutcomesAreDecided
<1>11. Recoverable(Held(u)) \in BOOLEAN
  BY DEF Recoverable
<1> HIDE DEF Ends
<1>20. CASE RetryRead(u)
  BY <1>2, <1>4, <1>7, <1>8, <1>11, <1>20, ReadsResume
     DEF RetryRead, OnlyWorker, OthersRest
<1>21. CASE RetryEvent(u)
  BY <1>4, <1>6, <1>7, <1>8, <1>21 DEF RetryEvent, OthersRest, Ends
<1>22. CASE RetryMark(u)
  <2>1. ASSUME MarkRetryWait(Held(u), worker[u].resume),
               Finish(u, "retry_wait", "waiting_retry"), OthersRest
        PROVE  Attempt(u)
    <3>1. worker[u].resume \in BOOLEAN
      BY <1>3 DEF Workers
    <3>2. Unnoticed /\ ~ Mine(u)'
      BY <1>3, <2>1, <3>1, RetryWaitUnnoticed
    <3> QED
      BY <1>2, <2>1, <3>2, AttemptFinishes
  <2> QED
    BY <1>7, <1>8, <1>22, <2>1 DEF RetryMark, OthersRest
<1>23. CASE CrashRead(u)
  BY <1>2, <1>4, <1>6, <1>7, <1>8, <1>9, <1>11, <1>23, ReadsResume
     DEF CrashRead, OnlyWorker, OthersRest, Ends, At, Decided
<1>24. CASE CrashEvent(u)
  BY <1>4, <1>6, <1>7, <1>8, <1>24 DEF CrashEvent, OthersRest, Ends
<1>25. CASE RecoverLease(u)
  BY <1>7, <1>8, <1>25 DEF RecoverLease, Recovers, OthersRest
<1>26. CASE Rebind(u)
  BY <1>8, <1>26 DEF Rebind, Rebinds, OthersRest
<1>27. CASE Reclaim(u)
  BY <1>4, <1>6, <1>7, <1>8, <1>27 DEF Reclaim, OthersRest, Ends
<1>28. CASE Publish(u)
  <2> DEFINE out == worker[u].outcome
  <2>1. out \in Outcomes
    BY <1>9, <1>28 DEF Publish, At, Decided
  <2>2. ASSUME PublishTerminal(Held(u), out, 3), Goto(u, "announcing"),
               OthersRest
        PROVE  Attempt(u)
    <3>1. /\ Unnoticed /\ ~ Mine(u)' /\ completion'[u].owner = Me
          /\ completion'[u].outcome = out
      BY <1>3, <2>1, <2>2, PublicationUnnoticed
    <3> QED
      BY <1>28, <2>2, <3>1, WillAnnounce DEF Publish
  <2>3. ASSUME NEW upto \in 1..2,
               PublishTerminal(Held(u), out, upto),
               Finish(u, "publish_rejected", out), OthersRest
        PROVE  Attempt(u)
    <3>1. Unnoticed
      BY <1>3, <2>1, <2>3, PublicationUnnoticed
    <3> QED
      BY <1>2, <2>1, <2>3, <3>1, AttemptFinishes
  <2> HIDE DEF out
  <2> QED
    BY <1>7, <1>28, <2>1, <2>2, <2>3 DEF Publish, OthersRest, out
<1>29. CASE Announce(u)
  <2> PICK out : out = worker[u].outcome
    OBVIOUS
  <2>1. out \in Outcomes
    BY <1>9, <1>29 DEF Announce, At, Decided
  <2>2. Published(u, out) /\ ~ Mine(u)
    BY <1>29 DEF Announce, ThreadInv, ResultsAreTrue, ClaimsHaveWorkers,
       WorkersTend, WorkerTends
  <2>3. ASSUME Event(u), Finish(u, "completed", out), OthersRest
        PROVE  Attempt(u)
    <3>1. Published(u, out)' /\ Unnoticed /\ ~ Mine(u)'
      BY <1>4, <2>2, <2>3 DEF Published
    <3> QED
      BY <1>2, <2>1, <2>3, <3>1, AttemptFinishes
  <2> QED
    BY <1>7, <1>29, <2>1, <2>3 DEF Announce, OthersRest
<1> QED
  BY <1>20, <1>21, <1>22, <1>23, <1>24, <1>25, <1>26, <1>27, <1>28, <1>29
     DEF Ending

-----------------------------------------------------------------------------
(* Every step of a thread keeps the invariant.                             *)

\* The completions of this dispatcher stay as they are.
LEMMA OwnCompletionsLast ==
  ASSUME StoreInv, Unnoticed
  PROVE  \A v \in Units : completion[v].owner = Me => completion'[v] = completion[v]
  BY StoreFacts DEF Unnoticed, NoCompletion

\* The endings are not disturbed by a step that moves no worker into or out
\* of them and leaves the lists and the emergency stop alone.
LEMMA EndingsStay ==
  ASSUME ThreadInv, UNCHANGED <<active, finishing, stop>>,
         \A v \in Units, p \in {"popping", "claimed", "launching"} :
           At(v, p)' <=> At(v, p)
  PROVE  EndingsAreOwned'
<1>1. finishing \subseteq Units /\ (StopOwns' <=> StopOwns)
  BY DEF ThreadInv, DispatcherTypeOK, StopOwns
<1>2. EndingHasOneOwner'
  BY <1>1 DEF ThreadInv, EndingsAreOwned, EndingHasOneOwner
<1> QED
  BY <1>1, <1>2 DEF ThreadInv, EndingsAreOwned

\* What was reported stays true while nothing more is reported.
LEMMA ResultsStay ==
  ASSUME ThreadInv, UNCHANGED stop,
         \A v \in Units : completion[v].owner = Me =>
                           completion'[v] = completion[v],
         \A v \in Units : result'[v].status = "completed" =>
                           result'[v] = result[v],
         \A v \in Units : \/ worker'[v] = worker[v]
                         \/ worker'[v].at \notin {"announcing", "finishing",
                                                 "popping"}
  PROVE  ResultsAreTrue'
<1>1. \A v \in Units : \A out : Published(v, out) => Published(v, out)'
  BY DEF Published
<1>2. \A v \in Units : \A r : Truthful(v, r) => Truthful(v, r)'
  BY <1>1 DEF Truthful, Published
<1>3. ASSUME NEW v \in Units
      PROVE  /\ Truthful(v, result[v])'
             /\ At(v, "announcing")' => Published(v, worker[v].outcome)'
             /\ worker'[v].at \in {"finishing", "popping"} =>
                  Truthful(v, worker[v].result)'
  <2>1. Truthful(v, result[v])'
    BY <1>2 DEF ThreadInv, ResultsAreTrue, Truthful, Published
  <2>2. At(v, "announcing")' => Published(v, worker[v].outcome)'
    BY <1>1 DEF ThreadInv, ResultsAreTrue, Published, At
  <2>3. worker'[v].at \in {"finishing", "popping"} =>
                  Truthful(v, worker[v].result)'
    BY <1>2 DEF ThreadInv, ResultsAreTrue, Truthful, Published
  <2> QED
    BY <2>1, <2>2, <2>3
<1>4. /\ stop.at = "announcing" => Published(stop.unit, "cancelled")'
      /\ stop.at = "popping" => Truthful(stop.unit, stop.result)'
  BY <1>1, <1>2 DEF ThreadInv, ResultsAreTrue, LeasesAreGranted, StopHolds,
     Truthful, Published
<1> QED
  BY <1>3, <1>4 DEF ResultsAreTrue

\* Leases in use stay granted while threads only move.
LEMMA LeasesStay ==
  ASSUME ThreadInv, granted \subseteq granted', UNCHANGED <<bound, stop>>,
         active' \subseteq active,
         \A v \in Units : ~ At(v, "idle")' =>
           ~ At(v, "idle") /\ worker'[v].fence = worker[v].fence
  PROVE  LeasesAreGranted'
<1>1. \A v \in Units : ~ At(v, "idle")' => Held(v)' \in granted' /\ bound'[v] # 0
  BY DEF ThreadInv, LeasesAreGranted, Held
<1>2. \A v \in Units : bound'[v] # 0 => BoundLease(v)' \in granted'
  BY DEF ThreadInv, LeasesAreGranted, BoundLease
<1> QED
  BY <1>1, <1>2 DEF ThreadInv, LeasesAreGranted, StopHolds, StopLease

\* Who tends which claim is not disturbed by a step that the store's threads do
\* not notice and that moves no worker into or out of its ending.
LEMMA ClaimsStay ==
  ASSUME ThreadInv, Unnoticed, UNCHANGED <<active, finishing, stop, result>>,
         \A v \in Units :
           \/ worker'[v] = worker[v]
           \/ /\ worker'[v].fence = worker[v].fence
              /\ {worker[v].at, worker'[v].at} \cap {"idle", "claimed", "popping"} = {}
              /\ Mine(v)' => /\ worker'[v].at # "announcing"
                             /\ worker'[v].at = "finishing" =>
                                  worker'[v].result.status = "publish_rejected"
  PROVE  ClaimsHaveWorkers'
<1>1. \A v \in Units : Mine(v)' => Mine(v) /\ lease'[v].fence = lease[v].fence
  BY DEF Unnoticed
<1>2. WorkersTend'
  BY <1>1 DEF ThreadInv, ClaimsHaveWorkers, WorkersTend, WorkerTends, At
<1>3. StopTends'
  BY <1>1 DEF ThreadInv, ClaimsHaveWorkers, StopTends, LeasesAreGranted, StopHolds,
     Mine
<1>4. HandlesReport'
  BY <1>1 DEF ThreadInv, ClaimsHaveWorkers, HandlesReport, HandleReports, Reported, At
<1> QED
  BY <1>2, <1>3, <1>4 DEF ClaimsHaveWorkers

\* So is that a recorded analysis has its checkpoint.
LEMMA CheckpointsStay ==
  ASSUME ThreadInv, TypeOK, Unnoticed \/ UNCHANGED <<ckptLatest, ckptEvents>>,
         \A v \in Units : At(v, "recording")' =>
           At(v, "recording") \/ Opaque \/ ckptLatest'[v] # 0
  PROVE  AnalysesHaveCheckpoints'
  BY DEF ThreadInv, AnalysesHaveCheckpoints, Unnoticed, TypeOK, Lease

LEMMA AttemptKeepsInv ==
  ASSUME StoreInv, ThreadInv, NEW u \in Units, Attempt(u)
  PROVE  ThreadInv'
<1> PICK w : GoesOn(u, w)
  BY DEF Attempt
<1>1. /\ worker'[u] = w /\ w \in Workers /\ w.fence = worker[u].fence
      /\ w.at \in Busy \cup {"finishing"} /\ worker[u].at \in Busy
      /\ \A v \in Units \ {u} : worker'[v] = worker[v]
      /\ worker' \in [Units -> Workers]
      /\ OthersRest /\ Unnoticed
  BY ThreadFacts DEF GoesOn
<1>2. /\ w.at \notin {"idle", "claimed", "launching", "popping"}
      /\ worker[u].at \notin {"idle", "claimed", "launching", "finishing",
                              "popping"}
  BY <1>1 DEF Busy
<1>3. OutcomesAreDecided'
  BY <1>1 DEF GoesOn, ThreadInv, OutcomesAreDecided
<1>4. DispatcherTypeOK'
  BY <1>1 DEF ThreadInv, DispatcherTypeOK, OthersRest, Workers
<1>5. LeasesAreGranted'
  BY <1>1, <1>2 DEF ThreadInv, LeasesAreGranted, OthersRest, At, Held,
     BoundLease, StopHolds, StopLease, Unnoticed
<1>6. EndingsAreOwned'
  <2>1. \A v \in Units, p \in {"popping", "claimed", "launching"} :
          At(v, p)' <=> At(v, p)
    BY <1>1, <1>2 DEF At
  <2> QED
    BY <1>1, <2>1, EndingsStay DEF OthersRest
<1>7. DrainWaitsForAll'
  BY <1>1, <1>2 DEF ThreadInv, DrainWaitsForAll, OthersRest, At, ConditionFree
<1>8. ClaimsHaveWorkers'
  BY <1>1, <1>2, ClaimsStay DEF GoesOn, OthersRest
<1>10. AnalysesHaveCheckpoints'
  BY <1>1, StoreFacts, CheckpointsStay DEF GoesOn, At
<1>9. ResultsAreTrue'
  BY <1>1, <1>2, OwnCompletionsLast DEF GoesOn, ThreadInv, ResultsAreTrue,
     OthersRest, At, Truthful, Published, LeasesAreGranted, StopHolds
<1> QED
  BY <1>3, <1>4, <1>5, <1>6, <1>7, <1>8, <1>9, <1>10 DEF ThreadInv

LEMMA RecoversKeepsInv ==
  ASSUME StoreInv, ThreadInv, NEW u \in Units, Recovers(u)
  PROVE  ThreadInv' /\ [Next]_vars
<1> PICK l : l = Held(u)
  OBVIOUS
<1> PICK w : w = [worker[u] EXCEPT !.at = "rebinding", !.fence = @ + 1]
  OBVIOUS
<1>1. /\ l \in granted /\ l.unit = u /\ l.owner = Me
      /\ l.fence = worker[u].fence /\ worker[u] \in Workers
      /\ worker[u].fence # 0
  BY ThreadFacts, StoreFacts DEF Recovers, At, Held
<1>2. Recover(l, now, worker[u].resume)
  BY DEF Recovers
<1>3. [Next]_vars
  BY <1>1, <1>2, StoreFacts DEF Next, ClientStep, Workers
<1>4. /\ worker'[u] = w /\ w \in Workers /\ w.at = "rebinding"
      /\ w.fence = worker[u].fence + 1 /\ w.fence # 0
      /\ \A v \in Units \ {u} : worker'[v] = worker[v]
      /\ worker' \in [Units -> Workers] /\ At(u, "recovering") /\ OthersRest
  BY <1>1, ThreadFacts DEF Recovers, Workers, WorkerPoints
<1>5. /\ granted' = granted \cup {[unit |-> u, owner |-> Me, fence |-> w.fence]}
      /\ completion' = completion /\ Mine(u)
      /\ UNCHANGED <<ckptLatest, ckptEvents>>
      /\ lease'[u].owner = Me /\ lease'[u].fence = w.fence
      /\ lease'[u].status = "claimed"
      /\ \A v \in Units \ {u} : lease'[v] = lease[v]
  BY <1>1, <1>2, <1>4, StoreFacts DEF Recover, TypeOK, ClaimedFile, Matches,
     Names, Mine
<1>6. OutcomesAreDecided' /\ DispatcherTypeOK'
  BY <1>4 DEF ThreadInv, OutcomesAreDecided, DispatcherTypeOK, OthersRest,
     Workers, Decided
<1>7. LeasesAreGranted'
  BY <1>4, <1>5 DEF ThreadInv, LeasesAreGranted, OthersRest, At, Held,
     BoundLease, StopHolds, StopLease
<1>8. EndingsAreOwned'
  <2>1. \A v \in Units, p \in {"popping", "claimed", "launching"} :
          At(v, p)' <=> At(v, p)
    BY <1>4 DEF At
  <2> QED
    BY <1>4, <2>1, EndingsStay DEF OthersRest
<1>9. DrainWaitsForAll'
  BY <1>4 DEF ThreadInv, DrainWaitsForAll, OthersRest, At, ConditionFree
<1>10. ClaimsHaveWorkers'
  <2>1. ASSUME NEW v \in Units PROVE WorkerTends(v)'
    <3>1. CASE v = u
      BY <1>4, <1>5, <3>1 DEF WorkerTends, At
    <3>2. CASE v # u
      BY <1>4, <1>5, <3>2 DEF ThreadInv, ClaimsHaveWorkers, WorkersTend,
         WorkerTends, Mine, At
    <3> QED
      BY <3>1, <3>2
  <2>2. StopTends'
    BY <1>4, <1>5 DEF ThreadInv, ClaimsHaveWorkers, StopTends, Mine, OthersRest,
       LeasesAreGranted, StopHolds
  <2>3. ASSUME NEW v \in Units PROVE HandleReports(v)'
    <3>1. CASE v = u
      BY <1>4, <1>5, <3>1 DEF ThreadInv, ClaimsHaveWorkers, HandlesReport,
         HandleReports, Reported, At, OthersRest
    <3>2. CASE v # u
      BY <1>4, <1>5, <3>2 DEF ThreadInv, ClaimsHaveWorkers, HandlesReport,
         HandleReports, Reported, Mine, At, OthersRest
    <3> QED
      BY <3>1, <3>2
  <2> QED
    BY <2>1, <2>2, <2>3 DEF ClaimsHaveWorkers, WorkersTend, HandlesReport
<1>12. AnalysesHaveCheckpoints'
  BY <1>4, <1>5, StoreFacts, CheckpointsStay DEF At
<1>11. ResultsAreTrue'
  BY <1>4, <1>5, ResultsStay DEF OthersRest
<1> QED
  BY <1>3, <1>6, <1>7, <1>8, <1>9, <1>10, <1>11, <1>12 DEF ThreadInv

LEMMA RebindsKeepsInv ==
  ASSUME StoreInv, ThreadInv, NEW u \in Units, Rebinds(u)
  PROVE  ThreadInv' /\ [Next]_vars
<1> PICK w : w = [worker[u] EXCEPT !.at = "reclaiming"]
  OBVIOUS
<1>1. /\ worker'[u] = w /\ w \in Workers /\ w.at = "reclaiming"
      /\ w.fence = worker[u].fence /\ At(u, "rebinding")
      /\ \A v \in Units \ {u} : worker'[v] = worker[v]
      /\ worker' \in [Units -> Workers]
      /\ bound' = [bound EXCEPT ![u] = w.fence]
      /\ UNCHANGED <<vars, active, finishing, closing, cancelled, result, stop,
                     drained>>
  BY ThreadFacts DEF Rebinds, Goto, Workers, WorkerPoints
<1>2. /\ Held(u) \in granted /\ w.fence # 0 /\ w.fence \in Nat
      /\ Held(u) = [unit |-> u, owner |-> Me, fence |-> w.fence]
  BY <1>1, ThreadFacts, StoreFacts DEF At, Held
<1>3. /\ bound \in [Units -> Nat] /\ bound' \in [Units -> Nat]
      /\ bound'[u] = w.fence /\ \A v \in Units \ {u} : bound'[v] = bound[v]
  BY <1>1, <1>2 DEF ThreadInv, DispatcherTypeOK
<1>4. OutcomesAreDecided' /\ DispatcherTypeOK'
  BY <1>1, <1>3 DEF ThreadInv, OutcomesAreDecided, DispatcherTypeOK,
     Workers, Decided
<1>5. LeasesAreGranted'
  <2>1. granted' = granted
    BY <1>1 DEF vars
  <2>2. \A v \in Units : ~ At(v, "idle")' => Held(v)' \in granted /\ bound'[v] # 0
    BY <1>1, <1>2, <1>3 DEF ThreadInv, LeasesAreGranted, At, Held
  <2>3. \A v \in Units : bound'[v] # 0 => BoundLease(v)' \in granted
    BY <1>2, <1>3 DEF ThreadInv, LeasesAreGranted, BoundLease
  <2>4. /\ \A v \in active \cup stop.todo : bound'[v] # 0
        /\ StopHolds => stop.unit \in Units /\ StopLease \in granted
    BY <1>2, <1>3 DEF ThreadInv, LeasesAreGranted, DispatcherTypeOK
  <2> QED
    BY <1>1, <2>1, <2>2, <2>3, <2>4 DEF LeasesAreGranted, StopHolds, StopLease
<1>6. EndingsAreOwned'
  <2>1. \A v \in Units, p \in {"popping", "claimed", "launching"} :
          At(v, p)' <=> At(v, p)
    BY <1>1 DEF At
  <2> QED
    BY <1>1, <2>1, EndingsStay
<1>7. DrainWaitsForAll'
  BY <1>1 DEF ThreadInv, DrainWaitsForAll, At, ConditionFree
<1>8. ClaimsHaveWorkers'
  BY <1>1, NothingUnnoticed, ClaimsStay DEF At
<1>9. ResultsAreTrue'
  BY <1>1, ResultsStay DEF vars
<1>10. AnalysesHaveCheckpoints'
  BY <1>1, NothingUnnoticed, StoreFacts, CheckpointsStay DEF At
<1> QED
  BY <1>1, <1>4, <1>5, <1>6, <1>7, <1>8, <1>9, <1>10 DEF ThreadInv

LEMMA SubmitKeepsInv ==
  ASSUME StoreInv, ThreadInv, NEW u \in Units, Submit(u)
  PROVE  ThreadInv' /\ [Next]_vars
<1> PICK w : w = [IdleWorker EXCEPT !.at = "claimed", !.fence = lease'[u].fence,
                                    !.resume = lease'[u].resume]
  OBVIOUS
<1> PICK l : l = [unit |-> u, owner |-> Me, fence |-> lease[u].fence + 1]
  OBVIOUS
<1>1. Claim(u, Me, now) /\ [Next]_vars
  BY StoreFacts DEF Submit, Next, ClaimStep
<1>2. /\ granted' = granted \cup {l} /\ completion' = completion
      /\ UNCHANGED <<ckptLatest, ckptEvents>>
      /\ lease'[u].owner = Me /\ lease'[u].fence = lease[u].fence + 1
      /\ lease'[u].status = "claimed" /\ lease'[u].resume \in BOOLEAN
      /\ \A v \in Units \ {u} : lease'[v] = lease[v]
      /\ lease[u].fence \in Nat
  BY <1>1, StoreFacts DEF Claim, NewGeneration, TypeOK, ClaimedFile, LeaseFile
<1>3. /\ w \in Workers /\ w.at = "claimed" /\ w.fence = lease[u].fence + 1
      /\ l = [unit |-> u, owner |-> Me, fence |-> w.fence]
      /\ w.fence \in Nat /\ w.fence # 0
  <2>1. NoHandleResult \in Results /\ IdleWorker \in Workers
    BY DEF IdleWorker, Workers, WorkerPoints, NoHandleResult, Results
  <2>2. /\ w.at = "claimed" /\ w.fence = lease[u].fence + 1
        /\ w.resume = lease'[u].resume /\ w.outcome = "none"
        /\ w.result = NoHandleResult
        /\ w = [at |-> "claimed", fence |-> w.fence, resume |-> w.resume,
                outcome |-> w.outcome, result |-> w.result]
    BY <1>2 DEF IdleWorker
  <2> QED
    BY <1>2, <2>1, <2>2 DEF Workers, WorkerPoints
<1>4. /\ worker' = [worker EXCEPT ![u] = w]
      /\ bound' = [bound EXCEPT ![u] = w.fence]
      /\ result' = [result EXCEPT ![u] = NoHandleResult]
      /\ UNCHANGED <<active, finishing, closing, cancelled, stop, drained>>
      /\ ConditionFree /\ ~ closing /\ u \notin active /\ At(u, "idle")
  BY <1>2, <1>3 DEF Submit
<1>5. /\ worker'[u] = w /\ worker' \in [Units -> Workers]
      /\ \A v \in Units \ {u} : worker'[v] = worker[v]
      /\ bound'[u] = w.fence /\ bound' \in [Units -> Nat]
      /\ \A v \in Units \ {u} : bound'[v] = bound[v]
      /\ result'[u].status = "none" /\ result' \in [Units -> Results]
      /\ \A v \in Units \ {u} : result'[v] = result[v]
  BY <1>3, <1>4, ThreadFacts DEF ThreadInv, DispatcherTypeOK, NoHandleResult,
     Results
<1>6. OutcomesAreDecided' /\ DispatcherTypeOK'
  BY <1>3, <1>4, <1>5 DEF ThreadInv, OutcomesAreDecided, DispatcherTypeOK,
     Workers, Decided
<1>7. LeasesAreGranted'
  <2>1. \A v \in Units : ~ At(v, "idle")' => Held(v)' \in granted' /\ bound'[v] # 0
    BY <1>2, <1>3, <1>5 DEF ThreadInv, LeasesAreGranted, At, Held
  <2>2. \A v \in Units : bound'[v] # 0 => BoundLease(v)' \in granted'
    BY <1>2, <1>3, <1>5 DEF ThreadInv, LeasesAreGranted, BoundLease
  <2>3. /\ \A v \in active \cup stop.todo : bound'[v] # 0
        /\ StopHolds => stop.unit \in Units /\ StopLease \in granted'
    BY <1>2, <1>3, <1>5 DEF ThreadInv, LeasesAreGranted, DispatcherTypeOK
  <2> QED
    BY <1>4, <2>1, <2>2, <2>3 DEF LeasesAreGranted, StopHolds, StopLease
<1>8. EndingsAreOwned'
  <2>1. /\ finishing \subseteq Units /\ (StopOwns' <=> StopOwns)
        /\ \A v \in Units : At(v, "popping")' => At(v, "popping")
        /\ \A v \in finishing : v # u /\ (At(v, "popping")' <=> At(v, "popping"))
    BY <1>3, <1>4, <1>5 DEF ThreadInv, DispatcherTypeOK, StopOwns, At,
       EndingsAreOwned, EndingHasOneOwner
  <2>2. EndingHasOneOwner'
    BY <1>4, <2>1 DEF ThreadInv, EndingsAreOwned, EndingHasOneOwner
  <2>3. \A v \in Units : /\ At(v, "claimed")' => v \notin active
                         /\ At(v, "launching")' => v \notin finishing
    BY <1>3, <1>4, <1>5 DEF ConditionFree, At
  <2> QED
    BY <1>4, <2>1, <2>2, <2>3 DEF ThreadInv, EndingsAreOwned
<1>9. DrainWaitsForAll'
  BY <1>3, <1>4, <1>5 DEF ThreadInv, DrainWaitsForAll, At, ConditionFree
<1>10. ClaimsHaveWorkers'
  <2>1. ASSUME NEW v \in Units PROVE WorkerTends(v)'
    <3>1. CASE v = u
      BY <1>2, <1>3, <1>5, <3>1 DEF WorkerTends, At
    <3>2. CASE v # u
      BY <1>2, <1>5, <3>2 DEF ThreadInv, ClaimsHaveWorkers, WorkersTend,
         WorkerTends, Mine, At
    <3> QED
      BY <3>1, <3>2
  <2>2. StopTends'
    BY <1>2, <1>4 DEF ThreadInv, ClaimsHaveWorkers, StopTends, Mine,
       DrainWaitsForAll, LeasesAreGranted, StopHolds
  <2>3. ASSUME NEW v \in Units PROVE HandleReports(v)'
    <3>1. CASE v = u
      BY <1>3, <1>4, <1>5, <3>1 DEF HandleReports, At
    <3>2. CASE v # u
      BY <1>2, <1>4, <1>5, <3>2 DEF ThreadInv, ClaimsHaveWorkers, HandlesReport,
         HandleReports, Reported, Mine, At
    <3> QED
      BY <3>1, <3>2
  <2> QED
    BY <2>1, <2>2, <2>3 DEF ClaimsHaveWorkers, WorkersTend, HandlesReport
<1>12. AnalysesHaveCheckpoints'
  BY <1>2, <1>3, <1>5, StoreFacts, CheckpointsStay DEF At
<1>11. ResultsAreTrue'
  <2>1. \A v \in Units : result'[v].status = "completed" => result'[v] = result[v]
    BY <1>5
  <2> QED
    BY <1>2, <1>3, <1>4, <1>5, <2>1, ResultsStay
<1> QED
  BY <1>1, <1>6, <1>7, <1>8, <1>9, <1>10, <1>11, <1>12 DEF ThreadInv

\* The claim event, or the claim without a handle.
LEMMA SubmitRegisterKeepsInv ==
  ASSUME StoreInv, ThreadInv, NEW u \in Units, SubmitRegister(u)
  PROVE  ThreadInv' /\ [Next]_vars
<1>1. At(u, "claimed") /\ Held(u) \in granted /\ Held(u).unit = u
  BY ThreadFacts DEF SubmitRegister, At, Held
<1>2. Unnoticed /\ [Next]_vars
  BY <1>1, EventUnnoticed, NothingUnnoticed
     DEF SubmitRegister, Event, Unnoticed
<1> PICK w : /\ worker' = [worker EXCEPT ![u] = w]
             /\ \/ /\ w = [worker[u] EXCEPT !.at = "launching"]
                   /\ active' = active \cup {u} /\ result' = result
                \/ /\ w = [worker[u] EXCEPT !.at = "idle"] /\ active' = active
                   /\ result' = [result EXCEPT ![u] =
                        [status |-> "submit_raised", outcome |-> "none"]]
  BY DEF SubmitRegister, Goto
<1>3. /\ worker'[u] = w /\ worker' \in [Units -> Workers] /\ w \in Workers
      /\ \A v \in Units \ {u} : worker'[v] = worker[v]
      /\ w.fence = worker[u].fence
      /\ \/ /\ w.at = "launching" /\ active' = active \cup {u}
            /\ result' = result
         \/ /\ w.at = "idle" /\ active' = active
            /\ result'[u].status = "submit_raised"
      /\ result' \in [Units -> Results]
      /\ \A v \in Units \ {u} : result'[v] = result[v]
      /\ UNCHANGED <<finishing, closing, bound, cancelled, stop, drained>>
  <2>1. [status |-> "submit_raised", outcome |-> "none"] \in Results
    BY DEF Results
  <2>2. result \in [Units -> Results]
    BY DEF ThreadInv, DispatcherTypeOK
  <2>3. UNCHANGED <<finishing, closing, bound, cancelled, stop, drained>>
    BY DEF SubmitRegister
  <2>4. /\ worker'[u] = w /\ worker' \in [Units -> Workers] /\ w \in Workers
        /\ \A v \in Units \ {u} : worker'[v] = worker[v]
        /\ w.fence = worker[u].fence
    BY ThreadFacts DEF Workers, WorkerPoints
  <2>5. w.at \in {"launching", "idle"} /\ (w.at = "idle" => active' = active)
    BY ThreadFacts DEF Workers
  <2> QED
    BY <2>1, <2>2, <2>3, <2>4, ThreadFacts DEF Workers
<1>4. u \notin active /\ u \notin finishing /\ bound[u] # 0 /\ ~ closing
  BY <1>1 DEF ThreadInv, EndingsAreOwned, EndingHasOneOwner, LeasesAreGranted,
     DrainWaitsForAll, ConditionFree, At
<1>5. OutcomesAreDecided' /\ DispatcherTypeOK'
  BY <1>3 DEF ThreadInv, OutcomesAreDecided, DispatcherTypeOK, Workers, Decided
<1>6. LeasesAreGranted'
  BY <1>1, <1>2, <1>3, <1>4 DEF ThreadInv, LeasesAreGranted, At, Held,
     BoundLease, StopHolds, StopLease, Unnoticed
<1>7. EndingsAreOwned'
  <2>1. /\ finishing \subseteq Units /\ (StopOwns' <=> StopOwns)
        /\ \A v \in Units : At(v, "popping")' <=> At(v, "popping")
    BY <1>1, <1>3 DEF ThreadInv, DispatcherTypeOK, StopOwns, At
  <2>2. EndingHasOneOwner'
    BY <1>3, <2>1 DEF ThreadInv, EndingsAreOwned, EndingHasOneOwner
  <2>3. \A v \in Units : /\ At(v, "claimed")' => v \notin active'
                         /\ At(v, "launching")' => v \notin finishing
    BY <1>3, <1>4 DEF ThreadInv, EndingsAreOwned, At
  <2> QED
    BY <1>3, <2>1, <2>2, <2>3 DEF ThreadInv, EndingsAreOwned
<1>8. DrainWaitsForAll'
  BY <1>3, <1>4 DEF ThreadInv, DrainWaitsForAll, At, ConditionFree
<1>9. ClaimsHaveWorkers'
  <2>1. \A v \in Units : Mine(v)' => Mine(v) /\ lease'[v].fence = lease[v].fence
    BY <1>2 DEF Unnoticed
  <2>2. WorkersTend'
    BY <1>1, <1>3, <2>1 DEF ThreadInv, ClaimsHaveWorkers, WorkersTend, WorkerTends, At
  <2>3. StopTends'
    BY <1>3, <2>1 DEF ThreadInv, ClaimsHaveWorkers, StopTends, Mine,
       LeasesAreGranted, StopHolds
  <2>4. HandlesReport'
    BY <1>1, <1>3, <1>4, <2>1 DEF ThreadInv, ClaimsHaveWorkers, HandlesReport, HandleReports,
       Reported, At
  <2> QED
    BY <2>2, <2>3, <2>4 DEF ClaimsHaveWorkers
<1>10. ResultsAreTrue'
  <2>1. \A v \in Units : result'[v].status = "completed" => result'[v] = result[v]
    BY <1>3
  <2> QED
    BY <1>2, <1>3, <2>1, OwnCompletionsLast, ResultsStay
<1>11. AnalysesHaveCheckpoints'
  BY <1>2, <1>3, StoreFacts, CheckpointsStay DEF At
<1> QED
  BY <1>2, <1>5, <1>6, <1>7, <1>8, <1>9, <1>10, <1>11 DEF ThreadInv

LEMMA LaunchKeepsInv ==
  ASSUME StoreInv, ThreadInv, NEW u \in Units, Launch(u)
  PROVE  ThreadInv' /\ [Next]_vars
<1> PICK w : w = [worker[u] EXCEPT !.at = "starting"]
  OBVIOUS
<1>1. /\ worker'[u] = w /\ worker' \in [Units -> Workers] /\ w \in Workers
      /\ \A v \in Units \ {u} : worker'[v] = worker[v]
      /\ w.fence = worker[u].fence /\ w.at = "starting" /\ At(u, "launching")
      /\ UNCHANGED <<vars, active, finishing, closing, bound, cancelled, result,
                     stop, drained>>
  BY ThreadFacts DEF Launch, Goto, Workers, WorkerPoints
<1>2. Unnoticed
  BY <1>1, NothingUnnoticed
<1>3. OutcomesAreDecided' /\ DispatcherTypeOK'
  BY <1>1 DEF ThreadInv, OutcomesAreDecided, DispatcherTypeOK, Workers, Decided
<1>4. LeasesAreGranted'
  BY <1>1, <1>2, LeasesStay DEF At, Unnoticed
<1>5. EndingsAreOwned'
  <2>1. /\ finishing \subseteq Units /\ (StopOwns' <=> StopOwns)
        /\ \A v \in Units : /\ At(v, "popping")' <=> At(v, "popping")
                            /\ At(v, "claimed")' <=> At(v, "claimed")
                            /\ At(v, "launching")' => At(v, "launching")
    BY <1>1 DEF ThreadInv, DispatcherTypeOK, StopOwns, At
  <2>2. EndingHasOneOwner'
    BY <1>1, <2>1 DEF ThreadInv, EndingsAreOwned, EndingHasOneOwner
  <2> QED
    BY <1>1, <2>1, <2>2 DEF ThreadInv, EndingsAreOwned
<1>6. DrainWaitsForAll'
  BY <1>1 DEF ThreadInv, DrainWaitsForAll, At, ConditionFree
<1>7. ClaimsHaveWorkers'
  BY <1>1, <1>2, ClaimsStay DEF At
<1>8. ResultsAreTrue'
  BY <1>1, <1>2, OwnCompletionsLast, ResultsStay
<1>9. AnalysesHaveCheckpoints'
  BY <1>1, <1>2, StoreFacts, CheckpointsStay DEF At
<1> QED
  BY <1>2, <1>3, <1>4, <1>5, <1>6, <1>7, <1>8, <1>9 DEF ThreadInv, Unnoticed

\* The thread could not be started: the claim is turned into a retry wait.
LEMMA LaunchFailsKeepsInv ==
  ASSUME StoreInv, ThreadInv, NEW u \in Units, LaunchFails(u)
  PROVE  ThreadInv' /\ [Next]_vars
<1>1. At(u, "launching") /\ Held(u) \in granted /\ Held(u).unit = u
  BY ThreadFacts DEF LaunchFails, At, Held
<1> PICK r : /\ r \in Results /\ r.status # "completed"
             /\ result' = [result EXCEPT ![u] = r]
             /\ \/ MarkRetryWait(Held(u), FALSE)
                \/ UNCHANGED vars /\ r.status = "publish_rejected"
  <2>1. ASSUME NEW status \in {"retry_wait", "publish_rejected"}
        PROVE  /\ [status |-> status, outcome |-> "waiting_retry"] \in Results
               /\ [status |-> status, outcome |-> "waiting_retry"].status = status
    BY <2>1 DEF Results
  <2>2. \/ /\ MarkRetryWait(Held(u), FALSE)
           /\ result' = [result EXCEPT ![u] = [status |-> "retry_wait",
                                               outcome |-> "waiting_retry"]]
        \/ /\ UNCHANGED vars
           /\ result' = [result EXCEPT ![u] = [status |-> "publish_rejected",
                                               outcome |-> "waiting_retry"]]
    BY DEF LaunchFails
  <2> QED
    BY <2>1, <2>2
<1>2. Unnoticed /\ (Mine(u)' => r.status = "publish_rejected")
  <2>1. CASE MarkRetryWait(Held(u), FALSE)
    BY <1>1, <2>1, RetryWaitUnnoticed
  <2>2. CASE UNCHANGED vars /\ r.status = "publish_rejected"
    BY <2>2, NothingUnnoticed
  <2> QED
    BY <2>1, <2>2
<1> PICK w : w = [worker[u] EXCEPT !.at = "idle"]
  OBVIOUS
<1>3. /\ worker'[u] = w /\ worker' \in [Units -> Workers] /\ w \in Workers
      /\ \A v \in Units \ {u} : worker'[v] = worker[v]
      /\ w.fence = worker[u].fence /\ w.at = "idle"
      /\ active' = active \ {u}
      /\ UNCHANGED <<finishing, closing, bound, cancelled, stop, drained>>
  BY ThreadFacts DEF LaunchFails, Goto, Workers, WorkerPoints
<1>4. /\ result' \in [Units -> Results] /\ result'[u] = r
      /\ \A v \in Units \ {u} : result'[v] = result[v]
  BY DEF ThreadInv, DispatcherTypeOK
<1>5. OutcomesAreDecided' /\ DispatcherTypeOK'
  BY <1>3, <1>4 DEF ThreadInv, OutcomesAreDecided, DispatcherTypeOK, Workers,
     Decided
<1>6. LeasesAreGranted'
  BY <1>1, <1>2, <1>3, LeasesStay DEF At, Unnoticed
<1>7. EndingsAreOwned'
  <2>1. /\ finishing \subseteq Units \ {u} /\ (StopOwns' <=> StopOwns)
        /\ \A v \in Units : /\ At(v, "popping")' <=> At(v, "popping")
                            /\ At(v, "claimed")' => At(v, "claimed")
                            /\ At(v, "launching")' => At(v, "launching")
    BY <1>1, <1>3 DEF ThreadInv, DispatcherTypeOK, StopOwns, At, EndingsAreOwned
  <2>2. EndingHasOneOwner'
    BY <1>3, <2>1 DEF ThreadInv, EndingsAreOwned, EndingHasOneOwner
  <2> QED
    BY <1>3, <2>1, <2>2 DEF ThreadInv, EndingsAreOwned
<1>8. DrainWaitsForAll'
  BY <1>1, <1>3 DEF ThreadInv, DrainWaitsForAll, At, ConditionFree
<1>9. ClaimsHaveWorkers'
  <2>1. \A v \in Units : Mine(v)' => Mine(v) /\ lease'[v].fence = lease[v].fence
    BY <1>2 DEF Unnoticed
  <2>2. WorkersTend'
    BY <1>1, <1>3, <2>1 DEF ThreadInv, ClaimsHaveWorkers, WorkersTend, WorkerTends, At
  <2>3. StopTends'
    BY <1>3, <2>1 DEF ThreadInv, ClaimsHaveWorkers, StopTends, Mine,
       LeasesAreGranted, StopHolds
  <2>4. ASSUME NEW v \in Units PROVE HandleReports(v)'
    <3>1. CASE v = u
      BY <1>2, <1>3, <1>4, <3>1 DEF HandleReports, Reported, At
    <3>2. CASE v # u
      BY <1>3, <1>4, <2>1, <3>2 DEF ThreadInv, ClaimsHaveWorkers, HandlesReport,
         HandleReports, Reported, At
    <3> QED
      BY <3>1, <3>2
  <2> QED
    BY <2>2, <2>3, <2>4 DEF ClaimsHaveWorkers, HandlesReport
<1>11. AnalysesHaveCheckpoints'
  BY <1>2, <1>3, StoreFacts, CheckpointsStay DEF At
<1>10. ResultsAreTrue'
  <2>1. \A v \in Units : result'[v].status = "completed" => result'[v] = result[v]
    BY <1>4
  <2> QED
    BY <1>2, <1>3, <2>1, OwnCompletionsLast, ResultsStay
<1> QED
  BY <1>2, <1>5, <1>6, <1>7, <1>8, <1>9, <1>10, <1>11 DEF ThreadInv, Unnoticed

\* Steps beside the threads: heartbeats, cancellations, the other dispatcher.
LEMMA AsideKeepsInv ==
  ASSUME StoreInv, ThreadInv, Unnoticed, cancelled' \subseteq Units \X Nat,
         UNCHANGED <<worker, active, finishing, closing, bound, result, stop,
                     drained>>
  PROVE  ThreadInv'
<1>1. OutcomesAreDecided' /\ DispatcherTypeOK'
  BY DEF ThreadInv, OutcomesAreDecided, DispatcherTypeOK
<1>2. LeasesAreGranted'
  BY LeasesStay DEF Unnoticed, At
<1>3. EndingsAreOwned'
  BY EndingsStay DEF At
<1>4. DrainWaitsForAll'
  BY DEF ThreadInv, DrainWaitsForAll, At, ConditionFree
<1>5. ClaimsHaveWorkers'
  BY ClaimsStay
<1>6. ResultsAreTrue'
  BY OwnCompletionsLast, ResultsStay
<1>7. AnalysesHaveCheckpoints'
  BY StoreFacts, CheckpointsStay DEF At
<1> QED
  BY <1>1, <1>2, <1>3, <1>4, <1>5, <1>6, <1>7 DEF ThreadInv

LEMMA BesideKeepsInv ==
  ASSUME StoreInv, ThreadInv,
         \/ \E u \in Units : Beat(u) \/ Cancel(u)
         \/ RivalStep
         \/ UNCHANGED allVars
  PROVE  ThreadInv' /\ [Next]_vars
<1>1. cancelled \subseteq Units \X Nat /\ bound \in [Units -> Nat]
  BY DEF ThreadInv, DispatcherTypeOK
<1>2. ASSUME NEW u \in Units, Beat(u) PROVE ThreadInv' /\ [Next]_vars
  <2>1. Held(u) \in granted /\ worker[u].fence \in Nat
    BY <1>2, ThreadFacts DEF Beat, Running, At, Workers
  <2>2. Unnoticed
    BY <1>2, <2>1, HeartbeatUnnoticed, NothingUnnoticed DEF Beat
  <2>3. cancelled' \subseteq Units \X Nat
    BY <1>1, <1>2, <2>1 DEF Beat
  <2> QED
    BY <1>2, <2>2, <2>3, AsideKeepsInv DEF Beat, Unnoticed
<1>3. ASSUME NEW u \in Units, Cancel(u) PROVE ThreadInv' /\ [Next]_vars
  BY <1>1, <1>3, NothingUnnoticed, AsideKeepsInv DEF Cancel, Unnoticed
<1>4. CASE RivalStep
  BY <1>1, <1>4, RivalUnnoticed, AsideKeepsInv DEF threadVars, Unnoticed
<1>5. CASE UNCHANGED allVars
  BY <1>1, <1>5, NothingUnnoticed, AsideKeepsInv DEF allVars, threadVars, Unnoticed
<1> QED
  BY <1>2, <1>3, <1>4, <1>5

\* A worker looks whether it owns the ending of its unit, and may take it.
LEMMA FinishActiveKeepsInv ==
  ASSUME StoreInv, ThreadInv, NEW u \in Units, FinishActive(u)
  PROVE  ThreadInv' /\ [Next]_vars
<1> PICK w : \/ /\ w = [worker[u] EXCEPT !.at = "popping"]
                /\ worker' = [worker EXCEPT ![u] = w]
                /\ u \in active /\ u \notin finishing
                /\ finishing' = finishing \cup {u}
             \/ /\ w = [worker[u] EXCEPT !.at = "idle"]
                /\ worker' = [worker EXCEPT ![u] = w]
                /\ u \notin active \/ u \in finishing
                /\ finishing' = finishing
  BY DEF FinishActive, Goto
<1>1. /\ worker'[u] = w /\ worker' \in [Units -> Workers] /\ w \in Workers
      /\ \A v \in Units \ {u} : worker'[v] = worker[v]
      /\ w.fence = worker[u].fence /\ w.result = worker[u].result
      /\ At(u, "finishing") /\ w.at \in {"popping", "idle"}
      /\ \/ /\ w.at = "popping" /\ u \in active /\ u \notin finishing
            /\ finishing' = finishing \cup {u}
         \/ /\ w.at = "idle" /\ (u \notin active \/ u \in finishing)
            /\ finishing' = finishing
      /\ UNCHANGED <<vars, active, closing, bound, cancelled, result, stop,
                     drained>>
      /\ ConditionFree
  BY ThreadFacts DEF FinishActive, Workers, WorkerPoints
<1>2. OutcomesAreDecided' /\ DispatcherTypeOK'
  BY <1>1 DEF ThreadInv, OutcomesAreDecided, DispatcherTypeOK, Workers, Decided
<1>3. LeasesAreGranted'
  BY <1>1, LeasesStay DEF At, vars
<1>4. EndingsAreOwned'
  <2>1. /\ finishing \subseteq Units /\ (StopOwns' <=> StopOwns)
        /\ StopOwns => stop.unit \in finishing
        /\ \A v \in Units \ {u} : At(v, "popping")' <=> At(v, "popping")
        /\ ~ At(u, "popping")
    BY <1>1 DEF ThreadInv, DispatcherTypeOK, StopOwns, At, EndingsAreOwned
  <2>2. EndingHasOneOwner'
    <3>1. ASSUME NEW v \in finishing'
          PROVE  /\ v \in active
                 /\ At(v, "popping")' \/ (stop.unit = v /\ StopOwns)
                 /\ ~ (At(v, "popping")' /\ stop.unit = v /\ StopOwns)
      <4>1. CASE v = u /\ w.at = "popping"
        BY <1>1, <2>1, <4>1 DEF At
      <4>2. CASE v = u /\ w.at = "idle"
        BY <1>1, <2>1, <4>2 DEF At, ThreadInv, EndingsAreOwned,
           EndingHasOneOwner, StopOwns
      <4>3. CASE v # u
        BY <1>1, <2>1, <4>3 DEF ThreadInv, EndingsAreOwned,
           EndingHasOneOwner, StopOwns
      <4> QED
        BY <1>1, <4>1, <4>2, <4>3
    <3> QED
      BY <1>1, <3>1 DEF EndingHasOneOwner, StopOwns
  <2>3. \A v \in Units : At(v, "popping")' => v \in finishing'
    BY <1>1, <2>1 DEF ThreadInv, EndingsAreOwned, At
  <2>4. \A v \in Units : ~ At(v, "claimed")' /\ ~ At(v, "launching")'
    BY <1>1 DEF ConditionFree, At
  <2> QED
    BY <1>1, <2>1, <2>2, <2>3, <2>4 DEF EndingsAreOwned
<1>5. DrainWaitsForAll'
  BY <1>1 DEF ThreadInv, DrainWaitsForAll, At, ConditionFree
<1>6. ClaimsHaveWorkers' /\ AnalysesHaveCheckpoints'
  <2>1. lease' = lease /\ UNCHANGED <<ckptLatest, ckptEvents>>
    BY <1>1 DEF vars
  <2>2. WorkersTend'
    BY <1>1, <2>1 DEF ThreadInv, ClaimsHaveWorkers, WorkersTend, WorkerTends, Mine, At
  <2>3. StopTends'
    BY <1>1, <2>1 DEF ThreadInv, ClaimsHaveWorkers, StopTends, Mine
  <2>4. HandlesReport'
    BY <1>1, <2>1 DEF ThreadInv, ClaimsHaveWorkers, HandlesReport, HandleReports, Reported,
       Mine, At
  <2>5. AnalysesHaveCheckpoints'
    BY <1>1, <2>1, StoreFacts, CheckpointsStay DEF At
  <2> QED
    BY <2>2, <2>3, <2>4, <2>5 DEF ClaimsHaveWorkers
<1>7. ResultsAreTrue'
  <2>1. \A v \in Units : Truthful(v, worker'[v].result) \/ worker'[v] = worker[v]
    BY <1>1 DEF ThreadInv, ResultsAreTrue, At
  <2> QED
    BY <1>1, <2>1 DEF ThreadInv, ResultsAreTrue, Truthful, Published, At, vars
<1> QED
  BY <1>1, <1>2, <1>3, <1>4, <1>5, <1>6, <1>7 DEF ThreadInv

\* The worker that owns the ending of its unit ends it.
LEMMA PopActiveKeepsInv ==
  ASSUME StoreInv, ThreadInv, NEW u \in Units, PopActive(u)
  PROVE  ThreadInv' /\ [Next]_vars
<1> PICK w : w = [worker[u] EXCEPT !.at = "idle"]
  OBVIOUS
<1>1. /\ worker'[u] = w /\ worker' \in [Units -> Workers] /\ w \in Workers
      /\ \A v \in Units \ {u} : worker'[v] = worker[v]
      /\ w.fence = worker[u].fence /\ At(u, "popping") /\ w.at = "idle"
      /\ active' = active \ {u} /\ finishing' = finishing \ {u}
      /\ UNCHANGED <<vars, closing, bound, cancelled, stop, drained>>
      /\ ConditionFree /\ worker[u].result \in Results
  BY ThreadFacts DEF PopActive, Goto, Workers, WorkerPoints
<1>2. /\ result' \in [Units -> Results]
      /\ \A v \in Units : \/ result'[v] = result[v]
                          \/ v = u /\ result'[v] = worker[u].result
  BY <1>1 DEF PopActive, SetResult, ThreadInv, DispatcherTypeOK
<1>3. OutcomesAreDecided' /\ DispatcherTypeOK'
  BY <1>1, <1>2 DEF ThreadInv, OutcomesAreDecided, DispatcherTypeOK, Workers,
     Decided
<1>4. LeasesAreGranted'
  BY <1>1, LeasesStay DEF At, vars
<1>5. EndingsAreOwned'
  <2>1. /\ finishing \subseteq Units /\ (StopOwns' <=> StopOwns)
        /\ \A v \in Units \ {u} : At(v, "popping")' <=> At(v, "popping")
        /\ ~ At(u, "popping")' /\ ~ (StopOwns /\ stop.unit = u)
    BY <1>1 DEF ThreadInv, DispatcherTypeOK, StopOwns, At, EndingsAreOwned,
       EndingHasOneOwner
  <2>2. EndingHasOneOwner'
    BY <1>1, <2>1 DEF ThreadInv, EndingsAreOwned, EndingHasOneOwner
  <2>3. \A v \in Units : ~ At(v, "claimed")' /\ ~ At(v, "launching")'
    BY <1>1 DEF ConditionFree, At
  <2> QED
    BY <1>1, <2>1, <2>2, <2>3 DEF ThreadInv, EndingsAreOwned
<1>6. DrainWaitsForAll'
  BY <1>1 DEF ThreadInv, DrainWaitsForAll, At, ConditionFree
<1>7. ClaimsHaveWorkers' /\ AnalysesHaveCheckpoints'
  <2>1. lease' = lease /\ UNCHANGED <<ckptLatest, ckptEvents>>
    BY <1>1 DEF vars
  <2>2. WorkersTend'
    BY <1>1, <2>1 DEF ThreadInv, ClaimsHaveWorkers, WorkersTend, WorkerTends, Mine, At
  <2>3. StopTends'
    BY <1>1, <2>1 DEF ThreadInv, ClaimsHaveWorkers, StopTends, Mine
  <2>4. result'[u] = worker[u].result /\ u \in active
    BY <1>1 DEF PopActive, SetResult, ThreadInv, ClaimsHaveWorkers, HandlesReport, HandleReports,
       EndingsAreOwned, EndingHasOneOwner, DispatcherTypeOK
  <2>5. ASSUME NEW v \in Units PROVE HandleReports(v)'
    <3>1. CASE v = u
      <4>1. Mine(u) => worker[u].result.status = "publish_rejected"
        BY <1>1 DEF ThreadInv, ClaimsHaveWorkers, WorkersTend, WorkerTends, At
      <4>2. Mine(u)' = Mine(u)
        BY <2>1 DEF Mine
      <4>3. ~ At(u, "claimed")' /\ u \notin active'
        BY <1>1 DEF At
      <4> QED
        BY <2>4, <3>1, <4>1, <4>2, <4>3 DEF HandleReports, Reported
    <3>2. CASE v # u
      <4>1. result'[v] = result[v]
        BY <1>2, <3>2
      <4> QED
        BY <1>1, <2>1, <3>2, <4>1 DEF ThreadInv, ClaimsHaveWorkers, HandlesReport,
           HandleReports, Reported, Mine, At
    <3> QED
      BY <3>1, <3>2
  <2>6. AnalysesHaveCheckpoints'
    BY <1>1, <2>1, StoreFacts, CheckpointsStay DEF At
  <2> QED
    BY <2>2, <2>3, <2>5, <2>6 DEF ClaimsHaveWorkers, HandlesReport
<1>8. ResultsAreTrue'
  <2>1. Truthful(u, worker[u].result)
    BY <1>1 DEF ThreadInv, ResultsAreTrue, At
  <2>2. \A v \in Units : Truthful(v, result'[v])
    BY <1>2, <2>1 DEF ThreadInv, ResultsAreTrue
  <2>3. \A v \in Units :
          worker'[v].at \in {"announcing", "finishing", "popping"} =>
            worker'[v] = worker[v]
    BY <1>1
  <2>4. UNCHANGED completion
    BY <1>1 DEF vars
  <2>5. \A v \in Units :
          /\ Truthful(v, result[v])'
          /\ At(v, "announcing")' => Published(v, worker[v].outcome)'
          /\ worker'[v].at \in {"finishing", "popping"} =>
               Truthful(v, worker[v].result)'
    BY <2>2, <2>3, <2>4 DEF ThreadInv, ResultsAreTrue, Truthful, Published, At
  <2> QED
    BY <1>1, <2>4, <2>5 DEF ThreadInv, ResultsAreTrue, Truthful, Published
<1> QED
  BY <1>1, <1>3, <1>4, <1>5, <1>6, <1>7, <1>8 DEF ThreadInv

LEMMA DrainKeepsInv ==
  ASSUME StoreInv, ThreadInv, Drain \/ DrainReturns
  PROVE  ThreadInv' /\ [Next]_vars
<1>1. /\ UNCHANGED <<vars, worker, active, finishing, bound, cancelled, result,
                     stop>>
      /\ closing' /\ closing' \in BOOLEAN /\ drained' \in BOOLEAN
      /\ drained' => active = {} \/ drained
      /\ ConditionFree
  <2>1. closing \in BOOLEAN /\ drained \in BOOLEAN /\ (closing => ConditionFree)
    BY DEF ThreadInv, DispatcherTypeOK, DrainWaitsForAll
  <2>2. CASE Drain
    BY <2>1, <2>2 DEF Drain
  <2>3. CASE DrainReturns
    BY <2>1, <2>3 DEF DrainReturns
  <2> QED
    BY <2>2, <2>3
<1>2. OutcomesAreDecided' /\ DispatcherTypeOK'
  BY <1>1 DEF ThreadInv, OutcomesAreDecided, DispatcherTypeOK
<1>3. LeasesAreGranted'
  BY <1>1, LeasesStay DEF At, vars
<1>4. EndingsAreOwned'
  BY <1>1, EndingsStay DEF At
<1>5. DrainWaitsForAll'
  BY <1>1 DEF ThreadInv, DrainWaitsForAll, At, ConditionFree
<1>6. ClaimsHaveWorkers' /\ AnalysesHaveCheckpoints'
  BY <1>1, NothingUnnoticed, ClaimsStay, StoreFacts, CheckpointsStay DEF At
<1>7. ResultsAreTrue'
  BY <1>1, ResultsStay DEF vars
<1> QED
  BY <1>1, <1>2, <1>3, <1>4, <1>5, <1>6, <1>7 DEF ThreadInv

\* The emergency stop looks around: it owns no ending before or after.
LEMMA StopMovesKeepsInv ==
  ASSUME StoreInv, ThreadInv, ~ StopOwns, ~ StopOwns', stop'.at # "off",
         closing', closing' \in BOOLEAN, ConditionFree,
         cancelled' \subseteq Units \X Nat,
         stop' \in [at : StopPoints, todo : SUBSET Units, fence : Nat,
                    unit : Units \cup {NoUnit}, result : Results,
                    sealed : BOOLEAN],
         \A v \in stop'.todo : bound[v] # 0,
         StopHolds' => stop'.unit \in Units /\ StopLease' \in granted,
         UNCHANGED <<vars, worker, active, finishing, bound, result, drained>>
  PROVE  ThreadInv'
<1>1. granted' = granted /\ completion' = completion /\ lease' = lease
  BY DEF vars
<1>2. OutcomesAreDecided' /\ DispatcherTypeOK'
  BY DEF ThreadInv, OutcomesAreDecided, DispatcherTypeOK
<1>3. LeasesAreGranted'
  BY <1>1 DEF ThreadInv, LeasesAreGranted, At, Held, BoundLease
<1>4. EndingsAreOwned'
  BY DEF ThreadInv, EndingsAreOwned, EndingHasOneOwner, StopOwns, At
<1>5. DrainWaitsForAll'
  BY DEF ThreadInv, DrainWaitsForAll, ConditionFree
<1>6. ClaimsHaveWorkers'
  BY <1>1 DEF ThreadInv, ClaimsHaveWorkers, WorkersTend, WorkerTends, StopTends,
     HandlesReport, HandleReports, Reported, Mine, At, StopOwns
<1>8. AnalysesHaveCheckpoints'
  BY NothingUnnoticed, StoreFacts, CheckpointsStay DEF At
<1>7. ResultsAreTrue'
  BY <1>1 DEF ThreadInv, ResultsAreTrue, At, Truthful, Published, StopOwns
<1> QED
  BY <1>2, <1>3, <1>4, <1>5, <1>6, <1>7, <1>8 DEF ThreadInv

StopTurns ==
  \/ Emergency \/ StopWait \/ StopDeadline \/ StopReturns
  \/ \E u \in Units : StopCancel(u) \/ StopChoose(u)

LEMMA StopTurnsKeepsInv ==
  ASSUME StoreInv, ThreadInv, StopTurns
  PROVE  ThreadInv' /\ [Next]_vars
<1> DEFINE StopType == [at : StopPoints, todo : SUBSET Units, fence : Nat,
                        unit : Units \cup {NoUnit}, result : Results,
                        sealed : BOOLEAN]
<1>1. /\ stop \in StopType /\ active \subseteq Units /\ finishing \subseteq Units
      /\ cancelled \subseteq Units \X Nat /\ bound \in [Units -> Nat]
      /\ closing \in BOOLEAN
      /\ \A v \in active \cup stop.todo : bound[v] # 0
      /\ stop.at # "off" => closing
      /\ closing => ConditionFree
  BY DEF ThreadInv, DispatcherTypeOK, LeasesAreGranted, DrainWaitsForAll
<1>2. /\ UNCHANGED <<vars, worker, active, finishing, bound, result, drained>>
      /\ stop.at \in {"off", "cancelling", "waiting", "choosing"}
  BY DEF StopTurns, Emergency, StopWait, StopDeadline, StopReturns, StopCancel,
     StopChoose
<1>3. ASSUME stop' \in StopType,
             stop'.at \in {"cancelling", "waiting", "choosing", "returned"},
             stop'.todo \subseteq active \cup stop.todo,
             cancelled' \subseteq Units \X Nat,
             closing', closing' \in BOOLEAN, ConditionFree
      PROVE  ThreadInv'
  BY <1>1, <1>2, <1>3, StopMovesKeepsInv DEF StopOwns, StopHolds
<1>4. CASE Emergency
  BY <1>1, <1>3, <1>4 DEF Emergency, StopPoints
<1>5. CASE StopWait
  BY <1>1, <1>3, <1>5 DEF StopWait, StopPoints
<1>6. CASE StopDeadline
  BY <1>1, <1>3, <1>6 DEF StopDeadline, StopPoints
<1>7. CASE StopReturns
  BY <1>1, <1>3, <1>7 DEF StopReturns, StopPoints
<1>8. ASSUME NEW u \in Units, StopCancel(u) PROVE ThreadInv'
  <2>1. /\ stop' = [stop EXCEPT !.todo = @ \ {u}] /\ closing' = closing
        /\ stop.at = "cancelling"
    BY <1>8 DEF StopCancel
  <2>2. cancelled' \subseteq Units \X Nat
    BY <1>1, <1>8 DEF StopCancel
  <2>3. /\ stop' \in StopType /\ stop'.at = "cancelling"
        /\ stop'.todo \subseteq active \cup stop.todo
    BY <1>1, <2>1
  <2> QED
    BY <1>1, <1>3, <2>1, <2>2, <2>3
<1>9. ASSUME NEW u \in Units, StopChoose(u) PROVE ThreadInv'
  <2>1. /\ stop' = [stop EXCEPT !.at = "claiming", !.todo = @ \ {u},
                                !.unit = u, !.fence = bound[u]]
        /\ stop.at = "choosing" /\ u \in stop.todo
        /\ closing' = closing /\ cancelled' = cancelled
    BY <1>9 DEF StopChoose
  <2>2. /\ stop' \in StopType /\ stop'.at = "claiming" /\ stop'.unit = u
        /\ stop'.fence = bound[u] /\ stop'.todo \subseteq stop.todo
    BY <1>1, <2>1 DEF StopPoints
  <2>3. StopLease' \in granted
    BY <1>1, <2>1, <2>2 DEF ThreadInv, LeasesAreGranted, BoundLease, StopLease
  <2> QED
    BY <1>1, <1>2, <2>1, <2>2, <2>3, StopMovesKeepsInv DEF StopOwns
<1> QED
  BY <1>2, <1>4, <1>5, <1>6, <1>7, <1>8, <1>9 DEF StopTurns

\* The emergency stop takes the ending of a unit nobody ends yet, or leaves it.
LEMMA StopOwnKeepsInv ==
  ASSUME StoreInv, ThreadInv, StopOwn
  PROVE  ThreadInv' /\ [Next]_vars
<1> DEFINE StopType == [at : StopPoints, todo : SUBSET Units, fence : Nat,
                        unit : Units \cup {NoUnit}, result : Results,
                        sealed : BOOLEAN]
<1>1. /\ stop \in StopType /\ finishing \subseteq Units
      /\ cancelled \subseteq Units \X Nat
      /\ closing /\ closing' = closing /\ closing \in BOOLEAN
      /\ \A v \in stop.todo : bound[v] # 0
      /\ stop.unit \in Units /\ StopLease \in granted
      /\ stop.at = "claiming" /\ ConditionFree
      /\ UNCHANGED <<vars, worker, active, bound, result, drained>>
  BY DEF ThreadInv, DispatcherTypeOK, LeasesAreGranted, DrainWaitsForAll,
     StopHolds, StopOwn
<1>2. CASE /\ stop' = [stop EXCEPT !.at = "choosing"]
           /\ UNCHANGED <<finishing, cancelled>>
  <2>1. stop' \in StopType /\ stop'.at = "choosing" /\ stop'.todo = stop.todo
    BY <1>1, <1>2 DEF StopPoints
  <2> QED
    BY <1>1, <1>2, <2>1, StopMovesKeepsInv DEF StopOwns, StopHolds
<1>3. CASE /\ stop.unit \in active /\ stop.unit \notin finishing
           /\ finishing' = finishing \cup {stop.unit}
           /\ cancelled' = cancelled \cup {<<stop.unit, stop.fence>>}
           /\ stop' = [stop EXCEPT !.at = "publishing"]
  <2>1. /\ stop' \in StopType /\ stop'.at = "publishing"
        /\ stop'.unit = stop.unit /\ stop'.fence = stop.fence
        /\ stop'.todo = stop.todo
        /\ finishing' \subseteq Units /\ cancelled' \subseteq Units \X Nat
    BY <1>1, <1>3 DEF StopPoints
  <2>2. granted' = granted /\ completion' = completion /\ lease' = lease
    BY <1>1 DEF vars
  <2>3. OutcomesAreDecided' /\ DispatcherTypeOK'
    BY <1>1, <2>1 DEF ThreadInv, OutcomesAreDecided, DispatcherTypeOK
  <2>4. LeasesAreGranted'
    BY <1>1, <2>1, <2>2 DEF ThreadInv, LeasesAreGranted, At, Held, BoundLease,
       StopLease
  <2>5. EndingsAreOwned'
    <3>1. ~ StopOwns /\ StopOwns' /\ ~ At(stop.unit, "popping")
      BY <1>1, <1>3, <2>1 DEF StopOwns, ThreadInv, EndingsAreOwned
    <3>2. ASSUME NEW v \in finishing'
          PROVE  /\ v \in active
                 /\ At(v, "popping") \/ v = stop.unit
                 /\ ~ (At(v, "popping") /\ v = stop.unit)
      BY <1>3, <3>1, <3>2 DEF ThreadInv, EndingsAreOwned, EndingHasOneOwner,
         StopOwns
    <3>3. EndingHasOneOwner'
      <4>1. \A v \in Units : At(v, "popping")' <=> At(v, "popping")
        BY <1>1 DEF At
      <4> QED
        BY <1>1, <2>1, <3>2, <4>1 DEF EndingHasOneOwner
    <3>4. \A v \in Units : ~ At(v, "launching")
      BY <1>1 DEF ConditionFree, At
    <3> QED
      BY <1>1, <1>3, <2>1, <3>3, <3>4 DEF ThreadInv, EndingsAreOwned, At
  <2>6. DrainWaitsForAll'
    BY <1>1, <2>1 DEF ThreadInv, DrainWaitsForAll, ConditionFree
  <2>7. ClaimsHaveWorkers'
    <3>1. WorkersTend' /\ StopTends'
      BY <1>1, <2>1, <2>2 DEF ThreadInv, ClaimsHaveWorkers, WorkersTend, WorkerTends,
         StopTends, Mine, At
    <3>2. HandlesReport'
      BY <1>1, <1>3, <2>2 DEF ThreadInv, ClaimsHaveWorkers, HandlesReport, HandleReports,
         Reported, Mine, At
    <3> QED
      BY <3>1, <3>2 DEF ClaimsHaveWorkers
  <2>9. AnalysesHaveCheckpoints'
    BY <1>1, NothingUnnoticed, StoreFacts, CheckpointsStay DEF At
  <2>8. ResultsAreTrue'
    BY <1>1, <2>1, <2>2 DEF ThreadInv, ResultsAreTrue, At, Truthful, Published
  <2> QED
    BY <1>1, <2>3, <2>4, <2>5, <2>6, <2>7, <2>8, <2>9 DEF ThreadInv
<1> QED
  BY <1>1, <1>2, <1>3 DEF StopOwn

\* The emergency stop publishes and announces the ending it owns.
StopWrites == StopPublish \/ StopAnnounce

LEMMA StopWritesKeepsInv ==
  ASSUME StoreInv, ThreadInv, StopWrites
  PROVE  ThreadInv' /\ [Next]_vars
<1> DEFINE StopType == [at : StopPoints, todo : SUBSET Units, fence : Nat,
                        unit : Units \cup {NoUnit}, result : Results,
                        sealed : BOOLEAN]
           ends(status) == [status |-> status, outcome |-> "cancelled"]
<1> PICK x : x = stop.unit
  OBVIOUS
<1>1. /\ stop \in StopType /\ x \in Units /\ StopLease \in granted
      /\ StopLease.unit = x /\ StopLease.owner = Me /\ Me \in Owners
      /\ StopOwns /\ stop.at # "off" /\ stop.at \in {"publishing", "announcing"}
      /\ UNCHANGED <<worker, active, finishing, closing, bound, cancelled, result,
                     drained>>
  BY DEF ThreadInv, DispatcherTypeOK, LeasesAreGranted, StopHolds, StopOwns,
     StopWrites, StopPublish, StopAnnounce, StopLease
<1>2. ends("completed") \in Results /\ ends("publish_rejected") \in Results
  BY DEF Results
<1>3. /\ Unnoticed
      /\ \/ /\ stop' = [stop EXCEPT !.at = "announcing"]
            /\ Published(x, "cancelled")' /\ ~ Mine(x)'
         \/ /\ stop' = [stop EXCEPT !.at = "popping", !.result = ends("completed")]
            /\ Published(x, "cancelled")' /\ ~ Mine(x)'
         \/ stop' = [stop EXCEPT !.at = "popping",
                                 !.result = ends("publish_rejected")]
  <2>1. CASE StopPublish
    <3>1. ASSUME PublishTerminal(StopLease, "cancelled", 3)
          PROVE  Unnoticed /\ Published(x, "cancelled")' /\ ~ Mine(x)'
      BY <1>1, <3>1, PublicationUnnoticed DEF Published
    <3>2. ASSUME NEW upto \in 1..2,
                 PublishTerminal(StopLease, "cancelled", upto)
          PROVE  Unnoticed
      BY <1>1, <3>2, PublicationUnnoticed
    <3> QED
      BY <2>1, <3>1, <3>2, NothingUnnoticed DEF StopPublish, StopEnds
  <2>2. CASE StopAnnounce
    <3>1. Published(x, "cancelled") /\ ~ Mine(x)
      BY <2>2 DEF StopAnnounce, ThreadInv, ResultsAreTrue, ClaimsHaveWorkers,
         StopTends
    <3>2. ASSUME RecordTaskEvent(StopLease, "progress")
          PROVE  Unnoticed /\ Published(x, "cancelled")' /\ ~ Mine(x)'
      BY <1>1, <3>1, <3>2, EventUnnoticed DEF Published
    <3> QED
      BY <2>2, <3>2, NothingUnnoticed DEF StopAnnounce, StopEnds
  <2> QED
    BY <2>1, <2>2 DEF StopWrites
<1> HIDE DEF ends
<1>4. /\ stop' \in StopType /\ stop'.at \in {"announcing", "popping"}
      /\ stop'.unit = x /\ stop'.fence = stop.fence /\ stop'.todo = stop.todo
      /\ stop'.at = "announcing" => Published(x, "cancelled")' /\ ~ Mine(x)'
      /\ stop'.at = "popping" =>
           \/ /\ stop'.result = ends("completed") /\ Published(x, "cancelled")'
              /\ ~ Mine(x)'
           \/ stop'.result = ends("publish_rejected")
  BY <1>1, <1>2, <1>3 DEF StopPoints
<1>5. OutcomesAreDecided' /\ DispatcherTypeOK'
  BY <1>1, <1>4 DEF ThreadInv, OutcomesAreDecided, DispatcherTypeOK
<1>6. LeasesAreGranted'
  <2>1. granted \subseteq granted' /\ StopLease' = StopLease
    BY <1>1, <1>3, <1>4 DEF Unnoticed, StopLease
  <2> QED
    BY <1>1, <1>4, <2>1 DEF ThreadInv, LeasesAreGranted, At, Held, BoundLease
<1>7. EndingsAreOwned'
  <2>1. \A v \in Units, p \in {"popping", "claimed", "launching"} :
          At(v, p)' <=> At(v, p)
    BY <1>1 DEF At
  <2>2. finishing \subseteq Units /\ StopOwns' /\ stop'.unit = stop.unit
    BY <1>1, <1>4 DEF ThreadInv, DispatcherTypeOK, StopOwns
  <2>3. EndingHasOneOwner'
    BY <1>1, <1>4, <2>1, <2>2 DEF ThreadInv, EndingsAreOwned, EndingHasOneOwner
  <2> QED
    BY <1>1, <2>1, <2>2, <2>3 DEF ThreadInv, EndingsAreOwned
<1>8. DrainWaitsForAll'
  BY <1>1, <1>4 DEF ThreadInv, DrainWaitsForAll, ConditionFree
<1>9. ClaimsHaveWorkers'
  <2>1. \A v \in Units : Mine(v)' => Mine(v) /\ lease'[v].fence = lease[v].fence
    BY <1>3 DEF Unnoticed
  <2>2. WorkersTend' /\ HandlesReport'
    BY <1>1, <2>1 DEF ThreadInv, ClaimsHaveWorkers, WorkersTend, WorkerTends, HandlesReport, HandleReports,
       Reported, At
  <2>3. StopTends'
    BY <1>4 DEF ends, StopTends, Mine
  <2> QED
    BY <2>2, <2>3 DEF ClaimsHaveWorkers
<1>11. AnalysesHaveCheckpoints'
  BY <1>1, <1>3, StoreFacts, CheckpointsStay DEF At
<1>10. ResultsAreTrue'
  <2>1. \A v \in Units : completion[v].owner = Me => completion'[v] = completion[v]
    BY <1>3, OwnCompletionsLast
  <2>2. \A v \in Units :
          /\ Truthful(v, result[v])'
          /\ At(v, "announcing")' => Published(v, worker[v].outcome)'
          /\ worker'[v].at \in {"finishing", "popping"} =>
               Truthful(v, worker[v].result)'
    BY <1>1, <2>1 DEF ThreadInv, ResultsAreTrue, Truthful, Published, At
  <2>3. stop'.at = "popping" => Truthful(stop.unit, stop.result)'
    BY <1>4 DEF ends, Truthful, Published
  <2>4. stop'.at = "announcing" => Published(stop.unit, "cancelled")'
    BY <1>4 DEF Published
  <2> QED
    BY <2>2, <2>3, <2>4 DEF ResultsAreTrue
<1> QED
  BY <1>3, <1>5, <1>6, <1>7, <1>8, <1>9, <1>10, <1>11 DEF ThreadInv, Unnoticed

\* The emergency stop ends the unit whose ending it owns.
LEMMA StopPopKeepsInv ==
  ASSUME StoreInv, ThreadInv, StopPop
  PROVE  ThreadInv' /\ [Next]_vars
<1> DEFINE StopType == [at : StopPoints, todo : SUBSET Units, fence : Nat,
                        unit : Units \cup {NoUnit}, result : Results,
                        sealed : BOOLEAN]
<1> PICK x : x = stop.unit
  OBVIOUS
<1>1. /\ stop \in StopType /\ x \in Units /\ StopOwns /\ stop.at = "popping"
      /\ active' = active \ {x} /\ finishing' = finishing \ {x}
      /\ x \in finishing /\ finishing \subseteq Units /\ active \subseteq Units
      /\ UNCHANGED <<vars, worker, closing, bound, cancelled, drained>>
      /\ ConditionFree
  BY DEF ThreadInv, DispatcherTypeOK, LeasesAreGranted, StopHolds, StopOwns,
     StopPop, EndingsAreOwned
<1>2. /\ result' \in [Units -> Results]
      /\ \A v \in Units : \/ result'[v] = result[v]
                          \/ v = x /\ result'[v] = stop.result
  BY <1>1 DEF StopPop, SetResult, ThreadInv, DispatcherTypeOK
<1>3. stop' \in StopType /\ stop'.at = "choosing" /\ stop'.todo = stop.todo
  BY <1>1 DEF StopPop, StopPoints
<1>4. granted' = granted /\ completion' = completion /\ lease' = lease
  BY <1>1 DEF vars
<1>5. OutcomesAreDecided' /\ DispatcherTypeOK'
  BY <1>1, <1>2, <1>3 DEF ThreadInv, OutcomesAreDecided, DispatcherTypeOK
<1>6. LeasesAreGranted'
  BY <1>1, <1>3, <1>4 DEF ThreadInv, LeasesAreGranted, At, Held, BoundLease,
     StopHolds
<1>7. EndingsAreOwned'
  <2>1. \A v \in Units, p \in {"popping", "claimed", "launching"} :
          At(v, p)' <=> At(v, p)
    BY <1>1 DEF At
  <2>2. ~ StopOwns' /\ ~ At(x, "popping")
    BY <1>1, <1>3 DEF ThreadInv, EndingsAreOwned, EndingHasOneOwner, StopOwns
  <2>3. EndingHasOneOwner'
    BY <1>1, <1>3, <2>1, <2>2 DEF ThreadInv, EndingsAreOwned,
       EndingHasOneOwner, StopOwns
  <2> QED
    BY <1>1, <2>1, <2>2, <2>3 DEF ThreadInv, EndingsAreOwned
<1>8. DrainWaitsForAll'
  BY <1>1, <1>3 DEF ThreadInv, DrainWaitsForAll, ConditionFree
<1>9. ClaimsHaveWorkers' /\ AnalysesHaveCheckpoints'
  <2>1. result'[x] = stop.result
    BY <1>1 DEF StopPop, SetResult, ThreadInv, ClaimsHaveWorkers, HandlesReport, HandleReports,
       EndingsAreOwned, EndingHasOneOwner, DispatcherTypeOK
  <2>2. WorkersTend' /\ StopTends'
    BY <1>1, <1>3, <1>4 DEF ThreadInv, ClaimsHaveWorkers, WorkersTend, WorkerTends, StopTends,
       Mine, At
  <2>3. ASSUME NEW v \in Units PROVE HandleReports(v)'
    <3>1. CASE v = x
      <4>1. Mine(x) => stop.result.status = "publish_rejected"
        BY <1>1 DEF ThreadInv, ClaimsHaveWorkers, StopTends
      <4>2. Mine(x)' = Mine(x)
        BY <1>4 DEF Mine
      <4>3. ~ At(x, "claimed")' /\ x \notin active'
        BY <1>1 DEF ConditionFree, At
      <4> QED
        BY <2>1, <3>1, <4>1, <4>2, <4>3 DEF HandleReports, Reported
    <3>2. CASE v # x
      <4>1. result'[v] = result[v]
        BY <1>2, <3>2
      <4> QED
        BY <1>1, <1>4, <3>2, <4>1 DEF ThreadInv, ClaimsHaveWorkers, HandlesReport,
           HandleReports, Reported, Mine, At
    <3> QED
      BY <3>1, <3>2
  <2>4. AnalysesHaveCheckpoints'
    BY <1>1, NothingUnnoticed, StoreFacts, CheckpointsStay DEF At
  <2> QED
    BY <2>2, <2>3, <2>4 DEF ClaimsHaveWorkers, HandlesReport
<1>10. ResultsAreTrue'
  <2>1. Truthful(x, stop.result)
    BY <1>1 DEF ThreadInv, ResultsAreTrue
  <2>2. \A v \in Units : Truthful(v, result'[v])
    BY <1>2, <2>1 DEF ThreadInv, ResultsAreTrue
  <2> QED
    BY <1>1, <1>3, <1>4, <2>2 DEF ThreadInv, ResultsAreTrue, Truthful,
       Published, At
<1> QED
  BY <1>1, <1>5, <1>6, <1>7, <1>8, <1>9, <1>10 DEF ThreadInv

-----------------------------------------------------------------------------
(* The theorems.                                                           *)

Inv == StoreInv /\ ThreadInv

LEMMA InitInv == DispatcherInit => Init /\ Inv
<1> SUFFICES ASSUME DispatcherInit PROVE Init /\ Inv
  OBVIOUS
<1>1. Init /\ StoreInv
  BY InitStoreInv DEF DispatcherInit
<1>2. NoHandleResult \in Results
  BY DEF NoHandleResult, Results
<1>3. IdleWorker \in Workers
  BY <1>2 DEF IdleWorker, Workers, WorkerPoints
<1>4. \A u \in Units : worker[u] = IdleWorker /\ At(u, "idle")
  BY DEF DispatcherInit, IdleWorker, At
<1>5. OutcomesAreDecided
  BY <1>4 DEF OutcomesAreDecided, Decided, At
<1>6. DispatcherTypeOK
  BY <1>2, <1>3 DEF DispatcherInit, DispatcherTypeOK, Workers, StopPoints
<1>7. LeasesAreGranted /\ EndingsAreOwned /\ DrainWaitsForAll
  BY <1>4 DEF DispatcherInit, LeasesAreGranted, EndingsAreOwned, StopHolds,
     EndingHasOneOwner, StopOwns, DrainWaitsForAll, At
<1>8. ClaimsHaveWorkers
  BY DEF DispatcherInit, Init, NoLease, ClaimsHaveWorkers, WorkersTend, WorkerTends,
     StopTends, HandlesReport, HandleReports, Mine, IdleWorker, NoHandleResult, At
<1>10. AnalysesHaveCheckpoints
  BY <1>4 DEF DispatcherInit, Init, AnalysesHaveCheckpoints, At
<1>9. ResultsAreTrue
  BY <1>4 DEF DispatcherInit, ResultsAreTrue, NoHandleResult, Truthful, At
<1> QED
  BY <1>1, <1>5, <1>6, <1>7, <1>8, <1>9, <1>10 DEF Inv, ThreadInv

\* What a step of the dispatcher can be, for the proofs below.
LEMMA StepIsOf ==
  ASSUME Inv, [DispatcherNext]_allVars
  PROVE  \/ \E u \in Units : \/ Submit(u) \/ SubmitRegister(u) \/ Launch(u)
                             \/ LaunchFails(u) \/ Attempt(u) \/ Recovers(u)
                             \/ Rebinds(u) \/ FinishActive(u) \/ PopActive(u)
         \/ Drain \/ DrainReturns \/ StopTurns \/ StopOwn \/ StopWrites \/ StopPop
         \/ (\E u \in Units : Beat(u) \/ Cancel(u)) \/ RivalStep
         \/ UNCHANGED allVars
<1>1. ASSUME NEW u \in Units, Trying(u) \/ Ending(u)
      PROVE  Attempt(u) \/ Recovers(u) \/ Rebinds(u)
  BY <1>1, TryingIsAttempt, EndingIsAttempt DEF Inv
<1>2. ASSUME NEW u \in Units,
             SubmitStep(u) \/ StageStep(u) \/ WorkerStep(u)
      PROVE  \/ Submit(u) \/ SubmitRegister(u) \/ Launch(u) \/ LaunchFails(u)
             \/ Attempt(u) \/ Recovers(u) \/ Rebinds(u)
             \/ FinishActive(u) \/ PopActive(u)
  BY <1>1, <1>2 DEF SubmitStep, StageStep, WorkerStep, Trying, Ending
<1>3. ASSUME StopStep
      PROVE  StopTurns \/ StopOwn \/ StopWrites \/ StopPop
  BY <1>3 DEF StopStep, StopTurns, StopWrites
<1>4. CASE UNCHANGED allVars
  BY <1>4
<1>5. CASE DispatcherNext
  <2>1. ASSUME NEW u \in Units,
               \/ SubmitStep(u) \/ StageStep(u) \/ WorkerStep(u)
               \/ Beat(u) \/ Cancel(u)
        PROVE  \/ Submit(u) \/ SubmitRegister(u) \/ Launch(u) \/ LaunchFails(u)
               \/ Attempt(u) \/ Recovers(u) \/ Rebinds(u)
               \/ FinishActive(u) \/ PopActive(u) \/ Beat(u) \/ Cancel(u)
    BY <1>2, <2>1
  <2>2. CASE Emergency
    BY <2>2 DEF StopTurns
  <2> QED
    BY <1>3, <1>5, <2>1, <2>2 DEF DispatcherNext
<1> QED
  BY <1>4, <1>5

LEMMA StepInv ==
  ASSUME Inv, [DispatcherNext]_allVars
  PROVE  Inv' /\ [Next]_vars
<1> USE DEF Inv
<1>1. ASSUME NEW u \in Units,
             \/ Submit(u) \/ SubmitRegister(u) \/ Launch(u) \/ LaunchFails(u)
             \/ Attempt(u) \/ Recovers(u) \/ Rebinds(u)
             \/ FinishActive(u) \/ PopActive(u)
      PROVE  ThreadInv' /\ [Next]_vars
  <2>1. CASE Attempt(u)
    BY <2>1, AttemptKeepsInv DEF Attempt, GoesOn, Unnoticed
  <2> QED
    BY <1>1, <2>1, SubmitKeepsInv, SubmitRegisterKeepsInv, LaunchKeepsInv,
       LaunchFailsKeepsInv, RecoversKeepsInv, RebindsKeepsInv,
       FinishActiveKeepsInv, PopActiveKeepsInv
<1>2. ThreadInv' /\ [Next]_vars
  BY <1>1, StepIsOf, DrainKeepsInv, StopTurnsKeepsInv, StopOwnKeepsInv,
     StopWritesKeepsInv, StopPopKeepsInv, BesideKeepsInv
<1>3. StoreInv'
  BY <1>2, StepStoreInv
<1> QED
  BY <1>2, <1>3

LEMMA InvHolds == DispatcherSpec => []Inv
<1>1. Inv /\ [DispatcherNext]_allVars => Inv'
  BY StepInv
<1> QED
  BY <1>1, InitInv, PTL DEF DispatcherSpec

\* Whatever its threads do, the dispatcher uses the store as the store's
\* specification allows: all that is proved of the store holds here.
THEOREM DispatcherUsesStore == DispatcherSpec => Spec
<1>1. Inv /\ [DispatcherNext]_allVars => [Next]_vars
  BY StepInv
<1>2. DispatcherInit => Init
  BY InitInv
<1> QED
  BY <1>1, <1>2, InvHolds, PTL DEF DispatcherSpec, Spec

\* So the dispatcher, the rival and the emergency stop together keep the
\* ledger's promise: a generation has one owner, and the newest decides once.
THEOREM DispatcherKeepsLedger == DispatcherSpec => ImplementsLedger
<1> QED
  BY DispatcherUsesStore, StoreImplementsLedger, PTL

\* The variables of the threads keep their types.
THEOREM DispatcherTypes == DispatcherSpec => []DispatcherTypeOK
<1>1. Inv => DispatcherTypeOK
  BY DEF Inv, ThreadInv
<1> QED
  BY <1>1, InvHolds, PTL

\* A handle that reports a completed unit reports the durable completion.
THEOREM ResultsMatch == DispatcherSpec => []ResultMatchesCompletion
<1>1. Inv => ResultMatchesCompletion
  BY DEF Inv, ThreadInv, ResultsAreTrue, Truthful, Published,
     ResultMatchesCompletion
<1> QED
  BY <1>1, InvHolds, PTL

\* The worker and the emergency stop never both end a unit, and one of them
\* ends every unit that is said to be ending.
THEOREM OneOwnerEnds == DispatcherSpec => []EndingHasOneOwner
<1>1. Inv => EndingHasOneOwner
  BY DEF Inv, ThreadInv, EndingsAreOwned
<1> QED
  BY <1>1, InvHolds, PTL

\* A claim of this dispatcher has its worker, of that very generation, or an
\* emergency stop that ends it, or its submitter was told that it may be left.
THEOREM ClaimsAreTended == DispatcherSpec => []ClaimIsTended
<1>1. ASSUME Inv, NEW u \in Units, Mine(u)
      PROVE  HasWorker(u) \/ HasStop(u) \/ Reported(u)
  <2>1. CASE ~ At(u, "idle")
    BY <1>1, <2>1 DEF Inv, ThreadInv, ClaimsHaveWorkers, WorkersTend, WorkerTends, HasWorker
  <2>2. CASE At(u, "idle") /\ u \in active
    BY <1>1, <2>2 DEF Inv, ThreadInv, ClaimsHaveWorkers, HandlesReport, HandleReports,
       EndingsAreOwned, EndingHasOneOwner, HasStop, At
  <2>3. CASE At(u, "idle") /\ u \notin active
    BY <1>1, <2>3 DEF Inv, ThreadInv, ClaimsHaveWorkers, HandlesReport, HandleReports, At
  <2> QED
    BY <2>1, <2>2, <2>3
<1>2. Inv => ClaimIsTended
  BY <1>1 DEF ClaimIsTended, Mine, Reported
<1> QED
  BY <1>2, InvHolds, PTL

\* After drain() has returned only the other dispatcher claims or publishes.
THEOREM DrainIsQuiet == DispatcherSpec => DrainedIsQuiet
<1>1. ASSUME Inv, [DispatcherNext]_allVars, drained, stop.at = "off",
             NEW u \in Units
      PROVE  /\ completion'[u] # completion[u] => completion'[u].owner # Me
             /\ lease'[u] # lease[u] =>
                  lease'[u].owner # Me \/ lease'[u].status # "claimed"
  <2>1. closing /\ active = {} /\ \A v \in Units : At(v, "idle")
    BY <1>1 DEF Inv, ThreadInv, DrainWaitsForAll, ConditionFree, At
  <2>2. ASSUME NEW v \in Units
        PROVE  /\ ~ Submit(v) /\ ~ SubmitRegister(v) /\ ~ Launch(v)
               /\ ~ LaunchFails(v) /\ ~ Attempt(v) /\ ~ Recovers(v)
               /\ ~ Rebinds(v) /\ ~ FinishActive(v) /\ ~ PopActive(v)
               /\ ~ Beat(v) /\ ~ Cancel(v)
    BY <2>1 DEF At, Submit, SubmitRegister, Launch, LaunchFails, Attempt, GoesOn,
       Busy, Recovers, Rebinds, FinishActive, PopActive, Beat, Running, Cancel
  <2>3. ~ StopOwn /\ ~ StopWrites /\ ~ StopPop
    BY <1>1 DEF StopOwn, StopWrites, StopPublish, StopAnnounce, StopPop
  <2>4. Drain \/ DrainReturns \/ StopTurns \/ UNCHANGED allVars => UNCHANGED vars
    BY DEF Drain, DrainReturns, StopTurns, Emergency, StopWait, StopDeadline,
       StopReturns, StopCancel, StopChoose, allVars
  <2>5. UNCHANGED vars \/ RivalStep
    BY <1>1, <2>2, <2>3, <2>4, StepIsOf
  <2>6. ASSUME NEW v \in Units, Claim(v, Rival, now)
        PROVE  /\ completion' = completion
               /\ lease'[u] = lease[u] \/ lease'[u].owner = Rival
    BY <1>1, <2>6, StoreFacts DEF Inv, Claim, NewGeneration, TypeOK, ClaimedFile
  <2>7. ASSUME NEW l \in granted, l.owner = Rival,
               PublishTerminal(l, "succeeded", 3)
        PROVE  /\ completion'[u] = completion[u] \/ completion'[u].owner = Rival
               /\ lease'[u] = lease[u] \/ lease'[u].owner = Rival
    BY <1>1, <2>7, StoreFacts DEF Inv, PublishTerminal, Matches, Names, TypeOK
  <2>8. UNCHANGED vars \/ Tick => completion' = completion /\ lease' = lease
    BY DEF Tick, vars
  <2> QED
    BY <2>5, <2>6, <2>7, <2>8 DEF RivalStep
<1>2. Inv /\ [DispatcherNext]_allVars =>
        [drained /\ stop.at = "off" =>
           \A u \in Units :
             /\ completion'[u] # completion[u] => completion'[u].owner # Me
             /\ lease'[u] # lease[u] =>
                  lease'[u].owner # Me \/ lease'[u].status # "claimed"]_allVars
  BY <1>1
<1> QED
  BY <1>2, InvHolds, PTL DEF DispatcherSpec, DrainedIsQuiet

\* A stage of analysis is begun by one step only.
LEMMA AnalysisBegins ==
  ASSUME ThreadInv, [DispatcherNext]_allVars, NEW u \in Units,
         At(u, "analysis")', ~ At(u, "analysis")
  PROVE  BeginAnalysis(u) /\ ~ Restores(u)
<1>1. worker \in [Units -> Workers] /\ worker' # worker
  BY ThreadFacts DEF At
<1>2. ASSUME NEW v \in Units, NEW w, worker' = [worker EXCEPT ![v] = w]
      PROVE  v = u /\ w.at = "analysis"
  BY <1>1, <1>2 DEF At
<1>3. ASSUME NEW v \in Units, NEW p, Goto(v, p) PROVE v = u /\ p = "analysis"
  <2>1. worker' = [worker EXCEPT ![v] = [worker[v] EXCEPT !.at = p]]
    BY <1>3 DEF Goto
  <2>2. [worker[v] EXCEPT !.at = p].at = p
    BY ThreadFacts DEF Workers
  <2> QED
    BY <1>2, <2>1, <2>2
<1>4. ASSUME NEW v \in Units, NEW kind \in Kinds PROVE ~ EndAttempt(v, kind)
  <2> DEFINE p == CASE kind = "retry" -> "retry_read"
                    [] kind = "infra" -> "crash_read"
                    [] OTHER -> "publishing"
             out == IF kind \in {"retry", "infra"} THEN "failed" ELSE kind
  <2>1. SUFFICES ASSUME EndAttempt(v, kind) PROVE FALSE
    OBVIOUS
  <2>2. worker' = [worker EXCEPT ![v] = [worker[v] EXCEPT !.at = p, !.outcome = out]]
    BY <2>1 DEF EndAttempt
  <2>3. p # "analysis"
    OBVIOUS
  <2> HIDE DEF p, out
  <2>4. [worker[v] EXCEPT !.at = p, !.outcome = out].at = p
    BY ThreadFacts DEF Workers
  <2> QED
    BY <1>2, <2>2, <2>3, <2>4
<1>5. ASSUME NEW v \in Units, NEW status, NEW out PROVE ~ Finish(v, status, out)
  <2> DEFINE r == [status |-> status, outcome |-> out]
  <2>1. SUFFICES ASSUME Finish(v, status, out) PROVE FALSE
    OBVIOUS
  <2>2. worker' = [worker EXCEPT ![v] = [worker[v] EXCEPT !.at = "finishing",
                                                          !.result = r]]
    BY <2>1 DEF Finish
  <2> HIDE DEF r
  <2>3. [worker[v] EXCEPT !.at = "finishing", !.result = r].at = "finishing"
    BY ThreadFacts DEF Workers
  <2> QED
    BY <1>2, <2>2, <2>3
<1>6. \A v \in Units : \A valid : ~ CallRaises(v, valid)
  BY <1>4 DEF CallRaises, Kinds
<1>17. ASSUME NEW v \in Units PROVE ~ CallRaises(v, FALSE)
  BY <1>4 DEF CallRaises, Kinds
<1>7. \A v \in Units : ~ StageFails(v)
  BY <1>4 DEF StageFails, Kinds
<1>8. ASSUME NEW v \in Units
      PROVE  /\ ~ SubmitRegister(v) /\ ~ Launch(v) /\ ~ LaunchFails(v)
             /\ ~ Checkpoint(v) /\ ~ RecordAnalysis(v)
             /\ ~ FinishActive(v) /\ ~ PopActive(v)
  <2>4. ~ SubmitRegister(v)
    BY <1>3 DEF SubmitRegister
  <2>1. /\ Launch(v) => Goto(v, "starting")
        /\ LaunchFails(v) => Goto(v, "idle")
    BY DEF Launch, LaunchFails
  <2>2. ~ Checkpoint(v) /\ ~ RecordAnalysis(v)
    <3>1. ~ Goto(v, "recording") /\ ~ Goto(v, "checking")
      BY <1>3
    <3>2. ~ CallRaises(v, FALSE) /\ ~ CallRaises(v, Names(Held(v)))
      BY <1>6, <1>17
    <3> QED
      BY Zenon, <3>1, <3>2 DEF Checkpoint, RecordAnalysis
  <2>3. ~ FinishActive(v) /\ ~ PopActive(v)
    BY <1>3 DEF FinishActive, PopActive
  <2> QED
    BY <1>3, <2>1, <2>2, <2>3, <2>4
<1>9. ASSUME NEW v \in Units
      PROVE  /\ ~ StartAttempt(v) /\ ~ EndAnalysis(v) /\ ~ BeginCritical(v)
             /\ ~ EndCritical(v)
  BY <1>3, <1>4, <1>6, <1>7 DEF StartAttempt, EndAnalysis, BeginCritical,
     EndCritical, Kinds
<1>10. ASSUME NEW v \in Units
       PROVE  /\ ~ RetryEvent(v) /\ ~ RetryMark(v) /\ ~ CrashEvent(v)
              /\ ~ Rebind(v) /\ ~ Reclaim(v) /\ ~ Publish(v) /\ ~ Announce(v)
  <2>1. ~ RetryEvent(v) /\ ~ RetryMark(v)
    BY <1>3, <1>5 DEF RetryEvent, RetryMark
  <2>2. ~ CrashEvent(v) /\ ~ Reclaim(v)
    BY <1>3, <1>5 DEF CrashEvent, Reclaim
  <2>3. ~ Rebind(v)
    BY <1>3 DEF Rebind
  <2>4. ~ Publish(v)
    BY <1>3, <1>5 DEF Publish
  <2>5. ~ Announce(v)
    BY <1>3, <1>5 DEF Announce
  <2> QED
    BY <2>1, <2>2, <2>3, <2>4, <2>5
<1>11. ASSUME NEW v \in Units PROVE ~ Submit(v)
  <2>1. SUFFICES ASSUME Submit(v) PROVE FALSE
    OBVIOUS
  <2> PICK w : w = [IdleWorker EXCEPT !.at = "claimed",
                      !.fence = lease'[v].fence, !.resume = lease'[v].resume]
    OBVIOUS
  <2>2. worker' = [worker EXCEPT ![v] = w]
    BY <2>1 DEF Submit
  <2>3. w.at = "claimed"
    BY DEF IdleWorker
  <2> QED
    BY <1>2, <2>2, <2>3
<1>12. ASSUME NEW v \in Units, NEW p \in {"retry_event", "crash_event"},
              worker' = [worker EXCEPT ![v].at = p,
                                       ![v].resume = Recoverable(Held(v))]
       PROVE  FALSE
  <2>1. worker' = [worker EXCEPT ![v] = [worker[v] EXCEPT !.at = p,
                                          !.resume = Recoverable(Held(v))]]
    BY <1>12
  <2>2. [worker[v] EXCEPT !.at = p, !.resume = Recoverable(Held(v))].at = p
    BY ThreadFacts DEF Workers
  <2> QED
    BY <1>2, <2>1, <2>2
<1>13. ASSUME NEW v \in Units PROVE ~ RetryRead(v) /\ ~ CrashRead(v)
  BY <1>3, <1>5, <1>12 DEF RetryRead, CrashRead
<1>14. ASSUME NEW v \in Units PROVE ~ RecoverLease(v)
  <2>1. ASSUME worker' = [worker EXCEPT ![v].at = "rebinding", ![v].fence = @ + 1]
        PROVE  FALSE
    <3>1. worker' = [worker EXCEPT ![v] = [worker[v] EXCEPT !.at = "rebinding",
                                                            !.fence = @ + 1]]
      BY <2>1
    <3>2. [worker[v] EXCEPT !.at = "rebinding", !.fence = @ + 1].at = "rebinding"
      BY ThreadFacts DEF Workers
    <3> QED
      BY <1>2, <3>1, <3>2
  <2> QED
    BY <1>3, <1>5, <2>1 DEF RecoverLease
<1>15. ~ StopStep /\ ~ Drain /\ ~ DrainReturns /\ ~ Emergency /\ ~ RivalStep
       /\ ~ UNCHANGED allVars /\ \A v \in Units : ~ Beat(v) /\ ~ Cancel(v)
  BY <1>1 DEF StopStep, StopCancel, StopChoose, StopWait, StopDeadline, StopOwn,
     StopPublish, StopAnnounce, StopPop, StopReturns, Drain, DrainReturns,
     Emergency, RivalStep, threadVars, allVars, Beat, Cancel
<1>16. PICK v \in Units : BeginAnalysis(v)
  <2>1. DispatcherNext
    BY <1>15
  <2>2. PICK v \in Units : SubmitStep(v) \/ StageStep(v) \/ WorkerStep(v)
    BY <1>15, <2>1 DEF DispatcherNext
  <2> QED
    BY <1>8, <1>9, <1>10, <1>11, <1>13, <1>14, <2>2 DEF SubmitStep, StageStep, WorkerStep
<1>18. Goto(v, "analysis") /\ ~ Restores(v)
  <2>1. ~ Goto(v, "checking")
    BY <1>3
  <2>3. ~ CallRaises(v, FALSE)
    BY Zenon, <1>17
  <2>2. ~ EndAttempt(v, "cancelled")
    BY <1>4 DEF Kinds
  <2> QED
    BY Zenon, <1>16, <2>1, <2>2, <2>3 DEF BeginAnalysis
<1> QED
  BY <1>3, <1>16, <1>18

\* A runner that looks for a checkpoint does not analyse a unit again once its
\* analysis is recorded: whatever generation it is, it finds the checkpoint.
THEOREM AnalysisIsKept ==
  ASSUME ~ Opaque
  PROVE  DispatcherSpec => AnalysisRunsOnce
<1>1. ASSUME Inv, [DispatcherNext]_allVars, NEW u \in Units,
             At(u, "analysis")', ~ At(u, "analysis"), NEW l \in ckptEvents
      PROVE  l.unit # u
  <2>1. ckptLatest[u] = 0
    BY <1>1, AnalysisBegins DEF Inv, Restores
  <2> QED
    BY <1>1, <2>1 DEF Inv, ThreadInv, AnalysesHaveCheckpoints
<1>2. Inv /\ [DispatcherNext]_allVars =>
        [\A u \in Units :
           At(u, "analysis")' /\ ~ At(u, "analysis") =>
             \A l \in ckptEvents : l.unit # u]_allVars
  BY <1>1
<1> QED
  BY <1>2, InvHolds, PTL DEF DispatcherSpec, AnalysisRunsOnce
=============================================================================
