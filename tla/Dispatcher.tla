----------------------------- MODULE Dispatcher -----------------------------
(***************************************************************************)
(* ConcurrentDispatcher of lib/concurrent_dispatch.py: the threads of one  *)
(* dispatcher process (Me) over the shared lease store, beside a second    *)
(* process (Rival) that may take over a silent lease.  The threads are the *)
(* submitter, one worker and one heartbeat thread per unit, callers of     *)
(* cancel and drain, and one control thread in emergency_cancel.           *)
(*                                                                         *)
(* Every locked section of the store is one step, so a takeover, a cancel  *)
(* or an emergency stop can fall between any two of them.  The condition   *)
(* variable's lock is held from claim to thread start in submit: no other  *)
(* step that needs it happens while a unit is in "claimed" or "launching". *)
(* Claims are plain ones: a dispatcher built for a production canary or for *)
(* a controlled replay claims by LeaseStore's other two actions.           *)
(***************************************************************************)
EXTENDS LeaseStore

CONSTANTS
  Me, Rival,    \* this dispatcher and another one
  Opaque,       \* runner.executes_full_two_pass_in_analysis
  IOErrors      \* may a store write of a worker raise OSError?

ASSUME DispatcherAssumption ==
  /\ {Me, Rival} \subseteq Owners /\ Me # Rival
  /\ {"succeeded", "failed", "cancelled"} \subseteq Outcomes
  /\ {Opaque, IOErrors} \subseteq BOOLEAN

VARIABLES
  worker,       \* per unit: the _execute thread and its local variables
  active,       \* _active: units with a live handle
  finishing,    \* _finishing
  closing,      \* _draining
  bound,        \* per unit: fence of the context bound to the handle
  cancelled,    \* contexts <<unit, fence>> whose cancel_event is set
  result,       \* per unit: what its submitter was told (the handle's result,
                \*   first one wins, or an exception of submit itself)
  stop,         \* the emergency_cancel thread
  drained       \* drain() has returned True

threadVars == <<worker, active, finishing, closing, bound, cancelled, result,
                stop, drained>>
allVars == <<vars, threadVars>>

\* Points of submit (claimed, launching) and of _execute.
WorkerPoints ==
  {"idle", "claimed", "launching", "starting", "restoring", "analysis",
   "checkpointing", "recording", "checking", "critical", "retry_read",
   "retry_event", "retry_mark", "crash_read", "crash_event", "recovering",
   "rebinding", "reclaiming", "publishing", "announcing", "finishing",
   "popping", "dead"}

Results == [status : {"none", "completed", "publish_rejected", "retry_wait",
                      "submit_raised"},
            outcome : Outcomes \cup {"none", "waiting_retry"}]

NoHandleResult == [status |-> "none", outcome |-> "none"]

StopPoints == {"off", "cancelling", "waiting", "choosing", "claiming",
               "publishing", "announcing", "popping", "returned"}

DispatcherTypeOK ==
  /\ worker \in [Units -> [at : WorkerPoints, fence : Nat, resume : BOOLEAN,
                           outcome : Outcomes \cup {"none"},
                           result : Results]]
  /\ active \subseteq Units /\ finishing \subseteq Units
  /\ closing \in BOOLEAN /\ drained \in BOOLEAN
  /\ bound \in [Units -> Nat]
  /\ cancelled \subseteq Units \X Nat
  /\ result \in [Units -> Results]
  /\ stop \in [at : StopPoints, todo : SUBSET Units, fence : Nat,
               unit : Units \cup {NoUnit}, result : Results,
               sealed : BOOLEAN]

IdleWorker == [at |-> "idle", fence |-> 0, resume |-> FALSE,
               outcome |-> "none", result |-> NoHandleResult]

DispatcherInit ==
  /\ Init
  /\ worker = [u \in Units |-> IdleWorker]
  /\ active = {} /\ finishing = {} /\ cancelled = {}
  /\ closing = FALSE /\ drained = FALSE
  /\ bound = [u \in Units |-> 0]
  /\ result = [u \in Units |-> NoHandleResult]
  /\ stop = [at |-> "off", todo |-> {}, fence |-> 0, unit |-> NoUnit,
             result |-> NoHandleResult, sealed |-> FALSE]

-----------------------------------------------------------------------------
At(u, p) == worker[u].at = p
Goto(u, p) == worker' = [worker EXCEPT ![u].at = p]

\* The lease in the worker's context.
Held(u) == [unit |-> u, owner |-> Me, fence |-> worker[u].fence]
Cancelled(u) == <<u, worker[u].fence>> \in cancelled

\* The condition's lock is free of the submitter.
ConditionFree == \A u \in Units : worker[u].at \notin {"claimed", "launching"}

\* The worker's own variables change, the store and the other threads' do not.
OnlyWorker == /\ UNCHANGED vars
              /\ UNCHANGED <<active, finishing, closing, bound, cancelled,
                             result, stop, drained>>

\* Points between the start of an attempt and its `finally`, where the
\* heartbeat thread of the generation runs.
Running(u) == worker[u].at \in {"restoring", "analysis", "checkpointing",
                                "recording", "checking", "critical"}

\* Mutant: the outcome is not preset to failed.
EndAttemptNoDefault(u, kind) ==
  worker' = [worker EXCEPT
    ![u].at = CASE kind = "retry" -> "retry_read"
                [] kind = "infra" -> "crash_read"
                [] OTHER -> "publishing",
    ![u].outcome = kind]

\* The try block ended with an exception or a verdict: where _execute goes.
EndAttempt(u, kind) ==
  worker' = [worker EXCEPT
    ![u].at = CASE kind = "retry" -> "retry_read"
                [] kind = "infra" -> "crash_read"
                [] OTHER -> "publishing",
    ![u].outcome = IF kind \in {"retry", "infra"} THEN "failed" ELSE kind]

Finish(u, status, outcome) ==
  worker' = [worker EXCEPT ![u].at = "finishing",
    ![u].result = [status |-> status, outcome |-> outcome]]

\* A store call inside the attempt raises: "stale_lease_fence" fails the unit,
\* an OSError counts as an infrastructure crash or a resource limit.
CallRaises(u, valid) ==
  /\ \/ ~ valid /\ EndAttempt(u, "failed")
     \/ IOErrors /\ \E kind \in {"retry", "infra"} : EndAttempt(u, kind)
  /\ UNCHANGED vars

Event(u) == RecordTaskEvent(Held(u), "progress")

-----------------------------------------------------------------------------
\* Mutant: submit does not look at _draining.
SubmitWhileDraining(u) ==
  /\ ConditionFree /\ u \notin active /\ At(u, "idle")
  /\ lease[u].fence < MaxFence - 1
  /\ Claim(u, Me, now)
  /\ worker' = [worker EXCEPT ![u] = [IdleWorker EXCEPT !.at = "claimed",
                                        !.fence = lease'[u].fence,
                                        !.resume = lease'[u].resume]]
  /\ bound' = [bound EXCEPT ![u] = lease'[u].fence]
  /\ result' = [result EXCEPT ![u] = NoHandleResult]
  /\ UNCHANGED <<active, finishing, closing, cancelled, stop, drained>>

\* submit, under the condition: a unit already active is returned as it is, a
\* completed or actively held one is deduplicated; otherwise it is claimed.
Submit(u) ==
  /\ ConditionFree /\ ~ closing /\ u \notin active /\ At(u, "idle")
  /\ lease[u].fence < MaxFence - 1   \* bound: a generation left to recover
  /\ Claim(u, Me, now)
  /\ worker' = [worker EXCEPT ![u] = [IdleWorker EXCEPT !.at = "claimed",
                                        !.fence = lease'[u].fence,
                                        !.resume = lease'[u].resume]]
  /\ bound' = [bound EXCEPT ![u] = lease'[u].fence]
  /\ result' = [result EXCEPT ![u] = NoHandleResult]
  /\ UNCHANGED <<active, finishing, closing, cancelled, stop, drained>>

\* The content members are registered, the claim event is recorded, then the
\* handle becomes active.  Either raises to the submitter (a content member is
\* refused, the lease is lost, an I/O error) and leaves the lease claimed with
\* no handle: nobody renews, finishes or releases it.
SubmitRegister(u) ==
  /\ At(u, "claimed")
  /\ \/ /\ Event(u) /\ Goto(u, "launching")
        /\ active' = active \cup {u} /\ UNCHANGED result
     \/ /\ Goto(u, "idle")
        /\ result' = [result EXCEPT ![u] = [status |-> "submit_raised",
                                            outcome |-> "none"]]
        /\ UNCHANGED <<vars, active>>
  /\ UNCHANGED <<finishing, closing, bound, cancelled, stop, drained>>

\* thread.start(), or a resource limit that turns the claim into a retry wait
\* (its retry_wait event is superseded by the write that follows).
Launch(u) ==
  /\ At(u, "launching")
  /\ Goto(u, "starting")
  /\ UNCHANGED <<vars, active, finishing, closing, bound, cancelled, result,
                 stop, drained>>

\* Mutant: the failed launch reports the retry wait without recording it.
LaunchFailsKeepsClaim(u) ==
  /\ At(u, "launching")
  /\ result' = [result EXCEPT ![u] = [status |-> "retry_wait",
                                      outcome |-> "waiting_retry"]]
  /\ active' = active \ {u}
  /\ Goto(u, "idle")
  /\ UNCHANGED <<vars, finishing, closing, bound, cancelled, stop, drained>>

LaunchFails(u) ==
  /\ At(u, "launching")
  /\ \/ /\ MarkRetryWait(Held(u), FALSE)
        /\ result' = [result EXCEPT ![u] = [status |-> "retry_wait",
                                            outcome |-> "waiting_retry"]]
     \/ /\ IOErrors \/ ~ Matches(Held(u))
        /\ result' = [result EXCEPT ![u] = [status |-> "publish_rejected",
                                            outcome |-> "waiting_retry"]]
        /\ UNCHANGED vars
  /\ active' = active \ {u}
  /\ Goto(u, "idle")
  /\ UNCHANGED <<finishing, closing, bound, cancelled, stop, drained>>

-----------------------------------------------------------------------------
\* _execute, one attempt.

\* Start of the heartbeat thread and the process_started event.
StartAttempt(u) ==
  /\ At(u, "starting")
  /\ \/ Event(u) /\ Goto(u, "restoring")
     \/ CallRaises(u, Names(Held(u)))
     \/ EndAttempt(u, "retry") /\ UNCHANGED vars
  /\ UNCHANGED <<active, finishing, closing, bound, cancelled, result, stop,
                 drained>>

\* Mutant: every runner trusts the resume flag alone.
RestoresOnFlag(u) == worker[u].resume

\* An opaque runner takes its mode from the context: critical_resume reuses
\* the checkpoint, full_two_pass analyses again.  Any other runner restores
\* whatever checkpoint an earlier generation left.
Restores(u) == IF Opaque THEN worker[u].resume ELSE ckptLatest[u] # 0

\* Only an opaque full_two_pass does not look for a checkpoint, which takes a
\* claimed lease.
MayBegin(u) == IF Opaque /\ ~ worker[u].resume THEN Names(Held(u))
                                               ELSE Matches(Held(u))

\* The checkpoint is looked for; analysis_checkpoint_reused or
\* analysis_submitted is recorded (by the task process when opaque); the stage
\* is not started for a cancelled context.  Before that the runner is built,
\* and a checkpoint that was found is verified: either may fail the attempt.
BeginAnalysis(u) ==
  /\ At(u, "restoring")
  /\ \/ MayBegin(u) /\ Event(u)
        /\ \/ Restores(u) /\ Goto(u, "checking")
           \/ ~ Restores(u) /\ ~ Cancelled(u) /\ Goto(u, "analysis")
           \/ ~ Restores(u) /\ Cancelled(u) /\ EndAttempt(u, "cancelled")
     \/ CallRaises(u, FALSE)
  /\ UNCHANGED <<active, finishing, closing, bound, cancelled, result, stop,
                 drained>>

\* How a stage ends without a result: a task failure (a crash, a timeout or a
\* stall among them), a retryable limit, an infrastructure crash, or the
\* cancellation that _invoke_stage polls for.
StageFails(u) ==
  \/ \E kind \in {"failed", "retry", "infra"} : EndAttempt(u, kind)
  \/ Cancelled(u) /\ EndAttempt(u, "cancelled")

\* The analysis is done.  The task process of an opaque runner has written the
\* preprocessor's own checkpoint, not the store's.
EndAnalysis(u) ==
  /\ At(u, "analysis")
  /\ Goto(u, IF Opaque THEN "recording" ELSE "checkpointing") \/ StageFails(u)
  /\ OnlyWorker

Checkpoint(u) ==
  /\ At(u, "checkpointing")
  /\ \/ PublishCheckpoint(Held(u)) /\ Goto(u, "recording")
     \/ CallRaises(u, FALSE)
  /\ UNCHANGED <<active, finishing, closing, bound, cancelled, result, stop,
                 drained>>

\* analysis_completed, by the task process of an opaque runner itself, which
\* goes on inside the same stage.
RecordAnalysis(u) ==
  /\ At(u, "recording")
  /\ \/ RecordTaskEvent(Held(u), "analysis_completed") /\ Goto(u, "checking")
     \/ CallRaises(u, Names(Held(u)))
  /\ UNCHANGED <<active, finishing, closing, bound, cancelled, result, stop,
                 drained>>

\* The cancel check, then critical_started, unless the analysis already ended
\* the review (early_review_terminal).
BeginCritical(u) ==
  /\ At(u, "checking")
  /\ \/ Cancelled(u) /\ EndAttempt(u, "cancelled") /\ UNCHANGED vars
     \/ ~ Cancelled(u) /\ Event(u) /\ Goto(u, "critical")
     \/ ~ Cancelled(u) /\ UNCHANGED vars
        /\ \E out \in {"succeeded", "failed"} : EndAttempt(u, out)
     \/ ~ Cancelled(u) /\ CallRaises(u, Names(Held(u)))
  /\ UNCHANGED <<active, finishing, closing, bound, cancelled, result, stop,
                 drained>>

\* critical_completed, or the stage failed.
EndCritical(u) ==
  /\ At(u, "critical")
  /\ \/ Event(u) /\ EndAttempt(u, "succeeded")
     \/ CallRaises(u, Names(Held(u)))
     \/ StageFails(u) /\ UNCHANGED vars
  /\ UNCHANGED <<active, finishing, closing, bound, cancelled, result, stop,
                 drained>>

\* _heartbeat_loop of the current generation.
Beat(u) ==
  /\ Running(u)
  /\ \/ Heartbeat(Held(u), now) /\ UNCHANGED cancelled
     \/ /\ ~ Matches(Held(u))
        /\ cancelled' = cancelled \cup {<<u, worker[u].fence>>}
        /\ UNCHANGED vars
  /\ UNCHANGED <<worker, active, finishing, closing, bound, result, stop,
                 drained>>

-----------------------------------------------------------------------------
\* _execute, retry path.  A DispatchError becomes publish_rejected, that of a
\* recorded checkpoint which does not verify among them; an OSError is not
\* caught and ends the thread.
RetryRead(u) ==
  /\ At(u, "retry_read")
  /\ \/ /\ Matches(Held(u))
        /\ worker' = [worker EXCEPT ![u].at = "retry_event",
                                    ![u].resume = Recoverable(Held(u))]
     \/ /\ ~ Matches(Held(u)) \/ Recoverable(Held(u))
        /\ Finish(u, "publish_rejected", "waiting_retry")
     \/ IOErrors /\ Goto(u, "dead")
  /\ OnlyWorker

RetryEvent(u) ==
  /\ At(u, "retry_event")
  /\ \/ Event(u) /\ Goto(u, "retry_mark")
     \/ /\ ~ Names(Held(u)) /\ UNCHANGED vars
        /\ Finish(u, "publish_rejected", "waiting_retry")
     \/ IOErrors /\ Goto(u, "dead") /\ UNCHANGED vars
  /\ UNCHANGED <<active, finishing, closing, bound, cancelled, result, stop,
                 drained>>

RetryMark(u) ==
  /\ At(u, "retry_mark")
  /\ \/ /\ MarkRetryWait(Held(u), worker[u].resume)
        /\ Finish(u, "retry_wait", "waiting_retry")
     \/ /\ ~ Matches(Held(u)) /\ UNCHANGED vars
        /\ Finish(u, "publish_rejected", "waiting_retry")
     \/ IOErrors /\ Goto(u, "dead") /\ UNCHANGED vars
  /\ UNCHANGED <<active, finishing, closing, bound, cancelled, result, stop,
                 drained>>

\* _execute, infrastructure crash: the checkpoint and the recovery count are
\* read; the second crash of a unit is a terminal failure.
CrashRead(u) ==
  /\ At(u, "crash_read")
  /\ \/ /\ Matches(Held(u)) /\ lease[u].recoveries < 1
        /\ worker' = [worker EXCEPT ![u].at = "crash_event",
                                    ![u].resume = Recoverable(Held(u))]
     \/ Matches(Held(u)) /\ lease[u].recoveries >= 1 /\ Goto(u, "publishing")
     \/ /\ ~ Matches(Held(u)) \/ Recoverable(Held(u))
        /\ Finish(u, "publish_rejected", "failed")
     \/ IOErrors /\ Goto(u, "dead")
  /\ OnlyWorker

CrashEvent(u) ==
  /\ At(u, "crash_event")
  /\ \/ Event(u) /\ Goto(u, "recovering")
     \/ ~ Names(Held(u)) /\ Finish(u, "publish_rejected", "failed") /\ UNCHANGED vars
     \/ IOErrors /\ Goto(u, "dead") /\ UNCHANGED vars
  /\ UNCHANGED <<active, finishing, closing, bound, cancelled, result, stop,
                 drained>>

\* The lease moves to its recovery generation; the handle still holds the
\* context of the generation that crashed.
RecoverLease(u) ==
  /\ At(u, "recovering")
  /\ \/ /\ Recover(Held(u), now, worker[u].resume)
        /\ worker' = [worker EXCEPT ![u].at = "rebinding", ![u].fence = @ + 1]
     \/ /\ ~ Matches(Held(u)) /\ UNCHANGED vars
        /\ Finish(u, "publish_rejected", "failed")
     \/ IOErrors /\ Goto(u, "dead") /\ UNCHANGED vars
  /\ UNCHANGED <<active, finishing, closing, bound, cancelled, result, stop,
                 drained>>

\* handle._bind_context with a new context, whose cancel_event is clear.
Rebind(u) ==
  /\ At(u, "rebinding")
  /\ \/ /\ bound' = [bound EXCEPT ![u] = worker[u].fence]
        /\ Goto(u, "reclaiming")
     \/ IOErrors /\ Goto(u, "dead") /\ UNCHANGED bound
  /\ UNCHANGED <<vars, active, finishing, closing, cancelled, result, stop,
                 drained>>

Reclaim(u) ==
  /\ At(u, "reclaiming")
  /\ \/ Event(u) /\ Goto(u, "starting")
     \/ ~ Names(Held(u)) /\ Finish(u, "publish_rejected", "failed") /\ UNCHANGED vars
     \/ IOErrors /\ Goto(u, "dead") /\ UNCHANGED vars
  /\ UNCHANGED <<active, finishing, closing, bound, cancelled, result, stop,
                 drained>>

-----------------------------------------------------------------------------
\* Mutant: a rejected publication is taken for one already made.
PublishAssumed(u) ==
  /\ At(u, "publishing")
  /\ \/ /\ PublishTerminal(Held(u), worker[u].outcome, 3)
        /\ Goto(u, "announcing")
     \/ /\ ~ Matches(Held(u)) \/ Completed(u)
        /\ Finish(u, "completed", worker[u].outcome)
        /\ UNCHANGED vars
  /\ UNCHANGED <<active, finishing, closing, bound, cancelled, result, stop,
                 drained>>

\* _execute, terminal path: publish_terminal, the terminal event, the handle.
\* A publication is refused for a lost lease, and also under a lease that still
\* matches: provider closures or the package may be incomplete, an I/O error
\* may occur, and after the completion is written the group's members may turn
\* out invalid.  The lease then stays claimed.
Publish(u) ==
  /\ At(u, "publishing")
  /\ \/ /\ PublishTerminal(Held(u), worker[u].outcome, 3)
        /\ Goto(u, "announcing")
     \/ /\ Finish(u, "publish_rejected", worker[u].outcome)
        /\ \/ UNCHANGED vars
           \/ \E upto \in 1..2 :
                PublishTerminal(Held(u), worker[u].outcome, upto)
  /\ UNCHANGED <<active, finishing, closing, bound, cancelled, result, stop,
                 drained>>

Announce(u) ==
  /\ At(u, "announcing")
  /\ \/ Event(u) /\ Finish(u, "completed", worker[u].outcome)
     \/ /\ IOErrors \/ ~ Names(Held(u))
        /\ Finish(u, "publish_rejected", worker[u].outcome) /\ UNCHANGED vars
  /\ UNCHANGED <<active, finishing, closing, bound, cancelled, result, stop,
                 drained>>

\* Mutant: _finish_active without the check of _finishing.
FinishActiveUnowned(u) ==
  /\ At(u, "finishing") /\ ConditionFree
  /\ \/ u \in active /\ finishing' = finishing \cup {u} /\ Goto(u, "popping")
     \/ u \notin active /\ Goto(u, "idle") /\ UNCHANGED finishing
  /\ UNCHANGED <<vars, active, closing, bound, cancelled, result, stop, drained>>

\* _finish_active: the emergency stop may already own the unit's ending.
FinishActive(u) ==
  /\ At(u, "finishing") /\ ConditionFree
  /\ \/ /\ u \in active /\ u \notin finishing
        /\ finishing' = finishing \cup {u} /\ Goto(u, "popping")
     \/ /\ u \notin active \/ u \in finishing
        /\ Goto(u, "idle") /\ UNCHANGED finishing
  /\ UNCHANGED <<vars, active, closing, bound, cancelled, result, stop, drained>>

SetResult(u, r) ==
  result' = IF result[u].status = "none" THEN [result EXCEPT ![u] = r]
                                         ELSE result

\* Mutant of _finish_active_claimed: the ending stays owned after it is over.
PopActiveStaysOwned(u) ==
  /\ At(u, "popping") /\ ConditionFree
  /\ active' = active \ {u}
  /\ SetResult(u, worker[u].result)
  /\ Goto(u, "idle")
  /\ UNCHANGED <<vars, finishing, closing, bound, cancelled, stop, drained>>

\* _finish_active_claimed.
PopActive(u) ==
  /\ At(u, "popping") /\ ConditionFree
  /\ active' = active \ {u} /\ finishing' = finishing \ {u}
  /\ SetResult(u, worker[u].result)
  /\ Goto(u, "idle")
  /\ UNCHANGED <<vars, closing, bound, cancelled, stop, drained>>

-----------------------------------------------------------------------------
\* cancel(unit): the event of the context the handle has at this moment.
Cancel(u) ==
  /\ ConditionFree /\ u \in active /\ result[u].status = "none"
  /\ cancelled' = cancelled \cup {<<u, bound[u]>>}
  /\ UNCHANGED <<vars, worker, active, finishing, closing, bound, result, stop,
                 drained>>

Drain ==
  /\ ConditionFree /\ ~ closing /\ closing' = TRUE
  /\ UNCHANGED <<vars, worker, active, finishing, bound, cancelled, result,
                 stop, drained>>

DrainReturns ==
  /\ closing /\ active = {} /\ ~ drained /\ drained' = TRUE
  /\ UNCHANGED <<vars, worker, active, finishing, closing, bound, cancelled,
                 result, stop>>
-----------------------------------------------------------------------------
\* emergency_cancel: refuse new work and list the active handles ...
Emergency ==
  /\ stop.at = "off" /\ ConditionFree
  /\ closing' = TRUE
  /\ stop' = [stop EXCEPT !.at = "cancelling", !.todo = active]
  /\ UNCHANGED <<vars, worker, active, finishing, bound, cancelled, result,
                 drained>>

\* ... cancel each of them through its handle ...
StopCancel(u) ==
  /\ stop.at = "cancelling" /\ u \in stop.todo
  /\ stop' = [stop EXCEPT !.todo = @ \ {u}]
  /\ cancelled' = IF result[u].status = "none"
                  THEN cancelled \cup {<<u, bound[u]>>} ELSE cancelled
  /\ UNCHANGED <<vars, worker, active, finishing, closing, bound, result,
                 drained>>

StopWait ==
  /\ stop.at = "cancelling" /\ stop.todo = {}
  /\ stop' = [stop EXCEPT !.at = "waiting"]
  /\ UNCHANGED <<vars, worker, active, finishing, closing, bound, cancelled,
                 result, drained>>

\* ... wait until none is active or the deadline passes, list the rest ...
StopDeadline ==
  /\ stop.at = "waiting" /\ ConditionFree
  /\ stop' = [stop EXCEPT !.at = "choosing", !.todo = active \ finishing]
  /\ UNCHANGED <<vars, worker, active, finishing, closing, bound, cancelled,
                 result, drained>>

\* ... and for each of these read the handle's context,
StopChoose(u) ==
  /\ stop.at = "choosing" /\ u \in stop.todo
  /\ stop' = [stop EXCEPT !.at = "claiming", !.todo = @ \ {u},
                          !.unit = u, !.fence = bound[u]]
  /\ UNCHANGED <<vars, worker, active, finishing, closing, bound, cancelled,
                 result, drained>>

\* own the unit's ending unless its worker does, cancel the context,
StopOwn ==
  /\ stop.at = "claiming" /\ ConditionFree
  /\ \/ /\ stop.unit \in active /\ stop.unit \notin finishing
        /\ finishing' = finishing \cup {stop.unit}
        /\ cancelled' = cancelled \cup {<<stop.unit, stop.fence>>}
        /\ stop' = [stop EXCEPT !.at = "publishing"]
     \/ /\ stop.unit \notin active \/ stop.unit \in finishing
        /\ stop' = [stop EXCEPT !.at = "choosing"]
        /\ UNCHANGED <<finishing, cancelled>>
  /\ UNCHANGED <<vars, worker, active, closing, bound, result, drained>>

StopLease == [unit |-> stop.unit, owner |-> Me, fence |-> stop.fence]

StopEnds(status) ==
  stop' = [stop EXCEPT !.at = "popping",
                       !.result = [status |-> status, outcome |-> "cancelled"]]

\* publish the cancelled terminal under that context's lease,
StopPublish ==
  /\ stop.at = "publishing"
  /\ \/ /\ PublishTerminal(StopLease, "cancelled", 3)
        /\ stop' = [stop EXCEPT !.at = "announcing"]
     \/ /\ StopEnds("publish_rejected")
        /\ \/ UNCHANGED vars
           \/ \E upto \in 1..2 : PublishTerminal(StopLease, "cancelled", upto)
  /\ UNCHANGED <<worker, active, finishing, closing, bound, cancelled, result,
                 drained>>

StopAnnounce ==
  /\ stop.at = "announcing"
  /\ \/ RecordTaskEvent(StopLease, "progress") /\ StopEnds("completed")
     \/ /\ IOErrors \/ ~ Names(StopLease)
        /\ StopEnds("publish_rejected") /\ UNCHANGED vars
  /\ UNCHANGED <<worker, active, finishing, closing, bound, cancelled, result,
                 drained>>

\* and end the unit (_finish_active_claimed).
StopPop ==
  /\ stop.at = "popping" /\ ConditionFree
  /\ active' = active \ {stop.unit} /\ finishing' = finishing \ {stop.unit}
  /\ SetResult(stop.unit, stop.result)
  /\ stop' = [stop EXCEPT !.at = "choosing"]
  /\ UNCHANGED <<vars, worker, closing, bound, cancelled, drained>>

\* The late-result fence is reported sealed when no unit is active.
StopReturns ==
  /\ stop.at = "choosing" /\ stop.todo = {}
  /\ stop' = [stop EXCEPT !.at = "returned", !.sealed = (active = {})]
  /\ UNCHANGED <<vars, worker, active, finishing, closing, bound, cancelled,
                 result, drained>>

-----------------------------------------------------------------------------
SubmitStep(u) == Submit(u) \/ SubmitRegister(u) \/ Launch(u) \/ LaunchFails(u)

\* A model stage runs outside the dispatcher until it returns or is polled off.
StageStep(u) == EndAnalysis(u) \/ EndCritical(u)

WorkerStep(u) ==
  \/ StartAttempt(u) \/ BeginAnalysis(u) \/ Checkpoint(u)
  \/ RecordAnalysis(u) \/ BeginCritical(u)
  \/ RetryRead(u) \/ RetryEvent(u) \/ RetryMark(u)
  \/ CrashRead(u) \/ CrashEvent(u) \/ RecoverLease(u) \/ Rebind(u) \/ Reclaim(u)
  \/ Publish(u) \/ Announce(u) \/ FinishActive(u) \/ PopActive(u)

StopStep ==
  \/ \E u \in Units : StopCancel(u) \/ StopChoose(u)
  \/ StopWait \/ StopDeadline \/ StopOwn \/ StopPublish \/ StopAnnounce
  \/ StopPop \/ StopReturns

\* The other dispatcher claims what is free or silent and ends what it holds.
RivalStep ==
  /\ \/ \E u \in Units : Claim(u, Rival, now)
     \/ \E l \in granted : l.owner = Rival /\ PublishTerminal(l, "succeeded", 3)
     \/ Tick
  /\ UNCHANGED threadVars

DispatcherNext ==
  \/ \E u \in Units : SubmitStep(u) \/ StageStep(u) \/ WorkerStep(u) \/ Beat(u) \/ Cancel(u)
  \/ Drain \/ DrainReturns \/ Emergency \/ StopStep
  \/ RivalStep

DispatcherSpec == DispatcherInit /\ [][DispatcherNext]_allVars

\* Threads that wait for nobody keep running.  A stage is only sure to end
\* once its context is cancelled, which _invoke_stage polls for: an unverified
\* provider probe disables the stall timeout, and nothing else bounds a stage.
DispatcherFairness ==
  /\ \A u \in Units : WF_allVars(WorkerStep(u))
  /\ \A u \in Units : WF_allVars(Cancelled(u) /\ StageStep(u))
  /\ \A u \in Units : WF_allVars(SubmitRegister(u) \/ Launch(u) \/ LaunchFails(u))
  /\ WF_allVars(StopStep)
  /\ WF_allVars(DrainReturns)

LiveDispatcherSpec == DispatcherSpec /\ DispatcherFairness

-----------------------------------------------------------------------------
\* A handle that reports a completed unit reports the outcome of the unit's
\* durable completion, published by this dispatcher, even when the worker and
\* the emergency stop race for the ending.
ResultMatchesCompletion ==
  \A u \in Units :
    result[u].status = "completed" =>
      completion[u].owner = Me /\ completion[u].outcome = result[u].outcome

\* The thread that renews and ends the claim of unit u: the worker, of that
\* very generation, unless an OSError killed it ...
HasWorker(u) ==
  \/ At(u, "dead")
  \/ ~ At(u, "idle") /\ worker[u].fence = lease[u].fence

\* ... or an emergency stop on its way to end the unit.
HasStop(u) ==
  stop.unit = u /\ stop.at \in {"publishing", "announcing", "popping"}

\* No claim is left behind in silence, to block the unit and a subject drain
\* for a TTL: across recoveries, retries, takeovers by the other dispatcher, an
\* emergency stop and refused publications, a claim of this dispatcher that no
\* thread of it tends was reported, as a rejected publication or an exception
\* of submit.  (A thread killed by an OSError is the exception: see
\* DrainTerminates.)
ClaimIsTended ==
  \A u \in Units :
    lease[u].owner = Me /\ lease[u].status = "claimed" =>
      \/ HasWorker(u)
      \/ HasStop(u)
      \/ result[u].status \in {"publish_rejected", "submit_raised"}

\* A unit's ending has one owner, and the owner gets to finish it.
EndingHasOneOwner ==
  \A u \in finishing :
    /\ u \in active
    /\ At(u, "popping") \/ (stop.unit = u /\ stop.at \in {"publishing", "announcing", "popping"})
    /\ ~ (At(u, "popping") /\ stop.unit = u
          /\ stop.at \in {"publishing", "announcing", "popping"})

\* After drain() returned, this dispatcher claims and publishes nothing.
DrainedIsQuiet ==
  [][drained /\ stop.at = "off" =>
       \A u \in Units :
         /\ completion'[u] # completion[u] => completion'[u].owner # Me
         /\ lease'[u] # lease[u] =>
              lease'[u].owner # Me \/ lease'[u].status # "claimed"]_allVars

\* The model processes behind the stages do end.
StagesEnd == \A u \in Units : []<>(worker[u].at \notin {"analysis", "critical"})

\* Once draining is asked for, drain() returns: every handle is ended.
DrainTerminates == StagesEnd => (closing ~> drained)

\* emergency_cancel ends every active unit, stages that hang, threads that
\* died and failing writes notwithstanding.
EmergencyEnds == stop.at = "cancelling" ~> stop.at = "returned" /\ active = {}

\* The documented promise of emergency_cancel: after it reports the
\* late-result fence sealed, a late worker publishes nothing.
SealedIsFinal ==
  [][stop.sealed =>
       \A u \in Units :
         completion'[u] # completion[u] => completion'[u].owner # Me]_allVars

\* The documented purpose of the analysis checkpoint: a generation that
\* follows a completed analysis does not run the analysis again.
AnalysisRunsOnce ==
  [][\A u \in Units :
       At(u, "analysis")' /\ ~ At(u, "analysis") =>
         \A l \in ckptEvents : l.unit # u]_allVars
=============================================================================
