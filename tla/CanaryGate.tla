----------------------------- MODULE CanaryGate -----------------------------
(***************************************************************************)
(* The production canary gate of lib/concurrent_dispatch.py and the daemon *)
(* of bin/preprocess_dispatcher.py that feeds tasks through it.  A subject *)
(* admits one task, runs it, and only after its success up to Limit tasks  *)
(* at a time; any failure closes the gate until an operator resumes it.    *)
(*                                                                         *)
(* What survives a crash is disk; everything else dies with the daemon of  *)
(* the subject.  An operation is the sequence of disks its writes produce, *)
(* so a crash leaves one of them.  Every operation first reads the gate    *)
(* with all its checks (Readable) and most of them end by recounting the   *)
(* telemetry of all subjects of the release (Recounted).                   *)
(***************************************************************************)
EXTENDS Integers, FiniteSets, Sequences

CONSTANTS
  Subjects,     \* math, cs408, english
  Units,        \* tasks, numbered in the order they were recorded
  SubjectOf,    \* the subject of each task
  Limit,        \* continuous_concurrency_limit
  Activations,  \* bound: activations of one subject
  Faults        \* bound: crashes, failed writes and failed steps in a run

ASSUME GateAssumption ==
  /\ Units \subseteq Nat \ {0} /\ IsFiniteSet(Units)
  /\ SubjectOf \in [Units -> Subjects]
  /\ Limit \in Nat \ {0}
  /\ Activations \in Nat /\ Faults \in Nat

VARIABLES
  disk,     \* the durable files
  thread,   \* per unit: the worker thread and its result
  daemon,   \* per subject: where the daemon's loop is
  cli,      \* subjects whose resume command has read the status
  faults,   \* faults so far
  torn,     \* history: subjects a crash may have left half-written
  reopened  \* history: subjects opened since their last recorded failure

canaryVars == <<disk, thread, daemon, cli, faults, torn, reopened>>

Scan == 0   \* a preclaim failure that names no task
Keys == Units \cup {Scan}
Of(s) == {u \in Units : SubjectOf[u] = s}

GateStates == {"absent", "armed", "in_flight", "unlocked", "failed", "paused",
               "inactive"}

\* notice: how the state stands to the last preclaim failure it names.
Gate ==
  [state : GateStates, retired : BOOLEAN, act : 0..Activations,
   active : SUBSET Units, selected : Keys, named : SUBSET Units,
   index : SUBSET (Units \X {"terminal", "projection"}), tainted : BOOLEAN,
   unlocked : BOOLEAN, pressed : BOOLEAN,
   notice : {"none", "named", "overtaken", "acked"}]

QueueEntry == [status : {"none", "pending", "claimed", "succeeded", "failed"},
               act : 0..Activations, named : BOOLEAN]

\* The preclaim failure index: keys with a receipt, the latest of them, and
\* whether the state does not name that one yet.
FailureIndex == [keys : SUBSET Keys, last : Keys, unread : BOOLEAN]

LeaseStates == {"none", "claimed", "preclaim_failed", "retry_wait", "completed"}

Disk == [gate : [Subjects -> Gate], queue : [Units -> QueueEntry],
         lease : [Units -> LeaseStates],
         failures : [Subjects -> FailureIndex],
         current : [Subjects -> BOOLEAN]]

\* unevidenced: the runner succeeded and nothing was published; closing: the
\* verification of the result raised; refused: the thread did not start.
ThreadStates == {"none", "starting", "running", "succeeded", "unevidenced",
                 "failed", "closing", "refused", "done", "gone"}
Live == {"starting", "running", "succeeded", "unevidenced", "failed", "closing"}

Daemon == [at : {"down", "idle", "reap", "scan", "materialize", "press",
                 "select", "submit", "launch", "failing", "stopping"},
           room : 0..Limit, press : BOOLEAN, todo : SUBSET Units,
           closed : BOOLEAN]

CanaryTypeOK ==
  /\ disk \in Disk
  /\ thread \in [Units -> ThreadStates]
  /\ daemon \in [Subjects -> Daemon]
  /\ cli \subseteq Subjects
  /\ faults \in 0..Faults
  /\ torn \subseteq Subjects /\ reopened \subseteq Subjects

NoGate == [state |-> "absent", retired |-> FALSE, act |-> 0, active |-> {},
           selected |-> Scan, named |-> {}, index |-> {}, tainted |-> FALSE,
           unlocked |-> FALSE, pressed |-> FALSE, notice |-> "none"]
NoFailure == [keys |-> {}, last |-> Scan, unread |-> FALSE]
Down == [at |-> "down", room |-> 0, press |-> FALSE, todo |-> {},
         closed |-> FALSE]

CanaryInit ==
  /\ disk = [gate |-> [s \in Subjects |-> NoGate],
             queue |-> [u \in Units |-> [status |-> "none", act |-> 0,
                                         named |-> FALSE]],
             lease |-> [u \in Units |-> "none"],
             failures |-> [s \in Subjects |-> NoFailure],
             current |-> [s \in Subjects |-> TRUE]]
  /\ thread = [u \in Units |-> "none"]
  /\ daemon = [s \in Subjects |-> Down]
  /\ cli = {} /\ faults = 0 /\ torn = {} /\ reopened = {}

-----------------------------------------------------------------------------
\* Reading the gate.

\* The entry belongs to the gate's activation: another one is another path.
Queued(d, u) == d.queue[u].act = d.gate[SubjectOf[u]].act

SelectionMatches(d, s, u) ==
  /\ Queued(d, u) /\ d.queue[u].status = "claimed"
  /\ d.queue[u].named <=> u \in d.gate[s].named

\* _read_canary_state_locked does not raise; an absent gate is no error here.
Readable(d, s) ==
  LET g == d.gate[s] IN
  /\ g.retired <=> g.state = "inactive"
  /\ Cardinality(g.active) <= Limit
  /\ g.state \in {"armed", "paused", "inactive"} => g.active = {}
  /\ IF g.state = "in_flight" THEN g.active = {g.selected}
                              ELSE g.selected = Scan
  /\ \A u \in g.active : SelectionMatches(d, s, u)
  /\ ~ g.tainted
  /\ g.pressed => g.state = "unlocked" /\ Cardinality(g.active) >= Limit

Open(d, s) == d.gate[s].state # "absent" /\ Readable(d, s)
AllReadable(d) == \A s \in Subjects : Readable(d, s)

\* subject_status also compares the telemetry with the state.
StatusOK(d, s) == Open(d, s) /\ d.current[s]

-----------------------------------------------------------------------------
\* Writing.

Final(writes) == writes[Len(writes)]

\* The telemetry stays right only if nothing it repeats changes.
WithGate(d, s, g) ==
  LET old == d.gate[s] IN
  [d EXCEPT !.gate[s] = g,
            !.current[s] = @ /\ old.act = g.act /\ old.index = g.index
                             /\ Cardinality(old.active) = Cardinality(g.active)]

\* _recompute_canary_concurrency_telemetry_locked, which raises on the first
\* subject it cannot read.
Recounted(d) ==
  IF AllReadable(d) THEN [d EXCEPT !.current = [s \in Subjects |-> TRUE]] ELSE d

Overtaken(notice) == IF notice = "named" THEN "overtaken" ELSE notice
\* Mutant: a failure of a task keeps the task's slot.
CommitKeepsSlot(d, s) ==
  LET k == d.failures[s].last
      g == d.gate[s]
      gate == [WithGate(d, s, [g EXCEPT !.state = "failed", !.pressed = FALSE,
                                        !.notice = "named"])
                 EXCEPT !.failures[s].unread = FALSE]
  IN <<gate, Recounted(gate)>>

\* Mutant: the queue entry gets the status of the lease.
CommitCopiesStatus(d, s) ==
  LET k == d.failures[s].last
      lease == IF k \in Units /\ d.lease[k] = "claimed"
               THEN [d EXCEPT !.lease[k] = "preclaim_failed",
                              !.queue[k].status = "preclaim_failed"] ELSE d
      gate == [WithGate(lease, s,
                 [d.gate[s] EXCEPT !.state = "failed", !.selected = Scan,
                                   !.active = @ \ {k}, !.notice = "named"])
                 EXCEPT !.failures[s].unread = FALSE]
  IN <<lease, gate>>

\* _commit_production_canary_preclaim_failure_locked, of the latest receipt:
\* lease, queue, state, telemetry.  selected is kept unless its task failed.
Commit(d, s) ==
  LET k == d.failures[s].last
      g == d.gate[s]
      lease == IF k \in Units /\ d.lease[k] = "claimed"
               THEN [d EXCEPT !.lease[k] = "preclaim_failed"] ELSE d
      queue == IF k \in Units /\ Queued(d, k) /\ d.queue[k].status = "claimed"
               THEN [lease EXCEPT !.queue[k].status = "pending"] ELSE lease
      gate == [WithGate(queue, s,
                 [g EXCEPT !.state = "failed", !.active = @ \ {k},
                           !.named = @ \ {k}, !.pressed = FALSE,
                           !.selected = IF k \in g.active THEN Scan ELSE @,
                           !.notice = "named"])
                 EXCEPT !.failures[s].unread = FALSE]
  IN <<lease, queue, gate, Recounted(gate)>>

\* A resume acknowledged a failure and a crash cut a newer one off from the
\* state: every comparison of that acknowledgement with the latest receipt
\* raises, until another activation.
StaleAck(d, s) == d.failures[s].unread /\ d.gate[s].notice = "acked"

\* Mutant: receipts the state does not name are not looked for.
OutstandingIgnoresIndex(d, s) ==
  /\ d.failures[s].keys # {} /\ ~ d.failures[s].unread
  /\ d.gate[s].state = "failed" => d.gate[s].notice = "none"
  /\ d.gate[s].notice # "acked"

\* The latest receipt is not the failure the gate is closed on, and no resume
\* has acknowledged any.
Outstanding(d, s) ==
  /\ d.failures[s].keys # {} /\ d.gate[s].notice # "acked"
  /\ \/ d.failures[s].unread
     \/ d.gate[s].state = "failed" => d.gate[s].notice = "none"

\* _reconcile_production_canary_preclaim_failures_locked.
Reconcile(d, s) == IF Outstanding(d, s) THEN Commit(d, s) ELSE <<d>>

ReconcileRaises(d, s) ==
  \/ StaleAck(d, s)
  \/ Outstanding(d, s) /\ ~ AllReadable(Final(Reconcile(d, s)))

Recorded(d, s, k) ==
  [d EXCEPT !.failures[s] = [keys |-> @.keys \cup {k}, last |-> k,
                             unread |-> TRUE]]

\* fail_production_canary_preclaim: reconcile, the receipt, the commit.
FailPreclaim(d, s, k) ==
  LET before == Reconcile(d, s)
      r == Final(before)
      receipt == Recorded(r, s, k)
  IN IF ReconcileRaises(d, s) \/ r.gate[s].state = "inactive" THEN before
     ELSE before \o <<receipt>> \o Commit(receipt, s)

FailPreclaimRaises(d, s, k) ==
  \/ ~ Open(d, s) \/ ReconcileRaises(d, s)
  \/ Final(Reconcile(d, s)).gate[s].state = "inactive"
  \/ ~ AllReadable(Final(FailPreclaim(d, s, k)))

\* The refusals of claim and _admit_production_canary_task_locked.
Admissible(d, u) ==
  LET s == SubjectOf[u]
      g == d.gate[s]
  IN /\ Open(d, s) /\ d.lease[u] = "none"
     /\ \/ g.state = "armed" /\ g.active = {}
        \/ g.state = "unlocked" /\ Cardinality(g.active) < Limit
     /\ Queued(d, u) /\ d.queue[u].status = "pending"

\* claim with production_canary: queue, state, telemetry, lease; a telemetry
\* that raises leaves the admission without a lease.
Admit(d, u) ==
  LET s == SubjectOf[u]
      g == d.gate[s]
      more == g.active \cup {u}
      queue == [d EXCEPT !.queue[u].status = "claimed", !.queue[u].named = FALSE]
      gate == WithGate(queue, s,
                [g EXCEPT !.state = IF @ = "armed" THEN "in_flight" ELSE @,
                          !.selected = IF g.state = "armed" THEN u ELSE Scan,
                          !.active = more,
                          !.pressed = /\ g.state = "unlocked"
                                      /\ Cardinality(more) >= Limit])
      counted == Recounted(gate)
  IN IF AllReadable(gate)
     THEN <<queue, gate, counted, [counted EXCEPT !.lease[u] = "claimed"]>>
     ELSE <<queue, gate>>

\* register_task_process_identity: queue, state.
Identify(d, u) ==
  LET queue == [d EXCEPT !.queue[u].named = TRUE]
  IN <<queue, [queue EXCEPT !.gate[SubjectOf[u]].named = @ \cup {u}]>>

\* A task may be finished or failed closed: its slot and its entry agree.
Bound(d, u) ==
  LET s == SubjectOf[u]
  IN Open(d, s) /\ u \in d.gate[s].active /\ SelectionMatches(d, s, u)

\* Mutant: the end of the first task leaves it selected.
FinishKeepsSelected(d, u, how) ==
  LET s == SubjectOf[u]
      g == d.gate[s]
      rest == g.active \ {u}
      opens == how = "succeeded" /\ g.state # "failed"
      queue == [d EXCEPT !.queue[u].status =
                  IF how = "succeeded" THEN "succeeded" ELSE "failed"]
      gate == WithGate(queue, s,
        [g EXCEPT !.active = rest, !.named = @ \ {u},
                  !.index = @ \cup {<<u, "terminal">>},
                  !.notice = Overtaken(@),
                  !.state = IF opens THEN "unlocked" ELSE "failed",
                  !.unlocked = @ \/ opens])
  IN <<queue, gate, Recounted(gate)>>

\* finish_production_canary_task: terminal index, queue, state, telemetry.  A
\* success opens the gate unless it was closed meanwhile.
Finish(d, u, how) ==
  LET s == SubjectOf[u]
      g == d.gate[s]
      rest == g.active \ {u}
      opens == how = "succeeded" /\ g.state # "failed"
      queue == [d EXCEPT !.queue[u].status =
                  IF how = "succeeded" THEN "succeeded" ELSE "failed"]
      gate == WithGate(queue, s,
        [g EXCEPT !.active = rest, !.named = @ \ {u}, !.selected = Scan,
                  !.index = @ \cup {<<u, "terminal">>},
                  !.tainted = @ \/ how = "unevidenced",
                  !.notice = Overtaken(@),
                  !.state = IF opens THEN "unlocked" ELSE "failed",
                  !.unlocked = @ \/ opens,
                  !.pressed = opens /\ Cardinality(rest) >= Limit])
  IN <<queue, gate, Recounted(gate)>>

\* fail_production_canary_post_terminal: the entry keeps its status and the
\* state its status field.
FailPostTerminal(d, u) ==
  LET s == SubjectOf[u]
      gate == WithGate(d, s,
        [d.gate[s] EXCEPT !.index = @ \cup {<<u, "projection">>},
                          !.notice = Overtaken(@), !.state = "failed",
                          !.selected = Scan, !.pressed = FALSE])
  IN <<gate, Recounted(gate)>>

HasTerminal(d, u) ==
  /\ Open(d, SubjectOf[u]) /\ Queued(d, u)
  /\ d.queue[u].status \in {"succeeded", "failed"}

\* activate, deactivate, pause and resume write the state and the telemetry.
Rewritten(d, s, g) ==
  LET gate == WithGate(d, s, g) IN <<gate, Recounted(gate)>>
-----------------------------------------------------------------------------
\* One step of an actor.

First(us) == CHOOSE u \in us : \A v \in us : u <= v

\* The process of a subject is gone: its threads and handles with it.
Dies(s) ==
  /\ daemon' = [daemon EXCEPT ![s] = Down]
  /\ thread' = [u \in Units |-> IF SubjectOf[u] = s /\ thread[u] # "none"
                                THEN "gone" ELSE thread[u]]

Faulty == faults < Faults /\ faults' = faults + 1

\* History: what is recorded as a failure closes the gate.
Remembers(opened) ==
  reopened' = {s \in opened : /\ disk'.gate[s].state # "failed"
                              /\ ~ disk'.failures[s].unread}

\* A crash in the middle of the writes of an operation.
Torn(s, writes, opened) ==
  /\ Faulty
  /\ \E i \in 1..(Len(writes) - 1) : disk' = writes[i]
  /\ torn' = torn \cup {s}
  /\ Remembers(opened)
  /\ UNCHANGED cli

\* An operation of the daemon's process, carried out or cut by its death.
Does(s, writes, effect) ==
  \/ /\ disk' = Final(writes) /\ effect
     /\ Remembers(reopened) /\ UNCHANGED <<cli, torn>>
  \/ Torn(s, writes, reopened) /\ Dies(s)

Goes(s, d) == daemon' = [daemon EXCEPT ![s] = d]

Idle(s) == [Down EXCEPT !.at = "idle", !.closed = daemon[s].closed]

\* A step of the daemon that only moves it.
Moves(s, d) == Goes(s, d) /\ UNCHANGED <<disk, thread, cli, faults, torn, reopened>>

-----------------------------------------------------------------------------
\* The daemon of one subject.

\* write_control_heartbeat, before the loop.
StartDaemon(s) ==
  /\ daemon[s].at = "down" /\ StatusOK(disk, s)
  /\ Moves(s, Idle(s))

DoneHandles(s) == {u \in Of(s) : thread[u] = "done"}

\* subject_status at the loop's head; nothing catches its error.
LoopHead(s) ==
  /\ daemon[s].at = "idle"
  /\ \/ ~ StatusOK(disk, s) /\ Moves(s, [Idle(s) EXCEPT !.at = "stopping"])
     \/ /\ StatusOK(disk, s) /\ disk.gate[s].state # "inactive"
        /\ Moves(s, [Idle(s) EXCEPT !.at = "reap", !.todo = DoneHandles(s)])

\* SIGTERM, seen at the head.
Stop(s) ==
  daemon[s].at = "idle" /\ Moves(s, [Idle(s) EXCEPT !.at = "stopping"])

\* emergency_cancel has ended every thread.
Exit(s) ==
  /\ daemon[s].at = "stopping"
  /\ \A u \in Of(s) : thread[u] \notin Live \cup {"refused"}
  /\ Dies(s) /\ UNCHANGED <<disk, cli, faults, torn, reopened>>

Kill(s) ==
  /\ daemon[s].at # "down" /\ Faulty
  /\ torn' = torn \cup {s}
  /\ Dies(s) /\ UNCHANGED <<disk, cli, reopened>>

\* persist_finished_luna_with_status, one handle.  A projection that fails
\* closes the gate; if that fails too the daemon stops asking for tasks.
Reap(s) ==
  /\ daemon[s].at = "reap" /\ daemon[s].todo # {}
  /\ LET u == First(daemon[s].todo)
         rest == [daemon[s] EXCEPT !.todo = @ \ {u}]
         gone == thread' = [thread EXCEPT ![u] = "gone"]
     IN \/ gone /\ Goes(s, rest) /\ UNCHANGED <<disk, cli, faults, torn, reopened>>
        \/ /\ HasTerminal(disk, u) /\ Faulty
           /\ disk' = Final(FailPostTerminal(disk, u))
           /\ IF AllReadable(disk')
              THEN gone /\ Goes(s, rest)
              ELSE UNCHANGED thread /\ Goes(s, [rest EXCEPT !.closed = TRUE])
           /\ Remembers(reopened) /\ UNCHANGED <<cli, torn>>
        \/ /\ ~ HasTerminal(disk, u) /\ Faulty
           /\ Goes(s, [rest EXCEPT !.closed = TRUE])
           /\ UNCHANGED <<disk, thread, cli, torn, reopened>>

\* scan_and_submit up to the scan: a recorded failure that names no task
\* ends the pass.
BeginScan(s) ==
  /\ daemon[s].at = "reap" /\ daemon[s].todo = {} /\ Open(disk, s)
  /\ LET writes == Reconcile(disk, s)
         d == Final(writes)
         ends == \/ ReconcileRaises(disk, s)
                 \/ d.gate[s].state = "failed" /\ Scan \in d.failures[s].keys
     IN Does(s, writes,
             /\ Goes(s, [Idle(s) EXCEPT !.at = IF ends THEN "idle"
                                               ELSE "materialize"])
             /\ UNCHANGED <<thread, faults>>)

\* The error of an operation on the gate leaves scan_and_submit.
PassAborts(s) ==
  /\ daemon[s].at \in {"reap", "materialize", "press", "select", "submit",
                       "failing"}
  /\ daemon[s].at = "reap" => daemon[s].todo = {}
  /\ ~ Open(disk, s)
  /\ Moves(s, Idle(s))

\* A failed step of the pass is recorded; an error of that ends the pass.
Records(s, k, next) ==
  Does(s, FailPreclaim(disk, s, k),
       /\ Goes(s, IF FailPreclaimRaises(disk, s, k) THEN Idle(s) ELSE next)
       /\ UNCHANGED <<thread, faults>>)

Suppressed(u) ==
  disk.gate[SubjectOf[u]].state = "failed" /\ u \in disk.failures[SubjectOf[u]].keys

Unrecorded(s) == {u \in Of(s) : disk.queue[u].status = "none"}

\* The scan finds a new task; the gate may have been deactivated.
Materialize(s) ==
  /\ daemon[s].at = "materialize" /\ Open(disk, s)
  /\ \E u \in Unrecorded(s) :
       /\ ~ Suppressed(u)
       /\ IF disk.gate[s].state = "inactive" THEN Records(s, u, daemon[s])
          ELSE /\ u = First(Unrecorded(s))
               /\ disk' = [disk EXCEPT !.queue[u] =
                             [status |-> "pending", named |-> FALSE,
                              act |-> disk.gate[s].act]]
               /\ UNCHANGED <<thread, daemon, cli, faults, torn, reopened>>

\* The scan, or the materialization of a task it found, fails.
ScanFails(s) ==
  /\ daemon[s].at = "materialize" /\ Open(disk, s)
  /\ Faulty
  /\ \E k \in {Scan} \cup Unrecorded(s) :
       /\ disk' = Final(FailPreclaim(disk, s, k))
       /\ Goes(s, IF k = Scan \/ FailPreclaimRaises(disk, s, k) THEN Idle(s)
                  ELSE daemon[s])
  /\ Remembers(reopened) /\ UNCHANGED <<thread, cli, torn>>

\* production_canary_status, from which the pass takes its capacity.
ReadStatus(s) ==
  /\ daemon[s].at = "materialize" /\ Open(disk, s)
  /\ LET writes == Reconcile(disk, s)
         g == Final(writes).gate[s]
         room == CASE daemon[s].closed -> 0
                   [] g.state = "armed" /\ ~ daemon[s].closed -> 1
                   [] g.state = "unlocked" /\ ~ daemon[s].closed ->
                        Limit - Cardinality(g.active)
                   [] OTHER -> 0
     IN Does(s, writes,
             /\ Goes(s, IF ReconcileRaises(disk, s) THEN Idle(s)
                        ELSE [Idle(s) EXCEPT
                                !.at = "press", !.room = room,
                                !.press = g.state = "unlocked" /\ room = 0])
             /\ UNCHANGED <<thread, faults>>)

\* set_production_canary_backpressure: the state was read under another lock.
Press(s) ==
  /\ daemon[s].at = "press" /\ Open(disk, s)
  /\ disk' = [disk EXCEPT !.gate[s].pressed = daemon[s].press]
  /\ Goes(s, IF daemon[s].room = 0 THEN Idle(s)
             ELSE [daemon[s] EXCEPT !.at = "select", !.press = FALSE])
  /\ UNCHANGED <<thread, cli, faults, torn, reopened>>

Pending(s) ==
  {u \in Of(s) : Queued(disk, u) /\ disk.queue[u].status = "pending"}

\* The oldest pending tasks, as many as there is room for.
Chosen(s) ==
  {u \in Pending(s) :
     Cardinality({v \in Pending(s) : v < u}) < daemon[s].room}

Select(s) ==
  /\ daemon[s].at = "select" /\ Open(disk, s)
  /\ Moves(s, IF Chosen(s) = {} THEN Idle(s)
              ELSE [Idle(s) EXCEPT !.at = "submit", !.todo = Chosen(s)])

\* Reading the queue, or the admission or preparation of the batch, fails.
SelectFails(s) ==
  /\ daemon[s].at = "select" /\ Open(disk, s)
  /\ Faulty
  /\ \E k \in {Scan} \cup (IF Chosen(s) = {} THEN {} ELSE {First(Chosen(s))}) :
       disk' = Final(FailPreclaim(disk, s, k))
  /\ Goes(s, Idle(s))
  /\ Remembers(reopened) /\ UNCHANGED <<thread, cli, torn>>

\* submit runs alone: a thread that was refused is first closed.
Claim(s) ==
  /\ daemon[s].at = "submit" /\ Open(disk, s)
  /\ \A u \in Of(s) : thread[u] # "refused"
  /\ LET u == First(daemon[s].todo)
     IN IF Admissible(disk, u)
        THEN Does(s, Admit(disk, u),
               /\ Goes(s, [daemon[s] EXCEPT !.at =
                            IF Final(Admit(disk, u)).lease[u] = "claimed"
                            THEN "launch" ELSE "failing"])
               /\ UNCHANGED <<thread, faults>>)
        ELSE Moves(s, [daemon[s] EXCEPT !.at = "failing"])

AfterTask(s) ==
  LET rest == daemon[s].todo \ {First(daemon[s].todo)}
  IN IF rest = {} THEN Idle(s)
     ELSE [daemon[s] EXCEPT !.at = "submit", !.todo = rest]

\* The rest of submit: content members, directories, claim event, thread.
Launch(s) ==
  /\ daemon[s].at = "launch"
  /\ LET u == First(daemon[s].todo)
     IN \/ /\ thread' = [thread EXCEPT ![u] = "starting"]
           /\ Goes(s, AfterTask(s))
           /\ UNCHANGED <<disk, faults>>
        \/ /\ Faulty
           /\ Goes(s, [daemon[s] EXCEPT !.at = "failing"])
           /\ UNCHANGED <<disk, thread>>
        \/ /\ Faulty
           /\ thread' = [thread EXCEPT ![u] = "refused"]
           /\ disk' = IF disk.lease[u] = "claimed"
                      THEN [disk EXCEPT !.lease[u] = "retry_wait"] ELSE disk
           /\ Goes(s, AfterTask(s))
  /\ UNCHANGED <<cli, torn, reopened>>

\* submit raised: the task is recorded as failed before it was claimed.
SubmitFails(s) ==
  /\ daemon[s].at = "failing" /\ Open(disk, s)
  /\ Records(s, First(daemon[s].todo), AfterTask(s))

DaemonStep(s) ==
  \/ StartDaemon(s) \/ LoopHead(s) \/ Exit(s) \/ Reap(s) \/ BeginScan(s)
  \/ PassAborts(s) \/ Materialize(s) \/ ReadStatus(s) \/ Press(s) \/ Select(s)
  \/ Claim(s) \/ Launch(s) \/ SubmitFails(s)
-----------------------------------------------------------------------------
\* The worker threads.

Becomes(u, to) == thread' = [thread EXCEPT ![u] = to]

\* The task process is launched; without its identity the attempt fails.
Register(u) ==
  /\ thread[u] = "starting"
  /\ IF /\ disk.lease[u] = "claimed" /\ Open(disk, SubjectOf[u])
        /\ u \in disk.gate[SubjectOf[u]].active \ disk.gate[SubjectOf[u]].named
     THEN Does(SubjectOf[u], Identify(disk, u),
               Becomes(u, "running") /\ UNCHANGED <<daemon, faults>>)
     ELSE /\ Becomes(u, "failed")
          /\ UNCHANGED <<disk, daemon, cli, faults, torn, reopened>>

\* The attempt ends: published, or its lease was taken from it, or the write
\* of its completion fails.
WorkerEnds(u) ==
  /\ thread[u] = "running"
  /\ \/ /\ disk.lease[u] = "claimed"
        /\ \E how \in {"succeeded", "failed", "closing"} : Becomes(u, how)
        /\ disk' = [disk EXCEPT !.lease[u] = "completed"]
        /\ UNCHANGED faults
     \/ /\ disk.lease[u] = "claimed" => faults < Faults
        /\ faults' = IF disk.lease[u] = "claimed" THEN faults + 1 ELSE faults
        /\ \E how \in {"unevidenced", "failed"} : Becomes(u, how)
        /\ UNCHANGED disk
  /\ UNCHANGED <<daemon, cli, torn, reopened>>

\* _finish_active_claimed, first attempt.
FinishTask(u) ==
  /\ thread[u] \in {"succeeded", "unevidenced", "failed"}
  /\ IF Bound(disk, u)
     THEN LET writes == Finish(disk, u, thread[u])
          IN Does(SubjectOf[u], writes,
                  /\ Becomes(u, IF AllReadable(Final(writes)) THEN "done"
                                ELSE "closing")
                  /\ UNCHANGED <<daemon, faults>>)
     ELSE /\ Becomes(u, "closing")
          /\ UNCHANGED <<disk, daemon, cli, faults, torn, reopened>>

\* Mutant: a task that cannot be verified gives up its handle only.
FailClosedHandleOnly(u) ==
  /\ thread[u] \in {"closing", "refused"}
  /\ Becomes(u, "done")
  /\ UNCHANGED <<disk, daemon, cli, faults, torn, reopened>>

\* fail_production_canary_closed; its own error is only reported.
FailClosed(u) ==
  /\ thread[u] \in {"closing", "refused"}
  /\ IF Bound(disk, u)
     THEN Does(SubjectOf[u], Finish(disk, u, "failed"),
               Becomes(u, "done") /\ UNCHANGED <<daemon, faults>>)
     ELSE /\ Becomes(u, "done")
          /\ UNCHANGED <<disk, daemon, cli, faults, torn, reopened>>

ThreadStep(u) ==
  Register(u) \/ WorkerEnds(u) \/ FinishTask(u) \/ FailClosed(u)

-----------------------------------------------------------------------------
\* The operator's commands, in processes of their own.

Commands(s, writes, opened) ==
  \/ /\ disk' = Final(writes) /\ Remembers(opened)
     /\ cli' = cli \ {s} /\ UNCHANGED <<thread, daemon, faults, torn>>
  \/ Torn(s, writes, opened) /\ UNCHANGED <<thread, daemon>>

\* activate_production_canary: a new activation, with an empty index.
Activate(s) ==
  LET g == disk.gate[s] IN
  /\ g.act < Activations
  /\ g.state \in {"absent", "inactive"} /\ Readable(disk, s)
  /\ \A u \in Of(s) : disk.lease[u] # "claimed"
  /\ Commands(s,
       Rewritten([disk EXCEPT !.failures[s] = NoFailure], s,
                 [NoGate EXCEPT !.state = "armed", !.act = g.act + 1]),
       reopened \cup {s})

\* deactivate_production_canary.
Deactivate(s) ==
  /\ Open(disk, s)
  /\ disk.gate[s].active = {} /\ disk.gate[s].state # "inactive"
  /\ Commands(s,
       Rewritten(disk, s, [disk.gate[s] EXCEPT !.state = "inactive",
                                               !.retired = TRUE,
                                               !.pressed = FALSE]),
       reopened)

\* pause_production_canary.
Pause(s) ==
  /\ Open(disk, s)
  /\ disk.gate[s].state \notin {"paused", "inactive"}
  /\ disk.gate[s].active = {}
  /\ \A u \in Of(s) : disk.lease[u] # "claimed"
  /\ Commands(s, Rewritten(disk, s, [disk.gate[s] EXCEPT !.state = "paused",
                                                       !.pressed = FALSE]),
              reopened)

\* production_canary_status, by itself or as the first half of a resume.
Inspect(s) ==
  /\ Open(disk, s)
  /\ LET writes == Reconcile(disk, s)
     IN \/ /\ disk' = Final(writes) /\ Remembers(reopened)
           /\ cli' = IF ReconcileRaises(disk, s) THEN cli \ {s}
                     ELSE cli \cup {s}
           /\ UNCHANGED <<thread, daemon, faults, torn>>
        \/ Torn(s, writes, reopened) /\ UNCHANGED <<thread, daemon>>

\* Mutant: a resume does not wait for the tasks that still run.
ResumeActive(s) ==
  LET g == disk.gate[s] IN
  /\ s \in cli /\ Open(disk, s)
  /\ g.state \in {"failed", "paused"}
  /\ Commands(s,
       Rewritten(disk, s,
         [g EXCEPT !.state = IF g.unlocked THEN "unlocked" ELSE "armed",
                   !.active = {}, !.named = {},
                   !.notice = IF g.state = "failed" /\ @ = "named"
                              THEN "acked" ELSE @,
                   !.selected = Scan, !.pressed = FALSE]),
       reopened \cup {s})

\* resume_production_canary: only a failure no later terminal has overtaken
\* is acknowledged.
Resume(s) ==
  LET g == disk.gate[s] IN
  /\ s \in cli /\ Open(disk, s)
  /\ g.state \in {"failed", "paused"} /\ g.active = {}
  /\ Commands(s,
       Rewritten(disk, s,
         [g EXCEPT !.state = IF g.unlocked THEN "unlocked" ELSE "armed",
                   !.notice = IF g.state = "failed" /\ @ = "named"
                              THEN "acked" ELSE @,
                   !.selected = Scan, !.pressed = FALSE]),
       reopened \cup {s})

OperatorStep(s) ==
  Activate(s) \/ Deactivate(s) \/ Pause(s) \/ Inspect(s) \/ Resume(s)

FaultStep(s) == Stop(s) \/ Kill(s) \/ ScanFails(s) \/ SelectFails(s)

CanaryNext ==
  \/ \E s \in Subjects : DaemonStep(s) \/ OperatorStep(s) \/ FaultStep(s)
  \/ \E u \in Units : ThreadStep(u)

CanarySpec == CanaryInit /\ [][CanaryNext]_canaryVars

Ended == {"succeeded", "unevidenced", "failed", "closing", "refused"}

\* Of a thread that has ended, only FinishTask, FailClosed and the death of
\* the process move it on; the first two are enabled as long as it has ended.
MovesOn(u) ==
  /\ thread[u] \in Ended
  /\ \E to \in ThreadStates \ {thread[u]} : Becomes(u, to)

\* The thread of an ended task is scheduled.
FairCanarySpec == CanarySpec /\ \A u \in Units : WF_thread(MovesOn(u))

-----------------------------------------------------------------------------
(***************************************************************************)
(* Properties                                                              *)
(***************************************************************************)

\* The daemon's process knows what to do with the slot of u.
Owned(u) ==
  \/ thread[u] \in Live \cup {"refused"}
  \/ LET d == daemon[SubjectOf[u]]
     IN d.at \in {"launch", "failing"} /\ u = First(d.todo)

\* Unless a crash fell into the subject, slots and claimed queue entries are
\* the same tasks, each of them is in somebody's hands, and no task runs
\* without one: the abstract gate's limits on slots are limits on tasks.  One
\* gate of the release that cannot be read makes the fail-closed paths of the
\* other subjects raise, and they leave slots behind.
SlotsAreOwned ==
  AllReadable(disk) =>
    \A s \in Subjects \ torn : \A u \in Of(s) :
      /\ u \in disk.gate[s].active
            <=> Queued(disk, u) /\ disk.queue[u].status = "claimed"
      /\ u \in disk.gate[s].active => Owned(u)
      /\ thread[u] \in {"starting", "running"} => u \in disk.gate[s].active

\* After a recorded failure no task gets a slot until an operator has resumed
\* or activated the gate.  A receipt whose state change a crash cut off counts,
\* also where the acknowledgement of an older one keeps the gate from closing.
FailureNeedsOperator ==
  [][\A u \in Units :
       LET s == SubjectOf[u]
       IN u \in disk'.gate[s].active /\ u \notin disk.gate[s].active
            => s \in reopened]_canaryVars

\* A gate becomes unreadable in a crash or in four ways: a failure is recorded
\* beside the first task in flight; back pressure is set from an old reading;
\* a failure reaches a deactivated gate; a success is recorded unpublished.
GateStaysReadable ==
  [][\A s \in Subjects : Readable(disk, s) /\ ~ Readable(disk', s) =>
       LET g == disk.gate[s]
           h == disk'.gate[s]
       IN \/ faults # faults' /\ s \in torn'
          \/ g.state = "in_flight" /\ h.state = "failed" /\ h.active = g.active
          \/ daemon[s].at = "press" /\ h.pressed
          \/ g.retired /\ h.state = "failed"
          \/ h.tainted]_canaryVars

\* The result of a task never strands its slot: it is given back, unless the
\* gate cannot be read or the process dies.
LateResultReleasesSlot ==
  \A u \in Units :
    thread[u] \in Ended
      ~> \/ u \notin disk.gate[SubjectOf[u]].active
         \/ ~ Readable(disk, SubjectOf[u])
         \/ thread[u] = "gone"

\* The gate of each subject implements the abstract gate; an unreadable gate
\* is shut, since nothing can be admitted through it.
Abstract ==
  INSTANCE FirstTaskGate WITH
    Tasks <- Units,
    open <- {s \in Subjects :
               /\ Readable(disk, s)
               /\ disk.gate[s].state \in {"armed", "in_flight", "unlocked"}},
    proven <- {s \in Subjects : disk.gate[s].unlocked},
    held <- [s \in Subjects |-> disk.gate[s].active]

ImplementsFirstTaskGate == Abstract!GateSpec
=============================================================================
