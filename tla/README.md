# Study-intake v2 backend: TLA+ models and proofs

This directory specifies the coordination core of the backend: the durable
lease store that several dispatcher processes share, the dispatcher whose
threads run frozen tasks over it, the supervision of the model processes of one
task, the canary gate each subject's daemon admits its tasks through, the
transaction that puts a release into operation, the job record that the task
processes, the consumer and the adoption of a package share, and the one writer
that brings authorized batches into the learner's formal records. The modules are
read next to `lib/concurrent_dispatch.py`, `lib/preprocessor_core.py`,
`lib/subject_sol_contract.py`, `lib/nightly_sol_alignment.py`,
`bin/preprocess_dispatcher.py` and `scripts/release_manager.py`; `PROJECT.json`
maps every definition to the lines it models, and lists the runs, the mutants,
the hazards and the theorems.

## The system

The backend takes learning captures of three subjects (math, cs408, english),
freezes them into content-addressed *units*, runs a two-pass model job for each
(analysis, then critical review), and publishes a package, a receipt and a
completion that consumers adopt. All coordination is files: JSON objects
replaced atomically, or written once and never replaced, under `flock`.

| Part | Where | State | Operations | What is hard |
|---|---|---|---|---|
| Lease store | `lib/concurrent_dispatch.py` `LeaseStore` | one lease file, write-once completion, checkpoint pointer, task detail per unit; latest pointer per capture; drain file per subject; replay markers | claim, heartbeat, mark_retry_wait, recover, record_task_event, publish_analysis_checkpoint, publish_terminal, quarantine, drain | stale holders, clock read before the lock, crash between writes, two dispatchers |
| Concurrent dispatcher | same file, `ConcurrentDispatcher` | active and finishing handles, contexts, cancel events | submit, _execute, cancel, emergency_cancel, drain | worker, heartbeat, control and submitter threads racing for the ending of a unit |
| Stage supervision | same file, `_invoke_stage`, `publish_stage_progress` | progress receipts, probe counters | progress, soft warning, probe, stall | counters across rounds, unverifiable probes |
| Content members | same file, 1660-1961 | registrations and publications of equivalent captures | register, attach | registration and publication exclude each other by the store lock; a registration may raise after the claim |
| Production canary gate | same file, 2497-9653 | gate state, queue, active and submitted counts per subject | activate, admit, finish, pause, resume, fail closed, deactivate | limits, late finishes, half-done fail-closed transitions |
| Dispatch daemon | `bin/preprocess_dispatcher.py` | runtime per subject, pending handles | scan_and_submit, reap, persist, signals | retry waits, shutdown, canary state |
| Task process | `bin/preprocess_task_runner.py`, `lib/core_dispatch_bridge.py` | cancellation and probe coordinators | run_request, recorders | cancel before bind, events of an orphan process |
| Preprocessor worker | `lib/preprocessor_core.py` | jobs, packages, consumption and adoption records | eligibility, process, resume, consume, adopt | interrupted jobs, two revisions of a capture over one record, unguarded rewrites, english micro-batches |
| Release manager | `scripts/release_manager.py` | `current` link, drain markers, receipts, service state | activate, rollback, canary, pause, resume | staged transaction with rollback |
| Sol control | `lib/subject_sol_contract.py`, `lib/nightly_sol_alignment.py` | current Luna batch and writer file per subject, one global file: queue, writer lease, next token; conflict continuations | prepare, record, roll over, admit, authorize, begin, review, finish, pause, resume, restore, acknowledge | two files per operation, three kinds of driver, a fence beside the daemon's claims |
| Contracts and plugin | `lib/processing_plugin.py`, `analysis_package_v1.py`, `consumer_stage_chain_v1.py` | none | validation | order of the consumer's stages |
| English legacy writer | `lib/english_legacy_*.py` | journal, target files | apply, recover | crash between files |
| Dashboard, campaigns, smoke, shadow, audit tools | `dashboard/`, `scripts/`, `lib/math_*` | projections | read, render, seal | little: single-process and read-only |

Interaction: the daemon scans eligible candidates and calls `submit`; the
dispatcher claims in the store, starts a worker and a heartbeat thread, and
runs the model stages in a task process, which itself writes events and
checkpoints to the store under the same fence; the ending goes to the store
(`publish_terminal`) and then to the handle. Another dispatcher process, or the
same one restarted under a new owner id, meets it only through the store. The
release manager drains a subject through its drain file and quarantines what a
dead process left claimed. The daemon also counts the outcomes of a subject's
current batch; a ready batch is authorized, by the operator or by the nightly
command, and formally written ("Sol") one at a time across all subjects, while a
fence keeps the subject's own background work ("Luna") from being claimed.

Correctness, per part:

* lease store: one owner per fence; one result, by the newest generation; no
  takeover of a live holder; completions, checkpoints and fences never go back;
  while a subject drains only recoveries, canaries and sealed replays begin; one
  automatic regeneration; resume only after a recorded analysis;
* dispatcher: one ending per unit, the handle reports the durable result, a claim
  has a thread or its loss was reported, drain and emergency stop converge, a
  cancelled unit stops, an analysis is not repeated;
* gate: one task until one has succeeded, then a limit; slots agree with the
  queue, a failure closes the gate until an operator opens it, a result always
  gives its slot back;
* stage supervision: only consecutive verified failures kill a stage, a hung
  stage is found out, a stop leaves no model process;
* release manager: two releases never serve side by side, a receipt tells the
  truth, a transaction left open freezes the installation, every failure point
  rolls back to the prior release;
* worker and consumer: a package is offered only when its unit succeeded with
  it, publications and adoptions of a capture never go back to older content, a
  resumed generation finds the checkpoint it was told of;
* Sol control: one batch is written at a time, in the order of authorization,
  behind the fence of its subject; a committed batch was written whole, and counted
  but for one capture at most; the writer is released and the fence lifted.

## Modules

| Module | What it is |
|---|---|
| `FencedLedger` | Abstract specification: numbered generations, one grant per number, one result by the newest generation. |
| `LeaseStore` | The store: one action per locked section, one per durable prefix of `publish_terminal`. |
| `MCLeaseStore` + `LeaseStore.cfg` | One unit of one capture, two owners, one replay allowlist. |
| `LeaseStoreProofs` | Theorems about `LeaseStore`, checked by TLAPS. |
| `Dispatcher` | `ConcurrentDispatcher` over `LeaseStore` (EXTENDS it and uses its actions), beside a rival process. |
| `MCDispatcher` + `Dispatcher*.cfg` | One unit; runner kind, I/O errors and fairness differ per configuration. |
| `DispatcherProofs` | Theorems about `Dispatcher`, over those of `LeaseStoreProofs`, checked by TLAPS. |
| `StageMonitor` | One generation of one production unit: the loop of `_invoke_stage`, the task process and the provider of each pass. |
| `MCStageMonitor` + `StageMonitor*.cfg` | Timers and number of probes. |
| `StageMonitorProofs` | Theorems about `StageMonitor`, checked by TLAPS. |
| `FirstTaskGate` | Abstract specification: a gate that takes one task until one has succeeded, then `Limit`, and is shut by a failure. |
| `CanaryGate` | The production canary gate of each subject, the daemon loop that feeds it, its worker threads and the operator's commands. |
| `MCCanaryGate` + `CanaryGate.cfg` | One subject, three tasks. |
| `CanaryGateProofs` | Theorems about `CanaryGate`: its types, its failures, its refinement; checked by TLAPS. |
| `CanaryGateSlotProofs` | Theorems about its gates and slots, over those of `CanaryGateProofs`, checked by TLAPS. |
| `ReleaseSwitch` | The deployment transaction, its rollback and receipts, beside launchd, the daemons and the gates. |
| `MCReleaseSwitch` + `ReleaseSwitch.cfg` | Two releases, two subjects and the dashboard. |
| `ReleaseSwitchProofs` | Theorems about `ReleaseSwitch`, checked by TLAPS. |
| `PackageLifecycle` | The job record of one cs408 capture: scan, task process, consumer, adoption. |
| `MCPackageLifecycle` + `PackageLifecycle.cfg` | Two revisions, three leases. |
| `PackageLifecycleProofs` | Theorems about `PackageLifecycle`, checked by TLAPS. |
| `WriterQueue` | Abstract specification: a first-come, first-served queue for one writer under ever newer tokens. |
| `SolWriter` | The batches of the subjects, the queue, the global writer, the fence, and the processes that drive them. |
| `MCSolWriter` + `SolWriter*.cfg` | Two subjects, two Sol batches. |
| `SolWriterProofs` | Theorems about `SolWriter`, checked by TLAPS. |

### LeaseStore

`lease[u]` is the lease file (owner, fence, status, heartbeat, recovery count,
resume flag); `completion`, `ckptLatest` and `detail` the other files of a unit;
`latest[c]` the authoritative pointer of a capture, which every unit frozen from it
moves and a math group's unit moves for each of its members (`CapturesOf`);
`ckptEvents` the indexed `analysis_completed` events; `draining` the drain
files; `consumed` the markers of replays already begun under an operator's
allowlist; `alive` the owners whose process exists. `granted` holds every lease
ever handed out, and any step may use any of them: a client may be arbitrarily
late. `touched` and `regenerated` are history variables that only properties
read.

`claim`, `heartbeat`, `recover_after_infrastructure_crash` and
`quarantine_stale_claim` read the clock before waiting for the file lock, so
their timestamp is up to `LockDelay` old; `record_task_event` reads it under the
lock and checks owner and fence but not the status. `claim` is
three actions, one per branch: the plain one refuses a draining subject, the canary
one wants the subject to drain and the unit to be new (the gate that admits it is
`CanaryGate`'s), the controlled replay does not look at the drain and writes its
marker first. Content-addressed objects
(packages, receipts, ledger entries, checkpoint objects) are unreachable until a
pointer names them and are left out; the pointer writes are the model's.

Left out: retry_wait_count, receipt fields of the lease, the writes of a task
event between the heartbeat refresh and the detail, content-member
publications, expiry and shape of an allowlist, what a checkpoint reference is
checked for, and the process and provider receipts of the same class.

### Dispatcher

`worker[u]` is the `_execute` thread with its local lease fence, resume flag and
outcome; `At(u, p)` is the point it is at, one per store call, so a takeover, a
cancel or the emergency stop can fall between any two. `bound[u]` is the fence
of the context the handle holds, `cancelled` the contexts whose event is set:
they are kept apart because `_execute` replaces the context in a recovery.
`stop` is the thread in `emergency_cancel`. The condition's lock is held by
`submit` over several store calls; `ConditionFree` guards the others.

`Opaque` is `executes_full_two_pass_in_analysis`: the production subprocess
runner takes its mode from the context, other runners restore whatever
checkpoint the store has; the task process of an opaque runner records
`analysis_completed` with the preprocessor's own checkpoint and publishes none to
the store. `publish_terminal` and the registration of content members may refuse
what they are given although the lease is still the worker's (`Publish`,
`SubmitRegister`), and the runner may fail to be built (`BeginAnalysis`): these
errors need no I/O error. `IOErrors` also lets store writes of workers raise
OSError. Rival is another dispatcher with the same code; only what matters to
Me is kept: claiming, publishing, and the clock. `production_canary` is FALSE:
its gate calls and its refusal of automatic recovery are not in the module. A
handle's result is set in the step that pops it, one statement earlier than in
the code. `SetResult` keeps the first result.

### StageMonitor

What `Dispatcher` abstracts to "a stage ends somehow" is here in detail for the
production runner, `CoreCandidateSubprocessRunner`. Its `run_analysis` starts a
task process that runs both model passes; `run_critical_review` only hands over
what the process returned. So there are three actors: the dispatcher's worker,
which polls (`at`, `pass`, `rounds` and the two timers are the locals of
`_invoke_stage`), the task process, and the provider process of each pass, which
works, outputs, hangs or exits when it likes.

The dispatcher learns of a provider in three ways. Progress receipts
(`publish_stage_progress`) form a chain per stage; `unread` holds the stages with
a receipt the loop has not seen, `wrote` those whose counters are no longer
zero. A probe (`probe_stage`) takes a kernel snapshot of the one provider that
is alive, compares it with a baseline, and seals a receipt under the *provider's*
stage; `verify_provider_kernel_probe_receipt` looks for it under the
*dispatcher's* (`Verified`). `busy` holds the stages with kernel activity since
the snapshot that is the next baseline, which is the final one of the previous
receipt: probes overlap, so that activity between them counts. `moved` holds the
stages with an output receipt since the baseline of the probe under way.

Clock values are ages that stop at the largest one a comparison can see. `Tick`
may fall between a clock reading and its use at most `Delay` times. `silence`
and `sinceOutput` are history: the age of the last kernel activity and of the
last receipt of each provider.

Cancellation is a handshake of two sides: `_cancel_runner` signals a task
process the runner knows of and waits for it (`Stop`, `Stopped`), and returns at
once if there is none yet; the stage thread looks at the event once more between
starting the process and sending it the request (`SpawnProcess`,
`SendRequest`). The process's own handshake with its provider (flag, start,
register, flag again) is one step, `StartProvider`, guarded by the flag: each
interleaving of it ends with the provider terminated by one side or the other.

Left out: the soft-runtime warning, errors of the store inside the loop, a lease
lost during a stage, a supervisor that has to be killed, and everything about
the contents of receipts.

### CanaryGate

`disk` is one record of everything that survives: the gate file of each subject
(`gate`), its task queue entries, the leases, the index of preclaim failures and
whether the telemetry file still agrees with the gate (`current`). An operation
of `DispatchStateStore` is a sequence of disks, one per write it makes
(`Rewritten`, `Finish`, `Reconcile`, ...): either all of it happens, or a crash
leaves one of the intermediate disks (`Torn`). Around the disk there are the
worker threads (`thread`), the loop of `preprocess_dispatcher.py` per subject
(`daemon[s].at` is the point of `_scan_and_submit` it has reached, so a thread
or an operator may act between its reading of the gate and its use) and the
operator's status-then-resume command (`cli`).

`Readable` is `_read_canary_state_locked`: the checks every operation begins
with. A gate that fails them can be neither used nor repaired by any command, so
it is the notion most properties turn on. The gate's task claims are the
`claimed` entries of the queue; `selected` is the task of `canary_in_flight`;
`pressed` the back-pressure mark; `notice` how the state stands to the last
preclaim failure it names. A state that carries the acknowledgement of an earlier
failure beside a receipt it has not read makes every reconciliation raise
(`StaleAck`, 5082-5090). `torn` and `reopened` are history.

`FirstTaskGate` is what the gate promises, and `ImplementsFirstTaskGate` shows
that every operation, crash and late finish is one of its steps or a stutter.
The lease record is reduced to the five states the gate looks at: the fences are
`LeaseStore`'s business.

Left out: the drain file is always present; staged recovery and the special
case of a preserved canonical English failure; quick-flush supersession; queue
projections beyond status, activation and membership. Units are numbered in the
order they were recorded, which is the order selection uses. The daemon keeps
the handles of a pass that an exception ends, where the code loses them.

### ReleaseSwitch

`link`, `plist` and `profile` are the installation; `enabled`, `proc`, `stopping`
what launchd knows (`bootout` only asks a process to go); `gate`, `telemetry` and
`task` what the daemons of the subjects keep; `log` the prepare and postcommit
receipts, one record per transaction. `pc` is the call the script makes next:
activation (`Activate`) and the handler of its `try` block (`Rollback`) are
chains of steps, one per call that can fail or be observed, with `at` the
element of the loop over the topology and `tx` the local variables. A step
fails because its guard refuses what it finds, or, at most `Faults` times, for no
reason; the script may die anywhere, and the machine restart.

Left out: the third subject, the drain file (always present), the pause, resume
and resume-canary commands, the monolith topology, superseded recovery
descriptors, and the side transactions (English repair, cs408 retirement, batch
recovery) that the command line cannot reach. External profiles are one value,
`mixed` when half of them are copied. `owner` in a log entry is history.

### PackageLifecycle

A capture has one job record (`job`) and one pointer to its published package
(`latest`), whatever its content is at the time. Each content is a revision and a
unit of its own for the dispatcher, so its lease guards it only against older
processes of the same revision; between two revisions there is nothing but
what `_eligible` and `_assert_current_candidate_generation` read. `source` is the
revision the capture has now, `lease[r]` the unit's lease and completion, and
`authority` the dispatcher's latest completion of the capture. `child[r][f]` is the
task process of a lease: `pc` is the point of `_process` it is at and `mem` the job
it holds in memory and closes the record with. A package is named by the lease
it was made under, since publication ids are hashes.

Every write of the task process goes through `_DispatchFencedWriteGuard`
(`Fenced`): it happens under the dispatcher's lock, and only for the holder of
the lease. Reads do not, so each read and each write is a step of its own; the
checks between a read and the next write are part of the read. `Handle` is the
`except` of `_process`, `Close` the last write of the record, and what it closes
with is what `run_request` reports (`Ending`). The consumer (`consumer`) reads the
record, the pointer and the authority one after the other, writes its offer, and
then reads the record again and writes it back, under a lock of its own;
`adopter` is the offer that `record_adoption` has found in order and has not yet
written the receipt of. `trampled` is history: some record was replaced that its
writer had not seen.

`AuthorityRequired` says whether the configuration asks the dispatcher for the
authority of a package; without it, or without a configured release, the consumer
takes the record's word (32651-32655).

The dispatcher is reduced to its leases: claim, retry wait, the one recovery,
publication, and its death, after which its processes go on until a later lease
cuts them off. A process that meets a newer lease, or returns after that death, is
gone, since nobody waits for it.

Left out: math and English (no check of currency, or another one), observations
without a question, content members, `run-once --resume-critical`, the scans
that mark an interrupted job for manual recovery (it is as ineligible before the
mark as after it), and the limits on attempts and usage, which make a closed job
eligible or not. A revision is new evidence: the rule for a package of the same
evidence under another fingerprint (28276) is not reached.

### SolWriter

`active`, `next`, `entry` and `counted` are the one global file: the writer
lease, the next fencing token, the queue and the formal write counts. `writer[s]`
is the subject's writer file (handoff status, the batch it speaks of, the
generation fence `blocked`, the commit receipt), `luna[s]` its current batch,
`lease[s]` the batch's one task, `cont[b]` the continuation published when a
capture of `b` is in conflict. `formal[b]` are the captures whose formal records
the subject's adapter has written; nothing in the code reads it. Sol batches are
numbered in the order of their authorization times, which is the order of the
queue; a nightly batch has the name of the Luna batch it admits (`NameFree`).

An operation holds the locks it needs from its first read to its last write, and
is one action. It replaces two files though, and `ThenWriter` is the second: the
process may die before it (`Dies`, at most `Crashes` times). `run[b]` is the process
that works on a batch: the nightly command goes from `authorize` to `apply` on
its own, a resumed one begins with the answer to a conflict, and one that is
`manual` is the operator with a control command for each step. The adapter is
external: it writes everything it is asked for, everything but one capture, or any
part before it fails. `Abandon` is the operator's failed review (`sol-review`), the
only way to end the lease of a process that died. The code does not ask whether it
did: the lease of a process that still writes may be ended too. That process
(`Evicted`) writes on, as its adapter does not look at the lease, and its next call of
the store is refused; if it is its apply receipt, the refusal stops whatever batch of
the subject is active by then (`Refused`, `Stops`). A receipt given by hand may say
that the writer failed (`Finish`, second branch).

A subject's batch is a file and a pointer to it (`WritesBatch`): a process that dies
between the two leaves a batch that cannot be read any more (`torn`), and the
subject's Luna work ends there.

`Legacy` subjects start with a ready batch the v1 release left (Luna batch 0): the
acknowledgement that lifts a fence validates a v1 commit, and no other
(`Acknowledge`). `Rollover` also writes a pointer after the writer file; run again
it finishes from its sealed intent, so it is one step. Its guard `night = 0` is not in
`rollover_background_luna_batch`: its one caller, the daemon, has no nightly
batches. The failed review is published before it is filed; a publication that raises
leaves the lease held, like a death (`Die`).

Left out: seals, digests and the checks of documents; the adoption of another
authority generation, the migration of v1 batches and the retirement of
subjects; quality records of single tasks (a batch has one task, whose outcome is
the batch's); claim receipts of refusals; an I/O error between two files in a
process that lives on; the English legacy recuration, whose commands are revoked.

## Runs

| Run | Shows | Bounds |
|---|---|---|
| `lease_store` | one automatic recovery in the life of a unit, three action properties (takeovers, regressions, drains) and the refinement of `FencedLedger` | 1 unit, 1 capture, 1 allowlist, 2 owners (symmetric), TTL 2, lock delay 1, clock 0..2, fences up to 3 |
| `dispatcher` | results, claims, drain, checkpoint reuse, staged runner, no I/O errors; drain terminates | 1 unit, TTL 1, clock 0..1, fences up to 3 |
| `dispatcher_opaque` | one owner of the ending with I/O errors, torn publications and an opaque runner; the emergency stop ends every unit | same |
| `dispatcher_drain_io` | violation: a worker killed by OSError blocks drain | same, I/O errors |
| `dispatcher_sealed` | violation: a publication after "sealed" | same |
| `stage_monitor` | no model process outlives a stop, stalls are justified; a hung analysis is found out, a cancellation ends the attempt | stall timeout 3, probe interval 2, 2 probes, delay 1 |
| `stage_monitor_review` | violation: a hung review is never found out | same |
| `canary_gate` | type; slots, queue entries and running tasks agree and are owned; a failure needs an operator, the four ways a gate becomes unreadable; every result gives its slot back; the refinement of `FirstTaskGate` | 1 subject, 3 units, limit 2, 1 activation, 1 fault |
| `release_switch` | type; one release serves, receipts are true, an open transaction freezes the installation, a task keeps its gate | 2 releases (symmetric), 2 subjects, 2 activations, 2 faults |
| `package_lifecycle` | offers are proven, a completed unit stays consumable, a resumed generation finds its checkpoint; publications and adoptions go forward | 2 revisions, 3 leases in all, 1 death of the dispatcher |
| `sol_writer` | one writer under the newest token, the head of the queue can begin, committed means written whole and counted but for one capture at most; writes happen behind the fence, which outlasts every pause; every claim is released; the refinement of `WriterQueue` | 2 subjects (1 legacy), 2 Sol batches, 2 captures, 2 Luna batches (the legacy subject: its v1 batch only), conflicts answered up to token 3, 1 death |
| `sol_writer_conflict` | violation: a conflict can no longer be answered | 2 subjects, 2 Sol batches, no death |

A type invariant that TLAPS proves for every instance (`LeaseStore`, `StageMonitor`,
`PackageLifecycle`, `SolWriter`) is not checked again in a run, nor are the proved
invariants `FencesUnique`, `CompletedIsDurable`, `ResultIsGranted`,
`ResumeFollowsAnalysis` and `LunaNeverFenced`.

Why the bounds are enough to be interesting: units share no state in the store
except the drain file and the clock, so one unit exercises every interaction;
three fences allow first claim, recovery or takeover, and another takeover, with
a holder of each still around; readings from -1 (a caller that waited since before the
start) to 2 let a lease expire while a caller still waits for the lock, twice in a
row and past the operator's stricter comparison. What units of one capture do to its
pointer is `CompletedIsDurable` and `ResultIsGranted`, proved for any number of both. In the dispatcher, `Submit` leaves one
generation below `MaxFence` for the recovery, so the bound never disables a
step that liveness needs; two units at once are beyond a five-minute run, and
what they share (the condition, the draining flag, the list of the emergency
stop) is iterated by the code unit by unit. `CHECK_DEADLOCK FALSE`: the
systems may stop, the store when the clock bound is reached and owners are dead,
the dispatcher after drain, the attempt when it has its outcome, a gate when it
cannot be read, the release manager when its transactions are used up, a capture
when its revisions and leases are.
In `StageMonitor` the stall timeout is longer than the probe interval, as in
production, and a delay of one tick lets output arrive between a clock reading
and the probe that rests on it; the theorems cover every other choice.
Subjects share nothing but the telemetry, which the recount of one rewrites for all,
so `CanaryGate` runs with one, and its theorems cover any number; three
tasks are a first task, a second that fills the limit and a third that meets
back pressure. In `ReleaseSwitch` two subjects give a strict prefix of armed
gates; the second fault falls into the handler of the first. In
`PackageLifecycle` two revisions are an older and a newer content; three leases
are a process, its successor (by retry, recovery or takeover) and the process of
the other revision, or a chain of three of one; with the dispatcher's death the
process of the lease before is still there to write. In `SolWriter` two subjects
compete for the writer and two batches of one subject for its writer file; two
captures are one in conflict and one that is not; a third token lets a resumed
batch be answered, fail and be answered again. `CHECK_DEADLOCK FALSE` there too:
a torn authorization at the head of the queue stops everything.

Deep properties worth knowing: `TakeoverOnlyAfterSilence` is stated with the
lock delay, because that is what the code gives: with a clock value read before
the wait, a lease renewed meanwhile can be taken over after less than the TTL.
`StallIsJustified` has the same shape: silence is measured up to the delay
between a reading and its use, and it needs the overlapping baselines, since a
probe that took a snapshot of its own would miss what happened between probes
(that is its mutant). It is about the provider of the dispatcher's stage; for a
review run inside the analysis no stall is declared at all (finding 3).
`ClaimIsTended` says what is left of "a claim has a thread": an error between the
claim and the registration, a publication refused with the lease still held or a lost
race leave a claim that nobody renews, and then the submitter or the handle was told.
`DrainIsKept` is the drain's promise with its three exceptions, each tied to the state
that justifies it; retry waits and takeovers are none of them.
`FailureNeedsOperator` holds through the case in which a failure is recorded after an
acknowledged one and cut off before its commit: the gate then stays as it was, open or
shut, but every pass that would admit a task raises first (finding below).
`CountsAllButOne` is as much as the receipts give: see the observation on failed
adapters below. Its lower bound needs the whole history of a batch: that the
resumed runs that failed wrote nothing but the one capture they were asked for.
`GateStaysReadable` and `SlotsAreOwned` state what is left of the gate's promise
once its known holes are named: the four ways a gate is made unreadable without
a crash are exceptions of the property, so a fifth would be found. Each was first
stated too strongly, which one subject and one fault cannot show and the proof did.
A gate torn before may be torn again (`faults` tells the second crash, `torn` does
not). And a slot is in somebody's hands only while the gates of *all* subjects can be
read: the recount that ends every operation raises on another subject's gate, a task
that could not be submitted then keeps the slot it was given, and nobody holds it
(finding below). With one subject the two premises are the same.
`CompletedIsConsumable` and `ResumeFindsCheckpoint` are of that kind too: the
consumer's unguarded write (`trampled`) breaks either, and a process that dies after
it closed the job as flagged leaves a successor that cannot resume; these are
named, and nothing else may do it. So is `PublicationsMoveForward`: two leases are no
protection for it, and what orders the revisions is that each process asks whether
its content is still the capture's, the second time just before it writes. The
proof of it showed that the check is worth as much as the record is: a process of an
older revision whose record was trampled can be past its second check while the
newer revision publishes, and then publishes over it (three revisions and three
leases are needed), so the property has that premise. Its mutant takes the record's
word instead of the capture's.
`HeadCanBegin` and `FenceOutlastsPause` are about the one file that everybody
writes. They have the premise that no process died, because a pair of files once
torn stays so: no operation repairs it. What must hold in spite of a death
(`OneNewestWriter`, `LunaNeverFenced`, `WritesBehindFence` for the process that holds
the lease, `CommittedIsWritten`, the counts of a commit, the refinement) has no such
premise. `OneNewestWriter` is as much as the code gives: that nobody executes without
the lease is not true of it, since a review filed by hand asks no process.

### Fairness

`DispatcherFairness` is weak fairness of threads that wait for nobody: a worker
outside a model stage, the submitter inside the condition, the emergency stop,
and the waiter in drain. A model stage is *not* assumed to end: an unverified
provider probe disables the stall timeout (`_invoke_stage`, 19353), so nothing
bounds it; it ends once its own context is cancelled, because the stage loop
polls the event every 50 ms. `DrainTerminates` therefore has
`StagesEnd` as a premise, `EmergencyEnds` has not.

`MonitorFairness` is weak fairness of the supervision loop, of the clock, and of
the exits of a task process that was told to stop: `_terminate_process_group`
and `cancel` go from SIGTERM to SIGKILL. A provider left alone may hang for ever
and owes nothing. Any probe may break (`BreakProbe`). One that cannot be verified
starts the count again, deliberately (19353), so with probes that break for ever
a hung stage may stay: `AnalysisHangEnds` and `ReviewHangEnds` have `ProbesWork`,
that sooner or later they can be carried out, as a premise.

`FairSolSpec` is weak fairness of a process that has begun (`Work`): the nightly
command goes on until it returns, and its adapter ends, which is an assumption, as
the adapter is not of this repository and nothing here bounds it. Neither the
daemon nor any command of the operator is owed.

`FairCanarySpec` is weak fairness of a worker thread whose task has ended, and
of nothing else: not of the daemon, the tasks or the operator. `ReleaseSwitch`
and `PackageLifecycle` have no fairness: a script or a process may die anywhere,
and their properties are safety.

### Findings

Four violation runs show where the code and its own documentation disagree; the
quoted lines are in `PROJECT.json`.

1. An OSError in the retry or recovery path of `_execute` is not caught there
   (submit's copy of that path catches it): thread gone, handle active, drain
   waits for ever.
2. `emergency_cancel` reads the handle's context before it owns the ending; a
   recovery in between makes its publication stale, yet it pops the unit and
   reports the fence sealed, and the recovered generation publishes.
3. The production runner runs the review inside the dispatcher's analysis
   stage. A probe of the review's provider is sealed under the review and looked
   for under the analysis, so it is never verified and the count of failed
   probes starts again: a review that hangs is not found out.
4. A resumed run that fails releases the writer and then restores the anchor of
   the continuation; if another subject claims the writer in between, the restore is
   refused and so is every later answer.

Met while modelling and in the model, without a run of their own:

* a preclaim failure recorded while the first task is in flight closes the gate
  but leaves the selection in it, which the reader refuses (2594): the call answers
  that an explicit resume is required (5017), and no resume can read the gate (the
  first exception of `GateStaysReadable`);
* when arming a gate fails, the rollback asks the untouched subjects for their
  status against telemetry that is already the target's, or against another
  release's gate; both raise, so the handler gives up and restarts nothing
  (`ProbeTarget`, `release_manager.py` 12047), although the handler speaks of a
  prefix of the subjects being armed (12072);
* the acknowledgement after a commit, which lifts the subject's fence, validates
  the commit receipt as v1 (`subject_sol_contract.py` 14298); batches of the present
  release commit with v2, so their subject's Luna work stays fenced off, against
  `shared-processing-contract.md` 63;
* a batch whose review failed without a continuation is reported as retryable
  (`nightly_sol_alignment.py` 526, 826), but stays `safe_paused`: no operation queues
  it again;
* a failed or partial result of an adapter may have written captures, which the
  failed review counts as none (`nightly_sol_alignment.py` 817) and a later success
  does not count again, against `NIGHTLY_SOL_ALIGNMENT_EXECUTION_REPORT.md` 112-113,
  "cumulative write count exactly once". A committed batch is so counted one capture
  short, and never more than one: that is `CountsAllButOne`, whose bound a run that
  asks for the exact count reaches at once;
* a failed review filed by hand is accepted while the nightly's process still writes
  (`subject_sol_contract.py` 13779-13819), and the next batch may begin beside it; the
  late apply receipt stops whatever batch of its subject is active then (13889);
* a death between a batch file and its pointer (4290, 4302) leaves a batch that
  every later read refuses, and the subject's Luna work stops;
* a recovery builds a new context with a clear cancel event, so a cancellation of
  the crashed generation is forgotten (`concurrent_dispatch.py` 18987);
* the resume flag is derived from `analysis_completed` of the current fence only,
  so a generation that resumed and failed again makes the next one of an opaque
  runner analyse from the start (10707);
* the transition to the review is published with zero counters behind the
  review's own receipts, a regression that fails a unit whose two passes are done
  (19205);
* back pressure set from an old reading, a failure that reaches a deactivated
  gate and a success recorded without evidence each leave a gate that cannot be
  read (the exceptions of `GateStaysReadable`); a failure overtaken by a later
  terminal makes a resume fail again; one subject's unreadable gate stops the
  status recount of all subjects (2852-3195), so that an admission or a recorded
  failure of another subject raises half-way and leaves a slot nobody will give back,
  although `README.technical.md` 335-338 calls gates subject-local;
* a failure recorded after an acknowledged one and cut off before its commit makes
  every reconciliation raise `production_canary_preclaim_repair_ack_invalid`
  (5082-5090): the state is not closed, the status command and so the resume raise
  too, and only another activation helps, although `reconcile_...` is there to
  "recover receipt-first crash windows before any new claim";
* `publish_terminal` refuses some results with the lease still the worker's (14708,
  14758, 15057-15073), and `register_content_members` may raise after the claim
  (18392): the claim is left without a thread until its TTL (`ClaimIsTended`);
* a canary and a controlled replay claim while their subject drains, by design; a
  replay's marker is used up even when nothing is claimed then (10461);
* the latest pointer of a capture is moved by whichever of its units publishes last
  (15095-15108), a completed unit need not be the one it names;
* a pending task whose preclaim was preserved cannot be claimed afterwards;
* `resolve-pre-mutation` looks at the link, the process ids, the plists and the
  profiles, not at what was disabled or told to exit, although
  `release_manager.py` 16023 speaks of an "exact no-mutation closure";
* after a rolled-back activation the gates are the old ones and the telemetry the
  target's, so the restarted old daemons cannot read their gates; after a plain
  rollback from a canary release every later canary activation is refused;
  services are restarted even if the restore of link or plist failed (reported as
  incomplete); a task that ends between the probe and the bootout lacks the
  receipt the rollback looks for;
* `publish_terminal` replaces the capture's latest authority whatever is there, so a
  late failed unit of an older revision hides the newer one's success from the
  consumer; a process of an older revision that was claimed in time also writes
  its `processing` over the newer record, since `_process` asks whether it is
  current only after the model run (English asks before, 30461);
* the consumer writes the job record back without looking (33823): what a task
  process wrote in between is lost;
* a rejected review closes the job as `succeeded`, which is not a status to resume
  from: if the process then dies, its recovery is refused with
  `infrastructure_resume_checkpoint_invalid`;
* a process that dies between closing the job and returning its result, with the
  recovery used up or under a canary gate, leaves a published package of a failed
  unit, which is neither consumable nor done again;
* a death between the queue entry and the writer file of an authorization blocks
  the head of the queue, and with it all subjects: `authorize_batch` is idempotent
  on the entry and repairs nothing;
* the second nightly batch of a subject is refused as a conflict with the first
  (`subject_sol_contract.py` 11695), since nothing retires a nightly batch that
  committed with v2;
* a rollover is refused for a subject that has ever counted a formal write (11033);
* an archived batch can be authorized again under a new name after it was
  committed;
* `_active_luna_count` looks for `waiting_retry`, the store writes `retry_wait`;
* a job closed as failed for good (usage limit, attempts) leaves its unit in
  `retry_wait`, and after the dispatcher's death an interrupted job waits for an
  operator.

## Proofs

`LeaseStoreProofs` proves for all units, owners, subjects, outcomes, TTLs,
delays and bounds (assumption `StoreAssumption`), by the inductive invariant
`StoreInv`:

* every granted lease has a fence between 1 and the lease file's, granted fences
  have one owner, and the holder named by a claimed file was granted;
* completion and checkpoint pointers name fences not above the lease's, and a
  result was granted; a completed lease agrees with its completion; a latest pointer
  names the completion of some unit of its capture, and there is one for each capture
  of a completed unit (`LatestIsResult`); checkpoint events are of granted leases, and
  the resume flag follows one of the same unit, of a fence not above the lease's;
* the recovery count of the file equals the history counter and is at most one;
* heartbeat and history clock differ by at most the lock delay.

The invariants the run checks are consequences of it; the three action
properties and the refinement of `FencedLedger` follow from the same invariant,
one step per action. `FencesUnique` alone is not inductive: a claim grants
`fence + 1`, which is new only because all granted fences are at most the
file's.

`StageMonitorProofs` proves for all timers, delays and numbers of probes
(`MonitorAssumption`), by the inductive invariant `MonitorInv`:

* `MonitorTypeOK`; the count of failed probes never passes the required number;
* `StallIsJustified`: a stall needs two failed probes of the same pass, and
  `TimerInv` carries the evidence from one to the next. While failed probes are
  counted and the provider is not in `busy`, it has been silent at least as long
  as the last probe is old, less the delay; when the next probe begins that is
  the probe interval. The receipts say the same of the stall timeout. The
  invariant is conditional on `busy` because activity invalidates the timers
  before the loop learns of it, and on `probed` because the first probe of a
  provider forgets what was before it;
* `NoProviderOutlivesStop`: providers live only in a running task process, the
  cancel event is set before a stop begins, and a process that has not got its
  request by then never gets one.

`PackageLifecycleProofs` proves for any number of revisions, leases and deaths of
the dispatcher (`PackageAssumption`):

* `OfferIsProven`, where authority is required, by `OfferInv`. The consumer asks the latest authority once and
  offers later, when another completion may have replaced it. What it learnt does
  not age, since no step touches the lease of a completed unit again (`LeaseStep`);
  `OfferInv` carries it from the check to the offer, and from then on;
* `PackageTypeOK`, by `TypeInv`: from its first write on, a task process holds a
  job of its own revision, although it takes it from the shared record;
* `CompletedIsConsumable`, `ResumeFindsCheckpoint` and `PublicationsMoveForward`, by
  `LifeInv`. Its first part (`Steady`) holds always: what a process holds in memory fits
  its program counter, the pointer names a lease that was granted and was pointed to by
  it, and no process belongs to content the capture has not had. The second (`Tidy`)
  holds as long as no write was lost: the process that holds a lease and has begun
  finds the record its own and interrupted; it knows of a checkpoint that the record
  has; the pointer is not ahead of a revision found current; a published unit whose
  record was not taken over is consumable; adoptions are behind the pointer. None of
  the three is inductive by itself: that a publication replaces an older one needs
  the record, and the record is protected only because it is found interrupted by
  everyone else who looks.

`DispatcherProofs` proves for all units, owners and bounds (`DispatcherAssumption`, over
`StoreAssumption`), by `Inv == StoreInv /\ ThreadInv`:

* `DispatcherSpec => Spec`: each step of a thread of the dispatcher, and of the rival,
  is a step of `LeaseStore` or leaves its variables alone, so every theorem of
  `LeaseStoreProofs` holds of the composition, the refinement of `FencedLedger` first
  of all (`DispatcherKeepsLedger`). `Unnoticed` is what the threads rely on
  when others use the store: leases stay granted, completions stay, and no unit becomes
  this dispatcher's behind its back;
* `DispatcherTypeOK` and `EndingHasOneOwner`, by `EndingsAreOwned`: a unit is in
  `finishing` exactly while its worker or the emergency stop ends it, and the stop
  only takes handles that are not in it;
* `ResultMatchesCompletion`, by `ResultsAreTrue`: between the publication, its
  announcement and the handle's result the worker carries the result in local
  variables, with the lock released twice; they stay true because a completion stays;
* `ClaimIsTended`, by `ClaimsHaveWorkers`, with or without I/O errors: a worker uses
  its newest generation (`WorkersTend`); once it or the emergency stop (`StopTends`)
  has published, the claim is over or the refusal is what will be reported; and a
  claim whose handle is gone was reported (`HandlesReport`). A thread that an OSError
  killed (finding 1) is the one that neither works nor reports;
* `DrainedIsQuiet`, by `DrainWaitsForAll`: once the submission is closed no worker
  starts, and every worker that did is in the list drain waits for, until an
  emergency stop takes it out;
* `AnalysisRunsOnce`, for runners that look for a checkpoint (`~ Opaque`; an opaque runner
  analyses again, see the smaller observations): once a checkpoint pointer is durable
  every later generation is told to resume or finds it.

`SolWriterProofs` proves for any subjects, Sol batches, captures and bounds, any
process dying between any two writes (`SolAssumption`), by the inductive invariant
`TypeInv /\ QueueInv /\ FenceInv`:

* `OneNewestWriter` and the refinement of `WriterQueue`, by `QueueInv`: a free
  writer is `Free`; a held one has the newest token and its entry is active,
  reviewed or paused; a process at work holds it or was evicted, and then its batch
  is set aside and its token older than any that will be granted; no other entry is
  active or reviewed. So a late process never meets a newer grant of its own
  batch: `Holds` refuses it. The refinement has one step per action, torn or whole,
  since the abstract queue sees only the global file;
* `LunaNeverFenced` and the first half of `WritesBehindFence`, by `FenceInv`: who
  executes and holds the lease has its fence up. The claim of a Luna task and the
  claim of the writer exclude each other because each looks at the other's mark under
  the same lock. For an evicted process it takes `FilesInv` (below): its batch is set
  aside, and no step lowers the fence of a batch set aside while no process died;
* `SolTypeOK`, by `TypeInv`: a continuation names a capture, and only what has one
  is resumed;

and by `FilesInv`, `PartInv` and `LowInv`, which rest on the first two:

* `HeadCanBegin` and `FenceOutlastsPause`, by `FilesInv`. While no process died, the
  writer file of a subject names the one batch of it that is neither unknown nor
  committed, in the word that belongs to its entry (`Fits`), and a subject whose Luna
  batch is open awaits that batch. So an entry at the head finds its file queued
  and no Luna task claimed, and a rollover or an acknowledgement, the only two
  operations that lower a fence, find the file of a batch under way taken;
* `CommittedIsWritten` and `WrittenWhenCounted`, the part of `CountsAllButOne` that says
  that nothing is counted twice, by `PartInv`, whichever processes died: a run that is
  to be reviewed or applied wrote all captures but the one it was stopped at, and what
  it is about to count is not counted yet; a batch that waits for an answer lacks the
  capture it asks about and no other;
* `FilesCountTogether`: every step adds the same number to the global count and to the
  subject's, or to the global one alone when the process dies between them;
* that a committed batch is counted but for one capture at most, by `LowInv`: a run
  that begins finds nothing written, or all but one capture counted (`RunInv`). For a
  batch is begun again only after a conflict, whose receipt counted all but the
  capture asked about; and an answer is accepted only if the commit named in the
  writer file is that receipt's, which is why `CommitInv` follows what that file may
  name, over restores, rollovers and other batches;
* `CountsAllButOne` whole, by `CountInv`: while no process died, a subject's writer file
  counts the sum over the subject's batches, which are finitely many and count nothing
  before they are authorized. That a sum grows by what one of its terms does needs
  `TotalTakesOut`: the fold takes elements out in an order nobody knows, and the sum
  does not depend on it. An induction theorem with the statement as an operator is
  beyond the provers; the lemmas take the statement as the set of those for which it
  holds (`SetInduction`), and of a least one outside that set, which there is because
  the strict subsets of a finite set are well founded;
* `CommitIsFinal`, from the refinement: the abstract queue has no move for a batch that
  is done, so nothing takes a committed batch up again or pauses it.

`CanaryGateProofs` proves for any subjects, limit, activations and faults and any finite
set of tasks (`GateAssumption`), by the inductive invariant `CanaryBase`:

* `CanaryTypeOK`; and `DiskInv`, which every disk an operation writes satisfies, the
  half-written ones included, so that a crash needs no argument of its own. An
  operation is taken apart into its writes once, in lemmas about `Reconcile`,
  `FailPreclaim`, `Admit`, `Identify`, `Finish` and `Rewritten`, each of which says what
  it may do to one gate: leave slots and let it shut (`Mild`), take one slot and shut it
  (`LetsGo`), give one through an open gate (`Grants`), take one and stay open
  (`Proves`), open without slots (`Opened`). Nothing else happens to a gate (`Turns`),
  and to those of other subjects nothing at all (`Elsewhere`);
* `FailureNeedsOperator`: only `Grants` gives a slot, through an open gate, and an open
  gate without an unread receipt was opened by an operator since the last failure
  (`OpenedInv`). That the receipt was read is what the daemon's loop knows
  (`DaemonInv`): it reconciled at the beginning of the pass, and nobody records a
  failure in between but itself;
* `ImplementsFirstTaskGate`: the five ways are the steps of the abstract gate. The hard
  one is the reconciliation, which repeats a commit and would take a slot from under a
  running task if the latest receipt could name one; by `DiskInv` it does only if it is
  acknowledged or not yet known to the state;
* `SlotBound`, proved of the abstract gate's steps and true of the state file by the
  refinement: at most one task of a subject holds a slot until a task of it has
  succeeded, and at most `Limit` after that, also while the file cannot be read.

`CanaryGateSlotProofs` proves, over the same assumption:

* `GateStaysReadable`, operation by operation (`Reads`). Every operation first reads its
  gate and writes nothing if it cannot; what it writes is readable again, but for the
  exceptions the property names. The receipt of a failure, which is not undone if the
  commit after it raises, is written only if the reconciliation before it did
  not raise;
* `SlotsAreOwned`, by `SlotsInv`. It is not inductive: that a task given up while it was
  being submitted has no thread needs that a pass takes up tasks without one, and this
  that a pending task has none (`SlotInv`). The premise that every gate can be read
  carries back over a step because what cannot be read is never written again
  (`NoneRepaired`).

`ReleaseSwitchProofs` proves for any releases, subjects, activations and faults
(`OrderAssumption`: `Order` is a sequence without repetition, as
`RESUMABLE_SUBJECTS` is), by the inductive invariant `SwitchInv`, a statement about
each phase of the script:

* `SwitchTypeOK`; only the last prepare can be open, and it is while a script runs
  (`JournalInv`); which phases a canary and a plain deployment go through, and with
  which flags (`CourseInv`);
* `OneReleaseServes`, by `ServingInv`: a process that serves runs what `current`
  points to. So the link may move only when none serves, which is what the wait before
  the switch, the two bootouts of a rollback and the order of the handler
  amount to. It needs, phase by phase, which services have been told to exit already
  (`Done`), and that a rollback that noted no error has told all of them;
* `TaskKeepsItsGate`, by `TaskInv`: a task left behind by a killed daemon stays as the
  gates were read (`Calm`), since nothing serves between the reading and the end of the
  restoration, so putting back the old gate does not change the gate of a task; the
  gates the handler pauses are the target's own; it disarms only without tasks;
* `ReceiptIsTrue`, by `FilesInv` (what is installed, or put back if no error was noted)
  and `OwnerInv` (whose the gates are; after a first activation a gate that was armed
  stays behind, inactive). It is in the invariant because it speaks of the time after
  the script, when daemons go on and the machine may restart;
* `OpenFreezesInstallation`: by `JournalInv` no script runs beside an open
  transaction, and none begins.

Every step of the `try` block may raise. `RaiseStep` says once what the handler may
count on wherever it was raised, and the lemma of each step shows only that it
leaves that true; `CloseStep`, `HaltStep` and `DaemonStep` do the same for the
receipts, for a death or a restart, and for what the daemons do.

Every invariant and every action property of a passing run is a theorem. Only
model-checked are the six liveness properties (`LateResultReleasesSlot`,
`DrainTerminates`, `EmergencyEnds`, `LeaseIsReleased`, `AnalysisHangEnds`,
`CancelEnds`; fairness and ENABLED are outside TLAPS's reach) and the four violations.

## Plan

1. The English and math paths of `PackageLifecycle` (micro-batch eligibility, the
   operator's resume), over `LeaseStore` instead of its own leases;
   `LegacyWriter`: the journalled write.
2. `ContentMembers`: registrations over several units of one content, with a crash
   between the completion and the publications to the members.
3. `StageMonitor` as a refinement of the `StageFails`/`EndAnalysis` abstraction
   of `Dispatcher`, and its loop under errors of the store; composition of
   `CanaryGate` with the finish path of `Dispatcher`.
4. `TaskRunner`: coordinators of the task process (cancel before bind, probe
   requests), the launch protocol of a provider, the supervisor's exit receipts
   and its grace periods.
5. `SolWriter` with several tasks in a batch, over `LeaseStore`'s leases, and an I/O
   error between two files.
6. Proofs: the refinement of item 3.

## Not modelled

Document validation, projections, dashboard, campaigns, one-shot tools (no shared
state), prompts and schemas: they read, render or check one document at a time,
and what could go wrong in them is the content of that document. Most of the lines of
the repository are of this kind: more than half of `subject_sol_contract.py` and of
`preprocessor_core.py` decide whether one JSON document is acceptable, to the models
above a nondeterministic outcome of a step.
