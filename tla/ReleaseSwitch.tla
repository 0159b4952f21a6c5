--------------------------- MODULE ReleaseSwitch ---------------------------
(***************************************************************************)
(* The deployment transaction of scripts/release_manager.py: activation of *)
(* a release (with canary gates, or plain: dispatchers paused), the        *)
(* rollback of an activation that failed half-way, the receipts that       *)
(* record both, and the launch agents, daemons and canary gates they act   *)
(* on.  Every command of the script to launchctl, to a dispatcher's CLI    *)
(* or to the file system is one step and may fail; the script may die      *)
(* between any two; the machine may restart.                               *)
(***************************************************************************)
EXTENDS Naturals, FiniteSets, Sequences, SequencesExt

CONSTANTS
  Releases,     \* concurrent_v2 releases
  Order,        \* RESUMABLE_SUBJECTS, as the script walks them
  Dashboard,    \* the fourth launch agent
  None,
  Activations,  \* bound: prepare receipts
  Faults        \* bound: failing calls, crashes and reboots

Subjects == ToSet(Order)
Services == Subjects \cup {Dashboard}
Topology == Append(Order, Dashboard)

ASSUME OrderAssumption ==
  /\ Order \in Seq(ToSet(Order))
  /\ IsInjective(Order) /\ Len(Order) > 0 /\ Dashboard \notin Subjects
  /\ None \notin Releases
  /\ Activations \in Nat /\ Faults \in Nat

VARIABLES
  link,       \* the release `current` points to
  plist,      \* whose rendered plist is installed, per service
  enabled,    \* the services launchd may start
  proc,       \* the release each service's process was launched from
  stopping,   \* services whose process was told to exit and is still there
  moved,      \* some process ended or started since the last prepare
  profile,    \* whose external profiles are installed
  gate,       \* the canary gate file of each subject
  telemetry,  \* the release the shared concurrency telemetry is bound to
  task,       \* per subject: no task, one claimed, one calling the model
  log,        \* the deployment receipts: a record per prepare
  pc,         \* what the script does next; "idle": no script runs
  at,         \* the element of the topology it has reached
  tx,         \* the script's local variables
  faults

services == <<enabled, proc, stopping, moved>>
files == <<link, plist, profile>>
canary == <<gate, telemetry, task>>
script == <<log, pc, at, tx, faults>>
vars == <<services, files, canary, script>>

Maybe == Releases \cup {None}
Mixed == "mixed"
Gates == [release : Maybe,
          state : {"absent", "armed", "failed", "cancelled", "paused",
                   "inactive"}]
NoGate == [release |-> None, state |-> "absent"]
NoGates == [s \in Subjects |-> NoGate]
Flags == {"snapshot", "tried", "proofs", "running", "services", "gates",
          "errors"}
NoTx == [flags |-> {}, snapshot |-> NoGates, fence |-> {}, busy |-> {},
         ready |-> {}]
-----------------------------------------------------------------------------
(* What the calls of the script can see and do.                            *)

Deployment == log[Len(log)]
Target == Deployment.target
Previous == Deployment.previous

\* _assert_no_unresolved_deployment_transaction: a prepare is closed by a
\* postcommit that committed or rolled back, or by a recovery marker.
IsOpen(d) == d.status \notin {"committed", "rolled_back"} /\ ~ d.marker
Unresolved == \E i \in DOMAIN log : IsOpen(log[i])

Live(s) == proc[s] # None /\ s \notin stopping

\* A status reads the gate and, when there is one, the shared telemetry,
\* which must be bound to the gate's release.
Readable(s) == gate[s].state = "absent" \/ telemetry = gate[s].release

\* A gate is written first; then the telemetry is recomputed, which refuses
\* when another subject's gate is live under another release.
Agreeable(s, r) ==
  \A o \in Subjects \ {s} : \/ gate[o].release \in {r, None}
                            \/ gate[o].state = "inactive"
WriteGate(s, r, state) ==
  /\ gate' = [gate EXCEPT ![s] = [release |-> r, state |-> state]]
  /\ telemetry' = IF Agreeable(s, r) THEN r ELSE telemetry
  /\ task' = task

\* A call that goes wrong though nothing is wrong with what it is given.
Fault == faults < Faults /\ faults' = faults + 1
NoFault == faults' = faults
\* A call that was refused, or else that went wrong.
FaultUnless(refused) == IF refused THEN NoFault ELSE Fault

Goto(p) == pc' = p /\ at' = 1
\* A loop over a sequence q of services goes on, or ends at p.
Continue(q, p) == IF at < Len(q) THEN at' = at + 1 /\ pc' = pc ELSE Goto(p)

With(flag) == [tx EXCEPT !.flags = @ \cup {flag}]
Has(flag) == flag \in tx.flags

\* The handler of the try block.
Raise(t) ==
  /\ tx' = t
  /\ Goto(IF {"services", "gates"} \cap t.flags # {}
          THEN IF Deployment.canary THEN "probe" ELSE "disable"
          ELSE IF "running" \in t.flags THEN "restore plists"
                                        ELSE "stop target")

\* The script ends with a postcommit receipt.
Close(status) ==
  /\ log' = [log EXCEPT ![Len(log)].status = status,
                        ![Len(log)].proofs = Has("proofs")]
  /\ Goto("idle") /\ tx' = NoTx

\* The handler gives up with a postcommit that does not close the prepare.
Block == Close("blocked")

\* Mutant: a service without a process is waited for.
BootoutAlways(s) == /\ stopping' = stopping \cup {s}
                    /\ UNCHANGED <<proc, moved>>

\* launchctl bootout: a process is told to exit; no process is fine too.
Bootout(s) ==
  /\ stopping' = IF proc[s] = None THEN stopping ELSE stopping \cup {s}
  /\ UNCHANGED <<proc, moved>>

\* launchctl bootstrap: the job must not be loaded, and starts the code that
\* `current` points to at that moment.
Loadable(s) == proc[s] = None /\ plist[s] # None /\ link # None
Bootstrap(s) ==
  /\ Loadable(s)
  /\ proc' = [proc EXCEPT ![s] = link] /\ moved' = TRUE
  /\ UNCHANGED stopping
NoJobs == UNCHANGED <<proc, stopping, moved>>

Enable(s) == enabled' = enabled \cup {s}
Disable(s) == enabled' = enabled \ {s}

\* _run_service_activation for one service.
Started(s, paused) ==
  IF paused /\ s # Dashboard
  THEN Disable(s) /\ (Bootout(s) \/ NoJobs) /\ NoFault
  ELSE Enable(s) /\ Bootstrap(s) /\ NoFault
NotStarted(s, paused) ==
  IF paused /\ s # Dashboard THEN UNCHANGED services /\ Fault
  ELSE \/ UNCHANGED services /\ Fault
       \/ Enable(s) /\ NoJobs /\ IF Loadable(s) THEN Fault ELSE NoFault
       \/ Enable(s) /\ Bootstrap(s) /\ Fault
-----------------------------------------------------------------------------
(* The activation.                                                         *)

\* The prepare receipt, the backups that go with it, and, as a history, whose
\* the gates were.
Prepare(r, canaryRelease) ==
  [target |-> r, previous |-> link, canary |-> canaryRelease,
   status |-> "open", marker |-> FALSE, proofs |-> FALSE,
   plist |-> plist, profile |-> profile,
   owner |-> [s \in Subjects |-> gate[s].release]]

\* Mutant: receipts of earlier deployments are not read.
BeginAnyway(r, canaryRelease) ==
  /\ pc = "idle" /\ Len(log) < Activations
  /\ link # None => \A s \in Subjects : task[s] # "model"
  /\ log' = Append(log, Prepare(r, canaryRelease))
  /\ moved' = FALSE /\ tx' = NoTx /\ Goto("backup") /\ NoFault
  /\ UNCHANGED <<enabled, proc, stopping, files, canary>>

\* The activation lock keeps a second script out.  A release in service is
\* replaced only on a drain receipt, and while no model process runs.
Begin(r, canaryRelease) ==
  /\ pc = "idle" /\ ~ Unresolved /\ Len(log) < Activations
  /\ link # None => \A s \in Subjects : task[s] # "model"
  /\ log' = Append(log, Prepare(r, canaryRelease))
  /\ moved' = FALSE /\ tx' = NoTx /\ Goto("backup") /\ NoFault
  /\ UNCHANGED <<enabled, proc, stopping, files, canary>>

\* The backups come after the prepare receipt and before the try block.
Backup ==
  /\ pc = "backup"
  /\ \/ Goto(IF Previous = None THEN "profiles" ELSE "stop") /\ NoFault
     \/ Goto("idle") /\ Fault
  /\ UNCHANGED <<services, files, canary, log, tx>>

\* _run_service_deactivation: a dispatcher that will not be booted out is
\* left to the wait that follows.
StopPrevious ==
  /\ pc = "stop"
  /\ LET s == Topology[at] IN
     \/ Disable(s) /\ Bootout(s) /\ NoFault
        /\ Continue(Topology, "wait") /\ tx' = tx
     \/ UNCHANGED services /\ Fault /\ Raise(tx)
     \/ Disable(s) /\ NoJobs /\ Fault
        /\ IF s = Dashboard THEN Raise(tx)
           ELSE Continue(Topology, "wait") /\ tx' = tx
  /\ UNCHANGED <<files, canary, log>>

\* Mutant: the wait looks at the dashboard only.
WaitForDashboard ==
  /\ pc = "wait" /\ proc[Dashboard] = None
  /\ Goto(IF Deployment.canary THEN "retire" ELSE "profiles")
  /\ tx' = IF Deployment.canary
           THEN [With("snapshot") EXCEPT !.snapshot = gate] ELSE tx
  /\ UNCHANGED <<services, files, canary, log, faults>>

\* _wait_previous_processes_stopped, and then the gate files are read.
WaitPreviousStopped ==
  /\ pc = "wait"
  /\ \/ /\ \A s \in Services : proc[s] = None
        /\ Goto(IF Deployment.canary THEN "retire" ELSE "profiles")
        /\ tx' = IF Deployment.canary
                 THEN [With("snapshot") EXCEPT !.snapshot = gate] ELSE tx
     \/ \E s \in Services : proc[s] # None /\ Raise(tx)
  /\ UNCHANGED <<services, files, canary, log, faults>>

\* Mutant: a task left behind by a killed daemon is not looked for.
RefusesForeign(s) == gate[s].release # Previous

\* A gate of another release, or one with a task, is not deactivated.
RefusesRetirement(s) == gate[s].release # Previous \/ task[s] # "none"

\* _deactivate_previous_canary_states, one subject.
RetirePrevious ==
  /\ pc = "retire"
  /\ LET s == Order[at]
         g == gate[s]
         done == g.state = "absent"
                 \/ g = [release |-> Previous, state |-> "inactive"]
         refused == ~ done /\ RefusesRetirement(s)
         next == Continue(Order, "profiles")
                 /\ tx' = IF at = Len(Order) /\ tx.snapshot # NoGates
                          THEN With("proofs") ELSE tx
     IN \/ done /\ UNCHANGED canary /\ NoFault /\ next
        \/ ~ done /\ UNCHANGED canary /\ FaultUnless(refused) /\ Raise(tx)
        \/ /\ ~ done /\ ~ refused /\ WriteGate(s, Previous, "inactive")
           /\ \/ Agreeable(s, Previous) /\ NoFault /\ next
              \/ FaultUnless(~ Agreeable(s, Previous)) /\ Raise(tx)
  /\ UNCHANGED <<services, files, log>>

\* _apply_external_profiles: three replacements, and a failure leaves a mix.
ApplyExternalProfiles ==
  /\ pc = "profiles"
  /\ \/ /\ profile' = Target /\ NoFault /\ Goto("switch")
        /\ tx' = [tx EXCEPT !.flags = @ \cup {"tried", "proofs"}]
     \/ profile' \in {profile, Mixed} /\ Fault /\ Raise(With("tried"))
  /\ UNCHANGED <<services, link, plist, canary, log>>

SwitchLink ==
  /\ pc = "switch"
  /\ \/ link' = Target /\ NoFault /\ Goto("install") /\ tx' = tx
     \/ link' = link /\ Fault /\ Raise(tx)
  /\ UNCHANGED <<services, plist, profile, canary, log>>

InstallPlists ==
  /\ pc = "install"
  /\ \/ plist' = [plist EXCEPT ![Topology[at]] = Target] /\ NoFault
        /\ Continue(Topology, "bind") /\ tx' = tx
     \/ plist' = plist /\ Fault /\ Raise(tx)
  /\ UNCHANGED <<services, link, profile, canary, log>>

\* From here on the target counts as possibly running.
BindContext ==
  /\ pc = "bind"
  /\ \/ /\ NoFault /\ Goto(IF Deployment.canary THEN "arm" ELSE "start")
        /\ tx' = [tx EXCEPT !.flags = @ \cup {"running",
                    IF Deployment.canary THEN "gates" ELSE "services"}]
     \/ Fault /\ Raise(With("running"))
  /\ UNCHANGED <<services, files, canary, log>>

\* activate_production_canary through the apply verifier, one subject.
ArmGate ==
  /\ pc = "arm"
  /\ LET s == Order[at]
         g == gate[s]
         free == task[s] = "none" /\ g.state \in {"absent", "inactive"}
         next == Continue(Order, "start")
                 /\ tx' = IF at = Len(Order) THEN With("services") ELSE tx
     IN \/ UNCHANGED canary /\ FaultUnless(~ free) /\ Raise(tx)
        \/ /\ free /\ WriteGate(s, Target, "armed")
           /\ \/ Agreeable(s, Target) /\ NoFault /\ next
              \/ FaultUnless(~ Agreeable(s, Target)) /\ Raise(tx)
  /\ UNCHANGED <<services, files, log>>

StartTarget ==
  /\ pc = "start"
  /\ LET s == Topology[at]  paused == ~ Deployment.canary
     IN \/ Started(s, paused) /\ Continue(Topology, "verify") /\ tx' = tx
        \/ NotStarted(s, paused) /\ Raise(tx)
  /\ UNCHANGED <<files, canary, log>>

\* What the post-activation verifiers see: all four services run the target
\* and its gates are open, or only the dashboard runs and nothing is claimed.
Verified ==
  /\ link = Target /\ \A s \in Services : plist[s] = Target
  /\ Live(Dashboard) /\ proc[Dashboard] = Target
  /\ \A s \in Subjects : Readable(s)
  /\ IF Deployment.canary
     THEN \A s \in Subjects : /\ Live(s) /\ proc[s] = Target
                              /\ gate[s] = [release |-> Target,
                                            state |-> "armed"]
     ELSE \A s \in Subjects : /\ s \notin enabled /\ proc[s] = None
                              /\ task[s] = "none"
VerifyTarget ==
  /\ pc = "verify"
  /\ \/ Verified /\ NoFault /\ Goto("commit") /\ tx' = tx
     \/ ~ Verified /\ NoFault /\ Raise(tx)
     \/ Fault /\ Raise(tx)
  /\ UNCHANGED <<services, files, canary, log>>

Commit ==
  /\ pc = "commit" /\ Close("committed") /\ NoFault
  /\ UNCHANGED <<services, files, canary>>

Activate ==
  \/ Backup \/ StopPrevious \/ WaitPreviousStopped \/ RetirePrevious
  \/ ApplyExternalProfiles \/ SwitchLink \/ InstallPlists \/ BindContext
  \/ ArmGate \/ StartTarget \/ VerifyTarget \/ Commit
-----------------------------------------------------------------------------
(* The rollback of a canary activation.                                    *)

\* _default_canary_shutdown_before_activation_rollback reads every status
\* before it touches anything.
Recognised(s) ==
  /\ Readable(s)
  /\ gate[s].state = "absent" => task[s] = "none"
  /\ gate[s].release \notin {None, Target}
       => gate[s].state = "inactive" /\ task[s] = "none"
Owned == {s \in Subjects : gate[s].release = Target}
ProbeTarget ==
  /\ pc = "probe"
  /\ \/ /\ \A s \in Subjects : Recognised(s)
        /\ Goto("disable target") /\ NoFault /\ log' = log
        /\ tx' = [tx EXCEPT !.fence = Owned,
                    !.busy = {s \in Owned : task[s] # "none"}]
     \/ (\E s \in Subjects : ~ Recognised(s)) /\ Block /\ NoFault
     \/ Fault /\ Block
  /\ UNCHANGED <<services, files, canary>>

\* _rollback_three_subject_dispatchers: all disabled, then all booted out;
\* what fails is noted and the rest goes on.
DisableTarget ==
  /\ pc = "disable target" /\ Continue(Topology, "bootout target")
  /\ \/ Disable(Topology[at]) /\ tx' = tx /\ NoFault
     \/ UNCHANGED enabled /\ tx' = With("errors") /\ Fault
  /\ NoJobs /\ UNCHANGED <<files, canary, log>>
BootoutTarget ==
  /\ pc = "bootout target" /\ Continue(Topology, "await")
  /\ \/ Bootout(Topology[at]) /\ tx' = tx /\ NoFault
     \/ NoJobs /\ tx' = With("errors") /\ Fault
  /\ UNCHANGED <<enabled, files, canary, log>>

\* Wait for the leases of one subject to go, and for the proof of the hard
\* cancel if the probe saw one; one deadline for all subjects.
Fenced(s) == /\ Readable(s) /\ task[s] = "none"
             /\ s \in tx.busy => gate[s].state = "cancelled"
AwaitFenced ==
  /\ pc = "await"
  /\ LET s == Order[at] IN
     \/ /\ Fenced(s) /\ NoFault /\ Continue(Order, "pause")
        /\ tx' = [tx EXCEPT !.ready = @ \cup {s}]
     \/ (IF Fenced(s) THEN Fault ELSE NoFault)
        /\ tx' = With("errors") /\ Goto("pause")
  /\ UNCHANGED <<services, files, canary, log>>

PauseTarget ==
  /\ pc = "pause" /\ Continue(Order, "fenced")
  /\ LET s == Order[at] IN
     \/ s \notin tx.fence \cap tx.ready
        /\ UNCHANGED canary /\ tx' = tx /\ NoFault
     \/ /\ s \in tx.fence \cap tx.ready
        /\ \/ WriteGate(s, Target, "paused") /\ tx' = tx /\ NoFault
           \/ UNCHANGED canary /\ tx' = With("errors") /\ Fault
  /\ UNCHANGED <<services, files, log>>

VerifyFenced ==
  /\ pc = "fenced"
  /\ LET clean == /\ ~ Has("errors")
                  /\ \A s \in Subjects :
                       /\ Readable(s) /\ task[s] = "none"
                       /\ s \in tx.fence => gate[s].state = "paused"
     IN \/ clean /\ NoFault /\ Goto("disarm") /\ UNCHANGED <<tx, log>>
        \/ ~ clean /\ NoFault /\ Block
        \/ Fault /\ Block
  /\ UNCHANGED <<services, files, canary>>

\* _default_canary_rollback_controller, one subject.
DisarmTarget ==
  /\ pc = "disarm"
  /\ LET s == Order[at]
         g == gate[s]
         next == Continue(Order, "restore plists") /\ UNCHANGED <<tx, log>>
         done == g.state = "absent"
                 \/ g = [release |-> Target, state |-> "inactive"]
         refused == ~ done /\ (~ Readable(s) \/ g.release # Target)
     IN \/ done /\ UNCHANGED canary /\ NoFault /\ next
        \/ UNCHANGED canary /\ FaultUnless(refused) /\ Block
        \/ /\ ~ done /\ ~ refused /\ WriteGate(s, Target, "inactive")
           /\ \/ Agreeable(s, Target) /\ NoFault /\ next
              \/ /\ FaultUnless(~ Agreeable(s, Target))
                 /\ Block
  /\ UNCHANGED <<services, files>>
-----------------------------------------------------------------------------
(* The rollback of a plain activation, and of one that started nothing.    *)

DisablePlain ==
  /\ pc = "disable"
  /\ \/ Disable(Topology[at]) /\ NoFault
        /\ Continue(Topology, "drain") /\ UNCHANGED <<tx, log>>
     \/ UNCHANGED enabled /\ Fault /\ Block
  /\ NoJobs /\ UNCHANGED <<files, canary>>

\* _default_drain_before_rollback
DrainPlain ==
  /\ pc = "drain"
  /\ LET drained == \A s \in Subjects : Readable(s) /\ task[s] = "none"
     IN \/ drained /\ NoFault /\ Goto("bootout") /\ UNCHANGED <<tx, log>>
        \/ ~ drained /\ NoFault /\ Block
        \/ Fault /\ Block
  /\ UNCHANGED <<services, files, canary>>

BootoutPlain ==
  /\ pc = "bootout"
  /\ LET s == Topology[at]
         next == Continue(Topology, "restore plists") /\ UNCHANGED <<tx, log>>
     IN \/ Bootout(s) /\ NoFault /\ next
        \/ NoJobs /\ Fault /\ IF s = Dashboard THEN Block ELSE next
  /\ UNCHANGED <<enabled, files, canary>>

\* _run_service_deactivation_best_effort
StopTarget ==
  /\ pc = "stop target" /\ Continue(Topology, "restore plists")
  /\ LET s == Topology[at] IN
     \/ Disable(s) /\ Bootout(s) /\ tx' = tx /\ NoFault
     \/ UNCHANGED enabled /\ Bootout(s) /\ tx' = With("errors") /\ Fault
     \/ Disable(s) /\ NoJobs /\ Fault
        /\ tx' = IF s = Dashboard THEN With("errors") ELSE tx
  /\ UNCHANGED <<files, canary, log>>
-----------------------------------------------------------------------------
(* The previous state is restored; an error is noted and the rest goes on. *)

RestorePlists ==
  /\ pc = "restore plists"
  /\ LET s == Topology[at] IN
     \/ plist' = [plist EXCEPT ![s] = Deployment.plist[s]] /\ NoFault
        /\ Continue(Topology, "restore profiles") /\ tx' = tx
     \/ plist' = plist /\ Fault
        /\ Goto("restore profiles") /\ tx' = With("errors")
  /\ UNCHANGED <<services, link, profile, canary, log>>

\* _restore_external_profiles, and the dashboard projection of a canary.
RestoreProfiles ==
  /\ pc = "restore profiles"
  /\ Goto(IF Has("snapshot") THEN "restore gates" ELSE "relink")
  /\ \/ profile' = (IF Has("tried") THEN Deployment.profile ELSE profile)
        /\ tx' = tx /\ NoFault
     \/ profile' \in (IF Has("tried") THEN {profile, Mixed} ELSE {profile})
        /\ tx' = With("errors") /\ Fault
  /\ UNCHANGED <<services, link, plist, canary, log>>

\* The gate files come back byte for byte; the telemetry does not.
RestoreGates ==
  /\ pc = "restore gates"
  /\ LET s == Order[at] IN
     \/ gate' = [gate EXCEPT ![s] = tx.snapshot[s]] /\ NoFault
        /\ Continue(Order, "relink") /\ tx' = tx
     \/ gate' = gate /\ Fault /\ Goto("relink") /\ tx' = With("errors")
  /\ UNCHANGED <<services, files, telemetry, task, log>>

Relink ==
  /\ pc = "relink" /\ Goto(IF Previous = None THEN "close" ELSE "restart")
  /\ \/ link' = Previous /\ tx' = tx /\ NoFault
     \/ link' = link /\ tx' = With("errors") /\ Fault
  /\ UNCHANGED <<services, plist, profile, canary, log>>

RestartPrevious ==
  /\ pc = "restart"
  /\ LET s == Topology[at]  paused == ~ Deployment.canary
     IN \/ Started(s, paused) /\ Continue(Topology, "close") /\ tx' = tx
        \/ NotStarted(s, paused) /\ Goto("close") /\ tx' = With("errors")
  /\ UNCHANGED <<files, canary, log>>

\* Mutant: the noted errors do not reach the receipt.
CloseRolledBack ==
  /\ pc = "close" /\ NoFault /\ Close("rolled_back")
  /\ UNCHANGED <<services, files, canary>>

CloseRollback ==
  /\ pc = "close" /\ NoFault
  /\ Close(IF Has("errors") THEN "incomplete" ELSE "rolled_back")
  /\ UNCHANGED <<services, files, canary>>

Rollback ==
  \/ ProbeTarget \/ DisableTarget \/ BootoutTarget \/ AwaitFenced
  \/ PauseTarget \/ VerifyFenced \/ DisarmTarget
  \/ DisablePlain \/ DrainPlain \/ BootoutPlain \/ StopTarget
  \/ RestorePlists \/ RestoreProfiles \/ RestoreGates \/ Relink
  \/ RestartPrevious \/ CloseRollback
-----------------------------------------------------------------------------
(* Everything else: daemons, crashes, the resolve command.                 *)

\* A daemon takes work only through an armed gate of its own release.
Claim(s) ==
  /\ Live(s) /\ task[s] = "none" /\ Readable(s)
  /\ gate[s] = [release |-> proc[s], state |-> "armed"]
  /\ task' = [task EXCEPT ![s] = "claimed"]
  /\ UNCHANGED <<services, files, gate, telemetry, script>>

\* The task of a subject is in the hands of a daemon of the gate's release,
\* the one that claimed it or the next one, which recovers it.
Held(s) == /\ task[s] # "none" /\ Readable(s)
           /\ proc[s] = gate[s].release

\* A task is between two model calls, or in one.
ModelCall(s) ==
  /\ Held(s)
  /\ task' = [task EXCEPT ![s] = IF @ = "model" THEN "claimed" ELSE "model"]
  /\ UNCHANGED <<services, files, gate, telemetry, script>>

FinishTask(s) ==
  /\ Held(s) /\ task' = [task EXCEPT ![s] = "none"]
  /\ gate' \in {gate, [gate EXCEPT ![s].state = "failed"]}
  /\ UNCHANGED <<services, files, telemetry, script>>

\* SIGTERM: the daemon cancels its task and seals the gate, or is killed
\* before that and leaves the lease.
Exit(s) ==
  /\ s \in stopping
  /\ proc' = [proc EXCEPT ![s] = None] /\ stopping' = stopping \ {s}
  /\ moved' = TRUE
  /\ LET held == s \in Subjects /\ Held(s) IN
     \/ /\ held /\ NoFault
        /\ task' = [task EXCEPT ![s] = "none"]
        /\ gate' = [gate EXCEPT ![s].state = "cancelled"]
     \/ /\ IF held THEN Fault ELSE NoFault
        /\ task' = IF held THEN [task EXCEPT ![s] = "claimed"] ELSE task
        /\ gate' = gate
  /\ UNCHANGED <<enabled, files, telemetry, log, pc, at, tx>>

Crash ==
  /\ pc # "idle" /\ Fault /\ Goto("idle") /\ tx' = NoTx
  /\ UNCHANGED <<services, files, canary, log>>

\* After a restart launchd loads what is enabled and installed.
Reboot ==
  /\ Fault /\ Goto("idle") /\ tx' = NoTx
  /\ proc' = [s \in Services |-> IF s \in enabled /\ plist[s] # None
                                 THEN link ELSE None]
  /\ stopping' = {} /\ moved' = TRUE
  /\ task' = [s \in Subjects |-> IF task[s] = "none" THEN "none"
                                                    ELSE "claimed"]
  /\ UNCHANGED <<enabled, files, gate, telemetry, log>>

\* resolve_pre_mutation_deployment: an open or incomplete transaction is
\* closed when the link, the plists, the profiles and the processes are
\* those of its prepare.  It takes no lock.
Resolve ==
  /\ log # <<>> /\ IsOpen(Deployment) /\ Previous # None
  /\ \/ Deployment.status = "open"
     \/ Deployment.status = "incomplete" /\ ~ Deployment.proofs
  /\ link = Previous /\ ~ moved
  /\ plist = Deployment.plist /\ profile = Deployment.profile
  /\ log' = [log EXCEPT ![Len(log)].marker = TRUE]
  /\ UNCHANGED <<services, files, canary, pc, at, tx, faults>>

Init ==
  /\ link = None /\ plist = [s \in Services |-> None] /\ enabled = {}
  /\ proc = [s \in Services |-> None] /\ stopping = {} /\ moved = FALSE
  /\ profile = None /\ gate = NoGates /\ telemetry = None
  /\ task = [s \in Subjects |-> "none"]
  /\ log = <<>> /\ pc = "idle" /\ at = 1 /\ tx = NoTx /\ faults = 0

Next ==
  \/ \E r \in Releases, c \in BOOLEAN : Begin(r, c)
  \/ Activate \/ Rollback \/ Crash \/ Reboot \/ Resolve
  \/ \E s \in Subjects : Claim(s) \/ ModelCall(s) \/ FinishTask(s)
  \/ \E s \in Services : Exit(s)

SwitchSpec == Init /\ [][Next]_vars
-----------------------------------------------------------------------------
(* Properties.                                                             *)

\* The installation, its receipts and the script's state keep their shape.
SwitchTypeOK ==
  /\ link \in Maybe /\ plist \in [Services -> Maybe]
  /\ enabled \subseteq Services /\ proc \in [Services -> Maybe]
  /\ stopping \subseteq {s \in Services : proc[s] # None}
  /\ moved \in BOOLEAN /\ profile \in Maybe \cup {Mixed}
  /\ gate \in [Subjects -> Gates] /\ telemetry \in Maybe
  /\ \A s \in Subjects : gate[s].state = "absent" <=> gate[s] = NoGate
  /\ task \in [Subjects -> {"none", "claimed", "model"}]
  /\ Len(log) <= Activations /\ at \in 1..Len(Topology)
  /\ tx.flags \subseteq Flags
  /\ \A v \in {tx.fence, tx.busy, tx.ready} : v \subseteq Subjects

\* Whatever fails, and whenever the script dies or the machine restarts, two
\* releases never serve side by side: processes that have not been told to
\* exit all run the same release.
OneReleaseServes ==
  \A s, t \in Services : Live(s) /\ Live(t) => proc[s] = proc[t]

\* What a closed transaction's receipt says of the installation is true until
\* the next one begins: after "committed" everything is the target's, after
\* "rolled_back" the link, the plists, the profiles and the gates are what
\* they were before (a gate the target was the first to arm stays behind,
\* inactive), and no process of the target serves.
Idle == pc = "idle" /\ log # <<>>
ReceiptIsTrue ==
  Idle =>
    LET d == Deployment
        serving == {proc[s] : s \in {t \in Services : Live(t)}}
    IN /\ d.status = "committed" =>
            /\ link = d.target /\ profile = d.target
            /\ plist = [s \in Services |-> d.target]
            /\ serving \subseteq {d.target}
            /\ d.canary => Owned = Subjects /\ telemetry = d.target
       /\ d.status = "rolled_back" =>
            /\ link = d.previous /\ profile = d.profile /\ plist = d.plist
            /\ serving \subseteq {d.previous}
            /\ \A s \in Subjects :
                 \/ gate[s].release = d.owner[s]
                 \/ d.previous = None /\ gate[s].state = "inactive"

\* A transaction left open, by a crash or by a handler that gave up, freezes
\* the installation: until it is resolved no step, of a later activation
\* either, touches the link, the plists, the profiles or the owner of a gate.
LeftOpen == \E i \in DOMAIN log :
              IsOpen(log[i]) /\ (i < Len(log) \/ pc = "idle")
OpenFreezesInstallation ==
  [][LeftOpen => /\ UNCHANGED files
                 /\ \A s \in Subjects : gate'[s].release = gate[s].release
    ]_vars

\* A gate is not taken from under a task: while a subject has a claimed task
\* its gate stays its release's, and is not deactivated.
TaskKeepsItsGate ==
  [][\A s \in Subjects : task[s] # "none" /\ task'[s] # "none" =>
       /\ gate'[s].release = gate[s].release
       /\ gate'[s].state = "inactive" => gate[s].state = "inactive"]_vars
=============================================================================
