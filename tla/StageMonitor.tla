---------------------------- MODULE StageMonitor ----------------------------
(***************************************************************************)
(* Supervision of one generation of one production unit: the loop of       *)
(* _invoke_stage in the dispatcher, the task process that runs both model  *)
(* passes inside the dispatcher's analysis stage, the provider process of  *)
(* each pass, and the stall probe that goes between them.                  *)
(*                                                                         *)
(* Clock values are kept as ages that stop growing once no comparison can  *)
(* tell them apart.  Progress receipts carry a chained sequence, so "the   *)
(* digest differs from the one I saw" is membership in a set.  The lease   *)
(* is current throughout.  silence and sinceOutput are history variables.  *)
(***************************************************************************)
EXTENDS Integers, FiniteSets

CONSTANTS
  StallTimeout,   \* stall_timeout_seconds
  ProbeInterval,  \* stall_probe_interval_seconds
  Required,       \* stall_probe_required_consecutive_failures
  Delay           \* longest wait between a clock reading and its use

ASSUME MonitorAssumption ==
  /\ StallTimeout \in Nat \ {0} /\ ProbeInterval \in Nat \ {0}
  /\ Required \in Nat \ {0, 1}
  /\ Delay \in Nat

VARIABLES
  at,            \* where the loop of _invoke_stage is
  pass,          \* the dispatcher's stage
  rounds,        \* failed_probe_rounds
  sinceProgress, \* now - last_progress_monotonic
  sinceProbe,    \* now - last_probe_at, ProbeInterval when there is none
  outcome,       \* how the attempt ends
  answer,        \* result_queue of the stage thread
  cancelled,     \* context.cancel_event
  process,       \* the task process
  terminating,   \* the task process was told to stop its provider
  provider,      \* the provider process of each pass
  unread,        \* stages with a progress receipt the loop has not seen
  wrote,         \* stages whose last receipt counts provider output
  probed,        \* stages with a sealed probe receipt
  busy,          \* stages with kernel activity since the last snapshot
  moved,         \* stages with an output receipt since the probe's baseline
  target,        \* the stage whose provider the probe found alive
  silence,       \* history: age of the last kernel activity of each provider
  sinceOutput    \* history: age of its last receipt, or of the stage's start

progressVars == <<unread, wrote, probed, busy, moved>>
loopVars == <<pass, rounds, sinceProgress, sinceProbe>>
processVars == <<process, provider>>
history == <<silence, sinceOutput>>

monitorVars == <<at, loopVars, outcome, answer, cancelled, terminating, target,
                 processVars, progressVars, history>>

Stages == {"analysis", "critical_review"}

MonitorTypeOK ==
  /\ at \in {"launch", "transition", "poll", "probe", "sampling", "collect",
             "stopping", "ended"}
  /\ pass \in Stages
  /\ rounds \in 0..Required
  /\ sinceProgress \in 0..StallTimeout
  /\ sinceProbe \in 0..ProbeInterval
  /\ outcome \in {"none", "succeeded", "stalled", "cancelled", "failed"}
  /\ answer \in {"none", "result", "early", "error"}
  /\ cancelled \in BOOLEAN
  /\ terminating \in BOOLEAN
  /\ process \in {"none", "starting", "spawned", "running", "exited"}
  /\ provider \in [Stages -> {"none", "live", "hung", "exited"}]
  /\ unread \subseteq Stages /\ wrote \subseteq Stages
  /\ probed \subseteq Stages /\ busy \subseteq Stages /\ moved \subseteq Stages
  /\ target \in Stages
  /\ silence \in [Stages -> 0..ProbeInterval]
  /\ sinceOutput \in [Stages -> 0..StallTimeout]

MonitorInit ==
  /\ at = "launch" /\ pass = "analysis" /\ target = "analysis"
  /\ rounds = 0 /\ sinceProgress = 0 /\ sinceProbe = ProbeInterval
  /\ outcome = "none" /\ answer = "none"
  /\ cancelled = FALSE /\ terminating = FALSE
  /\ process = "none" /\ provider = [s \in Stages |-> "none"]
  /\ unread = {} /\ wrote = {} /\ probed = {} /\ busy = {} /\ moved = {}
  /\ silence = [s \in Stages |-> 0]
  /\ sinceOutput = [s \in Stages |-> 0]

Alive(s) == provider[s] \in {"live", "hung"}

Older(age, cap) == IF age < cap THEN age + 1 ELSE age

-----------------------------------------------------------------------------
\* The attempt leaves _invoke_stage for good; _execute makes its terminal.
Leave(how) == at' = "ended" /\ outcome' = how

\* _cancel_runner: a task process the runner knows of is signalled and waited
\* for; without one it returns at once.
Stop(how) ==
  /\ outcome' = how
  /\ \/ /\ process \in {"spawned", "running"}
        /\ at' = "stopping" /\ terminating' = TRUE
     \/ /\ process \notin {"spawned", "running"}
        /\ at' = "ended" /\ UNCHANGED terminating

\* The stage thread is started before anything is recorded of the stage.  The
\* critical review of this runner only hands over what the process returned.
Launch ==
  /\ at = "launch"
  /\ \/ cancelled /\ Stop("cancelled") /\ UNCHANGED <<loopVars, answer, process, sinceOutput>>
     \/ /\ ~ cancelled /\ at' = "transition"
        /\ \/ pass = "analysis" /\ process' = "starting" /\ UNCHANGED answer
           \/ pass = "critical_review" /\ answer' = "result" /\ UNCHANGED process
        /\ rounds' = 0 /\ sinceProgress' = 0 /\ sinceProbe' = ProbeInterval
        /\ sinceOutput' = [sinceOutput EXCEPT ![pass] = 0]
        /\ UNCHANGED <<pass, outcome, terminating>>
  /\ UNCHANGED <<cancelled, target, provider, progressVars, silence>>

\* publish_stage_progress(stage_transition): its counters are zero, and a
\* receipt may not count less than the one before it.  The error reaches
\* _execute without a call of _cancel_runner.
Transition ==
  /\ at = "transition"
  /\ \/ pass \in wrote /\ Leave("failed") /\ UNCHANGED unread
     \/ /\ pass \notin wrote
        /\ at' = "poll" /\ unread' = unread \ {pass} /\ UNCHANGED outcome
  /\ UNCHANGED <<loopVars, answer, cancelled, terminating, target, processVars,
                 wrote, probed, busy, moved, history>>

\* Mutant: the cancel event is left to the collection of the result.
PollIgnoresCancel ==
  /\ at = "poll"
  /\ \/ /\ pass \in unread
        /\ unread' = unread \ {pass}
        /\ sinceProgress' = 0 /\ rounds' = 0 /\ sinceProbe' = ProbeInterval
        /\ at' = "collect" /\ UNCHANGED <<pass, outcome, terminating>>
     \/ /\ pass \notin unread
        /\ \/ /\ sinceProgress = StallTimeout /\ sinceProbe = ProbeInterval
              /\ at' = "probe" /\ sinceProbe' = 0
           \/ /\ sinceProgress < StallTimeout \/ sinceProbe < ProbeInterval
              /\ at' = "collect" /\ UNCHANGED sinceProbe
        /\ UNCHANGED <<pass, rounds, sinceProgress, unread, outcome, terminating>>
  /\ UNCHANGED <<answer, cancelled, target, processVars, wrote, probed, busy,
                 moved, history>>

\* One turn of the loop up to the probe: the cancel event first, then a new
\* progress receipt, then the two timers.
Poll ==
  /\ at = "poll"
  /\ \/ cancelled /\ Stop("cancelled") /\ UNCHANGED <<loopVars, unread>>
     \/ /\ ~ cancelled /\ pass \in unread
        /\ unread' = unread \ {pass}
        /\ sinceProgress' = 0 /\ rounds' = 0 /\ sinceProbe' = ProbeInterval
        /\ at' = "collect" /\ UNCHANGED <<pass, outcome, terminating>>
     \/ /\ ~ cancelled /\ pass \notin unread
        /\ \/ /\ sinceProgress = StallTimeout /\ sinceProbe = ProbeInterval
              /\ at' = "probe" /\ sinceProbe' = 0
           \/ /\ sinceProgress < StallTimeout \/ sinceProbe < ProbeInterval
              /\ at' = "collect" /\ UNCHANGED sinceProbe
        /\ UNCHANGED <<pass, rounds, sinceProgress, unread, outcome, terminating>>
  /\ UNCHANGED <<answer, cancelled, target, processVars, wrote, probed, busy,
                 moved, history>>

\* Mutant: every probe takes a baseline of its own.
BaselineAlwaysNew ==
  /\ at = "probe"
  /\ \/ \E s \in Stages :
          /\ process = "running" /\ {t \in Stages : Alive(t)} = {s}
          /\ target' = s /\ at' = "sampling"
          /\ busy' = busy \ {s}
          /\ moved' = moved \ {s}
          /\ UNCHANGED rounds
     \/ /\ process # "running" \/ \A s \in Stages : ~ Alive(s)
        /\ at' = "collect" /\ rounds' = 0
        /\ UNCHANGED <<target, busy, moved>>
  /\ UNCHANGED <<pass, sinceProgress, sinceProbe, outcome, answer, cancelled,
                 terminating, processVars, unread, wrote, probed, history>>

\* Mutant: the probe counts as activity of the provider.
ProbeIsActivity ==
  /\ at = "probe"
  /\ \/ \E s \in Stages :
          /\ process = "running" /\ {t \in Stages : Alive(t)} = {s}
          /\ target' = s /\ at' = "sampling"
          /\ busy' = busy \cup {s}
          /\ moved' = moved \ {s}
          /\ UNCHANGED rounds
     \/ /\ process # "running" \/ \A s \in Stages : ~ Alive(s)
        /\ at' = "collect" /\ rounds' = 0
        /\ UNCHANGED <<target, busy, moved>>
  /\ UNCHANGED <<pass, sinceProgress, sinceProbe, outcome, answer, cancelled,
                 terminating, processVars, unread, wrote, probed, history>>

\* probe_stage, first half: the one provider alive, whichever pass it runs.
\* The kernel baseline is the final snapshot of the previous receipt; only the
\* first probe of a provider takes one now.
Baseline ==
  /\ at = "probe"
  /\ \/ \E s \in Stages :
          /\ process = "running" /\ {t \in Stages : Alive(t)} = {s}
          /\ target' = s /\ at' = "sampling"
          /\ busy' = IF s \in probed THEN busy ELSE busy \ {s}
          /\ moved' = moved \ {s}
          /\ UNCHANGED rounds
     \/ /\ process # "running" \/ \A s \in Stages : ~ Alive(s)
        /\ at' = "collect" /\ rounds' = 0
        /\ UNCHANGED <<target, busy, moved>>
  /\ UNCHANGED <<pass, sinceProgress, sinceProbe, outcome, answer, cancelled,
                 terminating, processVars, unread, wrote, probed, history>>

\* verify_provider_kernel_probe_receipt looks for the receipt under the
\* dispatcher's stage.
Verified == target = pass

\* Both channels of a verified probe were silent.
BothFailed ==
  /\ rounds' = rounds + 1
  /\ \/ /\ rounds + 1 >= Required
        /\ Stop("stalled") /\ cancelled' = TRUE
     \/ /\ rounds + 1 < Required
        /\ at' = "collect" /\ UNCHANGED <<outcome, cancelled, terminating>>
  /\ UNCHANGED <<sinceProgress, sinceProbe>>

\* One of them was not: the stage counts as having progressed when the clock
\* was read for this turn.
Healthy ==
  /\ rounds' = 0 /\ sinceProbe' = ProbeInterval
  /\ sinceProgress' = IF sinceProbe < StallTimeout THEN sinceProbe
                                                   ELSE StallTimeout
  /\ at' = "collect" /\ UNCHANGED <<outcome, cancelled, terminating>>

Unverified ==
  /\ rounds' = 0 /\ at' = "collect"
  /\ UNCHANGED <<sinceProgress, sinceProbe, outcome, cancelled, terminating>>

\* probe_stage, second half, and its evaluation.  A sealed receipt fixes the
\* next baseline whether or not the loop accepts it.
Verdict ==
  /\ at = "sampling"
  /\ \/ ~ Alive(target) /\ Unverified /\ UNCHANGED <<probed, busy>>
     \/ /\ Alive(target)
        /\ probed' = probed \cup {target} /\ busy' = busy \ {target}
        /\ \/ ~ Verified /\ Unverified
           \/ Verified /\ target \in busy \cup moved /\ Healthy
           \/ Verified /\ target \notin busy \cup moved /\ BothFailed
  /\ UNCHANGED <<pass, answer, target, processVars, unread, wrote, moved,
                 history>>

\* Any call of the probe may fail for reasons of its own, before or after the
\* task process is asked; nothing is sealed then.
BreakProbe ==
  /\ at \in {"probe", "sampling"} /\ \E s \in Stages : Alive(s)
  /\ Unverified
  /\ UNCHANGED <<pass, answer, target, processVars, progressVars, history>>

\* The queue is looked at last; _execute goes on to the critical review.
Collect ==
  /\ at = "collect"
  /\ \/ answer = "none" /\ at' = "poll" /\ UNCHANGED <<pass, outcome, answer>>
     \/ answer = "error" /\ Leave("failed") /\ UNCHANGED <<pass, answer>>
     \/ /\ answer = "result" /\ pass = "critical_review"
        /\ Leave("succeeded") /\ UNCHANGED <<pass, answer>>
     \/ /\ answer \in {"result", "early"} /\ pass = "analysis" /\ cancelled
        /\ Leave("cancelled") /\ UNCHANGED <<pass, answer>>
     \/ /\ answer = "early" /\ ~ cancelled
        /\ Leave("succeeded") /\ UNCHANGED <<pass, answer>>
     \/ /\ answer = "result" /\ pass = "analysis" /\ ~ cancelled
        /\ pass' = "critical_review" /\ at' = "launch" /\ answer' = "none"
        /\ UNCHANGED outcome
  /\ UNCHANGED <<rounds, sinceProgress, sinceProbe, cancelled, terminating,
                 target, processVars, progressVars, history>>

\* _cancel_runner returns when the task process is gone.
Stopped ==
  /\ at = "stopping" /\ process = "exited"
  /\ at' = "ended"
  /\ UNCHANGED <<loopVars, outcome, answer, cancelled, terminating, target,
                 processVars, progressVars, history>>
-----------------------------------------------------------------------------
\* The stage thread starts the task process, which from then on can be
\* signalled.
SpawnProcess ==
  /\ process = "starting" /\ process' = "spawned"
  /\ UNCHANGED <<at, loopVars, outcome, answer, cancelled, terminating, target,
                 provider, progressVars, history>>

\* Mutant: the request is sent without another look at the cancel event.
SendUnchecked ==
  /\ process = "spawned" /\ process' = "running"
  /\ UNCHANGED <<at, loopVars, outcome, answer, cancelled, terminating, target,
                 provider, progressVars, history>>

\* The task process does nothing before its request, and gets none if the
\* event is set by now: it is killed (ProcessEnds).
SendRequest ==
  /\ process = "spawned" /\ ~ cancelled /\ process' = "running"
  /\ UNCHANGED <<at, loopVars, outcome, answer, cancelled, terminating, target,
                 provider, progressVars, history>>

\* The task process starts the provider of a pass; a resumed generation goes
\* straight to the critical review.  provider_event is its first receipt.
StartProvider(s) ==
  /\ process = "running" /\ ~ terminating
  /\ provider[s] = "none" /\ \A t \in Stages : ~ Alive(t)
  /\ s = "analysis" => provider["critical_review"] = "none"
  /\ provider' = [provider EXCEPT ![s] = "live"]
  /\ unread' = unread \cup {s} /\ busy' = busy \cup {s}
  /\ silence' = [silence EXCEPT ![s] = 0]
  /\ sinceOutput' = [sinceOutput EXCEPT ![s] = 0]
  /\ UNCHANGED <<at, loopVars, outcome, answer, cancelled, terminating, target,
                 process, wrote, probed, moved>>

\* Kernel activity, with or without a chunk of output.
Works(s, outputs) ==
  /\ provider[s] = "live"
  /\ busy' = busy \cup {s}
  /\ silence' = [silence EXCEPT ![s] = 0]
  /\ \/ /\ outputs
        /\ unread' = unread \cup {s} /\ moved' = moved \cup {s}
        /\ wrote' = wrote \cup {s}
        /\ sinceOutput' = [sinceOutput EXCEPT ![s] = 0]
     \/ ~ outputs /\ UNCHANGED <<unread, moved, wrote, sinceOutput>>
  /\ UNCHANGED <<at, loopVars, outcome, answer, cancelled, terminating, target,
                 processVars, probed>>

Hangs(s) ==
  /\ provider[s] = "live"
  /\ provider' = [provider EXCEPT ![s] = "hung"]
  /\ UNCHANGED <<at, loopVars, outcome, answer, cancelled, terminating, target,
                 process, progressVars, history>>

\* The provider is over, by itself or terminated: raw output, exit and
\* normalization receipts follow, which repeat the counters.
Exits(s) ==
  /\ Alive(s) /\ (provider[s] = "hung" => terminating)
  /\ provider' = [provider EXCEPT ![s] = "exited"]
  /\ unread' = unread \cup {s} /\ moved' = moved \ {s}
  /\ sinceOutput' = [sinceOutput EXCEPT ![s] = 0]
  /\ UNCHANGED <<at, loopVars, outcome, answer, cancelled, terminating, target,
                 process, wrote, probed, busy, silence>>

\* The task process ends, and with it the runner's call: both passes done, a
\* terminal of the first pass alone, or an error, of its start as well.
ProcessEnds(a) ==
  /\ process \in {"starting", "spawned", "running"}
  /\ a # "error" => process = "running"
  /\ \A s \in Stages : ~ Alive(s)
  /\ a = "result" => ~ terminating /\ provider["critical_review"] = "exited"
  /\ a = "early" => /\ ~ terminating /\ provider["analysis"] = "exited"
                    /\ provider["critical_review"] = "none"
  /\ process' = "exited" /\ answer' = a
  /\ UNCHANGED <<at, loopVars, outcome, cancelled, terminating, target,
                 provider, progressVars, history>>

\* Anybody may set the event: a caller, the emergency stop.
Cancel ==
  /\ ~ cancelled /\ cancelled' = TRUE
  /\ UNCHANGED <<at, loopVars, outcome, answer, terminating, target,
                 processVars, progressVars, history>>

Tick ==
  /\ at = "transition" => sinceProgress < Delay
  /\ at \in {"probe", "sampling"} => sinceProbe < Delay
  /\ sinceProgress' = Older(sinceProgress, StallTimeout)
  /\ sinceProbe' = Older(sinceProbe, ProbeInterval)
  /\ silence' = [s \in Stages |-> Older(silence[s], ProbeInterval)]
  /\ sinceOutput' = [s \in Stages |-> Older(sinceOutput[s], StallTimeout)]
  /\ UNCHANGED <<at, pass, rounds, outcome, answer, cancelled, terminating,
                 target, processVars, progressVars>>

-----------------------------------------------------------------------------
LoopStep ==
  \/ Launch \/ Transition \/ Poll \/ Baseline \/ Verdict
  \/ BreakProbe \/ Collect \/ Stopped

ProcessStep ==
  \/ SpawnProcess \/ SendRequest
  \/ \E s \in Stages :
       \/ StartProvider(s) \/ Hangs(s) \/ Exits(s)
       \/ \E outputs \in BOOLEAN : Works(s, outputs)
  \/ \E a \in {"result", "early", "error"} : ProcessEnds(a)

MonitorNext == LoopStep \/ ProcessStep \/ Cancel \/ Tick

MonitorSpec == MonitorInit /\ [][MonitorNext]_monitorVars

\* The loop and the clock go on; a process that was told to stop does stop.
\* Nothing is assumed of a provider left alone.
MonitorFairness ==
  /\ WF_monitorVars(LoopStep)
  /\ WF_monitorVars(Tick)
  /\ \A s \in Stages : WF_monitorVars(terminating /\ Exits(s))
  /\ WF_monitorVars(terminating /\ ProcessEnds("error"))

LiveMonitorSpec == MonitorSpec /\ MonitorFairness

-----------------------------------------------------------------------------
\* A stage is declared stalled only if its provider did nothing the kernel
\* could see for a whole probe interval and recorded nothing for the stall
\* timeout, up to the wait between a clock reading and its use.
StallIsJustified ==
  [][outcome # "stalled" /\ outcome' = "stalled" =>
       /\ silence[pass] + Delay >= ProbeInterval
       /\ sinceOutput[pass] + Delay >= StallTimeout]_monitorVars

\* When a cancelled or stalled attempt is over, no model process of it is
\* left: whatever it was doing when the cancellation came, and although the
\* provider has a session of its own.
NoProviderOutlivesStop ==
  at = "ended" /\ outcome \in {"stalled", "cancelled"} =>
    \A s \in Stages : ~ Alive(s)

\* Sooner or later every probe that would count can be carried out.
ProbesWork ==
  <>[][~ (BreakProbe /\ (at = "sampling" => Verified))]_monitorVars

\* A provider that hangs during the analysis is found out.
AnalysisHangEnds ==
  ProbesWork => (provider["analysis"] = "hung" ~> at = "ended")

\* A cancellation ends the attempt, hung providers notwithstanding.
CancelEnds == cancelled ~> at = "ended"

\* The documented reason why a provider request needs no deadline: it is
\* cancelled by the fence or by stall diagnosis, in the review as well.
ReviewHangEnds ==
  ProbesWork => (provider["critical_review"] = "hung" ~> at = "ended")
=============================================================================
