------------------------ MODULE StageMonitorProofs ------------------------
(***************************************************************************)
(* Proofs about the supervision loop, for every choice of the timers, the  *)
(* number of probes and the delay between a clock reading and its use.     *)
(***************************************************************************)
EXTENDS StageMonitor, TLAPS

\* Where the answers of earlier probes of this pass still count.
Supervising == at \in {"poll", "probe", "sampling", "collect"}

Probing == at \in {"probe", "sampling"}

\* The two readings of the clock that are used after a wait.
ClockInv ==
  /\ at = "transition" => sinceProgress <= Delay /\ rounds = 0
  /\ Probing => sinceProbe <= Delay

\* A pass with failed probes behind it has a baseline of its own, and the
\* number of them is not yet enough.
RoundsInv ==
  Supervising => /\ rounds < Required
                 /\ rounds >= 1 => pass \in probed

\* What the loop's timers say about the provider.  While a receipt or kernel
\* activity is yet to be seen they say nothing.
TimerInv ==
  /\ Supervising /\ pass \notin unread =>
       sinceOutput[pass] + Delay >= sinceProgress
  /\ at \in {"poll", "collect"} /\ rounds >= 1 /\ pass \notin busy =>
       silence[pass] + Delay >= sinceProbe
  /\ Probing /\ rounds >= 1 /\ pass \notin busy =>
       /\ silence[pass] + Delay >= ProbeInterval
       /\ Alive(pass) => sinceOutput[pass] + Delay >= StallTimeout

\* Providers live in a running task process, and what the runner returns
\* comes from one that is gone.
ProcessInv ==
  /\ process # "running" => \A s \in Stages : ~ Alive(s)
  /\ answer # "none" \/ pass = "critical_review" => process = "exited"
  /\ at = "launch" /\ pass = "analysis" => process = "none"
  /\ outcome \in {"stalled", "cancelled"} => cancelled
  /\ at = "ended" /\ outcome \in {"stalled", "cancelled"} =>
       process # "running"
  /\ at = "stopping" => outcome \in {"stalled", "cancelled"}

MonitorInv == MonitorTypeOK /\ ClockInv /\ RoundsInv /\ TimerInv /\ ProcessInv

USE MonitorAssumption

LEMMA InitMonitorInv == MonitorInit => MonitorInv
<1> SUFFICES ASSUME MonitorInit PROVE MonitorInv
  OBVIOUS
<1> USE DEF MonitorInit
<1>1. MonitorTypeOK
  <2>1. /\ at = "launch" /\ outcome = "none" /\ answer = "none"
        /\ process = "none" /\ pass \in Stages /\ target \in Stages
        /\ cancelled \in BOOLEAN /\ terminating \in BOOLEAN
    BY DEF Stages
  <2>2. /\ rounds \in 0..Required /\ sinceProgress \in 0..StallTimeout
        /\ sinceProbe \in 0..ProbeInterval
    OBVIOUS
  <2>3. /\ unread \subseteq Stages /\ wrote \subseteq Stages
        /\ probed \subseteq Stages /\ busy \subseteq Stages
        /\ moved \subseteq Stages
    OBVIOUS
  <2>4. /\ provider \in [Stages -> {"none", "live", "hung", "exited"}]
        /\ silence \in [Stages -> 0..ProbeInterval]
        /\ sinceOutput \in [Stages -> 0..StallTimeout]
    OBVIOUS
  <2> QED BY <2>1, <2>2, <2>3, <2>4 DEF MonitorTypeOK
<1>2. ClockInv /\ RoundsInv /\ TimerInv
  BY DEF ClockInv, RoundsInv, TimerInv, Supervising, Probing
<1>3. ProcessInv
  BY DEF ProcessInv, Alive, Stages
<1> QED BY <1>1, <1>2, <1>3 DEF MonitorInv

LEMMA LaunchKeepsInv ==
  ASSUME MonitorInv, Launch
  PROVE  MonitorInv'
<1> USE DEF MonitorInv, Launch, Stop, loopVars, progressVars, processVars,
    history
<1>1. MonitorTypeOK'
  <2>1. /\ (at \in {"launch", "transition", "poll", "probe", "sampling",
                "collect", "stopping", "ended"})'
        /\ (outcome \in {"none", "succeeded", "stalled", "cancelled",
                     "failed"})'
        /\ (answer \in {"none", "result", "early", "error"})'
        /\ (process \in {"none", "starting", "spawned", "running",
                     "exited"})'
    BY DEF MonitorTypeOK
  <2>2. (pass \in Stages /\ target \in Stages)'
    BY DEF MonitorTypeOK, Stages
  <2>3. (rounds \in 0..Required)'
    BY DEF MonitorTypeOK, RoundsInv, Supervising
  <2>4. /\ (sinceProgress \in 0..StallTimeout)'
        /\ (sinceProbe \in 0..ProbeInterval)'
    BY DEF MonitorTypeOK
  <2>5. (cancelled \in BOOLEAN /\ terminating \in BOOLEAN)'
    BY DEF MonitorTypeOK
  <2>6. /\ (unread \subseteq Stages /\ wrote \subseteq Stages)'
        /\ (probed \subseteq Stages /\ busy \subseteq Stages)'
        /\ (moved \subseteq Stages)'
    BY DEF MonitorTypeOK
  <2>7. /\ (provider \in [Stages -> {"none", "live", "hung", "exited"}])'
        /\ (silence \in [Stages -> 0..ProbeInterval])'
        /\ (sinceOutput \in [Stages -> 0..StallTimeout])'
    BY DEF MonitorTypeOK
  <2> QED BY <2>1, <2>2, <2>3, <2>4, <2>5, <2>6, <2>7 DEF MonitorTypeOK
<1>2. ClockInv'
  BY DEF MonitorTypeOK, ClockInv, Probing, Stages
<1>3. RoundsInv'
  BY DEF MonitorTypeOK, RoundsInv, Supervising, Probing, Stages
<1>4. TimerInv'
  BY DEF MonitorTypeOK, TimerInv, ClockInv, RoundsInv, Supervising, Probing,
    Alive, Stages
<1>5. ProcessInv'
  BY DEF MonitorTypeOK, ProcessInv, Alive, Stages
<1> QED BY <1>1, <1>2, <1>3, <1>4, <1>5

LEMMA TransitionKeepsInv ==
  ASSUME MonitorInv, Transition
  PROVE  MonitorInv'
<1> USE DEF MonitorInv, Transition, Leave, loopVars, progressVars,
    processVars, history
<1>1. MonitorTypeOK'
  <2>1. /\ (at \in {"launch", "transition", "poll", "probe", "sampling",
                "collect", "stopping", "ended"})'
        /\ (outcome \in {"none", "succeeded", "stalled", "cancelled",
                     "failed"})'
        /\ (answer \in {"none", "result", "early", "error"})'
        /\ (process \in {"none", "starting", "spawned", "running",
                     "exited"})'
    BY DEF MonitorTypeOK
  <2>2. (pass \in Stages /\ target \in Stages)'
    BY DEF MonitorTypeOK, Stages
  <2>3. (rounds \in 0..Required)'
    BY DEF MonitorTypeOK, RoundsInv, Supervising
  <2>4. /\ (sinceProgress \in 0..StallTimeout)'
        /\ (sinceProbe \in 0..ProbeInterval)'
    BY DEF MonitorTypeOK
  <2>5. (cancelled \in BOOLEAN /\ terminating \in BOOLEAN)'
    BY DEF MonitorTypeOK
  <2>6. /\ (unread \subseteq Stages /\ wrote \subseteq Stages)'
        /\ (probed \subseteq Stages /\ busy \subseteq Stages)'
        /\ (moved \subseteq Stages)'
    BY DEF MonitorTypeOK
  <2>7. /\ (provider \in [Stages -> {"none", "live", "hung", "exited"}])'
        /\ (silence \in [Stages -> 0..ProbeInterval])'
        /\ (sinceOutput \in [Stages -> 0..StallTimeout])'
    BY DEF MonitorTypeOK
  <2> QED BY <2>1, <2>2, <2>3, <2>4, <2>5, <2>6, <2>7 DEF MonitorTypeOK
<1>2. ClockInv'
  BY DEF MonitorTypeOK, ClockInv, Probing, Stages
<1>3. RoundsInv'
  BY DEF MonitorTypeOK, ClockInv, RoundsInv, Supervising, Probing, Stages
<1>4. TimerInv'
  BY DEF MonitorTypeOK, TimerInv, ClockInv, RoundsInv, Supervising, Probing,
    Alive, Stages
<1>5. ProcessInv'
  BY DEF MonitorTypeOK, ProcessInv, Alive, Stages
<1> QED BY <1>1, <1>2, <1>3, <1>4, <1>5

LEMMA PollKeepsInv ==
  ASSUME MonitorInv, Poll
  PROVE  MonitorInv'
<1> USE DEF MonitorInv, Poll, Stop, loopVars, progressVars, processVars,
    history
<1>1. MonitorTypeOK'
  <2>1. /\ (at \in {"launch", "transition", "poll", "probe", "sampling",
                "collect", "stopping", "ended"})'
        /\ (outcome \in {"none", "succeeded", "stalled", "cancelled",
                     "failed"})'
        /\ (answer \in {"none", "result", "early", "error"})'
        /\ (process \in {"none", "starting", "spawned", "running",
                     "exited"})'
    BY DEF MonitorTypeOK
  <2>2. (pass \in Stages /\ target \in Stages)'
    BY DEF MonitorTypeOK, Stages
  <2>3. (rounds \in 0..Required)'
    BY DEF MonitorTypeOK, RoundsInv, Supervising
  <2>4. /\ (sinceProgress \in 0..StallTimeout)'
        /\ (sinceProbe \in 0..ProbeInterval)'
    BY DEF MonitorTypeOK
  <2>5. (cancelled \in BOOLEAN /\ terminating \in BOOLEAN)'
    BY DEF MonitorTypeOK
  <2>6. /\ (unread \subseteq Stages /\ wrote \subseteq Stages)'
        /\ (probed \subseteq Stages /\ busy \subseteq Stages)'
        /\ (moved \subseteq Stages)'
    BY DEF MonitorTypeOK
  <2>7. /\ (provider \in [Stages -> {"none", "live", "hung", "exited"}])'
        /\ (silence \in [Stages -> 0..ProbeInterval])'
        /\ (sinceOutput \in [Stages -> 0..StallTimeout])'
    BY DEF MonitorTypeOK
  <2> QED BY <2>1, <2>2, <2>3, <2>4, <2>5, <2>6, <2>7 DEF MonitorTypeOK
<1>2. ClockInv'
  BY DEF MonitorTypeOK, ClockInv, Probing, Stages
<1>3. RoundsInv'
  BY DEF MonitorTypeOK, RoundsInv, Supervising, Probing, Stages
<1>4. TimerInv'
  BY DEF MonitorTypeOK, TimerInv, ClockInv, RoundsInv, Supervising, Probing,
    Alive, Stages
<1>5. ProcessInv'
  BY DEF MonitorTypeOK, ProcessInv, Alive, Stages
<1> QED BY <1>1, <1>2, <1>3, <1>4, <1>5

LEMMA BaselineKeepsInv ==
  ASSUME MonitorInv, Baseline
  PROVE  MonitorInv'
<1> USE DEF MonitorInv, Baseline, loopVars, progressVars, processVars, history
<1>1. MonitorTypeOK'
  <2>1. /\ (at \in {"launch", "transition", "poll", "probe", "sampling",
                "collect", "stopping", "ended"})'
        /\ (outcome \in {"none", "succeeded", "stalled", "cancelled",
                     "failed"})'
        /\ (answer \in {"none", "result", "early", "error"})'
        /\ (process \in {"none", "starting", "spawned", "running",
                     "exited"})'
    BY DEF MonitorTypeOK
  <2>2. (pass \in Stages /\ target \in Stages)'
    BY DEF MonitorTypeOK, Stages
  <2>3. (rounds \in 0..Required)'
    BY DEF MonitorTypeOK, RoundsInv, Supervising
  <2>4. /\ (sinceProgress \in 0..StallTimeout)'
        /\ (sinceProbe \in 0..ProbeInterval)'
    BY DEF MonitorTypeOK
  <2>5. (cancelled \in BOOLEAN /\ terminating \in BOOLEAN)'
    BY DEF MonitorTypeOK
  <2>6. /\ (unread \subseteq Stages /\ wrote \subseteq Stages)'
        /\ (probed \subseteq Stages /\ busy \subseteq Stages)'
        /\ (moved \subseteq Stages)'
    BY DEF MonitorTypeOK
  <2>7. /\ (provider \in [Stages -> {"none", "live", "hung", "exited"}])'
        /\ (silence \in [Stages -> 0..ProbeInterval])'
        /\ (sinceOutput \in [Stages -> 0..StallTimeout])'
    BY DEF MonitorTypeOK
  <2> QED BY <2>1, <2>2, <2>3, <2>4, <2>5, <2>6, <2>7 DEF MonitorTypeOK
<1>2. ClockInv'
  BY DEF MonitorTypeOK, ClockInv, Probing, Stages
<1>3. RoundsInv'
  BY DEF MonitorTypeOK, RoundsInv, Supervising, Probing, Stages
<1>4. TimerInv'
  BY DEF MonitorTypeOK, TimerInv, ClockInv, RoundsInv, Supervising, Probing,
    Alive, Stages
<1>5. ProcessInv'
  BY DEF MonitorTypeOK, ProcessInv, Alive, Stages
<1> QED BY <1>1, <1>2, <1>3, <1>4, <1>5

LEMMA VerdictKeepsInv ==
  ASSUME MonitorInv, Verdict
  PROVE  MonitorInv'
<1> USE DEF MonitorInv, Verdict, Healthy, Unverified, BothFailed, Verified,
    Stop, loopVars, progressVars, processVars, history
<1>1. MonitorTypeOK'
  <2>1. /\ (at \in {"launch", "transition", "poll", "probe", "sampling",
                "collect", "stopping", "ended"})'
        /\ (outcome \in {"none", "succeeded", "stalled", "cancelled",
                     "failed"})'
        /\ (answer \in {"none", "result", "early", "error"})'
        /\ (process \in {"none", "starting", "spawned", "running",
                     "exited"})'
    BY DEF MonitorTypeOK
  <2>2. (pass \in Stages /\ target \in Stages)'
    BY DEF MonitorTypeOK, Stages
  <2>3. (rounds \in 0..Required)'
    BY DEF MonitorTypeOK, RoundsInv, Supervising
  <2>4. /\ (sinceProgress \in 0..StallTimeout)'
        /\ (sinceProbe \in 0..ProbeInterval)'
    BY DEF MonitorTypeOK
  <2>5. (cancelled \in BOOLEAN /\ terminating \in BOOLEAN)'
    BY DEF MonitorTypeOK
  <2>6. /\ (unread \subseteq Stages /\ wrote \subseteq Stages)'
        /\ (probed \subseteq Stages /\ busy \subseteq Stages)'
        /\ (moved \subseteq Stages)'
    BY DEF MonitorTypeOK
  <2>7. /\ (provider \in [Stages -> {"none", "live", "hung", "exited"}])'
        /\ (silence \in [Stages -> 0..ProbeInterval])'
        /\ (sinceOutput \in [Stages -> 0..StallTimeout])'
    BY DEF MonitorTypeOK
  <2> QED BY <2>1, <2>2, <2>3, <2>4, <2>5, <2>6, <2>7 DEF MonitorTypeOK
<1>2. ClockInv'
  BY DEF MonitorTypeOK, ClockInv, Probing, Stages
<1>3. RoundsInv'
  BY DEF MonitorTypeOK, RoundsInv, Supervising, Probing, Stages
<1>4. TimerInv'
  BY DEF MonitorTypeOK, TimerInv, ClockInv, RoundsInv, Supervising, Probing,
    Alive, Stages
<1>5. ProcessInv'
  BY DEF MonitorTypeOK, ProcessInv, Alive, Stages
<1> QED BY <1>1, <1>2, <1>3, <1>4, <1>5

LEMMA BreakProbeKeepsInv ==
  ASSUME MonitorInv, BreakProbe
  PROVE  MonitorInv'
<1> USE DEF MonitorInv, BreakProbe, Unverified, loopVars, progressVars,
    processVars, history
<1>1. MonitorTypeOK'
  BY DEF RoundsInv, Supervising, MonitorTypeOK, Stages
<1>2. ClockInv'
  BY DEF MonitorTypeOK, ClockInv, Probing, Stages
<1>3. RoundsInv'
  BY DEF MonitorTypeOK, RoundsInv, Supervising, Probing, Stages
<1>4. TimerInv'
  BY DEF MonitorTypeOK, TimerInv, ClockInv, RoundsInv, Supervising, Probing,
    Alive, Stages
<1>5. ProcessInv'
  BY DEF MonitorTypeOK, ProcessInv, Alive, Stages
<1> QED BY <1>1, <1>2, <1>3, <1>4, <1>5

LEMMA CollectKeepsInv ==
  ASSUME MonitorInv, Collect
  PROVE  MonitorInv'
<1> USE DEF MonitorInv, Collect, Leave, loopVars, progressVars, processVars,
    history
<1>1. MonitorTypeOK'
  BY DEF RoundsInv, Supervising, MonitorTypeOK, Stages
<1>2. ClockInv'
  BY DEF MonitorTypeOK, ClockInv, Probing, Stages
<1>3. RoundsInv'
  BY DEF MonitorTypeOK, RoundsInv, Supervising, Probing, Stages
<1>4. TimerInv'
  BY DEF MonitorTypeOK, TimerInv, ClockInv, RoundsInv, Supervising, Probing,
    Alive, Stages
<1>5. ProcessInv'
  BY DEF MonitorTypeOK, ProcessInv, Alive, Stages
<1> QED BY <1>1, <1>2, <1>3, <1>4, <1>5

LEMMA StoppedKeepsInv ==
  ASSUME MonitorInv, Stopped
  PROVE  MonitorInv'
<1> USE DEF MonitorInv, Stopped, loopVars, progressVars, processVars, history
<1>1. MonitorTypeOK'
  BY DEF RoundsInv, Supervising, MonitorTypeOK, Stages
<1>2. ClockInv'
  BY DEF MonitorTypeOK, ClockInv, Probing, Stages
<1>3. RoundsInv'
  BY DEF MonitorTypeOK, RoundsInv, Supervising, Probing, Stages
<1>4. TimerInv'
  BY DEF MonitorTypeOK, TimerInv, ClockInv, RoundsInv, Supervising, Probing,
    Alive, Stages
<1>5. ProcessInv'
  BY DEF MonitorTypeOK, ProcessInv, Alive, Stages
<1> QED BY <1>1, <1>2, <1>3, <1>4, <1>5

LEMMA SpawnProcessKeepsInv ==
  ASSUME MonitorInv, SpawnProcess
  PROVE  MonitorInv'
<1> USE DEF MonitorInv, SpawnProcess, loopVars, progressVars, processVars,
    history
<1>1. MonitorTypeOK'
  BY DEF RoundsInv, Supervising, MonitorTypeOK, Stages
<1>2. ClockInv'
  BY DEF MonitorTypeOK, ClockInv, Probing, Stages
<1>3. RoundsInv'
  BY DEF MonitorTypeOK, RoundsInv, Supervising, Probing, Stages
<1>4. TimerInv'
  BY DEF MonitorTypeOK, TimerInv, ClockInv, RoundsInv, Supervising, Probing,
    Alive, Stages
<1>5. ProcessInv'
  BY DEF MonitorTypeOK, ProcessInv, Alive, Stages
<1> QED BY <1>1, <1>2, <1>3, <1>4, <1>5

LEMMA SendRequestKeepsInv ==
  ASSUME MonitorInv, SendRequest
  PROVE  MonitorInv'
<1> USE DEF MonitorInv, SendRequest, loopVars, progressVars, processVars,
    history
<1>1. MonitorTypeOK'
  BY DEF RoundsInv, Supervising, MonitorTypeOK, Stages
<1>2. ClockInv'
  BY DEF MonitorTypeOK, ClockInv, Probing, Stages
<1>3. RoundsInv'
  BY DEF MonitorTypeOK, RoundsInv, Supervising, Probing, Stages
<1>4. TimerInv'
  BY DEF MonitorTypeOK, TimerInv, ClockInv, RoundsInv, Supervising, Probing,
    Alive, Stages
<1>5. ProcessInv'
  BY DEF MonitorTypeOK, ProcessInv, Alive, Stages
<1> QED BY <1>1, <1>2, <1>3, <1>4, <1>5

LEMMA StartProviderKeepsInv ==
  ASSUME MonitorInv, NEW s \in Stages, StartProvider(s)
  PROVE  MonitorInv'
<1> USE DEF MonitorInv, StartProvider, loopVars, progressVars, processVars,
    history
<1>1. MonitorTypeOK'
  BY DEF RoundsInv, Supervising, MonitorTypeOK, Stages
<1>2. ClockInv'
  BY DEF MonitorTypeOK, ClockInv, Probing, Stages
<1>3. RoundsInv'
  BY DEF MonitorTypeOK, RoundsInv, Supervising, Probing, Stages
<1>4. TimerInv'
  BY DEF MonitorTypeOK, TimerInv, ClockInv, RoundsInv, Supervising, Probing,
    Alive, Stages
<1>5. ProcessInv'
  BY DEF MonitorTypeOK, ProcessInv, Alive, Stages
<1> QED BY <1>1, <1>2, <1>3, <1>4, <1>5

LEMMA WorksKeepsInv ==
  ASSUME MonitorInv, NEW s \in Stages, NEW outputs \in BOOLEAN, Works(s,
    outputs)
  PROVE  MonitorInv'
<1> USE DEF MonitorInv, Works, loopVars, progressVars, processVars, history
<1>1. MonitorTypeOK'
  <2>1. /\ (at \in {"launch", "transition", "poll", "probe", "sampling",
                "collect", "stopping", "ended"})'
        /\ (outcome \in {"none", "succeeded", "stalled", "cancelled",
                     "failed"})'
        /\ (answer \in {"none", "result", "early", "error"})'
        /\ (process \in {"none", "starting", "spawned", "running",
                     "exited"})'
    BY DEF MonitorTypeOK
  <2>2. (pass \in Stages /\ target \in Stages)'
    BY DEF MonitorTypeOK, Stages
  <2>3. (rounds \in 0..Required)'
    BY DEF MonitorTypeOK, RoundsInv, Supervising
  <2>4. /\ (sinceProgress \in 0..StallTimeout)'
        /\ (sinceProbe \in 0..ProbeInterval)'
    BY DEF MonitorTypeOK
  <2>5. (cancelled \in BOOLEAN /\ terminating \in BOOLEAN)'
    BY DEF MonitorTypeOK
  <2>6. /\ (unread \subseteq Stages /\ wrote \subseteq Stages)'
        /\ (probed \subseteq Stages /\ busy \subseteq Stages)'
        /\ (moved \subseteq Stages)'
    BY DEF MonitorTypeOK
  <2>7. /\ (provider \in [Stages -> {"none", "live", "hung", "exited"}])'
        /\ (silence \in [Stages -> 0..ProbeInterval])'
        /\ (sinceOutput \in [Stages -> 0..StallTimeout])'
    BY DEF MonitorTypeOK
  <2> QED BY <2>1, <2>2, <2>3, <2>4, <2>5, <2>6, <2>7 DEF MonitorTypeOK
<1>2. ClockInv'
  BY DEF MonitorTypeOK, ClockInv, Probing, Stages
<1>3. RoundsInv'
  BY DEF MonitorTypeOK, RoundsInv, Supervising, Probing, Stages
<1>4. TimerInv'
  BY DEF MonitorTypeOK, TimerInv, ClockInv, RoundsInv, Supervising, Probing,
    Alive, Stages
<1>5. ProcessInv'
  BY DEF MonitorTypeOK, ProcessInv, Alive, Stages
<1> QED BY <1>1, <1>2, <1>3, <1>4, <1>5

LEMMA HangsKeepsInv ==
  ASSUME MonitorInv, NEW s \in Stages, Hangs(s)
  PROVE  MonitorInv'
<1> USE DEF MonitorInv, Hangs, loopVars, progressVars, processVars, history
<1>1. MonitorTypeOK'
  BY DEF RoundsInv, Supervising, MonitorTypeOK, Stages
<1>2. ClockInv'
  BY DEF MonitorTypeOK, ClockInv, Probing, Stages
<1>3. RoundsInv'
  BY DEF MonitorTypeOK, RoundsInv, Supervising, Probing, Stages
<1>4. TimerInv'
  BY DEF MonitorTypeOK, TimerInv, ClockInv, RoundsInv, Supervising, Probing,
    Alive, Stages
<1>5. ProcessInv'
  BY DEF MonitorTypeOK, ProcessInv, Alive, Stages
<1> QED BY <1>1, <1>2, <1>3, <1>4, <1>5

LEMMA ExitsKeepsInv ==
  ASSUME MonitorInv, NEW s \in Stages, Exits(s)
  PROVE  MonitorInv'
<1> USE DEF MonitorInv, Exits, loopVars, progressVars, processVars, history
<1>1. MonitorTypeOK'
  BY DEF RoundsInv, Supervising, MonitorTypeOK, Stages
<1>2. ClockInv'
  BY DEF MonitorTypeOK, ClockInv, Probing, Stages
<1>3. RoundsInv'
  BY DEF MonitorTypeOK, RoundsInv, Supervising, Probing, Stages
<1>4. TimerInv'
  BY DEF MonitorTypeOK, TimerInv, ClockInv, RoundsInv, Supervising, Probing,
    Alive, Stages
<1>5. ProcessInv'
  BY DEF MonitorTypeOK, ProcessInv, Alive, Stages
<1> QED BY <1>1, <1>2, <1>3, <1>4, <1>5

LEMMA ProcessEndsKeepsInv ==
  ASSUME MonitorInv, NEW a \in {"result", "early", "error"}, ProcessEnds(a)
  PROVE  MonitorInv'
<1> USE DEF MonitorInv, ProcessEnds, loopVars, progressVars, processVars,
    history
<1>1. MonitorTypeOK'
  BY DEF RoundsInv, Supervising, MonitorTypeOK, Stages
<1>2. ClockInv'
  BY DEF MonitorTypeOK, ClockInv, Probing, Stages
<1>3. RoundsInv'
  BY DEF MonitorTypeOK, RoundsInv, Supervising, Probing, Stages
<1>4. TimerInv'
  BY DEF MonitorTypeOK, TimerInv, ClockInv, RoundsInv, Supervising, Probing,
    Alive, Stages
<1>5. ProcessInv'
  BY DEF MonitorTypeOK, ProcessInv, Alive, Stages
<1> QED BY <1>1, <1>2, <1>3, <1>4, <1>5

LEMMA CancelKeepsInv ==
  ASSUME MonitorInv, Cancel
  PROVE  MonitorInv'
<1> USE DEF MonitorInv, Cancel, loopVars, progressVars, processVars, history
<1>1. MonitorTypeOK'
  BY DEF RoundsInv, Supervising, MonitorTypeOK, Stages
<1>2. ClockInv'
  BY DEF MonitorTypeOK, ClockInv, Probing, Stages
<1>3. RoundsInv'
  BY DEF MonitorTypeOK, RoundsInv, Supervising, Probing, Stages
<1>4. TimerInv'
  BY DEF MonitorTypeOK, TimerInv, ClockInv, RoundsInv, Supervising, Probing,
    Alive, Stages
<1>5. ProcessInv'
  BY DEF MonitorTypeOK, ProcessInv, Alive, Stages
<1> QED BY <1>1, <1>2, <1>3, <1>4, <1>5

LEMMA TickKeepsInv ==
  ASSUME MonitorInv, Tick
  PROVE  MonitorInv'
<1> USE DEF MonitorInv, Tick, Older, loopVars, progressVars, processVars,
    history
<1>1. MonitorTypeOK'
  BY DEF RoundsInv, Supervising, MonitorTypeOK, Stages
<1>2. ClockInv'
  BY DEF MonitorTypeOK, ClockInv, Probing, Stages
<1>3. RoundsInv'
  BY DEF MonitorTypeOK, RoundsInv, Supervising, Probing, Stages
<1>4. TimerInv'
  BY DEF MonitorTypeOK, TimerInv, ClockInv, RoundsInv, Supervising, Probing,
    Alive, Stages
<1>5. ProcessInv'
  BY DEF MonitorTypeOK, ProcessInv, Alive, Stages
<1> QED BY <1>1, <1>2, <1>3, <1>4, <1>5

LEMMA StepKeepsInv == MonitorInv /\ [MonitorNext]_monitorVars => MonitorInv'
<1> SUFFICES ASSUME MonitorInv, [MonitorNext]_monitorVars PROVE MonitorInv'
  OBVIOUS
<1>1. CASE LoopStep
  BY <1>1, LaunchKeepsInv, TransitionKeepsInv, PollKeepsInv, BaselineKeepsInv,
     VerdictKeepsInv, BreakProbeKeepsInv, CollectKeepsInv,
    StoppedKeepsInv DEF LoopStep
<1>2. CASE ProcessStep
  BY <1>2, SpawnProcessKeepsInv, SendRequestKeepsInv, StartProviderKeepsInv,
    WorksKeepsInv, HangsKeepsInv, ExitsKeepsInv,
     ProcessEndsKeepsInv DEF ProcessStep
<1>3. CASE Cancel
  BY <1>3, CancelKeepsInv
<1>4. CASE Tick
  BY <1>4, TickKeepsInv
<1>5. CASE UNCHANGED monitorVars
  BY <1>5 DEF monitorVars, loopVars, progressVars, processVars, history,
    MonitorInv, MonitorTypeOK, ClockInv, RoundsInv, TimerInv, ProcessInv,
    Supervising, Probing, Alive
<1> QED BY <1>1, <1>2, <1>3, <1>4, <1>5 DEF MonitorNext

\* The strengthening holds of every run of the loop and its task process.
THEOREM MonitorInvHolds == MonitorSpec => []MonitorInv
  BY InitMonitorInv, StepKeepsInv, PTL DEF MonitorSpec

\* Type correctness of the loop's state; with it, that the counter of failed
\* probes never passes the number that ends the stage.
THEOREM MonitorTypeCorrect == MonitorSpec => []MonitorTypeOK
<1>1. MonitorInv => MonitorTypeOK
  BY DEF MonitorInv
<1> QED BY <1>1, MonitorInvHolds, PTL

\* No model process outlives the cancellation or the stall of its attempt.
THEOREM StopsAreComplete == MonitorSpec => []NoProviderOutlivesStop
<1>1. MonitorInv => NoProviderOutlivesStop
  BY DEF MonitorInv, ProcessInv, NoProviderOutlivesStop
<1> QED BY <1>1, MonitorInvHolds, PTL

\* Only the verdict of a verified probe declares a stage stalled, and then
\* the provider was silent in the kernel and in its receipts.
LEMMA StallStep ==
  ASSUME MonitorInv, [MonitorNext]_monitorVars,
         outcome # "stalled", outcome' = "stalled"
  PROVE  /\ silence[pass] + Delay >= ProbeInterval
         /\ sinceOutput[pass] + Delay >= StallTimeout
<1>1. Verdict
  <2>1. CASE LoopStep
    BY <2>1 DEF LoopStep, Launch, Transition, Poll, Baseline, BreakProbe,
      Unverified, Collect, Stopped, Stop, Leave
  <2>2. CASE ProcessStep
    BY <2>2 DEF ProcessStep, SpawnProcess, SendRequest, StartProvider, Works,
    Hangs, Exits, ProcessEnds
  <2>3. CASE Cancel \/ Tick \/ UNCHANGED monitorVars
    BY <2>3 DEF Cancel, Tick, monitorVars
  <2> QED BY <2>1, <2>2, <2>3 DEF MonitorNext
<1>2. /\ at = "sampling" /\ Alive(target) /\ target = pass
      /\ target \notin busy /\ rounds + 1 >= Required
  BY <1>1 DEF Verdict, Verified, Unverified, Healthy, BothFailed
<1>3. rounds >= 1
  BY <1>2 DEF MonitorInv, MonitorTypeOK
<1> QED BY <1>2, <1>3 DEF MonitorInv, TimerInv, Probing

\* A stage is declared stalled only on the silence of its own provider.
THEOREM StallsAreJustified == MonitorSpec => StallIsJustified
<1>1. MonitorInv /\ [MonitorNext]_monitorVars =>
        [outcome # "stalled" /\ outcome' = "stalled" =>
           /\ silence[pass] + Delay >= ProbeInterval
           /\ sinceOutput[pass] + Delay >= StallTimeout]_monitorVars
  BY StallStep
<1> QED BY <1>1, MonitorInvHolds, PTL DEF MonitorSpec, StallIsJustified
=============================================================================
