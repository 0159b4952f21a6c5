------------------------- MODULE ReleaseSwitchProofs -------------------------
(***************************************************************************)
(* The safety of a deployment, for any number of subjects and releases,    *)
(* any number of deployments, and whatever fails or dies.  The inductive   *)
(* invariant follows the script: what it has put in place and what it has  *)
(* put back when it reaches each phase, while daemons come and go.         *)
(***************************************************************************)
EXTENDS ReleaseSwitch, TLAPS

\* What the script's loop over the sequence q has done.
Done(q) == {q[i] : i \in 1..(at - 1)}
Quiet == \A s \in Services : ~ Live(s)
NoTasks == \A s \in Subjects : task[s] = "none"
OwnersKept == \A s \in Subjects : gate[s].release = Deployment.owner[s]
\* The gates are read, and nothing has run since: a task that is there was
\* left behind by a killed daemon, and its gate is as it was read.
Calm == /\ Quiet
        /\ \A s \in Subjects : task[s] # "none" =>
             proc[s] = None /\ gate[s] = tx.snapshot[s]

\* The script's phases.
Beginning == {"backup", "stop", "wait"}
Preparing == {"retire", "profiles", "switch", "install", "bind"}
Fencing == {"probe", "disable target", "bootout target", "await", "pause",
            "fenced", "disarm"}
Draining == {"disable", "drain", "bootout"}
Restoring == {"stop target", "restore plists", "restore profiles",
              "restore gates", "relink"}
Labels == {"idle", "arm", "start", "verify", "commit", "restart", "close"}
          \cup Beginning \cup Preparing \cup Fencing \cup Draining
          \cup Restoring
OverSubjects == {"retire", "arm", "await", "pause", "disarm", "restore gates"}

ProperGates == {g \in Gates : g.state = "absent" <=> g = NoGate}
Deployments ==
  [target : Releases, previous : Maybe, canary : BOOLEAN,
   status : {"open", "committed", "rolled_back", "incomplete", "blocked"},
   marker : BOOLEAN, proofs : BOOLEAN, plist : [Services -> Maybe],
   profile : Maybe \cup {Mixed}, owner : [Subjects -> Maybe]]
Transactions ==
  [flags : SUBSET Flags, snapshot : [Subjects -> ProperGates],
   fence : SUBSET Subjects, busy : SUBSET Subjects, ready : SUBSET Subjects]
TypesInv ==
  /\ link \in Maybe /\ plist \in [Services -> Maybe]
  /\ enabled \subseteq Services /\ proc \in [Services -> Maybe]
  /\ stopping \subseteq {s \in Services : proc[s] # None}
  /\ moved \in BOOLEAN /\ profile \in Maybe \cup {Mixed}
  /\ gate \in [Subjects -> ProperGates] /\ telemetry \in Maybe
  /\ task \in [Subjects -> {"none", "claimed", "model"}]
  /\ log \in Seq(Deployments) /\ Len(log) <= Activations
  /\ pc \in Labels /\ at \in 1..Len(Topology)
  /\ pc \in OverSubjects => at <= Len(Order)
  /\ tx \in Transactions

\* Only the last prepare can be open, and the one of a running script is.
JournalInv ==
  /\ \A i \in DOMAIN log : i < Len(log) => ~ IsOpen(log[i])
  /\ pc # "idle" => log # <<>> /\ Deployment.status = "open"

\* Which phases a script of either kind goes through, and what it has
\* noted by then.
CourseInv ==
  /\ pc \in Beginning => tx = NoTx /\ link = Previous
  /\ pc \in Fencing \cup {"retire", "arm"} => Deployment.canary
  /\ pc \in Draining => ~ Deployment.canary
  /\ pc \in {"arm", "start", "verify"} => {"services", "gates"} \cap tx.flags # {}
  /\ pc \in Preparing \cup {"arm", "start", "verify"} \cup Fencing =>
       (Deployment.canary /\ Previous # None => Has("snapshot"))
  /\ pc # "idle" /\ Has("snapshot") => Deployment.canary
  /\ pc = "restore gates" => Has("snapshot")

\* Processes that serve run what `current` points to, so it is moved only
\* when none serves.
ServingInv ==
  /\ \A s \in Services : Live(s) => proc[s] = link
  /\ pc \in Preparing \cup {"arm", "disarm"} => Quiet
  /\ pc \in Restoring => Quiet \/ link = Previous
  /\ pc \in {"start", "verify"} \cup Draining /\ ~ Deployment.canary
       => \A s \in Subjects : ~ Live(s)
  /\ pc = "bootout target" =>
       Has("errors") \/ \A s \in Done(Topology) : ~ Live(s)
  /\ pc \in {"await", "pause", "fenced"} => Has("errors") \/ Quiet

\* A task has a gate in use; gates that are written have no task.
TasksHaveGates ==
  \A s \in Subjects : task[s] # "none" =>
    gate[s].release # None /\ gate[s].state \notin {"absent", "inactive"}
TaskInv ==
  /\ TasksHaveGates
  /\ pc \in {"disable target", "bootout target", "await", "pause"}
       => \A s \in tx.fence : gate[s].release = Target
  /\ pc = "disarm" => NoTasks
  /\ pc \in (Preparing \cup Restoring) \ {"relink"} /\ Has("snapshot") => Calm

\* What the script has installed, or has put back.
FilesInv ==
  /\ pc # "idle" /\ ~ Has("tried") => profile = Deployment.profile
  /\ pc \in {"switch", "install", "bind", "arm", "start", "verify", "commit"}
       => profile = Target
  /\ pc = "commit" => link = Target /\ \A s \in Services : plist[s] = Target
  /\ pc = "restore plists" =>
       \A s \in Done(Topology) : plist[s] = Deployment.plist[s]
  /\ ~ Has("errors") =>
       /\ pc \in {"restore profiles", "restore gates", "relink", "restart",
                  "close"} => plist = Deployment.plist
       /\ pc \in {"restore gates", "relink", "restart", "close"}
            => profile = Deployment.profile
       /\ pc \in {"restart", "close"} => link = Previous

\* Whose the gates are.
Handed(s) == Previous = None /\ gate[s].state = "inactive"
OwnerInv ==
  /\ pc # "idle" /\ Has("snapshot") =>
       \A s \in Subjects : tx.snapshot[s].release = Deployment.owner[s]
  /\ pc \in Beginning \cup Preparing \cup {"stop target"} => OwnersKept
  /\ pc \in {"start", "verify"} \cup Draining /\ ~ Deployment.canary => OwnersKept
  /\ pc \in {"arm", "start", "verify"} \cup Fencing /\ Deployment.canary =>
       \A s \in Subjects : gate[s].release \in {Deployment.owner[s], Target}
  /\ pc = "disarm" =>
       \A s \in Done(Order) : gate[s].state \in {"absent", "inactive"}
  /\ pc \in {"restore plists", "restore profiles", "relink", "restart", "close"}
     /\ ~ Has("snapshot") =>
       \A s \in Subjects : gate[s].release = Deployment.owner[s] \/ Handed(s)
  /\ pc = "restore gates" =>
       \A s \in Done(Order) : gate[s].release = Deployment.owner[s]
  /\ pc \in {"relink", "restart", "close"} /\ Has("snapshot") /\ ~ Has("errors")
       => OwnersKept
  /\ pc = "commit" /\ Deployment.canary => Owned = Subjects /\ telemetry = Target

SwitchInv == /\ TypesInv /\ JournalInv /\ CourseInv /\ ServingInv /\ TaskInv
             /\ FilesInv /\ OwnerInv /\ ReceiptIsTrue

USE OrderAssumption

-----------------------------------------------------------------------------
(* Sequences, deployments and records.                                     *)

\* The script walks over every subject, and then over the dashboard.
LEMMA TopologyFacts ==
  /\ Len(Order) \in Nat /\ Len(Topology) = Len(Order) + 1
  /\ Subjects # {} /\ Subjects \subseteq Services /\ Dashboard \in Services
  /\ \A i \in 1..Len(Order) : Order[i] \in Subjects /\ Topology[i] = Order[i]
  /\ \A i \in 1..Len(Topology) : Topology[i] \in Services
  /\ \A i \in 1..Len(Topology) : Topology[i] = Dashboard <=> i = Len(Topology)
  /\ \A s \in Subjects : \E i \in 1..Len(Order) : Order[i] = s
  /\ \A s \in Services : \E i \in 1..Len(Topology) : Topology[i] = s
PROOF
<1>1. Order \in Seq(Subjects) /\ Len(Order) \in Nat /\ Len(Order) > 0
  BY DEF Subjects
<1>2. DOMAIN Order = 1..Len(Order)
  BY <1>1
<1>3. Subjects = {Order[i] : i \in 1..Len(Order)}
  BY <1>2 DEF Subjects, ToSet
<1>4. /\ Len(Topology) = Len(Order) + 1
      /\ \A i \in 1..Len(Order) : Topology[i] = Order[i]
      /\ Topology[Len(Order) + 1] = Dashboard
  BY <1>1 DEF Topology, Services
<1>5. \A s \in Subjects : \E i \in 1..Len(Order) : Order[i] = s
  BY <1>3
<1>6. Subjects # {}
  <2>1. 1 \in 1..Len(Order)
    BY <1>1
  <2>2. Order[1] \in Subjects
    BY <2>1, <1>3
  <2> QED
    BY <2>2
<1>7. \A i \in 1..Len(Topology) : i \in 1..Len(Order) \/ i = Len(Order) + 1
  BY <1>1, <1>4
<1>8. \A i \in 1..Len(Order) : Order[i] \in Subjects
  BY <1>3
<1>9. \A s \in Services : \E i \in 1..Len(Topology) : Topology[i] = s
  <2>1. ASSUME NEW s \in Subjects PROVE \E i \in 1..Len(Topology) : Topology[i] = s
    <3>1. PICK i \in 1..Len(Order) : Order[i] = s
      BY <1>5
    <3> QED
      BY <1>1, <1>4, <3>1
  <2>2. Len(Order) + 1 \in 1..Len(Topology)
    BY <1>1, <1>4
  <2> QED
    BY <1>4, <2>1, <2>2 DEF Services
<1>10. /\ \A i \in 1..Len(Topology) : Topology[i] \in Services
       /\ \A i \in 1..Len(Topology) : Topology[i] = Dashboard <=> i = Len(Topology)
  BY <1>1, <1>4, <1>7, <1>8 DEF Services
<1>11. Subjects \subseteq Services /\ Dashboard \in Services
  BY DEF Services
<1>12. \A i \in 1..Len(Order) : Order[i] \in Subjects /\ Topology[i] = Order[i]
  BY <1>4, <1>8
<1> QED
  BY <1>1, <1>4, <1>5, <1>6, <1>9, <1>10, <1>11, <1>12

\* Where a loop of the script stands.
LEMMA DoneFacts ==
  ASSUME TypesInv
  PROVE  /\ Topology[at] \in Services /\ Done(Topology) \subseteq Services
         /\ at <= Len(Order) => Order[at] \in Subjects /\ Done(Order) \subseteq Subjects
PROOF
<1>1. /\ at \in Nat /\ at > 0 /\ Len(Order) \in Nat /\ Len(Topology) = Len(Order) + 1
      /\ at <= Len(Topology)
  BY TopologyFacts DEF TypesInv
<1>2. at \in 1..Len(Topology) /\ \A i \in 1..(at - 1) : i \in 1..Len(Topology)
  BY <1>1
<1>3. at <= Len(Order) =>
        at \in 1..Len(Order) /\ \A i \in 1..(at - 1) : i \in 1..Len(Order)
  BY <1>1
<1> QED
  BY <1>2, <1>3, TopologyFacts DEF Done

LEMMA GotoFacts ==
  ASSUME NEW p, Goto(p)
  PROVE  /\ pc' = p /\ at' \in 1..Len(Topology) /\ at' <= Len(Order)
         /\ Done(Topology)' = {} /\ Done(Order)' = {}
PROOF
<1>1. pc' = p /\ at' = 1
  BY DEF Goto
<1>2. Len(Order) \in Nat /\ Len(Order) > 0 /\ Len(Topology) = Len(Order) + 1
  BY TopologyFacts
<1> QED
  BY <1>1, <1>2 DEF Done

\* A loop over all services ends with the dashboard.
LEMMA ServiceLoop ==
  ASSUME TypesInv, NEW p, Continue(Topology, p)
  PROVE  /\ at' \in 1..Len(Topology) /\ Topology[at] \in Services
         /\ Done(Topology) \subseteq Services
         /\ \/ pc' = pc /\ Done(Topology)' = Done(Topology) \cup {Topology[at]}
            \/ /\ Goto(p) /\ Done(Topology) \cup {Topology[at]} = Services
               /\ Topology[at] = Dashboard
PROOF
<1>1. /\ at \in Nat /\ at > 0 /\ Len(Topology) \in Nat /\ at <= Len(Topology)
  BY TopologyFacts DEF TypesInv
<1>2. Topology[at] \in Services /\ Done(Topology) \subseteq Services
  BY DoneFacts
<1>3. CASE at < Len(Topology)
  <2>1. pc' = pc /\ at' = at + 1
    BY <1>3 DEF Continue
  <2>2. at' \in 1..Len(Topology) /\ 1..(at' - 1) = 1..(at - 1) \cup {at}
    BY <1>1, <1>3, <2>1
  <2> QED
    BY <1>2, <2>1, <2>2 DEF Done
<1>4. CASE ~ (at < Len(Topology))
  <2>1. Goto(p) /\ at = Len(Topology)
    BY <1>1, <1>4 DEF Continue
  <2>2. 1..Len(Topology) = 1..(at - 1) \cup {at}
    BY <1>1, <2>1
  <2>3. Done(Topology) \cup {Topology[at]} = Services
    BY <2>2, TopologyFacts DEF Done
  <2>4. Topology[at] = Dashboard
    BY <1>1, <2>1, TopologyFacts
  <2> QED
    BY <1>2, <2>1, <2>3, <2>4, GotoFacts
<1> QED
  BY <1>3, <1>4

LEMMA SubjectLoop ==
  ASSUME TypesInv, pc \in OverSubjects, NEW p, Continue(Order, p)
  PROVE  /\ at' \in 1..Len(Topology) /\ at' <= Len(Order)
         /\ Order[at] \in Subjects /\ Done(Order) \subseteq Subjects
         /\ \/ pc' = pc /\ Done(Order)' = Done(Order) \cup {Order[at]}
            \/ Goto(p) /\ Done(Order) \cup {Order[at]} = Subjects
PROOF
<1>1. /\ at \in Nat /\ at > 0 /\ Len(Order) \in Nat /\ at <= Len(Order)
      /\ Len(Topology) = Len(Order) + 1
  BY TopologyFacts DEF TypesInv
<1>2. Order[at] \in Subjects /\ Done(Order) \subseteq Subjects
  BY <1>1, DoneFacts
<1>3. CASE at < Len(Order)
  <2>1. pc' = pc /\ at' = at + 1
    BY <1>3 DEF Continue
  <2>2. /\ at' \in 1..Len(Topology) /\ at' <= Len(Order)
        /\ 1..(at' - 1) = 1..(at - 1) \cup {at}
    BY <1>1, <1>3, <2>1
  <2> QED
    BY <1>2, <2>1, <2>2 DEF Done
<1>4. CASE ~ (at < Len(Order))
  <2>1. Goto(p) /\ at = Len(Order)
    BY <1>1, <1>4 DEF Continue
  <2>2. 1..Len(Order) = 1..(at - 1) \cup {at}
    BY <1>1, <2>1
  <2>3. Done(Order) \cup {Order[at]} = {Order[i] : i \in 1..Len(Order)}
    BY <2>2 DEF Done
  <2>4. Subjects = {Order[i] : i \in 1..Len(Order)}
    BY TopologyFacts
  <2> QED
    BY <1>2, <2>1, <2>3, <2>4, GotoFacts
<1> QED
  BY <1>3, <1>4

\* The deployment in progress, or the last one.
LEMMA DeploymentFacts ==
  ASSUME TypesInv, log # <<>>
  PROVE  /\ Deployment \in Deployments
         /\ Len(log) \in Nat /\ Len(log) > 0 /\ Len(log) \in DOMAIN log
         /\ Target \in Releases /\ Target # None /\ Previous \in Maybe
         /\ Deployment.canary \in BOOLEAN
         /\ Deployment.plist \in [Services -> Maybe]
         /\ Deployment.profile \in Maybe \cup {Mixed}
         /\ Deployment.owner \in [Subjects -> Maybe]
PROOF
<1>1. log \in Seq(Deployments) /\ Len(log) \in Nat /\ Len(log) > 0
  BY DEF TypesInv
<1>2. Deployment \in Deployments /\ Len(log) \in DOMAIN log
  BY <1>1 DEF Deployment
<1> QED
  BY <1>1, <1>2 DEF Deployments, Target, Previous

\* A close changes the status of the deployment, and that alone.
LEMMA CloseFacts ==
  ASSUME SwitchInv, pc # "idle", NEW st, Close(st),
         st \in {"committed", "rolled_back", "incomplete", "blocked"}
  PROVE  /\ pc' = "idle" /\ at' = 1 /\ tx' = NoTx
         /\ log' \in Seq(Deployments) /\ Len(log') = Len(log) /\ log' # <<>>
         /\ JournalInv'
         /\ Deployment' = [Deployment EXCEPT !.status = st,
                                             !.proofs = Has("proofs")]
         /\ Deployment'.status = st
         /\ Target' = Target /\ Previous' = Previous
         /\ Deployment'.canary = Deployment.canary
         /\ Deployment'.plist = Deployment.plist
         /\ Deployment'.profile = Deployment.profile
         /\ Deployment'.owner = Deployment.owner
PROOF
<1> DEFINE d == [Deployment EXCEPT !.status = st, !.proofs = Has("proofs")]
<1>1. log # <<>> /\ TypesInv
  BY DEF SwitchInv, JournalInv
<1>2. /\ Deployment \in Deployments /\ log \in Seq(Deployments)
      /\ Len(log) \in Nat /\ Len(log) > 0 /\ Len(log) \in DOMAIN log
  BY <1>1, DeploymentFacts DEF TypesInv
<1>3. Has("proofs") \in BOOLEAN
  BY DEF Has
<1>4. d \in Deployments
  BY <1>2, <1>3 DEF Deployments
<1>5. log' = [log EXCEPT ![Len(log)] = d]
  BY <1>2 DEF Close, Deployment
<1>6. /\ d.status = st /\ d.target = Deployment.target
      /\ d.previous = Deployment.previous /\ d.canary = Deployment.canary
      /\ d.plist = Deployment.plist /\ d.profile = Deployment.profile
      /\ d.owner = Deployment.owner
  BY <1>2 DEF Deployments
<1> HIDE DEF d
<1>7. /\ log' \in Seq(Deployments) /\ Len(log') = Len(log) /\ log' # <<>>
      /\ log'[Len(log)] = d
      /\ \A i \in DOMAIN log' : i \in DOMAIN log /\ (i < Len(log) => log'[i] = log[i])
  BY <1>2, <1>4, <1>5
<1>8. pc' = "idle" /\ at' = 1 /\ tx' = NoTx
  BY DEF Close, Goto
<1>9. JournalInv'
  BY <1>7, <1>8 DEF SwitchInv, JournalInv, IsOpen
<1>10. Deployment' = d
  BY <1>7 DEF Deployment
<1> QED
  BY <1>6, <1>7, <1>8, <1>9, <1>10 DEF Target, Previous, d

-----------------------------------------------------------------------------
(* Daemons, deaths and receipts.                                           *)

\* What daemons do between two steps of the script: one exits, takes a task
\* through an armed gate of its own release, or ends one.
DaemonMoves ==
  /\ UNCHANGED <<enabled, files, telemetry, log, pc, at, tx>>
  /\ proc' \in [Services -> Maybe] /\ moved' \in BOOLEAN
  /\ stopping' \subseteq {s \in Services : proc'[s] # None}
  /\ gate' \in [Subjects -> ProperGates]
  /\ task' \in [Subjects -> {"none", "claimed", "model"}]
  /\ \A s \in Services : proc'[s] \in {proc[s], None} /\ (Live(s)' => Live(s))
  /\ \A s \in Subjects :
       /\ gate'[s].release = gate[s].release
       /\ task'[s] = "none" \/ gate'[s] = gate[s]
       /\ gate'[s] = gate[s] \/ gate[s].state \notin {"absent", "inactive"}
       /\ task[s] = "none" => gate'[s] = gate[s]
       /\ task[s] = "none" /\ task'[s] # "none" =>
            Live(s) /\ gate[s].state = "armed" /\ gate[s].release # None

LEMMA DaemonStep ==
  ASSUME SwitchInv, DaemonMoves
  PROVE  SwitchInv'
PROOF
<1>1. TypesInv /\ JournalInv /\ CourseInv /\ ServingInv /\ TaskInv /\ FilesInv
      /\ OwnerInv /\ ReceiptIsTrue
  BY DEF SwitchInv
<1>2. /\ pc' = pc /\ at' = at /\ tx' = tx /\ log' = log /\ link' = link
      /\ plist' = plist /\ profile' = profile /\ telemetry' = telemetry
  BY DEF DaemonMoves, files
<1>3. /\ Deployment' = Deployment /\ Target' = Target /\ Previous' = Previous
      /\ \A f : Has(f)' <=> Has(f)
  BY <1>2 DEF Deployment, Target, Previous, Has
<1>4. TypesInv'
  BY <1>1, <1>2 DEF TypesInv, DaemonMoves
<1>5. JournalInv'
  BY <1>1, <1>2, <1>3 DEF JournalInv, IsOpen
<1>6. CourseInv'
  BY <1>1, <1>2, <1>3 DEF CourseInv
<1>7. /\ \A s \in Services : Live(s)' => Live(s) /\ proc'[s] = proc[s]
      /\ Quiet => Quiet'
  BY DEF DaemonMoves, Live, Quiet
<1>8. ServingInv'
  <2>1. Done(Topology)' = Done(Topology) /\ Done(Topology) \subseteq Services
    BY <1>1, <1>2, DoneFacts DEF Done
  <2>2. Subjects \subseteq Services
    BY TopologyFacts
  <2> QED
    BY <1>1, <1>2, <1>3, <1>7, <2>1, <2>2 DEF ServingInv
<1>9. TaskInv'
  <2>1. TasksHaveGates'
    BY <1>1 DEF TaskInv, TasksHaveGates, DaemonMoves
  <2>2. tx.fence \subseteq Subjects
    BY <1>1 DEF TypesInv, Transactions
  <2>3. Quiet /\ NoTasks => NoTasks'
    BY TopologyFacts DEF Quiet, NoTasks, DaemonMoves
  <2>4. pc = "disarm" => Quiet /\ NoTasks
    BY <1>1 DEF ServingInv, TaskInv
  <2>5. Calm => Calm'
    <3> SUFFICES ASSUME Calm, NEW s \in Subjects, task'[s] # "none"
                 PROVE  proc'[s] = None /\ gate'[s] = tx'.snapshot[s]
      BY <1>7 DEF Calm
    <3>1. s \in Services /\ ~ Live(s)
      BY TopologyFacts DEF Calm, Quiet
    <3>2. task[s] # "none" /\ gate'[s] = gate[s] /\ proc'[s] \in {proc[s], None}
      BY <3>1 DEF DaemonMoves
    <3> QED
      BY <1>2, <3>2 DEF Calm
  <2> QED
    BY <1>1, <1>2, <1>3, <2>1, <2>2, <2>3, <2>4, <2>5 DEF TaskInv, DaemonMoves
<1>10. FilesInv'
  <2>1. Done(Topology)' = Done(Topology)
    BY <1>2 DEF Done
  <2> QED
    BY <1>1, <1>2, <1>3, <2>1 DEF FilesInv
<1>11. /\ \A s \in Subjects : gate'[s].release = gate[s].release
       /\ \A s \in Subjects : gate[s].state \in {"absent", "inactive"}
            => gate'[s].state = gate[s].state
       /\ Owned' = Owned /\ (OwnersKept => OwnersKept')
       /\ \A s \in Subjects : Handed(s) => Handed(s)'
  BY <1>3 DEF DaemonMoves, Owned, OwnersKept, Handed
<1>12. OwnerInv'
  <2>1. Done(Order)' = Done(Order)
    BY <1>2 DEF Done
  <2>2. pc \in OverSubjects => Done(Order) \subseteq Subjects
    BY <1>1, DoneFacts DEF TypesInv
  <2> QED
    BY <1>1, <1>2, <1>3, <1>11, <2>1, <2>2 DEF OwnerInv, OverSubjects
<1>13. ReceiptIsTrue'
  <2> DEFINE serving == {proc[s] : s \in {t \in Services : Live(t)}}
  <2>1. serving' \subseteq serving
    BY <1>7
  <2>2. Idle' <=> Idle
    BY <1>2 DEF Idle
  <2>3. \A s \in Subjects : gate[s].state = "inactive" => gate'[s].state = "inactive"
    BY <1>11
  <2> QED
    BY <1>1, <1>2, <1>3, <1>11, <2>1, <2>2, <2>3 DEF ReceiptIsTrue
<1> QED
  BY <1>4, <1>5, <1>6, <1>8, <1>9, <1>10, <1>12, <1>13 DEF SwitchInv

\* The installation stays as it is when the script dies, before the receipt
\* of its deployment is closed, or when the machine restarts.
LEMMA HaltStep ==
  ASSUME SwitchInv, Goto("idle"), tx' = NoTx,
         UNCHANGED <<enabled, files, gate, telemetry, log>>,
         proc' \in [Services -> Maybe], moved' \in BOOLEAN,
         stopping' \subseteq {s \in Services : proc'[s] # None},
         task' \in [Subjects -> {"none", "claimed", "model"}],
         \A s \in Services : Live(s)' => proc'[s] = link,
         \A s \in Subjects : task[s] = "none" => task'[s] = "none"
  PROVE  SwitchInv'
PROOF
<1>1. TypesInv /\ JournalInv /\ TaskInv /\ ReceiptIsTrue
  BY DEF SwitchInv
<1>2. /\ pc' = "idle" /\ log' = log /\ link' = link /\ gate' = gate
      /\ plist' = plist /\ profile' = profile /\ telemetry' = telemetry
      /\ at' \in 1..Len(Topology)
  BY GotoFacts DEF files
<1>3. Deployment' = Deployment /\ Target' = Target /\ Previous' = Previous
  BY <1>2 DEF Deployment, Target, Previous
<1>4. NoTx \in Transactions
  BY DEF NoTx, NoGates, NoGate, Transactions, ProperGates, Gates, Maybe
<1>5. TypesInv'
  BY <1>1, <1>2, <1>4 DEF TypesInv, Labels, OverSubjects
<1>6. JournalInv'
  BY <1>1, <1>2 DEF JournalInv, IsOpen
<1>7. CourseInv' /\ FilesInv' /\ OwnerInv'
  BY <1>2 DEF CourseInv, FilesInv, OwnerInv, Beginning, Preparing, Fencing,
              Draining
<1>8. ServingInv'
  BY <1>2 DEF ServingInv, Preparing, Restoring, Draining
<1>9. TaskInv'
  BY <1>1, <1>2 DEF TaskInv, TasksHaveGates, Preparing, Restoring
<1>10. ReceiptIsTrue'
  <2>1. CASE pc = "idle"
    <3> DEFINE serving == {proc[s] : s \in {t \in Services : Live(t)}}
    <3>1. serving' \subseteq {link}
      OBVIOUS
    <3>2. Idle' <=> Idle
      BY <2>1, <1>2 DEF Idle
    <3>3. Owned' = Owned
      BY <1>2, <1>3 DEF Owned
    <3> QED
      BY <1>1, <1>2, <1>3, <3>1, <3>2, <3>3 DEF ReceiptIsTrue
  <2>2. CASE pc # "idle"
    <3>1. Deployment'.status = "open"
      BY <2>2, <1>1, <1>3 DEF JournalInv
    <3> QED
      BY <3>1 DEF ReceiptIsTrue
  <2> QED
    BY <2>1, <2>2
<1> QED
  BY <1>5, <1>6, <1>7, <1>8, <1>9, <1>10 DEF SwitchInv

\* A receipt that claims what is true ends the script.
LEMMA CloseStep ==
  ASSUME SwitchInv, pc # "idle", NEW st, Close(st),
         st \in {"committed", "rolled_back", "incomplete", "blocked"},
         UNCHANGED <<services, files, task>>,
         gate' \in [Subjects -> ProperGates], telemetry' \in Maybe,
         TasksHaveGates', ReceiptIsTrue'
  PROVE  SwitchInv'
PROOF
<1>1. TypesInv /\ ServingInv
  BY DEF SwitchInv
<1>2. /\ pc' = "idle" /\ tx' = NoTx /\ JournalInv'
      /\ log' \in Seq(Deployments) /\ Len(log') = Len(log)
  BY CloseFacts
<1>3. /\ link' = link /\ plist' = plist /\ profile' = profile /\ task' = task
      /\ enabled' = enabled /\ proc' = proc /\ stopping' = stopping
      /\ moved' = moved
  BY DEF services, files
<1>4. NoTx \in Transactions
  BY DEF NoTx, NoGates, NoGate, Transactions, ProperGates, Gates, Maybe
<1>5. at' \in 1..Len(Topology)
  BY GotoFacts DEF Close
<1>6. TypesInv'
  BY <1>1, <1>2, <1>3, <1>4, <1>5 DEF TypesInv, Labels, OverSubjects
<1>7. CourseInv' /\ FilesInv' /\ OwnerInv'
  BY <1>2 DEF CourseInv, FilesInv, OwnerInv, Beginning, Preparing, Fencing,
              Draining
<1>8. ServingInv'
  BY <1>1, <1>2, <1>3 DEF ServingInv, Live, Preparing, Restoring, Draining
<1>9. TaskInv'
  BY <1>2 DEF TaskInv, Preparing, Restoring
<1> QED
  BY <1>2, <1>6, <1>7, <1>8, <1>9 DEF SwitchInv

\* The handler that gives up claims nothing.
LEMMA BlockStep ==
  ASSUME SwitchInv, pc # "idle", Block, UNCHANGED <<services, files, task>>,
         gate' \in [Subjects -> ProperGates], telemetry' \in Maybe,
         TasksHaveGates'
  PROVE  SwitchInv'
PROOF
<1>1. Deployment'.status = "blocked"
  BY CloseFacts DEF Block
<1>2. ReceiptIsTrue'
  BY <1>1 DEF ReceiptIsTrue
<1> QED
  BY <1>2, CloseStep DEF Block

\* What holds of the state in which a step of the script starts.
LEMMA ScriptFacts ==
  ASSUME SwitchInv, pc # "idle"
  PROVE  /\ TypesInv /\ JournalInv /\ CourseInv /\ ServingInv /\ TaskInv
         /\ FilesInv /\ OwnerInv
         /\ log # <<>> /\ Deployment \in Deployments
         /\ Target \in Releases /\ Target # None /\ Previous \in Maybe
         /\ Deployment.canary \in BOOLEAN
         /\ Deployment.plist \in [Services -> Maybe]
         /\ Deployment.profile \in Maybe \cup {Mixed}
         /\ Deployment.owner \in [Subjects -> Maybe]
         /\ tx \in Transactions /\ tx.flags \subseteq Flags
PROOF
<1>1. /\ TypesInv /\ JournalInv /\ CourseInv /\ ServingInv /\ TaskInv
      /\ FilesInv /\ OwnerInv /\ log # <<>>
  BY DEF SwitchInv, JournalInv
<1>2. tx \in Transactions
  BY <1>1 DEF TypesInv
<1>3. tx.flags \subseteq Flags
  BY <1>2 DEF Transactions
<1> QED
  BY <1>1, <1>2, <1>3, DeploymentFacts

\* Nor does a step of a script that goes on claim anything.
LEMMA GoesOn ==
  ASSUME SwitchInv, pc # "idle", pc' # "idle", log' = log
  PROVE  /\ JournalInv' /\ ReceiptIsTrue'
         /\ Deployment' = Deployment /\ Target' = Target /\ Previous' = Previous
PROOF
<1>1. Deployment' = Deployment /\ Target' = Target /\ Previous' = Previous
  BY DEF Deployment, Target, Previous
<1>2. JournalInv'
  BY <1>1 DEF SwitchInv, JournalInv, IsOpen
<1>3. ReceiptIsTrue'
  BY DEF ReceiptIsTrue, Idle
<1> QED
  BY <1>1, <1>2, <1>3

-----------------------------------------------------------------------------
(* The activation.                                                         *)

\* The phases of the try block, all but its end.
Trying == (Beginning \ {"backup"}) \cup Preparing \cup {"arm", "start", "verify"}

\* A step of the try block raises: whatever it has changed by then, the
\* handler finds the state it counts on.
LEMMA RaiseStep ==
  ASSUME SwitchInv, pc \in Trying, NEW t \in Transactions, Raise(t),
         t.snapshot = tx.snapshot, tx.flags \subseteq t.flags,
         t.flags \subseteq tx.flags \cup {"tried", "running"},
         UNCHANGED <<link, plist, task, log>>,
         enabled' \subseteq Services, proc' \in [Services -> Maybe],
         stopping' \subseteq {s \in Services : proc'[s] # None},
         moved' \in BOOLEAN, profile' \in Maybe \cup {Mixed},
         gate' \in [Subjects -> ProperGates], telemetry' \in Maybe,
         pc # "start" => UNCHANGED <<proc, stopping>>,
         pc = "start" => /\ \A s \in Services : Live(s)' => proc'[s] = link
                         /\ ~ Deployment.canary => \A s \in Subjects : ~ Live(s)',
         "tried" \notin t.flags => profile' = profile,
         \A s \in Subjects : /\ task[s] # "none" => gate'[s] = gate[s]
                             /\ \/ gate'[s].release = gate[s].release
                                \/ pc = "arm" /\ gate'[s].release = Target
  PROVE  SwitchInv'
PROOF
<1> DEFINE begun == {"services", "gates"} \cap t.flags # {}
<1>1. pc # "idle" /\ pc # "commit"
  BY DEF Trying, Beginning, Preparing
<1>2. /\ TypesInv /\ CourseInv /\ ServingInv /\ TaskInv /\ FilesInv /\ OwnerInv
      /\ Deployment.canary \in BOOLEAN
  BY <1>1, ScriptFacts
<1>3. /\ tx' = t /\ pc' \in {"probe", "disable", "restore plists", "stop target"}
      /\ begun => pc' = IF Deployment.canary THEN "probe" ELSE "disable"
      /\ ~ begun => pc' \in {"restore plists", "stop target"}
      /\ Goto(pc')
  BY DEF Raise, Goto
<1>4. /\ begun <=> {"services", "gates"} \cap tx.flags # {}
      /\ \A f : Has(f) => f \in t.flags
      /\ "snapshot" \in t.flags => Has("snapshot")
  BY DEF Has
<1> HIDE DEF begun
<1>5. /\ JournalInv' /\ ReceiptIsTrue'
      /\ Deployment' = Deployment /\ Target' = Target /\ Previous' = Previous
  BY <1>1, <1>3, GoesOn
<1>6. /\ at' \in 1..Len(Topology) /\ at' <= Len(Order)
      /\ Done(Topology)' = {} /\ Done(Order)' = {}
  BY <1>3, GotoFacts
<1>7. TypesInv'
  BY <1>2, <1>3, <1>6 DEF TypesInv, Labels, Fencing, Draining, Restoring
<1>8. pc \in Beginning => ~ Has("snapshot") /\ ~ begun /\ link = Previous
  <2>1. pc \in Beginning => tx = NoTx /\ link = Previous
    BY <1>2 DEF CourseInv
  <2>2. NoTx.flags = {}
    BY DEF NoTx
  <2> QED
    BY <1>4, <2>1, <2>2 DEF Has
<1>9. pc \in {"arm", "start", "verify"} => begun
  BY <1>2, <1>4 DEF CourseInv
<1>10. CourseInv'
  BY <1>2, <1>3, <1>4, <1>5, <1>8 DEF CourseInv, Has, Trying, Beginning,
     Preparing, Fencing, Draining
<1>11. /\ pc # "start" => (\A s \in Services : Live(s)' <=> Live(s))
       /\ pc # "start" => (Quiet => Quiet')
  BY DEF Live, Quiet
<1>12. ServingInv'
  <2>1. \A s \in Services : Live(s)' => proc'[s] = link'
    BY <1>2, <1>11 DEF ServingInv
  <2>2. pc' \in Restoring => Quiet' \/ link' = Previous'
    BY <1>2, <1>3, <1>5, <1>8, <1>9, <1>11 DEF ServingInv, Trying, Draining,
       Restoring
  <2>3. pc' \in Draining /\ ~ Deployment'.canary => \A s \in Subjects : ~ Live(s)'
    BY <1>2, <1>3, <1>5, <1>8, <1>11, TopologyFacts DEF ServingInv, Quiet, Trying,
       Draining, Restoring
  <2> QED
    BY <1>3, <2>1, <2>2, <2>3 DEF ServingInv, Preparing, Restoring, Draining
<1>13. TaskInv'
  <2>1. TasksHaveGates'
    BY <1>2 DEF TaskInv, TasksHaveGates
  <2>2. pc # "start" /\ Calm => Calm'
    BY <1>3, <1>11 DEF Calm
  <2>3. pc' \in Restoring /\ Has("snapshot")' => Calm'
    BY <1>2, <1>3, <1>4, <1>8, <1>9, <2>2 DEF TaskInv, Has, Trying, Preparing,
       Restoring
  <2> QED
    BY <1>3, <2>1, <2>3 DEF TaskInv, Preparing, Restoring
<1>14. FilesInv'
  BY <1>1, <1>2, <1>3, <1>4, <1>5, <1>6 DEF FilesInv, Has
<1>15. OwnerInv'
  <2>1. pc' # "idle" /\ Has("snapshot")' =>
          \A s \in Subjects : tx'.snapshot[s].release = Deployment'.owner[s]
    BY <1>1, <1>2, <1>3, <1>4, <1>5 DEF OwnerInv, Has
  <2>2. pc \in Beginning \cup Preparing => OwnersKept'
    BY <1>2, <1>5 DEF OwnerInv, OwnersKept, Beginning, Preparing
  <2>3. ~ Deployment.canary => OwnersKept'
    BY <1>2, <1>5, <2>2 DEF CourseInv, OwnerInv, OwnersKept, Trying
  <2>4. \A s \in Subjects : gate'[s].release \in {Deployment.owner[s], Target}
    BY <1>2, <1>5, <2>2, <2>3 DEF OwnerInv, OwnersKept, Trying
  <2>5. ~ begun => OwnersKept'
    BY <1>9, <2>2 DEF Trying
  <2>6. pc' \in {"restore plists", "stop target"} =>
          /\ OwnersKept'
          /\ \A s \in Subjects : gate'[s].release = Deployment'.owner[s]
    BY <1>2, <1>3, <2>5 DEF OwnersKept
  <2> QED
    BY <1>3, <1>5, <1>6, <2>1, <2>3, <2>4, <2>6 DEF OwnerInv, Beginning,
       Preparing, Fencing, Draining
<1> QED
  BY <1>5, <1>7, <1>10, <1>12, <1>13, <1>14, <1>15 DEF SwitchInv

LEMMA BeginStep ==
  ASSUME SwitchInv, NEW r \in Releases, NEW c \in BOOLEAN, Begin(r, c)
  PROVE  SwitchInv'
PROOF
<1> DEFINE d == Prepare(r, c)
<1>1. TypesInv /\ JournalInv /\ ServingInv /\ TaskInv
  BY DEF SwitchInv
<1>2. /\ log' = Append(log, d) /\ tx' = NoTx /\ moved' = FALSE /\ pc' = "backup"
      /\ at' \in 1..Len(Topology) /\ UNCHANGED <<enabled, proc, stopping>>
      /\ link' = link /\ plist' = plist /\ profile' = profile /\ gate' = gate
      /\ telemetry' = telemetry /\ task' = task
      /\ Len(log) < Activations /\ ~ Unresolved
  BY GotoFacts DEF Begin, files, canary
<1>3. d \in Deployments
  <2>1. [s \in Subjects |-> gate[s].release] \in [Subjects -> Maybe]
    BY <1>1 DEF TypesInv, ProperGates, Gates
  <2> QED
    BY <1>1, <2>1 DEF Prepare, TypesInv, Deployments
<1>4. /\ d.target = r /\ d.previous = link /\ d.canary = c /\ d.status = "open"
      /\ d.profile = profile /\ d.owner = [s \in Subjects |-> gate[s].release]
  BY DEF Prepare
<1> HIDE DEF d
<1>5. log \in Seq(Deployments) /\ Len(log) \in Nat
  BY <1>1 DEF TypesInv
<1>6. /\ log' \in Seq(Deployments) /\ Len(log') = Len(log) + 1 /\ log' # <<>>
      /\ log'[Len(log')] = d /\ Len(log') <= Activations
      /\ \A i \in DOMAIN log' : i < Len(log') => i \in DOMAIN log /\ log'[i] = log[i]
  BY <1>2, <1>3, <1>5
<1>7. Deployment' = d /\ Target' = r /\ Previous' = link
  BY <1>4, <1>6 DEF Deployment, Target, Previous
<1>8. TypesInv'
  <2>1. NoTx \in Transactions
    BY DEF NoTx, NoGates, NoGate, Transactions, ProperGates, Gates, Maybe
  <2> QED
    BY <1>1, <1>2, <1>6, <2>1 DEF TypesInv, Labels, Beginning, OverSubjects
<1>9. JournalInv'
  BY <1>2, <1>4, <1>6, <1>7 DEF JournalInv, Unresolved, IsOpen
<1>10. CourseInv'
  BY <1>2, <1>7 DEF CourseInv, NoTx, Has, Beginning, Preparing, Fencing, Draining
<1>11. ServingInv'
  BY <1>1, <1>2 DEF ServingInv, Live, Preparing, Restoring, Draining
<1>12. TaskInv'
  BY <1>1, <1>2 DEF TaskInv, TasksHaveGates, Preparing, Restoring
<1>13. FilesInv'
  BY <1>2, <1>4, <1>7 DEF FilesInv
<1>14. OwnerInv'
  <2>1. OwnersKept'
    BY <1>2, <1>4, <1>7 DEF OwnersKept
  <2>2. ~ Has("snapshot")'
    BY <1>2 DEF Has, NoTx
  <2> QED
    BY <1>2, <2>1, <2>2 DEF OwnerInv, Fencing, Draining
<1>15. ReceiptIsTrue'
  BY <1>2 DEF ReceiptIsTrue, Idle
<1> QED
  BY <1>8, <1>9, <1>10, <1>11, <1>12, <1>13, <1>14, <1>15 DEF SwitchInv

LEMMA BackupStep ==
  ASSUME SwitchInv, Backup
  PROVE  SwitchInv'
PROOF
<1>1. /\ pc = "backup" /\ UNCHANGED <<services, files, canary, log, tx>>
      /\ Goto("idle") \/ Goto(IF Previous = None THEN "profiles" ELSE "stop")
  BY DEF Backup
<1>2. /\ TypesInv /\ CourseInv /\ ServingInv /\ TaskInv /\ FilesInv /\ OwnerInv
  BY <1>1, ScriptFacts
<1>3. tx = NoTx /\ link = Previous /\ ~ Has("snapshot")
  BY <1>1, <1>2 DEF CourseInv, Beginning, NoTx, Has
<1>4. CASE Goto("idle")
  <2>1. \A s \in Services : Live(s)' => proc'[s] = link
    BY <1>1, <1>2 DEF ServingInv, Live, services
  <2> QED
    BY <1>1, <1>2, <1>3, <1>4, <2>1, HaltStep DEF TypesInv, services, canary
<1>5. CASE Goto(IF Previous = None THEN "profiles" ELSE "stop")
  <2>1. /\ pc' = IF Previous = None THEN "profiles" ELSE "stop"
        /\ pc' \in {"profiles", "stop"}
        /\ at' \in 1..Len(Topology)
    BY <1>5, GotoFacts
  <2>2. /\ JournalInv' /\ ReceiptIsTrue'
        /\ Deployment' = Deployment /\ Target' = Target /\ Previous' = Previous
        /\ \A f : Has(f)' <=> Has(f)
    BY <1>1, <2>1, GoesOn DEF Has
  <2>3. /\ link' = link /\ plist' = plist /\ profile' = profile /\ gate' = gate
        /\ task' = task /\ tx' = tx /\ Quiet' = Quiet
        /\ \A s \in Services : Live(s)' = Live(s) /\ proc'[s] = proc[s]
    BY <1>1 DEF services, files, canary, Live, Quiet
  <2>4. TypesInv'
    BY <1>1, <1>2, <2>1 DEF TypesInv, services, files, canary, Labels, Beginning,
       Preparing, OverSubjects
  <2>5. CourseInv'
    BY <1>3, <2>1, <2>2, <2>3 DEF CourseInv, Beginning, Preparing, Fencing, Draining
  <2>6. ServingInv'
    <3>1. pc' = "profiles" => Quiet
      BY <1>2, <1>3, <2>1 DEF ServingInv, Quiet, Live
    <3> QED
      BY <1>2, <2>1, <2>3, <3>1 DEF ServingInv, Preparing, Restoring, Draining
  <2>7. TaskInv'
    BY <1>2, <1>3, <2>1, <2>2, <2>3 DEF TaskInv, TasksHaveGates, Restoring
  <2>8. FilesInv'
    BY <1>1, <1>2, <2>1, <2>2, <2>3 DEF FilesInv
  <2>9. OwnerInv'
    BY <1>1, <1>2, <1>3, <2>1, <2>2, <2>3 DEF OwnerInv, OwnersKept, Beginning,
       Fencing, Draining
  <2> QED
    BY <2>2, <2>4, <2>5, <2>6, <2>7, <2>8, <2>9 DEF SwitchInv
<1> QED
  BY <1>1, <1>4, <1>5

LEMMA StopPreviousStep ==
  ASSUME SwitchInv, StopPrevious
  PROVE  SwitchInv'
PROOF
<1> DEFINE s == Topology[at]
<1>1. pc = "stop" /\ UNCHANGED <<files, canary, log>>
  BY DEF StopPrevious
<1>2. /\ TypesInv /\ CourseInv /\ ServingInv /\ TaskInv /\ FilesInv /\ OwnerInv
      /\ tx \in Transactions
  BY <1>1, ScriptFacts
<1>3. s \in Services
  BY <1>2, DoneFacts
<1>4. CASE /\ Disable(s) /\ (Bootout(s) \/ NoJobs)
           /\ Continue(Topology, "wait") /\ tx' = tx
  <2>1. /\ pc' \in {"stop", "wait"} /\ at' \in 1..Len(Topology)
    BY <1>1, <1>2, <1>4, ServiceLoop, GotoFacts
  <2>2. /\ JournalInv' /\ ReceiptIsTrue'
        /\ Deployment' = Deployment /\ Target' = Target /\ Previous' = Previous
        /\ \A f : Has(f)' <=> Has(f)
    BY <1>1, <1>4, <2>1, GoesOn DEF Has
  <2>3. /\ link' = link /\ plist' = plist /\ profile' = profile /\ gate' = gate
        /\ telemetry' = telemetry /\ task' = task /\ tx' = tx
        /\ \A o \in Services : Live(o)' => Live(o) /\ proc'[o] = proc[o]
    BY <1>1, <1>4 DEF files, canary, Live, Bootout, NoJobs
  <2>4. TypesInv'
    BY <1>1, <1>2, <1>3, <1>4, <2>1, <2>3 DEF TypesInv, Disable, Bootout, NoJobs,
       Labels, Beginning, OverSubjects
  <2>5. CourseInv'
    BY <1>1, <1>2, <2>1, <2>2, <2>3 DEF CourseInv, Beginning, Preparing, Fencing,
       Draining
  <2>6. ServingInv'
    BY <1>2, <2>1, <2>3 DEF ServingInv, Preparing, Restoring, Draining
  <2>7. TaskInv'
    BY <1>2, <2>1, <2>3 DEF TaskInv, TasksHaveGates, Preparing, Restoring
  <2>8. FilesInv'
    BY <1>1, <1>2, <2>1, <2>2, <2>3 DEF FilesInv
  <2>9. OwnerInv'
    BY <1>1, <1>2, <2>1, <2>2, <2>3 DEF OwnerInv, OwnersKept, Beginning, Fencing,
       Draining
  <2> QED
    BY <2>2, <2>4, <2>5, <2>6, <2>7, <2>8, <2>9 DEF SwitchInv
<1>5. CASE (UNCHANGED services \/ (Disable(s) /\ NoJobs)) /\ Raise(tx)
  <2>1. /\ enabled' \subseteq Services /\ UNCHANGED <<proc, stopping, moved>>
    BY <1>2, <1>5 DEF TypesInv, services, Disable, NoJobs
  <2> QED
    BY <1>1, <1>2, <1>5, <2>1, RaiseStep DEF TypesInv, files, canary, Trying,
       Beginning
<1>6. \/ /\ Disable(s) /\ (Bootout(s) \/ NoJobs)
         /\ Continue(Topology, "wait") /\ tx' = tx
      \/ (UNCHANGED services \/ (Disable(s) /\ NoJobs)) /\ Raise(tx)
  BY DEF StopPrevious
<1> QED
  BY <1>4, <1>5, <1>6

\* Writing a gate leaves the gates of the other subjects alone.
LEMMA WriteGateFacts ==
  ASSUME TypesInv, NEW s \in Subjects, NEW r \in Maybe, NEW state,
         state \in {"armed", "paused", "inactive"}, WriteGate(s, r, state)
  PROVE  /\ gate' \in [Subjects -> ProperGates] /\ telemetry' \in Maybe
         /\ task' = task
         /\ gate'[s].release = r /\ gate'[s].state = state
         /\ \A o \in Subjects : o # s => gate'[o] = gate[o]
         /\ Agreeable(s, r) => telemetry' = r
PROOF
<1>1. gate \in [Subjects -> ProperGates] /\ telemetry \in Maybe
  BY DEF TypesInv
<1>2. [release |-> r, state |-> state] \in ProperGates
  BY DEF ProperGates, Gates, NoGate
<1> QED
  BY <1>1, <1>2 DEF WriteGate

LEMMA WaitPreviousStoppedStep ==
  ASSUME SwitchInv, WaitPreviousStopped
  PROVE  SwitchInv'
PROOF
<1>1. pc = "wait" /\ UNCHANGED <<services, files, canary, log>>
  BY DEF WaitPreviousStopped
<1>2. /\ TypesInv /\ CourseInv /\ ServingInv /\ TaskInv /\ FilesInv /\ OwnerInv
      /\ tx \in Transactions /\ Deployment.canary \in BOOLEAN
  BY <1>1, ScriptFacts
<1>3. CASE /\ \A s \in Services : proc[s] = None
           /\ Goto(IF Deployment.canary THEN "retire" ELSE "profiles")
           /\ tx' = IF Deployment.canary
                    THEN [With("snapshot") EXCEPT !.snapshot = gate] ELSE tx
  <2>1. /\ pc' = IF Deployment.canary THEN "retire" ELSE "profiles"
        /\ pc' \in {"retire", "profiles"}
        /\ at' \in 1..Len(Topology) /\ at' <= Len(Order)
    BY <1>3, GotoFacts
  <2>2. /\ JournalInv' /\ ReceiptIsTrue'
        /\ Deployment' = Deployment /\ Target' = Target /\ Previous' = Previous
    BY <1>1, <2>1, GoesOn
  <2>3. /\ link' = link /\ plist' = plist /\ profile' = profile /\ gate' = gate
        /\ telemetry' = telemetry /\ task' = task /\ proc' = proc
        /\ stopping' = stopping /\ enabled' = enabled /\ moved' = moved
        /\ Quiet'
    BY <1>1, <1>3 DEF services, files, canary, Live, Quiet
  <2>4. /\ tx' \in Transactions
        /\ tx'.flags = IF Deployment.canary THEN {"snapshot"} ELSE {}
        /\ Deployment.canary => tx'.snapshot = gate
    <3>1. tx = NoTx /\ tx.flags = {}
      BY <1>1, <1>2 DEF CourseInv, Beginning, NoTx
    <3>2. gate \in [Subjects -> ProperGates]
      BY <1>2 DEF TypesInv
    <3> QED
      BY <1>2, <1>3, <3>1, <3>2 DEF Transactions, With, Flags
  <2>5. TypesInv'
    BY <1>1, <1>2, <2>1, <2>3, <2>4 DEF TypesInv, Labels, Preparing, OverSubjects
  <2>6. CourseInv'
    BY <1>2, <2>1, <2>2, <2>4 DEF CourseInv, Has, Beginning, Preparing, Fencing,
       Draining
  <2>7. ServingInv'
    BY <2>1, <2>3 DEF ServingInv, Quiet, Restoring, Draining
  <2>8. TaskInv'
    <3>1. Has("snapshot")' => Calm'
      BY <1>3, <2>3, <2>4, TopologyFacts DEF Calm, Has
    <3> QED
      BY <1>2, <2>1, <2>3, <3>1 DEF TaskInv, TasksHaveGates
  <2>9. FilesInv'
    BY <1>1, <1>2, <2>1, <2>2, <2>3, <2>4 DEF FilesInv, CourseInv, Has, Beginning,
       NoTx
  <2>10. OwnerInv'
    <3>1. OwnersKept
      BY <1>1, <1>2 DEF OwnerInv, Beginning
    <3> QED
      BY <2>1, <2>2, <2>3, <2>4, <3>1 DEF OwnerInv, OwnersKept, Has, Fencing,
         Draining
  <2> QED
    BY <2>2, <2>5, <2>6, <2>7, <2>8, <2>9, <2>10 DEF SwitchInv
<1>4. CASE Raise(tx)
  BY <1>1, <1>2, <1>4, RaiseStep DEF TypesInv, services, files, canary, Trying,
     Beginning
<1> QED
  BY <1>3, <1>4 DEF WaitPreviousStopped

LEMMA RetirePreviousStep ==
  ASSUME SwitchInv, RetirePrevious
  PROVE  SwitchInv'
PROOF
<1> DEFINE s == Order[at]
           written == WriteGate(s, Previous, "inactive")
<1>1. pc = "retire" /\ UNCHANGED <<services, files, log>>
  BY DEF RetirePrevious
<1>2. /\ TypesInv /\ CourseInv /\ ServingInv /\ TaskInv /\ FilesInv /\ OwnerInv
      /\ tx \in Transactions /\ tx.flags \subseteq Flags /\ Previous \in Maybe
  BY <1>1, ScriptFacts
<1>3. s \in Subjects
  BY <1>1, <1>2, DoneFacts DEF TypesInv, OverSubjects
<1>4. /\ \/ UNCHANGED canary
         \/ written /\ gate[s].release = Previous /\ task[s] = "none"
      /\ \/ Raise(tx)
         \/ Continue(Order, "profiles") /\ tx' \in {tx, With("proofs")}
  BY DEF RetirePrevious, RefusesRetirement
<1>5. /\ link' = link /\ plist' = plist /\ profile' = profile /\ proc' = proc
      /\ stopping' = stopping /\ enabled' = enabled /\ moved' = moved
      /\ task' = task /\ Quiet' = Quiet
      /\ \A o \in Services : Live(o)' = Live(o)
  BY <1>1, <1>4 DEF services, files, canary, WriteGate, Live, Quiet
<1>6. /\ gate' \in [Subjects -> ProperGates] /\ telemetry' \in Maybe
      /\ \A o \in Subjects : /\ gate'[o].release = gate[o].release
                             /\ task[o] # "none" => gate'[o] = gate[o]
  <2>1. CASE written /\ gate[s].release = Previous /\ task[s] = "none"
    <3> HIDE DEF s
    <3> QED
      BY <1>2, <1>3, <2>1, WriteGateFacts
  <2> QED
    BY <1>2, <1>4, <2>1 DEF TypesInv, canary
<1>7. CASE Continue(Order, "profiles") /\ tx' \in {tx, With("proofs")}
  <2>1. /\ pc' \in {"retire", "profiles"} /\ at' \in 1..Len(Topology)
        /\ at' <= Len(Order)
    BY <1>1, <1>2, <1>7, SubjectLoop, GotoFacts DEF OverSubjects
  <2>2. /\ JournalInv' /\ ReceiptIsTrue'
        /\ Deployment' = Deployment /\ Target' = Target /\ Previous' = Previous
    BY <1>1, <2>1, GoesOn
  <2>3. /\ tx' \in Transactions /\ tx'.snapshot = tx.snapshot
        /\ \A f \in {"snapshot", "tried", "errors"} : Has(f)' <=> Has(f)
    BY <1>2, <1>7 DEF Transactions, With, Has, Flags
  <2>4. TypesInv'
    BY <1>2, <1>5, <1>6, <1>1, <2>1, <2>3 DEF TypesInv, Labels, Preparing,
       OverSubjects
  <2>5. CourseInv'
    BY <1>1, <1>2, <2>1, <2>2, <2>3 DEF CourseInv, Beginning, Preparing, Fencing,
       Draining
  <2>6. ServingInv'
    BY <1>1, <1>2, <1>5, <2>1 DEF ServingInv, Preparing, Restoring, Draining
  <2>7. TaskInv'
    <3>1. TasksHaveGates'
      BY <1>2, <1>5, <1>6 DEF TaskInv, TasksHaveGates
    <3>2. Has("snapshot")' => Calm'
      BY <1>1, <1>2, <1>5, <1>6, <2>3 DEF TaskInv, Calm, Preparing
    <3> QED
      BY <2>1, <3>1, <3>2 DEF TaskInv
  <2>8. FilesInv'
    BY <1>1, <1>2, <1>5, <2>1, <2>2, <2>3 DEF FilesInv
  <2>9. OwnerInv'
    <3>1. OwnersKept'
      BY <1>1, <1>2, <1>6, <2>2 DEF OwnerInv, OwnersKept, Preparing
    <3> QED
      BY <1>1, <1>2, <2>1, <2>2, <2>3, <3>1 DEF OwnerInv, Fencing, Draining
  <2> QED
    BY <2>2, <2>4, <2>5, <2>6, <2>7, <2>8, <2>9 DEF SwitchInv
<1>8. CASE Raise(tx)
  BY <1>1, <1>2, <1>5, <1>6, <1>8, RaiseStep DEF TypesInv, Trying, Preparing
<1> QED
  BY <1>4, <1>7, <1>8

LEMMA ApplyExternalProfilesStep ==
  ASSUME SwitchInv, ApplyExternalProfiles
  PROVE  SwitchInv'
PROOF
<1>1. pc = "profiles" /\ UNCHANGED <<services, link, plist, canary, log>>
  BY DEF ApplyExternalProfiles
<1>2. /\ TypesInv /\ CourseInv /\ ServingInv /\ TaskInv /\ FilesInv /\ OwnerInv
      /\ tx \in Transactions /\ tx.flags \subseteq Flags /\ Target \in Releases
  BY <1>1, ScriptFacts
<1>3. /\ link' = link /\ plist' = plist /\ proc' = proc /\ stopping' = stopping
      /\ enabled' = enabled /\ moved' = moved /\ gate' = gate
      /\ telemetry' = telemetry /\ task' = task /\ Quiet' = Quiet
      /\ \A o \in Services : Live(o)' = Live(o)
  BY <1>1 DEF services, canary, Live, Quiet
<1>4. CASE /\ profile' = Target /\ Goto("switch")
           /\ tx' = [tx EXCEPT !.flags = @ \cup {"tried", "proofs"}]
  <2>1. pc' = "switch" /\ at' \in 1..Len(Topology)
    BY <1>4, GotoFacts
  <2>2. /\ JournalInv' /\ ReceiptIsTrue'
        /\ Deployment' = Deployment /\ Target' = Target /\ Previous' = Previous
    BY <1>1, <2>1, GoesOn
  <2>3. /\ tx' \in Transactions /\ tx'.snapshot = tx.snapshot /\ Has("tried")'
        /\ Has("snapshot")' <=> Has("snapshot")
    BY <1>2, <1>4 DEF Transactions, Has, Flags
  <2>4. TypesInv'
    BY <1>2, <1>3, <1>4, <1>1, <2>1, <2>3 DEF TypesInv, Maybe, Labels, Preparing,
       OverSubjects
  <2>5. CourseInv'
    BY <1>1, <1>2, <2>1, <2>2, <2>3 DEF CourseInv, Beginning, Preparing, Fencing,
       Draining
  <2>6. ServingInv'
    BY <1>1, <1>2, <1>3, <2>1 DEF ServingInv, Preparing, Restoring, Draining
  <2>7. TaskInv'
    BY <1>1, <1>2, <1>3, <2>1, <2>3 DEF TaskInv, TasksHaveGates, Calm, Preparing,
       Restoring
  <2>8. FilesInv'
    BY <1>4, <2>1, <2>2, <2>3 DEF FilesInv
  <2>9. OwnerInv'
    BY <1>1, <1>2, <1>3, <2>1, <2>2, <2>3 DEF OwnerInv, OwnersKept, Preparing,
       Fencing, Draining
  <2> QED
    BY <2>2, <2>4, <2>5, <2>6, <2>7, <2>8, <2>9 DEF SwitchInv
<1>5. CASE profile' \in {profile, Mixed} /\ Raise(With("tried"))
  <2>1. /\ With("tried") \in Transactions /\ With("tried").snapshot = tx.snapshot
        /\ With("tried").flags = tx.flags \cup {"tried"}
    BY <1>2 DEF With, Transactions, Flags
  <2>2. profile' \in Maybe \cup {Mixed}
    BY <1>2, <1>5 DEF TypesInv
  <2> QED
    BY <1>1, <1>2, <1>3, <1>5, <2>1, <2>2, RaiseStep DEF TypesInv, Trying, Preparing
<1> QED
  BY <1>4, <1>5 DEF ApplyExternalProfiles

LEMMA SwitchLinkStep ==
  ASSUME SwitchInv, SwitchLink
  PROVE  SwitchInv'
PROOF
<1>1. pc = "switch" /\ UNCHANGED <<services, plist, profile, canary, log>>
  BY DEF SwitchLink
<1>2. /\ TypesInv /\ CourseInv /\ ServingInv /\ TaskInv /\ FilesInv /\ OwnerInv
      /\ tx \in Transactions /\ Target \in Releases
  BY <1>1, ScriptFacts
<1>3. /\ plist' = plist /\ profile' = profile /\ proc' = proc
      /\ stopping' = stopping /\ enabled' = enabled /\ moved' = moved
      /\ gate' = gate /\ telemetry' = telemetry /\ task' = task /\ Quiet' = Quiet
      /\ \A o \in Services : Live(o)' = Live(o)
  BY <1>1 DEF services, canary, Live, Quiet
<1>4. CASE link' = Target /\ Goto("install") /\ tx' = tx
  <2>1. pc' = "install" /\ at' \in 1..Len(Topology)
    BY <1>4, GotoFacts
  <2>2. /\ JournalInv' /\ ReceiptIsTrue'
        /\ Deployment' = Deployment /\ Target' = Target /\ Previous' = Previous
        /\ \A f : Has(f)' <=> Has(f)
    BY <1>1, <1>4, <2>1, GoesOn DEF Has
  <2>3. TypesInv'
    BY <1>1, <1>2, <1>3, <1>4, <2>1 DEF TypesInv, Maybe, Labels, Preparing,
       OverSubjects
  <2>4. CourseInv'
    BY <1>1, <1>2, <2>1, <2>2 DEF CourseInv, Beginning, Preparing, Fencing,
       Draining
  <2>5. ServingInv'
    BY <1>1, <1>2, <1>3, <2>1 DEF ServingInv, Quiet, Preparing, Restoring, Draining
  <2>6. TaskInv'
    BY <1>1, <1>2, <1>3, <1>4, <2>1, <2>2 DEF TaskInv, TasksHaveGates, Calm,
       Preparing, Restoring
  <2>7. FilesInv'
    BY <1>1, <1>2, <1>3, <2>1, <2>2 DEF FilesInv
  <2>8. OwnerInv'
    BY <1>1, <1>2, <1>3, <1>4, <2>1, <2>2 DEF OwnerInv, OwnersKept, Preparing,
       Fencing, Draining
  <2> QED
    BY <2>2, <2>3, <2>4, <2>5, <2>6, <2>7, <2>8 DEF SwitchInv
<1>5. CASE link' = link /\ Raise(tx)
  BY <1>1, <1>2, <1>3, <1>5, RaiseStep DEF TypesInv, Trying, Preparing
<1> QED
  BY <1>4, <1>5 DEF SwitchLink

LEMMA InstallPlistsStep ==
  ASSUME SwitchInv, InstallPlists
  PROVE  SwitchInv'
PROOF
<1> DEFINE s == Topology[at]
<1>1. pc = "install" /\ UNCHANGED <<services, link, profile, canary, log>>
  BY DEF InstallPlists
<1>2. /\ TypesInv /\ CourseInv /\ ServingInv /\ TaskInv /\ FilesInv /\ OwnerInv
      /\ tx \in Transactions /\ Target \in Releases
  BY <1>1, ScriptFacts
<1>3. /\ link' = link /\ profile' = profile /\ proc' = proc
      /\ stopping' = stopping /\ enabled' = enabled /\ moved' = moved
      /\ gate' = gate /\ telemetry' = telemetry /\ task' = task /\ Quiet' = Quiet
      /\ \A o \in Services : Live(o)' = Live(o)
  BY <1>1 DEF services, canary, Live, Quiet
<1>4. CASE /\ plist' = [plist EXCEPT ![s] = Target]
           /\ Continue(Topology, "bind") /\ tx' = tx
  <2>1. pc' \in {"install", "bind"} /\ at' \in 1..Len(Topology)
    BY <1>1, <1>2, <1>4, ServiceLoop, GotoFacts
  <2>2. /\ JournalInv' /\ ReceiptIsTrue'
        /\ Deployment' = Deployment /\ Target' = Target /\ Previous' = Previous
        /\ \A f : Has(f)' <=> Has(f)
    BY <1>1, <1>4, <2>1, GoesOn DEF Has
  <2>3. plist' \in [Services -> Maybe]
    BY <1>2, <1>4 DEF TypesInv, Maybe
  <2>4. TypesInv'
    BY <1>1, <1>2, <1>3, <1>4, <2>1, <2>3 DEF TypesInv, Labels, Preparing,
       OverSubjects
  <2>5. CourseInv'
    BY <1>1, <1>2, <2>1, <2>2 DEF CourseInv, Beginning, Preparing, Fencing,
       Draining
  <2>6. ServingInv'
    BY <1>1, <1>2, <1>3, <2>1 DEF ServingInv, Preparing, Restoring, Draining
  <2>7. TaskInv'
    BY <1>1, <1>2, <1>3, <1>4, <2>1, <2>2 DEF TaskInv, TasksHaveGates, Calm,
       Preparing, Restoring
  <2>8. FilesInv'
    BY <1>1, <1>2, <1>3, <2>1, <2>2 DEF FilesInv
  <2>9. OwnerInv'
    BY <1>1, <1>2, <1>3, <1>4, <2>1, <2>2 DEF OwnerInv, OwnersKept, Preparing,
       Fencing, Draining
  <2> QED
    BY <2>2, <2>4, <2>5, <2>6, <2>7, <2>8, <2>9 DEF SwitchInv
<1>5. CASE plist' = plist /\ Raise(tx)
  BY <1>1, <1>2, <1>3, <1>5, RaiseStep DEF TypesInv, Trying, Preparing
<1> QED
  BY <1>4, <1>5 DEF InstallPlists

LEMMA BindContextStep ==
  ASSUME SwitchInv, BindContext
  PROVE  SwitchInv'
PROOF
<1>1. pc = "bind" /\ UNCHANGED <<services, files, canary, log>>
  BY DEF BindContext
<1>2. /\ TypesInv /\ CourseInv /\ ServingInv /\ TaskInv /\ FilesInv /\ OwnerInv
      /\ tx \in Transactions /\ tx.flags \subseteq Flags
      /\ Deployment.canary \in BOOLEAN
  BY <1>1, ScriptFacts
<1>3. /\ link' = link /\ plist' = plist /\ profile' = profile /\ proc' = proc
      /\ stopping' = stopping /\ enabled' = enabled /\ moved' = moved
      /\ gate' = gate /\ telemetry' = telemetry /\ task' = task /\ Quiet' = Quiet
      /\ \A o \in Services : Live(o)' = Live(o)
  BY <1>1 DEF services, files, canary, Live, Quiet
<1>4. CASE /\ Goto(IF Deployment.canary THEN "arm" ELSE "start")
           /\ tx' = [tx EXCEPT !.flags = @ \cup {"running",
                       IF Deployment.canary THEN "gates" ELSE "services"}]
  <2>1. /\ pc' = IF Deployment.canary THEN "arm" ELSE "start"
        /\ pc' \in {"arm", "start"}
        /\ at' \in 1..Len(Topology) /\ at' <= Len(Order)
    BY <1>4, GotoFacts
  <2>2. /\ JournalInv' /\ ReceiptIsTrue'
        /\ Deployment' = Deployment /\ Target' = Target /\ Previous' = Previous
    BY <1>1, <2>1, GoesOn
  <2>3. /\ tx' \in Transactions /\ tx'.snapshot = tx.snapshot
        /\ {"services", "gates"} \cap tx'.flags # {}
        /\ \A f \in {"snapshot", "tried", "errors"} : Has(f)' <=> Has(f)
    BY <1>2, <1>4 DEF Transactions, Has, Flags
  <2>4. TypesInv'
    BY <1>1, <1>2, <1>3, <2>1, <2>3 DEF TypesInv, Labels, OverSubjects
  <2>5. CourseInv'
    BY <1>1, <1>2, <2>1, <2>2, <2>3 DEF CourseInv, Beginning, Preparing, Fencing,
       Draining
  <2>6. ServingInv'
    BY <1>1, <1>2, <1>3, <2>1, <2>2, TopologyFacts DEF ServingInv, Quiet, Preparing,
       Restoring
  <2>7. TaskInv'
    BY <1>2, <1>3, <2>1 DEF TaskInv, TasksHaveGates, Preparing, Restoring
  <2>8. FilesInv'
    BY <1>1, <1>2, <1>3, <2>1, <2>2, <2>3 DEF FilesInv
  <2>9. OwnerInv'
    BY <1>1, <1>2, <1>3, <2>1, <2>2, <2>3 DEF OwnerInv, OwnersKept, Beginning,
       Preparing, Fencing
  <2> QED
    BY <2>2, <2>4, <2>5, <2>6, <2>7, <2>8, <2>9 DEF SwitchInv
<1>5. CASE Raise(With("running"))
  <2>1. /\ With("running") \in Transactions /\ With("running").snapshot = tx.snapshot
        /\ With("running").flags = tx.flags \cup {"running"}
    BY <1>2 DEF With, Transactions, Flags
  <2> QED
    BY <1>1, <1>2, <1>3, <1>5, <2>1, RaiseStep DEF TypesInv, Trying, Preparing
<1> QED
  BY <1>4, <1>5 DEF BindContext

LEMMA ArmGateStep ==
  ASSUME SwitchInv, ArmGate
  PROVE  SwitchInv'
PROOF
<1> DEFINE s == Order[at]
           written == WriteGate(s, Target, "armed")
<1>1. pc = "arm" /\ UNCHANGED <<services, files, log>>
  BY DEF ArmGate
<1>2. /\ TypesInv /\ CourseInv /\ ServingInv /\ TaskInv /\ FilesInv /\ OwnerInv
      /\ tx \in Transactions /\ tx.flags \subseteq Flags /\ Target \in Releases
      /\ Deployment.canary
  BY <1>1, ScriptFacts DEF CourseInv
<1>3. s \in Subjects
  BY <1>1, <1>2, DoneFacts DEF TypesInv, OverSubjects
<1>4. /\ UNCHANGED canary \/ (written /\ task[s] = "none")
      /\ \/ Raise(tx)
         \/ Continue(Order, "start") /\ tx' \in {tx, With("services")}
  BY DEF ArmGate
<1>5. /\ link' = link /\ plist' = plist /\ profile' = profile /\ proc' = proc
      /\ stopping' = stopping /\ enabled' = enabled /\ moved' = moved
      /\ task' = task /\ Quiet' = Quiet
      /\ \A o \in Services : Live(o)' = Live(o)
  BY <1>1, <1>4 DEF services, files, canary, WriteGate, Live, Quiet
<1>6. /\ gate' \in [Subjects -> ProperGates] /\ telemetry' \in Maybe
      /\ \A o \in Subjects : /\ gate'[o].release \in {gate[o].release, Target}
                             /\ task[o] # "none" => gate'[o] = gate[o]
  <2>1. CASE written /\ task[s] = "none"
    <3> HIDE DEF s
    <3> QED
      BY <1>2, <1>3, <2>1, WriteGateFacts DEF Maybe
  <2> QED
    BY <1>2, <1>4, <2>1 DEF TypesInv, canary
<1>7. CASE Continue(Order, "start") /\ tx' \in {tx, With("services")}
  <2>1. /\ pc' \in {"arm", "start"} /\ at' \in 1..Len(Topology)
        /\ at' <= Len(Order)
    BY <1>1, <1>2, <1>7, SubjectLoop, GotoFacts DEF OverSubjects
  <2>2. /\ JournalInv' /\ ReceiptIsTrue'
        /\ Deployment' = Deployment /\ Target' = Target /\ Previous' = Previous
    BY <1>1, <2>1, GoesOn
  <2>3. /\ tx' \in Transactions /\ tx'.snapshot = tx.snapshot
        /\ tx.flags \subseteq tx'.flags
        /\ \A f \in {"snapshot", "tried", "errors"} : Has(f)' <=> Has(f)
    BY <1>2, <1>7 DEF Transactions, With, Has, Flags
  <2>4. TypesInv'
    BY <1>1, <1>2, <1>5, <1>6, <2>1, <2>3 DEF TypesInv, Labels, OverSubjects
  <2>5. CourseInv'
    <3>1. {"services", "gates"} \cap tx'.flags # {}
      BY <1>1, <1>2, <2>3 DEF CourseInv
    <3> QED
      BY <1>1, <1>2, <2>1, <2>2, <2>3, <3>1 DEF CourseInv, Beginning, Preparing,
         Fencing, Draining
  <2>6. ServingInv'
    BY <1>1, <1>2, <1>5, <2>1, <2>2 DEF ServingInv, Preparing, Restoring
  <2>7. TaskInv'
    <3>1. TasksHaveGates'
      BY <1>2, <1>5, <1>6 DEF TaskInv, TasksHaveGates
    <3> QED
      BY <2>1, <3>1 DEF TaskInv, Preparing, Restoring
  <2>8. FilesInv'
    BY <1>1, <1>2, <1>5, <2>1, <2>2, <2>3 DEF FilesInv
  <2>9. OwnerInv'
    <3>1. \A o \in Subjects : gate'[o].release \in {Deployment'.owner[o], Target'}
      BY <1>1, <1>2, <1>6, <2>2 DEF OwnerInv
    <3> QED
      BY <1>1, <1>2, <2>1, <2>2, <2>3, <3>1 DEF OwnerInv, Beginning, Preparing,
         Fencing, Draining
  <2> QED
    BY <2>2, <2>4, <2>5, <2>6, <2>7, <2>8, <2>9 DEF SwitchInv
<1>8. CASE Raise(tx)
  BY <1>1, <1>2, <1>5, <1>6, <1>8, RaiseStep DEF TypesInv, Trying
<1> QED
  BY <1>4, <1>7, <1>8

\* What serves after a start, whole or not, runs what `current` points to.
LEMMA StartFacts ==
  ASSUME TypesInv, ServingInv, NEW s \in Services, NEW paused \in BOOLEAN,
         Started(s, paused) \/ NotStarted(s, paused)
  PROVE  /\ enabled' \subseteq Services /\ proc' \in [Services -> Maybe]
         /\ stopping' \subseteq {o \in Services : proc'[o] # None}
         /\ moved' \in BOOLEAN
         /\ \A o \in Services : Live(o)' => proc'[o] = link
         /\ paused => \A o \in Subjects : Live(o)' => Live(o)
PROOF
<1>1. /\ link \in Maybe /\ enabled \subseteq Services
      /\ proc \in [Services -> Maybe] /\ moved \in BOOLEAN
      /\ stopping \subseteq {o \in Services : proc[o] # None}
      /\ \A o \in Services : Live(o) => proc[o] = link
  BY DEF TypesInv, ServingInv
<1>2. /\ enabled' \in {enabled, enabled \cup {s}, enabled \ {s}}
      /\ NoJobs \/ Bootout(s) \/ (Bootstrap(s) /\ (paused => s = Dashboard))
  BY DEF Started, NotStarted, Enable, Disable, services, NoJobs
<1>3. CASE NoJobs \/ Bootout(s)
  <2>1. /\ proc' = proc /\ moved' = moved
        /\ stopping' \in {stopping, stopping \cup {s}}
        /\ proc[s] = None => stopping' = stopping
    BY <1>3 DEF NoJobs, Bootout
  <2>2. \A o \in Services : Live(o)' => Live(o)
    BY <2>1 DEF Live
  <2> QED
    BY <1>1, <1>2, <2>1, <2>2, TopologyFacts
<1>4. CASE Bootstrap(s) /\ (paused => s = Dashboard)
  <2>1. /\ proc' = [proc EXCEPT ![s] = link] /\ moved' = TRUE
        /\ stopping' = stopping /\ proc[s] = None
    BY <1>4 DEF Bootstrap, Loadable
  <2>2. \A o \in Services : o # s => (Live(o)' => Live(o)) /\ proc'[o] = proc[o]
    BY <1>1, <2>1 DEF Live
  <2>3. proc'[s] = link
    BY <1>1, <2>1
  <2>4. paused => \A o \in Subjects : o # s /\ o \in Services
    BY <1>4, TopologyFacts
  <2>5. stopping' \subseteq {o \in Services : proc'[o] # None}
    BY <1>1, <2>1, <2>2
  <2>6. proc' \in [Services -> Maybe] /\ enabled' \subseteq Services
    BY <1>1, <1>2, <2>1
  <2> QED
    BY <1>1, <2>1, <2>2, <2>3, <2>4, <2>5, <2>6
<1> QED
  BY <1>2, <1>3, <1>4

LEMMA StartTargetStep ==
  ASSUME SwitchInv, StartTarget
  PROVE  SwitchInv'
PROOF
<1> DEFINE s == Topology[at]
           paused == ~ Deployment.canary
<1>1. pc = "start" /\ UNCHANGED <<files, canary, log>>
  BY DEF StartTarget
<1>2. /\ TypesInv /\ CourseInv /\ ServingInv /\ TaskInv /\ FilesInv /\ OwnerInv
      /\ tx \in Transactions /\ Deployment.canary \in BOOLEAN
  BY <1>1, ScriptFacts
<1>3. s \in Services /\ paused \in BOOLEAN
  BY <1>2, DoneFacts
<1>4. /\ Started(s, paused) \/ NotStarted(s, paused)
      /\ Raise(tx) \/ (Continue(Topology, "verify") /\ tx' = tx)
  BY DEF StartTarget
<1>5. /\ link' = link /\ plist' = plist /\ profile' = profile /\ gate' = gate
      /\ telemetry' = telemetry /\ task' = task
  BY <1>1 DEF files, canary
<1>6. /\ enabled' \subseteq Services /\ proc' \in [Services -> Maybe]
      /\ stopping' \subseteq {o \in Services : proc'[o] # None}
      /\ moved' \in BOOLEAN
      /\ \A o \in Services : Live(o)' => proc'[o] = link
      /\ ~ Deployment.canary => \A o \in Subjects : ~ Live(o)'
  <2> HIDE DEF s
  <2>1. ~ Deployment.canary => \A o \in Subjects : ~ Live(o)
    BY <1>1, <1>2 DEF ServingInv
  <2>2. ~ Deployment.canary => \A o \in Subjects : Live(o)' => Live(o)
    BY <1>2, <1>3, <1>4, StartFacts
  <2> QED
    BY <1>2, <1>3, <1>4, <2>1, <2>2, StartFacts
<1>7. CASE Continue(Topology, "verify") /\ tx' = tx
  <2>1. pc' \in {"start", "verify"} /\ at' \in 1..Len(Topology)
    BY <1>1, <1>2, <1>7, ServiceLoop, GotoFacts
  <2>2. /\ JournalInv' /\ ReceiptIsTrue'
        /\ Deployment' = Deployment /\ Target' = Target /\ Previous' = Previous
        /\ \A f : Has(f)' <=> Has(f)
    BY <1>1, <1>7, <2>1, GoesOn DEF Has
  <2>3. TypesInv'
    BY <1>1, <1>2, <1>5, <1>6, <1>7, <2>1 DEF TypesInv, Labels, OverSubjects
  <2>4. CourseInv'
    BY <1>1, <1>2, <1>7, <2>1, <2>2 DEF CourseInv, Beginning, Preparing, Fencing,
       Draining
  <2>5. ServingInv'
    BY <1>5, <1>6, <2>1, <2>2 DEF ServingInv, Preparing, Restoring
  <2>6. TaskInv'
    BY <1>2, <1>5, <2>1 DEF TaskInv, TasksHaveGates, Preparing, Restoring
  <2>7. FilesInv'
    BY <1>1, <1>2, <1>5, <2>1, <2>2 DEF FilesInv
  <2>8. OwnerInv'
    BY <1>1, <1>2, <1>5, <1>7, <2>1, <2>2 DEF OwnerInv, OwnersKept, Beginning,
       Preparing, Fencing
  <2> QED
    BY <2>2, <2>3, <2>4, <2>5, <2>6, <2>7, <2>8 DEF SwitchInv
<1>8. CASE Raise(tx)
  BY <1>1, <1>2, <1>5, <1>6, <1>8, RaiseStep DEF TypesInv, Trying
<1> QED
  BY <1>4, <1>7, <1>8

LEMMA VerifyTargetStep ==
  ASSUME SwitchInv, VerifyTarget
  PROVE  SwitchInv'
PROOF
<1>1. pc = "verify" /\ UNCHANGED <<services, files, canary, log>>
  BY DEF VerifyTarget
<1>2. /\ TypesInv /\ CourseInv /\ ServingInv /\ TaskInv /\ FilesInv /\ OwnerInv
      /\ tx \in Transactions /\ Target # None
  BY <1>1, ScriptFacts
<1>3. /\ link' = link /\ plist' = plist /\ profile' = profile /\ proc' = proc
      /\ stopping' = stopping /\ enabled' = enabled /\ moved' = moved
      /\ gate' = gate /\ telemetry' = telemetry /\ task' = task
      /\ \A o \in Services : Live(o)' = Live(o)
  BY <1>1 DEF services, files, canary, Live
<1>4. CASE Verified /\ Goto("commit") /\ tx' = tx
  <2>1. pc' = "commit" /\ at' \in 1..Len(Topology)
    BY <1>4, GotoFacts
  <2>2. /\ JournalInv' /\ ReceiptIsTrue'
        /\ Deployment' = Deployment /\ Target' = Target /\ Previous' = Previous
        /\ \A f : Has(f)' <=> Has(f)
    BY <1>1, <1>4, <2>1, GoesOn DEF Has
  <2>3. TypesInv'
    BY <1>1, <1>2, <1>3, <1>4, <2>1 DEF TypesInv, Labels, OverSubjects
  <2>4. CourseInv'
    BY <1>1, <1>2, <2>1, <2>2 DEF CourseInv, Beginning, Preparing, Fencing, Draining
  <2>5. ServingInv'
    BY <1>2, <1>3, <2>1 DEF ServingInv, Preparing, Restoring, Draining
  <2>6. TaskInv'
    BY <1>2, <1>3, <2>1 DEF TaskInv, TasksHaveGates, Preparing, Restoring
  <2>7. FilesInv'
    BY <1>1, <1>2, <1>3, <1>4, <2>1, <2>2 DEF FilesInv, Verified
  <2>8. OwnerInv'
    <3>1. Deployment.canary => Owned = Subjects /\ telemetry = Target
      <4> SUFFICES ASSUME Deployment.canary
                   PROVE  Owned = Subjects /\ telemetry = Target
        OBVIOUS
      <4>1. \A s \in Subjects : /\ gate[s].release = Target
                                /\ gate[s].state = "armed" /\ Readable(s)
        BY <1>4 DEF Verified
      <4>2. PICK s \in Subjects : TRUE
        BY TopologyFacts
      <4> QED
        BY <4>1, <4>2 DEF Owned, Readable
    <3>2. Owned' = Owned
      BY <1>3, <2>2 DEF Owned
    <3> QED
      BY <1>1, <1>2, <1>3, <1>4, <2>1, <2>2, <3>1, <3>2 DEF OwnerInv, Beginning,
         Preparing, Fencing, Draining
  <2> QED
    BY <2>2, <2>3, <2>4, <2>5, <2>6, <2>7, <2>8 DEF SwitchInv
<1>5. CASE Raise(tx)
  BY <1>1, <1>2, <1>3, <1>5, RaiseStep DEF TypesInv, Trying
<1> QED
  BY <1>4, <1>5 DEF VerifyTarget

LEMMA CommitStep ==
  ASSUME SwitchInv, Commit
  PROVE  SwitchInv'
PROOF
<1>1. /\ pc = "commit" /\ Close("committed")
      /\ UNCHANGED <<services, files, canary>>
  BY DEF Commit
<1>2. TypesInv /\ ServingInv /\ TaskInv /\ FilesInv /\ OwnerInv
  BY <1>1, ScriptFacts
<1>3. /\ link' = link /\ plist' = plist /\ profile' = profile /\ proc' = proc
      /\ gate' = gate /\ telemetry' = telemetry /\ task' = task
      /\ \A o \in Services : Live(o)' = Live(o)
  BY <1>1 DEF services, files, canary, Live
<1>4. /\ Deployment'.status = "committed" /\ Target' = Target
      /\ Deployment'.canary = Deployment.canary
  BY <1>1, CloseFacts
<1>5. ReceiptIsTrue'
  <2>1. link' = Target' /\ profile' = Target'
    BY <1>1, <1>2, <1>3, <1>4 DEF FilesInv
  <2>2. plist' = [s \in Services |-> Target']
    BY <1>1, <1>2, <1>3, <1>4 DEF FilesInv, TypesInv
  <2>3. {proc'[s] : s \in {t \in Services : Live(t)'}} \subseteq {Target'}
    BY <1>2, <1>3, <2>1 DEF ServingInv
  <2>4. Owned' = Owned
    BY <1>3, <1>4 DEF Owned
  <2>5. Deployment'.canary => Owned' = Subjects /\ telemetry' = Target'
    BY <1>1, <1>2, <1>3, <1>4, <2>4 DEF OwnerInv
  <2> QED
    BY <1>4, <2>1, <2>2, <2>3, <2>5 DEF ReceiptIsTrue, Target
<1>6. TasksHaveGates'
  BY <1>2, <1>3 DEF TaskInv, TasksHaveGates
<1>7. gate' \in [Subjects -> ProperGates] /\ telemetry' \in Maybe
  BY <1>2, <1>3 DEF TypesInv
<1> QED
  BY <1>1, <1>5, <1>6, <1>7, CloseStep DEF canary

-----------------------------------------------------------------------------
(* The rollback of a canary activation.                                    *)

\* An error that is noted is not forgotten, and changes nothing else.
LEMMA NotedFacts ==
  ASSUME tx \in Transactions, tx' \in {tx, With("errors")}
  PROVE  /\ tx' \in Transactions /\ tx'.snapshot = tx.snapshot
         /\ tx'.fence = tx.fence
         /\ \A f \in {"snapshot", "tried"} : Has(f)' <=> Has(f)
         /\ Has("errors") => Has("errors")'
         /\ tx' = With("errors") => Has("errors")'
         /\ tx' = tx => (Has("errors")' <=> Has("errors"))
  BY DEF Transactions, With, Has, Flags

LEMMA ProbeTargetStep ==
  ASSUME SwitchInv, ProbeTarget
  PROVE  SwitchInv'
PROOF
<1>1. pc = "probe" /\ UNCHANGED <<services, files, canary>>
  BY DEF ProbeTarget
<1>2. /\ TypesInv /\ CourseInv /\ ServingInv /\ TaskInv /\ FilesInv /\ OwnerInv
      /\ tx \in Transactions
  BY <1>1, ScriptFacts
<1>3. /\ link' = link /\ plist' = plist /\ profile' = profile /\ proc' = proc
      /\ stopping' = stopping /\ enabled' = enabled /\ moved' = moved
      /\ gate' = gate /\ telemetry' = telemetry /\ task' = task
      /\ \A o \in Services : Live(o)' = Live(o)
  BY <1>1 DEF services, files, canary, Live
<1>4. TasksHaveGates'
  BY <1>2, <1>3 DEF TaskInv, TasksHaveGates
<1>5. CASE /\ Goto("disable target") /\ log' = log
           /\ tx' = [tx EXCEPT !.fence = Owned,
                       !.busy = {s \in Owned : task[s] # "none"}]
  <2>1. pc' = "disable target" /\ at' \in 1..Len(Topology)
    BY <1>5, GotoFacts
  <2>2. /\ JournalInv' /\ ReceiptIsTrue'
        /\ Deployment' = Deployment /\ Target' = Target /\ Previous' = Previous
    BY <1>1, <1>5, <2>1, GoesOn
  <2>3. /\ tx' \in Transactions /\ tx'.snapshot = tx.snapshot /\ tx'.fence = Owned
        /\ \A f : Has(f)' <=> Has(f)
    BY <1>2, <1>5 DEF Transactions, Owned, Has
  <2>4. TypesInv'
    BY <1>2, <1>3, <1>5, <2>1, <2>3 DEF TypesInv, Labels, Fencing, OverSubjects
  <2>5. CourseInv'
    BY <1>1, <1>2, <2>1, <2>2, <2>3 DEF CourseInv, Beginning, Fencing, Draining
  <2>6. ServingInv'
    BY <1>2, <1>3, <2>1 DEF ServingInv, Preparing, Restoring, Draining
  <2>7. TaskInv'
    BY <1>3, <1>4, <2>1, <2>2, <2>3 DEF TaskInv, Owned, Preparing, Restoring
  <2>8. FilesInv'
    BY <1>1, <1>2, <1>3, <2>1, <2>2, <2>3 DEF FilesInv
  <2>9. OwnerInv'
    BY <1>1, <1>2, <1>3, <2>1, <2>2, <2>3 DEF OwnerInv, Beginning, Preparing,
       Fencing, Draining
  <2> QED
    BY <2>2, <2>4, <2>5, <2>6, <2>7, <2>8, <2>9 DEF SwitchInv
<1>6. CASE Block
  BY <1>1, <1>2, <1>3, <1>4, <1>6, BlockStep DEF TypesInv
<1> QED
  BY <1>5, <1>6 DEF ProbeTarget

LEMMA DisableTargetStep ==
  ASSUME SwitchInv, DisableTarget
  PROVE  SwitchInv'
PROOF
<1>1. /\ pc = "disable target" /\ Continue(Topology, "bootout target")
      /\ enabled' \in {enabled, enabled \ {Topology[at]}}
      /\ NoJobs /\ UNCHANGED <<files, canary, log>> /\ tx' \in {tx, With("errors")}
  BY DEF DisableTarget, Disable
<1>2. /\ TypesInv /\ CourseInv /\ ServingInv /\ TaskInv /\ FilesInv /\ OwnerInv
      /\ tx \in Transactions
  BY <1>1, ScriptFacts
<1>3. /\ link' = link /\ plist' = plist /\ profile' = profile /\ proc' = proc
      /\ stopping' = stopping /\ enabled' \subseteq Services /\ moved' = moved
      /\ gate' = gate /\ telemetry' = telemetry /\ task' = task
      /\ \A o \in Services : Live(o)' = Live(o)
  BY <1>1, <1>2 DEF TypesInv, files, canary, NoJobs, Live
<1>4. \/ pc' = "disable target" /\ at' \in 1..Len(Topology)
      \/ pc' = "bootout target" /\ at' \in 1..Len(Topology) /\ Done(Topology)' = {}
  BY <1>1, <1>2, ServiceLoop, GotoFacts
<1>5. /\ JournalInv' /\ ReceiptIsTrue'
      /\ Deployment' = Deployment /\ Target' = Target /\ Previous' = Previous
  BY <1>1, <1>4, GoesOn
<1>6. /\ tx' \in Transactions /\ tx'.snapshot = tx.snapshot /\ tx'.fence = tx.fence
      /\ \A f \in {"snapshot", "tried"} : Has(f)' <=> Has(f)
  BY <1>1, <1>2, NotedFacts
<1>7. TypesInv'
  BY <1>2, <1>3, <1>4, <1>6, <1>1 DEF TypesInv, Labels, Fencing, OverSubjects
<1>8. CourseInv'
  BY <1>1, <1>2, <1>4, <1>5, <1>6 DEF CourseInv, Beginning, Fencing, Draining
<1>9. ServingInv'
  BY <1>2, <1>3, <1>4 DEF ServingInv, Preparing, Restoring, Draining
<1>10. TaskInv'
  BY <1>1, <1>2, <1>3, <1>4, <1>5, <1>6 DEF TaskInv, TasksHaveGates, Preparing,
     Restoring
<1>11. FilesInv'
  BY <1>1, <1>2, <1>3, <1>4, <1>5, <1>6 DEF FilesInv
<1>12. OwnerInv'
  BY <1>1, <1>2, <1>3, <1>4, <1>5, <1>6 DEF OwnerInv, Beginning, Preparing,
     Fencing, Draining
<1> QED
  BY <1>5, <1>7, <1>8, <1>9, <1>10, <1>11, <1>12 DEF SwitchInv

\* A process that is told to exit serves no more.
LEMMA BootoutFacts ==
  ASSUME TypesInv, NEW s \in Services, Bootout(s) \/ NoJobs
  PROVE  /\ proc' = proc /\ moved' = moved
         /\ stopping' \subseteq {o \in Services : proc[o] # None}
         /\ \A o \in Services : Live(o)' => Live(o)
         /\ Bootout(s) => ~ Live(s)'
         /\ Quiet => Quiet'
PROOF
<1>1. stopping \subseteq {o \in Services : proc[o] # None}
  BY DEF TypesInv
<1>2. /\ proc' = proc /\ moved' = moved
      /\ stopping' \in {stopping, stopping \cup {s}}
      /\ proc[s] = None => stopping' = stopping
      /\ Bootout(s) => proc[s] = None \/ s \in stopping'
  BY DEF Bootout, NoJobs
<1>3. \A o \in Services : Live(o)' => Live(o)
  BY <1>2 DEF Live
<1>4. Bootout(s) => ~ Live(s)'
  BY <1>2 DEF Live
<1> QED
  BY <1>1, <1>2, <1>3, <1>4 DEF Quiet

LEMMA BootoutTargetStep ==
  ASSUME SwitchInv, BootoutTarget
  PROVE  SwitchInv'
PROOF
<1>0. PICK s : s = Topology[at]
  OBVIOUS
<1>1. /\ pc = "bootout target" /\ Continue(Topology, "await")
      /\ \/ Bootout(s) /\ tx' = tx
         \/ NoJobs /\ tx' = With("errors")
      /\ enabled' = enabled /\ UNCHANGED <<files, canary, log>>
  BY <1>0 DEF BootoutTarget
<1>2. /\ TypesInv /\ CourseInv /\ ServingInv /\ TaskInv /\ FilesInv /\ OwnerInv
      /\ tx \in Transactions
  BY <1>1, ScriptFacts
<1>3. /\ s \in Services /\ at' \in 1..Len(Topology)
      /\ Done(Topology) \subseteq Services
      /\ \/ pc' = "bootout target" /\ Done(Topology)' = Done(Topology) \cup {s}
         \/ /\ pc' = "await" /\ at' <= Len(Order)
            /\ Done(Topology) \cup {s} = Services
  BY <1>0, <1>1, <1>2, ServiceLoop, GotoFacts
<1>4. /\ link' = link /\ plist' = plist /\ profile' = profile /\ proc' = proc
      /\ gate' = gate /\ telemetry' = telemetry /\ task' = task
      /\ stopping' \subseteq {o \in Services : proc[o] # None} /\ moved' = moved
      /\ \A o \in Services : Live(o)' => Live(o)
      /\ ~ Live(s)' \/ tx' = With("errors")
  BY <1>1, <1>2, <1>3, BootoutFacts DEF files, canary
<1>5. /\ JournalInv' /\ ReceiptIsTrue'
      /\ Deployment' = Deployment /\ Target' = Target /\ Previous' = Previous
  BY <1>1, <1>3, GoesOn
<1>6. /\ tx' \in Transactions /\ tx'.snapshot = tx.snapshot /\ tx'.fence = tx.fence
      /\ \A f \in {"snapshot", "tried"} : Has(f)' <=> Has(f)
      /\ Has("errors") \/ tx' = With("errors") => Has("errors")'
  BY <1>1, <1>2, NotedFacts
<1>7. TypesInv'
  BY <1>1, <1>2, <1>3, <1>4, <1>6 DEF TypesInv, Labels, Fencing, OverSubjects
<1>8. CourseInv'
  BY <1>1, <1>2, <1>3, <1>5, <1>6 DEF CourseInv, Beginning, Fencing, Draining
<1>9. ServingInv'
  <2>1. Has("errors") \/ \A o \in Done(Topology) : ~ Live(o)
    BY <1>1, <1>2 DEF ServingInv
  <2>2. Has("errors")' \/ \A o \in Done(Topology) \cup {s} : ~ Live(o)'
    BY <1>3, <1>4, <1>6, <2>1
  <2> QED
    BY <1>2, <1>3, <1>4, <2>2 DEF ServingInv, Quiet, Preparing, Restoring, Draining
<1>10. TaskInv'
  BY <1>1, <1>2, <1>3, <1>4, <1>5, <1>6 DEF TaskInv, TasksHaveGates, Preparing,
     Restoring
<1>11. FilesInv'
  BY <1>1, <1>2, <1>3, <1>4, <1>5, <1>6 DEF FilesInv
<1>12. OwnerInv'
  BY <1>1, <1>2, <1>3, <1>4, <1>5, <1>6 DEF OwnerInv, Beginning, Preparing,
     Fencing, Draining
<1> QED
  BY <1>5, <1>7, <1>8, <1>9, <1>10, <1>11, <1>12 DEF SwitchInv

LEMMA AwaitFencedStep ==
  ASSUME SwitchInv, AwaitFenced
  PROVE  SwitchInv'
PROOF
<1>1. /\ pc = "await" /\ UNCHANGED <<services, files, canary, log>>
      /\ Continue(Order, "pause") \/ Goto("pause")
      /\ \/ tx' = [tx EXCEPT !.ready = @ \cup {Order[at]}]
         \/ tx' = With("errors")
  BY DEF AwaitFenced
<1>2. /\ TypesInv /\ CourseInv /\ ServingInv /\ TaskInv /\ FilesInv /\ OwnerInv
      /\ tx \in Transactions
  BY <1>1, ScriptFacts
<1>3. /\ link' = link /\ plist' = plist /\ profile' = profile /\ proc' = proc
      /\ stopping' = stopping /\ enabled' = enabled /\ moved' = moved
      /\ gate' = gate /\ telemetry' = telemetry /\ task' = task /\ Quiet' = Quiet
      /\ \A o \in Services : Live(o)' = Live(o)
  BY <1>1 DEF services, files, canary, Live, Quiet
<1>4. /\ pc' \in {"await", "pause"} /\ at' \in 1..Len(Topology)
      /\ at' <= Len(Order)
  BY <1>1, <1>2, SubjectLoop, GotoFacts DEF OverSubjects
<1>5. /\ JournalInv' /\ ReceiptIsTrue'
      /\ Deployment' = Deployment /\ Target' = Target /\ Previous' = Previous
  BY <1>1, <1>4, GoesOn
<1>6. Order[at] \in Subjects
  BY <1>1, <1>2, DoneFacts DEF TypesInv, OverSubjects
<1>7. /\ tx' \in Transactions /\ tx'.snapshot = tx.snapshot /\ tx'.fence = tx.fence
      /\ \A f \in {"snapshot", "tried"} : Has(f)' <=> Has(f)
      /\ Has("errors") => Has("errors")'
  BY <1>1, <1>2, <1>6 DEF Transactions, With, Has, Flags
<1>8. TypesInv'
  BY <1>1, <1>2, <1>3, <1>4, <1>7 DEF TypesInv, Labels, Fencing, OverSubjects
<1>9. CourseInv'
  BY <1>1, <1>2, <1>4, <1>5, <1>7 DEF CourseInv, Beginning, Fencing, Draining
<1>10. ServingInv'
  BY <1>1, <1>2, <1>3, <1>4, <1>7 DEF ServingInv, Preparing, Restoring, Draining
<1>11. TaskInv'
  BY <1>1, <1>2, <1>3, <1>4, <1>5, <1>7 DEF TaskInv, TasksHaveGates, Preparing,
     Restoring
<1>12. FilesInv'
  BY <1>1, <1>2, <1>3, <1>4, <1>5, <1>7 DEF FilesInv
<1>13. OwnerInv'
  BY <1>1, <1>2, <1>3, <1>4, <1>5, <1>7 DEF OwnerInv, Beginning, Preparing,
     Fencing, Draining
<1> QED
  BY <1>5, <1>8, <1>9, <1>10, <1>11, <1>12, <1>13 DEF SwitchInv

LEMMA PauseTargetStep ==
  ASSUME SwitchInv, PauseTarget
  PROVE  SwitchInv'
PROOF
<1>0. PICK s : s = Order[at]
  OBVIOUS
<1>1. /\ pc = "pause" /\ Continue(Order, "fenced")
      /\ UNCHANGED <<services, files, log>> /\ tx' \in {tx, With("errors")}
      /\ UNCHANGED canary \/ (s \in tx.fence /\ WriteGate(s, Target, "paused"))
  BY <1>0 DEF PauseTarget
<1>2. /\ TypesInv /\ CourseInv /\ ServingInv /\ TaskInv /\ FilesInv /\ OwnerInv
      /\ tx \in Transactions /\ Target \in Releases /\ Target # None
  BY <1>1, ScriptFacts
<1>3. /\ link' = link /\ plist' = plist /\ profile' = profile /\ proc' = proc
      /\ stopping' = stopping /\ enabled' = enabled /\ moved' = moved
      /\ task' = task /\ Quiet' = Quiet
      /\ \A o \in Services : Live(o)' = Live(o)
  BY <1>1 DEF services, files, canary, WriteGate, Live, Quiet
<1>4. /\ pc' \in {"pause", "fenced"} /\ at' \in 1..Len(Topology)
      /\ pc' = "pause" => at' <= Len(Order)
  BY <1>1, <1>2, SubjectLoop, GotoFacts DEF OverSubjects
<1>5. /\ JournalInv' /\ ReceiptIsTrue'
      /\ Deployment' = Deployment /\ Target' = Target /\ Previous' = Previous
  BY <1>1, <1>4, GoesOn
<1>6. /\ gate' \in [Subjects -> ProperGates] /\ telemetry' \in Maybe
      /\ \A o \in Subjects : gate'[o].release = gate[o].release
      /\ TasksHaveGates'
  <2>1. CASE UNCHANGED canary
    BY <1>2, <1>3, <2>1 DEF TypesInv, TaskInv, TasksHaveGates, canary
  <2>2. CASE s \in tx.fence /\ WriteGate(s, Target, "paused")
    <3>1. s \in Subjects
      BY <1>2, <2>2 DEF Transactions
    <3>2. gate[s].release = Target
      BY <1>1, <1>2, <2>2 DEF TaskInv
    <3>3. /\ gate' \in [Subjects -> ProperGates] /\ telemetry' \in Maybe
          /\ gate'[s].release = Target /\ gate'[s].state = "paused"
          /\ \A o \in Subjects : o # s => gate'[o] = gate[o]
      BY <1>2, <2>2, <3>1, WriteGateFacts DEF Maybe
    <3> QED
      BY <1>2, <1>3, <3>1, <3>2, <3>3 DEF TaskInv, TasksHaveGates
  <2> QED
    BY <1>1, <2>1, <2>2
<1>7. /\ tx' \in Transactions /\ tx'.snapshot = tx.snapshot /\ tx'.fence = tx.fence
      /\ \A f \in {"snapshot", "tried"} : Has(f)' <=> Has(f)
      /\ Has("errors") => Has("errors")'
  BY <1>1, <1>2, NotedFacts
<1>8. TypesInv'
  BY <1>2, <1>3, <1>4, <1>6, <1>7, <1>1 DEF TypesInv, Labels, Fencing, OverSubjects
<1>9. CourseInv'
  BY <1>1, <1>2, <1>4, <1>5, <1>7 DEF CourseInv, Beginning, Fencing, Draining
<1>10. ServingInv'
  BY <1>1, <1>2, <1>3, <1>4, <1>7 DEF ServingInv, Preparing, Restoring, Draining
<1>11. TaskInv'
  <2>1. \A o \in tx'.fence : gate'[o].release = Target'
    BY <1>1, <1>2, <1>5, <1>6, <1>7 DEF TaskInv, Transactions
  <2> QED
    BY <1>4, <1>6, <2>1 DEF TaskInv, Preparing, Restoring
<1>12. FilesInv'
  BY <1>1, <1>2, <1>3, <1>4, <1>5, <1>7 DEF FilesInv
<1>13. OwnerInv'
  BY <1>1, <1>2, <1>4, <1>5, <1>6, <1>7 DEF OwnerInv, Beginning, Preparing,
     Fencing, Draining
<1> QED
  BY <1>5, <1>8, <1>9, <1>10, <1>11, <1>12, <1>13 DEF SwitchInv

LEMMA VerifyFencedStep ==
  ASSUME SwitchInv, VerifyFenced
  PROVE  SwitchInv'
PROOF
<1>1. pc = "fenced" /\ UNCHANGED <<services, files, canary>>
  BY DEF VerifyFenced
<1>2. /\ TypesInv /\ CourseInv /\ ServingInv /\ TaskInv /\ FilesInv /\ OwnerInv
      /\ tx \in Transactions
  BY <1>1, ScriptFacts
<1>3. /\ link' = link /\ plist' = plist /\ profile' = profile /\ proc' = proc
      /\ stopping' = stopping /\ enabled' = enabled /\ moved' = moved
      /\ gate' = gate /\ telemetry' = telemetry /\ task' = task /\ Quiet' = Quiet
      /\ \A o \in Services : Live(o)' = Live(o)
  BY <1>1 DEF services, files, canary, Live, Quiet
<1>4. TasksHaveGates'
  BY <1>2, <1>3 DEF TaskInv, TasksHaveGates
<1>5. CASE /\ ~ Has("errors") /\ NoTasks /\ Goto("disarm")
           /\ UNCHANGED <<tx, log>>
  <2>1. /\ pc' = "disarm" /\ at' \in 1..Len(Topology) /\ at' <= Len(Order)
        /\ Done(Order)' = {}
    BY <1>5, GotoFacts
  <2>2. /\ JournalInv' /\ ReceiptIsTrue'
        /\ Deployment' = Deployment /\ Target' = Target /\ Previous' = Previous
        /\ \A f : Has(f)' <=> Has(f)
    BY <1>1, <1>5, <2>1, GoesOn DEF Has
  <2>3. TypesInv'
    BY <1>2, <1>3, <1>5, <2>1 DEF TypesInv, Labels, Fencing, OverSubjects
  <2>4. CourseInv'
    BY <1>1, <1>2, <2>1, <2>2 DEF CourseInv, Beginning, Fencing, Draining
  <2>5. ServingInv'
    BY <1>1, <1>2, <1>3, <1>5, <2>1 DEF ServingInv, Preparing, Restoring, Draining
  <2>6. TaskInv'
    BY <1>3, <1>4, <1>5, <2>1 DEF TaskInv, NoTasks, Preparing, Restoring
  <2>7. FilesInv'
    BY <1>1, <1>2, <1>3, <2>1, <2>2 DEF FilesInv
  <2>8. OwnerInv'
    BY <1>1, <1>2, <1>3, <1>5, <2>1, <2>2 DEF OwnerInv, Beginning, Preparing,
       Fencing, Draining
  <2> QED
    BY <2>2, <2>3, <2>4, <2>5, <2>6, <2>7, <2>8 DEF SwitchInv
<1>6. CASE Block
  BY <1>1, <1>2, <1>3, <1>4, <1>6, BlockStep DEF TypesInv
<1> QED
  BY <1>5, <1>6 DEF VerifyFenced, NoTasks

LEMMA DisarmTargetStep ==
  ASSUME SwitchInv, DisarmTarget
  PROVE  SwitchInv'
PROOF
<1>0. PICK s : s = Order[at]
  OBVIOUS
<1> DEFINE written == WriteGate(s, Target, "inactive") /\ gate[s].release = Target
           next == Continue(Order, "restore plists") /\ UNCHANGED <<tx, log>>
<1>1. pc = "disarm" /\ UNCHANGED <<services, files>>
  BY DEF DisarmTarget
<1>2. /\ \/ UNCHANGED canary /\ gate[s].state \in {"absent", "inactive"}
         \/ written
         \/ UNCHANGED canary /\ Block
      /\ next \/ Block
  <2> DEFINE done == \/ gate[s].state = "absent"
                     \/ gate[s] = [release |-> Target, state |-> "inactive"]
  <2>1. done => gate[s].state \in {"absent", "inactive"}
    OBVIOUS
  <2> HIDE DEF written, next
  <2>2. \/ done /\ UNCHANGED canary /\ next
        \/ UNCHANGED canary /\ Block
        \/ written /\ (next \/ Block)
    BY <1>0 DEF DisarmTarget, written, next
  <2> QED
    BY <2>1, <2>2
<1>3. /\ TypesInv /\ CourseInv /\ ServingInv /\ TaskInv /\ FilesInv /\ OwnerInv
      /\ tx \in Transactions /\ Target \in Releases /\ Target # None
      /\ Deployment.canary
  BY <1>1, ScriptFacts DEF CourseInv, Fencing
<1>4. s \in Subjects
  BY <1>0, <1>1, <1>3, DoneFacts DEF TypesInv, OverSubjects
<1>5. /\ link' = link /\ plist' = plist /\ profile' = profile /\ proc' = proc
      /\ stopping' = stopping /\ enabled' = enabled /\ moved' = moved
      /\ task' = task /\ Quiet' = Quiet
      /\ \A o \in Services : Live(o)' = Live(o)
  BY <1>1, <1>2 DEF services, files, canary, WriteGate, Live, Quiet
<1>6. /\ gate' \in [Subjects -> ProperGates] /\ telemetry' \in Maybe
      /\ \A o \in Subjects : /\ gate'[o].release = gate[o].release
                             /\ \/ gate'[o].state = gate[o].state
                                \/ gate'[o].state = "inactive"
      /\ ~ Block => gate'[s].state \in {"absent", "inactive"}
  <2>1. CASE /\ UNCHANGED canary
             /\ Block \/ gate[s].state \in {"absent", "inactive"}
    BY <1>3, <1>4, <2>1 DEF TypesInv, canary
  <2>2. CASE written
    <3>1. /\ gate' \in [Subjects -> ProperGates] /\ telemetry' \in Maybe
          /\ gate'[s].release = Target /\ gate'[s].state = "inactive"
          /\ \A o \in Subjects : o # s => gate'[o] = gate[o]
      BY <1>3, <1>4, <2>2, WriteGateFacts DEF Maybe
    <3> QED
      BY <1>4, <2>2, <3>1
  <2> QED
    BY <1>2, <2>1, <2>2
<1>7. NoTasks /\ TasksHaveGates'
  BY <1>1, <1>3, <1>5 DEF TaskInv, NoTasks, TasksHaveGates
<1>8. CASE Block
  BY <1>1, <1>5, <1>6, <1>7, <1>8, BlockStep
<1>9. CASE next /\ ~ Block
  <2>1. /\ at' \in 1..Len(Topology) /\ at' <= Len(Order)
        /\ Done(Order) \subseteq Subjects
        /\ \/ pc' = "disarm" /\ Done(Order)' = Done(Order) \cup {s}
           \/ /\ pc' = "restore plists" /\ Done(Topology)' = {}
              /\ Done(Order) \cup {s} = Subjects
    BY <1>0, <1>1, <1>3, <1>9, SubjectLoop, GotoFacts DEF OverSubjects
  <2>2. /\ JournalInv' /\ ReceiptIsTrue'
        /\ Deployment' = Deployment /\ Target' = Target /\ Previous' = Previous
        /\ \A f : Has(f)' <=> Has(f)
    BY <1>1, <1>9, <2>1, GoesOn DEF Has
  <2>3. TypesInv'
    BY <1>1, <1>3, <1>5, <1>6, <1>9, <2>1 DEF TypesInv, Labels, Restoring, OverSubjects
  <2>4. CourseInv'
    BY <1>1, <1>3, <2>1, <2>2 DEF CourseInv, Beginning, Preparing, Fencing, Draining
  <2>5. ServingInv'
    BY <1>1, <1>3, <1>5, <2>1 DEF ServingInv, Preparing, Restoring, Draining
  <2>6. TaskInv'
    <3>1. NoTasks' /\ Quiet'
      BY <1>1, <1>3, <1>5, <1>7 DEF NoTasks, ServingInv
    <3>2. Calm'
      BY <3>1 DEF Calm, NoTasks
    <3> QED
      BY <1>7, <2>1, <3>1, <3>2 DEF TaskInv
  <2>7. FilesInv'
    BY <1>1, <1>3, <1>5, <2>1, <2>2 DEF FilesInv
  <2>8. OwnerInv'
    <3>1. \A o \in Subjects : gate'[o].release \in {Deployment'.owner[o], Target'}
      BY <1>1, <1>3, <1>6, <2>2 DEF OwnerInv, Fencing
    <3>2. \A o \in Done(Order) \cup {s} : gate'[o].state \in {"absent", "inactive"}
      BY <1>1, <1>3, <1>6, <1>9, <2>1 DEF OwnerInv
    <3>3. \A o \in Subjects : gate'[o].state = "absent" => gate'[o].release = None
      BY <1>6 DEF ProperGates, NoGate
    <3>4. pc' = "restore plists" /\ ~ Has("snapshot")' =>
            \A o \in Subjects : gate'[o].release = Deployment'.owner[o] \/ Handed(o)'
      BY <1>1, <1>3, <2>1, <2>2, <3>1, <3>2, <3>3 DEF CourseInv, Fencing, Handed
    <3>5. pc' # "idle" /\ Has("snapshot")' =>
            \A o \in Subjects : tx'.snapshot[o].release = Deployment'.owner[o]
      BY <1>1, <1>3, <1>9, <2>2 DEF OwnerInv
    <3> QED
      BY <2>1, <3>1, <3>2, <3>4, <3>5 DEF OwnerInv, Beginning, Preparing, Fencing,
         Draining
  <2> QED
    BY <2>2, <2>3, <2>4, <2>5, <2>6, <2>7, <2>8 DEF SwitchInv
<1> QED
  BY <1>2, <1>8, <1>9

-----------------------------------------------------------------------------
(* The rollback of a plain activation, and of one that started nothing.    *)

LEMMA DisablePlainStep ==
  ASSUME SwitchInv, DisablePlain
  PROVE  SwitchInv'
PROOF
<1> DEFINE next == Continue(Topology, "drain") /\ UNCHANGED <<tx, log>>
<1>1. /\ pc = "disable" /\ NoJobs /\ UNCHANGED <<files, canary>>
      /\ \/ enabled' = enabled \ {Topology[at]} /\ next
         \/ enabled' = enabled /\ Block
  BY DEF DisablePlain, Disable
<1>2. /\ TypesInv /\ CourseInv /\ ServingInv /\ TaskInv /\ FilesInv /\ OwnerInv
      /\ tx \in Transactions
  BY <1>1, ScriptFacts
<1>3. /\ link' = link /\ plist' = plist /\ profile' = profile /\ proc' = proc
      /\ stopping' = stopping /\ enabled' \subseteq Services /\ moved' = moved
      /\ gate' = gate /\ telemetry' = telemetry /\ task' = task
      /\ \A o \in Services : Live(o)' = Live(o)
  BY <1>1, <1>2 DEF TypesInv, files, canary, NoJobs, Live
<1>4. TasksHaveGates'
  BY <1>2, <1>3 DEF TaskInv, TasksHaveGates
<1>5. CASE next
  <2>1. pc' \in {"disable", "drain"} /\ at' \in 1..Len(Topology)
    BY <1>1, <1>2, <1>5, ServiceLoop, GotoFacts
  <2>2. /\ JournalInv' /\ ReceiptIsTrue'
        /\ Deployment' = Deployment /\ Target' = Target /\ Previous' = Previous
        /\ \A f : Has(f)' <=> Has(f)
    BY <1>1, <1>5, <2>1, GoesOn DEF Has
  <2>3. TypesInv'
    BY <1>2, <1>3, <1>5, <2>1 DEF TypesInv, Labels, Draining, OverSubjects
  <2>4. CourseInv'
    BY <1>1, <1>2, <2>1, <2>2 DEF CourseInv, Beginning, Preparing, Fencing, Draining
  <2>5. ServingInv'
    BY <1>1, <1>2, <1>3, <2>1, <2>2, TopologyFacts DEF ServingInv, Preparing,
       Restoring, Draining
  <2>6. TaskInv'
    BY <1>4, <2>1 DEF TaskInv, Preparing, Restoring
  <2>7. FilesInv'
    BY <1>1, <1>2, <1>3, <2>1, <2>2 DEF FilesInv
  <2>8. OwnerInv'
    BY <1>1, <1>2, <1>3, <1>5, <2>1, <2>2 DEF OwnerInv, OwnersKept, Beginning,
       Preparing, Fencing, Draining
  <2> QED
    BY <2>2, <2>3, <2>4, <2>5, <2>6, <2>7, <2>8 DEF SwitchInv
<1>6. CASE enabled' = enabled /\ Block
  <2>1. UNCHANGED services
    BY <1>3, <1>6 DEF services
  <2> QED
    BY <1>1, <1>2, <1>3, <1>4, <1>6, <2>1, BlockStep DEF TypesInv
<1> QED
  BY <1>1, <1>5, <1>6

LEMMA DrainPlainStep ==
  ASSUME SwitchInv, DrainPlain
  PROVE  SwitchInv'
PROOF
<1>1. /\ pc = "drain" /\ UNCHANGED <<services, files, canary>>
      /\ Block \/ (Goto("bootout") /\ UNCHANGED <<tx, log>>)
  BY DEF DrainPlain
<1>2. /\ TypesInv /\ CourseInv /\ ServingInv /\ TaskInv /\ FilesInv /\ OwnerInv
      /\ tx \in Transactions
  BY <1>1, ScriptFacts
<1>3. /\ link' = link /\ plist' = plist /\ profile' = profile /\ proc' = proc
      /\ stopping' = stopping /\ enabled' = enabled /\ moved' = moved
      /\ gate' = gate /\ telemetry' = telemetry /\ task' = task
      /\ \A o \in Services : Live(o)' = Live(o)
  BY <1>1 DEF services, files, canary, Live
<1>4. TasksHaveGates'
  BY <1>2, <1>3 DEF TaskInv, TasksHaveGates
<1>5. CASE Goto("bootout") /\ UNCHANGED <<tx, log>>
  <2>1. pc' = "bootout" /\ at' \in 1..Len(Topology)
    BY <1>5, GotoFacts
  <2>2. /\ JournalInv' /\ ReceiptIsTrue'
        /\ Deployment' = Deployment /\ Target' = Target /\ Previous' = Previous
        /\ \A f : Has(f)' <=> Has(f)
    BY <1>1, <1>5, <2>1, GoesOn DEF Has
  <2>3. TypesInv'
    BY <1>2, <1>3, <1>5, <2>1 DEF TypesInv, Labels, Draining, OverSubjects
  <2>4. CourseInv'
    BY <1>1, <1>2, <2>1, <2>2 DEF CourseInv, Beginning, Preparing, Fencing, Draining
  <2>5. ServingInv'
    BY <1>1, <1>2, <1>3, <2>1, <2>2, TopologyFacts DEF ServingInv, Preparing,
       Restoring, Draining
  <2>6. TaskInv'
    BY <1>4, <2>1 DEF TaskInv, Preparing, Restoring
  <2>7. FilesInv'
    BY <1>1, <1>2, <1>3, <2>1, <2>2 DEF FilesInv
  <2>8. OwnerInv'
    BY <1>1, <1>2, <1>3, <1>5, <2>1, <2>2 DEF OwnerInv, OwnersKept, Beginning,
       Preparing, Fencing, Draining
  <2> QED
    BY <2>2, <2>3, <2>4, <2>5, <2>6, <2>7, <2>8 DEF SwitchInv
<1>6. CASE Block
  BY <1>1, <1>2, <1>3, <1>4, <1>6, BlockStep DEF TypesInv
<1> QED
  BY <1>1, <1>5, <1>6

LEMMA BootoutPlainStep ==
  ASSUME SwitchInv, BootoutPlain
  PROVE  SwitchInv'
PROOF
<1>0. PICK s : s = Topology[at]
  OBVIOUS
<1> DEFINE next == Continue(Topology, "restore plists") /\ UNCHANGED <<tx, log>>
<1>1. /\ pc = "bootout" /\ enabled' = enabled /\ UNCHANGED <<files, canary>>
      /\ \/ Bootout(s) /\ next
         \/ NoJobs /\ s # Dashboard /\ next
         \/ NoJobs /\ Block
  BY <1>0 DEF BootoutPlain
<1>2. /\ TypesInv /\ CourseInv /\ ServingInv /\ TaskInv /\ FilesInv /\ OwnerInv
      /\ tx \in Transactions /\ Deployment.canary = FALSE
  BY <1>1, ScriptFacts DEF CourseInv, Draining
<1>3. s \in Services
  BY <1>0, <1>2, DoneFacts
<1>4. /\ link' = link /\ plist' = plist /\ profile' = profile /\ gate' = gate
      /\ telemetry' = telemetry /\ task' = task
      /\ proc' = proc /\ moved' = moved
      /\ stopping' \subseteq {o \in Services : proc[o] # None}
      /\ \A o \in Services : Live(o)' => Live(o)
      /\ Bootout(s) => ~ Live(s)'
  BY <1>1, <1>2, <1>3, BootoutFacts DEF files, canary
<1>5. TasksHaveGates'
  BY <1>2, <1>4 DEF TaskInv, TasksHaveGates
<1>6. CASE next /\ (Bootout(s) \/ s # Dashboard)
  <2>1. /\ at' \in 1..Len(Topology)
        /\ \/ pc' = "bootout"
           \/ pc' = "restore plists" /\ Done(Topology)' = {} /\ s = Dashboard
    BY <1>0, <1>1, <1>2, <1>6, ServiceLoop, GotoFacts
  <2>2. /\ JournalInv' /\ ReceiptIsTrue'
        /\ Deployment' = Deployment /\ Target' = Target /\ Previous' = Previous
        /\ \A f : Has(f)' <=> Has(f)
    BY <1>1, <1>6, <2>1, GoesOn DEF Has
  <2>3. TypesInv'
    BY <1>1, <1>2, <1>4, <1>6, <2>1 DEF TypesInv, Labels, Draining, Restoring,
       OverSubjects
  <2>4. CourseInv'
    BY <1>1, <1>2, <2>1, <2>2 DEF CourseInv, Beginning, Preparing, Fencing, Draining
  <2>5. ServingInv'
    <3>1. \A o \in Subjects : ~ Live(o)'
      BY <1>1, <1>2, <1>4, TopologyFacts DEF ServingInv, Draining
    <3>2. pc' = "restore plists" => Quiet'
      BY <1>4, <1>6, <2>1, <3>1 DEF Quiet, Services
    <3> QED
      BY <1>2, <1>4, <2>1, <3>1, <3>2 DEF ServingInv, Preparing, Restoring, Draining
  <2>6. TaskInv'
    <3>1. Has("snapshot")' /\ pc' = "restore plists" => Calm'
      <4>1. ~ Has("snapshot")
        BY <1>1, <1>2 DEF CourseInv, Draining
      <4> QED
        BY <2>2, <4>1
    <3> QED
      BY <1>5, <2>1, <3>1 DEF TaskInv, Preparing, Restoring
  <2>7. FilesInv'
    BY <1>1, <1>2, <1>4, <2>1, <2>2 DEF FilesInv
  <2>8. OwnerInv'
    BY <1>1, <1>2, <1>4, <1>6, <2>1, <2>2 DEF OwnerInv, OwnersKept, Beginning,
       Preparing, Fencing, Draining
  <2> QED
    BY <2>2, <2>3, <2>4, <2>5, <2>6, <2>7, <2>8 DEF SwitchInv
<1>7. CASE NoJobs /\ Block
  <2>1. UNCHANGED services
    BY <1>1, <1>7 DEF services, NoJobs
  <2> QED
    BY <1>1, <1>2, <1>4, <1>5, <1>7, <2>1, BlockStep DEF TypesInv
<1> QED
  BY <1>1, <1>6, <1>7

LEMMA StopTargetStep ==
  ASSUME SwitchInv, StopTarget
  PROVE  SwitchInv'
PROOF
<1>0. PICK s : s = Topology[at]
  OBVIOUS
<1>1. /\ pc = "stop target" /\ Continue(Topology, "restore plists")
      /\ enabled' \in {enabled, enabled \ {s}} /\ (Bootout(s) \/ NoJobs)
      /\ tx' \in {tx, With("errors")} /\ UNCHANGED <<files, canary, log>>
  BY <1>0 DEF StopTarget, Disable
<1>2. /\ TypesInv /\ CourseInv /\ ServingInv /\ TaskInv /\ FilesInv /\ OwnerInv
      /\ tx \in Transactions
  BY <1>1, ScriptFacts
<1>3. /\ s \in Services /\ at' \in 1..Len(Topology)
      /\ \/ pc' = "stop target"
         \/ pc' = "restore plists" /\ Done(Topology)' = {}
  BY <1>0, <1>1, <1>2, ServiceLoop, GotoFacts
<1>4. /\ link' = link /\ plist' = plist /\ profile' = profile /\ gate' = gate
      /\ telemetry' = telemetry /\ task' = task
      /\ proc' = proc /\ moved' = moved
      /\ stopping' \subseteq {o \in Services : proc[o] # None}
      /\ \A o \in Services : Live(o)' => Live(o)
      /\ Quiet => Quiet'
  BY <1>1, <1>2, <1>3, BootoutFacts DEF files, canary
<1>5. /\ JournalInv' /\ ReceiptIsTrue'
      /\ Deployment' = Deployment /\ Target' = Target /\ Previous' = Previous
  BY <1>1, <1>3, GoesOn
<1>6. /\ tx' \in Transactions /\ tx'.snapshot = tx.snapshot /\ tx'.fence = tx.fence
      /\ \A f \in {"snapshot", "tried"} : Has(f)' <=> Has(f)
      /\ Has("errors") => Has("errors")'
  BY <1>1, <1>2, NotedFacts
<1>7. TypesInv'
  BY <1>1, <1>2, <1>3, <1>4, <1>6 DEF TypesInv, Labels, Restoring, OverSubjects
<1>8. CourseInv'
  BY <1>1, <1>2, <1>3, <1>5, <1>6 DEF CourseInv, Beginning, Preparing, Fencing,
     Draining
<1>9. ServingInv'
  BY <1>1, <1>2, <1>3, <1>4, <1>5 DEF ServingInv, Preparing, Restoring, Draining
<1>10. TaskInv'
  <2>1. TasksHaveGates'
    BY <1>2, <1>4 DEF TaskInv, TasksHaveGates
  <2>2. Has("snapshot")' => Calm'
    BY <1>1, <1>2, <1>4, <1>6 DEF TaskInv, Calm, Restoring
  <2> QED
    BY <1>3, <2>1, <2>2 DEF TaskInv
<1>11. FilesInv'
  BY <1>1, <1>2, <1>3, <1>4, <1>5, <1>6 DEF FilesInv
<1>12. OwnerInv'
  BY <1>1, <1>2, <1>3, <1>4, <1>5, <1>6 DEF OwnerInv, OwnersKept, Beginning,
     Preparing, Fencing, Draining
<1> QED
  BY <1>5, <1>7, <1>8, <1>9, <1>10, <1>11, <1>12 DEF SwitchInv

-----------------------------------------------------------------------------
(* The restoration of the previous state.                                  *)

LEMMA RestorePlistsStep ==
  ASSUME SwitchInv, RestorePlists
  PROVE  SwitchInv'
PROOF
<1>0. PICK s : s = Topology[at]
  OBVIOUS
<1> DEFINE restored == /\ plist' = [plist EXCEPT ![s] = Deployment.plist[s]]
                       /\ Continue(Topology, "restore profiles") /\ tx' = tx
           failed == /\ plist' = plist
                     /\ Goto("restore profiles") /\ tx' = With("errors")
<1>1. /\ pc = "restore plists" /\ (restored \/ failed)
      /\ UNCHANGED <<services, link, profile, canary, log>>
  BY <1>0 DEF RestorePlists
<1>2. /\ TypesInv /\ CourseInv /\ ServingInv /\ TaskInv /\ FilesInv /\ OwnerInv
      /\ tx \in Transactions /\ Deployment.plist \in [Services -> Maybe]
  BY <1>1, ScriptFacts
<1>3. /\ link' = link /\ profile' = profile /\ proc' = proc
      /\ stopping' = stopping /\ enabled' = enabled /\ moved' = moved
      /\ gate' = gate /\ telemetry' = telemetry /\ task' = task /\ Quiet' = Quiet
      /\ \A o \in Services : Live(o)' = Live(o)
  BY <1>1 DEF services, canary, Live, Quiet
<1>4. /\ s \in Services /\ at' \in 1..Len(Topology)
      /\ pc' \in {"restore plists", "restore profiles"}
      /\ restored => /\ Done(Topology) \subseteq Services
                     /\ \/ /\ pc' = "restore plists"
                           /\ Done(Topology)' = Done(Topology) \cup {s}
                        \/ /\ pc' = "restore profiles"
                           /\ Done(Topology) \cup {s} = Services
      /\ failed => pc' = "restore profiles"
  BY <1>0, <1>1, <1>2, DoneFacts, ServiceLoop, GotoFacts
<1>5. /\ JournalInv' /\ ReceiptIsTrue'
      /\ Deployment' = Deployment /\ Target' = Target /\ Previous' = Previous
  BY <1>1, <1>4, GoesOn
<1>6. /\ tx' \in Transactions /\ tx'.snapshot = tx.snapshot
      /\ \A f \in {"snapshot", "tried"} : Has(f)' <=> Has(f)
      /\ failed => Has("errors")'
  BY <1>1, <1>2, NotedFacts
<1>7. plist' \in [Services -> Maybe]
  BY <1>1, <1>2, <1>4 DEF TypesInv
<1>8. TypesInv'
  BY <1>1, <1>2, <1>3, <1>4, <1>6, <1>7 DEF TypesInv, Labels, Restoring, OverSubjects
<1>9. CourseInv'
  BY <1>1, <1>2, <1>4, <1>5, <1>6 DEF CourseInv, Beginning, Preparing, Fencing,
     Draining
<1>10. ServingInv'
  BY <1>1, <1>2, <1>3, <1>4, <1>5 DEF ServingInv, Preparing, Restoring, Draining
<1>11. TaskInv'
  BY <1>1, <1>2, <1>3, <1>4, <1>6 DEF TaskInv, TasksHaveGates, Calm, Preparing,
     Restoring
<1>12. FilesInv'
  <2>1. restored => \A o \in Done(Topology) \cup {s} :
                      plist'[o] = Deployment.plist[o]
    <3>1. \A o \in Done(Topology) : plist[o] = Deployment.plist[o]
      BY <1>1, <1>2 DEF FilesInv
    <3>2. restored => /\ plist'[s] = Deployment.plist[s]
                      /\ \A o \in Services : o # s => plist'[o] = plist[o]
      BY <1>2, <1>4 DEF TypesInv
    <3> QED
      BY <1>4, <3>1, <3>2
  <2>2. restored /\ pc' = "restore profiles" => plist' = Deployment.plist
    BY <1>2, <1>4, <1>7, <2>1
  <2> QED
    BY <1>1, <1>2, <1>3, <1>4, <1>5, <1>6, <2>1, <2>2 DEF FilesInv
<1>13. OwnerInv'
  BY <1>1, <1>2, <1>3, <1>4, <1>5, <1>6 DEF OwnerInv, Handed, Beginning, Preparing,
     Fencing, Draining
<1> QED
  BY <1>5, <1>8, <1>9, <1>10, <1>11, <1>12, <1>13 DEF SwitchInv

LEMMA RestoreProfilesStep ==
  ASSUME SwitchInv, RestoreProfiles
  PROVE  SwitchInv'
PROOF
<1>1. /\ pc = "restore profiles"
      /\ Goto(IF Has("snapshot") THEN "restore gates" ELSE "relink")
      /\ \/ /\ profile' = IF Has("tried") THEN Deployment.profile ELSE profile
            /\ tx' = tx
         \/ /\ profile' \in IF Has("tried") THEN {profile, Mixed} ELSE {profile}
            /\ tx' = With("errors")
      /\ UNCHANGED <<services, link, plist, canary, log>>
  BY DEF RestoreProfiles
<1>2. /\ TypesInv /\ CourseInv /\ ServingInv /\ TaskInv /\ FilesInv /\ OwnerInv
      /\ tx \in Transactions /\ Deployment.profile \in Maybe \cup {Mixed}
  BY <1>1, ScriptFacts
<1>3. /\ link' = link /\ plist' = plist /\ proc' = proc
      /\ stopping' = stopping /\ enabled' = enabled /\ moved' = moved
      /\ gate' = gate /\ telemetry' = telemetry /\ task' = task /\ Quiet' = Quiet
      /\ \A o \in Services : Live(o)' = Live(o)
  BY <1>1 DEF services, canary, Live, Quiet
<1>4. /\ pc' = IF Has("snapshot") THEN "restore gates" ELSE "relink"
      /\ at' \in 1..Len(Topology) /\ at' <= Len(Order) /\ Done(Order)' = {}
  <2>1. PICK p : p = IF Has("snapshot") THEN "restore gates" ELSE "relink"
    OBVIOUS
  <2>2. Goto(p)
    BY <1>1, <2>1
  <2>3. /\ pc' = p /\ at' \in 1..Len(Topology) /\ at' <= Len(Order)
        /\ Done(Order)' = {}
    BY <2>2, GotoFacts
  <2> QED
    BY <2>1, <2>3
<1>5. /\ JournalInv' /\ ReceiptIsTrue'
      /\ Deployment' = Deployment /\ Target' = Target /\ Previous' = Previous
  BY <1>1, <1>4, GoesOn
<1>6. /\ tx' \in Transactions /\ tx'.snapshot = tx.snapshot
      /\ \A f \in {"snapshot", "tried"} : Has(f)' <=> Has(f)
      /\ Has("errors") => Has("errors")'
      /\ tx' = With("errors") => Has("errors")'
  BY <1>1, <1>2, NotedFacts
<1>7. profile' \in Maybe \cup {Mixed}
  BY <1>1, <1>2 DEF TypesInv
<1>8. TypesInv'
  BY <1>1, <1>2, <1>3, <1>4, <1>6, <1>7 DEF TypesInv, Labels, Restoring, OverSubjects
<1>9. CourseInv'
  BY <1>1, <1>2, <1>4, <1>5, <1>6 DEF CourseInv, Beginning, Preparing, Fencing,
     Draining
<1>10. ServingInv'
  BY <1>1, <1>2, <1>3, <1>4, <1>5 DEF ServingInv, Preparing, Restoring, Draining
<1>11. TaskInv'
  BY <1>1, <1>2, <1>3, <1>4, <1>6 DEF TaskInv, TasksHaveGates, Calm, Preparing,
     Restoring
<1>12. FilesInv'
  BY <1>1, <1>2, <1>3, <1>4, <1>5, <1>6 DEF FilesInv
<1>13. OwnerInv'
  BY <1>1, <1>2, <1>3, <1>4, <1>5, <1>6 DEF OwnerInv, Handed, Beginning, Preparing,
     Fencing, Draining
<1> QED
  BY <1>5, <1>8, <1>9, <1>10, <1>11, <1>12, <1>13 DEF SwitchInv

LEMMA RestoreGatesStep ==
  ASSUME SwitchInv, RestoreGates
  PROVE  SwitchInv'
PROOF
<1>0. PICK s : s = Order[at]
  OBVIOUS
<1> DEFINE restored == /\ gate' = [gate EXCEPT ![s] = tx.snapshot[s]]
                       /\ Continue(Order, "relink") /\ tx' = tx
           failed == gate' = gate /\ Goto("relink") /\ tx' = With("errors")
<1>1. /\ pc = "restore gates" /\ (restored \/ failed)
      /\ UNCHANGED <<services, files, telemetry, task, log>>
  BY <1>0 DEF RestoreGates
<1>2. /\ TypesInv /\ CourseInv /\ ServingInv /\ TaskInv /\ FilesInv /\ OwnerInv
      /\ tx \in Transactions
  BY <1>1, ScriptFacts
<1>3. /\ link' = link /\ plist' = plist /\ profile' = profile /\ proc' = proc
      /\ stopping' = stopping /\ enabled' = enabled /\ moved' = moved
      /\ telemetry' = telemetry /\ task' = task /\ Quiet' = Quiet
      /\ \A o \in Services : Live(o)' = Live(o)
  BY <1>1 DEF services, files, Live, Quiet
<1>4. /\ s \in Subjects /\ at' \in 1..Len(Topology)
      /\ pc' \in {"restore gates", "relink"}
      /\ pc' = "restore gates" => at' <= Len(Order)
      /\ restored => /\ Done(Order) \subseteq Subjects
                     /\ \/ /\ pc' = "restore gates"
                           /\ Done(Order)' = Done(Order) \cup {s}
                        \/ pc' = "relink" /\ Done(Order) \cup {s} = Subjects
      /\ failed => pc' = "relink"
  BY <1>0, <1>1, <1>2, DoneFacts, SubjectLoop, GotoFacts DEF TypesInv, OverSubjects
<1>5. /\ JournalInv' /\ ReceiptIsTrue'
      /\ Deployment' = Deployment /\ Target' = Target /\ Previous' = Previous
  BY <1>1, <1>4, GoesOn
<1>6. /\ tx' \in Transactions /\ tx'.snapshot = tx.snapshot
      /\ \A f \in {"snapshot", "tried"} : Has(f)' <=> Has(f)
      /\ Has("errors") => Has("errors")'
      /\ failed => Has("errors")'
  BY <1>1, <1>2, NotedFacts
<1>7. Has("snapshot") /\ Calm
  BY <1>1, <1>2 DEF CourseInv, TaskInv, Restoring
<1>8. /\ gate' \in [Subjects -> ProperGates]
      /\ \A o \in Subjects : task[o] # "none" => gate'[o] = gate[o]
      /\ \A o \in Subjects : o # s => gate'[o] = gate[o]
      /\ restored => gate'[s] = tx.snapshot[s]
  <2>1. /\ gate \in [Subjects -> ProperGates]
        /\ tx.snapshot \in [Subjects -> ProperGates]
    BY <1>2 DEF TypesInv, Transactions
  <2>2. task[s] # "none" => gate[s] = tx.snapshot[s]
    BY <1>4, <1>7 DEF Calm
  <2>3. CASE restored
    BY <1>4, <2>1, <2>2, <2>3
  <2>4. CASE failed
    <3>1. gate' = gate
      BY <2>4
    <3>2. restored => gate'[s] = tx.snapshot[s]
      BY <1>4, <2>1
    <3> QED
      BY <2>1, <3>1, <3>2
  <2> QED
    BY <1>1, <2>3, <2>4
<1>9. TypesInv'
  BY <1>1, <1>2, <1>3, <1>4, <1>6, <1>8 DEF TypesInv, Labels, Restoring, OverSubjects
<1>10. CourseInv'
  BY <1>1, <1>2, <1>4, <1>5, <1>6 DEF CourseInv, Beginning, Preparing, Fencing,
     Draining
<1>11. ServingInv'
  BY <1>1, <1>2, <1>3, <1>4, <1>5 DEF ServingInv, Preparing, Restoring, Draining
<1>12. TaskInv'
  <2>1. TasksHaveGates'
    BY <1>2, <1>3, <1>8 DEF TaskInv, TasksHaveGates
  <2>2. Calm'
    BY <1>3, <1>6, <1>7, <1>8 DEF Calm
  <2> QED
    BY <1>4, <2>1, <2>2 DEF TaskInv
<1>13. FilesInv'
  BY <1>1, <1>2, <1>3, <1>4, <1>5, <1>6 DEF FilesInv
<1>14. OwnerInv'
  <2>1. \A o \in Subjects : tx.snapshot[o].release = Deployment.owner[o]
    BY <1>1, <1>2, <1>7 DEF OwnerInv
  <2>2. restored => \A o \in Done(Order) \cup {s} :
                      gate'[o].release = Deployment.owner[o]
    BY <1>1, <1>2, <1>4, <1>8, <2>1 DEF OwnerInv
  <2> QED
    BY <1>1, <1>2, <1>4, <1>5, <1>6, <1>7, <2>1, <2>2 DEF OwnerInv, OwnersKept,
       Beginning, Preparing, Fencing, Draining
<1> QED
  BY <1>5, <1>9, <1>10, <1>11, <1>12, <1>13, <1>14 DEF SwitchInv

LEMMA RelinkStep ==
  ASSUME SwitchInv, Relink
  PROVE  SwitchInv'
PROOF
<1>1. /\ pc = "relink" /\ Goto(IF Previous = None THEN "close" ELSE "restart")
      /\ \/ link' = Previous /\ tx' = tx
         \/ link' = link /\ tx' = With("errors")
      /\ UNCHANGED <<services, plist, profile, canary, log>>
  BY DEF Relink
<1>2. /\ TypesInv /\ CourseInv /\ ServingInv /\ TaskInv /\ FilesInv /\ OwnerInv
      /\ tx \in Transactions /\ Previous \in Maybe
  BY <1>1, ScriptFacts
<1>3. /\ plist' = plist /\ profile' = profile /\ proc' = proc
      /\ stopping' = stopping /\ enabled' = enabled /\ moved' = moved
      /\ gate' = gate /\ telemetry' = telemetry /\ task' = task
      /\ \A o \in Services : Live(o)' = Live(o)
  BY <1>1 DEF services, canary, Live
<1>4. pc' \in {"close", "restart"} /\ at' \in 1..Len(Topology)
  BY <1>1, GotoFacts
<1>5. /\ JournalInv' /\ ReceiptIsTrue'
      /\ Deployment' = Deployment /\ Target' = Target /\ Previous' = Previous
  BY <1>1, <1>4, GoesOn
<1>6. /\ tx' \in Transactions /\ tx'.snapshot = tx.snapshot
      /\ \A f \in {"snapshot", "tried"} : Has(f)' <=> Has(f)
      /\ Has("errors") => Has("errors")'
      /\ tx' = With("errors") => Has("errors")'
  BY <1>1, <1>2, NotedFacts
<1>7. TypesInv'
  BY <1>1, <1>2, <1>3, <1>4, <1>6 DEF TypesInv, Labels, OverSubjects
<1>8. CourseInv'
  BY <1>1, <1>2, <1>4, <1>5, <1>6 DEF CourseInv, Beginning, Preparing, Fencing,
     Draining
<1>9. ServingInv'
  <2>1. \A o \in Services : Live(o)' => proc'[o] = link'
    BY <1>1, <1>2, <1>3 DEF ServingInv, Quiet, Restoring
  <2> QED
    BY <1>4, <2>1 DEF ServingInv, Preparing, Restoring, Draining
<1>10. TaskInv'
  BY <1>2, <1>3, <1>4 DEF TaskInv, TasksHaveGates, Preparing, Restoring
<1>11. FilesInv'
  BY <1>1, <1>2, <1>3, <1>4, <1>5, <1>6 DEF FilesInv
<1>12. OwnerInv'
  BY <1>1, <1>2, <1>3, <1>4, <1>5, <1>6 DEF OwnerInv, OwnersKept, Handed, Beginning,
     Preparing, Fencing, Draining
<1> QED
  BY <1>5, <1>7, <1>8, <1>9, <1>10, <1>11, <1>12 DEF SwitchInv

LEMMA RestartPreviousStep ==
  ASSUME SwitchInv, RestartPrevious
  PROVE  SwitchInv'
PROOF
<1>0. PICK s : s = Topology[at]
  OBVIOUS
<1> DEFINE paused == ~ Deployment.canary
<1>1. /\ pc = "restart" /\ (Started(s, paused) \/ NotStarted(s, paused))
      /\ Continue(Topology, "close") \/ Goto("close")
      /\ tx' \in {tx, With("errors")} /\ UNCHANGED <<files, canary, log>>
  BY <1>0 DEF RestartPrevious
<1>2. /\ TypesInv /\ CourseInv /\ ServingInv /\ TaskInv /\ FilesInv /\ OwnerInv
      /\ tx \in Transactions /\ Deployment.canary \in BOOLEAN
  BY <1>1, ScriptFacts
<1>3. /\ s \in Services /\ pc' \in {"restart", "close"} /\ at' \in 1..Len(Topology)
  BY <1>0, <1>1, <1>2, DoneFacts, ServiceLoop, GotoFacts
<1>4. /\ link' = link /\ plist' = plist /\ profile' = profile /\ gate' = gate
      /\ telemetry' = telemetry /\ task' = task
  BY <1>1 DEF files, canary
<1>5. /\ enabled' \subseteq Services /\ proc' \in [Services -> Maybe]
      /\ stopping' \subseteq {o \in Services : proc'[o] # None}
      /\ moved' \in BOOLEAN
      /\ \A o \in Services : Live(o)' => proc'[o] = link
  BY <1>1, <1>2, <1>3, StartFacts
<1>6. /\ JournalInv' /\ ReceiptIsTrue'
      /\ Deployment' = Deployment /\ Target' = Target /\ Previous' = Previous
  BY <1>1, <1>3, GoesOn
<1>7. /\ tx' \in Transactions /\ tx'.snapshot = tx.snapshot
      /\ \A f \in {"snapshot", "tried"} : Has(f)' <=> Has(f)
      /\ Has("errors") => Has("errors")'
  BY <1>1, <1>2, NotedFacts
<1>8. TypesInv'
  BY <1>1, <1>2, <1>3, <1>4, <1>5, <1>7 DEF TypesInv, Labels, OverSubjects
<1>9. CourseInv'
  BY <1>1, <1>2, <1>3, <1>6, <1>7 DEF CourseInv, Beginning, Preparing, Fencing,
     Draining
<1>10. ServingInv'
  BY <1>3, <1>4, <1>5 DEF ServingInv, Preparing, Restoring, Draining
<1>11. TaskInv'
  BY <1>2, <1>3, <1>4 DEF TaskInv, TasksHaveGates, Preparing, Restoring
<1>12. FilesInv'
  BY <1>1, <1>2, <1>3, <1>4, <1>6, <1>7 DEF FilesInv
<1>13. OwnerInv'
  BY <1>1, <1>2, <1>3, <1>4, <1>6, <1>7 DEF OwnerInv, OwnersKept, Handed, Beginning,
     Preparing, Fencing, Draining
<1> QED
  BY <1>6, <1>8, <1>9, <1>10, <1>11, <1>12, <1>13 DEF SwitchInv

LEMMA CloseRollbackStep ==
  ASSUME SwitchInv, CloseRollback
  PROVE  SwitchInv'
PROOF
<1> DEFINE st == IF Has("errors") THEN "incomplete" ELSE "rolled_back"
<1>1. /\ pc = "close" /\ Close(st) /\ st \in {"incomplete", "rolled_back"}
      /\ UNCHANGED <<services, files, canary>>
  BY DEF CloseRollback
<1>2. st = "rolled_back" => ~ Has("errors")
  OBVIOUS
<1> HIDE DEF st
<1>3. TypesInv /\ ServingInv /\ TaskInv /\ FilesInv /\ OwnerInv
  BY <1>1, ScriptFacts
<1>4. /\ link' = link /\ plist' = plist /\ profile' = profile /\ proc' = proc
      /\ gate' = gate /\ telemetry' = telemetry /\ task' = task
      /\ \A o \in Services : Live(o)' = Live(o)
  BY <1>1 DEF services, files, canary, Live
<1>5. /\ Deployment'.status = st /\ Previous' = Previous
      /\ Deployment'.plist = Deployment.plist
      /\ Deployment'.profile = Deployment.profile
      /\ Deployment'.owner = Deployment.owner
  BY <1>1, CloseFacts
<1>6. ReceiptIsTrue'
  <2>1. CASE st = "rolled_back"
    <3>1. /\ plist' = Deployment'.plist /\ profile' = Deployment'.profile
          /\ link' = Previous'
      BY <1>1, <1>2, <1>3, <1>4, <1>5, <2>1 DEF FilesInv
    <3>2. {proc'[s] : s \in {t \in Services : Live(t)'}} \subseteq {Previous'}
      BY <1>3, <1>4, <3>1 DEF ServingInv
    <3>3. \A s \in Subjects : \/ gate[s].release = Deployment.owner[s]
                              \/ Previous = None /\ gate[s].state = "inactive"
      BY <1>1, <1>2, <1>3, <2>1 DEF OwnerInv, OwnersKept, Handed
    <3> QED
      BY <1>4, <1>5, <2>1, <3>1, <3>2, <3>3 DEF ReceiptIsTrue, Previous
  <2>2. CASE st = "incomplete"
    BY <1>5, <2>2 DEF ReceiptIsTrue
  <2> QED
    BY <1>1, <2>1, <2>2
<1>7. TasksHaveGates'
  BY <1>3, <1>4 DEF TaskInv, TasksHaveGates
<1>8. gate' \in [Subjects -> ProperGates] /\ telemetry' \in Maybe
  BY <1>3, <1>4 DEF TypesInv
<1> QED
  BY <1>1, <1>6, <1>7, <1>8, CloseStep DEF canary

-----------------------------------------------------------------------------
(* Daemons, deaths and the resolve command.                                *)

LEMMA TaskStep ==
  ASSUME SwitchInv, NEW s \in Subjects, Claim(s) \/ ModelCall(s) \/ FinishTask(s)
  PROVE  SwitchInv'
PROOF
<1>1. TypesInv /\ TasksHaveGates
  BY DEF SwitchInv, TaskInv
<1>2. /\ UNCHANGED <<services, files, telemetry, log, pc, at, tx>>
      /\ \E t \in {"none", "claimed", "model"} : task' = [task EXCEPT ![s] = t]
  BY <1>1 DEF Claim, ModelCall, FinishTask, script, TypesInv
<1>3. /\ enabled' = enabled /\ proc' = proc /\ stopping' = stopping
      /\ moved' = moved /\ \A o \in Services : Live(o)' = Live(o)
  BY <1>2 DEF services, Live
<1>4. /\ gate \in [Subjects -> ProperGates]
      /\ task \in [Subjects -> {"none", "claimed", "model"}]
      /\ task' \in [Subjects -> {"none", "claimed", "model"}]
      /\ \A o \in Subjects : o # s => task'[o] = task[o]
  BY <1>1, <1>2 DEF TypesInv
<1>5. CASE Claim(s)
  <2>1. /\ gate' = gate /\ task[s] = "none" /\ Live(s)
        /\ gate[s].release = proc[s] /\ gate[s].state = "armed"
    BY <1>5 DEF Claim
  <2>2. gate[s].release # None
    BY <2>1 DEF Live
  <2> QED
    BY <1>1, <1>2, <1>3, <1>4, <2>1, <2>2, DaemonStep DEF DaemonMoves, TypesInv
<1>6. CASE ModelCall(s)
  <2>1. gate' = gate /\ task[s] # "none"
    BY <1>6 DEF ModelCall, Held
  <2> QED
    BY <1>1, <1>2, <1>3, <1>4, <2>1, DaemonStep DEF DaemonMoves, TypesInv
<1>7. CASE FinishTask(s)
  <2>1. /\ task[s] # "none" /\ task'[s] = "none"
        /\ gate' \in {gate, [gate EXCEPT ![s].state = "failed"]}
    BY <1>4, <1>7 DEF FinishTask, Held
  <2>2. [gate[s] EXCEPT !.state = "failed"] \in ProperGates
    BY <1>4 DEF ProperGates, Gates, NoGate
  <2>3. /\ gate' \in [Subjects -> ProperGates]
        /\ gate'[s].release = gate[s].release
        /\ \A o \in Subjects : o # s => gate'[o] = gate[o]
    BY <1>4, <2>1, <2>2 DEF ProperGates, Gates
  <2>4. gate[s].state \notin {"absent", "inactive"}
    BY <1>1, <2>1 DEF TasksHaveGates
  <2> QED
    BY <1>1, <1>2, <1>3, <1>4, <2>1, <2>3, <2>4, DaemonStep DEF DaemonMoves, TypesInv
<1> QED
  BY <1>5, <1>6, <1>7

LEMMA ExitStep ==
  ASSUME SwitchInv, NEW s \in Services, Exit(s)
  PROVE  SwitchInv'
PROOF
<1> DEFINE held == s \in Subjects /\ Held(s)
<1>1. TypesInv /\ TasksHaveGates
  BY DEF SwitchInv, TaskInv
<1>2. /\ proc' = [proc EXCEPT ![s] = None] /\ stopping' = stopping \ {s}
      /\ moved' = TRUE /\ enabled' = enabled
      /\ UNCHANGED <<files, telemetry, log, pc, at, tx>>
      /\ \/ /\ held /\ task' = [task EXCEPT ![s] = "none"]
            /\ gate' = [gate EXCEPT ![s].state = "cancelled"]
         \/ /\ task' = IF held THEN [task EXCEPT ![s] = "claimed"] ELSE task
            /\ gate' = gate
  BY DEF Exit
<1>3. /\ gate \in [Subjects -> ProperGates] /\ proc \in [Services -> Maybe]
      /\ task \in [Subjects -> {"none", "claimed", "model"}]
      /\ stopping \subseteq {o \in Services : proc[o] # None}
  BY <1>1 DEF TypesInv
<1>4. /\ proc' \in [Services -> Maybe]
      /\ stopping' \subseteq {o \in Services : proc'[o] # None}
      /\ \A o \in Services : proc'[o] \in {proc[o], None}
      /\ \A o \in Services : Live(o)' => Live(o)
  BY <1>2, <1>3 DEF Maybe, Live
<1>5. held => task[s] # "none" /\ gate[s].state \notin {"absent", "inactive"}
  BY <1>1 DEF Held, TasksHaveGates
<1>6. CASE /\ held /\ task' = [task EXCEPT ![s] = "none"]
           /\ gate' = [gate EXCEPT ![s].state = "cancelled"]
  <2>1. [gate[s] EXCEPT !.state = "cancelled"] \in ProperGates
    BY <1>3, <1>6 DEF ProperGates, Gates, NoGate
  <2>2. /\ gate' \in [Subjects -> ProperGates]
        /\ gate'[s].release = gate[s].release
        /\ \A o \in Subjects : o # s => gate'[o] = gate[o] /\ task'[o] = task[o]
        /\ task' \in [Subjects -> {"none", "claimed", "model"}] /\ task'[s] = "none"
    BY <1>3, <1>6, <2>1 DEF ProperGates, Gates
  <2> QED
    BY <1>2, <1>4, <1>5, <1>6, <2>2, DaemonStep DEF DaemonMoves
<1>7. CASE /\ task' = IF held THEN [task EXCEPT ![s] = "claimed"] ELSE task
           /\ gate' = gate
  <2>1. /\ task' \in [Subjects -> {"none", "claimed", "model"}]
        /\ \A o \in Subjects : task[o] = "none" => task'[o] = "none"
    BY <1>3, <1>5, <1>7
  <2> QED
    BY <1>2, <1>3, <1>4, <1>7, <2>1, DaemonStep DEF DaemonMoves
<1> QED
  BY <1>2, <1>6, <1>7

LEMMA DeathStep ==
  ASSUME SwitchInv, Crash \/ Reboot
  PROVE  SwitchInv'
PROOF
<1>1. TypesInv /\ ServingInv
  BY DEF SwitchInv
<1>2. CASE Crash
  <2>1. /\ Goto("idle") /\ tx' = NoTx /\ UNCHANGED <<services, files, canary, log>>
    BY <1>2 DEF Crash
  <2>2. \A s \in Services : Live(s)' => proc'[s] = link
    BY <1>1, <2>1 DEF ServingInv, Live, services
  <2> QED
    BY <1>1, <2>1, <2>2, HaltStep DEF TypesInv, services, canary
<1>3. CASE Reboot
  <2>1. /\ Goto("idle") /\ tx' = NoTx
        /\ UNCHANGED <<enabled, files, gate, telemetry, log>>
        /\ stopping' = {} /\ moved' = TRUE
        /\ proc' \in [Services -> Maybe]
        /\ \A s \in Services : proc'[s] \in {link, None}
    BY <1>1, <1>3 DEF Reboot, TypesInv, Maybe
  <2>2. /\ task' \in [Subjects -> {"none", "claimed", "model"}]
        /\ \A s \in Subjects : task[s] = "none" => task'[s] = "none"
    BY <1>3 DEF Reboot
  <2>3. \A s \in Services : Live(s)' => proc'[s] = link
    BY <2>1 DEF Live
  <2> QED
    BY <2>1, <2>2, <2>3, HaltStep
<1> QED
  BY <1>2, <1>3

LEMMA ResolveStep ==
  ASSUME SwitchInv, Resolve
  PROVE  SwitchInv'
PROOF
<1> DEFINE d == [Deployment EXCEPT !.marker = TRUE]
<1>1. /\ TypesInv /\ JournalInv /\ CourseInv /\ ServingInv /\ TaskInv /\ FilesInv
      /\ OwnerInv /\ ReceiptIsTrue
  BY DEF SwitchInv
<1>2. /\ log # <<>> /\ IsOpen(Deployment)
      /\ UNCHANGED <<services, files, canary, pc, at, tx>>
  BY DEF Resolve
<1>3. /\ Deployment \in Deployments /\ log \in Seq(Deployments)
      /\ Len(log) \in Nat /\ Len(log) > 0 /\ Len(log) \in DOMAIN log
  BY <1>1, <1>2, DeploymentFacts DEF TypesInv
<1>4. log' = [log EXCEPT ![Len(log)] = d]
  BY <1>3 DEF Resolve, Deployment
<1>5. /\ d \in Deployments /\ d.status = Deployment.status
      /\ d.target = Deployment.target /\ d.previous = Deployment.previous
      /\ d.canary = Deployment.canary /\ d.plist = Deployment.plist
      /\ d.profile = Deployment.profile /\ d.owner = Deployment.owner
  BY <1>3 DEF Deployments
<1> HIDE DEF d
<1>6. /\ log' \in Seq(Deployments) /\ Len(log') = Len(log) /\ log' # <<>>
      /\ log'[Len(log')] = d
      /\ \A i \in DOMAIN log' : i \in DOMAIN log /\ (i < Len(log) => log'[i] = log[i])
  BY <1>3, <1>4, <1>5
<1>7. /\ Deployment' = d /\ Target' = Target /\ Previous' = Previous
      /\ \A f : Has(f)' <=> Has(f)
  BY <1>2, <1>5, <1>6 DEF Deployment, Target, Previous, Has
<1>8. /\ link' = link /\ plist' = plist /\ profile' = profile /\ proc' = proc
      /\ stopping' = stopping /\ enabled' = enabled /\ moved' = moved
      /\ gate' = gate /\ telemetry' = telemetry /\ task' = task /\ pc' = pc
      /\ at' = at /\ tx' = tx /\ Quiet' = Quiet
      /\ \A o \in Services : Live(o)' = Live(o)
      /\ Done(Topology)' = Done(Topology) /\ Done(Order)' = Done(Order)
  BY <1>2 DEF services, files, canary, Live, Quiet, Done
<1>9. TypesInv'
  BY <1>1, <1>6, <1>8 DEF TypesInv
<1>10. JournalInv'
  BY <1>1, <1>5, <1>6, <1>7, <1>8 DEF JournalInv, IsOpen
<1>11. CourseInv'
  BY <1>1, <1>5, <1>7, <1>8 DEF CourseInv
<1>12. ServingInv'
  <2>1. /\ \A o \in Services : Live(o)' => proc'[o] = link'
        /\ pc' \in Preparing \cup {"arm", "disarm"} => Quiet'
        /\ pc' \in Restoring => Quiet' \/ link' = Previous'
    BY <1>1, <1>7, <1>8, Zenon DEF ServingInv
  <2>2. /\ pc' \in {"start", "verify"} \cup Draining /\ ~ Deployment'.canary
             => \A o \in Subjects : ~ Live(o)'
        /\ Deployment'.canary = Deployment.canary
    <3>1. Subjects \subseteq Services
      BY DEF Services
    <3>2. Deployment'.canary = Deployment.canary
      BY <1>5, <1>7
    <3> QED
      BY <1>1, <3>1, <3>2, <1>8, Zenon DEF ServingInv
  <2>3. /\ pc' = "bootout target"
             => Has("errors")' \/ \A o \in Done(Topology)' : ~ Live(o)'
        /\ pc' \in {"await", "pause", "fenced"} => Has("errors")' \/ Quiet'
    <3>1. Done(Topology) \subseteq Services
      BY <1>1, DoneFacts
    <3>2. pc = "bootout target" =>
            Has("errors") \/ \A o \in Done(Topology)' : ~ Live(o)'
      BY <1>1, <3>1, <1>8, Zenon DEF ServingInv
    <3> QED
      BY <1>1, <3>2, <1>7, <1>8, Zenon DEF ServingInv
  <2> QED
    BY <2>1, <2>2, <2>3, Zenon DEF ServingInv
<1>13. TaskInv'
  BY <1>1, <1>7, <1>8 DEF TaskInv, TasksHaveGates, NoTasks, Calm
<1>14. FilesInv'
  BY <1>1, <1>5, <1>7, <1>8 DEF FilesInv
<1>15. OwnerInv'
  BY <1>1, <1>5, <1>7, <1>8 DEF OwnerInv, OwnersKept, Owned, Handed
<1>16. ReceiptIsTrue'
  BY <1>2, <1>5, <1>7 DEF ReceiptIsTrue, IsOpen
<1> QED
  BY <1>9, <1>10, <1>11, <1>12, <1>13, <1>14, <1>15, <1>16 DEF SwitchInv

-----------------------------------------------------------------------------
(* The theorems.                                                           *)

LEMMA InitHolds ==
  ASSUME Init
  PROVE  SwitchInv
PROOF
<1>1. NoTx \in Transactions /\ NoGates \in [Subjects -> ProperGates]
  BY DEF NoTx, NoGates, NoGate, Transactions, ProperGates, Gates, Maybe
<1>2. /\ link = None /\ plist = [s \in Services |-> None] /\ enabled = {}
      /\ proc = [s \in Services |-> None] /\ stopping = {} /\ moved = FALSE
      /\ profile = None /\ gate = NoGates /\ telemetry = None
      /\ task = [s \in Subjects |-> "none"] /\ log = <<>> /\ pc = "idle"
      /\ at = 1 /\ tx = NoTx
  BY DEF Init
<1>3. at \in 1..Len(Topology)
  BY <1>2, TopologyFacts
<1>4. log \in Seq(Deployments) /\ Len(log) <= Activations /\ DOMAIN log = {}
  BY <1>2
<1>5. TypesInv
  BY <1>1, <1>2, <1>3, <1>4 DEF TypesInv, Maybe, Labels, OverSubjects
<1>6. JournalInv
  BY <1>2, <1>4 DEF JournalInv
<1>7. CourseInv /\ FilesInv /\ OwnerInv
  BY <1>2 DEF CourseInv, FilesInv, OwnerInv, Beginning, Preparing, Fencing, Draining
<1>8. ServingInv
  BY <1>2 DEF ServingInv, Live, Preparing, Restoring, Draining
<1>9. TaskInv
  BY <1>2 DEF TaskInv, TasksHaveGates, Preparing, Restoring
<1>10. ReceiptIsTrue
  BY <1>2 DEF ReceiptIsTrue, Idle
<1> QED
  BY <1>5, <1>6, <1>7, <1>8, <1>9, <1>10 DEF SwitchInv

LEMMA StutterStep ==
  ASSUME SwitchInv, UNCHANGED vars
  PROVE  SwitchInv'
PROOF
<1>1. /\ TypesInv /\ UNCHANGED <<enabled, files, telemetry, log, pc, at, tx>>
      /\ UNCHANGED <<proc, stopping, moved, gate, task>>
      /\ \A o \in Services : Live(o)' = Live(o)
  BY DEF SwitchInv, vars, services, files, canary, script, Live
<1> QED
  BY <1>1, DaemonStep DEF DaemonMoves, TypesInv

LEMMA NextHolds ==
  ASSUME SwitchInv, [Next]_vars
  PROVE  SwitchInv'
PROOF
<1>1. CASE \E r \in Releases, c \in BOOLEAN : Begin(r, c)
  BY <1>1, BeginStep
<1>2. CASE Activate
  BY <1>2, BackupStep, StopPreviousStep, WaitPreviousStoppedStep,
     RetirePreviousStep, ApplyExternalProfilesStep, SwitchLinkStep,
     InstallPlistsStep, BindContextStep, ArmGateStep, StartTargetStep,
     VerifyTargetStep, CommitStep DEF Activate
<1>3. CASE Rollback
  BY <1>3, ProbeTargetStep, DisableTargetStep, BootoutTargetStep, AwaitFencedStep,
     PauseTargetStep, VerifyFencedStep, DisarmTargetStep, DisablePlainStep,
     DrainPlainStep, BootoutPlainStep, StopTargetStep, RestorePlistsStep,
     RestoreProfilesStep, RestoreGatesStep, RelinkStep, RestartPreviousStep,
     CloseRollbackStep DEF Rollback
<1>4. CASE Crash \/ Reboot
  BY <1>4, DeathStep
<1>5. CASE Resolve
  BY <1>5, ResolveStep
<1>6. CASE \E s \in Subjects : Claim(s) \/ ModelCall(s) \/ FinishTask(s)
  BY <1>6, TaskStep
<1>7. CASE \E s \in Services : Exit(s)
  BY <1>7, ExitStep
<1>8. CASE UNCHANGED vars
  BY <1>8, StutterStep
<1> QED
  BY <1>1, <1>2, <1>3, <1>4, <1>5, <1>6, <1>7, <1>8 DEF Next

\* The invariant of the deployment transaction: the script's phases, what
\* serves, what is installed and whose the gates are, for any number of
\* releases, subjects, activations and faults.
THEOREM SwitchInvariant == SwitchSpec => []SwitchInv
PROOF
  BY InitHolds, NextHolds, PTL DEF SwitchSpec

\* Types: the installation, the receipts and the script's state keep their
\* shape whatever fails.
THEOREM SwitchTypesCorrect == SwitchSpec => []SwitchTypeOK
PROOF
<1>1. ASSUME SwitchInv PROVE SwitchTypeOK
  <2>1. TypesInv
    BY <1>1 DEF SwitchInv
  <2>2. /\ gate \in [Subjects -> Gates]
        /\ \A s \in Subjects : gate[s].state = "absent" <=> gate[s] = NoGate
    BY <2>1 DEF TypesInv, ProperGates
  <2>3. /\ tx.flags \subseteq Flags
        /\ \A v \in {tx.fence, tx.busy, tx.ready} : v \subseteq Subjects
    BY <2>1 DEF TypesInv, Transactions
  <2> QED
    BY <2>1, <2>2, <2>3 DEF SwitchTypeOK, TypesInv
<1> QED
  BY <1>1, SwitchInvariant, PTL

\* Two releases never serve side by side: a process that serves runs what
\* `current` points to, because the script moves the link only when it has
\* seen none that serves.
THEOREM ReleasesDoNotOverlap == SwitchSpec => []OneReleaseServes
PROOF
<1>1. ASSUME SwitchInv PROVE OneReleaseServes
  BY <1>1 DEF SwitchInv, ServingInv, OneReleaseServes
<1> QED
  BY <1>1, SwitchInvariant, PTL

\* What the postcommit receipt of the last transaction says of the link, the
\* plists, the profiles, the processes and the gates is true until the next
\* one begins.
THEOREM ReceiptsAreTrue == SwitchSpec => []ReceiptIsTrue
PROOF
<1>1. ASSUME SwitchInv PROVE ReceiptIsTrue
  BY <1>1 DEF SwitchInv
<1> QED
  BY <1>1, SwitchInvariant, PTL


\* Six actions write gates; the others leave them as they are.
LEMMA GatesUntouched ==
  ASSUME \/ (\E r \in Releases, c \in BOOLEAN : Begin(r, c))
         \/ Backup \/ StopPrevious \/ WaitPreviousStopped
         \/ ApplyExternalProfiles \/ SwitchLink \/ InstallPlists \/ BindContext
         \/ StartTarget \/ VerifyTarget \/ Commit
         \/ ProbeTarget \/ DisableTarget \/ BootoutTarget \/ AwaitFenced
         \/ VerifyFenced \/ DisablePlain \/ DrainPlain \/ BootoutPlain
         \/ StopTarget \/ RestorePlists \/ RestoreProfiles \/ Relink
         \/ RestartPrevious \/ CloseRollback
         \/ Crash \/ Reboot \/ Resolve
         \/ (\E s \in Subjects : Claim(s) \/ ModelCall(s))
         \/ UNCHANGED vars
  PROVE  gate' = gate
PROOF
<1>1. CASE \E r \in Releases, c \in BOOLEAN : Begin(r, c)
  BY <1>1 DEF Begin, canary
<1>2. CASE Backup \/ StopPrevious \/ WaitPreviousStopped \/ ApplyExternalProfiles
           \/ SwitchLink \/ InstallPlists \/ BindContext
  BY <1>2 DEF Backup, StopPrevious, WaitPreviousStopped, ApplyExternalProfiles,
     SwitchLink, InstallPlists, BindContext, canary
<1>3. CASE StartTarget \/ VerifyTarget \/ Commit \/ ProbeTarget \/ DisableTarget
           \/ BootoutTarget \/ AwaitFenced \/ VerifyFenced
  BY <1>3 DEF StartTarget, VerifyTarget, Commit, ProbeTarget, DisableTarget,
     BootoutTarget, AwaitFenced, VerifyFenced, canary
<1>4. CASE DisablePlain \/ DrainPlain \/ BootoutPlain \/ StopTarget
           \/ RestorePlists \/ RestoreProfiles \/ Relink \/ RestartPrevious
           \/ CloseRollback
  BY <1>4 DEF DisablePlain, DrainPlain, BootoutPlain, StopTarget, RestorePlists,
     RestoreProfiles, Relink, RestartPrevious, CloseRollback, canary
<1>5. CASE Crash \/ Reboot \/ Resolve \/ UNCHANGED vars
  BY <1>5 DEF Crash, Reboot, Resolve, vars, canary
<1>6. CASE \E s \in Subjects : Claim(s) \/ ModelCall(s)
  BY <1>6 DEF Claim, ModelCall
<1> QED
  BY <1>1, <1>2, <1>3, <1>4, <1>5, <1>6

\* A task that ends, or whose daemon exits, writes the state of its gate, and
\* not whose it is.
LEMMA EndingKeepsOwner ==
  ASSUME TypesInv, NEW s \in Subjects, FinishTask(s) \/ Exit(s)
  PROVE  /\ \A o \in Subjects : gate'[o].release = gate[o].release
         /\ gate' = gate \/ task'[s] = "none"
         /\ \A o \in Subjects : o # s => gate'[o] = gate[o]
PROOF
<1>1. /\ gate \in [Subjects -> ProperGates]
      /\ task \in [Subjects -> {"none", "claimed", "model"}]
  BY DEF TypesInv
<1>2. \/ gate' = gate
      \/ /\ \E e \in {"failed", "cancelled"} : gate' = [gate EXCEPT ![s].state = e]
         /\ task' = [task EXCEPT ![s] = "none"]
  BY DEF FinishTask, Exit
<1>3. CASE gate' = gate
  BY <1>3
<1>4. ASSUME NEW e \in {"failed", "cancelled"}, gate' = [gate EXCEPT ![s].state = e]
      PROVE  /\ \A o \in Subjects : gate'[o].release = gate[o].release
             /\ \A o \in Subjects : o # s => gate'[o] = gate[o]
  BY <1>1, <1>4 DEF ProperGates, Gates
<1> QED
  BY <1>1, <1>2, <1>3, <1>4

\* The dashboard has no gate.
LEMMA DashboardExit ==
  ASSUME Exit(Dashboard)
  PROVE  gate' = gate
PROOF
  BY DEF Exit

\* A transaction left open by a crash, or by a handler that gave up, freezes
\* the link, the plists, the profiles and the owners of the gates: no script
\* runs, and none begins until the transaction is resolved.
THEOREM OpenTransactionFreezes == SwitchSpec => OpenFreezesInstallation
PROOF
<1> DEFINE Frozen == /\ UNCHANGED files
                     /\ \A s \in Subjects : gate'[s].release = gate[s].release
<1>1. ASSUME SwitchInv, LeftOpen, Next PROVE Frozen
  <2>1. TypesInv /\ JournalInv
    BY <1>1 DEF SwitchInv
  <2>2. PICK i \in DOMAIN log : IsOpen(log[i]) /\ (i < Len(log) \/ pc = "idle")
    BY <1>1 DEF LeftOpen
  <2>3. pc = "idle" /\ Unresolved
    BY <2>1, <2>2 DEF JournalInv, Unresolved
  <2>4. CASE \E r \in Releases, c \in BOOLEAN : Begin(r, c)
    BY <2>3, <2>4 DEF Begin
  <2>5. ~ Activate
    BY <2>3, Zenon DEF Activate, Backup, StopPrevious, WaitPreviousStopped,
       RetirePrevious, ApplyExternalProfiles, SwitchLink, InstallPlists,
       BindContext, ArmGate, StartTarget, VerifyTarget, Commit
  <2>6. ~ Rollback
    BY <2>3, Zenon DEF Rollback, ProbeTarget, DisableTarget, BootoutTarget,
       AwaitFenced, PauseTarget, VerifyFenced, DisarmTarget, DisablePlain,
       DrainPlain, BootoutPlain, StopTarget, RestorePlists, RestoreProfiles,
       RestoreGates, Relink, RestartPrevious, CloseRollback
  <2>7. CASE Crash \/ Reboot \/ Resolve
    BY <2>7, GatesUntouched DEF Crash, Reboot, Resolve
  <2>8. CASE \E s \in Subjects : Claim(s) \/ ModelCall(s) \/ FinishTask(s)
    <3>1. UNCHANGED files
      BY <2>8 DEF Claim, ModelCall, FinishTask
    <3> QED
      BY <2>1, <2>8, <3>1, GatesUntouched, EndingKeepsOwner
  <2>9. CASE \E s \in Services : Exit(s)
    <3>1. UNCHANGED files
      BY <2>9 DEF Exit
    <3> QED
      BY <2>1, <2>9, <3>1, DashboardExit, EndingKeepsOwner DEF Services
  <2> HIDE DEF Frozen
  <2> QED
    BY <1>1, <2>4, <2>5, <2>6, <2>7, <2>8, <2>9 DEF Next
<1>2. ASSUME SwitchInv, [Next]_vars PROVE [LeftOpen => Frozen]_vars
  BY <1>1, <1>2
<1> QED
  BY <1>2, SwitchInvariant, PTL DEF SwitchSpec, OpenFreezesInstallation


\* A gate is not taken from under a task: the script writes the gate of a
\* subject without a task, pauses one that is the target's already, or puts
\* one back that is as it was.
THEOREM TasksKeepTheirGates == SwitchSpec => TaskKeepsItsGate
PROOF
<1> DEFINE Kept(o) == /\ gate'[o].release = gate[o].release
                      /\ gate'[o].state = "inactive" => gate[o].state = "inactive"
           KeptByTasks == \A s \in Subjects :
                            task[s] # "none" /\ task'[s] # "none" => Kept(s)
<1>1. ASSUME SwitchInv, Next PROVE KeptByTasks
  <2>1. /\ TypesInv /\ CourseInv /\ TaskInv
        /\ gate \in [Subjects -> ProperGates] /\ tx \in Transactions
    BY <1>1 DEF SwitchInv, TypesInv
  <2>2. CASE gate' = gate
    BY <2>2
  <2>3. ASSUME NEW s \in Subjects, task[s] = "none",
               \A o \in Subjects : o # s => gate'[o] = gate[o]
        PROVE  KeptByTasks
    BY <2>3
  <2>4. ASSUME NEW s \in Subjects, NEW r \in Maybe,
               NEW state \in {"armed", "paused", "inactive"},
               WriteGate(s, r, state), task[s] = "none"
        PROVE  KeptByTasks
    BY <2>1, <2>3, <2>4, WriteGateFacts
  <2>5. CASE RetirePrevious
    <3>1. PICK s : s = Order[at]
      OBVIOUS
    <3>2. /\ pc = "retire"
          /\ \/ UNCHANGED canary
             \/ WriteGate(s, Previous, "inactive") /\ task[s] = "none"
      BY <2>5, <3>1 DEF RetirePrevious, RefusesRetirement
    <3>3. s \in Subjects /\ Previous \in Maybe
      BY <1>1, <2>1, <3>1, <3>2, DoneFacts, ScriptFacts DEF TypesInv, OverSubjects
    <3> HIDE DEF KeptByTasks
    <3> QED
      BY <2>2, <2>4, <3>2, <3>3 DEF canary
  <2>6. CASE ArmGate
    <3>1. PICK s : s = Order[at]
      OBVIOUS
    <3>2. /\ pc = "arm"
          /\ UNCHANGED canary \/ (WriteGate(s, Target, "armed") /\ task[s] = "none")
      BY <2>6, <3>1 DEF ArmGate
    <3>3. s \in Subjects /\ Target \in Maybe
      BY <1>1, <2>1, <3>1, <3>2, DoneFacts, ScriptFacts DEF TypesInv, OverSubjects,
         Maybe
    <3> HIDE DEF KeptByTasks
    <3> QED
      BY <2>2, <2>4, <3>2, <3>3 DEF canary
  <2>7. CASE PauseTarget
    <3>1. PICK s : s = Order[at]
      OBVIOUS
    <3>2. /\ pc = "pause"
          /\ UNCHANGED canary \/ (s \in tx.fence /\ WriteGate(s, Target, "paused"))
      BY <2>7, <3>1 DEF PauseTarget
    <3>3. CASE s \in tx.fence /\ WriteGate(s, Target, "paused")
      <4>1. s \in Subjects
        BY <2>1, <3>3 DEF Transactions
      <4>2. gate[s].release = Target /\ Target \in Maybe
        BY <1>1, <2>1, <3>2, <3>3, ScriptFacts DEF TaskInv, Maybe
      <4>3. /\ gate'[s].release = Target /\ gate'[s].state = "paused"
            /\ \A o \in Subjects : o # s => gate'[o] = gate[o]
        BY <2>1, <3>3, <4>1, <4>2, WriteGateFacts
      <4> QED
        BY <4>2, <4>3
    <3> HIDE DEF KeptByTasks
    <3> QED
      BY <2>2, <3>2, <3>3 DEF canary
  <2>8. CASE DisarmTarget
    <3>1. PICK s : s = Order[at]
      OBVIOUS
    <3>2. /\ pc = "disarm"
          /\ UNCHANGED canary \/ WriteGate(s, Target, "inactive")
      BY <2>8, <3>1 DEF DisarmTarget
    <3>3. s \in Subjects /\ Target \in Maybe
      BY <1>1, <2>1, <3>1, <3>2, DoneFacts, ScriptFacts DEF TypesInv, OverSubjects,
         Maybe
    <3>4. task[s] = "none"
      BY <2>1, <3>2, <3>3 DEF TaskInv, NoTasks
    <3> HIDE DEF KeptByTasks
    <3> QED
      BY <2>2, <2>4, <3>2, <3>3, <3>4 DEF canary
  <2>9. CASE RestoreGates
    <3>1. PICK s : s = Order[at]
      OBVIOUS
    <3>2. /\ pc = "restore gates"
          /\ gate' \in {gate, [gate EXCEPT ![s] = tx.snapshot[s]]}
      BY <2>9, <3>1 DEF RestoreGates
    <3>3. Calm
      BY <2>1, <3>2 DEF CourseInv, TaskInv, Restoring
    <3>4. \A o \in Subjects : task[o] # "none" => gate'[o] = gate[o]
      BY <2>1, <3>2, <3>3 DEF Calm
    <3> QED
      BY <3>4
  <2>10. ASSUME NEW s \in Subjects, FinishTask(s) \/ Exit(s)
         PROVE  KeptByTasks
    <3>1. /\ gate' = gate \/ task'[s] = "none"
          /\ \A o \in Subjects : o # s => gate'[o] = gate[o]
      BY <2>1, <2>10, EndingKeepsOwner
    <3> QED
      BY <3>1
  <2>11. CASE \/ \E s \in Subjects : FinishTask(s)
              \/ \E s \in Services : Exit(s)
    <3> HIDE DEF KeptByTasks
    <3> QED
      BY <2>2, <2>10, <2>11, DashboardExit DEF Services
  <2> HIDE DEF KeptByTasks
  <2> QED
    BY <1>1, <2>2, <2>5, <2>6, <2>7, <2>8, <2>9, <2>11, GatesUntouched
    DEF Next, Activate, Rollback
<1>2. ASSUME SwitchInv, [Next]_vars PROVE [KeptByTasks]_vars
  BY <1>1, <1>2
<1> QED
  BY <1>2, SwitchInvariant, PTL DEF SwitchSpec, TaskKeepsItsGate
=============================================================================
