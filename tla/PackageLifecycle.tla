-------------------------- MODULE PackageLifecycle --------------------------
(***************************************************************************)
(* The job record of one cs408 capture and everyone who writes or trusts   *)
(* it (lib/preprocessor_core.py, bin/preprocess_task_runner.py): the scan  *)
(* that selects a revision of the capture, the task process that analyses, *)
(* reviews and publishes it or resumes from a checkpoint, the consumer     *)
(* that offers the package, and the adoption of an offer.  The dispatcher  *)
(* is here as the lease it gives each task process: a new fence cuts off   *)
(* the writes of the older ones, but nothing orders two revisions except   *)
(* what they find in the one job record.                                   *)
(***************************************************************************)
EXTENDS Naturals, FiniteSetsExt

CONSTANTS
  Revisions,  \* bound: contents the capture goes through, one unit for each
  MaxLeases,  \* bound: leases of all units together
  Restarts,   \* bound: deaths of the dispatcher
  AuthorityRequired  \* dispatch.authority_required, and a release is configured

ASSUME PackageAssumption ==
  /\ Revisions \in Nat \ {0} /\ MaxLeases \in Nat \ {0} /\ Restarts \in Nat
  /\ AuthorityRequired \in BOOLEAN

VARIABLES
  source,     \* the capture's present revision
  selected,   \* revisions a scan has handed to the dispatcher
  lease,      \* per revision: the unit's lease, and its completion
  deaths,     \* deaths of the dispatcher so far
  authority,  \* the dispatcher's latest completion of the capture
  job,        \* the job record of the capture
  latest,     \* the pointer to the published package
  child,      \* the task process of each lease
  consumer,   \* the consumer, one at a time
  adopter,    \* the offer whose adoption was found in order, one at a time
  offers,
  adopted,
  trampled    \* history: a record was replaced that its writer had not seen

unit == <<selected, lease, authority, deaths>>
record == <<job, latest, trampled>>
reader == <<consumer, adopter, offers, adopted>>
vars == <<source, unit, record, child, reader>>

Revs == 1..Revisions
Fences == 1..MaxLeases

\* A package is named by the lease it was made under.
None == <<0, 0>>
Packages == Revs \X Fences

Interrupted ==
  {"processing", "analysis_checkpoint_ready", "critical_resume_processing"}
Resumable ==
  {"analysis_checkpoint_ready", "critical_resume_processing", "retrying",
   "failed", "two_pass_ready"}
Jobs ==
  [rev : Revs, pub : Packages \cup {None}, checkpoint : BOOLEAN,
   status : {"processing", "succeeded"} \cup Resumable]
NoJob == [rev |-> 0, status |-> "none", checkpoint |-> FALSE, pub |-> None]

Ended == {"published", "flagged", "failed", "refused", "dead"}
NoChild == [pc |-> "none", resume |-> FALSE, mem |-> NoJob]
Idle == [fence |-> 0, status |-> "idle", held |-> FALSE, resume |-> FALSE,
         analysed |-> FALSE, recovered |-> FALSE, outcome |-> "none"]
NoReader == [pc |-> "idle", copy |-> NoJob]

Later(p, q) == p[1] > q[1] \/ (p[1] = q[1] /\ p[2] > q[2])
-----------------------------------------------------------------------------
(* The dispatcher, as far as the job record depends on it.                 *)

\* _eligible.  The limits on the attempts of a failed job are abstracted: it
\* is eligible or not.  A revision is new evidence, so a published package of
\* another one does not count as a replay.
Eligible(r) ==
  IF job.rev = r
  THEN job.status \in {"retrying", "failed"}
  ELSE job.status \notin Interrupted

Scan(r) ==
  /\ r = source /\ r \notin selected /\ Eligible(r)
  /\ lease[r].status # "completed" /\ ~ lease[r].held
  /\ selected' = selected \cup {r}
  /\ UNCHANGED <<source, lease, authority, deaths, record, child, reader>>

\* The lease moves to its next fence and a task process is started for it.
Grant(r, update) ==
  LET f == lease[r].fence + 1
  IN /\ f \in Fences
     /\ MapThenSumSet(LAMBDA s : lease[s].fence, Revs) < MaxLeases
     /\ lease' = [lease EXCEPT ![r] =
                    [update EXCEPT !.fence = f, !.status = "claimed",
                                   !.held = TRUE, !.analysed = FALSE]]
     /\ child' = [child EXCEPT ![r] = [g \in Fences |->
                    IF g = f THEN [NoChild EXCEPT !.pc = "start",
                                                  !.resume = update.resume]
                    ELSE IF @[g].pc = "dead" THEN NoChild ELSE @[g]]]

\* claim: a new unit, one in retry_wait, or one whose dispatcher fell silent.
\* The process of a silent one may still be running.
Claim(r) ==
  /\ r \in selected
  /\ lease[r].status \in {"idle", "retry_wait", "claimed"}
  /\ ~ lease[r].held
  /\ selected' = selected \ {r}
  /\ Grant(r, lease[r])
  /\ UNCHANGED <<source, authority, deaths, record, reader>>

Holds(r, f) == lease[r].status = "claimed" /\ lease[r].fence = f

\* The worker thread of the unit's lease has its process in one of states.
Reaps(r, f, states) ==
  Holds(r, f) /\ lease[r].held /\ child[r][f].pc \in states

\* _execute, when the process could not be launched or the service refused.
\* What to resume from is what this fence recorded.
RetryWait(r, f) ==
  /\ Reaps(r, f, {"start", "failed"})
  /\ lease' = [lease EXCEPT ![r].status = "retry_wait", ![r].held = FALSE,
                            ![r].resume = lease[r].analysed]
  /\ child' = [child EXCEPT ![r][f] = NoChild]
  /\ UNCHANGED <<source, selected, authority, deaths, record, reader>>

\* _execute, when the process died: one recovery in the life of a unit.
Recover(r, f) ==
  /\ Reaps(r, f, {"dead"})
  /\ ~ lease[r].recovered
  /\ Grant(r, [lease[r] EXCEPT !.recovered = TRUE,
                               !.resume = lease[r].analysed])
  /\ UNCHANGED <<source, selected, authority, deaths, record, reader>>

\* publish_terminal: the completion, and the capture's latest authority,
\* whatever was there.  Under a canary gate a dead process ends the unit.
PublishTerminal(r, f) ==
  LET pc == child[r][f].pc
      outcome == IF pc \in {"published", "flagged"} THEN pc ELSE "failed"
  IN /\ Reaps(r, f, Ended)
     /\ lease' = [lease EXCEPT ![r] = [Idle EXCEPT
                    !.fence = f, !.status = "completed", !.outcome = outcome]]
     /\ authority' = [package |-> <<r, f>>, outcome |-> outcome]
     /\ child' = [child EXCEPT ![r][f] = NoChild]
     /\ UNCHANGED <<source, selected, deaths, record, reader>>

\* The dispatcher's process ends; the task processes do not notice, and what
\* they returned is lost.
DispatcherDies ==
  /\ deaths < Restarts /\ deaths' = deaths + 1
  /\ \E r \in Revs : lease[r].held
  /\ selected' = {}
  /\ lease' = [r \in Revs |-> [lease[r] EXCEPT !.held = FALSE]]
  /\ child' = [r \in Revs |-> [f \in Fences |->
                 IF child[r][f].pc \in Ended THEN NoChild ELSE child[r][f]]]
  /\ UNCHANGED <<source, authority, record, reader>>
-----------------------------------------------------------------------------
(* The task process of lease (r, f): run_request and Worker._process.      *)

At(r, f, pc) == child[r][f].pc = pc
Goto(r, f, pc) == child' = [child EXCEPT ![r][f].pc = pc]
Exit(r, f) == child' = [child EXCEPT ![r][f] = NoChild]

\* The process is over; its dispatcher hears of it, if there is one.
End(r, f, pc) ==
  child' = [child EXCEPT ![r][f] =
              IF Holds(r, f) /\ lease[r].held THEN [NoChild EXCEPT !.pc = pc]
                                              ELSE NoChild]
Prepare(r, f, pc, mem) ==
  child' = [child EXCEPT ![r][f].pc = pc, ![r][f].mem = mem]

\* Mutant of Fenced: a process that has lost its lease still writes.
Unfenced(r, f, write) == write

\* _DispatchFencedWriteGuard: a file is replaced under the dispatcher's lock
\* and only by the holder of the lease.  Nobody waits for a process that has
\* lost it, so it may as well be gone.
Fenced(r, f, write) ==
  IF Holds(r, f) THEN write
  ELSE Exit(r, f) /\ UNCHANGED <<record, lease>>

\* The record is written blindly.  A revision may only replace a closed record
\* of another one, and only when it begins.
Store(r, new, begins) ==
  /\ job' = new
  /\ trampled' = (trampled \/ (job.rev # r
                                /\ (begins => job.status \in Interrupted)))
  /\ UNCHANGED latest

others == <<source, selected, authority, deaths, reader>>

\* A full pass starts a record of its own.
Begin(r, f) ==
  /\ At(r, f, "start") /\ ~ child[r][f].resume
  /\ LET new == [rev |-> r, status |-> "processing", checkpoint |-> FALSE,
                 pub |-> None]
     IN Fenced(r, f, /\ Store(r, new, TRUE)
                     /\ Prepare(r, f, "analyse", new)
                     /\ UNCHANGED lease)
  /\ UNCHANGED others

Resumes(r) == job.rev = r /\ job.checkpoint /\ job.status \in Resumable

\* A resumed generation goes on from the record it finds.
Resume(r, f) ==
  /\ At(r, f, "start") /\ child[r][f].resume
  /\ IF Resumes(r)
     THEN Prepare(r, f, "reopen",
                  [job EXCEPT !.status = "critical_resume_processing"])
     ELSE End(r, f, "refused")
  /\ UNCHANGED <<others, lease, record>>

Reopen(r, f) ==
  /\ At(r, f, "reopen")
  /\ Fenced(r, f, /\ Store(r, child[r][f].mem, TRUE)
                  /\ Goto(r, f, "load")
                  /\ UNCHANGED lease)
  /\ UNCHANGED others

\* load_analysis_checkpoint finds the checkpoint through the record.
Load(r, f) ==
  /\ At(r, f, "load")
  /\ Goto(r, f, IF job.checkpoint THEN "review" ELSE "failing")
  /\ UNCHANGED <<others, lease, record>>

\* _record_analysis_checkpoint_job: the record must be this revision's and
\* in processing; it is written back with the checkpoint,
Analyse(r, f) ==
  /\ At(r, f, "analyse")
  /\ Goto(r, f, IF job.rev = r /\ job.status = "processing"
                THEN "checkpoint" ELSE "failing")
  /\ UNCHANGED <<others, lease, record>>

Checkpointed(r) ==
  [rev |-> r, status |-> "analysis_checkpoint_ready", checkpoint |-> TRUE,
   pub |-> None]

WriteCheckpoint(r, f) ==
  /\ At(r, f, "checkpoint")
  /\ Fenced(r, f, /\ Store(r, Checkpointed(r), FALSE)
                  /\ Goto(r, f, "verify")
                  /\ UNCHANGED lease)
  /\ UNCHANGED others

\* read again, and only then is the event recorded that lets a later
\* generation skip the analysis.
RecordCheckpoint(r, f) ==
  /\ At(r, f, "verify")
  /\ IF job = Checkpointed(r)
     THEN Fenced(r, f, /\ lease' = [lease EXCEPT ![r].analysed = TRUE]
                       /\ Goto(r, f, "review")
                       /\ UNCHANGED record)
     ELSE Goto(r, f, "failing") /\ UNCHANGED <<lease, record>>
  /\ UNCHANGED others

\* Mutant of Current: the record is asked, not the capture.
CurrentByRecord(r) == job.rev = r

\* _assert_current_candidate_generation: the capture still has the content
\* this unit was frozen from.
Current(r) == source = r

\* Both passes are done.  A rejected review closes the record at once, as a
\* success without a package.
Review(r, f) ==
  /\ At(r, f, "review") /\ Current(r)
  /\ \/ Goto(r, f, "publish")
     \/ Prepare(r, f, "close", [child[r][f].mem EXCEPT
           !.status = "succeeded", !.checkpoint = TRUE, !.pub = None])
  /\ UNCHANGED <<others, lease, record>>

\* The second assertion of currency, just before the pointer is replaced.
AssertCurrent(r, f) ==
  /\ At(r, f, "publish")
  /\ Goto(r, f, IF Current(r) THEN "point" ELSE "failing")
  /\ UNCHANGED <<others, lease, record>>

Point(r, f) ==
  /\ At(r, f, "point")
  /\ Fenced(r, f, /\ latest' = <<r, f>>
                  /\ Prepare(r, f, "close",
                       [rev |-> r, status |-> "two_pass_ready",
                        checkpoint |-> TRUE, pub |-> <<r, f>>])
                  /\ UNCHANGED <<job, trampled, lease>>)
  /\ UNCHANGED others

\* A model call, a check of its result, or the first assertion of currency
\* fails; the result may still be good enough for a person to look at.
ModelFails(r, f) ==
  /\ child[r][f].pc \in {"load", "analyse", "review"}
  /\ Goto(r, f, "failing") \/ Goto(r, f, "doubtful")
  /\ UNCHANGED <<others, lease, record>>

\* Mutant of Handle: the checkpoint in the record is not looked for.
HandleForgetsCheckpoint(r, f) ==
  LET kept == child[r][f].mem
  IN /\ \/ /\ At(r, f, "failing")
           /\ \E status \in {"retrying", "failed"} :
                Prepare(r, f, "close", [kept EXCEPT !.status = status])
        \/ /\ At(r, f, "doubtful")
           /\ Prepare(r, f, "close",
                      [kept EXCEPT !.status = "succeeded", !.pub = None])
     /\ UNCHANGED <<others, lease, record>>

\* The handler of _process keeps a checkpoint it finds in the record.
Handle(r, f) ==
  LET found == job.rev = r /\ job.status = "analysis_checkpoint_ready"
      kept == [child[r][f].mem EXCEPT !.checkpoint = @ \/ found]
  IN /\ \/ /\ At(r, f, "failing")
           /\ \E status \in {"retrying", "failed"} :
                Prepare(r, f, "close", [kept EXCEPT !.status = status])
        \/ /\ At(r, f, "doubtful")
           /\ Prepare(r, f, "close",
                      [kept EXCEPT !.status = "succeeded", !.pub = None])
     /\ UNCHANGED <<others, lease, record>>

\* run_request: what the record was closed with is what the process returns.
Ending(status) ==
  CASE status = "two_pass_ready" -> "published"
    [] status = "succeeded" -> "flagged"
    [] OTHER -> "failed"

Close(r, f) ==
  /\ At(r, f, "close")
  /\ LET mem == child[r][f].mem
     IN Fenced(r, f, /\ Store(r, mem, FALSE)
                     /\ End(r, f, Ending(mem.status))
                     /\ UNCHANGED lease)
  /\ UNCHANGED others

\* The process or its supervisor dies, at the worst with the result in hand.
ChildDies(r, f) ==
  /\ child[r][f].pc \notin {"none", "dead"}
  /\ End(r, f, "dead")
  /\ UNCHANGED <<others, lease, record>>
-----------------------------------------------------------------------------
(* The consumer and the adoption of its offers.                            *)

consuming == <<source, unit, child, latest, adopter, adopted>>

\* _consume_package_unlocked, read by read: the record,
ReadJob ==
  /\ consumer.pc = "idle" /\ job.status = "two_pass_ready"
  /\ consumer' = [pc |-> "pointer", copy |-> job]
  /\ UNCHANGED <<consuming, job, trampled, offers>>

\* the pointer, which must name the record's package,
Consume ==
  /\ consumer.pc = "pointer" /\ latest = consumer.copy.pub
  /\ consumer' = [consumer EXCEPT !.pc = "authority"]
  /\ UNCHANGED <<consuming, job, trampled, offers>>

\* Mutant of Proven: any completion of the package's unit will do.
ProvenByAnyOutcome(p) == AuthorityRequired => authority.package = p

\* the dispatcher's latest completion, where it is asked for at all, is a
\* success with that package,
Proven(p) ==
  AuthorityRequired => authority = [package |-> p, outcome |-> "published"]

CheckAuthority ==
  /\ consumer.pc = "authority" /\ Proven(consumer.copy.pub)
  /\ consumer' = [consumer EXCEPT !.pc = "offer"]
  /\ UNCHANGED <<consuming, job, trampled, offers>>

\* and the capture still has its content: the offer is written.
Offer ==
  /\ consumer.pc = "offer" /\ Current(consumer.copy.rev)
  /\ offers' = offers \cup {consumer.copy.pub}
  /\ consumer' = [pc |-> "reread", copy |-> NoJob]
  /\ UNCHANGED <<consuming, job, trampled>>

\* The record is read again and written back with the time of the offer,
\* under the consumer's lock but not under the dispatcher's.
Reread ==
  /\ consumer.pc = "reread"
  /\ consumer' = [pc |-> "rewrite", copy |-> job]
  /\ UNCHANGED <<consuming, job, trampled, offers>>

Rewrite ==
  /\ consumer.pc = "rewrite"
  /\ job' = consumer.copy
  /\ trampled' = (trampled \/ job # consumer.copy)
  /\ consumer' = NoReader
  /\ UNCHANGED <<consuming, offers>>

\* A check fails, or the consumer dies.
ConsumerStops ==
  /\ consumer.pc # "idle" /\ consumer' = NoReader
  /\ UNCHANGED <<consuming, job, trampled, offers>>

adopting == <<source, unit, record, child, consumer, offers>>

\* record_adoption: pointer and record still name the offered package,
CheckOffer(p) ==
  /\ adopter = None /\ p \in offers \ adopted
  /\ latest = p /\ job.pub = p /\ job.status = "two_pass_ready"
  /\ adopter' = p
  /\ UNCHANGED <<adopting, adopted>>

\* and the receipt is written.
Adopt ==
  /\ adopter # None
  /\ adopted' = adopted \cup {adopter} /\ adopter' = None
  /\ UNCHANGED adopting

AdopterDies == adopter # None /\ adopter' = None
               /\ UNCHANGED <<adopting, adopted>>

\* New evidence for the capture arrives.
Supersede ==
  /\ source < Revisions /\ source' = source + 1
  /\ UNCHANGED <<unit, record, child, reader>>
-----------------------------------------------------------------------------
PackageInit ==
  /\ source = 1 /\ selected = {} /\ deaths = 0
  /\ lease = [r \in Revs |-> Idle]
  /\ authority = [package |-> None, outcome |-> "none"]
  /\ job = NoJob /\ latest = None /\ trampled = FALSE
  /\ child = [r \in Revs |-> [f \in Fences |-> NoChild]]
  /\ consumer = NoReader /\ adopter = None /\ offers = {} /\ adopted = {}

ChildStep(r, f) ==
  \/ Begin(r, f) \/ Resume(r, f) \/ Reopen(r, f) \/ Load(r, f)
  \/ Analyse(r, f) \/ WriteCheckpoint(r, f) \/ RecordCheckpoint(r, f)
  \/ Review(r, f) \/ AssertCurrent(r, f) \/ Point(r, f)
  \/ ModelFails(r, f) \/ Handle(r, f) \/ Close(r, f) \/ ChildDies(r, f)

ReaderStep ==
  \/ ReadJob \/ Consume \/ CheckAuthority \/ Offer
  \/ Reread \/ Rewrite \/ ConsumerStops
  \/ \E p \in Packages : CheckOffer(p)
  \/ Adopt \/ AdopterDies

PackageNext ==
  \/ \E r \in Revs : Scan(r) \/ Claim(r)
  \/ \E r \in Revs, f \in Fences :
       RetryWait(r, f) \/ Recover(r, f) \/ PublishTerminal(r, f)
         \/ ChildStep(r, f)
  \/ DispatcherDies \/ ReaderStep \/ Supersede

PackageSpec == PackageInit /\ [][PackageNext]_vars
-----------------------------------------------------------------------------
(***************************************************************************)
(* Properties                                                              *)
(***************************************************************************)

PackageTypeOK ==
  /\ source \in Revs /\ selected \subseteq Revs
  /\ deaths \in 0..Restarts /\ trampled \in BOOLEAN
  /\ lease \in [Revs -> [fence : Fences \cup {0}, held : BOOLEAN,
                         resume : BOOLEAN, analysed : BOOLEAN,
                         recovered : BOOLEAN,
                         status : {"idle", "claimed", "retry_wait",
                                   "completed"},
                         outcome : {"none", "published", "flagged", "failed"}]]
  /\ job \in Jobs \cup {NoJob} /\ latest \in Packages \cup {None}
  /\ \A r \in Revs, f \in Fences :
       child[r][f].mem \in Jobs \cup {NoJob} /\ child[r][f].mem.rev \in {0, r}
  /\ consumer.copy \in Jobs \cup {NoJob}
  /\ adopter \in offers \cup {None} /\ adopted \subseteq offers

\* Where the configuration requires authority, every package ever offered is
\* the one its unit completed with, and that unit succeeded.
OfferIsProven ==
  AuthorityRequired =>
    \A p \in offers :
      /\ lease[p[1]].status = "completed" /\ lease[p[1]].outcome = "published"
      /\ lease[p[1]].fence = p[2]

\* As long as no write was lost, the published package of a capture is only
\* ever replaced by one of newer content, or of a newer lease of the same
\* content, and adoptions go forward likewise.
PublicationsMoveForward ==
  [][~ trampled =>
       /\ latest' # latest => Later(latest', latest)
       /\ \A p \in adopted' \ adopted, q \in adopted : Later(p, q)]_vars

\* What a unit succeeded with is what the record and the pointer publish, as
\* long as the record is still that unit's and no write was lost.
CompletedIsConsumable ==
  \A r \in Revs :
    lease[r].outcome = "published" /\ job.rev = r /\ ~ trampled =>
      /\ job.status = "two_pass_ready"
      /\ job.pub = <<r, lease[r].fence>> /\ latest = job.pub

\* A generation told to resume finds its checkpoint in the record, except when
\* the process before it died after a flagged result, or a write was lost.
ResumeFindsCheckpoint ==
  \A r \in Revs, f \in Fences :
    Holds(r, f) /\ At(r, f, "start") /\ child[r][f].resume
      /\ job.rev = r /\ ~ trampled
    => Resumes(r) \/ job.status = "succeeded"
=============================================================================
