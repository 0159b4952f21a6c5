----------------------- MODULE PackageLifecycleProofs -----------------------
(***************************************************************************)
(* Theorems about PackageLifecycle: only proven packages are ever offered. *)
(* The argument is that a completed unit is never touched again, so that   *)
(* what the dispatcher's latest completion said when the consumer asked is *)
(* still true when the offer is written, and ever after.  That what a unit *)
(* succeeded with stays consumable, that a resumed generation finds its    *)
(* checkpoint and that publications go forward follow from an invariant of *)
(* the one job record (LifeInv), as long as no write to it was lost.       *)
(***************************************************************************)
EXTENDS PackageLifecycle, TLAPS

Leases ==
  [fence : Fences \cup {0}, held : BOOLEAN, resume : BOOLEAN,
   analysed : BOOLEAN, recovered : BOOLEAN,
   status : {"idle", "claimed", "retry_wait", "completed"},
   outcome : {"none", "published", "flagged", "failed"}]

\* The unit of package p has completed, and with p, where that is asked for.
Succeeded(p) ==
  AuthorityRequired =>
    /\ p[1] \in Revs
    /\ lease[p[1]].status = "completed" /\ lease[p[1]].outcome = "published"
    /\ lease[p[1]].fence = p[2]

ReaderShape == consumer = [pc |-> consumer.pc, copy |-> consumer.copy]

OfferInv ==
  /\ lease \in [Revs -> Leases]
  /\ ReaderShape
  /\ authority.outcome = "published" => Succeeded(authority.package)
  /\ consumer.pc = "offer" => Succeeded(consumer.copy.pub)
  /\ \A p \in offers : Succeeded(p)

-----------------------------------------------------------------------------
\* A step leaves the leases of completed units alone.
Kept ==
  /\ lease' \in [Revs -> Leases]
  /\ \A s \in Revs :
       lease[s].status = "completed" =>
         /\ lease'[s].status = "completed"
         /\ lease'[s].outcome = lease[s].outcome
         /\ lease'[s].fence = lease[s].fence

\* A unit that has not completed may get any lease.
LEMMA ReplaceLease ==
  ASSUME lease \in [Revs -> Leases], NEW r \in Revs, NEW new \in Leases,
         lease[r].status # "completed", lease' = [lease EXCEPT ![r] = new]
  PROVE  Kept
BY DEF Kept

\* The next fence of a unit that has not completed (claim, recovery).
LEMMA GrantLease ==
  ASSUME lease \in [Revs -> Leases], NEW r \in Revs, NEW update \in Leases,
         lease[r].status # "completed", Grant(r, update)
  PROVE  Kept
<1> DEFINE new == [update EXCEPT !.fence = lease[r].fence + 1,
                                 !.status = "claimed", !.held = TRUE,
                                 !.analysed = FALSE]
<1>1. lease' = [lease EXCEPT ![r] = new]
  BY DEF Grant
<1>2. lease[r].fence + 1 \in Fences
  BY DEF Grant
<1>3. new \in Leases
  BY <1>2 DEF Leases
<1> HIDE DEF new
<1> QED
  BY <1>1, <1>3, ReplaceLease

\* No step takes back the lease of a completed unit.
LEMMA LeaseStep ==
  ASSUME lease \in [Revs -> Leases], [PackageNext]_vars
  PROVE  Kept
<1>1. ASSUME lease' = lease PROVE Kept
  BY <1>1 DEF Kept
<1>2. ASSUME NEW r \in Revs, Scan(r) PROVE Kept
  BY <1>1, <1>2 DEF Scan
<1>3. ASSUME NEW r \in Revs, Claim(r) PROVE Kept
  <2>1. lease[r] \in Leases
    OBVIOUS
  <2>2. lease[r].status # "completed" /\ Grant(r, lease[r])
    BY <1>3 DEF Claim
  <2> QED
    BY <2>1, <2>2, GrantLease
<1>4. ASSUME NEW r \in Revs, NEW f \in Fences, RetryWait(r, f) PROVE Kept
  <2> DEFINE new == [lease[r] EXCEPT !.status = "retry_wait", !.held = FALSE,
                                     !.resume = lease[r].analysed]
  <2>1. lease[r].status # "completed"
    BY <1>4 DEF RetryWait, Reaps, Holds
  <2>2. lease' = [lease EXCEPT ![r] = new]
    BY <1>4 DEF RetryWait
  <2>3. new \in Leases
    BY DEF Leases
  <2> HIDE DEF new
  <2> QED
    BY <2>1, <2>2, <2>3, ReplaceLease
<1>5. ASSUME NEW r \in Revs, NEW f \in Fences, Recover(r, f) PROVE Kept
  <2> DEFINE update == [lease[r] EXCEPT !.recovered = TRUE,
                                        !.resume = lease[r].analysed]
  <2>1. lease[r].status # "completed"
    BY <1>5 DEF Recover, Reaps, Holds
  <2>2. Grant(r, update)
    BY <1>5 DEF Recover
  <2>3. update \in Leases
    BY DEF Leases
  <2> HIDE DEF update
  <2> QED
    BY <2>1, <2>2, <2>3, GrantLease
<1>6. ASSUME NEW r \in Revs, NEW f \in Fences, PublishTerminal(r, f) PROVE Kept
  <2>1. lease[r].status = "claimed" /\ lease[r].fence = f
    BY <1>6 DEF PublishTerminal, Reaps, Holds
  <2>2. PICK o \in {"published", "flagged", "failed"} :
          lease' = [lease EXCEPT ![r] = [Idle EXCEPT
                      !.fence = f, !.status = "completed", !.outcome = o]]
    BY <1>6 DEF PublishTerminal
  <2> DEFINE new == [Idle EXCEPT !.fence = f, !.status = "completed",
                                 !.outcome = o]
  <2>3. new \in Leases
    BY DEF Leases, Idle
  <2> HIDE DEF new
  <2>4. lease' = [lease EXCEPT ![r] = new]
    BY <2>2 DEF new
  <2> QED
    BY <2>1, <2>3, <2>4, ReplaceLease
<1>7. ASSUME DispatcherDies PROVE Kept
  <2>1. lease' = [r \in Revs |-> [lease[r] EXCEPT !.held = FALSE]]
    BY <1>7 DEF DispatcherDies
  <2> QED
    BY <2>1 DEF Leases, Kept
<1>8. ASSUME NEW r \in Revs, NEW f \in Fences, ChildStep(r, f) PROVE Kept
  <2>1. CASE Begin(r, f)
    BY <1>1, <2>1 DEF Begin, Fenced
  <2>2. CASE Resume(r, f)
    BY <1>1, <2>2 DEF Resume
  <2>3. CASE Reopen(r, f)
    BY <1>1, <2>3 DEF Reopen, Fenced
  <2>4. CASE Load(r, f)
    BY <1>1, <2>4 DEF Load
  <2>5. CASE Analyse(r, f)
    BY <1>1, <2>5 DEF Analyse
  <2>6. CASE WriteCheckpoint(r, f)
    BY <1>1, <2>6 DEF WriteCheckpoint, Fenced
  <2>7. CASE RecordCheckpoint(r, f)
    <3>1. CASE lease' = lease
      BY <1>1, <3>1
    <3>2. CASE Holds(r, f) /\ lease' = [lease EXCEPT ![r].analysed = TRUE]
      <4> DEFINE new == [lease[r] EXCEPT !.analysed = TRUE]
      <4>1. lease' = [lease EXCEPT ![r] = new] /\ lease[r].status # "completed"
        BY <3>2 DEF Holds
      <4>2. new \in Leases
        BY DEF Leases
      <4> HIDE DEF new
      <4> QED
        BY <4>1, <4>2, ReplaceLease
    <3> QED
      BY <2>7, <3>1, <3>2 DEF RecordCheckpoint, Fenced
  <2>8. CASE Review(r, f)
    BY <1>1, <2>8 DEF Review
  <2>9. CASE AssertCurrent(r, f)
    BY <1>1, <2>9 DEF AssertCurrent
  <2>10. CASE Point(r, f)
    BY <1>1, <2>10 DEF Point, Fenced
  <2>11. CASE ModelFails(r, f)
    BY <1>1, <2>11 DEF ModelFails
  <2>12. CASE Handle(r, f)
    BY <1>1, <2>12 DEF Handle
  <2>13. CASE Close(r, f)
    BY <1>1, <2>13 DEF Close, Fenced
  <2>14. CASE ChildDies(r, f)
    BY <1>1, <2>14 DEF ChildDies
  <2> QED
    BY <1>8, <2>1, <2>2, <2>3, <2>4, <2>5, <2>6, <2>7, <2>8, <2>9, <2>10,
       <2>11, <2>12, <2>13, <2>14 DEF ChildStep
<1>9. ASSUME ReaderStep PROVE Kept
  BY <1>1, <1>9 DEF ReaderStep, ReadJob, Consume, CheckAuthority, Offer,
     Reread, Rewrite, ConsumerStops, CheckOffer, Adopt, AdopterDies,
     consuming, adopting, unit
<1>10. ASSUME Supersede PROVE Kept
  BY <1>1, <1>10 DEF Supersede, unit
<1> QED
  BY <1>1, <1>2, <1>3, <1>4, <1>5, <1>6, <1>7, <1>8, <1>9, <1>10
     DEF PackageNext, vars, unit
-----------------------------------------------------------------------------
\* Nothing is offered or completed at first.
LEMMA OfferInit == PackageInit => OfferInv
<1> SUFFICES ASSUME PackageInit PROVE OfferInv
  OBVIOUS
<1>1. Idle \in Leases
  BY DEF Idle, Leases
<1>2. lease \in [Revs -> Leases]
  BY <1>1 DEF PackageInit
<1>3. /\ ReaderShape /\ consumer.pc # "offer" /\ offers = {}
      /\ authority.outcome # "published"
  BY DEF PackageInit, NoReader, ReaderShape
<1> QED
  BY <1>2, <1>3 DEF OfferInv

\* What has succeeded has succeeded for good.
LEMMA SucceededStays ==
  ASSUME Kept, NEW p, Succeeded(p)
  PROVE  Succeeded(p)'
BY DEF Kept, Succeeded

\* The steps in which neither the consumer nor its offers change.
LEMMA OtherSteps ==
  ASSUME OfferInv, Kept, UNCHANGED <<consumer, offers>>,
         authority' = authority \/
           (authority'.outcome = "published" => Succeeded(authority.package)')
  PROVE  OfferInv'
<1>1. ReaderShape'
  BY DEF OfferInv, ReaderShape
<1>2. (consumer.pc = "offer" => Succeeded(consumer.copy.pub))'
  BY SucceededStays DEF OfferInv
<1>3. (\A p \in offers : Succeeded(p))'
  BY SucceededStays DEF OfferInv
<1>4. (authority.outcome = "published" => Succeeded(authority.package))'
  BY SucceededStays DEF OfferInv
<1> QED
  BY <1>1, <1>2, <1>3, <1>4 DEF OfferInv, Kept

\* Every step keeps what the offers rest on.
LEMMA OfferStep == OfferInv /\ [PackageNext]_vars => OfferInv'
<1> SUFFICES ASSUME OfferInv, [PackageNext]_vars PROVE OfferInv'
  OBVIOUS
<1>1. Kept
  BY LeaseStep DEF OfferInv
<1>2. ASSUME UNCHANGED <<consumer, offers, authority>> PROVE OfferInv'
  BY <1>1, <1>2, OtherSteps
<1>3. ASSUME NEW r \in Revs, Scan(r) \/ Claim(r) PROVE OfferInv'
  BY <1>2, <1>3 DEF Scan, Claim, reader
<1>4. ASSUME NEW r \in Revs, NEW f \in Fences, RetryWait(r, f) \/ Recover(r, f)
      PROVE  OfferInv'
  BY <1>2, <1>4 DEF RetryWait, Recover, reader
<1>5. ASSUME NEW r \in Revs, NEW f \in Fences, PublishTerminal(r, f)
      PROVE  OfferInv'
  <2>1. UNCHANGED <<consumer, offers>>
    BY <1>5 DEF PublishTerminal, reader
  <2>2. authority'.outcome = "published" => Succeeded(authority.package)'
    <3> DEFINE pc == child[r][f].pc
               outcome == IF pc \in {"published", "flagged"}
                          THEN pc ELSE "failed"
    <3>1. authority' = [package |-> <<r, f>>, outcome |-> outcome]
      BY <1>5 DEF PublishTerminal
    <3>2. lease' = [lease EXCEPT ![r] = [Idle EXCEPT
                !.fence = f, !.status = "completed", !.outcome = outcome]]
      BY <1>5 DEF PublishTerminal
    <3> HIDE DEF outcome
    <3>3. /\ lease'[r].status = "completed" /\ lease'[r].outcome = outcome
          /\ lease'[r].fence = f
      BY <3>2 DEF Idle, OfferInv
    <3> QED
      BY <3>1, <3>3 DEF Succeeded
  <2> QED
    BY <1>1, <2>1, <2>2, OtherSteps
<1>6. ASSUME NEW r \in Revs, NEW f \in Fences, ChildStep(r, f) PROVE OfferInv'
  BY <1>2, <1>6 DEF ChildStep, Begin, Resume, Reopen, Load, Analyse,
     WriteCheckpoint, RecordCheckpoint, Review, AssertCurrent, Point,
     ModelFails, Handle, Close, ChildDies, others, reader
<1>7. ASSUME DispatcherDies PROVE OfferInv'
  BY <1>2, <1>7 DEF DispatcherDies, reader
<1>8. ASSUME ReaderStep PROVE OfferInv'
  <2>1. ASSUME UNCHANGED <<authority, offers>>, consumer'.pc # "offer",
               ReaderShape'
        PROVE  OfferInv'
    <3>1. (\A p \in offers : Succeeded(p))'
      BY <1>1, <2>1, SucceededStays DEF OfferInv
    <3>2. (authority.outcome = "published" => Succeeded(authority.package))'
      BY <1>1, <2>1, SucceededStays DEF OfferInv
    <3> QED
      BY <1>1, <2>1, <3>1, <3>2 DEF OfferInv, Kept
  <2>2. CASE ReadJob
    BY <2>1, <2>2 DEF ReadJob, consuming, unit, ReaderShape
  <2>3. CASE Consume
    BY <2>1, <2>3 DEF Consume, consuming, unit, ReaderShape, OfferInv
  <2>4. CASE CheckAuthority
    <3>1. AuthorityRequired => /\ authority.package = consumer.copy.pub
                               /\ authority.outcome = "published"
      BY <2>4 DEF CheckAuthority, Proven
    <3>2. /\ UNCHANGED <<authority, offers>>
          /\ consumer' = [pc |-> "offer", copy |-> consumer.copy]
      BY <2>4 DEF CheckAuthority, consuming, unit, OfferInv, ReaderShape
    <3>3. (\A p \in offers : Succeeded(p))'
      BY <1>1, <3>2, SucceededStays DEF OfferInv
    <3>4. (authority.outcome = "published" => Succeeded(authority.package))'
      BY <1>1, <3>2, SucceededStays DEF OfferInv
    <3>5. (consumer.pc = "offer" => Succeeded(consumer.copy.pub))'
      BY <3>1, <3>2, <3>4 DEF Succeeded
    <3> QED
      BY <1>1, <3>2, <3>3, <3>4, <3>5 DEF OfferInv, ReaderShape, Kept
  <2>5. CASE Offer
    <3>1. /\ authority' = authority
          /\ consumer' = [pc |-> "reread", copy |-> NoJob]
          /\ offers' = offers \cup {consumer.copy.pub}
      BY <2>5 DEF Offer, consuming, unit
    <3>2. Succeeded(consumer.copy.pub)
      BY <2>5 DEF Offer, OfferInv
    <3>3. \A p \in offers' : Succeeded(p)
      BY <3>1, <3>2 DEF OfferInv
    <3>4. (\A p \in offers : Succeeded(p))'
      BY <1>1, <3>3, SucceededStays
    <3>5. (authority.outcome = "published" => Succeeded(authority.package))'
      BY <1>1, <3>1, SucceededStays DEF OfferInv
    <3> QED
      BY <1>1, <3>1, <3>4, <3>5 DEF OfferInv, ReaderShape, Kept
  <2>6. CASE Reread
    BY <2>1, <2>6 DEF Reread, consuming, unit, ReaderShape
  <2>7. CASE Rewrite \/ ConsumerStops
    BY <2>1, <2>7 DEF Rewrite, ConsumerStops, consuming, unit, ReaderShape,
       NoReader
  <2>8. ASSUME NEW p \in Packages, CheckOffer(p) PROVE OfferInv'
    BY <1>2, <2>8 DEF CheckOffer, adopting, unit
  <2>9. CASE Adopt \/ AdopterDies
    BY <1>2, <2>9 DEF Adopt, AdopterDies, adopting, unit
  <2> QED
    BY <1>8, <2>2, <2>3, <2>4, <2>5, <2>6, <2>7, <2>8, <2>9 DEF ReaderStep
<1>9. ASSUME Supersede PROVE OfferInv'
  BY <1>2, <1>9 DEF Supersede, unit, reader
<1> QED
  BY <1>2, <1>3, <1>4, <1>5, <1>6, <1>7, <1>8, <1>9
     DEF PackageNext, vars, unit, reader

\* The inductive invariant: what the dispatcher's latest completion says of a
\* published package is so, and the consumer's knowledge of it does not age.
THEOREM PackageInvariant == PackageSpec => []OfferInv
BY OfferInit, OfferStep, PTL DEF PackageSpec

\* For any number of revisions, leases and deaths of the dispatcher, where the
\* configuration requires authority: a package that is offered is the one its unit completed with, and the unit succeeded
\* (_consume_package_unlocked, _verify_cs408_dispatch_authority).
THEOREM OffersAreProven == PackageSpec => []OfferIsProven
<1>1. OfferInv => OfferIsProven
  BY DEF OfferInv, OfferIsProven, Succeeded
<1> QED
  BY <1>1, PackageInvariant, PTL
-----------------------------------------------------------------------------
(* Type correctness.                                                       *)

AnyJob == Jobs \cup {NoJob}

\* From its first write on a process holds a job of its own revision.
Working ==
  {"analyse", "reopen", "load", "checkpoint", "verify", "review", "publish",
   "point", "close", "failing", "doubtful"}
Points == Working \cup Ended \cup {"none", "start"}
Child(r) ==
  {c \in [pc : Points, resume : BOOLEAN, mem : AnyJob] :
     /\ c.mem.rev \in {0, r}
     /\ c.pc \in Working => c.mem.rev = r}

ChildInv ==
  /\ child \in [Revs -> [Fences -> [pc : Points, resume : BOOLEAN,
                                    mem : AnyJob]]]
  /\ \A r \in Revs, f \in Fences : child[r][f] \in Child(r)

CountersInv ==
  source \in Revs /\ selected \subseteq Revs /\ deaths \in 0..Restarts

RecordInv ==
  /\ job \in AnyJob /\ latest \in Packages \cup {None}
  /\ trampled \in BOOLEAN

ReaderInv ==
  /\ consumer \in [pc : {"idle", "pointer", "authority", "offer", "reread",
                         "rewrite"}, copy : AnyJob]
  /\ adopter \in offers \cup {None} /\ adopted \subseteq offers

TypeInv ==
  /\ lease \in [Revs -> Leases]
  /\ CountersInv /\ RecordInv /\ ChildInv /\ ReaderInv

\* The inductive form is the type invariant and more.
LEMMA TypeInvIsTypeOK == TypeInv => PackageTypeOK
BY DEF TypeInv, PackageTypeOK, CountersInv, RecordInv, ChildInv, ReaderInv,
   Child, AnyJob, Leases

\* One process is replaced by one of the right shape.
LEMMA ChildUpdate ==
  ASSUME ChildInv, NEW r \in Revs, NEW f \in Fences, NEW new \in Child(r),
         child' = [child EXCEPT ![r][f] = new]
  PROVE  ChildInv'
BY DEF ChildInv, Child

\* A process moves on: out of work, or with a job of its own.
LEMMA ChildGoes ==
  ASSUME ChildInv, NEW r \in Revs, NEW f \in Fences, NEW pc \in Points,
         pc \in Working => child[r][f].pc \in Working, Goto(r, f, pc)
  PROVE  ChildInv'
<1> DEFINE new == [child[r][f] EXCEPT !.pc = pc]
<1>1. child' = [child EXCEPT ![r][f] = new]
  BY DEF Goto
<1>2. new \in Child(r)
  BY DEF ChildInv, Child
<1> HIDE DEF new
<1> QED
  BY <1>1, <1>2, ChildUpdate

\* A process moves on with the job it is about to write.
LEMMA ChildPrepares ==
  ASSUME ChildInv, NEW r \in Revs, NEW f \in Fences, NEW pc \in Points,
         NEW mem \in Jobs, mem.rev = r, Prepare(r, f, pc, mem)
  PROVE  ChildInv'
<1> DEFINE new == [child[r][f] EXCEPT !.pc = pc, !.mem = mem]
<1>1. child' = [child EXCEPT ![r][f] = new]
  BY DEF Prepare
<1>2. /\ mem \in AnyJob
      /\ child[r][f] \in [pc : Points, resume : BOOLEAN, mem : AnyJob]
  BY DEF ChildInv, Child, AnyJob
<1>3. new \in [pc : Points, resume : BOOLEAN, mem : AnyJob] /\ new.mem = mem
  BY <1>2
<1>4. new \in Child(r)
  BY <1>3 DEF Child
<1> HIDE DEF new
<1> QED
  BY <1>1, <1>4, ChildUpdate

\* A process is over, heard of or not.
LEMMA ChildEnds ==
  ASSUME ChildInv, NEW r \in Revs, NEW f \in Fences, NEW pc \in Points,
         pc \notin Working, End(r, f, pc) \/ Exit(r, f)
  PROVE  ChildInv'
<1>1. NoJob \in AnyJob /\ NoJob.rev = 0
  BY DEF NoJob, AnyJob
<1>2. NoChild \in Child(r)
  BY <1>1 DEF NoChild, Child, Working, Points
<1> DEFINE over == [NoChild EXCEPT !.pc = pc]
<1>3. over \in Child(r)
  <2>1. over \in [pc : Points, resume : BOOLEAN, mem : AnyJob]
    BY <1>2 DEF Child
  <2>2. over.mem.rev = 0 /\ over.pc \notin Working
    BY <1>1, <1>2 DEF Child, NoChild
  <2> QED
    BY <2>1, <2>2 DEF Child
<1> HIDE DEF over
<1>4. PICK new \in Child(r) : child' = [child EXCEPT ![r][f] = new]
  BY <1>2, <1>3 DEF End, Exit, over
<1> QED
  BY <1>4, ChildUpdate

\* What a process holds once it works.
LEMMA WorkingJob ==
  ASSUME ChildInv, NEW r \in Revs, NEW f \in Fences, child[r][f].pc \in Working
  PROVE  child[r][f].mem \in Jobs /\ child[r][f].mem.rev = r
<1>1. child[r][f].mem \in AnyJob /\ child[r][f].mem.rev = r
  BY DEF ChildInv, Child
<1>2. r # 0
  BY DEF Revs
<1> QED
  BY <1>1, <1>2 DEF AnyJob, NoJob

\* One step of a task process keeps the record and the processes in shape.
LEMMA ChildStepTypes ==
  ASSUME RecordInv, ChildInv, NEW r \in Revs, NEW f \in Fences, ChildStep(r, f)
  PROVE  RecordInv' /\ ChildInv'
<1> DEFINE mem == child[r][f].mem
           OK == RecordInv' /\ ChildInv'
<1>1. ASSUME NEW new \in AnyJob, NEW begins \in BOOLEAN, Store(r, new, begins)
      PROVE  RecordInv'
  BY <1>1 DEF Store, RecordInv
<1>2. ASSUME UNCHANGED record PROVE RecordInv'
  BY <1>2 DEF record, RecordInv
<1>3. ASSUME Exit(r, f), UNCHANGED record PROVE OK
  BY <1>2, <1>3, ChildEnds DEF Points, Working
<1>4. ASSUME NEW pc \in Points, child[r][f].pc \in Working, Goto(r, f, pc)
      PROVE  ChildInv'
  BY <1>4, ChildGoes
<1>5. Jobs \subseteq AnyJob
  BY DEF AnyJob
<1>6. CASE Begin(r, f)
  <2> DEFINE new == [rev |-> r, status |-> "processing", checkpoint |-> FALSE,
                     pub |-> None]
  <2>1. new \in Jobs /\ new.rev = r
    BY DEF Jobs
  <2> HIDE DEF new
  <2>2. CASE Store(r, new, TRUE) /\ Prepare(r, f, "analyse", new)
    BY <1>1, <1>5, <2>1, <2>2, ChildPrepares DEF Points, Working
  <2> QED
    BY <1>3, <1>6, <2>2 DEF Begin, Fenced, new
<1>7. CASE Resume(r, f)
  <2>1. UNCHANGED record
    BY <1>7 DEF Resume
  <2>2. CASE Resumes(r)
    <3> DEFINE new == [job EXCEPT !.status = "critical_resume_processing"]
    <3>1. job \in Jobs /\ job.rev = r
      <4>1. r # 0
        BY DEF Revs
      <4> QED
        BY <2>2, <4>1 DEF Resumes, RecordInv, AnyJob, NoJob
    <3>2. new \in Jobs /\ new.rev = r
      BY <3>1 DEF Jobs, Resumable
    <3>3. Prepare(r, f, "reopen", new)
      BY <1>7, <2>2 DEF Resume
    <3> HIDE DEF new
    <3> QED
      BY <1>2, <2>1, <3>2, <3>3, ChildPrepares DEF Points, Working
  <2>3. CASE ~ Resumes(r)
    BY <1>2, <1>7, <2>1, <2>3, ChildEnds DEF Resume, Points, Working, Ended
  <2> QED
    BY <2>2, <2>3
<1>8. CASE Reopen(r, f)
  <2>1. child[r][f].pc \in Working
    BY <1>8 DEF Reopen, At, Working
  <2>2. mem \in AnyJob
    BY <1>5, <2>1, WorkingJob
  <2>3. CASE Store(r, mem, TRUE) /\ Goto(r, f, "load")
    BY <1>1, <1>4, <2>1, <2>2, <2>3 DEF Points, Working
  <2> QED
    BY <1>3, <1>8, <2>3 DEF Reopen, Fenced
<1>9. CASE Load(r, f) \/ Analyse(r, f) \/ AssertCurrent(r, f)
             \/ ModelFails(r, f)
  <2>1. UNCHANGED record /\ child[r][f].pc \in Working
    BY <1>9 DEF Load, Analyse, AssertCurrent, ModelFails, At, Working
  <2>2. PICK pc \in Points : Goto(r, f, pc)
    <3>1. {"review", "failing", "checkpoint", "point", "doubtful"}
            \subseteq Points
      BY DEF Points, Working
    <3> QED
      BY <1>9, <3>1 DEF Load, Analyse, AssertCurrent, ModelFails
  <2> QED
    BY <1>2, <1>4, <2>1, <2>2
<1>10. CASE WriteCheckpoint(r, f)
  <2>1. child[r][f].pc \in Working
    BY <1>10 DEF WriteCheckpoint, At, Working
  <2>2. Checkpointed(r) \in AnyJob
    BY <1>5 DEF Checkpointed, Jobs, Resumable
  <2>3. CASE Store(r, Checkpointed(r), FALSE) /\ Goto(r, f, "verify")
    BY <1>1, <1>4, <2>1, <2>2, <2>3 DEF Points, Working
  <2> QED
    BY <1>3, <1>10, <2>3 DEF WriteCheckpoint, Fenced
<1>11. CASE RecordCheckpoint(r, f)
  <2>1. child[r][f].pc \in Working
    BY <1>11 DEF RecordCheckpoint, At, Working
  <2>2. CASE UNCHANGED record
             /\ (Goto(r, f, "review") \/ Goto(r, f, "failing"))
    BY <1>2, <1>4, <2>1, <2>2 DEF Points, Working
  <2> QED
    BY <1>3, <1>11, <2>2 DEF RecordCheckpoint, Fenced, record
<1>12. CASE Review(r, f)
  <2>1. UNCHANGED record /\ child[r][f].pc \in Working
    BY <1>12 DEF Review, At, Working
  <2>2. CASE Goto(r, f, "publish")
    BY <1>2, <1>4, <2>1, <2>2 DEF Points, Working
  <2> DEFINE new == [mem EXCEPT !.status = "succeeded", !.checkpoint = TRUE,
                                !.pub = None]
  <2>3. CASE Prepare(r, f, "close", new)
    <3>1. mem \in Jobs /\ mem.rev = r
      BY <2>1, WorkingJob
    <3>2. new \in Jobs /\ new.rev = r
      BY <3>1 DEF Jobs
    <3> HIDE DEF new
    <3> QED
      BY <1>2, <2>1, <2>3, <3>2, ChildPrepares DEF Points, Working
  <2> QED
    BY <1>12, <2>2, <2>3 DEF Review
<1>13. CASE Point(r, f)
  <2> DEFINE new == [rev |-> r, status |-> "two_pass_ready",
                     checkpoint |-> TRUE, pub |-> <<r, f>>]
  <2>1. new \in Jobs /\ new.rev = r
    BY DEF Jobs, Resumable, Packages
  <2> HIDE DEF new
  <2>2. CASE latest' = <<r, f>> /\ UNCHANGED <<job, trampled>>
             /\ Prepare(r, f, "close", new)
    <3>1. RecordInv'
      BY <2>2 DEF RecordInv, Packages
    <3> QED
      BY <2>1, <2>2, <3>1, ChildPrepares DEF Points, Working
  <2> QED
    BY <1>3, <1>13, <2>2 DEF Point, Fenced, new
<1>14. CASE Handle(r, f)
  <2>1. UNCHANGED record /\ child[r][f].pc \in Working
    BY <1>14 DEF Handle, At, Working
  <2>2. mem \in Jobs /\ mem.rev = r
    BY <2>1, WorkingJob
  <2> DEFINE found == job.rev = r /\ job.status = "analysis_checkpoint_ready"
             kept == [mem EXCEPT !.checkpoint = @ \/ found]
  <2>3. kept \in Jobs /\ kept.rev = r
    BY <2>2 DEF Jobs
  <2>4. \/ \E status \in {"retrying", "failed"} :
             Prepare(r, f, "close", [kept EXCEPT !.status = status])
        \/ Prepare(r, f, "close",
                   [kept EXCEPT !.status = "succeeded", !.pub = None])
    BY <1>14 DEF Handle
  <2> HIDE DEF kept
  <2>5. PICK new \in Jobs : new.rev = r /\ Prepare(r, f, "close", new)
    <3>1. ASSUME NEW status \in {"retrying", "failed"}
          PROVE  /\ [kept EXCEPT !.status = status] \in Jobs
                 /\ [kept EXCEPT !.status = status].rev = r
      BY <2>3 DEF Jobs, Resumable
    <3>2. /\ [kept EXCEPT !.status = "succeeded", !.pub = None] \in Jobs
          /\ [kept EXCEPT !.status = "succeeded", !.pub = None].rev = r
      BY <2>3 DEF Jobs
    <3> QED
      BY <2>4, <3>1, <3>2
  <2> QED
    BY <1>2, <2>1, <2>5, ChildPrepares DEF Points, Working
<1>15. CASE Close(r, f)
  <2>1. child[r][f].pc \in Working
    BY <1>15 DEF Close, At, Working
  <2>2. mem \in AnyJob
    BY <1>5, <2>1, WorkingJob
  <2>3. Ending(mem.status) \in Points /\ Ending(mem.status) \notin Working
    BY DEF Ending, Points, Ended, Working
  <2>4. CASE Store(r, mem, FALSE) /\ End(r, f, Ending(mem.status))
    BY <1>1, <2>2, <2>3, <2>4, ChildEnds
  <2> QED
    BY <1>3, <1>15, <2>4 DEF Close, Fenced
<1>16. CASE ChildDies(r, f)
  BY <1>2, <1>16, ChildEnds DEF ChildDies, Points, Working, Ended
<1> QED
  BY <1>6, <1>7, <1>8, <1>9, <1>10, <1>11, <1>12, <1>13, <1>14, <1>15, <1>16
     DEF ChildStep

-----------------------------------------------------------------------------
\* A slot without a process has the shape of a process.
LEMMA NoChildShape ==
  ASSUME NEW r \in Revs
  PROVE  NoChild \in Child(r)
<1>1. NoJob \in AnyJob /\ NoJob.rev = 0
  BY DEF NoJob, AnyJob
<1> QED
  BY <1>1 DEF NoChild, Child, Working, Points

\* A new lease starts a process and buries the dead ones of its unit.
LEMMA GrantChild ==
  ASSUME ChildInv, NEW r \in Revs, NEW update \in Leases, Grant(r, update)
  PROVE  ChildInv'
<1> DEFINE f == lease[r].fence + 1
           started == [NoChild EXCEPT !.pc = "start", !.resume = update.resume]
           slots == [g \in Fences |-> IF g = f THEN started
                    ELSE IF child[r][g].pc = "dead" THEN NoChild
                    ELSE child[r][g]]
<1>1. child' = [child EXCEPT ![r] = slots]
  BY DEF Grant, ChildInv
<1>2. NoChild \in Child(r)
  BY NoChildShape
<1>3. started \in Child(r)
  <2>1. /\ started \in [pc : Points, resume : BOOLEAN, mem : AnyJob]
        /\ started.pc = "start" /\ started.mem = NoJob
    BY <1>2 DEF Child, NoChild, Points, Leases
  <2>2. NoJob.rev = 0 /\ started.pc \notin Working
    BY <2>1 DEF NoJob, Working
  <2> HIDE DEF started
  <2> QED
    BY <2>1, <2>2 DEF Child
<1>4. \A g \in Fences : slots[g] \in Child(r)
  BY <1>2, <1>3 DEF ChildInv
<1>5. slots \in [Fences -> [pc : Points, resume : BOOLEAN, mem : AnyJob]]
  BY <1>4 DEF Child
<1> HIDE DEF slots
<1>6. child' \in [Revs -> [Fences -> [pc : Points, resume : BOOLEAN,
                                     mem : AnyJob]]]
  BY <1>1, <1>5 DEF ChildInv
<1>7. \A s \in Revs, g \in Fences : child'[s][g] \in Child(s)
  BY <1>1, <1>4 DEF ChildInv
<1> QED
  BY <1>6, <1>7 DEF ChildInv, Child

\* The results the dispatcher can no longer hear of are dropped.
LEMMA DispatcherDiesChild ==
  ASSUME ChildInv, DispatcherDies
  PROVE  ChildInv'
<1>1. child' = [r \in Revs |-> [f \in Fences |->
                 IF child[r][f].pc \in Ended THEN NoChild ELSE child[r][f]]]
  BY DEF DispatcherDies
<1>2. \A r \in Revs, f \in Fences : child'[r][f] \in Child(r)
  BY <1>1, NoChildShape DEF ChildInv
<1>3. child' \in [Revs -> [Fences -> [pc : Points, resume : BOOLEAN,
                                     mem : AnyJob]]]
  BY <1>1, <1>2 DEF Child
<1> QED
  BY <1>2, <1>3 DEF ChildInv, Child

\* The consumer and the adoption keep the record and themselves in shape.
LEMMA ReaderTypes ==
  ASSUME RecordInv, ReaderInv, ReaderStep
  PROVE  RecordInv' /\ ReaderInv'
<1>1. NoJob \in AnyJob
  BY DEF AnyJob
<1>2. CASE Rewrite
  BY <1>1, <1>2 DEF Rewrite, RecordInv, ReaderInv, consuming, NoReader
<1>3. CASE ReadJob \/ Consume \/ CheckAuthority \/ Reread \/ ConsumerStops
  BY <1>1, <1>3 DEF ReadJob, Consume, CheckAuthority, Reread, ConsumerStops,
     RecordInv, ReaderInv, consuming, NoReader
<1>4. CASE Offer
  BY <1>1, <1>4 DEF Offer, RecordInv, ReaderInv, consuming
<1>5. ASSUME NEW p \in Packages, CheckOffer(p)
      PROVE  RecordInv' /\ ReaderInv'
  BY <1>5 DEF CheckOffer, RecordInv, ReaderInv, adopting, record
<1>6. CASE Adopt \/ AdopterDies
  <2>1. None \notin Packages
    BY DEF None, Packages, Revs
  <2> QED
    BY <1>6 DEF Adopt, AdopterDies, RecordInv, ReaderInv, adopting, record
<1> QED
  BY <1>2, <1>3, <1>4, <1>5, <1>6 DEF ReaderStep

\* The capture before its first scan.
LEMMA TypeInit == PackageInit => TypeInv
<1> SUFFICES ASSUME PackageInit PROVE TypeInv
  OBVIOUS
<1>1. Idle \in Leases /\ NoJob \in AnyJob
  BY DEF Idle, Leases, AnyJob
<1>2. lease \in [Revs -> Leases]
  BY <1>1 DEF PackageInit
<1>3. CountersInv
  BY PackageAssumption DEF PackageInit, CountersInv, Revs
<1>4. RecordInv
  BY <1>1 DEF PackageInit, RecordInv
<1>5. ChildInv
  <2>1. \A r \in Revs, f \in Fences : child[r][f] \in Child(r)
    BY NoChildShape DEF PackageInit
  <2>2. child \in [Revs -> [Fences -> [pc : Points, resume : BOOLEAN,
                                      mem : AnyJob]]]
    BY <2>1 DEF PackageInit, Child
  <2> QED
    BY <2>1, <2>2 DEF ChildInv
<1>6. ReaderInv
  BY <1>1 DEF PackageInit, ReaderInv, NoReader
<1> QED
  BY <1>2, <1>3, <1>4, <1>5, <1>6 DEF TypeInv

\* Every step keeps every variable in shape.
LEMMA TypeStep == TypeInv /\ [PackageNext]_vars => TypeInv'
<1> SUFFICES ASSUME TypeInv, [PackageNext]_vars PROVE TypeInv'
  OBVIOUS
<1>1. lease' \in [Revs -> Leases]
  BY LeaseStep DEF TypeInv, Kept
<1> DEFINE rest == CountersInv /\ RecordInv /\ ChildInv /\ ReaderInv
<1>2. /\ UNCHANGED <<source, selected, deaths>> => CountersInv'
      /\ UNCHANGED record => RecordInv'
      /\ UNCHANGED child => ChildInv'
      /\ UNCHANGED reader => ReaderInv'
  <2>1. UNCHANGED <<source, selected, deaths>> => CountersInv'
    BY DEF TypeInv, CountersInv
  <2>2. UNCHANGED record => RecordInv'
    BY DEF TypeInv, RecordInv, record
  <2>3. UNCHANGED child => ChildInv'
    BY DEF TypeInv, ChildInv, Child
  <2>4. UNCHANGED reader => ReaderInv'
    BY DEF TypeInv, ReaderInv, reader
  <2> QED
    BY <2>1, <2>2, <2>3, <2>4
<1>3. ASSUME NEW r \in Revs, Scan(r) PROVE rest'
  <2>1. CountersInv'
    BY <1>3 DEF Scan, TypeInv, CountersInv
  <2> QED
    BY <1>2, <1>3, <2>1 DEF Scan
<1>4. ASSUME NEW r \in Revs, Claim(r) PROVE rest'
  <2>1. CountersInv'
    BY <1>4 DEF Claim, TypeInv, CountersInv
  <2>2. lease[r] \in Leases
    BY DEF TypeInv
  <2>3. ChildInv'
    BY <1>4, <2>2, GrantChild DEF Claim, TypeInv
  <2> QED
    BY <1>2, <1>4, <2>1, <2>3 DEF Claim
<1>5. ASSUME NEW r \in Revs, NEW f \in Fences, Recover(r, f) PROVE rest'
  <2> DEFINE update == [lease[r] EXCEPT !.recovered = TRUE,
                                        !.resume = lease[r].analysed]
  <2>1. Grant(r, update)
    BY <1>5 DEF Recover
  <2>2. update \in Leases
    BY DEF TypeInv, Leases
  <2> HIDE DEF update
  <2>3. ChildInv'
    BY <2>1, <2>2, GrantChild DEF TypeInv
  <2> QED
    BY <1>2, <1>5, <2>3 DEF Recover
<1>6. ASSUME NEW r \in Revs, NEW f \in Fences,
             RetryWait(r, f) \/ PublishTerminal(r, f)
      PROVE  rest'
  <2>1. Exit(r, f)
    BY <1>6 DEF RetryWait, PublishTerminal, Exit
  <2>2. ChildInv'
    BY <2>1, ChildEnds DEF TypeInv, Points, Working
  <2> QED
    BY <1>2, <1>6, <2>2 DEF RetryWait, PublishTerminal
<1>7. ASSUME DispatcherDies PROVE rest'
  <2>1. CountersInv'
    BY <1>7, PackageAssumption DEF DispatcherDies, TypeInv, CountersInv
  <2>2. ChildInv'
    BY <1>7, DispatcherDiesChild DEF TypeInv
  <2> QED
    BY <1>2, <1>7, <2>1, <2>2 DEF DispatcherDies
<1>8. ASSUME NEW r \in Revs, NEW f \in Fences, ChildStep(r, f) PROVE rest'
  <2>1. RecordInv' /\ ChildInv'
    BY <1>8, ChildStepTypes DEF TypeInv
  <2>2. UNCHANGED others
    BY <1>8 DEF ChildStep, Begin, Resume, Reopen, Load, Analyse,
       WriteCheckpoint, RecordCheckpoint, Review, AssertCurrent, Point,
       ModelFails, Handle, Close, ChildDies
  <2> QED
    BY <1>2, <2>1, <2>2 DEF others
<1>9. ASSUME ReaderStep PROVE rest'
  <2>1. RecordInv' /\ ReaderInv'
    BY <1>9, ReaderTypes DEF TypeInv
  <2>2. UNCHANGED <<source, selected, deaths, child>>
    BY <1>9 DEF ReaderStep, ReadJob, Consume, CheckAuthority, Offer, Reread,
       Rewrite, ConsumerStops, CheckOffer, Adopt, AdopterDies, consuming,
       adopting, unit
  <2> QED
    BY <1>2, <2>1, <2>2
<1>10. ASSUME Supersede PROVE rest'
  <2>1. CountersInv'
    BY <1>10, PackageAssumption
       DEF Supersede, TypeInv, CountersInv, Revs, unit
  <2> QED
    BY <1>2, <1>10, <2>1 DEF Supersede
<1>11. ASSUME UNCHANGED vars PROVE rest'
  BY <1>2, <1>11 DEF vars, unit
<1>12. rest'
  BY <1>3, <1>4, <1>5, <1>6, <1>7, <1>8, <1>9, <1>10, <1>11 DEF PackageNext
<1> QED
  BY <1>1, <1>12 DEF TypeInv

\* For any number of revisions, leases and deaths of the dispatcher, every
\* variable keeps its shape; in particular a process never holds the record
\* of another revision, whatever it finds in the one they share, and only
\* what was offered is adopted (run_request, record_adoption).
THEOREM PackageTypeCorrect == PackageSpec => []PackageTypeOK
BY TypeInit, TypeStep, TypeInvIsTypeOK, PTL DEF PackageSpec

-----------------------------------------------------------------------------
(* The life of the record.  A process that holds its lease and has begun   *)
(* finds the record its own and in work, so nobody who looks before he     *)
(* writes replaces it; what was written blindly is what trampled records.  *)

Writing == Working \ {"reopen"}
Analysing == {"analyse", "checkpoint", "verify"}
Closing == {"retrying", "failed", "succeeded", "two_pass_ready"}

\* What process c of lease (r, f) may assume whatever was written.
ProcessFits(r, f, c) ==
  /\ c.pc # "none" => r <= source
  /\ c.pc = "reopen" => /\ c.mem.checkpoint
                        /\ c.mem.status = "critical_resume_processing"
  /\ c.pc = "close" => c.mem.status \in Closing
  /\ Holds(r, f) =>
       /\ c.pc = "start" => c.resume = lease[r].resume /\ ~ lease[r].analysed
       /\ c.pc \in Working /\ lease[r].resume =>
            c.mem.checkpoint /\ c.pc \notin Analysing
       /\ lease[r].analysed => c.pc \notin Analysing \cup {"reopen", "load"}

\* What its lease makes sure of between process c, record j and pointer p.
RecordFits(r, f, c, j, p) ==
  Holds(r, f) =>
    /\ c.pc \in Writing => j.rev = r /\ j.status \in Interrupted
    /\ c.pc \in Writing /\ lease[r].analysed =>
         IF c.pc = "close" THEN c.mem.checkpoint
                           ELSE j.status = "analysis_checkpoint_ready"
    /\ c.pc = "point" => p[1] <= r
    /\ c.pc = "close" /\ c.mem.status = "two_pass_ready" =>
         c.mem.pub = <<r, f>> /\ p = <<r, f>>
    /\ c.pc = "published" /\ j.rev = r =>
         j.status = "two_pass_ready" /\ j.pub = <<r, f>> /\ p = <<r, f>>

\* The process that replaced the pointer is at its end, if its lease is held.
Pointed == {"close", "none"} \cup Ended
PointerFits(r, f, c) ==
  latest = <<r, f>> =>
    /\ f <= lease[r].fence /\ r <= source
    /\ Holds(r, f) => c.pc \in Pointed

\* A generation that may be told to resume has its checkpoint in record j.
CheckpointFits(r, j) ==
  lease[r].status # "completed" /\ (lease[r].resume \/ lease[r].analysed)
    /\ j.rev = r => j.checkpoint /\ j.status # "processing"

Consumable(r) ==
  lease[r].outcome = "published" /\ job.rev = r =>
    /\ job.status = "two_pass_ready"
    /\ job.pub = <<r, lease[r].fence>> /\ latest = job.pub

Behind(p, q) == p = q \/ Later(q, p)

AdoptionOK ==
  /\ adopted \subseteq Packages /\ adopter \in Packages \cup {None}
  /\ \A q \in adopted : Behind(q, latest)
  /\ adopter # None =>
       Behind(adopter, latest) /\ \A q \in adopted : Later(adopter, q)

OutcomeOK(r) == lease[r].outcome # "none" => lease[r].status = "completed"

Steady ==
  /\ \A r \in Revs, f \in Fences : ProcessFits(r, f, child[r][f])
  /\ \A r \in Revs, f \in Fences : PointerFits(r, f, child[r][f])
  /\ \A r \in Revs : OutcomeOK(r)
  /\ \A r \in selected : r <= source

Tidy ==
  /\ \A r \in Revs, f \in Fences : RecordFits(r, f, child[r][f], job, latest)
  /\ \A r \in Revs : CheckpointFits(r, job) /\ Consumable(r)
  /\ AdoptionOK

LifeInv == Steady /\ (~ trampled => Tidy)
-----------------------------------------------------------------------------
\* One process becomes new, the others stay what they are.
Turns(r, f, new) ==
  \A s \in Revs, g \in Fences :
    child'[s][g] = IF s = r /\ g = f THEN new ELSE child[s][g]

LEMMA TurnsInto ==
  ASSUME ChildInv, NEW r \in Revs, NEW f \in Fences, NEW new,
         child' = [child EXCEPT ![r][f] = new]
  PROVE  Turns(r, f, new)
BY DEF ChildInv, Turns

\* A process moves on without leases, pointer and capture changing.
LEMMA SlotSteady ==
  ASSUME Steady, NEW r \in Revs, NEW f \in Fences, NEW new, Turns(r, f, new),
         UNCHANGED <<lease, source, selected, latest>>,
         ProcessFits(r, f, new), PointerFits(r, f, new)
  PROVE  Steady'
<1>1. ASSUME NEW s \in Revs, NEW g \in Fences
      PROVE  /\ ProcessFits(s, g, child[s][g])'
             /\ PointerFits(s, g, child[s][g])'
  <2>1. ProcessFits(s, g, child'[s][g]) /\ PointerFits(s, g, child'[s][g])
    BY DEF Turns, Steady
  <2> QED
    BY <2>1 DEF ProcessFits, PointerFits, Holds
<1> QED
  BY <1>1 DEF Steady, OutcomeOK

\* And without the record changing.
LEMMA SlotTidy ==
  ASSUME Tidy, NEW r \in Revs, NEW f \in Fences, NEW new, Turns(r, f, new),
         UNCHANGED <<lease, latest, job, adopted, adopter>>,
         RecordFits(r, f, new, job, latest)
  PROVE  Tidy'
<1>1. ASSUME NEW s \in Revs, NEW g \in Fences
      PROVE  RecordFits(s, g, child[s][g], job, latest)'
  <2>1. RecordFits(s, g, child'[s][g], job, latest)
    BY DEF Turns, Tidy
  <2> QED
    BY <2>1 DEF RecordFits, Holds
<1>2. AdoptionOK'
  BY DEF Tidy, AdoptionOK, Behind, Later
<1> QED
  BY <1>1, <1>2 DEF Tidy, CheckpointFits, Consumable

LEMMA QuietSlot ==
  ASSUME LifeInv, NEW r \in Revs, NEW f \in Fences, NEW new, Turns(r, f, new),
         UNCHANGED <<lease, source, selected, record, adopted, adopter>>,
         ProcessFits(r, f, new), PointerFits(r, f, new),
         ~ trampled => RecordFits(r, f, new, job, latest)
  PROVE  LifeInv'
<1>1. Steady'
  BY SlotSteady DEF LifeInv, record
<1>2. ~ trampled' => Tidy'
  BY SlotTidy DEF LifeInv, record
<1> QED
  BY <1>1, <1>2 DEF LifeInv

\* The holder of a lease writes the record: as long as he looked, nobody else
\* was at work on it.
LEMMA WriteSlot ==
  ASSUME LifeInv, NEW r \in Revs, NEW f \in Fences, NEW new, Turns(r, f, new),
         NEW j, NEW begins \in BOOLEAN, Store(r, j, begins), j.rev = r,
         Holds(r, f),
         UNCHANGED <<lease, source, selected, adopted, adopter>>,
         ProcessFits(r, f, new), PointerFits(r, f, new),
         ~ trampled /\ ~ trampled' =>
           RecordFits(r, f, new, j, latest) /\ CheckpointFits(r, j)
  PROVE  LifeInv'
<1>1. Steady'
  BY SlotSteady DEF LifeInv, Store
<1>2. ASSUME ~ trampled' PROVE Tidy'
  <2>1. /\ Tidy /\ ~ trampled /\ job' = j /\ latest' = latest
        /\ job.rev # r => job.status \notin Interrupted
    BY <1>2 DEF LifeInv, Store
  <2>2. ASSUME NEW s \in Revs, NEW g \in Fences
        PROVE  RecordFits(s, g, child[s][g], job, latest)'
    <3>1. CASE s = r /\ g = f
      BY <1>2, <2>1, <3>1 DEF RecordFits, Holds, Turns
    <3>2. CASE s = r /\ g # f
      BY <3>2 DEF RecordFits, Holds
    <3>3. CASE s # r
      <4>1. RecordFits(s, g, child[s][g], job, latest) /\ child'[s][g] = child[s][g]
        BY <2>1, <3>3 DEF Tidy, Turns
      <4>2. Holds(s, g) => child[s][g].pc \notin Writing
        BY <2>1, <3>3, <4>1 DEF RecordFits
      <4>3. {"point", "close"} \subseteq Writing
        BY DEF Writing, Working
      <4> QED
        BY <2>1, <3>3, <4>1, <4>2, <4>3 DEF RecordFits, Holds
    <3> QED
      BY <3>1, <3>2, <3>3
  <2>3. ASSUME NEW s \in Revs PROVE CheckpointFits(s, job)' /\ Consumable(s)'
    <3>1. CASE s = r
      BY <1>2, <2>1, <3>1 DEF CheckpointFits, Consumable, Holds, LifeInv,
         Steady, OutcomeOK
    <3>2. CASE s # r
      BY <2>1, <3>2 DEF CheckpointFits, Consumable
    <3> QED
      BY <3>1, <3>2
  <2>4. AdoptionOK'
    BY <2>1 DEF Tidy, AdoptionOK, Behind, Later
  <2> QED
    BY <2>2, <2>3, <2>4 DEF Tidy
<1> QED
  BY <1>1, <1>2 DEF LifeInv

-----------------------------------------------------------------------------
(* The steps of a task process.                                            *)

\* A process that is over asks for nothing, unless it published.
LEMMA OverSlot ==
  ASSUME TypeInv, LifeInv, NEW r \in Revs, NEW f \in Fences,
         child[r][f].pc # "none", NEW pc \in Ended \ {"published"},
         End(r, f, pc) \/ Exit(r, f),
         UNCHANGED <<lease, record, others>>
  PROVE  LifeInv'
<1> DEFINE over == [NoChild EXCEPT !.pc = pc]
<1>1. PICK new \in {NoChild, over} : child' = [child EXCEPT ![r][f] = new]
  BY DEF End, Exit
<1>2. Turns(r, f, new)
  BY <1>1, TurnsInto DEF TypeInv
<1>3. /\ new.pc \in {"none", "refused", "dead", "flagged", "failed"}
      /\ r <= source
  BY DEF NoChild, Ended, LifeInv, Steady, ProcessFits
<1> HIDE DEF over
<1>4. ProcessFits(r, f, new) /\ RecordFits(r, f, new, job, latest)
  BY <1>3 DEF ProcessFits, RecordFits, Writing, Working, Analysing
<1>5. PointerFits(r, f, new)
  BY <1>3 DEF LifeInv, Steady, PointerFits, Pointed, Ended
<1> QED
  BY <1>2, <1>4, <1>5, QuietSlot DEF others, reader

\* A process that begins, prepares or checks something before it publishes.
LEMMA WorkSlot ==
  ASSUME TypeInv, LifeInv, NEW r \in Revs, NEW f \in Fences, NEW new,
         child' = [child EXCEPT ![r][f] = new],
         child[r][f].pc \in {"start"} \cup (Working \ {"close"}),
         UNCHANGED <<lease, record, others>>,
         ProcessFits(r, f, new),
         ~ trampled => RecordFits(r, f, new, job, latest)
  PROVE  LifeInv'
<1>1. Turns(r, f, new)
  BY TurnsInto DEF TypeInv
<1>2. child[r][f].pc \notin Pointed
  BY DEF Pointed, Working, Ended
<1>3. PointerFits(r, f, new)
  BY <1>2 DEF LifeInv, Steady, PointerFits
<1> QED
  BY <1>1, <1>3, QuietSlot DEF others, reader

\* A process goes on with what it holds; nothing it rests on changes.
LEMMA GoesOn ==
  ASSUME TypeInv, LifeInv, NEW r \in Revs, NEW f \in Fences, NEW pc,
         Goto(r, f, pc), UNCHANGED <<lease, record, others>>,
         child[r][f].pc \in Writing \ {"close"},
         pc \in {"checkpoint", "review", "publish", "point", "failing",
                 "doubtful"},
         pc = "checkpoint" => child[r][f].pc = "analyse",
         Holds(r, f) /\ pc = "point" /\ ~ trampled => latest[1] <= r
  PROVE  LifeInv'
<1> DEFINE new == [child[r][f] EXCEPT !.pc = pc]
<1>1. child' = [child EXCEPT ![r][f] = new]
  BY DEF Goto
<1>2. /\ new.pc = pc /\ new.mem = child[r][f].mem
  BY DEF TypeInv, ChildInv
<1> HIDE DEF new
<1>3. ProcessFits(r, f, child[r][f])
      /\ (~ trampled => RecordFits(r, f, child[r][f], job, latest))
  BY DEF LifeInv, Steady, Tidy
<1>4. ProcessFits(r, f, new)
  BY <1>2, <1>3 DEF ProcessFits, Writing, Working, Analysing
<1>5. ~ trampled => RecordFits(r, f, new, job, latest)
  BY <1>2, <1>3 DEF RecordFits, Writing, Working
<1> QED
  BY <1>1, <1>4, <1>5, WorkSlot DEF Writing, Working

\* A process that has not held its lease for long writes nothing.
LEMMA FencedOut ==
  ASSUME TypeInv, LifeInv, NEW r \in Revs, NEW f \in Fences, NEW write,
         child[r][f].pc # "none", ~ Holds(r, f), Fenced(r, f, write),
         UNCHANGED others
  PROVE  LifeInv'
<1>1. Exit(r, f) /\ UNCHANGED <<record, lease>>
  BY DEF Fenced
<1> QED
  BY <1>1, OverSlot DEF Ended

LEMMA BeginLife ==
  ASSUME TypeInv, LifeInv, NEW r \in Revs, NEW f \in Fences, Begin(r, f)
  PROVE  LifeInv'
<1> DEFINE j == [rev |-> r, status |-> "processing", checkpoint |-> FALSE,
                 pub |-> None]
<1>1. CASE ~ Holds(r, f)
  <2>1. Fenced(r, f, /\ Store(r, j, TRUE) /\ Prepare(r, f, "analyse", j)
                     /\ UNCHANGED lease) /\ UNCHANGED others
        /\ child[r][f].pc # "none"
    BY DEF Begin, At
  <2> QED
    BY <1>1, <2>1, FencedOut
<1>2. CASE Holds(r, f)
  <2> DEFINE new == [child[r][f] EXCEPT !.pc = "analyse", !.mem = j]
  <2>1. /\ Store(r, j, TRUE) /\ UNCHANGED lease /\ UNCHANGED others
        /\ child' = [child EXCEPT ![r][f] = new]
        /\ child[r][f].pc = "start" /\ ~ child[r][f].resume
    <3>1. /\ Store(r, j, TRUE) /\ UNCHANGED lease /\ UNCHANGED others
          /\ Prepare(r, f, "analyse", j)
          /\ child[r][f].pc = "start" /\ ~ child[r][f].resume
      BY <1>2 DEF Begin, Fenced, At
    <3> HIDE DEF j
    <3>2. child' = [child EXCEPT ![r][f] = new]
      BY <3>1 DEF Prepare
    <3> QED
      BY <3>1, <3>2
  <2>2. new.pc = "analyse"
    BY DEF TypeInv, ChildInv
  <2>3. j.rev = r /\ j.status = "processing"
    OBVIOUS
  <2> HIDE DEF new, j
  <2>4. Turns(r, f, new)
    BY <2>1, TurnsInto DEF TypeInv
  <2>5. ~ lease[r].resume /\ ~ lease[r].analysed /\ r <= source
        /\ latest # <<r, f>>
    <3>1. ProcessFits(r, f, child[r][f]) /\ PointerFits(r, f, child[r][f])
      BY DEF LifeInv, Steady
    <3> QED
      BY <1>2, <2>1, <3>1 DEF ProcessFits, PointerFits, Pointed, Ended
  <2>6. ProcessFits(r, f, new) /\ PointerFits(r, f, new)
    BY <2>2, <2>5 DEF ProcessFits, PointerFits, Working
  <2>7. RecordFits(r, f, new, j, latest) /\ CheckpointFits(r, j)
    BY <2>2, <2>3, <2>5 DEF RecordFits, CheckpointFits, Interrupted
  <2> QED
    BY <1>2, <2>1, <2>3, <2>4, <2>6, <2>7, WriteSlot DEF others, reader
<1> QED
  BY <1>1, <1>2

LEMMA ResumeLife ==
  ASSUME TypeInv, LifeInv, NEW r \in Revs, NEW f \in Fences, Resume(r, f)
  PROVE  LifeInv'
<1>1. CASE Resumes(r)
  <2> DEFINE j == [job EXCEPT !.status = "critical_resume_processing"]
             new == [child[r][f] EXCEPT !.pc = "reopen", !.mem = j]
  <2>1. /\ UNCHANGED <<lease, record, others>> /\ child[r][f].pc = "start"
        /\ child' = [child EXCEPT ![r][f] = new]
    <3>1. /\ UNCHANGED <<lease, record, others>> /\ child[r][f].pc = "start"
          /\ Prepare(r, f, "reopen", j)
      BY <1>1 DEF Resume, At
    <3> HIDE DEF j
    <3>2. child' = [child EXCEPT ![r][f] = new]
      BY <3>1 DEF Prepare
    <3> QED
      BY <3>1, <3>2
  <2>2. job \in Jobs
    <3>1. r # 0
      BY DEF Revs
    <3> QED
      BY <1>1, <3>1 DEF Resumes, TypeInv, RecordInv, AnyJob, NoJob
  <2>3. new.pc = "reopen" /\ new.mem = j
    BY DEF TypeInv, ChildInv
  <2>4. j.checkpoint /\ j.status = "critical_resume_processing"
    BY <1>1, <2>2 DEF Resumes, Jobs
  <2> HIDE DEF new, j
  <2>5. ProcessFits(r, f, child[r][f])
    BY DEF LifeInv, Steady
  <2>6. ProcessFits(r, f, new) /\ RecordFits(r, f, new, job, latest)
    BY <2>1, <2>3, <2>4, <2>5 DEF ProcessFits, RecordFits, Writing, Analysing
  <2> QED
    BY <2>1, <2>6, WorkSlot
<1>2. CASE ~ Resumes(r)
  <2>1. /\ UNCHANGED <<lease, record, others>> /\ child[r][f].pc # "none"
        /\ End(r, f, "refused")
    BY <1>2 DEF Resume, At
  <2> QED
    BY <2>1, OverSlot DEF Ended
<1> QED
  BY <1>1, <1>2

LEMMA ReopenLife ==
  ASSUME TypeInv, LifeInv, NEW r \in Revs, NEW f \in Fences, Reopen(r, f)
  PROVE  LifeInv'
<1> DEFINE j == child[r][f].mem
<1>1. CASE ~ Holds(r, f)
  <2>1. Fenced(r, f, /\ Store(r, j, TRUE) /\ Goto(r, f, "load")
                     /\ UNCHANGED lease) /\ UNCHANGED others
        /\ child[r][f].pc # "none"
    BY DEF Reopen, At
  <2> QED
    BY <1>1, <2>1, FencedOut
<1>2. CASE Holds(r, f)
  <2> DEFINE new == [child[r][f] EXCEPT !.pc = "load"]
  <2>1. /\ Store(r, j, TRUE) /\ UNCHANGED lease /\ UNCHANGED others
        /\ child' = [child EXCEPT ![r][f] = new]
        /\ child[r][f].pc = "reopen"
    BY <1>2 DEF Reopen, Fenced, Goto, At
  <2>2. new.pc = "load" /\ new.mem = j
    BY DEF TypeInv, ChildInv
  <2>3. j.rev = r
    BY <2>1, WorkingJob DEF TypeInv, Working
  <2>4. Turns(r, f, new)
    BY <2>1, TurnsInto DEF TypeInv
  <2>5. /\ j.checkpoint /\ j.status = "critical_resume_processing"
        /\ ~ lease[r].analysed /\ r <= source /\ latest # <<r, f>>
    <3>1. ProcessFits(r, f, child[r][f]) /\ PointerFits(r, f, child[r][f])
      BY DEF LifeInv, Steady
    <3> QED
      BY <1>2, <2>1, <3>1 DEF ProcessFits, PointerFits, Pointed, Ended
  <2> HIDE DEF new, j
  <2>6. ProcessFits(r, f, new) /\ PointerFits(r, f, new)
    BY <2>2, <2>5 DEF ProcessFits, PointerFits, Analysing
  <2>7. RecordFits(r, f, new, j, latest) /\ CheckpointFits(r, j)
    BY <2>2, <2>3, <2>5 DEF RecordFits, CheckpointFits, Interrupted
  <2> QED
    BY <1>2, <2>1, <2>3, <2>4, <2>6, <2>7, WriteSlot DEF others, reader
<1> QED
  BY <1>1, <1>2

LEMMA WriteCheckpointLife ==
  ASSUME TypeInv, LifeInv, NEW r \in Revs, NEW f \in Fences,
         WriteCheckpoint(r, f)
  PROVE  LifeInv'
<1>1. CASE ~ Holds(r, f)
  <2>1. Fenced(r, f, /\ Store(r, Checkpointed(r), FALSE)
                     /\ Goto(r, f, "verify")
                     /\ UNCHANGED lease) /\ UNCHANGED others
        /\ child[r][f].pc # "none"
    BY DEF WriteCheckpoint, At
  <2> QED
    BY <1>1, <2>1, FencedOut
<1>2. CASE Holds(r, f)
  <2> DEFINE new == [child[r][f] EXCEPT !.pc = "verify"]
             j == Checkpointed(r)
  <2>1. /\ Store(r, j, FALSE) /\ UNCHANGED lease /\ UNCHANGED others
        /\ child' = [child EXCEPT ![r][f] = new]
        /\ child[r][f].pc = "checkpoint"
    BY <1>2 DEF WriteCheckpoint, Fenced, Goto, At
  <2>2. new.pc = "verify"
    BY DEF TypeInv, ChildInv
  <2>3. /\ j.rev = r /\ j.status = "analysis_checkpoint_ready"
        /\ j.checkpoint
    BY DEF Checkpointed
  <2>4. Turns(r, f, new)
    BY <2>1, TurnsInto DEF TypeInv
  <2>5. /\ ~ lease[r].resume /\ ~ lease[r].analysed /\ r <= source
        /\ latest # <<r, f>>
    <3>1. ProcessFits(r, f, child[r][f]) /\ PointerFits(r, f, child[r][f])
      BY DEF LifeInv, Steady
    <3> QED
      BY <1>2, <2>1, <3>1
         DEF ProcessFits, PointerFits, Pointed, Ended, Analysing, Working
  <2> HIDE DEF new, j
  <2>6. ProcessFits(r, f, new) /\ PointerFits(r, f, new)
    BY <2>2, <2>5 DEF ProcessFits, PointerFits, Working
  <2>7. RecordFits(r, f, new, j, latest) /\ CheckpointFits(r, j)
    BY <2>2, <2>3, <2>5 DEF RecordFits, CheckpointFits, Interrupted
  <2> QED
    BY <1>2, <2>1, <2>3, <2>4, <2>6, <2>7, WriteSlot DEF others, reader
<1> QED
  BY <1>1, <1>2

LEMMA RecordCheckpointLife ==
  ASSUME TypeInv, LifeInv, NEW r \in Revs, NEW f \in Fences,
         RecordCheckpoint(r, f)
  PROVE  LifeInv'
<1> DEFINE write == /\ lease' = [lease EXCEPT ![r].analysed = TRUE]
                    /\ Goto(r, f, "review")
                    /\ UNCHANGED record
<1>1. child[r][f].pc = "verify" /\ UNCHANGED others
  BY DEF RecordCheckpoint, At
<1>2. CASE Fenced(r, f, write) /\ ~ Holds(r, f)
  <2> HIDE DEF write
  <2> QED
    BY <1>1, <1>2, FencedOut
<1>3. CASE Goto(r, f, "failing") /\ UNCHANGED <<lease, record>>
  BY <1>1, <1>3, GoesOn DEF Writing, Working
<1>4. CASE job = Checkpointed(r) /\ write /\ Holds(r, f)
  <2> DEFINE new == [child[r][f] EXCEPT !.pc = "review"]
  <2>1. child' = [child EXCEPT ![r][f] = new]
    BY <1>4 DEF Goto
  <2>2. new.pc = "review"
    BY DEF TypeInv, ChildInv
  <2> HIDE DEF new
  <2>3. Turns(r, f, new)
    BY <2>1, TurnsInto DEF TypeInv
  <2>4. /\ lease \in [Revs -> Leases]
        /\ lease' = [lease EXCEPT ![r].analysed = TRUE]
    BY <1>4 DEF TypeInv
  <2>5. /\ \A s \in Revs : /\ lease'[s].fence = lease[s].fence
                           /\ lease'[s].status = lease[s].status
                           /\ lease'[s].resume = lease[s].resume
                           /\ lease'[s].outcome = lease[s].outcome
        /\ \A s \in Revs : s # r => lease'[s] = lease[s]
    BY <2>4 DEF Leases
  <2>6. ProcessFits(r, f, child[r][f]) /\ PointerFits(r, f, child[r][f])
    BY DEF LifeInv, Steady
  <2>7. ~ lease[r].resume /\ r <= source /\ latest # <<r, f>>
    BY <1>1, <1>4, <2>6
       DEF ProcessFits, PointerFits, Pointed, Ended, Analysing, Working
  <2>8. ASSUME NEW s \in Revs, NEW g \in Fences
        PROVE  /\ ProcessFits(s, g, child[s][g])'
               /\ PointerFits(s, g, child[s][g])'
               /\ (~ trampled' => RecordFits(s, g, child[s][g], job, latest)')
    <3>1. CASE s = r /\ g = f
      <4>1. child'[s][g].pc = "review"
        BY <2>2, <2>3, <3>1 DEF Turns
      <4>2. /\ job'.rev = r /\ job'.status = "analysis_checkpoint_ready"
            /\ UNCHANGED <<source, latest>>
        BY <1>1, <1>4 DEF record, others, Checkpointed
      <4> QED
        BY <2>5, <2>7, <3>1, <4>1, <4>2 DEF ProcessFits, PointerFits,
           RecordFits, Analysing, Interrupted
    <3>2. CASE s = r /\ g # f
      <4>1. ~ Holds(s, g)' /\ child'[s][g] = child[s][g]
        BY <1>4, <2>3, <2>5, <3>2 DEF Holds, Turns
      <4>2. ProcessFits(s, g, child[s][g]) /\ PointerFits(s, g, child[s][g])
        BY DEF LifeInv, Steady
      <4> QED
        BY <1>1, <1>4, <2>5, <4>1, <4>2 DEF ProcessFits, PointerFits,
           RecordFits, record, others
    <3>3. CASE s # r
      <4>1. lease'[s] = lease[s] /\ child'[s][g] = child[s][g]
        BY <2>3, <2>5, <3>3 DEF Turns
      <4>2. ProcessFits(s, g, child[s][g]) /\ PointerFits(s, g, child[s][g])
        BY DEF LifeInv, Steady
      <4>3. ~ trampled => RecordFits(s, g, child[s][g], job, latest)
        BY DEF LifeInv, Tidy
      <4> QED
        BY <1>1, <1>4, <4>1, <4>2, <4>3 DEF ProcessFits, PointerFits,
           RecordFits, record, others, Holds
    <3> QED
      BY <3>1, <3>2, <3>3
  <2>9. Steady'
    BY <1>1, <2>5, <2>8 DEF LifeInv, Steady, OutcomeOK, others
  <2>10. ASSUME ~ trampled' PROVE Tidy'
    <3>1. Tidy /\ job' = job /\ latest' = latest
      BY <1>4, <2>10 DEF LifeInv, record
    <3>2. ASSUME NEW s \in Revs PROVE CheckpointFits(s, job)' /\ Consumable(s)'
      <4>1. job.checkpoint /\ job.status = "analysis_checkpoint_ready"
        BY <1>4 DEF Checkpointed
      <4>2. CheckpointFits(s, job) /\ Consumable(s)
        BY <3>1 DEF Tidy
      <4> QED
        BY <2>5, <3>1, <4>1, <4>2 DEF CheckpointFits, Consumable
    <3>3. AdoptionOK'
      BY <1>1, <3>1 DEF Tidy, AdoptionOK, Behind, Later, others, reader
    <3> QED
      BY <2>8, <2>10, <3>2, <3>3 DEF Tidy
  <2> QED
    BY <2>9, <2>10 DEF LifeInv
<1> QED
  BY <1>2, <1>3, <1>4 DEF RecordCheckpoint, Fenced

LEMMA ReviewLife ==
  ASSUME TypeInv, LifeInv, NEW r \in Revs, NEW f \in Fences, Review(r, f)
  PROVE  LifeInv'
<1>1. child[r][f].pc = "review" /\ UNCHANGED <<lease, record, others>>
  BY DEF Review, At
<1>2. CASE Goto(r, f, "publish")
  BY <1>1, <1>2, GoesOn DEF Writing, Working
<1> DEFINE mem == child[r][f].mem
           j == [mem EXCEPT !.status = "succeeded", !.checkpoint = TRUE,
                            !.pub = None]
<1>3. CASE Prepare(r, f, "close", j)
  <2> DEFINE new == [child[r][f] EXCEPT !.pc = "close", !.mem = j]
  <2>1. mem \in Jobs
    BY <1>1, WorkingJob DEF TypeInv, Working
  <2>2. j.status = "succeeded" /\ j.checkpoint
    BY <2>1 DEF Jobs
  <2>3. new.pc = "close" /\ new.mem = j
    BY DEF TypeInv, ChildInv
  <2> HIDE DEF j
  <2>4. child' = [child EXCEPT ![r][f] = new]
    BY <1>3 DEF Prepare
  <2> HIDE DEF new
  <2>5. ProcessFits(r, f, child[r][f])
        /\ (~ trampled => RecordFits(r, f, child[r][f], job, latest))
    BY DEF LifeInv, Steady, Tidy
  <2>6. ProcessFits(r, f, new)
    BY <1>1, <2>2, <2>3, <2>5 DEF ProcessFits, Closing, Analysing
  <2>7. ~ trampled => RecordFits(r, f, new, job, latest)
    BY <1>1, <2>2, <2>3, <2>5 DEF RecordFits, Writing, Working
  <2> QED
    BY <1>1, <2>4, <2>6, <2>7, WorkSlot DEF Working
<1> QED
  BY <1>2, <1>3 DEF Review

\* A current revision is never behind the pointer.
LEMMA AssertCurrentLife ==
  ASSUME TypeInv, LifeInv, NEW r \in Revs, NEW f \in Fences,
         AssertCurrent(r, f)
  PROVE  LifeInv'
<1>1. child[r][f].pc = "publish" /\ UNCHANGED <<lease, record, others>>
  BY DEF AssertCurrent, At
<1>2. source = r => latest[1] <= r
  <2>1. CASE latest = None
    BY <2>1 DEF None, Revs
  <2>2. CASE latest \in Packages
    <3>1. PICK s \in Revs, g \in Fences : latest = <<s, g>>
      BY <2>2 DEF Packages
    <3>2. PointerFits(s, g, child[s][g])
      BY DEF LifeInv, Steady
    <3> QED
      BY <3>1, <3>2 DEF PointerFits
  <2> QED
    BY <2>1, <2>2 DEF TypeInv, RecordInv
<1>3. CASE Goto(r, f, "point") /\ source = r
  BY <1>1, <1>2, <1>3, GoesOn DEF Writing, Working
<1>4. CASE Goto(r, f, "failing")
  BY <1>1, <1>4, GoesOn DEF Writing, Working
<1> QED
  BY <1>3, <1>4 DEF AssertCurrent, Current

\* The pointer only moves forward, if no write was lost.
LEMMA PointAdvances ==
  ASSUME TypeInv, LifeInv, ~ trampled, NEW r \in Revs, NEW f \in Fences,
         child[r][f].pc = "point", Holds(r, f)
  PROVE  Later(<<r, f>>, latest)
<1>1. RecordFits(r, f, child[r][f], job, latest)
      /\ PointerFits(r, f, child[r][f])
  BY DEF LifeInv, Steady, Tidy
<1>2. latest[1] <= r /\ latest # <<r, f>> /\ lease[r].fence = f
  BY <1>1 DEF RecordFits, PointerFits, Pointed, Ended, Holds
<1>3. CASE latest = None
  BY <1>3 DEF None, Later, Revs
<1>4. CASE latest \in Packages
  <2>1. PICK s \in Revs, g \in Fences : latest = <<s, g>>
    BY <1>4 DEF Packages
  <2>2. PointerFits(s, g, child[s][g])
    BY DEF LifeInv, Steady
  <2>3. s \in Nat /\ g \in Nat /\ r \in Nat /\ f \in Nat
    BY DEF Revs, Fences
  <2> QED
    BY <1>2, <2>1, <2>2, <2>3 DEF PointerFits, Later
<1> QED
  BY <1>3, <1>4 DEF TypeInv, RecordInv

\* What was behind stays behind when the pointer moves forward.
LEMMA StaysBehind ==
  ASSUME NEW p \in Packages, NEW q \in Packages \cup {None},
         NEW n \in Packages, Later(n, q), Behind(p, q)
  PROVE  Behind(p, n)
<1>1. /\ p[1] \in Nat /\ p[2] \in Nat /\ n[1] \in Nat /\ n[2] \in Nat
      /\ q[1] \in Nat /\ q[2] \in Nat
  BY DEF Packages, None, Revs, Fences
<1> QED
  BY <1>1 DEF Behind, Later

LEMMA PointLife ==
  ASSUME TypeInv, LifeInv, NEW r \in Revs, NEW f \in Fences, Point(r, f)
  PROVE  LifeInv'
<1> DEFINE j == [rev |-> r, status |-> "two_pass_ready", checkpoint |-> TRUE,
                 pub |-> <<r, f>>]
<1>1. child[r][f].pc = "point" /\ UNCHANGED others
  BY DEF Point, At
<1>2. CASE ~ Holds(r, f)
  <2>1. Fenced(r, f, /\ latest' = <<r, f>>
                     /\ Prepare(r, f, "close", j)
                     /\ UNCHANGED <<job, trampled, lease>>)
    BY DEF Point
  <2> HIDE DEF j
  <2> QED
    BY <1>1, <1>2, <2>1, FencedOut
<1>3. CASE Holds(r, f)
  <2> DEFINE new == [child[r][f] EXCEPT !.pc = "close", !.mem = j]
  <2>1. /\ latest' = <<r, f>> /\ Prepare(r, f, "close", j)
        /\ UNCHANGED <<job, trampled, lease>>
    BY <1>3 DEF Point, Fenced
  <2>2. new.pc = "close" /\ new.mem = j
    BY DEF TypeInv, ChildInv
  <2>3. j.status = "two_pass_ready" /\ j.checkpoint /\ j.pub = <<r, f>>
    OBVIOUS
  <2> HIDE DEF j
  <2>4. child' = [child EXCEPT ![r][f] = new]
    BY <2>1 DEF Prepare
  <2> HIDE DEF new
  <2>5. Turns(r, f, new)
    BY <2>4, TurnsInto DEF TypeInv
  <2>6. ProcessFits(r, f, child[r][f])
        /\ (~ trampled => RecordFits(r, f, child[r][f], job, latest))
    BY DEF LifeInv, Steady, Tidy
  <2>7. lease[r].fence = f /\ r <= source /\ f <= f
    BY <1>1, <1>3, <2>6 DEF ProcessFits, Holds, Fences
  <2>8. ASSUME NEW s \in Revs, NEW g \in Fences
        PROVE  ProcessFits(s, g, child[s][g])' /\ PointerFits(s, g, child[s][g])'
    <3>1. ProcessFits(s, g, child'[s][g])
      <4>1. ProcessFits(r, f, new)
        BY <1>1, <2>2, <2>3, <2>6, <2>7
           DEF ProcessFits, Closing, Analysing, Working
      <4> QED
        BY <2>5, <4>1 DEF Turns, LifeInv, Steady
    <3>2. ProcessFits(s, g, child[s][g])'
      BY <1>1, <2>1, <3>1 DEF ProcessFits, Holds, others
    <3>3. PointerFits(s, g, child[s][g])'
      BY <1>1, <2>1, <2>2, <2>5, <2>7
         DEF PointerFits, Holds, others, Turns, Pointed
    <3> QED
      BY <3>2, <3>3
  <2>9. Steady'
    BY <1>1, <2>1, <2>8 DEF LifeInv, Steady, OutcomeOK, others
  <2>10. ASSUME ~ trampled' PROVE Tidy'
    <3>1. Tidy /\ ~ trampled
      BY <2>1, <2>10 DEF LifeInv
    <3>2. job.rev = r /\ job.status \in Interrupted
      BY <1>1, <1>3, <2>6, <3>1 DEF RecordFits, Writing, Working
    <3>3. ASSUME NEW s \in Revs, NEW g \in Fences
          PROVE  RecordFits(s, g, child[s][g], job, latest)'
      <4>1. CASE s = r /\ g = f
        <5>1. child'[s][g] = new
          BY <2>5, <4>1 DEF Turns
        <5> QED
          BY <2>1, <2>2, <2>3, <3>2, <4>1, <5>1 DEF RecordFits
      <4>2. CASE s = r /\ g # f
        BY <1>3, <2>1, <4>2 DEF RecordFits, Holds
      <4>3. CASE s # r
        <5>1. RecordFits(s, g, child[s][g], job, latest)
              /\ child'[s][g] = child[s][g]
          BY <2>5, <3>1, <4>3 DEF Tidy, Turns
        <5>2. Holds(s, g) => child[s][g].pc \notin Writing
          BY <3>2, <4>3, <5>1 DEF RecordFits
        <5>3. {"point", "close"} \subseteq Writing
          BY DEF Writing, Working
        <5> QED
          BY <2>1, <3>2, <4>3, <5>1, <5>2, <5>3 DEF RecordFits, Holds
      <4> QED
        BY <4>1, <4>2, <4>3
    <3>4. ASSUME NEW s \in Revs PROVE CheckpointFits(s, job)' /\ Consumable(s)'
      <4>1. CheckpointFits(s, job)'
        BY <2>1, <3>1 DEF Tidy, CheckpointFits
      <4>2. Consumable(s)'
        BY <1>3, <2>1, <3>2 DEF Consumable, Holds, LifeInv, Steady, OutcomeOK
      <4> QED
        BY <4>1, <4>2
    <3>5. AdoptionOK'
      <4>1. Later(<<r, f>>, latest)
        BY <1>1, <1>3, <3>1, PointAdvances
      <4>2. /\ <<r, f>> \in Packages /\ latest \in Packages \cup {None}
            /\ AdoptionOK
        BY <3>1 DEF Packages, TypeInv, RecordInv, Tidy
      <4>3. \A q \in adopted : Behind(q, <<r, f>>)
        BY <4>1, <4>2, StaysBehind DEF AdoptionOK
      <4>4. adopter # None => Behind(adopter, <<r, f>>)
        BY <4>1, <4>2, StaysBehind DEF AdoptionOK
      <4> QED
        BY <1>1, <2>1, <4>2, <4>3, <4>4
           DEF AdoptionOK, Behind, Later, others, reader
    <3> QED
      BY <3>3, <3>4, <3>5 DEF Tidy
  <2> QED
    BY <2>9, <2>10 DEF LifeInv
<1> QED
  BY <1>2, <1>3

LEMMA HandleLife ==
  ASSUME TypeInv, LifeInv, NEW r \in Revs, NEW f \in Fences, Handle(r, f)
  PROVE  LifeInv'
<1> DEFINE mem == child[r][f].mem
           found == job.rev = r /\ job.status = "analysis_checkpoint_ready"
           kept == [mem EXCEPT !.checkpoint = @ \/ found]
<1>1. /\ child[r][f].pc \in {"failing", "doubtful"}
      /\ UNCHANGED <<lease, record, others>>
  BY DEF Handle, At
<1>2. mem \in Jobs
  BY <1>1, WorkingJob DEF TypeInv, Working
<1>3. kept \in Jobs /\ kept.checkpoint = (mem.checkpoint \/ found)
  BY <1>2 DEF Jobs
<1>4. \/ \E status \in {"retrying", "failed"} :
           Prepare(r, f, "close", [kept EXCEPT !.status = status])
      \/ Prepare(r, f, "close",
                 [kept EXCEPT !.status = "succeeded", !.pub = None])
  BY DEF Handle
<1> HIDE DEF kept
<1>5. PICK j : /\ Prepare(r, f, "close", j)
               /\ j.status \in {"retrying", "failed", "succeeded"}
               /\ j.checkpoint = (mem.checkpoint \/ found)
  <2>1. CASE \E status \in {"retrying", "failed"} :
               Prepare(r, f, "close", [kept EXCEPT !.status = status])
    <3>1. PICK status \in {"retrying", "failed"} :
            Prepare(r, f, "close", [kept EXCEPT !.status = status])
      BY <2>1
    <3> DEFINE k == [kept EXCEPT !.status = status]
    <3>2. k.status = status /\ k.checkpoint = kept.checkpoint
      BY <1>3 DEF Jobs
    <3>3. Prepare(r, f, "close", k)
      BY <3>1
    <3> HIDE DEF k
    <3> QED
      BY <1>3, <3>2, <3>3
  <2>2. CASE Prepare(r, f, "close",
                     [kept EXCEPT !.status = "succeeded", !.pub = None])
    <3> DEFINE k == [kept EXCEPT !.status = "succeeded", !.pub = None]
    <3>1. k.status = "succeeded" /\ k.checkpoint = kept.checkpoint
      BY <1>3 DEF Jobs
    <3>2. Prepare(r, f, "close", k)
      BY <2>2
    <3> HIDE DEF k
    <3> QED
      BY <1>3, <3>1, <3>2
  <2> QED
    BY <1>4, <2>1, <2>2
<1> DEFINE new == [child[r][f] EXCEPT !.pc = "close", !.mem = j]
<1>6. new.pc = "close" /\ new.mem = j
  BY DEF TypeInv, ChildInv
<1>7. child' = [child EXCEPT ![r][f] = new]
  BY <1>5 DEF Prepare
<1> HIDE DEF new
<1>8. ProcessFits(r, f, child[r][f])
      /\ (~ trampled => RecordFits(r, f, child[r][f], job, latest))
  BY DEF LifeInv, Steady, Tidy
<1>9. ProcessFits(r, f, new)
  BY <1>1, <1>5, <1>6, <1>8 DEF ProcessFits, Closing, Analysing, Working
<1>10. ~ trampled => RecordFits(r, f, new, job, latest)
  BY <1>1, <1>5, <1>6, <1>8 DEF RecordFits, Writing, Working
<1> QED
  BY <1>1, <1>7, <1>9, <1>10, WorkSlot DEF Working

LEMMA CloseLife ==
  ASSUME TypeInv, LifeInv, NEW r \in Revs, NEW f \in Fences, Close(r, f)
  PROVE  LifeInv'
<1> DEFINE j == child[r][f].mem
           pc == Ending(j.status)
<1>1. child[r][f].pc = "close" /\ UNCHANGED others
  BY DEF Close, At
<1>2. CASE ~ Holds(r, f)
  <2>1. Fenced(r, f, /\ Store(r, j, FALSE)
                     /\ End(r, f, pc)
                     /\ UNCHANGED lease)
    BY DEF Close
  <2> QED
    BY <1>1, <1>2, <2>1, FencedOut
<1>3. CASE Holds(r, f)
  <2>1. Store(r, j, FALSE) /\ End(r, f, pc) /\ UNCHANGED lease
    BY <1>3 DEF Close, Fenced
  <2>2. j.rev = r
    BY <1>1, WorkingJob DEF TypeInv, Working
  <2>3. /\ pc \in {"published", "flagged", "failed"}
        /\ pc = "published" => j.status = "two_pass_ready"
    BY DEF Ending
  <2>4. PICK new \in {NoChild, [NoChild EXCEPT !.pc = pc]} :
          child' = [child EXCEPT ![r][f] = new]
    BY <2>1 DEF End
  <2>5. new.pc = "none" \/ new.pc = pc
    BY <2>4 DEF NoChild
  <2>6. Turns(r, f, new)
    BY <2>4, TurnsInto DEF TypeInv
  <2>7. ProcessFits(r, f, child[r][f])
        /\ PointerFits(r, f, child[r][f])
        /\ (~ trampled => RecordFits(r, f, child[r][f], job, latest))
    BY DEF LifeInv, Steady, Tidy
  <2> HIDE DEF j, pc
  <2>8. ProcessFits(r, f, new)
    BY <1>1, <2>3, <2>5, <2>7 DEF ProcessFits, Working, Analysing
  <2>9. PointerFits(r, f, new)
    BY <2>3, <2>5, <2>7 DEF PointerFits, Pointed, Ended
  <2>10. ~ trampled => RecordFits(r, f, new, j, latest) /\ CheckpointFits(r, j)
    <3>1. j.status \in Closing
          /\ (lease[r].resume => j.checkpoint)
      BY <1>1, <1>3, <2>7 DEF ProcessFits, Working, j
    <3>2. ~ trampled =>
            /\ lease[r].analysed => j.checkpoint
            /\ j.status = "two_pass_ready" =>
                 j.pub = <<r, f>> /\ latest = <<r, f>>
      BY <1>1, <1>3, <2>7 DEF RecordFits, Writing, Working, j
    <3> QED
      BY <2>3, <2>5, <3>1, <3>2
         DEF RecordFits, CheckpointFits, Writing, Working, Closing
  <2> QED
    BY <1>1, <1>3, <2>1, <2>2, <2>6, <2>8, <2>9, <2>10, WriteSlot
       DEF others, reader
<1> QED
  BY <1>2, <1>3

\* Every step of a task process.
LEMMA ChildStepLife ==
  ASSUME TypeInv, LifeInv, NEW r \in Revs, NEW f \in Fences, ChildStep(r, f)
  PROVE  LifeInv'
<1>1. CASE Load(r, f)
  <2>1. /\ child[r][f].pc = "load" /\ UNCHANGED <<lease, record, others>>
        /\ Goto(r, f, "review") \/ Goto(r, f, "failing")
    BY <1>1 DEF Load, At
  <2> QED
    BY <2>1, GoesOn DEF Writing, Working
<1>2. CASE Analyse(r, f)
  <2>1. /\ child[r][f].pc = "analyse" /\ UNCHANGED <<lease, record, others>>
        /\ Goto(r, f, "checkpoint") \/ Goto(r, f, "failing")
    BY <1>2 DEF Analyse, At
  <2> QED
    BY <2>1, GoesOn DEF Writing, Working
<1>3. CASE ModelFails(r, f)
  <2>1. /\ child[r][f].pc \in {"load", "analyse", "review"}
        /\ UNCHANGED <<lease, record, others>>
        /\ Goto(r, f, "failing") \/ Goto(r, f, "doubtful")
    BY <1>3 DEF ModelFails
  <2> QED
    BY <2>1, GoesOn DEF Writing, Working
<1>4. CASE ChildDies(r, f)
  <2>1. /\ child[r][f].pc # "none" /\ UNCHANGED <<lease, record, others>>
        /\ End(r, f, "dead")
    BY <1>4 DEF ChildDies
  <2> QED
    BY <2>1, OverSlot DEF Ended
<1> QED
  BY <1>1, <1>2, <1>3, <1>4, BeginLife, ResumeLife, ReopenLife,
     WriteCheckpointLife, RecordCheckpointLife, ReviewLife, AssertCurrentLife,
     PointLife, HandleLife, CloseLife DEF ChildStep

-----------------------------------------------------------------------------
(* The steps of the dispatcher, the consumer and the adoption.             *)

\* Where only the lease and the processes of r change, what the other units
\* rest on is kept.
LEMMA OthersKeep ==
  ASSUME Steady, ~ trampled' => Tidy, NEW r \in Revs, NEW s \in Revs, s # r,
         lease'[s] = lease[s], child'[s] = child[s],
         UNCHANGED <<source, job, latest>>
  PROVE  /\ \A g \in Fences :
              /\ ProcessFits(s, g, child[s][g])'
              /\ PointerFits(s, g, child[s][g])'
              /\ (~ trampled' => RecordFits(s, g, child[s][g], job, latest)')
         /\ OutcomeOK(s)'
         /\ ~ trampled' => CheckpointFits(s, job)' /\ Consumable(s)'
<1>1. ASSUME NEW g \in Fences
      PROVE  /\ ProcessFits(s, g, child[s][g])'
             /\ PointerFits(s, g, child[s][g])'
             /\ (~ trampled' => RecordFits(s, g, child[s][g], job, latest)')
  <2>1. ProcessFits(s, g, child[s][g]) /\ PointerFits(s, g, child[s][g])
        /\ (~ trampled' => RecordFits(s, g, child[s][g], job, latest))
    BY DEF Steady, Tidy
  <2> QED
    BY <2>1 DEF ProcessFits, PointerFits, RecordFits, Holds
<1>2. OutcomeOK(s)'
  BY DEF Steady, OutcomeOK
<1>3. ~ trampled' => CheckpointFits(s, job)' /\ Consumable(s)'
  BY DEF Tidy, CheckpointFits, Consumable
<1> QED
  BY <1>1, <1>2, <1>3

\* A step that changes the lease and the processes of r.
LEMMA LeaseLife ==
  ASSUME LifeInv, NEW r \in Revs,
         \A s \in Revs : s # r => lease'[s] = lease[s] /\ child'[s] = child[s],
         UNCHANGED <<source, record, adopted, adopter>>,
         selected' \subseteq selected,
         \A g \in Fences :
           /\ ProcessFits(r, g, child[r][g])'
           /\ PointerFits(r, g, child[r][g])'
           /\ (~ trampled => RecordFits(r, g, child[r][g], job, latest)'),
         OutcomeOK(r)',
         ~ trampled => CheckpointFits(r, job)' /\ Consumable(r)'
  PROVE  LifeInv'
<1>1. /\ Steady /\ (~ trampled' => Tidy) /\ UNCHANGED <<job, latest, trampled>>
  BY DEF LifeInv, record
<1>2. Steady'
  <2>1. \A s \in Revs, g \in Fences :
          ProcessFits(s, g, child[s][g])' /\ PointerFits(s, g, child[s][g])'
    BY <1>1, OthersKeep
  <2>2. \A s \in Revs : OutcomeOK(s)'
    BY <1>1, OthersKeep
  <2>3. \A s \in selected' : s <= source'
    BY <1>1 DEF Steady
  <2> QED
    BY <2>1, <2>2, <2>3 DEF Steady
<1>3. ASSUME ~ trampled' PROVE Tidy'
  <2>1. \A s \in Revs, g \in Fences :
          RecordFits(s, g, child[s][g], job, latest)'
    BY <1>1, <1>3, OthersKeep
  <2>2. \A s \in Revs : CheckpointFits(s, job)' /\ Consumable(s)'
    BY <1>1, <1>3, OthersKeep
  <2>3. AdoptionOK'
    BY <1>1, <1>3 DEF Tidy, AdoptionOK, Behind, Later
  <2> QED
    BY <2>1, <2>2, <2>3 DEF Tidy
<1> QED
  BY <1>2, <1>3 DEF LifeInv

\* A unit gets its next fence and a process that has done nothing yet.
LEMMA GrantLife ==
  ASSUME TypeInv, LifeInv, NEW r \in Revs, NEW update \in Leases,
         Grant(r, update), lease[r].status # "completed", r <= source,
         update.outcome = lease[r].outcome,
         update.resume => lease[r].resume \/ lease[r].analysed,
         UNCHANGED <<source, record, adopted, adopter>>,
         selected' \subseteq selected
  PROVE  LifeInv'
<1> DEFINE f == lease[r].fence + 1
           file == [update EXCEPT !.fence = f, !.status = "claimed",
                                  !.held = TRUE, !.analysed = FALSE]
           started == [NoChild EXCEPT !.pc = "start", !.resume = update.resume]
           slots == [g \in Fences |-> IF g = f THEN started
                    ELSE IF child[r][g].pc = "dead" THEN NoChild
                    ELSE child[r][g]]
<1>1. /\ f \in Fences /\ lease' = [lease EXCEPT ![r] = file]
      /\ child' = [child EXCEPT ![r] = slots]
  BY DEF Grant, TypeInv, ChildInv
<1>2. /\ file.fence = f /\ file.status = "claimed" /\ ~ file.analysed
      /\ file.resume = update.resume /\ file.outcome = update.outcome
  BY DEF Leases
<1>3. started.pc = "start" /\ started.resume = update.resume
  BY DEF NoChild
<1>4. slots[f] = started
  BY <1>1
<1>5. \A g \in Fences : g # f => slots[g].pc \in {child[r][g].pc, "none"}
                                 /\ slots[g] \in {child[r][g], NoChild}
  BY DEF NoChild
<1> HIDE DEF file, slots, started
<1>6. /\ lease'[r] = file /\ child'[r] = slots
      /\ \A s \in Revs : s # r => lease'[s] = lease[s] /\ child'[s] = child[s]
  BY <1>1 DEF TypeInv, ChildInv
<1>7. UNCHANGED <<source, job, latest, trampled>>
  BY DEF record
<1>8. lease[r].fence \in Nat
  BY DEF TypeInv, Leases, Fences
<1>9. ASSUME NEW g \in Fences
      PROVE  /\ ProcessFits(r, g, child[r][g])'
             /\ PointerFits(r, g, child[r][g])'
             /\ (~ trampled => RecordFits(r, g, child[r][g], job, latest)')
  <2>1. ProcessFits(r, g, child[r][g]) /\ PointerFits(r, g, child[r][g])
    BY DEF LifeInv, Steady
  <2>2. latest = <<r, g>> => g # f
    BY <1>8, <2>1 DEF PointerFits, Fences
  <2>3. latest = <<r, g>> => g <= f
    BY <1>8, <2>1 DEF PointerFits, Fences
  <2>4. CASE g = f
    <3>1. child'[r][g] = started
      BY <1>4, <1>6, <2>4
    <3> HIDE DEF f
    <3> QED
      BY <1>2, <1>3, <1>6, <1>7, <2>2, <2>4, <3>1
         DEF ProcessFits, PointerFits, RecordFits, Holds, Working, Writing
  <2>5. CASE g # f
    <3>1. ~ Holds(r, g)'
      BY <1>2, <1>6, <2>5 DEF Holds
    <3>2. child'[r][g] \in {child[r][g], NoChild}
      BY <1>5, <1>6, <2>5
    <3>3. ProcessFits(r, g, child[r][g])'
      BY <1>7, <2>1, <3>1, <3>2 DEF ProcessFits, NoChild
    <3> HIDE DEF f
    <3> QED
      BY <1>2, <1>6, <1>7, <2>1, <2>3, <3>1, <3>3 DEF PointerFits, RecordFits
  <2> QED
    BY <2>4, <2>5
<1>10. lease[r].outcome = "none"
  BY DEF LifeInv, Steady, OutcomeOK
<1>11. OutcomeOK(r)'
  BY <1>2, <1>6, <1>10 DEF OutcomeOK
<1>12. ~ trampled => CheckpointFits(r, job)' /\ Consumable(r)'
  <2>1. lease'[r].outcome = "none"
    BY <1>2, <1>6, <1>10
  <2>2. ~ trampled => CheckpointFits(r, job)
    BY DEF LifeInv, Tidy
  <2>3. /\ ~ lease'[r].analysed
        /\ lease'[r].resume => lease[r].resume \/ lease[r].analysed
    BY <1>2, <1>6
  <2> QED
    BY <1>7, <2>1, <2>2, <2>3 DEF CheckpointFits, Consumable
<1> QED
  BY <1>6, <1>9, <1>11, <1>12, LeaseLife

LEMMA ClaimLife ==
  ASSUME TypeInv, LifeInv, NEW r \in Revs, Claim(r)
  PROVE  LifeInv'
<1>1. /\ lease[r] \in Leases /\ Grant(r, lease[r])
      /\ lease[r].status # "completed" /\ r <= source
      /\ UNCHANGED <<source, record, adopted, adopter>>
      /\ selected' \subseteq selected
  BY DEF Claim, TypeInv, reader, LifeInv, Steady
<1> QED
  BY <1>1, GrantLife

LEMMA RecoverLife ==
  ASSUME TypeInv, LifeInv, NEW r \in Revs, NEW f \in Fences, Recover(r, f)
  PROVE  LifeInv'
<1> DEFINE update == [lease[r] EXCEPT !.recovered = TRUE,
                                      !.resume = lease[r].analysed]
<1>1. /\ Grant(r, update) /\ lease[r].status # "completed"
      /\ child[r][f].pc = "dead"
      /\ UNCHANGED <<source, record, adopted, adopter, selected>>
  BY DEF Recover, Reaps, Holds, reader
<1>2. r <= source
  BY <1>1 DEF LifeInv, Steady, ProcessFits
<1>3. /\ update \in Leases /\ update.outcome = lease[r].outcome
      /\ update.resume = lease[r].analysed
  BY DEF TypeInv, Leases
<1> HIDE DEF update
<1> QED
  BY <1>1, <1>2, <1>3, GrantLife

\* The worker gives the unit up for now, or for good.
LEMMA ReleaseLife ==
  ASSUME TypeInv, LifeInv, NEW r \in Revs, NEW f \in Fences,
         NEW file \in Leases, lease' = [lease EXCEPT ![r] = file],
         Exit(r, f), Holds(r, f), file.fence = f, file.status # "claimed",
         file.outcome # "none" => file.status = "completed",
         UNCHANGED <<source, record, adopted, adopter, selected>>,
         ~ trampled => /\ file.status # "completed" /\ file.resume =>
                            lease[r].resume \/ lease[r].analysed
                       /\ file.status # "completed" => ~ file.analysed
                                                       \/ lease[r].analysed
                       /\ file.outcome = "published" =>
                            child[r][f].pc = "published"
  PROVE  LifeInv'
<1>1. /\ lease'[r] = file
      /\ \A s \in Revs : s # r => lease'[s] = lease[s]
  BY DEF TypeInv
<1>2. /\ Turns(r, f, NoChild)
      /\ \A s \in Revs : s # r => child'[s] = child[s]
  BY TurnsInto DEF Exit, TypeInv, ChildInv
<1>3. UNCHANGED <<source, job, latest, trampled>>
  BY DEF record
<1>4. ASSUME NEW g \in Fences
      PROVE  /\ ProcessFits(r, g, child[r][g])'
             /\ PointerFits(r, g, child[r][g])'
             /\ (~ trampled => RecordFits(r, g, child[r][g], job, latest)')
  <2>1. ProcessFits(r, g, child[r][g]) /\ PointerFits(r, g, child[r][g])
    BY DEF LifeInv, Steady
  <2>2. ~ Holds(r, g)' /\ lease'[r].fence = lease[r].fence
    BY <1>1 DEF Holds
  <2>3. child'[r][g] \in {child[r][g], NoChild}
    BY <1>2 DEF Turns
  <2>4. ProcessFits(r, g, child[r][g])'
    BY <1>3, <2>1, <2>2, <2>3 DEF ProcessFits, NoChild
  <2> QED
    BY <1>3, <2>1, <2>2, <2>4 DEF PointerFits, RecordFits
<1>5. OutcomeOK(r)'
  BY <1>1 DEF OutcomeOK
<1>6. ASSUME ~ trampled PROVE CheckpointFits(r, job)' /\ Consumable(r)'
  <2>1. CheckpointFits(r, job) /\ RecordFits(r, f, child[r][f], job, latest)
    BY <1>6 DEF LifeInv, Tidy
  <2> QED
    BY <1>1, <1>3, <1>6, <2>1
       DEF CheckpointFits, Consumable, RecordFits, Holds
<1> QED
  BY <1>1, <1>2, <1>4, <1>5, <1>6, LeaseLife

LEMMA RetryWaitLife ==
  ASSUME TypeInv, LifeInv, NEW r \in Revs, NEW f \in Fences, RetryWait(r, f)
  PROVE  LifeInv'
<1> DEFINE file == [lease[r] EXCEPT !.status = "retry_wait", !.held = FALSE,
                                    !.resume = lease[r].analysed]
<1>1. /\ lease' = [lease EXCEPT ![r] = file] /\ Exit(r, f) /\ Holds(r, f)
      /\ UNCHANGED <<source, record, adopted, adopter, selected>>
  BY DEF RetryWait, Reaps, Exit, reader
<1>2. /\ file \in Leases /\ file.status = "retry_wait"
      /\ file.fence = lease[r].fence /\ file.outcome = lease[r].outcome
      /\ file.resume = lease[r].analysed /\ file.analysed = lease[r].analysed
  BY DEF TypeInv, Leases
<1>3. lease[r].outcome = "none" /\ lease[r].fence = f
  BY <1>1 DEF LifeInv, Steady, OutcomeOK, Holds
<1> HIDE DEF file
<1> QED
  BY <1>1, <1>2, <1>3, ReleaseLife

LEMMA PublishTerminalLife ==
  ASSUME TypeInv, LifeInv, NEW r \in Revs, NEW f \in Fences,
         PublishTerminal(r, f)
  PROVE  LifeInv'
<1> DEFINE pc == child[r][f].pc
           outcome == IF pc \in {"published", "flagged"} THEN pc ELSE "failed"
           file == [Idle EXCEPT !.fence = f, !.status = "completed",
                                !.outcome = outcome]
<1>1. /\ lease' = [lease EXCEPT ![r] = file] /\ Exit(r, f) /\ Holds(r, f)
      /\ UNCHANGED <<source, record, adopted, adopter, selected>>
  BY DEF PublishTerminal, Reaps, Exit, reader
<1>2. /\ outcome \in {"published", "flagged", "failed"}
      /\ outcome = "published" => pc = "published"
  OBVIOUS
<1> HIDE DEF outcome
<1>3. /\ file \in Leases /\ file.status = "completed" /\ file.fence = f
      /\ file.outcome = outcome
  BY <1>2 DEF Idle, Leases
<1> HIDE DEF file
<1> QED
  BY <1>1, <1>2, <1>3, ReleaseLife

LEMMA DispatcherDiesLife ==
  ASSUME TypeInv, LifeInv, DispatcherDies
  PROVE  LifeInv'
<1>1. /\ lease' = [r \in Revs |-> [lease[r] EXCEPT !.held = FALSE]]
      /\ child' = [r \in Revs |-> [f \in Fences |->
                    IF child[r][f].pc \in Ended THEN NoChild ELSE child[r][f]]]
      /\ selected' = {} /\ UNCHANGED <<source, record, adopted, adopter>>
  BY DEF DispatcherDies, reader
<1>2. \A r \in Revs : /\ lease'[r].status = lease[r].status
                      /\ lease'[r].fence = lease[r].fence
                      /\ lease'[r].resume = lease[r].resume
                      /\ lease'[r].analysed = lease[r].analysed
                      /\ lease'[r].outcome = lease[r].outcome
  BY <1>1 DEF TypeInv, Leases
<1>3. \A r \in Revs, f \in Fences : child'[r][f] \in {child[r][f], NoChild}
  BY <1>1
<1>4. UNCHANGED <<job, latest, trampled>>
  BY <1>1 DEF record
<1>5. ASSUME NEW r \in Revs, NEW f \in Fences
      PROVE  /\ ProcessFits(r, f, child[r][f])'
             /\ PointerFits(r, f, child[r][f])'
             /\ (~ trampled => RecordFits(r, f, child[r][f], job, latest)')
  <2>1. /\ ProcessFits(r, f, child[r][f]) /\ PointerFits(r, f, child[r][f])
        /\ (~ trampled => RecordFits(r, f, child[r][f], job, latest))
    BY DEF LifeInv, Steady, Tidy
  <2>2. Holds(r, f)' <=> Holds(r, f)
    BY <1>2 DEF Holds
  <2>3. CASE child'[r][f] = child[r][f]
    BY <1>1, <1>2, <1>4, <2>1, <2>2, <2>3
       DEF ProcessFits, PointerFits, RecordFits
  <2>4. CASE child'[r][f] = NoChild
    <3>1. child'[r][f].pc = "none"
      BY <2>4 DEF NoChild
    <3> QED
      BY <1>1, <1>2, <1>4, <2>1, <2>2, <3>1
         DEF ProcessFits, PointerFits, RecordFits, Pointed, Working, Writing,
             Analysing
  <2> QED
    BY <1>3, <2>3, <2>4
<1>6. Steady'
  BY <1>1, <1>2, <1>5 DEF LifeInv, Steady, OutcomeOK
<1>7. ASSUME ~ trampled' PROVE Tidy'
  <2>1. \A r \in Revs : CheckpointFits(r, job)' /\ Consumable(r)'
    BY <1>2, <1>4, <1>7 DEF LifeInv, Tidy, CheckpointFits, Consumable
  <2>2. AdoptionOK'
    BY <1>1, <1>4, <1>7 DEF LifeInv, Tidy, AdoptionOK, Behind, Later
  <2> QED
    BY <1>4, <1>5, <1>7, <2>1, <2>2 DEF Tidy
<1> QED
  BY <1>6, <1>7 DEF LifeInv

\* Nothing the invariant speaks of changes but the capture, the selection and
\* the adoption.
LEMMA AsideLife ==
  ASSUME LifeInv, UNCHANGED <<lease, child, job, latest>>,
         trampled => trampled', source \in Nat, source' \in Nat,
         source <= source', \A r \in selected' : r <= source',
         ~ trampled => AdoptionOK'
  PROVE  LifeInv'
<1>1. Revs \subseteq Nat
  BY DEF Revs
<1>2. Steady'
  BY <1>1 DEF LifeInv, Steady, ProcessFits, PointerFits, OutcomeOK, Holds
<1>3. ASSUME ~ trampled' PROVE Tidy'
  <2>1. \A r \in Revs, f \in Fences :
          RecordFits(r, f, child[r][f], job, latest)'
    <3> TAKE r \in Revs, f \in Fences
    <3>1. RecordFits(r, f, child[r][f], job, latest)
      BY <1>3 DEF LifeInv, Tidy
    <3> QED
      BY <3>1 DEF RecordFits, Holds
  <2>2. \A r \in Revs : CheckpointFits(r, job)' /\ Consumable(r)'
    BY <1>3 DEF LifeInv, Tidy, CheckpointFits, Consumable
  <2> QED
    BY <1>3, <2>1, <2>2 DEF Tidy
<1> QED
  BY <1>2, <1>3 DEF LifeInv

LEMMA ReaderStepLife ==
  ASSUME TypeInv, LifeInv, ReaderStep
  PROVE  LifeInv'
<1>1. source \in Nat /\ (~ trampled => AdoptionOK)
      /\ \A r \in selected : r <= source
  BY DEF LifeInv, Steady, Tidy, TypeInv, CountersInv, Revs
<1>2. ASSUME UNCHANGED <<source, selected, lease, child, latest, trampled, job>>,
             ~ trampled => AdoptionOK'
      PROVE  LifeInv'
  BY <1>1, <1>2, AsideLife
<1>3. ASSUME UNCHANGED <<latest, adopted, adopter>>, ~ trampled
      PROVE  AdoptionOK'
  BY <1>1, <1>3 DEF AdoptionOK, Behind, Later
<1>4. CASE \/ ReadJob \/ Consume \/ CheckAuthority \/ Offer \/ Reread
           \/ ConsumerStops
  BY <1>2, <1>3, <1>4 DEF ReadJob, Consume, CheckAuthority, Offer, Reread,
     ConsumerStops, consuming, unit
<1>5. CASE Rewrite
  <2>1. /\ UNCHANGED <<source, selected, lease, child, latest, adopted, adopter>>
        /\ trampled => trampled'
        /\ ~ trampled' => job' = job
    BY <1>5 DEF Rewrite, consuming, unit
  <2>2. CASE trampled'
    <3>1. Steady'
      BY <2>1 DEF LifeInv, Steady, ProcessFits, PointerFits, OutcomeOK, Holds
    <3> QED
      BY <2>2, <3>1 DEF LifeInv
  <2>3. CASE ~ trampled'
    BY <1>1, <1>3, <2>1, <2>3, AsideLife
  <2> QED
    BY <2>2, <2>3
<1>6. ASSUME NEW p \in Packages, CheckOffer(p) PROVE LifeInv'
  <2>1. /\ UNCHANGED <<source, selected, lease, child, job, latest, trampled>>
        /\ adopter' = p /\ adopted' = adopted /\ latest = p
        /\ p \notin adopted
    BY <1>6 DEF CheckOffer, adopting, unit, record
  <2>2. ASSUME ~ trampled PROVE AdoptionOK'
    <3>1. \A q \in adopted : Later(p, q)
      BY <1>1, <2>1, <2>2 DEF AdoptionOK, Behind
    <3> QED
      BY <1>1, <2>1, <2>2, <3>1 DEF AdoptionOK, Behind, Later
  <2> QED
    BY <1>2, <2>1, <2>2
<1>7. CASE Adopt
  <2>1. /\ UNCHANGED <<source, selected, lease, child, job, latest, trampled>>
        /\ adopter # None /\ adopter' = None
        /\ adopted' = adopted \cup {adopter}
    BY <1>7 DEF Adopt, adopting, unit, record
  <2>2. ASSUME ~ trampled PROVE AdoptionOK'
    BY <1>1, <2>1, <2>2 DEF AdoptionOK, Behind, Later
  <2> QED
    BY <1>2, <2>1, <2>2
<1>8. CASE AdopterDies
  <2>1. /\ UNCHANGED <<source, selected, lease, child, job, latest, trampled>>
        /\ adopter' = None /\ adopted' = adopted
    BY <1>8 DEF AdopterDies, adopting, unit, record
  <2>2. ASSUME ~ trampled PROVE AdoptionOK'
    BY <1>1, <2>1, <2>2 DEF AdoptionOK, Behind, Later
  <2> QED
    BY <1>2, <2>1, <2>2
<1> QED
  BY <1>4, <1>5, <1>6, <1>7, <1>8 DEF ReaderStep

\* The capture before its first scan.
LEMMA LifeInit == PackageInit => LifeInv
<1> SUFFICES ASSUME PackageInit PROVE LifeInv
  OBVIOUS
<1>1. /\ \A r \in Revs : lease[r] = Idle
      /\ \A r \in Revs, f \in Fences : child[r][f] = NoChild
      /\ selected = {} /\ adopted = {} /\ adopter = None /\ latest = <<0, 0>>
  BY DEF PackageInit, None
<1>2. ASSUME NEW r \in Revs, NEW f \in Fences
      PROVE  /\ ProcessFits(r, f, child[r][f])
             /\ PointerFits(r, f, child[r][f])
             /\ RecordFits(r, f, child[r][f], job, latest)
  <2>1. child[r][f].pc = "none" /\ ~ Holds(r, f) /\ latest # <<r, f>>
    BY <1>1 DEF NoChild, Idle, Holds, Revs
  <2> QED
    BY <2>1 DEF ProcessFits, PointerFits, RecordFits
<1>3. ASSUME NEW r \in Revs
      PROVE  OutcomeOK(r) /\ CheckpointFits(r, job) /\ Consumable(r)
  BY <1>1 DEF Idle, OutcomeOK, CheckpointFits, Consumable
<1>4. AdoptionOK
  BY <1>1 DEF AdoptionOK
<1> QED
  BY <1>1, <1>2, <1>3, <1>4 DEF LifeInv, Steady, Tidy

LEMMA LifeStep == TypeInv /\ LifeInv /\ [PackageNext]_vars => LifeInv'
<1> SUFFICES ASSUME TypeInv, LifeInv, [PackageNext]_vars PROVE LifeInv'
  OBVIOUS
<1>1. /\ source \in Nat /\ \A r \in selected : r <= source
      /\ ~ trampled => AdoptionOK
  BY DEF TypeInv, CountersInv, Revs, LifeInv, Steady, Tidy
<1>2. ASSUME UNCHANGED <<lease, child, record, adopted, adopter>>,
             source' \in Nat, source <= source', selected' = selected
      PROVE  LifeInv'
  <2>1. ~ trampled => AdoptionOK'
    BY <1>1, <1>2 DEF AdoptionOK, Behind, Later, record
  <2>2. \A r \in selected' : r <= source'
    <3>1. selected \subseteq Nat
      BY DEF TypeInv, CountersInv, Revs
    <3> QED
      BY <1>1, <1>2, <3>1
  <2> QED
    BY <1>1, <1>2, <2>1, <2>2, AsideLife DEF record
<1>3. CASE UNCHANGED vars
  BY <1>1, <1>2, <1>3 DEF vars, unit, reader
<1>4. ASSUME NEW r \in Revs, Scan(r) PROVE LifeInv'
  <2>1. /\ UNCHANGED <<source, lease, child, record, adopted, adopter>>
        /\ r = source /\ selected' = selected \cup {r}
    BY <1>4 DEF Scan, reader
  <2>2. ~ trampled => AdoptionOK'
    BY <1>1, <2>1 DEF AdoptionOK, Behind, Later, record
  <2> QED
    BY <1>1, <2>1, <2>2, AsideLife DEF record
<1>5. CASE Supersede
  BY <1>1, <1>2, <1>5 DEF Supersede, unit, reader
<1>6. CASE \E r \in Revs, f \in Fences :
             RetryWait(r, f) \/ Recover(r, f) \/ PublishTerminal(r, f)
               \/ ChildStep(r, f)
  BY <1>6, RetryWaitLife, RecoverLife, PublishTerminalLife, ChildStepLife
<1> QED
  BY <1>3, <1>4, <1>5, <1>6, ClaimLife, DispatcherDiesLife, ReaderStepLife
     DEF PackageNext
-----------------------------------------------------------------------------
\* The inductive invariant of the record: as long as no write was lost, the
\* process that holds a lease and has begun finds the record its own and in
\* work, what it knows of its checkpoint is there, and the pointer is not
\* ahead of it once its revision was found current.
THEOREM LifeInvariant == PackageSpec => [](TypeInv /\ LifeInv)
BY TypeInit, TypeStep, LifeInit, LifeStep, PTL DEF PackageSpec

\* For any number of revisions, leases and deaths of the dispatcher: what a
\* unit succeeded with is what the record and the pointer publish, as long as
\* the record is still that unit's and no write was lost (Worker._process,
\* ConcurrentDispatcher._execute).
THEOREM SuccessIsConsumable == PackageSpec => []CompletedIsConsumable
<1>1. LifeInv => CompletedIsConsumable
  BY DEF LifeInv, Tidy, Consumable, CompletedIsConsumable
<1> QED
  BY <1>1, LifeInvariant, PTL

\* A generation told to resume finds its checkpoint in the record, or the
\* record closed with a flagged result (load_analysis_checkpoint,
\* _record_analysis_checkpoint_job).
THEOREM CheckpointIsFound == PackageSpec => []ResumeFindsCheckpoint
<1>1. TypeInv /\ LifeInv => ResumeFindsCheckpoint
  <2> SUFFICES ASSUME TypeInv, LifeInv, NEW r \in Revs, NEW f \in Fences,
                      Holds(r, f), child[r][f].pc = "start",
                      child[r][f].resume, job.rev = r, ~ trampled
               PROVE  Resumes(r) \/ job.status = "succeeded"
    BY DEF ResumeFindsCheckpoint, At
  <2>1. ProcessFits(r, f, child[r][f]) /\ CheckpointFits(r, job)
    BY DEF LifeInv, Steady, Tidy
  <2>2. job.checkpoint /\ job.status # "processing"
    BY <2>1 DEF ProcessFits, CheckpointFits, Holds
  <2>3. job \in Jobs
    <3>1. r # 0
      BY DEF Revs
    <3> QED
      BY <3>1 DEF TypeInv, RecordInv, AnyJob, NoJob
  <2> QED
    BY <2>2, <2>3 DEF Jobs, Resumes
<1> QED
  BY <1>1, LifeInvariant, PTL

\* One step of the package's life moves the pointer and the adoptions forward.
LEMMA StepMovesForward ==
  ASSUME TypeInv, LifeInv, ~ trampled, PackageNext
  PROVE  /\ latest' # latest => Later(latest', latest)
         /\ \A p \in adopted' \ adopted, q \in adopted : Later(p, q)
<1> DEFINE Forward ==
      /\ latest' # latest => Later(latest', latest)
      /\ \A p \in adopted' \ adopted, q \in adopted : Later(p, q)
<1>1. ASSUME UNCHANGED <<latest, adopted>> PROVE Forward
  BY <1>1
<1>2. ASSUME NEW r \in Revs, Scan(r) \/ Claim(r) PROVE Forward
  BY <1>1, <1>2 DEF Scan, Claim, record, reader
<1>3. ASSUME NEW r \in Revs, NEW f \in Fences,
             RetryWait(r, f) \/ Recover(r, f) \/ PublishTerminal(r, f)
      PROVE  Forward
  BY <1>1, <1>3 DEF RetryWait, Recover, PublishTerminal, record, reader
<1>4. ASSUME NEW r \in Revs, NEW f \in Fences, ChildStep(r, f) PROVE Forward
  <2>1. CASE Point(r, f)
    <3>1. adopted' = adopted /\ child[r][f].pc = "point"
      BY <2>1 DEF Point, others, reader, At
    <3>2. CASE Holds(r, f)
      <4>1. latest' = <<r, f>>
        BY <2>1, <3>2 DEF Point, Fenced
      <4> QED
        BY <3>1, <3>2, <4>1, PointAdvances
    <3>3. CASE ~ Holds(r, f)
      <4>1. latest' = latest
        BY <2>1, <3>3 DEF Point, Fenced, record
      <4> QED
        BY <3>1, <4>1
    <3> QED
      BY <3>2, <3>3
  <2>2. CASE ~ Point(r, f)
    <3>1. UNCHANGED <<latest, adopted>>
      BY <1>4, <2>2 DEF ChildStep, Begin, Resume, Reopen, Load, Analyse,
         WriteCheckpoint, RecordCheckpoint, Review, AssertCurrent, ModelFails,
         Handle, Close, ChildDies, Fenced, Store, record, others, reader
    <3> QED
      BY <3>1
  <2> QED
    BY <2>1, <2>2
<1>5. CASE DispatcherDies
  BY <1>1, <1>5 DEF DispatcherDies, record, reader
<1>6. CASE ReaderStep
  <2>1. latest' = latest
    BY <1>6 DEF ReaderStep, ReadJob, Consume, CheckAuthority, Offer, Reread,
       Rewrite, ConsumerStops, CheckOffer, Adopt, AdopterDies, consuming,
       adopting, record
  <2>2. ~ Adopt => adopted' = adopted
    BY <1>6 DEF ReaderStep, ReadJob, Consume, CheckAuthority, Offer, Reread,
       Rewrite, ConsumerStops, CheckOffer, AdopterDies, consuming
  <2>3. Adopt => adopter # None /\ adopted' = adopted \cup {adopter}
    BY DEF Adopt
  <2> QED
    BY <2>1, <2>2, <2>3 DEF LifeInv, Tidy, AdoptionOK
<1>7. CASE Supersede
  BY <1>1, <1>7 DEF Supersede, record, reader
<1> QED
  BY <1>2, <1>3, <1>4, <1>5, <1>6, <1>7 DEF PackageNext

\* As long as no write was lost, packages are only ever superseded by those
\* of newer content or a newer lease, and adopted in that order
\* (_assert_current_candidate_generation, record_adoption).
THEOREM PublicationsAdvance == PackageSpec => PublicationsMoveForward
<1>1. TypeInv /\ LifeInv /\ [PackageNext]_vars =>
        [~ trampled =>
           /\ latest' # latest => Later(latest', latest)
           /\ \A p \in adopted' \ adopted, q \in adopted : Later(p, q)]_vars
  BY StepMovesForward
<1> QED
  BY <1>1, LifeInvariant, PTL DEF PackageSpec, PublicationsMoveForward
=============================================================================
