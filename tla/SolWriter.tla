----------------------------- MODULE SolWriter -----------------------------
(***************************************************************************)
(* The formal writing of lib/subject_sol_contract.py: the current batch of *)
(* a subject's background (Luna) work, the FIFO queue of authorized        *)
(* batches and the one global Sol writer, the fence that keeps the         *)
(* subject's Luna out while it is formally written, conflicts set aside    *)
(* for the user, and the drivers of it all: the dispatch daemon, the       *)
(* nightly command of lib/nightly_sol_alignment.py and the operator's      *)
(* control commands.                                                       *)
(*                                                                         *)
(* An operation of the store holds the file locks it needs from its first  *)
(* read to its last write and is one step.  It replaces two files, though, *)
(* the global state and the subject's writer state (or the subject's batch *)
(* with its pointer and its writer state), and the process may die between *)
(* the two.                                                                *)
(***************************************************************************)
EXTENDS Naturals, FiniteSets, FiniteSetsExt

CONSTANTS
  Subjects,
  Sols,       \* Sol batches, numbered in the order of authorized_at
  Captures,   \* the captures of a batch
  Legacy,     \* subjects whose present batch was made by the v1 release
  None,
  Batches,    \* bound, per subject: its Luna batches
  Tokens,     \* bound: no conflict is answered past this fencing token
  Crashes     \* bound: of crashes

ASSUME SolAssumption ==
  /\ Sols \subseteq Nat \ {0} /\ IsFiniteSet(Captures)
  /\ Legacy \subseteq Subjects /\ None \notin Subjects \cup Captures
  /\ Batches \in [Subjects -> Nat] /\ Tokens \in Nat /\ Crashes \in Nat

VARIABLES
  active,   \* global file: active_writer
  next,     \* global file: next_fencing_token
  entry,    \* global file: the queue's entry of each Sol batch
  counted,  \* global file: formal_write_count, by Sol batch
  writer,   \* the writer file of each subject
  luna,     \* the current batch file of each subject
  archive,  \* the archived batches that are ready for Sol
  lease,    \* the subject's Luna task: its lease
  cont,     \* the conflict continuation receipt of each Sol batch
  formal,   \* the captures whose formal writes were made
  run,      \* the process working on each Sol batch
  crashes   \* processes that died, or could not publish a failed review

globalFile == <<active, next, entry, counted>>
lunaFiles == <<luna, archive, lease>>
outside == <<cont, formal>>
vars == <<globalFile, writer, lunaFiles, outside, run, crashes>>

Free == [sol |-> 0, token |-> 0, status |-> "free"]
NoEntry == [subject |-> None, luna |-> 0, status |-> "absent"]
NoCont == [token |-> 0, capture |-> None]
Idle == [pc |-> "idle", kind |-> "manual", token |-> 0, wrote |-> 0,
         conflict |-> None]

\* What a writer file's batch_id names.
NoBatch == [of |-> "none", id |-> 0]
Luna(n) == [of |-> "luna", id |-> n]
Sol(b) == [of |-> "sol", id |-> b]

Subject(b) == entry[b].subject
Status(b) == entry[b].status
Writer(b) == writer[Subject(b)]
-----------------------------------------------------------------------------
(* Writing the files.                                                      *)

Dies == crashes < Crashes /\ crashes' = crashes + 1

\* The writer file of s, the second file of an operation.
ThenWriter(s, w) ==
  \/ writer' = [writer EXCEPT ![s] = w] /\ UNCHANGED crashes
  \/ UNCHANGED writer /\ Dies

\* The batch file, its pointer and the writer file.  A batch whose pointer
\* names another one, or that has none, cannot be read any more.
WritesBatch(s, batch, w) ==
  \/ luna' = [luna EXCEPT ![s] = batch] /\ ThenWriter(s, w)
  \/ luna' = [luna EXCEPT ![s] = [batch EXCEPT !.state = "torn"]]
     /\ UNCHANGED writer /\ Dies

\* The process of b goes on as r, unless it died.
Becomes(b, r) ==
  run' = [run EXCEPT ![b] = IF crashes' = crashes THEN r ELSE Idle]

Enters(b, status) == entry' = [entry EXCEPT ![b].status = status]
Handoff(s, h) == [writer[s] EXCEPT !.handoff = h]

Init ==
  /\ active = Free /\ next = 1
  /\ entry = [b \in Sols |-> NoEntry]
  /\ counted = [b \in Sols |-> 0]
  /\ writer = [s \in Subjects |->
       [handoff |-> IF s \in Legacy THEN "ready_for_authorization"
                                    ELSE "awaiting_luna",
        batch |-> IF s \in Legacy THEN Luna(0) ELSE NoBatch,
        token |-> 0, commit |-> 0, count |-> 0, blocked |-> FALSE]]
  /\ luna = [s \in Subjects |->
       [n |-> 0, night |-> 0, closed |-> FALSE,
        state |-> IF s \in Legacy THEN "ready" ELSE "none"]]
  /\ archive = [s \in Subjects |-> {}]
  /\ lease = [s \in Subjects |-> "none"]
  /\ cont = [b \in Sols |-> NoCont]
  /\ formal = [b \in Sols |-> {}]
  /\ run = [b \in Sols |-> Idle]
  /\ crashes = 0
-----------------------------------------------------------------------------
(* The dispatch daemon: the subject's Luna batch.                          *)

\* Nothing of the writer file is spoken for.
Vacant(s) == /\ writer[s].handoff = "awaiting_luna"
             /\ writer[s].batch = NoBatch
             /\ ~ writer[s].blocked

\* A current batch is replaced once it was rolled over or acknowledged.
Prepare(s) ==
  /\ luna[s].n < Batches[s]
  /\ \/ luna[s].state = "none"
     \/ luna[s].closed /\ Vacant(s)
  /\ LET n == luna[s].n + 1
     IN  WritesBatch(s, [n |-> n, night |-> 0, closed |-> FALSE, state |-> "open"],
                     [writer[s] EXCEPT !.handoff = "awaiting_luna",
                                       !.batch = Luna(n), !.commit = 0])
  /\ UNCHANGED <<globalFile, archive, lease, outside, run>>

\* The claim is made under the subject lock, which the fence is read under.
Claim(s) ==
  /\ luna[s].state = "open" /\ lease[s] = "none"
  /\ ~ writer[s].blocked
  /\ lease' = [lease EXCEPT ![s] = "claimed"]
  /\ UNCHANGED <<globalFile, writer, luna, archive, outside, run, crashes>>

Complete(s) ==
  /\ lease[s] = "claimed"
  /\ lease' = [lease EXCEPT ![s] = "completed"]
  /\ UNCHANGED <<globalFile, writer, luna, archive, outside, run, crashes>>

\* The batch's last outcome: of a completed task, or of a submit refused.
\* Whatever the writer file holds by then, the Luna batch takes it over.
Record(s, state) ==
  /\ luna[s].state = "open"
  /\ \/ lease[s] = "completed"
     \/ lease[s] = "none" /\ state = "spent"
  /\ lease' = [lease EXCEPT ![s] = "none"]
  /\ WritesBatch(s, [luna[s] EXCEPT !.state = state],
                 [writer[s] EXCEPT !.handoff = IF state = "ready"
                                               THEN "ready_for_authorization"
                                               ELSE "awaiting_luna",
                                   !.batch = Luna(luna[s].n)])
  /\ UNCHANGED <<globalFile, archive, outside, run>>

\* Archives the daemon's terminal batch without a formal write: of itself
\* when the batch is ready, after an operator's acceptance when it is not.
\* Its caller, the daemon, has no nightly batches.
Rollover(s) ==
  /\ luna[s].night = 0
  /\ \A b \in Sols : Subject(b) = s =>
       b # active.sol /\ Status(b) \notin {"queued", "active", "reviewed"}
  /\ \/ luna[s].state = "ready"
        /\ writer[s].handoff = "ready_for_authorization"
        /\ archive' = [archive EXCEPT ![s] = @ \cup {luna[s].n}]
     \/ luna[s].state = "spent" /\ writer[s].handoff = "awaiting_luna"
        /\ UNCHANGED archive
  /\ writer[s].batch = Luna(luna[s].n)
  /\ writer[s].commit = 0 /\ writer[s].count = 0
  /\ luna' = [luna EXCEPT ![s].closed = TRUE]
  /\ writer' = [writer EXCEPT ![s].handoff = "awaiting_luna",
                              ![s].batch = NoBatch, ![s].blocked = FALSE]
  /\ UNCHANGED <<globalFile, lease, outside, run, crashes>>
-----------------------------------------------------------------------------
(* Authorization, and the claim of the writer.                             *)

\* A nightly Sol batch has the name of the Luna batch it admits.
NameFree(b, s) == \A o \in Subjects \ {s} : luna[o].night # b

\* The nightly command makes a ready Luna batch of finished packages; a
\* command run again finds the one it made.
Admit(b, s) ==
  /\ entry[b] = NoEntry /\ run[b] = Idle /\ NameFree(b, s)
  /\ \/ /\ luna[s].state = "none" /\ Vacant(s)
        /\ WritesBatch(s, [n |-> 1, night |-> b, closed |-> FALSE,
                           state |-> "ready"],
                       [writer[s] EXCEPT !.handoff = "ready_for_authorization",
                                         !.batch = Luna(1), !.commit = 0])
     \/ luna[s].night = b /\ luna[s].state # "torn"
        /\ UNCHANGED <<luna, writer, crashes>>
  /\ Becomes(b, [Idle EXCEPT !.pc = "authorize", !.kind = "nightly"])
  /\ UNCHANGED <<globalFile, archive, lease, outside>>

\* Luna batch n of s is the current one, or an archived one that the writer
\* file has no newer batch in the way of.
\* Mutant: an archived batch, whatever the writer file holds.
AuthorizableArchived(s, n) ==
  \/ /\ n = luna[s].n /\ luna[s].state = "ready"
     /\ writer[s].handoff \in {"ready_for_authorization", "awaiting_luna"}
  \/ n \in archive[s] \ {0, luna[s].n} /\ luna[s].state # "torn"

Authorizable(s, n) ==
  \/ /\ n = luna[s].n /\ luna[s].state = "ready"
     /\ writer[s].handoff \in {"ready_for_authorization", "awaiting_luna"}
  \/ /\ n \in archive[s] \ {0, luna[s].n} /\ luna[s].state # "torn"
     /\ writer[s].handoff = "awaiting_luna" /\ writer[s].batch = NoBatch

Authorize(b, s, n) ==
  /\ entry[b] = NoEntry /\ NameFree(b, s)
  /\ Authorizable(s, n)
  /\ entry' = [entry EXCEPT ![b] = [subject |-> s, luna |-> n,
                                    status |-> "queued"]]
  /\ ThenWriter(s, [writer[s] EXCEPT !.handoff = "queued_for_sol",
                                     !.batch = Sol(b)])
  /\ \/ /\ run[b].pc = "authorize" /\ luna[s].night = b /\ n = luna[s].n
        /\ Becomes(b, [run[b] EXCEPT !.pc = "begin"])
     \/ run[b] = Idle /\ UNCHANGED run
  /\ UNCHANGED <<active, next, counted, lunaFiles, outside>>

\* Mutant: any queued batch may go first.
HeadAny(b) == Status(b) = "queued"

Head(b) == /\ Status(b) = "queued"
           /\ \A o \in Sols : Status(o) = "queued" => b <= o

Queued(b) == Writer(b).handoff = "queued_for_sol" /\ Writer(b).batch = Sol(b)

\* Mutant: the queue entry is looked at, not the active writer.
CanBeginBesideWriter(b) == /\ Head(b) /\ Queued(b)
                           /\ lease[Subject(b)] # "claimed"

\* Mutant: the subject's leases are not counted.
CanBeginUncounted(b) == active = Free /\ Head(b) /\ Queued(b)

CanBegin(b) == /\ active = Free /\ Head(b) /\ Queued(b)
               /\ lease[Subject(b)] # "claimed"

\* By the nightly process that queued the batch, or by hand.
Begin(b) ==
  /\ run[b].pc = "begin" \/ run[b] = Idle
  /\ CanBegin(b)
  /\ active' = [sol |-> b, token |-> next, status |-> "reviewing"]
  /\ next' = next + 1
  /\ Enters(b, "active")
  /\ ThenWriter(Subject(b), [Writer(b) EXCEPT !.handoff = "sol_reviewing",
                                              !.token = next,
                                              !.blocked = TRUE])
  /\ Becomes(b, [run[b] EXCEPT !.pc = "execute", !.token = next])
  /\ UNCHANGED <<counted, lunaFiles, outside>>

\* The nightly process ends; the batch stays queued.
BeginRefused(b) ==
  /\ run[b].pc = "begin" /\ ~ CanBegin(b)
  /\ run' = [run EXCEPT ![b] = Idle]
  /\ UNCHANGED <<globalFile, writer, lunaFiles, outside, crashes>>
-----------------------------------------------------------------------------
(* Under the lease: execution, review, apply.  The adapter does not look at *)
(* the lease: a process whose lease was ended by hand writes on, and only  *)
(* its next call of the store is refused.                                  *)

Holds(b) == active.sol = b /\ active.token = run[b].token

\* A resumed run is asked for the conflicted capture alone.
Asked(b) == IF run[b].kind = "resumed" THEN {cont[b].capture} ELSE Captures

Writes(b, W) == formal' = [formal EXCEPT ![b] = @ \cup W]

\* The subject's adapter writes all it is asked for, or (at night) all but
\* a capture in conflict, or fails with any part of it written.
Execute(b) ==
  /\ run[b].pc = "execute"
  /\ \E c \in Asked(b) \cup {None} :
       LET W == Asked(b) \ {c}
       IN  /\ c # None => run[b].kind = "nightly"
           /\ Writes(b, W)
           /\ run' = [run EXCEPT ![b].pc = "review", ![b].conflict = c,
                                 ![b].wrote = Cardinality(W \ formal[b])]
  /\ UNCHANGED <<globalFile, writer, lunaFiles, cont, crashes>>

\* Mutant: an exception of the adapter ends the process.
ExecuteFailsUnhandled(b) ==
  /\ run[b].pc = "execute"
  /\ \E W \in SUBSET Asked(b) : Writes(b, W)
  /\ run' = [run EXCEPT ![b] = Idle]
  /\ UNCHANGED <<globalFile, writer, lunaFiles, cont, crashes>>

ExecuteFails(b) ==
  /\ run[b].pc = "execute"
  /\ \E W \in SUBSET Asked(b) : Writes(b, W)
  /\ run' = [run EXCEPT ![b].pc = "fail"]
  /\ UNCHANGED <<globalFile, writer, lunaFiles, cont, crashes>>

\* Publishing the review or the apply receipt fails.
PublishFails(b) ==
  /\ run[b].pc \in {"review", "apply"}
  /\ run' = [run EXCEPT ![b].pc = "fail"]
  /\ UNCHANGED <<globalFile, writer, lunaFiles, outside, crashes>>

Approve(b) ==
  /\ run[b].pc = "review" /\ Holds(b)
  /\ active' = [active EXCEPT !.status = "applying"]
  /\ Enters(b, "reviewed")
  /\ ThenWriter(Subject(b), Handoff(Subject(b), "sol_reviewed"))
  /\ Becomes(b, [run[b] EXCEPT !.pc = "apply"])
  /\ UNCHANGED <<next, counted, lunaFiles, outside>>

\* A failed review releases the lease; it counts no formal write.
SetsAside(b) ==
  /\ active' = Free
  /\ Enters(b, "safe_paused")
  /\ ThenWriter(Subject(b), Handoff(Subject(b), "safe_paused"))

\* Mutant: the failed review lifts the fence too.
FailReviewUnfences(b) ==
  /\ run[b].pc = "fail" /\ Holds(b)
  /\ active' = Free
  /\ Enters(b, "safe_paused")
  /\ ThenWriter(Subject(b), [Writer(b) EXCEPT !.handoff = "safe_paused",
                                              !.blocked = FALSE])
  /\ Becomes(b, IF run[b].kind = "resumed" THEN [run[b] EXCEPT !.pc = "restore"]
                                           ELSE Idle)
  /\ UNCHANGED <<next, counted, lunaFiles, outside>>

FailReview(b) ==
  /\ run[b].pc = "fail" /\ Holds(b) /\ SetsAside(b)
  /\ Becomes(b, IF run[b].kind = "resumed" THEN [run[b] EXCEPT !.pc = "restore"]
                                           ELSE Idle)
  /\ UNCHANGED <<next, counted, lunaFiles, outside>>

\* An apply receipt that does not match stops the subject's active batch and
\* keeps the lease.  The writer file comes first.
Stops(b) ==
  /\ writer' = [writer EXCEPT ![Subject(b)].handoff = "safe_paused"]
  /\ \/ /\ active' = [active EXCEPT !.status = "safe_paused"]
        /\ Enters(b, "safe_paused")
        /\ UNCHANGED crashes
     \/ UNCHANGED <<active, entry>> /\ Dies

\* The receipt is the process's own or one given by hand.
RejectApply(b) ==
  /\ active.sol = b /\ active.status # "safe_paused"
  /\ Stops(b)
  /\ \/ run[b].pc = "apply" /\ Becomes(b, [run[b] EXCEPT !.pc = "fail"])
     \/ UNCHANGED run
  /\ UNCHANGED <<next, counted, lunaFiles, outside>>

\* Mutant: each receipt counts all the batch has written by then.
AppliedCumulative(b, status, handoff, made) ==
  /\ active' = Free
  /\ Enters(b, status)
  /\ counted' = [counted EXCEPT ![b] = @ + Cardinality(formal[b])]
  /\ ThenWriter(Subject(b), [Writer(b) EXCEPT
                               !.handoff = handoff,
                               !.commit = run[b].token,
                               !.count = @ + Cardinality(formal[b])])

\* The apply receipt: the lease is released and the writes are counted.
Applied(b, status, handoff, made) ==
  /\ active' = Free
  /\ Enters(b, status)
  /\ counted' = [counted EXCEPT ![b] = @ + made]
  /\ ThenWriter(Subject(b), [Writer(b) EXCEPT !.handoff = handoff,
                                              !.commit = run[b].token,
                                              !.count = @ + made])

\* Mutant: a batch with a capture in conflict is finished.
FinishWithConflict(b) ==
  /\ run[b].pc = "apply" /\ Holds(b)
  /\ Applied(b, "committed", "complete", run[b].wrote)
  /\ run' = [run EXCEPT ![b] = Idle]
  /\ UNCHANGED <<next, lunaFiles, outside>>

\* A receipt given by hand may also say that the writer failed or rolled back;
\* such a one counts nothing.
Finish(b) ==
  /\ run[b].pc = "apply" /\ run[b].conflict = None /\ Holds(b)
  /\ \/ Applied(b, "committed", "complete", run[b].wrote)
     \/ /\ run[b].kind = "manual"
        /\ Applied(b, "safe_paused", "safe_paused", 0)
  /\ run' = [run EXCEPT ![b] = Idle]
  /\ UNCHANGED <<next, lunaFiles, outside>>

\* The continuation is published before the two files are written.
PauseForConflict(b) ==
  /\ run[b].pc = "apply" /\ run[b].conflict # None /\ Holds(b)
  /\ cont' = [cont EXCEPT ![b] = [token |-> run[b].token,
                                  capture |-> run[b].conflict]]
  /\ \/ Applied(b, "safe_paused", "safe_paused", run[b].wrote)
     \/ UNCHANGED <<active, entry, counted, writer>> /\ Dies
  /\ run' = [run EXCEPT ![b] = Idle]
  /\ UNCHANGED <<next, lunaFiles, formal>>

\* The lease of the process was ended by hand: its review or apply receipt is
\* refused and it gives up.  Its apply receipt stops whatever batch of its
\* subject is active by then.
Refused(b) ==
  /\ run[b].pc \in {"review", "apply", "fail"} /\ ~ Holds(b)
  /\ IF run[b].pc = "apply" /\ active # Free /\ Subject(active.sol) = Subject(b)
     THEN Stops(active.sol)
     ELSE UNCHANGED <<active, entry, writer, crashes>>
  /\ run' = [run EXCEPT ![b] = Idle]
  /\ UNCHANGED <<next, counted, lunaFiles, outside>>
-----------------------------------------------------------------------------
(* After the lease: the user's answer, the next generation, the operator.  *)

IsPaused(b) == /\ active = Free /\ Status(b) = "safe_paused"
               /\ Writer(b).handoff = "safe_paused" /\ Writer(b).batch = Sol(b)

Resume(b) ==
  /\ next <= Tokens
  /\ run[b] = Idle /\ cont[b] # NoCont
  /\ IsPaused(b) /\ Writer(b).commit = cont[b].token
  /\ Enters(b, "queued")
  /\ ThenWriter(Subject(b), [Writer(b) EXCEPT !.handoff = "queued_for_sol",
                                              !.commit = 0])
  /\ Becomes(b, [Idle EXCEPT !.pc = "begin", !.kind = "resumed"])
  /\ UNCHANGED <<active, next, counted, lunaFiles, outside>>

\* A resumed run that failed puts the receipt of the part that was applied
\* back, so that the user can be asked again; it raises when it may not.
Restore(b) ==
  /\ run[b].pc = "restore"
  /\ writer' = IF IsPaused(b)
               THEN [writer EXCEPT ![Subject(b)].commit = cont[b].token]
               ELSE writer
  /\ run' = [run EXCEPT ![b] = Idle]
  /\ UNCHANGED <<globalFile, lunaFiles, outside, crashes>>

\* The subject's authority moved past the commit: the fence is lifted.  The
\* commit receipt is read by the v1 validator, which refuses any other.
Acknowledge(b) ==
  LET s == Subject(b) IN
  /\ Status(b) = "committed"
  /\ active.sol # 0 => Subject(active.sol) # s
  /\ s \in Legacy /\ entry[b].luna = 0 /\ luna[s].n = 0
  /\ writer[s].handoff = "complete" /\ writer[s].batch = Sol(b)
  /\ writer[s].blocked
  /\ luna' = [luna EXCEPT ![s].closed = TRUE]
  /\ writer' = [writer EXCEPT ![s].handoff = "awaiting_luna",
                              ![s].batch = NoBatch, ![s].blocked = FALSE,
                              ![s].commit = 0]
  /\ UNCHANGED <<globalFile, archive, lease, outside, run, crashes>>

\* A failed review filed by hand ends the lease, of a dead process or of one
\* that is still at work.
Abandon(b) ==
  /\ active.sol = b /\ SetsAside(b)
  /\ UNCHANGED <<next, counted, lunaFiles, outside, run>>

\* The process dies, or the publication of its failed review raises.
Die(b) ==
  /\ run[b] # Idle /\ Dies
  /\ run' = [run EXCEPT ![b] = Idle]
  /\ UNCHANGED <<globalFile, writer, lunaFiles, outside>>
-----------------------------------------------------------------------------
Daemon(s) ==
  \/ Prepare(s) \/ Claim(s) \/ Complete(s) \/ Rollover(s)
  \/ \E state \in {"ready", "spent"} : Record(s, state)

Work(b) ==
  \/ BeginRefused(b) \/ Execute(b) \/ ExecuteFails(b) \/ PublishFails(b)
  \/ Approve(b) \/ FailReview(b) \/ Finish(b) \/ PauseForConflict(b)
  \/ Restore(b) \/ Refused(b)

Command(b) ==
  \/ \E s \in Subjects : Admit(b, s)
  \/ \E s \in Subjects : \E n \in 0..Batches[s] : Authorize(b, s, n)
  \/ Begin(b) \/ Resume(b) \/ Acknowledge(b) \/ Abandon(b)
  \/ RejectApply(b)

Next ==
  \/ \E s \in Subjects : Daemon(s)
  \/ \E b \in Sols : Work(b) \/ Command(b) \/ Die(b)

SolSpec == Init /\ [][Next]_vars

\* A process that has begun goes on, and its adapter ends.
Fairness == \A b \in Sols : WF_vars(Work(b))

FairSolSpec == SolSpec /\ Fairness
-----------------------------------------------------------------------------
Handoffs == {"awaiting_luna", "ready_for_authorization", "queued_for_sol",
             "sol_reviewing", "sol_reviewed", "complete", "safe_paused"}
Statuses == {"absent", "queued", "active", "reviewed", "safe_paused",
             "committed"}
Pcs == {"idle", "authorize", "begin", "execute", "review", "apply", "fail",
        "restore"}
Refs == [of : {"none", "luna", "sol"}, id : Nat]

\* The type of the state.
SolTypeOK ==
  /\ active \in [sol : Sols \cup {0}, token : Nat,
                 status : {"free", "reviewing", "applying", "safe_paused"}]
  /\ next \in Nat \ {0}
  /\ entry \in [Sols -> [subject : Subjects \cup {None}, luna : Nat,
                         status : Statuses]]
  /\ \A b \in Sols : Status(b) # "absent" => Subject(b) \in Subjects
  /\ counted \in [Sols -> Nat]
  /\ writer \in [Subjects -> [handoff : Handoffs, batch : Refs, token : Nat,
                              commit : Nat, count : Nat, blocked : BOOLEAN]]
  /\ luna \in [Subjects -> [n : Nat, night : Nat, closed : BOOLEAN,
                            state : {"none", "open", "ready", "spent", "torn"}]]
  /\ archive \in [Subjects -> SUBSET Nat]
  /\ lease \in [Subjects -> {"none", "claimed", "completed"}]
  /\ cont \in [Sols -> [token : Nat, capture : Captures \cup {None}]]
  /\ formal \in [Sols -> SUBSET Captures]
  /\ run \in [Sols -> [pc : Pcs, kind : {"nightly", "resumed", "manual"},
                       token : Nat, wrote : Nat,
                       conflict : Captures \cup {None}]]
  /\ crashes \in 0..Crashes

AtWork == {"execute", "review", "apply", "fail"}

\* The lease was ended by hand while the process of b was at work.
Evicted(b) == /\ Status(b) = "safe_paused" /\ active.sol # b
              /\ run[b].token < next /\ active.token # run[b].token

\* One batch has the lease, under the newest token, and no other batch of the
\* queue is active or reviewed.  Who executes, reviews or applies holds it, or
\* lost it for good: its batch is set aside and its token an older one.
OneNewestWriter ==
  /\ active # Free => active.token = next - 1
  /\ \A b \in Sols :
       /\ run[b].pc \in AtWork => Holds(b) \/ Evicted(b)
       /\ Status(b) \in {"active", "reviewed"} => active.sol = b

\* No Luna task of a subject runs while the fence of its formal write is up.
LunaNeverFenced ==
  \A s \in Subjects : writer[s].blocked => lease[s] # "claimed"

\* Unless a process died, the head of the queue can begin when the writer is
\* free: the two files agree on it.
HeadCanBegin ==
  crashes = 0 =>
    \A b \in Sols : active = Free /\ Head(b) => CanBegin(b)

\* A committed batch was written whole, by one run or by the run that was
\* stopped at a conflict and the one that was resumed.
CommittedIsWritten ==
  \A b \in Sols : Status(b) = "committed" => formal[b] = Captures

\* No formal write is counted that was not made, or counted twice.
WrittenWhenCounted == \A b \in Sols : counted[b] <= Cardinality(formal[b])

\* A committed batch is counted for all of its captures but at most the one it
\* was resumed for: a resumed run that wrote it and failed counted nothing, and
\* the next one finds it written.  Nothing is counted that was not made, or
\* twice, and unless a process died both files count the same writes.
CountsAllButOne ==
  /\ WrittenWhenCounted
  /\ \A b \in Sols :
       Status(b) = "committed" => counted[b] + 1 >= Cardinality(Captures)
  /\ crashes = 0 => \A s \in Subjects :
       writer[s].count = FoldSet(LAMBDA b, sum : counted[b] + sum, 0,
                                 {b \in Sols : Subject(b) = s})

\* Formal writes are made behind the fence of their subject, those of a process
\* that lost its lease too, unless a process died.
WritesBehindFence ==
  [][\A b \in Sols :
       formal'[b] # formal[b] /\ (Holds(b) \/ crashes = 0) =>
         Writer(b).blocked /\ lease[Subject(b)] # "claimed"]_vars

\* A fence that is up outlasts every pause of its batch and is lifted only
\* after the commit, unless a process died.
FenceOutlastsPause ==
  [][crashes = 0 => \A b \in Sols :
       /\ Status(b) \notin {"absent", "queued", "committed"}
       /\ Writer(b).blocked
       => writer'[Subject(b)].blocked]_vars

\* Every lease is released, unless its process died or could not publish the
\* failed review.
LeaseIsReleased ==
  active.sol # 0 ~> active.sol = 0 \/ crashes > 0

\* A conflict that waits for the user can be answered.
ConflictCanBeAnswered ==
  \A b \in Sols :
    /\ cont[b] # NoCont /\ run[b] = Idle
    /\ Status(b) = "safe_paused"
    => Writer(b).commit = cont[b].token

Stages == [absent |-> "unknown", queued |-> "waiting", committed |-> "done",
           active |-> "aside", reviewed |-> "aside", safe_paused |-> "aside"]

Stage(b) == IF active.sol = b THEN "granted" ELSE Stages[Status(b)]

\* The global file is a first-come, first-served queue for one writer,
\* whatever becomes of the processes and the other files.
Queue == INSTANCE WriterQueue WITH
  Batches <- Sols, stage <- [b \in Sols |-> Stage(b)], fence <- next - 1
ImplementsWriterQueue == Queue!QueueSpec
=============================================================================
