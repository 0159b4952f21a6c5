-------------------------- MODULE SolWriterProofs --------------------------
(***************************************************************************)
(* Theorems about SolWriter, for any subjects, batches, captures and       *)
(* bounds, whichever process dies between whichever two writes: one batch  *)
(* is formally written at a time, behind the fence of its subject, and the *)
(* global file is a first-come, first-served queue.  They follow from what *)
(* the global file says of the batch that holds the writer, and from who   *)
(* is at work on it.  That the two files of an operation agree while no    *)
(* process dies, and that what is committed was written, and is counted    *)
(* but for one capture at most, follow from an account of each batch's     *)
(* entry, writer file, receipts and runs.                                  *)
(***************************************************************************)
EXTENDS SolWriter, FiniteSetTheorems, WellFoundedInduction, TLAPS

-----------------------------------------------------------------------------
(* Sums over finite sets.  FoldSet takes the elements out in an order      *)
(* nobody knows; that a sum does not depend on it follows from a least     *)
(* set for which it would, the strict subsets of a finite set being well   *)
(* founded.                                                                *)

\* The sum of f over S, as FoldSet takes it.
Total(f, S) == FoldSet(LAMBDA b, sum : f[b] + sum, 0, S)

\* The element that FoldSet takes out first.
First(S) == CHOOSE x \in S : TRUE

\* g is the table of sums over the subsets of S that the fold computes from.
IsTable(g, f, S) ==
  g = [T \in SUBSET S |-> IF T = {} THEN 0 ELSE f[First(T)] + g[T \ {First(T)}]]

\* What holds of a subset when it holds of those below it holds of S.
LEMMA SetInduction ==
  ASSUME NEW S, IsFiniteSet(S), NEW Good,
         \A T \in SUBSET S : (\A U \in SUBSET T : U # T => U \in Good) => T \in Good
  PROVE  S \in Good
<1> DEFINE Bad == {T \in SUBSET S : T \notin Good}
<1>1. SUFFICES ASSUME Bad # {} PROVE FALSE
  OBVIOUS
<1>2. IsWellFoundedOn(StrictSubsetOrdering(S), SUBSET S)
  BY FS_StrictSubsetOrderingWellFounded, FS_FiniteSubsetsOfFinite
<1>3. PICK T \in Bad : \A U \in Bad : <<U, T>> \notin StrictSubsetOrdering(S)
  <2> HIDE DEF Bad
  <2>1. Bad \subseteq SUBSET S
    BY DEF Bad
  <2> QED
    BY <1>1, <1>2, <2>1, WFMin
<1>4. \A U \in SUBSET T : U # T => U \in Good
  BY <1>3 DEF StrictSubsetOrdering
<1> QED
  BY <1>3, <1>4

\* The fold reads its value off the table.
LEMMA TotalIsTable ==
  ASSUME NEW f, NEW S
  PROVE  Total(f, S) = (CHOOSE g : IsTable(g, f, S))[S]
BY DEF Total, FoldSet, MapThenFoldSet, IsTable, First

\* A row of the table is the one below it and the element taken out.
LEMMA TableRow ==
  ASSUME NEW f, NEW S, NEW g, IsTable(g, f, S), NEW T \in SUBSET S
  PROVE  /\ T = {} => g[T] = 0
         /\ T # {} => /\ First(T) \in T /\ T \ {First(T)} \in SUBSET T
                      /\ T \ {First(T)} # T
                      /\ g[T] = f[First(T)] + g[T \ {First(T)}]
<1>1. g[T] = IF T = {} THEN 0 ELSE f[First(T)] + g[T \ {First(T)}]
  BY DEF IsTable
<1>2. T # {} => First(T) \in T
  BY DEF First
<1> QED
  BY <1>1, <1>2

\* Two tables agree where both have a row.
LEMMA TablesAgree ==
  ASSUME NEW f, NEW S, NEW T, IsFiniteSet(T), T \subseteq S,
         NEW g, IsTable(g, f, S), NEW h, IsTable(h, f, T)
  PROVE  g[T] = h[T]
<1> DEFINE Good == {U \in SUBSET T : g[U] = h[U]}
<1>1. ASSUME NEW U \in SUBSET T, \A V \in SUBSET U : V # U => V \in Good
      PROVE  U \in Good
  <2>1. U \in SUBSET S
    OBVIOUS
  <2>2. CASE U = {}
    <3>1. g[U] = 0 /\ h[U] = 0
      BY <2>1, <2>2, TableRow
    <3> QED
      BY <3>1
  <2>3. CASE U # {}
    <3> DEFINE x == First(U)
    <3>1. /\ g[U] = f[x] + g[U \ {x}] /\ h[U] = f[x] + h[U \ {x}]
          /\ U \ {x} \in SUBSET U /\ U \ {x} # U
      BY <2>1, <2>3, TableRow
    <3>2. g[U \ {x}] = h[U \ {x}]
      BY <1>1, <3>1
    <3> QED
      BY <3>1, <3>2
  <2> QED
    BY <2>2, <2>3
<1>2. T \in Good
  <2> HIDE DEF Good
  <2> QED
    BY <1>1, SetInduction
<1> QED
  BY <1>2

\* There is a table, made of those of the strict subsets.
LEMMA TableExists ==
  ASSUME NEW f, NEW S, IsFiniteSet(S)
  PROVE  \E g : IsTable(g, f, S)
<1> DEFINE Good == {T \in SUBSET S : \E g : IsTable(g, f, T)}
           Table(T) == CHOOSE g : IsTable(g, f, T)
<1>1. ASSUME NEW T \in SUBSET S, \A U \in SUBSET T : U # T => U \in Good
      PROVE  T \in Good
  <2>1. \A U \in SUBSET T : U # T => IsTable(Table(U), f, U)
    BY <1>1
  <2>2. \A U \in SUBSET T : IsFiniteSet(U)
    BY FS_Subset
  <2> DEFINE below == [U \in SUBSET T |-> Table(U)[U]]
             top == IF T = {} THEN 0 ELSE f[First(T)] + below[T \ {First(T)}]
             g == [U \in SUBSET T |-> IF U = T THEN top ELSE below[U]]
  <2> HIDE DEF Table
  <2>3. ASSUME NEW U \in SUBSET T
        PROVE  g[U] = IF U = {} THEN 0 ELSE f[First(U)] + g[U \ {First(U)}]
    <3> DEFINE x == First(U)
    <3>1. U # {} => x \in U
      BY DEF First
    <3> HIDE DEF x
    <3>2. U # {} => U \ {x} \in SUBSET T /\ U \ {x} # T /\ U \ {x} # U
      BY <3>1
    <3>3. U # {} => g[U \ {x}] = below[U \ {x}]
      BY <3>2
    <3>4. CASE U = T
      BY <3>3, <3>4 DEF x
    <3>5. CASE U # T
      <4>1. g[U] = Table(U)[U] /\ IsTable(Table(U), f, U)
        BY <2>1, <3>5
      <4>2. CASE U = {}
        <5>1. IsTable(Table(U), f, U) /\ U \in SUBSET U
          BY <4>1
        <5>2. U = {} => Table(U)[U] = 0
          BY <5>1, TableRow
        <5> QED
          BY <4>1, <4>2, <5>2
      <4>3. CASE U # {}
        <5>1. Table(U)[U] = f[x] + Table(U)[U \ {x}]
          BY <4>1, <4>3, TableRow DEF x
        <5>2. IsTable(Table(U \ {x}), f, U \ {x}) /\ IsFiniteSet(U \ {x})
          BY <2>1, <2>2, <3>2, <4>3
        <5>3. Table(U)[U \ {x}] = Table(U \ {x})[U \ {x}]
          BY <4>1, <5>2, TablesAgree
        <5>4. below[U \ {x}] = Table(U \ {x})[U \ {x}]
          BY <3>2, <4>3
        <5>5. g[U] = f[x] + g[U \ {x}]
          <6> HIDE DEF g, below
          <6> QED
            BY <4>1, <3>3, <4>3, <5>1, <5>3, <5>4
        <5> QED
          BY <4>3, <5>5 DEF x
      <4> QED
        BY <4>2, <4>3
    <3> QED
      BY <3>4, <3>5
  <2>4. IsTable(g, f, T)
    <3>1. g = [U \in SUBSET T |-> g[U]]
      OBVIOUS
    <3> HIDE DEF g
    <3> QED
      BY <2>3, <3>1 DEF IsTable
  <2> QED
    BY <2>4
<1>2. S \in Good
  <2> HIDE DEF Good
  <2> QED
    BY <1>1, SetInduction
<1> QED
  BY <1>2

\* The fold obeys its definition.
LEMMA TotalUnfolds ==
  ASSUME NEW f, NEW S, IsFiniteSet(S)
  PROVE  /\ S = {} => Total(f, S) = 0
         /\ S # {} => /\ First(S) \in S
                      /\ Total(f, S) = f[First(S)] + Total(f, S \ {First(S)})
<1> DEFINE Table(T) == CHOOSE g : IsTable(g, f, T)
           x == First(S)
<1>1. \A T \in SUBSET S : /\ IsFiniteSet(T) /\ IsTable(Table(T), f, T)
                          /\ Total(f, T) = Table(T)[T]
  BY FS_Subset, TableExists, TotalIsTable
<1> HIDE DEF Table
<1>2. CASE S = {}
  <2>1. IsTable(Table(S), f, S) /\ S \in SUBSET S
    BY <1>1
  <2>2. S = {} => Table(S)[S] = 0
    BY <2>1, TableRow
  <2> QED
    BY <1>1, <1>2, <2>2
<1>3. CASE S # {}
  <2>1. x \in S /\ S \ {x} \in SUBSET S /\ Table(S)[S] = f[x] + Table(S)[S \ {x}]
    BY <1>1, <1>3, TableRow
  <2>2. Table(S)[S \ {x}] = Table(S \ {x})[S \ {x}]
    BY <1>1, <2>1, TablesAgree
  <2> QED
    BY <1>1, <1>3, <2>1, <2>2
<1> QED
  BY <1>2, <1>3

\* The sum of naturals is one, whatever element is taken out first.
LEMMA TotalTakesOut ==
  ASSUME NEW f, NEW S, IsFiniteSet(S), \A x \in S : f[x] \in Nat
  PROVE  /\ Total(f, S) \in Nat
         /\ \A x \in S : Total(f, S) = f[x] + Total(f, S \ {x})
<1> DEFINE Good == {T \in SUBSET S :
                      /\ Total(f, T) \in Nat
                      /\ \A x \in T : Total(f, T) = f[x] + Total(f, T \ {x})}
<1>1. ASSUME NEW T \in SUBSET S, \A U \in SUBSET T : U # T => U \in Good
      PROVE  T \in Good
  <2>1. IsFiniteSet(T)
    BY FS_Subset
  <2>2. CASE T = {}
    <3>1. Total(f, T) = 0
      BY <2>1, <2>2, TotalUnfolds
    <3> QED
      BY <2>2, <3>1
  <2>3. CASE T # {}
    <3> DEFINE y == First(T)
    <3>1. y \in T /\ Total(f, T) = f[y] + Total(f, T \ {y})
      BY <2>1, <2>3, TotalUnfolds
    <3> HIDE DEF y
    <3>2. ASSUME NEW x \in T
          PROVE  /\ T \ {x} \in Good /\ Total(f, T \ {x}) \in Nat /\ f[x] \in Nat
                 /\ \A z \in T \ {x} :
                      Total(f, T \ {x}) = f[z] + Total(f, (T \ {x}) \ {z})
      BY <1>1
    <3>3. ASSUME NEW x \in T, x # y
          PROVE  Total(f, T) = f[x] + Total(f, T \ {x})
      <4> DEFINE rest == Total(f, (T \ {x}) \ {y})
      <4>1. (T \ {y}) \ {x} = (T \ {x}) \ {y}
        OBVIOUS
      <4>2. (T \ {x}) \ {y} \in Good
        BY <1>1, <3>1
      <4>3. rest \in Nat
        BY <4>2
      <4>4. Total(f, T \ {y}) = f[x] + rest /\ Total(f, T \ {x}) = f[y] + rest
        BY <3>1, <3>2, <3>3, <4>1
      <4> HIDE DEF rest
      <4> QED
        BY <3>1, <3>2, <4>3, <4>4
    <3>4. Total(f, T) \in Nat
      BY <3>1, <3>2
    <3> QED
      BY <3>1, <3>3, <3>4
  <2> QED
    BY <2>2, <2>3
<1>2. S \in Good
  <2> HIDE DEF Good
  <2> QED
    BY <1>1, SetInduction
<1> QED
  BY <1>2

\* It depends on f only where it is taken.
LEMMA TotalSame ==
  ASSUME NEW f, NEW g, NEW S, IsFiniteSet(S), \A x \in S : f[x] = g[x]
  PROVE  Total(f, S) = Total(g, S)
<1> DEFINE Good == {T \in SUBSET S : Total(f, T) = Total(g, T)}
<1>1. ASSUME NEW T \in SUBSET S, \A U \in SUBSET T : U # T => U \in Good
      PROVE  T \in Good
  <2>1. IsFiniteSet(T)
    BY FS_Subset
  <2>2. CASE T = {}
    BY <2>1, <2>2, TotalUnfolds
  <2>3. CASE T # {}
    <3> DEFINE y == First(T)
    <3>1. /\ y \in T /\ Total(f, T) = f[y] + Total(f, T \ {y})
          /\ Total(g, T) = g[y] + Total(g, T \ {y})
      BY <2>1, <2>3, TotalUnfolds
    <3> HIDE DEF y
    <3>2. T \ {y} \in Good
      BY <1>1, <3>1
    <3> QED
      BY <3>1, <3>2
  <2> QED
    BY <2>2, <2>3
<1>2. S \in Good
  <2> HIDE DEF Good
  <2> QED
    BY <1>1, SetInduction
<1> QED
  BY <1>2

-----------------------------------------------------------------------------
USE SolAssumption

-----------------------------------------------------------------------------
(* The type of the state.                                                  *)

Leases == [sol : Sols \cup {0}, token : Nat,
           status : {"free", "reviewing", "applying", "safe_paused"}]

Entries == [subject : Subjects \cup {None}, luna : Nat, status : Statuses]

WriterFiles == [handoff : Handoffs, batch : Refs, token : Nat, commit : Nat,
                count : Nat, blocked : BOOLEAN]

LunaFiles == [n : Nat, night : Nat, closed : BOOLEAN,
              state : {"none", "open", "ready", "spent", "torn"}]

Conts == [token : Nat, capture : Captures \cup {None}]

Runs == [pc : Pcs, kind : {"nightly", "resumed", "manual"}, token : Nat,
         wrote : Nat, conflict : Captures \cup {None}]

GlobalType ==
  /\ active \in Leases /\ next \in Nat \ {0}
  /\ entry \in [Sols -> Entries]
  /\ \A b \in Sols : Status(b) # "absent" => Subject(b) \in Subjects
  /\ counted \in [Sols -> Nat]

WriterType ==
  /\ writer \in [Subjects -> WriterFiles]
  /\ crashes \in 0..Crashes

LunaType ==
  /\ luna \in [Subjects -> LunaFiles]
  /\ archive \in [Subjects -> SUBSET Nat]
  /\ lease \in [Subjects -> {"none", "claimed", "completed"}]

OutsideType ==
  /\ cont \in [Sols -> Conts]
  /\ \A b \in Sols : cont[b] = NoCont \/ cont[b].capture \in Captures
  /\ formal \in [Sols -> SUBSET Captures]

\* A run is resumed for the capture its batch was stopped at.
RunType ==
  /\ run \in [Sols -> Runs]
  /\ \A b \in Sols :
       run[b].kind = "resumed" => cont[b].capture \in Captures

TypeInv == GlobalType /\ WriterType /\ LunaType /\ OutsideType /\ RunType

\* The parts give the type that runs check.
LEMMA TypeInvIsTypeOK == TypeInv => SolTypeOK
  BY DEF TypeInv, SolTypeOK, GlobalType, WriterType, LunaType, OutsideType,
         RunType, Leases, Entries, WriterFiles, LunaFiles, Conts, Runs

\* The first state is well typed.
LEMMA InitType == Init => TypeInv
<1> SUFFICES ASSUME Init PROVE TypeInv
  OBVIOUS
<1> USE DEF Init
<1>1. GlobalType
  BY DEF GlobalType, Leases, Entries, Free, NoEntry, Statuses, Status
<1>2. WriterType
  BY DEF WriterType, WriterFiles, Handoffs, Refs, NoBatch, Luna
<1>3. LunaType
  BY DEF LunaType, LunaFiles
<1>4. OutsideType
  BY DEF OutsideType, Conts, NoCont
<1>5. RunType
  BY DEF RunType, Runs, Idle, Pcs
<1> QED
  BY <1>1, <1>2, <1>3, <1>4, <1>5 DEF TypeInv

\* A file replaced by a file, or not when the process died.
LEMMA WriterReplaced ==
  ASSUME WriterType, NEW s \in Subjects, NEW w \in WriterFiles,
         ThenWriter(s, w)
  PROVE  WriterType'
  BY DEF WriterType, ThenWriter, Dies

\* So is a subject's batch, with its writer file.
LEMMA BatchReplaced ==
  ASSUME WriterType, LunaType, NEW s \in Subjects, NEW l \in LunaFiles,
         NEW w \in WriterFiles, WritesBatch(s, l, w)
  PROVE  WriterType' /\ luna' \in [Subjects -> LunaFiles]
<1>1. CASE luna' = [luna EXCEPT ![s] = l] /\ ThenWriter(s, w)
  BY <1>1, WriterReplaced DEF LunaType
<1>2. CASE /\ luna' = [luna EXCEPT ![s] = [l EXCEPT !.state = "torn"]]
           /\ UNCHANGED writer /\ Dies
  BY <1>2 DEF LunaType, LunaFiles, WriterType, Dies
<1> QED
  BY <1>1, <1>2 DEF WritesBatch

\* The process of a batch goes on as another one, or was lost.
LEMMA RunReplaced ==
  ASSUME RunType, NEW b \in Sols, NEW r \in Runs,
         r.kind = "resumed" => cont[b].capture \in Captures,
         \A o \in Sols :
           cont[o].capture \in Captures => cont'[o].capture \in Captures,
         Becomes(b, r) \/ run' = [run EXCEPT ![b] = r]
  PROVE  RunType'
  BY DEF RunType, Becomes, Runs, Idle, Pcs

\* A known batch is given another status.
LEMMA StatusReplaced ==
  ASSUME GlobalType, NEW b \in Sols, NEW st \in Statuses,
         Subject(b) \in Subjects,
         Enters(b, st)
  PROVE  /\ entry' \in [Sols -> Entries]
         /\ \A o \in Sols : Subject(o)' = Subject(o)
         /\ \A o \in Sols : Status(o)' = IF o = b THEN st ELSE Status(o)
         /\ \A o \in Sols : Status(o)' # "absent" => Subject(o)' \in Subjects
<1>1. entry' = [entry EXCEPT ![b] = [entry[b] EXCEPT !.status = st]]
  BY DEF Enters, GlobalType
<1>2. [entry[b] EXCEPT !.status = st] \in Entries
  BY DEF GlobalType, Entries
<1>3. /\ [entry[b] EXCEPT !.status = st].status = st
      /\ [entry[b] EXCEPT !.status = st].subject = entry[b].subject
  BY DEF GlobalType, Entries
<1> QED
  BY <1>1, <1>2, <1>3 DEF GlobalType, Status, Subject

\* Every part of a batch has a size.
LEMMA PartHasSize ==
  ASSUME OutsideType, NEW b \in Sols, NEW W, W \subseteq Asked(b)
  PROVE  Cardinality(W \ formal[b]) \in Nat
<1>1. W \ formal[b] \subseteq Captures \cup {None}
  BY DEF Asked, OutsideType, Conts
<1>2. IsFiniteSet(Captures \cup {None})
  BY FS_AddElement
<1>3. IsFiniteSet(W \ formal[b])
  BY <1>1, <1>2, FS_Subset
<1> QED
  BY <1>3, FS_CardinalityType

\* The daemon's steps keep the type.
LEMMA DaemonType ==
  ASSUME TypeInv, NEW s \in Subjects, Daemon(s) PROVE TypeInv'
<1> USE DEF TypeInv
<1>1. writer[s] \in WriterFiles /\ luna[s] \in LunaFiles
  BY DEF WriterType, LunaType
<1>2. UNCHANGED <<globalFile, outside, run>>
  BY DEF Daemon, Prepare, Claim, Complete, Rollover, Record
<1>3. GlobalType' /\ OutsideType' /\ RunType'
  BY <1>2 DEF GlobalType, OutsideType, RunType, globalFile, outside, Status,
              Subject
<1>4. CASE Prepare(s)
  <2> DEFINE n == luna[s].n + 1
             l == [n |-> n, night |-> 0, closed |-> FALSE, state |-> "open"]
             w == [writer[s] EXCEPT !.handoff = "awaiting_luna",
                                    !.batch = Luna(n), !.commit = 0]
  <2>1. WritesBatch(s, l, w)
    BY <1>4 DEF Prepare
  <2>2. l \in LunaFiles
    BY <1>1 DEF LunaFiles
  <2>3. w \in WriterFiles
    BY <1>1, <2>2 DEF LunaFiles, WriterFiles, Handoffs, Refs, Luna
  <2> HIDE DEF l, w
  <2> QED
    BY <1>3, <1>4, <2>1, <2>2, <2>3, BatchReplaced DEF Prepare, LunaType
<1>5. CASE Claim(s)
  BY <1>3, <1>5 DEF Claim, LunaType, WriterType
<1>6. CASE Complete(s)
  BY <1>3, <1>6 DEF Complete, LunaType, WriterType
<1>7. CASE Rollover(s)
  <2> DEFINE l == [luna[s] EXCEPT !.closed = TRUE]
             w == [writer[s] EXCEPT !.handoff = "awaiting_luna",
                                    !.batch = NoBatch, !.blocked = FALSE]
  <2>1. l \in LunaFiles
    BY <1>1 DEF LunaFiles
  <2>2. w \in WriterFiles
    BY <1>1 DEF WriterFiles, Handoffs, Refs, NoBatch
  <2>3. luna' = [luna EXCEPT ![s] = l]
    BY <1>7 DEF Rollover, LunaType
  <2>4. writer' = [writer EXCEPT ![s] = w]
    BY <1>7 DEF Rollover, WriterType
  <2>5. UNCHANGED <<lease, crashes>> /\
        archive' \in [Subjects -> SUBSET Nat]
    BY <1>1, <1>7 DEF Rollover, LunaType, LunaFiles
  <2> HIDE DEF l, w
  <2> QED
    BY <1>3, <2>1, <2>2, <2>3, <2>4, <2>5 DEF LunaType, WriterType
<1>8. ASSUME NEW state \in {"ready", "spent"}, Record(s, state)
      PROVE  TypeInv'
  <2> DEFINE l == [luna[s] EXCEPT !.state = state]
             w == [writer[s] EXCEPT
                     !.handoff = IF state = "ready"
                                 THEN "ready_for_authorization"
                                 ELSE "awaiting_luna",
                     !.batch = Luna(luna[s].n)]
  <2>1. l \in LunaFiles
    BY <1>1 DEF LunaFiles
  <2>2. w \in WriterFiles
    BY <1>1 DEF WriterFiles, LunaFiles, Handoffs, Refs, Luna
  <2>3. WritesBatch(s, l, w) /\ UNCHANGED archive
        /\ lease' = [lease EXCEPT ![s] = "none"]
    BY <1>8 DEF Record
  <2> HIDE DEF l, w
  <2> QED
    BY <1>3, <2>1, <2>2, <2>3, BatchReplaced DEF LunaType
<1> QED
  BY <1>4, <1>5, <1>6, <1>7, <1>8 DEF Daemon

-----------------------------------------------------------------------------
(* The inductive invariant of the global file.                             *)

\* The batch that holds the writer has begun and is not committed.
Held == {"active", "reviewed", "safe_paused"}

QueueInv ==
  /\ active.sol = 0 => active = Free
  /\ active.sol # 0 => /\ active.token = next - 1 /\ active.token # 0
                       /\ Status(active.sol) \in Held
  /\ \A b \in Sols :
       /\ run[b].pc \in AtWork => run[b].token # 0 /\ (Holds(b) \/ Evicted(b))
       /\ Status(b) \in {"active", "reviewed"} => active.sol = b

\* It says more than the property that runs check.
LEMMA QueueInvSuffices == TypeInv /\ QueueInv => OneNewestWriter
  BY DEF TypeInv, GlobalType, QueueInv, OneNewestWriter, Leases, Free

\* It holds at the start.
LEMMA QueueInvInit == Init => QueueInv
  BY DEF Init, QueueInv, Free, NoEntry, Idle, AtWork, Status, Held, Holds,
     Evicted

\* What a batch that was entered into the queue names is there.
LEMMA Known ==
  ASSUME TypeInv, QueueInv, NEW b \in Sols,
         active.sol = b \/ Status(b) # "absent"
  PROVE  /\ Status(b) # "absent" /\ Subject(b) \in Subjects
         /\ Writer(b) \in WriterFiles
  BY DEF TypeInv, GlobalType, WriterType, QueueInv, Held, Writer

\* The steps of a process that leave the global file alone keep the type.
LEMMA OutsideStepType ==
  ASSUME TypeInv, NEW b \in Sols,
         \/ BeginRefused(b) \/ Execute(b) \/ ExecuteFails(b)
         \/ PublishFails(b) \/ Restore(b) \/ Die(b)
         \/ \E s \in Subjects : Admit(b, s)
  PROVE  TypeInv'
<1> USE DEF TypeInv
<1>1. /\ run[b] \in Runs /\ Idle \in Runs /\ Idle.kind = "manual"
      /\ run[b].kind = "resumed" => cont[b].capture \in Captures
  BY DEF RunType, Runs, Idle, Pcs
<1>2. UNCHANGED globalFile /\ UNCHANGED cont
  BY DEF BeginRefused, Execute, ExecuteFails, PublishFails, Restore, Die,
         Admit, outside
<1>3. GlobalType'
  BY <1>2 DEF GlobalType, globalFile, Status, Subject
<1>4. CASE BeginRefused(b) \/ Die(b)
  <2>1. /\ run' = [run EXCEPT ![b] = Idle]
        /\ UNCHANGED <<writer, lunaFiles, outside>>
    BY <1>4 DEF BeginRefused, Die
  <2>2. RunType'
    BY <1>1, <1>2, <2>1, RunReplaced
  <2>3. WriterType'
    BY <1>4, <2>1 DEF BeginRefused, Die, Dies, WriterType
  <2>4. LunaType'
    BY <2>1 DEF LunaType, lunaFiles
  <2>5. OutsideType'
    BY <2>1 DEF OutsideType, outside
  <2> QED
    BY <1>3, <2>2, <2>3, <2>4, <2>5
<1>5. Asked(b) \subseteq Captures
  BY DEF Asked, RunType
<1>6. ASSUME NEW W, W \subseteq Asked(b), Writes(b, W) PROVE OutsideType'
  BY <1>2, <1>5, <1>6 DEF OutsideType, Writes
<1>7. CASE Execute(b)
  <2>1. PICK c \in Asked(b) \cup {None} :
          /\ Writes(b, Asked(b) \ {c})
          /\ run' = [run EXCEPT ![b].pc = "review", ![b].conflict = c,
               ![b].wrote = Cardinality((Asked(b) \ {c}) \ formal[b])]
    BY <1>7 DEF Execute
  <2> DEFINE k == Cardinality((Asked(b) \ {c}) \ formal[b])
             r == [run[b] EXCEPT !.pc = "review", !.conflict = c, !.wrote = k]
  <2>2. k \in Nat
    BY PartHasSize
  <2>3. run' = [run EXCEPT ![b] = r]
    BY <2>1 DEF RunType
  <2> HIDE DEF k
  <2>4. r \in Runs /\ r.kind = run[b].kind
    BY <1>1, <1>5, <2>2 DEF Runs, Pcs
  <2> HIDE DEF r
  <2>5. RunType'
    BY <1>1, <1>2, <2>3, <2>4, RunReplaced
  <2>6. OutsideType'
    BY <1>6, <2>1
  <2> QED
    BY <1>3, <1>7, <2>5, <2>6 DEF Execute, WriterType, LunaType, lunaFiles
<1>8. CASE ExecuteFails(b) \/ PublishFails(b)
  <2> DEFINE r == [run[b] EXCEPT !.pc = "fail"]
  <2>1. r \in Runs /\ r.kind = run[b].kind
    BY <1>1 DEF Runs, Pcs
  <2>2. run' = [run EXCEPT ![b] = r]
    BY <1>8 DEF ExecuteFails, PublishFails, RunType
  <2> HIDE DEF r
  <2>3. RunType'
    BY <1>1, <1>2, <2>1, <2>2, RunReplaced
  <2>4. OutsideType'
    BY <1>6, <1>8 DEF ExecuteFails, PublishFails, OutsideType, outside
  <2> QED
    BY <1>3, <1>8, <2>3, <2>4
    DEF ExecuteFails, PublishFails, WriterType, LunaType, lunaFiles
<1>9. CASE Restore(b)
  <2>1. RunType'
    BY <1>1, <1>2, <1>9, RunReplaced DEF Restore
  <2>2. WriterType'
    <3>1. CASE IsPaused(b)
      <4> DEFINE s == Subject(b)
                 w == [writer[s] EXCEPT !.commit = cont[b].token]
      <4>1. s \in Subjects
        BY <3>1 DEF IsPaused, GlobalType
      <4>2. w \in WriterFiles
        BY <4>1 DEF WriterType, WriterFiles, OutsideType, Conts
      <4>3. writer' = [writer EXCEPT ![s] = w] /\ UNCHANGED crashes
        BY <1>9, <3>1, <4>1 DEF Restore, WriterType
      <4> HIDE DEF w
      <4> QED
        BY <4>1, <4>2, <4>3 DEF WriterType
    <3> QED
      BY <1>9, <3>1 DEF Restore, WriterType
  <2> QED
    BY <1>3, <1>9, <2>1, <2>2 DEF Restore, LunaType, OutsideType, lunaFiles,
       outside
<1>10. ASSUME NEW s \in Subjects, Admit(b, s) PROVE TypeInv'
  <2> DEFINE r == [Idle EXCEPT !.pc = "authorize", !.kind = "nightly"]
             l == [n |-> 1, night |-> b, closed |-> FALSE, state |-> "ready"]
             w == [writer[s] EXCEPT !.handoff = "ready_for_authorization",
                                    !.batch = Luna(1), !.commit = 0]
  <2>1. r \in Runs /\ r.kind = "nightly"
    BY DEF Runs, Idle, Pcs
  <2>2. l \in LunaFiles
    BY DEF LunaFiles
  <2>3. w \in WriterFiles
    BY DEF WriterType, WriterFiles, Handoffs, Refs, Luna
  <2>4. Becomes(b, r) /\ UNCHANGED <<archive, lease>>
    BY <1>10 DEF Admit
  <2>5. WritesBatch(s, l, w) \/ UNCHANGED <<luna, writer, crashes>>
    BY <1>10 DEF Admit
  <2> HIDE DEF r, l, w
  <2>6. RunType'
    BY <1>2, <2>1, <2>4, RunReplaced
  <2>7. WriterType' /\ luna' \in [Subjects -> LunaFiles]
    BY <2>2, <2>3, <2>5, BatchReplaced DEF WriterType, LunaType
  <2>8. LunaType'
    BY <2>4, <2>7 DEF LunaType
  <2>9. OutsideType'
    BY <1>10 DEF Admit, OutsideType, outside
  <2> QED
    BY <1>3, <2>6, <2>7, <2>8, <2>9
<1> QED
  BY <1>4, <1>7, <1>8, <1>9, <1>10

\* A step that gives the batch's entry another status keeps the type.
LEMMA EntryStepType ==
  ASSUME TypeInv, NEW b \in Sols, Subject(b) \in Subjects,
         NEW st \in Statuses, Enters(b, st),
         active' \in Leases, next' \in Nat \ {0}, counted' \in [Sols -> Nat],
         NEW w \in WriterFiles, ThenWriter(Subject(b), w),
         UNCHANGED lunaFiles, OutsideType', RunType'
  PROVE  TypeInv'
<1>1. GlobalType'
  BY StatusReplaced DEF TypeInv, GlobalType
<1> QED
  BY <1>1, WriterReplaced DEF TypeInv, LunaType, lunaFiles

\* A receipt counts the writes of the run; the batch's entry changes.
LEMMA AppliedType ==
  ASSUME TypeInv, NEW b \in Sols, Subject(b) \in Subjects,
         NEW st \in Statuses, NEW h \in Handoffs, NEW made \in Nat,
         Applied(b, st, h, made),
         UNCHANGED <<next, lunaFiles>>, OutsideType', RunType'
  PROVE  TypeInv'
<1> DEFINE w == [Writer(b) EXCEPT !.handoff = h, !.commit = run[b].token,
                                  !.count = @ + made]
<1>1. Writer(b) \in WriterFiles /\ run[b] \in Runs
  BY DEF TypeInv, WriterType, RunType, Writer
<1>2. w \in WriterFiles
  <2> DEFINE k == Writer(b).count + made
  <2>1. w = [Writer(b) EXCEPT !.handoff = h, !.commit = run[b].token,
                              !.count = k]
    BY <1>1 DEF WriterFiles
  <2>2. k \in Nat /\ run[b].token \in Nat
    BY <1>1 DEF WriterFiles, Runs
  <2> HIDE DEF k, w
  <2> QED
    BY <1>1, <2>1, <2>2 DEF WriterFiles
<1>3. active' \in Leases /\ counted' \in [Sols -> Nat]
  BY <1>1 DEF Applied, Free, Leases, TypeInv, GlobalType
<1>4. Enters(b, st) /\ ThenWriter(Subject(b), w)
  BY DEF Applied
<1> HIDE DEF w
<1> QED
  BY <1>2, <1>3, <1>4, EntryStepType DEF TypeInv, GlobalType

\* A receipt that is refused changes the two files of the active batch.
LEMMA StopsType ==
  ASSUME TypeInv, QueueInv, NEW b \in Sols, active.sol = b, Stops(b),
         UNCHANGED <<next, counted>>
  PROVE  GlobalType' /\ WriterType'
<1> DEFINE w == [Writer(b) EXCEPT !.handoff = "safe_paused"]
<1>1. Subject(b) \in Subjects /\ Writer(b) \in WriterFiles
  BY Known
<1>2. w \in WriterFiles
  BY <1>1 DEF WriterFiles, Handoffs
<1>3. writer' = [writer EXCEPT ![Subject(b)] = w]
  BY <1>1 DEF Stops, TypeInv, WriterType, Writer
<1> HIDE DEF w
<1>4. WriterType'
  BY <1>1, <1>2, <1>3 DEF Stops, Dies, TypeInv, WriterType
<1>5. CASE UNCHANGED <<active, entry>>
  BY <1>4, <1>5 DEF TypeInv, GlobalType, Status, Subject
<1>6. CASE Enters(b, "safe_paused") /\
           active' = [active EXCEPT !.status = "safe_paused"]
  <2>1. active' \in Leases /\ "safe_paused" \in Statuses
    BY <1>6 DEF TypeInv, GlobalType, Leases, Statuses
  <2> QED
    BY <1>1, <1>4, <1>6, <2>1, StatusReplaced DEF TypeInv, GlobalType
<1> QED
  BY <1>5, <1>6 DEF Stops

\* The steps under the lease that write the global file keep the type.
LEMMA LeaseStepType ==
  ASSUME TypeInv, QueueInv, NEW b \in Sols,
         \/ Approve(b) \/ FailReview(b) \/ Abandon(b) \/ RejectApply(b)
         \/ Finish(b) \/ PauseForConflict(b)
  PROVE  TypeInv'
<1>1. active.sol = b
  BY DEF Approve, FailReview, Abandon, RejectApply, Finish, PauseForConflict,
         Holds
<1>2. Subject(b) \in Subjects /\ Writer(b) \in WriterFiles
  BY <1>1, Known
<1>3. /\ run[b] \in Runs /\ Idle \in Runs /\ Idle.kind = "manual"
      /\ run[b].kind = "resumed" => cont[b].capture \in Captures
  BY DEF TypeInv, RunType, Runs, Idle, Pcs
<1>4. \A pc \in Pcs : /\ [run[b] EXCEPT !.pc = pc] \in Runs
                      /\ [run[b] EXCEPT !.pc = pc].kind = run[b].kind
  BY <1>3 DEF Runs
<1>5. \A h \in Handoffs : [Writer(b) EXCEPT !.handoff = h] \in WriterFiles
  BY <1>2 DEF WriterFiles
<1>6. UNCHANGED outside => OutsideType'
  BY DEF TypeInv, OutsideType, outside
<1>7. CASE Approve(b)
  <2> DEFINE r == [run[b] EXCEPT !.pc = "apply"]
             w == Handoff(Subject(b), "sol_reviewed")
  <2>1. r \in Runs /\ r.kind = run[b].kind /\ w \in WriterFiles
    BY <1>4, <1>5 DEF Pcs, Handoffs, Handoff, Writer
  <2>2. /\ Becomes(b, r) /\ ThenWriter(Subject(b), w)
        /\ Enters(b, "reviewed")
        /\ UNCHANGED <<next, counted, lunaFiles, outside>>
    BY <1>7 DEF Approve
  <2>3. active' \in Leases
    BY <1>7 DEF Approve, TypeInv, GlobalType, Leases
  <2> HIDE DEF r, w
  <2>4. RunType'
    BY <1>3, <2>1, <2>2, RunReplaced DEF TypeInv, outside
  <2>5. "reviewed" \in Statuses
    BY DEF Statuses
  <2> QED
    BY <1>2, <1>6, <2>1, <2>2, <2>3, <2>4, <2>5, EntryStepType
    DEF TypeInv, GlobalType
<1>8. CASE FailReview(b) \/ Abandon(b)
  <2> DEFINE r == IF run[b].kind = "resumed"
                  THEN [run[b] EXCEPT !.pc = "restore"] ELSE Idle
             w == Handoff(Subject(b), "safe_paused")
  <2>1. /\ r \in Runs /\ w \in WriterFiles
        /\ r.kind = "resumed" => run[b].kind = "resumed"
    BY <1>3, <1>4, <1>5 DEF Pcs, Handoffs, Handoff, Writer
  <2>2. /\ Becomes(b, r) \/ UNCHANGED run
        /\ ThenWriter(Subject(b), w)
        /\ Enters(b, "safe_paused") /\ active' = Free
        /\ UNCHANGED <<next, counted, lunaFiles, outside>>
    BY <1>8 DEF FailReview, Abandon, SetsAside
  <2> HIDE DEF r, w
  <2>3. RunType'
    BY <1>3, <2>1, <2>2, RunReplaced DEF TypeInv, RunType, outside
  <2>4. "safe_paused" \in Statuses /\ Free \in Leases
    BY DEF Statuses, Free, Leases
  <2> QED
    BY <1>2, <1>6, <2>1, <2>2, <2>3, <2>4, EntryStepType
    DEF TypeInv, GlobalType
<1>9. CASE RejectApply(b)
  <2> DEFINE r == [run[b] EXCEPT !.pc = "fail"]
  <2>1. r \in Runs /\ r.kind = run[b].kind
    BY <1>4 DEF Pcs
  <2>2. Becomes(b, r) \/ UNCHANGED run
    BY <1>9 DEF RejectApply
  <2>3. Stops(b) /\ UNCHANGED <<next, counted, lunaFiles, outside>>
    BY <1>9 DEF RejectApply
  <2> HIDE DEF r
  <2>4. RunType'
    BY <1>3, <2>1, <2>2, <2>3, RunReplaced DEF TypeInv, outside, RunType
  <2>5. GlobalType' /\ WriterType'
    BY <1>1, <2>3, StopsType
  <2> QED
    BY <1>6, <2>3, <2>4, <2>5 DEF TypeInv, LunaType, lunaFiles
<1>10. CASE Finish(b)
  <2>1. RunType'
    BY <1>3, <1>10, RunReplaced DEF Finish, TypeInv, outside
  <2>2. /\ "committed" \in Statuses /\ "complete" \in Handoffs
        /\ "safe_paused" \in Statuses /\ "safe_paused" \in Handoffs
        /\ run[b].wrote \in Nat /\ 0 \in Nat
    BY <1>3 DEF Statuses, Handoffs, Runs
  <2>3. UNCHANGED <<next, lunaFiles, outside>>
        /\ \/ Applied(b, "committed", "complete", run[b].wrote)
           \/ Applied(b, "safe_paused", "safe_paused", 0)
    BY <1>10 DEF Finish
  <2> QED
    BY <1>2, <1>6, <2>1, <2>2, <2>3, AppliedType
<1>11. CASE PauseForConflict(b)
  <2> DEFINE c == [token |-> run[b].token, capture |-> run[b].conflict]
  <2>1. /\ c \in Conts /\ c.capture \in Captures
        /\ cont' = [cont EXCEPT ![b] = c]
    BY <1>3, <1>11 DEF PauseForConflict, Conts, Runs
  <2> HIDE DEF c
  <2>2. /\ OutsideType'
        /\ \A o \in Sols :
             cont[o].capture \in Captures => cont'[o].capture \in Captures
    BY <1>11, <2>1 DEF PauseForConflict, TypeInv, OutsideType
  <2>3. RunType'
    BY <1>3, <1>11, <2>2, RunReplaced DEF PauseForConflict, TypeInv
  <2>4. /\ "safe_paused" \in Statuses /\ "safe_paused" \in Handoffs
        /\ run[b].wrote \in Nat
    BY <1>3 DEF Statuses, Handoffs, Runs
  <2>5. UNCHANGED <<next, lunaFiles>>
    BY <1>11 DEF PauseForConflict
  <2>6. CASE Applied(b, "safe_paused", "safe_paused", run[b].wrote)
    BY <1>2, <2>2, <2>3, <2>4, <2>5, <2>6, AppliedType
  <2>7. CASE UNCHANGED <<active, entry, counted, writer>> /\ Dies
    <3>1. GlobalType'
      BY <2>5, <2>7 DEF TypeInv, GlobalType, Status, Subject
    <3>2. WriterType'
      BY <2>7 DEF Dies, TypeInv, WriterType
    <3>3. LunaType'
      BY <2>5 DEF TypeInv, LunaType, lunaFiles
    <3> QED
      BY <2>2, <2>3, <3>1, <3>2, <3>3 DEF TypeInv
  <2> QED
    BY <1>11, <2>6, <2>7 DEF PauseForConflict
<1> QED
  BY <1>7, <1>8, <1>9, <1>10, <1>11

\* A process that is refused ends, and may stop the batch that is active.
LEMMA RefusedType ==
  ASSUME TypeInv, QueueInv, NEW b \in Sols, Refused(b) PROVE TypeInv'
<1>1. /\ run' = [run EXCEPT ![b] = Idle]
      /\ UNCHANGED <<next, counted, lunaFiles, outside>>
      /\ \/ UNCHANGED <<active, entry, writer, crashes>>
         \/ active # Free /\ Stops(active.sol)
  BY DEF Refused
<1>2. RunType'
  BY <1>1, RunReplaced DEF TypeInv, RunType, Runs, Idle, Pcs, outside
<1>3. GlobalType' /\ WriterType'
  <2>1. CASE UNCHANGED <<active, entry, writer, crashes>>
    BY <1>1, <2>1 DEF TypeInv, GlobalType, WriterType, Status, Subject
  <2>2. CASE active # Free /\ Stops(active.sol)
    <3>1. active.sol \in Sols
      BY <2>2 DEF QueueInv, TypeInv, GlobalType, Leases
    <3> QED
      BY <1>1, <2>2, <3>1, StopsType
  <2> QED
    BY <1>1, <2>1, <2>2
<1> QED
  BY <1>1, <1>2, <1>3 DEF TypeInv, LunaType, OutsideType, lunaFiles, outside

\* The commands that queue, begin, resume and acknowledge keep the type.
LEMMA CommandType ==
  ASSUME TypeInv, QueueInv, NEW b \in Sols,
         \/ \E s \in Subjects : \E n \in 0..Batches[s] : Authorize(b, s, n)
         \/ Begin(b) \/ Resume(b) \/ Acknowledge(b)
  PROVE  TypeInv'
<1>1. /\ run[b] \in Runs /\ Idle \in Runs /\ Idle.kind = "manual"
      /\ run[b].kind = "resumed" => cont[b].capture \in Captures
  BY DEF TypeInv, RunType, Runs, Idle, Pcs
<1>2. UNCHANGED outside => OutsideType'
  BY DEF TypeInv, OutsideType, outside
<1>3. ASSUME NEW s \in Subjects, NEW n \in 0..Batches[s], Authorize(b, s, n)
      PROVE  TypeInv'
  <2> DEFINE r == [run[b] EXCEPT !.pc = "begin"]
             e == [subject |-> s, luna |-> n, status |-> "queued"]
             w == [writer[s] EXCEPT !.handoff = "queued_for_sol",
                                    !.batch = Sol(b)]
  <2>1. r \in Runs /\ r.kind = run[b].kind
    BY <1>1 DEF Runs, Pcs
  <2>2. e \in Entries /\ e.subject = s
    BY DEF Entries, Statuses
  <2>3. w \in WriterFiles
    BY DEF TypeInv, WriterType, WriterFiles, Handoffs, Refs, Sol
  <2>4. entry' = [entry EXCEPT ![b] = e] /\ ThenWriter(s, w)
        /\ UNCHANGED <<active, next, counted, lunaFiles, outside>>
        /\ (Becomes(b, r) \/ UNCHANGED run)
    BY <1>3 DEF Authorize
  <2> HIDE DEF r, e, w
  <2>5. RunType'
    BY <1>1, <2>1, <2>4, RunReplaced DEF TypeInv, RunType, outside
  <2>6. WriterType'
    BY <2>3, <2>4, WriterReplaced DEF TypeInv
  <2>7. GlobalType'
    BY <2>2, <2>4 DEF TypeInv, GlobalType, Status, Subject
  <2> QED
    BY <1>2, <2>4, <2>5, <2>6, <2>7 DEF TypeInv, LunaType, lunaFiles
<1>4. CASE Begin(b)
  <2> DEFINE r == [run[b] EXCEPT !.pc = "execute", !.token = next]
             w == [Writer(b) EXCEPT !.handoff = "sol_reviewing",
                                    !.token = next, !.blocked = TRUE]
  <2>1. Status(b) = "queued"
    BY <1>4 DEF Begin, CanBegin, Head
  <2>2. Subject(b) \in Subjects /\ Writer(b) \in WriterFiles
    BY <2>1, Known
  <2>3. next \in Nat /\ next + 1 \in Nat \ {0}
    BY DEF TypeInv, GlobalType
  <2>4. r \in Runs /\ r.kind = run[b].kind
    BY <1>1, <2>3 DEF Runs, Pcs
  <2>5. w \in WriterFiles
    BY <2>2, <2>3 DEF WriterFiles, Handoffs
  <2>6. active' \in Leases /\ "active" \in Statuses
    BY <1>4, <2>3 DEF Begin, Leases, Statuses
  <2>7. /\ Enters(b, "active") /\ ThenWriter(Subject(b), w)
        /\ Becomes(b, r) /\ next' = next + 1
        /\ UNCHANGED <<counted, lunaFiles, outside>>
    BY <1>4 DEF Begin
  <2> HIDE DEF r, w
  <2>8. RunType'
    BY <1>1, <2>4, <2>7, RunReplaced DEF TypeInv, outside
  <2> QED
    BY <1>2, <2>2, <2>3, <2>5, <2>6, <2>7, <2>8, EntryStepType
    DEF TypeInv, GlobalType
<1>5. CASE Resume(b)
  <2> DEFINE r == [Idle EXCEPT !.pc = "begin", !.kind = "resumed"]
             w == [Writer(b) EXCEPT !.handoff = "queued_for_sol",
                                    !.commit = 0]
  <2>1. Status(b) = "safe_paused" /\ cont[b].capture \in Captures
    BY <1>5 DEF Resume, IsPaused, TypeInv, OutsideType
  <2>2. Subject(b) \in Subjects /\ Writer(b) \in WriterFiles
    BY <2>1, Known
  <2>3. r \in Runs
    BY DEF Runs, Idle, Pcs
  <2>4. w \in WriterFiles
    BY <2>2 DEF WriterFiles, Handoffs
  <2>5. /\ Enters(b, "queued") /\ ThenWriter(Subject(b), w)
        /\ Becomes(b, r)
        /\ UNCHANGED <<active, next, counted, lunaFiles, outside>>
    BY <1>5 DEF Resume
  <2> HIDE DEF r, w
  <2>6. RunType'
    BY <2>1, <2>3, <2>5, RunReplaced DEF TypeInv, outside
  <2>7. "queued" \in Statuses
    BY DEF Statuses
  <2> QED
    BY <1>2, <2>2, <2>4, <2>5, <2>6, <2>7, EntryStepType
    DEF TypeInv, GlobalType
<1>6. CASE Acknowledge(b)
  <2> DEFINE s == Subject(b)
             l == [luna[s] EXCEPT !.closed = TRUE]
             w == [writer[s] EXCEPT !.handoff = "awaiting_luna",
                     !.batch = NoBatch, !.blocked = FALSE, !.commit = 0]
  <2>1. s \in Subjects
    BY <1>6, Known DEF Acknowledge
  <2>1a. luna[s] \in LunaFiles /\ writer[s] \in WriterFiles
    BY <2>1 DEF TypeInv, LunaType, WriterType
  <2>2. l \in LunaFiles
    <3> HIDE DEF s
    <3> QED
      BY <2>1a DEF LunaFiles
  <2>2a. w \in WriterFiles
    <3> HIDE DEF s
    <3> QED
      BY <2>1a DEF WriterFiles, Handoffs, Refs, NoBatch
  <2>3. luna' = [luna EXCEPT ![s] = l]
    BY <1>6, <2>1 DEF Acknowledge, TypeInv, LunaType
  <2>4. writer' = [writer EXCEPT ![s] = w]
    BY <1>6, <2>1 DEF Acknowledge, TypeInv, WriterType
  <2>5. UNCHANGED <<globalFile, archive, lease, outside, run, crashes>>
    BY <1>6 DEF Acknowledge
  <2> HIDE DEF s, l, w
  <2>6. LunaType' /\ WriterType'
    BY <2>1, <2>2, <2>2a, <2>3, <2>4, <2>5 DEF TypeInv, LunaType, WriterType
  <2>7. GlobalType'
    BY <2>5 DEF TypeInv, GlobalType, globalFile, Status, Subject
  <2>8. RunType'
    BY <2>5 DEF TypeInv, RunType, outside
  <2> QED
    BY <1>2, <2>5, <2>6, <2>7, <2>8 DEF TypeInv
<1> QED
  BY <1>3, <1>4, <1>5, <1>6

\* Every step keeps the type.
LEMMA TypeStep == TypeInv /\ QueueInv /\ [Next]_vars => TypeInv'
<1> SUFFICES ASSUME TypeInv, QueueInv, [Next]_vars PROVE TypeInv'
  OBVIOUS
<1>1. CASE UNCHANGED vars
  BY <1>1 DEF vars, globalFile, lunaFiles, outside, TypeInv, GlobalType,
     WriterType, LunaType, OutsideType, RunType, Status, Subject
<1>2. ASSUME NEW s \in Subjects, Daemon(s) PROVE TypeInv'
  BY <1>2, DaemonType
<1>3. ASSUME NEW b \in Sols, Work(b) \/ Command(b) \/ Die(b) PROVE TypeInv'
  BY <1>3, OutsideStepType, LeaseStepType, RefusedType, CommandType
  DEF Work, Command
<1> QED
  BY <1>1, <1>2, <1>3 DEF Next

-----------------------------------------------------------------------------
(* The global file's invariant, step by step.                              *)

\* A process goes on, or ends, and the global file stays as it is.
LEMMA ProcessStep ==
  ASSUME TypeInv, QueueInv, NEW b \in Sols, NEW r,
         UNCHANGED <<active, next, entry>>, run' = [run EXCEPT ![b] = r],
         r.pc \in AtWork => run[b].pc \in AtWork /\ r.token = run[b].token
  PROVE  QueueInv'
  BY DEF QueueInv, TypeInv, RunType, Status, Holds, Evicted

\* The same of a process that may have died.
LEMMA ProcessMoves ==
  ASSUME TypeInv, QueueInv, NEW b \in Sols, NEW r,
         UNCHANGED <<active, next, entry>>, Becomes(b, r),
         r.pc \in AtWork => run[b].pc \in AtWork /\ r.token = run[b].token
  PROVE  QueueInv'
  BY ProcessStep DEF Becomes, Idle, AtWork

\* The batch that has or gets the writer changes, its entry and its process.
\* Whoever lost a lease before has an older token than the one given now.
LEMMA GrantedStep ==
  ASSUME TypeInv, QueueInv, NEW b \in Sols,
         active.sol \in {0, b}, active'.sol \in {0, b},
         \A o \in Sols \ {b} : Status(o)' = Status(o) /\ run'[o] = run[o],
         next' \in {next, next + 1}, active'.token \in {0, next, active.token},
         active'.sol = 0 =>
           active' = Free /\ Status(b)' \notin {"active", "reviewed"},
         active'.sol = b => /\ active'.token = next' - 1 /\ active'.token # 0
                            /\ Status(b)' \in Held,
         run'[b].pc \in AtWork => run'[b].token # 0 /\ (Holds(b)' \/ Evicted(b)')
  PROVE  QueueInv'
<1>1. ASSUME NEW o \in Sols \ {b}
      PROVE  /\ Status(o) \notin {"active", "reviewed"}
             /\ run[o].pc \in AtWork => run[o].token # 0 /\ Evicted(o)
  BY <1>1 DEF QueueInv, Holds
<1>2. \A o \in Sols : run[o].token \in Nat
  BY DEF TypeInv, RunType, Runs
<1>3. next \in Nat
  BY DEF TypeInv, GlobalType
<1>4. ASSUME NEW o \in Sols \ {b}, run'[o].pc \in AtWork
      PROVE  run'[o].token # 0 /\ Evicted(o)'
  <2>1. /\ run'[o] = run[o] /\ run[o].token # 0 /\ Evicted(o)
        /\ Status(o)' = Status(o) /\ active'.sol # o
    BY <1>1, <1>4
  <2>2. run[o].token \in Nat /\ run[o].token < next
        /\ run[o].token # active.token
    BY <1>2, <2>1 DEF Evicted
  <2>3. run[o].token < next' /\ run[o].token # active'.token
    <3> DEFINE t == run[o].token
    <3>1. t \in Nat /\ t # 0 /\ t < next /\ t # active.token
      BY <2>1, <2>2
    <3> HIDE DEF t
    <3>2. t < next' /\ t # active'.token
      BY <1>3, <3>1
    <3> QED
      BY <3>2 DEF t
  <2> QED
    BY <2>1, <2>3 DEF Evicted
<1>5. \A o \in Sols :
        run'[o].pc \in AtWork => run'[o].token # 0 /\ (Holds(o)' \/ Evicted(o)')
  BY <1>4
<1>6. \A o \in Sols : Status(o)' \in {"active", "reviewed"} => active'.sol = o
  BY <1>1
<1> QED
  BY <1>5, <1>6 DEF QueueInv

\* The daemon and the acknowledgement do not write the global file.
LEMMA DaemonStep ==
  ASSUME QueueInv, \/ \E s \in Subjects : Daemon(s)
                   \/ \E b \in Sols : Acknowledge(b)
                   \/ UNCHANGED vars
  PROVE  QueueInv' /\ UNCHANGED <<active, next, entry>>
<1>1. UNCHANGED <<active, next, entry, run>>
  BY DEF Daemon, Prepare, Claim, Complete, Rollover, Record, Acknowledge,
     globalFile, vars
<1> QED
  BY <1>1 DEF QueueInv, Status, Holds, Evicted

\* Nor does what a process does without the lease, or the adapter under it.
LEMMA OutsideStep ==
  ASSUME TypeInv, QueueInv, NEW b \in Sols,
         \/ BeginRefused(b) \/ Execute(b) \/ ExecuteFails(b)
         \/ PublishFails(b) \/ Restore(b) \/ Die(b)
         \/ \E s \in Subjects : Admit(b, s)
  PROVE  QueueInv' /\ UNCHANGED <<active, next, entry>>
<1>1. UNCHANGED <<active, next, entry>>
  BY DEF BeginRefused, Execute, ExecuteFails, PublishFails, Restore, Die,
         Admit, globalFile
<1>2. run[b] \in Runs
  BY DEF TypeInv, RunType
<1>3. CASE BeginRefused(b) \/ Restore(b) \/ Die(b)
  BY <1>1, <1>3, ProcessStep DEF BeginRefused, Restore, Die, Idle, AtWork
<1>4. CASE Execute(b)
  <2>1. PICK c, k : run' = [run EXCEPT
          ![b].pc = "review", ![b].conflict = c, ![b].wrote = k]
    BY <1>4 DEF Execute
  <2> DEFINE r == [run[b] EXCEPT !.pc = "review", !.conflict = c,
                                 !.wrote = k]
  <2>2. run' = [run EXCEPT ![b] = r]
    BY <2>1 DEF TypeInv, RunType
  <2>3. r.token = run[b].token /\ run[b].pc \in AtWork
    BY <1>2, <1>4 DEF Execute, Runs, AtWork
  <2> HIDE DEF r
  <2> QED
    BY <1>1, <2>2, <2>3, ProcessStep
<1>5. CASE ExecuteFails(b) \/ PublishFails(b)
  <2> DEFINE r == [run[b] EXCEPT !.pc = "fail"]
  <2>1. run' = [run EXCEPT ![b] = r]
    BY <1>5 DEF ExecuteFails, PublishFails, TypeInv, RunType
  <2>2. r.token = run[b].token /\ run[b].pc \in AtWork
    BY <1>2, <1>5 DEF ExecuteFails, PublishFails, Runs, AtWork
  <2> HIDE DEF r
  <2> QED
    BY <1>1, <2>1, <2>2, ProcessStep
<1>6. ASSUME NEW s \in Subjects, Admit(b, s) PROVE QueueInv'
  <2> DEFINE r == [Idle EXCEPT !.pc = "authorize", !.kind = "nightly"]
  <2>1. Becomes(b, r)
    BY <1>6 DEF Admit
  <2>2. r.pc \notin AtWork
    BY DEF Idle, AtWork
  <2> HIDE DEF r
  <2> QED
    BY <1>1, <2>1, <2>2, ProcessMoves
<1> QED
  BY <1>1, <1>3, <1>4, <1>5, <1>6

\* The status of a batch is entered.
LEMMA EntersStatus ==
  ASSUME TypeInv, NEW b \in Sols, NEW st, Enters(b, st)
  PROVE  \A o \in Sols : Status(o)' = IF o = b THEN st ELSE Status(o)
<1>1. entry' = [entry EXCEPT ![b] = [entry[b] EXCEPT !.status = st]]
  BY DEF Enters, TypeInv, GlobalType
<1>2. [entry[b] EXCEPT !.status = st].status = st
  BY DEF TypeInv, GlobalType, Entries
<1> QED
  BY <1>1, <1>2 DEF TypeInv, GlobalType, Status

\* A batch is begun by nobody else while one holds the writer.
LEMMA BeginStep ==
  ASSUME TypeInv, QueueInv, NEW b \in Sols, Begin(b)
  PROVE  QueueInv'
<1> DEFINE r == IF crashes' = crashes
                THEN [run[b] EXCEPT !.pc = "execute", !.token = next]
                ELSE Idle
<1>1. /\ active = Free /\ active' = [sol |-> b, token |-> next,
                                     status |-> "reviewing"]
      /\ next' = next + 1 /\ Enters(b, "active")
  BY DEF Begin, CanBegin
<1>2. run' = [run EXCEPT ![b] = r]
  BY DEF Begin, Becomes
<1>3. r.pc \in AtWork => r.token = next
  BY DEF Idle, AtWork, TypeInv, RunType, Runs
<1>4. /\ active.sol = 0 /\ active'.sol = b /\ active'.token = next
      /\ active'.token = next' - 1 /\ next # 0
  BY <1>1 DEF Free, TypeInv, GlobalType
<1>5. "active" \in Held /\ b # 0
  BY DEF Held
<1>6. \A o \in Sols : Status(o)' = IF o = b THEN "active" ELSE Status(o)
  BY <1>1, EntersStatus
<1>7. \A o \in Sols : run'[o] = IF o = b THEN r ELSE run[o]
  BY <1>2 DEF TypeInv, RunType
<1>8. run'[b].pc \in AtWork => run'[b].token # 0 /\ Holds(b)'
  <2> HIDE DEF r
  <2> QED
    BY <1>3, <1>4, <1>7 DEF Holds
<1> HIDE DEF r
<1> QED
  BY <1>1, <1>4, <1>5, <1>6, <1>7, <1>8, GrantedStep

\* Approval keeps the writer.
LEMMA ApproveStep ==
  ASSUME TypeInv, QueueInv, NEW b \in Sols, Approve(b)
  PROVE  QueueInv'
<1> DEFINE r == IF crashes' = crashes THEN [run[b] EXCEPT !.pc = "apply"]
                                      ELSE Idle
<1>1. /\ active' = [active EXCEPT !.status = "applying"] /\ next' = next
      /\ Enters(b, "reviewed") /\ active.sol = b
      /\ active.token = run[b].token
  BY DEF Approve, Holds
<1>2. run' = [run EXCEPT ![b] = r]
  BY DEF Approve, Becomes
<1>3. r.pc \in AtWork => r.token = run[b].token
  BY DEF Idle, AtWork, TypeInv, RunType, Runs
<1>4. active'.sol = b /\ active'.token = active.token
  BY <1>1 DEF TypeInv, GlobalType, Leases
<1>5. /\ active.token = next' - 1 /\ active.token # 0
      /\ "reviewed" \in Held /\ b # 0
  BY <1>1 DEF QueueInv, Held
<1>6. \A o \in Sols : Status(o)' = IF o = b THEN "reviewed" ELSE Status(o)
  BY <1>1, EntersStatus
<1>7. \A o \in Sols : run'[o] = IF o = b THEN r ELSE run[o]
  BY <1>2 DEF TypeInv, RunType
<1>8. run'[b].pc \in AtWork => run'[b].token # 0 /\ Holds(b)'
  <2> HIDE DEF r
  <2> QED
    BY <1>1, <1>3, <1>4, <1>5, <1>7 DEF Holds
<1> HIDE DEF r
<1> QED
  BY <1>1, <1>4, <1>5, <1>6, <1>7, <1>8, GrantedStep

\* A receipt that is refused leaves the writer with the active batch, whose
\* process o may be or not: another's may have sent the receipt.
LEMMA StopStep ==
  ASSUME TypeInv, QueueInv, NEW b \in Sols, active.sol = b, Stops(b),
         next' = next, NEW o \in Sols, NEW r, run' = [run EXCEPT ![o] = r],
         r.pc \in AtWork => run[o].pc \in AtWork /\ r.token = run[o].token
  PROVE  QueueInv'
<1>1. CASE UNCHANGED <<active, entry>>
  BY <1>1, ProcessStep
<1>2. CASE active' = [active EXCEPT !.status = "safe_paused"] /\
           Enters(b, "safe_paused")
  <2>1. active'.sol = b /\ active'.token = active.token /\ b # 0
    BY <1>2 DEF TypeInv, GlobalType, Leases
  <2>2. /\ active.token = next' - 1 /\ active.token # 0
        /\ "safe_paused" \in Held
    BY <2>1 DEF QueueInv, Held
  <2>3. \A p \in Sols :
          Status(p)' = IF p = b THEN "safe_paused" ELSE Status(p)
    BY <1>2, EntersStatus
  <2>4. \A p \in Sols : run'[p].pc \in AtWork =>
          run[p].pc \in AtWork /\ run'[p].token = run[p].token
    BY DEF TypeInv, RunType
  <2>5. ASSUME NEW p \in Sols, run'[p].pc \in AtWork
        PROVE  run'[p].token # 0 /\ (Holds(p)' \/ Evicted(p)')
    <3>1. /\ run[p].token # 0 /\ run'[p].token = run[p].token
          /\ Holds(p) \/ Evicted(p)
      BY <2>4, <2>5 DEF QueueInv
    <3> QED
      BY <2>1, <2>3, <3>1 DEF Holds, Evicted
  <2>6. \A p \in Sols : Status(p)' \in {"active", "reviewed"} => active'.sol = p
    BY <2>1, <2>3 DEF QueueInv
  <2> QED
    BY <2>1, <2>2, <2>3, <2>5, <2>6 DEF QueueInv
<1> QED
  BY <1>1, <1>2 DEF Stops

\* A rejected receipt keeps the writer.
LEMMA RejectStep ==
  ASSUME TypeInv, QueueInv, NEW b \in Sols, RejectApply(b)
  PROVE  QueueInv'
<1> DEFINE r == [run[b] EXCEPT !.pc = "fail"]
<1>1. r.token = run[b].token /\ Idle.pc \notin AtWork
  BY DEF Idle, AtWork, TypeInv, RunType, Runs
<1>2. \/ run[b].pc = "apply" /\
         (run' = [run EXCEPT ![b] = r] \/ run' = [run EXCEPT ![b] = Idle])
      \/ run' = [run EXCEPT ![b] = run[b]]
  BY DEF RejectApply, Becomes, TypeInv, RunType
<1>3. active.sol = b /\ Stops(b) /\ next' = next
  BY DEF RejectApply
<1>4. "apply" \in AtWork
  BY DEF AtWork
<1> HIDE DEF r
<1> QED
  BY <1>1, <1>2, <1>3, <1>4, StopStep

\* So does the receipt of a process that lost the writer.
LEMMA RefusedStep ==
  ASSUME TypeInv, QueueInv, NEW b \in Sols, Refused(b)
  PROVE  QueueInv'
<1>1. run' = [run EXCEPT ![b] = Idle] /\ Idle.pc \notin AtWork /\ next' = next
  BY DEF Refused, Idle, AtWork
<1>2. CASE UNCHANGED <<active, entry>>
  BY <1>1, <1>2, ProcessStep
<1>3. CASE active # Free /\ Stops(active.sol)
  <2>1. active.sol \in Sols
    BY <1>3 DEF QueueInv, TypeInv, GlobalType, Leases
  <2> QED
    BY <1>1, <1>3, <2>1, StopStep
<1> QED
  BY <1>2, <1>3 DEF Refused

\* The writer is given up: by a process that ends or only restores, or over
\* the head of one that is still at work and is evicted.
LEMMA ReleaseStep ==
  ASSUME TypeInv, QueueInv, NEW b \in Sols, active.sol \in {0, b},
         active' = Free, next' = next, NEW st, Enters(b, st),
         st \notin {"active", "reviewed"},
         \/ UNCHANGED run /\ active.sol = b /\ st = "safe_paused"
         \/ \E r : /\ r.pc \notin AtWork
                   /\ Becomes(b, r) \/ run' = [run EXCEPT ![b] = r]
  PROVE  QueueInv'
<1>1. \A o \in Sols : Status(o)' = IF o = b THEN st ELSE Status(o)
  BY EntersStatus
<1>2. active'.sol = 0 /\ active'.token = 0 /\ b # 0 /\ Idle.pc \notin AtWork
  BY DEF Free, Idle, AtWork
<1>3. CASE UNCHANGED run /\ active.sol = b /\ st = "safe_paused"
  <2>1. ASSUME run'[b].pc \in AtWork
        PROVE  run'[b].token # 0 /\ Evicted(b)'
    <3>1. run[b].token # 0 /\ Holds(b) /\ run'[b] = run[b]
      BY <1>3, <2>1 DEF QueueInv, Evicted
    <3>2. active.token = next - 1 /\ next \in Nat /\ active.token \in Nat
      BY <1>2, <1>3 DEF QueueInv, TypeInv, GlobalType, Leases
    <3>3. run[b].token < next
      BY <3>1, <3>2 DEF Holds
    <3>4. Status(b)' = "safe_paused"
      BY <1>1, <1>3
    <3> QED
      BY <1>2, <3>1, <3>3, <3>4 DEF Evicted
  <2> QED
    BY <1>1, <1>2, <1>3, <2>1, GrantedStep
<1>4. ASSUME NEW r, r.pc \notin AtWork,
             Becomes(b, r) \/ run' = [run EXCEPT ![b] = r]
      PROVE  QueueInv'
  <2>1. run' = [run EXCEPT ![b] = r] \/ run' = [run EXCEPT ![b] = Idle]
    BY <1>4 DEF Becomes
  <2>2. \A o \in Sols \ {b} : run'[o] = run[o]
    BY <2>1 DEF TypeInv, RunType
  <2>3. run'[b].pc \notin AtWork
    BY <1>2, <1>4, <2>1 DEF TypeInv, RunType
  <2> QED
    BY <1>1, <1>2, <2>2, <2>3, GrantedStep
<1> QED
  BY <1>3, <1>4

\* A new batch is queued whoever holds the writer.
LEMMA AuthorizeStep ==
  ASSUME TypeInv, QueueInv, NEW b \in Sols, NEW s \in Subjects,
         NEW n \in 0..Batches[s], Authorize(b, s, n)
  PROVE  /\ QueueInv' /\ Status(b) = "absent"
         /\ \A o \in Sols : Status(o)' = IF o = b THEN "queued" ELSE Status(o)
<1>1. /\ Status(b) = "absent" /\ UNCHANGED <<active, next>>
      /\ \A o \in Sols : Status(o)' = IF o = b THEN "queued" ELSE Status(o)
  BY DEF Authorize, NoEntry, Status, TypeInv, GlobalType
<1>2. active.sol # b
  BY <1>1 DEF QueueInv, Held
<1>3. \A o \in Sols : run'[o].pc \in AtWork => run'[o] = run[o]
  <2> DEFINE r == [run[b] EXCEPT !.pc = "begin"]
  <2>1. r.pc \notin AtWork /\ Idle.pc \notin AtWork
    BY DEF Idle, AtWork, TypeInv, RunType, Runs
  <2>2. \/ run' = [run EXCEPT ![b] = r] \/ run' = [run EXCEPT ![b] = Idle]
        \/ UNCHANGED run
    BY DEF Authorize, Becomes
  <2> HIDE DEF r
  <2> QED
    BY <2>1, <2>2 DEF TypeInv, RunType
<1>4. active.sol \in Sols \cup {0}
  BY DEF TypeInv, GlobalType, Leases
<1>5. ASSUME NEW o \in Sols, run'[o].pc \in AtWork
      PROVE  run'[o].token # 0 /\ (Holds(o)' \/ Evicted(o)')
  <2>1. run'[o] = run[o] /\ run[o].token # 0 /\ (Holds(o) \/ Evicted(o))
    BY <1>3, <1>5 DEF QueueInv
  <2>2. Evicted(o) => Status(o)' = Status(o)
    BY <1>1 DEF Evicted
  <2> QED
    BY <1>1, <2>1, <2>2 DEF Holds, Evicted
<1> QED
  BY <1>1, <1>2, <1>4, <1>5 DEF QueueInv, Held

-----------------------------------------------------------------------------
(* The queue: every step of the code is one of its steps, or a stutter.    *)

Staged == [b \in Sols |-> Stage(b)]

\* What the stage of a batch is.
LEMMA StageIs ==
  ASSUME TypeInv, QueueInv, NEW b \in Sols
  PROVE  /\ active.sol = b => Stage(b) = "granted"
         /\ active.sol # b =>
              /\ Stage(b) # "granted"
              /\ Status(b) = "absent" => Stage(b) = "unknown"
              /\ Status(b) = "queued" <=> Stage(b) = "waiting"
              /\ Status(b) = "committed" => Stage(b) = "done"
              /\ Status(b) \in Held => Stage(b) = "aside"
<1>1. Status(b) \in Statuses
  BY DEF TypeInv, GlobalType, Entries, Status
<1> QED
  BY <1>1 DEF Stage, Stages, Status, Statuses, Held

\* A step that concerns one batch moves it alone.
LEMMA OneMoves ==
  ASSUME NEW b \in Sols,
         \A o \in Sols \ {b} :
           Status(o)' = Status(o) /\ (active'.sol = o <=> active.sol = o)
  PROVE  Queue!Move(b, Stage(b), Stage(b)')
<1>1. \A o \in Sols \ {b} : Stage(o)' = Stage(o)
  BY DEF Stage, Status
<1> QED
  BY <1>1 DEF Queue!Move

\* A step that leaves the global file alone leaves the queue alone.
LEMMA QueueStutters ==
  ASSUME UNCHANGED <<active, next, entry>> PROVE UNCHANGED Queue!queueVars
<1>1. \A o \in Sols : Stage(o)' = Stage(o)
  BY DEF Stage, Status
<1> QED
  BY <1>1 DEF Queue!queueVars

\* Begin grants the writer to the head of the queue, under the next token.
LEMMA BeginGrants ==
  ASSUME TypeInv, QueueInv, TypeInv', QueueInv', NEW b \in Sols, Begin(b)
  PROVE  Queue!Grant(b)
<1>1. /\ active.sol = 0 /\ active'.sol = b /\ next' = next + 1
      /\ Status(b) = "queued"
      /\ \A o \in Sols : Status(o) = "queued" => b <= o
      /\ \A o \in Sols \ {b} : Status(o)' = Status(o)
  BY EntersStatus DEF Begin, CanBegin, Head, Free
<1>2. Stage(b) = "waiting" /\ Stage(b)' = "granted"
  BY <1>1, StageIs DEF Stage, Status
<1>3. Queue!Move(b, "waiting", "granted")
  BY <1>1, <1>2, OneMoves
<1>4. Queue!NoneGranted
  BY <1>1, StageIs DEF Queue!NoneGranted
<1>5. \A o \in Sols : Stage(o) = "waiting" => b <= o
  BY <1>1, StageIs
<1>6. next' - 1 = (next - 1) + 1
  BY <1>1 DEF TypeInv, GlobalType
<1> QED
  BY <1>3, <1>4, <1>5, <1>6 DEF Queue!Grant

\* The end of a lease gives the writer up, for good or aside.
LEMMA ReleaseGivesUp ==
  ASSUME TypeInv, QueueInv, NEW b \in Sols, active.sol = b, active' = Free,
         next' = next,
         \/ Enters(b, "safe_paused") \/ Enters(b, "committed")
  PROVE  Queue!GiveUp(b, "aside") \/ Queue!GiveUp(b, "done")
<1>1. /\ active'.sol = 0 /\ b # 0
      /\ \A o \in Sols \ {b} : Status(o)' = Status(o)
      /\ Status(b)' \in {"safe_paused", "committed"}
  BY EntersStatus DEF Free
<1>2. Stage(b) = "granted" /\ Stage(b)' \in {"aside", "done"}
  BY <1>1 DEF Stage, Stages, Status
<1>3. Queue!Move(b, Stage(b), Stage(b)')
  BY <1>1, OneMoves
<1> QED
  BY <1>2, <1>3 DEF Queue!GiveUp

\* Every other step of a batch that holds the writer leaves it granted.
LEMMA HeldStays ==
  ASSUME NEW b \in Sols, active.sol = b, active'.sol = b, next' = next,
         \A o \in Sols \ {b} : Status(o)' = Status(o)
  PROVE  UNCHANGED Queue!queueVars
<1>1. \A o \in Sols : Stage(o)' = Stage(o)
  BY DEF Stage, Status
<1> QED
  BY <1>1 DEF Queue!queueVars

\* A step of the model is one of the queue, and keeps what holds of it.
Simulated == QueueInv' /\ [Queue!QueueNext]_Queue!queueVars

\* Every step of every process, torn ones included, is one of the queue.
LEMMA DetailedStep ==
  ASSUME TypeInv, QueueInv, TypeInv', [Next]_vars PROVE Simulated
<1>1. ASSUME UNCHANGED <<active, next, entry>>, QueueInv' PROVE Simulated
  BY <1>1, QueueStutters DEF Simulated
<1>2. CASE \/ \E s \in Subjects : Daemon(s)
           \/ \E b \in Sols : Acknowledge(b)
           \/ UNCHANGED vars
  BY <1>1, <1>2, DaemonStep
<1>3. ASSUME NEW b \in Sols,
             \/ BeginRefused(b) \/ Execute(b) \/ ExecuteFails(b)
             \/ PublishFails(b) \/ Restore(b) \/ Die(b)
             \/ \E s \in Subjects : Admit(b, s)
      PROVE  Simulated
  BY <1>1, <1>3, OutsideStep
<1>4. ASSUME NEW b \in Sols, NEW s \in Subjects, NEW n \in 0..Batches[s],
             Authorize(b, s, n)
      PROVE  Simulated
  <2>1. /\ QueueInv' /\ Status(b) = "absent" /\ Status(b)' = "queued"
        /\ \A o \in Sols \ {b} : Status(o)' = Status(o)
    BY <1>4, AuthorizeStep
  <2>2. UNCHANGED <<active, next>> /\ active.sol # b
    BY <1>4, <2>1 DEF Authorize, QueueInv, Held
  <2>3. Stage(b) = "unknown" /\ Stage(b)' = "waiting"
    BY <2>1, <2>2 DEF Stage, Stages, Status
  <2>4. Queue!Move(b, "unknown", "waiting")
    BY <2>1, <2>2, <2>3, OneMoves
  <2> QED
    BY <2>1, <2>2, <2>4 DEF Simulated, Queue!QueueNext, Queue!Enter
<1>5. ASSUME NEW b \in Sols, Begin(b) PROVE Simulated
  BY <1>5, BeginStep, BeginGrants DEF Simulated, Queue!QueueNext
<1>6. ASSUME NEW b \in Sols, Approve(b) PROVE Simulated
  <2>1. /\ active.sol = b /\ active'.sol = b /\ next' = next
        /\ \A o \in Sols \ {b} : Status(o)' = Status(o)
    BY <1>6, EntersStatus
    DEF Approve, Holds, TypeInv, GlobalType, Leases
  <2> QED
    BY <1>6, <2>1, ApproveStep, HeldStays DEF Simulated
<1>7. ASSUME NEW b \in Sols, active.sol = b, Stops(b), next' = next, QueueInv'
      PROVE  Simulated
  <2>1. /\ active'.sol = b
        /\ \A o \in Sols \ {b} : Status(o)' = Status(o)
    BY <1>7, EntersStatus DEF Stops, TypeInv, GlobalType, Leases, Status
  <2> QED
    BY <1>7, <2>1, HeldStays DEF Simulated
<1>7a. ASSUME NEW b \in Sols, RejectApply(b) PROVE Simulated
  BY <1>7, <1>7a, RejectStep DEF RejectApply
<1>7b. ASSUME NEW b \in Sols, Refused(b) PROVE Simulated
  <2>1. QueueInv' /\ next' = next
    BY <1>7b, RefusedStep DEF Refused
  <2>2. CASE UNCHANGED <<active, entry>>
    BY <1>1, <2>1, <2>2
  <2>3. CASE active # Free /\ Stops(active.sol)
    <3>1. active.sol \in Sols
      BY <2>3 DEF QueueInv, TypeInv, GlobalType, Leases
    <3> QED
      BY <1>7, <2>1, <2>3, <3>1
  <2> QED
    BY <1>7b, <2>2, <2>3 DEF Refused
<1>8. ASSUME NEW b \in Sols, active.sol = b, active' = Free, next' = next,
             NEW st \in {"safe_paused", "committed"}, Enters(b, st),
             \/ UNCHANGED run /\ st = "safe_paused"
             \/ \E r : /\ r.pc \notin AtWork
                       /\ Becomes(b, r) \/ run' = [run EXCEPT ![b] = r]
      PROVE  Simulated
  <2>1. QueueInv'
    BY <1>8, ReleaseStep
  <2> QED
    BY <1>8, <2>1, ReleaseGivesUp DEF Simulated, Queue!QueueNext
<1>9. Idle.pc \notin AtWork
  BY DEF Idle, AtWork
<1>10. ASSUME NEW b \in Sols, FailReview(b) PROVE Simulated
  <2> DEFINE r == IF run[b].kind = "resumed"
                  THEN [run[b] EXCEPT !.pc = "restore"] ELSE Idle
  <2>1. r.pc \notin AtWork
    BY <1>9 DEF AtWork, TypeInv, RunType, Runs
  <2>2. /\ active.sol = b /\ active' = Free /\ next' = next
        /\ Enters(b, "safe_paused") /\ Becomes(b, r)
    BY <1>10 DEF FailReview, SetsAside, Holds
  <2> HIDE DEF r
  <2> QED
    BY <1>8, <2>1, <2>2
<1>10a. ASSUME NEW b \in Sols, Abandon(b) PROVE Simulated
  BY <1>8, <1>10a DEF Abandon, SetsAside
<1>11. ASSUME NEW b \in Sols, Finish(b) PROVE Simulated
  BY <1>8, <1>9, <1>11 DEF Finish, Applied, Holds
<1>12. ASSUME NEW b \in Sols, PauseForConflict(b) PROVE Simulated
  <2>1. /\ active.sol = b /\ next' = next
        /\ run' = [run EXCEPT ![b] = Idle]
    BY <1>12 DEF PauseForConflict, Holds
  <2>2. CASE UNCHANGED <<active, entry>>
    BY <1>1, <1>9, <2>1, <2>2, ProcessStep
  <2>3. CASE active' = Free /\ Enters(b, "safe_paused")
    BY <1>8, <1>9, <2>1, <2>3
  <2> QED
    BY <1>12, <2>2, <2>3 DEF PauseForConflict, Applied
<1>13. ASSUME NEW b \in Sols, Resume(b) PROVE Simulated
  <2> DEFINE r == [Idle EXCEPT !.pc = "begin", !.kind = "resumed"]
  <2>1. r.pc \notin AtWork
    BY DEF AtWork, Idle
  <2>2. /\ active = Free /\ active' = Free /\ next' = next
        /\ Status(b) = "safe_paused" /\ Enters(b, "queued")
        /\ Becomes(b, r) /\ active.sol = 0
    BY <1>13 DEF Resume, IsPaused, Free
  <2> HIDE DEF r
  <2>3. QueueInv'
    BY <2>1, <2>2, ReleaseStep
  <2>4. /\ Status(b)' = "queued"
        /\ \A o \in Sols \ {b} : Status(o)' = Status(o)
    BY <2>2, EntersStatus
  <2>5. Stage(b) = "aside" /\ Stage(b)' = "waiting"
    BY <2>2, <2>4 DEF Stage, Stages, Status
  <2>6. Queue!Move(b, "aside", "waiting")
    BY <2>2, <2>4, <2>5, OneMoves
  <2>7. Queue!NoneGranted
    BY <2>2, StageIs DEF Queue!NoneGranted
  <2> QED
    BY <2>2, <2>3, <2>6, <2>7 DEF Simulated, Queue!QueueNext, Queue!Return
<1> QED
  BY <1>2, <1>3, <1>4, <1>5, <1>6, <1>7a, <1>7b, <1>10, <1>10a, <1>11, <1>12,
     <1>13
  DEF Next, Work, Command

-----------------------------------------------------------------------------
(* The fence.                                                              *)

FenceInv ==
  /\ LunaNeverFenced
  /\ \A b \in Sols : run[b].pc = "execute" /\ Holds(b) => Writer(b).blocked

\* No fence is up at the start.
LEMMA FenceInit == Init => FenceInv
  BY DEF Init, FenceInv, LunaNeverFenced, Idle

\* A process that begins no execution and leaves the fences as they are.
LEMMA FenceStays ==
  ASSUME TypeInv, QueueInv, FenceInv,
         \A s \in Subjects :
           /\ writer'[s].blocked = writer[s].blocked
           /\ lease'[s] = "claimed" => lease[s] = "claimed",
         active'.sol # 0 =>
           active'.sol = active.sol /\ active'.token = active.token,
         \A b \in Sols : run'[b].pc = "execute" =>
           /\ run[b].pc = "execute" /\ run'[b].token = run[b].token
           /\ Subject(b)' = Subject(b)
  PROVE  FenceInv'
<1>1. ASSUME NEW b \in Sols, run'[b].pc = "execute", Holds(b)'
      PROVE  Writer(b)'.blocked
  <2>1. run[b].pc = "execute" /\ Holds(b) /\ Subject(b)' = Subject(b)
    BY <1>1 DEF Holds
  <2>2. Subject(b) \in Subjects /\ Writer(b).blocked
    BY <2>1, Known DEF FenceInv, Holds
  <2> QED
    BY <2>1, <2>2 DEF Writer
<1> QED
  BY <1>1 DEF FenceInv, LunaNeverFenced

\* A writer file with another handoff, batch, commit or count.
LEMMA FileKeepsFence ==
  ASSUME TypeInv, NEW s \in Subjects, NEW w, w.blocked = writer[s].blocked,
         ThenWriter(s, w) \/ writer' = [writer EXCEPT ![s] = w]
         \/ writer' = writer
  PROVE  \A o \in Subjects : writer'[o].blocked = writer[o].blocked
  BY DEF ThenWriter, TypeInv, WriterType

\* The process of a batch goes on somewhere else than to execution.
LEMMA RunLeaves ==
  ASSUME TypeInv, NEW b \in Sols, NEW r, r.pc # "execute",
         Becomes(b, r) \/ run' = [run EXCEPT ![b] = r]
  PROVE  \A o \in Sols : run'[o].pc = "execute" => o # b /\ run'[o] = run[o]
  BY DEF Becomes, Idle, TypeInv, RunType

\* The subject a batch was authorized for is entered once.
LEMMA SubjectKept ==
  ASSUME TypeInv, NEW b \in Sols, NEW st, Enters(b, st)
  PROVE  \A o \in Sols : Subject(o)' = Subject(o)
<1>1. entry' = [entry EXCEPT ![b] = [entry[b] EXCEPT !.status = st]]
  BY DEF Enters, TypeInv, GlobalType
<1>2. [entry[b] EXCEPT !.status = st].subject = entry[b].subject
  BY DEF TypeInv, GlobalType, Entries
<1> QED
  BY <1>1, <1>2 DEF TypeInv, GlobalType, Subject

\* The daemon claims no fenced subject and lifts no fence of a batch at work.
LEMMA DaemonFence ==
  ASSUME TypeInv, QueueInv, FenceInv, NEW s \in Subjects, Daemon(s)
  PROVE  FenceInv'
<1>1. /\ UNCHANGED <<active, entry, run>>
      /\ \A b \in Sols : Subject(b)' = Subject(b) /\ Holds(b)' = Holds(b)
  BY DEF Daemon, Prepare, Claim, Complete, Rollover, Record, globalFile,
     Subject, Holds
<1>2. writer[s] \in WriterFiles
  BY DEF TypeInv, WriterType
<1>3. CASE Prepare(s)
  <2> DEFINE w == [writer[s] EXCEPT !.handoff = "awaiting_luna",
                     !.batch = Luna(luna[s].n + 1), !.commit = 0]
  <2>1. w.blocked = writer[s].blocked
    BY <1>2 DEF WriterFiles
  <2>2. (ThenWriter(s, w) \/ UNCHANGED writer) /\ UNCHANGED lease
    BY <1>3 DEF Prepare, WritesBatch
  <2> HIDE DEF w
  <2> QED
    BY <1>1, <2>1, <2>2, FileKeepsFence, FenceStays
<1>4. CASE Claim(s)
  BY <1>1, <1>4 DEF Claim, FenceInv, LunaNeverFenced, Writer, TypeInv, LunaType
<1>5. CASE Complete(s)
  BY <1>1, <1>5, FenceStays DEF Complete, TypeInv, LunaType
<1>6. ASSUME NEW state \in {"ready", "spent"}, Record(s, state)
      PROVE  FenceInv'
  <2> DEFINE w == [writer[s] EXCEPT
                     !.handoff = IF state = "ready"
                                 THEN "ready_for_authorization"
                                 ELSE "awaiting_luna",
                     !.batch = Luna(luna[s].n)]
  <2>1. w.blocked = writer[s].blocked
    BY <1>2 DEF WriterFiles
  <2>2. /\ ThenWriter(s, w) \/ UNCHANGED writer
        /\ lease' = [lease EXCEPT ![s] = "none"]
    BY <1>6 DEF Record, WritesBatch
  <2> HIDE DEF w
  <2> QED
    BY <1>1, <2>1, <2>2, FileKeepsFence, FenceStays DEF TypeInv, LunaType
<1>7. CASE Rollover(s)
  <2>1. /\ ~ writer'[s].blocked /\ UNCHANGED lease
        /\ \A o \in Subjects \ {s} : writer'[o] = writer[o]
    BY <1>2, <1>7 DEF Rollover, TypeInv, WriterType, WriterFiles
  <2>2. \A b \in Sols : Holds(b) => Subject(b) \in Subjects \ {s}
    BY <1>7, Known DEF Rollover, Holds
  <2> QED
    BY <1>1, <2>1, <2>2 DEF FenceInv, LunaNeverFenced, Writer
<1> QED
  BY <1>3, <1>4, <1>5, <1>6, <1>7 DEF Daemon

\* Nor does a process without the lease, or the adapter.
LEMMA OutsideFence ==
  ASSUME TypeInv, QueueInv, FenceInv, NEW b \in Sols,
         \/ BeginRefused(b) \/ Execute(b) \/ ExecuteFails(b)
         \/ PublishFails(b) \/ Restore(b) \/ Die(b)
         \/ \E s \in Subjects : Admit(b, s)
  PROVE  FenceInv'
<1>1. /\ UNCHANGED <<active, entry, lease>>
      /\ \A o \in Sols : Subject(o)' = Subject(o)
  BY DEF BeginRefused, Execute, ExecuteFails, PublishFails, Restore, Die,
         Admit, globalFile, lunaFiles, Subject
<1>2. PICK r : /\ Becomes(b, r) \/ run' = [run EXCEPT ![b] = r]
               /\ r.pc # "execute"
  <2>1. Idle.pc # "execute"
    BY DEF Idle
  <2>2. CASE BeginRefused(b) \/ Restore(b) \/ Die(b)
    BY <2>1, <2>2 DEF BeginRefused, Restore, Die
  <2>3. CASE Execute(b)
    <3>1. PICK c, k : run' = [run EXCEPT
            ![b].pc = "review", ![b].conflict = c, ![b].wrote = k]
      BY <2>3 DEF Execute
    <3> DEFINE r == [run[b] EXCEPT !.pc = "review", !.conflict = c,
                                   !.wrote = k]
    <3>2. run' = [run EXCEPT ![b] = r] /\ r.pc # "execute"
      BY <3>1 DEF TypeInv, RunType, Runs
    <3> HIDE DEF r
    <3> QED
      BY <3>2
  <2>4. CASE ExecuteFails(b) \/ PublishFails(b)
    <3> DEFINE r == [run[b] EXCEPT !.pc = "fail"]
    <3>1. run' = [run EXCEPT ![b] = r] /\ r.pc # "execute"
      BY <2>4 DEF ExecuteFails, PublishFails, TypeInv, RunType, Runs
    <3> HIDE DEF r
    <3> QED
      BY <3>1
  <2>5. ASSUME NEW s \in Subjects, Admit(b, s)
        PROVE  \E r : Becomes(b, r) /\ r.pc # "execute"
    <3> DEFINE r == [Idle EXCEPT !.pc = "authorize", !.kind = "nightly"]
    <3>1. Becomes(b, r) /\ r.pc # "execute"
      BY <2>5 DEF Admit, Idle
    <3> HIDE DEF r
    <3> QED
      BY <3>1
  <2> QED
    BY <2>2, <2>3, <2>4, <2>5
<1>3. \A o \in Sols : run'[o].pc = "execute" => run'[o] = run[o]
  BY <1>2, RunLeaves
<1>4. \A o \in Subjects : writer'[o].blocked = writer[o].blocked
  <2>1. CASE UNCHANGED writer
    BY <2>1
  <2>2. CASE Restore(b)
    <3> DEFINE s == Subject(b)
               w == [writer[s] EXCEPT !.commit = cont[b].token]
    <3>1. CASE IsPaused(b)
      <4>1. s \in Subjects
        BY <3>1, Known DEF IsPaused
      <4>2. writer' = [writer EXCEPT ![s] = w] /\ w.blocked = writer[s].blocked
        BY <2>2, <3>1, <4>1 DEF Restore, TypeInv, WriterType, WriterFiles
      <4> HIDE DEF w
      <4> QED
        BY <4>1, <4>2, FileKeepsFence
    <3> QED
      BY <2>2, <3>1 DEF Restore
  <2>3. ASSUME NEW s \in Subjects, Admit(b, s)
        PROVE  \A o \in Subjects : writer'[o].blocked = writer[o].blocked
    <3> DEFINE w == [writer[s] EXCEPT !.handoff = "ready_for_authorization",
                                      !.batch = Luna(1), !.commit = 0]
    <3>1. w.blocked = writer[s].blocked
      BY DEF TypeInv, WriterType, WriterFiles
    <3>2. ThenWriter(s, w) \/ UNCHANGED writer
      BY <2>3 DEF Admit, WritesBatch
    <3> HIDE DEF w
    <3> QED
      BY <3>1, <3>2, FileKeepsFence
  <2> QED
    BY <2>1, <2>2, <2>3
    DEF BeginRefused, Execute, ExecuteFails, PublishFails, Die
<1> QED
  BY <1>1, <1>3, <1>4, FenceStays

\* A receipt that is refused keeps the fence.
LEMMA StopsFence ==
  ASSUME TypeInv, QueueInv, FenceInv, NEW b \in Sols, active.sol = b, Stops(b),
         UNCHANGED lease,
         \A o \in Sols : run'[o].pc = "execute" => run'[o] = run[o]
  PROVE  FenceInv'
<1> DEFINE w == [Writer(b) EXCEPT !.handoff = "safe_paused"]
<1>1. Subject(b) \in Subjects /\ Writer(b) \in WriterFiles
  BY Known
<1>2. w.blocked = writer[Subject(b)].blocked
  BY <1>1 DEF WriterFiles, Writer
<1>3. writer' = [writer EXCEPT ![Subject(b)] = w]
  BY <1>1 DEF Stops, TypeInv, WriterType, Writer
<1> HIDE DEF w
<1>4. \A o \in Subjects : writer'[o].blocked = writer[o].blocked
  BY <1>1, <1>2, <1>3, FileKeepsFence
<1>5. \A o \in Sols : Subject(o)' = Subject(o)
  BY SubjectKept DEF Stops, Subject
<1>6. active'.sol = active.sol /\ active'.token = active.token
  BY DEF Stops, TypeInv, GlobalType, Leases
<1> QED
  BY <1>4, <1>5, <1>6, FenceStays

\* A step under the lease keeps the fence and begins no execution; nor does
\* one of a process that lost the lease.
LEMMA LeaseFence ==
  ASSUME TypeInv, QueueInv, FenceInv, NEW b \in Sols,
         \/ Approve(b) \/ FailReview(b) \/ Abandon(b) \/ RejectApply(b)
         \/ Finish(b) \/ PauseForConflict(b) \/ Refused(b)
  PROVE  FenceInv'
<1> DEFINE kept == \A o \in Subjects : writer'[o].blocked = writer[o].blocked
<1>1. UNCHANGED lease
  BY DEF Approve, FailReview, Abandon, RejectApply, Finish, PauseForConflict,
         Refused, lunaFiles
<1>2. ASSUME active.sol = b
      PROVE  Subject(b) \in Subjects /\ Writer(b) \in WriterFiles
  BY <1>2, Known
<1>3. Idle.pc # "execute"
      /\ \A pc \in Pcs : [run[b] EXCEPT !.pc = pc].pc = pc
  BY DEF Idle, TypeInv, RunType, Runs
<1>4. ASSUME ~ Refused(b) PROVE \A o \in Sols : Subject(o)' = Subject(o)
  BY <1>4, SubjectKept
  DEF Approve, FailReview, Abandon, SetsAside, RejectApply, Stops, Finish,
      PauseForConflict, Applied, Subject
<1>5. ASSUME active.sol = b, NEW h \in Handoffs,
             ThenWriter(Subject(b), Handoff(Subject(b), h))
      PROVE  kept
  <2> DEFINE w == Handoff(Subject(b), h)
  <2>1. w.blocked = writer[Subject(b)].blocked
    BY <1>2, <1>5 DEF Handoff, Writer, WriterFiles
  <2> HIDE DEF w
  <2> QED
    BY <1>2, <1>5, <2>1, FileKeepsFence DEF w
<1>6. ASSUME active.sol = b, NEW st, NEW h \in Handoffs, NEW made,
             Applied(b, st, h, made)
      PROVE  kept
  <2> DEFINE w == [Writer(b) EXCEPT !.handoff = h, !.commit = run[b].token,
                                    !.count = @ + made]
  <2>1. w.blocked = writer[Subject(b)].blocked
    BY <1>2, <1>6 DEF WriterFiles, Writer
  <2>2. ThenWriter(Subject(b), w)
    BY <1>6 DEF Applied
  <2> HIDE DEF w
  <2> QED
    BY <1>2, <1>6, <2>1, <2>2, FileKeepsFence
<1>7. CASE Approve(b)
  <2>1. active.sol = b
    BY <1>7 DEF Approve, Holds
  <2>2. kept
    BY <1>5, <1>7, <2>1 DEF Approve, Handoffs
  <2>3. \A o \in Sols : run'[o].pc = "execute" => run'[o] = run[o]
    BY <1>3, <1>7, RunLeaves DEF Approve, Pcs
  <2>4. active'.sol = active.sol /\ active'.token = active.token
    BY <1>7 DEF Approve, TypeInv, GlobalType, Leases
  <2>5. ~ Refused(b)
    BY <1>7 DEF Approve, Refused
  <2> QED
    BY <1>1, <1>4, <2>2, <2>3, <2>4, <2>5, FenceStays
<1>8. CASE FailReview(b) \/ Abandon(b)
  <2> DEFINE r == IF run[b].kind = "resumed"
                  THEN [run[b] EXCEPT !.pc = "restore"] ELSE Idle
  <2>1. active.sol = b /\ active' = Free /\ Free.sol = 0
    BY <1>8 DEF FailReview, Abandon, SetsAside, Holds, Free
  <2>2. kept
    BY <1>5, <1>8, <2>1 DEF FailReview, Abandon, SetsAside, Handoffs
  <2>3. r.pc # "execute" /\ (Becomes(b, r) \/ UNCHANGED run)
    BY <1>3, <1>8 DEF FailReview, Abandon, Pcs
  <2> HIDE DEF r
  <2>4. \A o \in Sols : run'[o].pc = "execute" => run'[o] = run[o]
    BY <2>3, RunLeaves
  <2>5. \A o \in Sols : Subject(o)' = Subject(o)
    BY <1>8, SubjectKept DEF FailReview, Abandon, SetsAside
  <2> QED
    BY <1>1, <2>1, <2>2, <2>4, <2>5, FenceStays
<1>9. CASE RejectApply(b)
  <2>1. \A o \in Sols : run'[o].pc = "execute" => run'[o] = run[o]
    BY <1>3, <1>9, RunLeaves DEF RejectApply, Pcs
  <2> QED
    BY <1>1, <1>9, <2>1, StopsFence DEF RejectApply
<1>10. CASE Finish(b) \/ PauseForConflict(b)
  <2>1. active.sol = b /\ (active' = active \/ active' = Free) /\ Free.sol = 0
    BY <1>10 DEF Finish, PauseForConflict, Applied, Holds, Free
  <2>2. kept
    BY <1>6, <1>10, <2>1 DEF Finish, PauseForConflict, Handoffs
  <2>3. \A o \in Sols : run'[o].pc = "execute" => run'[o] = run[o]
    BY <1>3, <1>10, RunLeaves DEF Finish, PauseForConflict
  <2>4. \A o \in Sols : Subject(o)' = Subject(o)
    BY <1>10, SubjectKept DEF Finish, PauseForConflict, Applied, Subject
  <2> QED
    BY <1>1, <2>1, <2>2, <2>3, <2>4, FenceStays
<1>11. CASE Refused(b)
  <2>1. \A o \in Sols : run'[o].pc = "execute" => run'[o] = run[o]
    BY <1>3, <1>11, RunLeaves DEF Refused
  <2>2. CASE UNCHANGED <<active, entry, writer>>
    BY <1>1, <2>1, <2>2, FenceStays DEF Subject
  <2>3. CASE active # Free /\ Stops(active.sol)
    <3>1. active.sol \in Sols
      BY <2>3 DEF QueueInv, TypeInv, GlobalType, Leases
    <3> QED
      BY <1>1, <2>1, <2>3, <3>1, StopsFence
  <2> QED
    BY <1>11, <2>2, <2>3 DEF Refused
<1> QED
  BY <1>7, <1>8, <1>9, <1>10, <1>11

\* Begin raises the fence over a subject without a claim; an acknowledgement
\* lifts that of a subject nobody writes.
LEMMA CommandFence ==
  ASSUME TypeInv, QueueInv, FenceInv, NEW b \in Sols,
         \/ \E s \in Subjects : \E n \in 0..Batches[s] : Authorize(b, s, n)
         \/ Begin(b) \/ Resume(b) \/ Acknowledge(b)
  PROVE  FenceInv'
<1>1. UNCHANGED lease
  BY DEF Authorize, Begin, Resume, Acknowledge, lunaFiles
<1>2. ASSUME NEW s \in Subjects, NEW n \in 0..Batches[s], Authorize(b, s, n)
      PROVE  FenceInv'
  <2> DEFINE r == [run[b] EXCEPT !.pc = "begin"]
             w == [writer[s] EXCEPT !.handoff = "queued_for_sol",
                                    !.batch = Sol(b)]
  <2>1. w.blocked = writer[s].blocked
    BY DEF TypeInv, WriterType, WriterFiles
  <2>2. r.pc # "execute"
    BY DEF TypeInv, RunType, Runs
  <2>2a. Becomes(b, r) \/ (UNCHANGED run /\ run[b] = Idle)
    BY <1>2 DEF Authorize
  <2>3. /\ ThenWriter(s, w) /\ UNCHANGED active
        /\ \A o \in Sols \ {b} : entry'[o] = entry[o]
    BY <1>2 DEF Authorize, TypeInv, GlobalType
  <2> HIDE DEF r, w
  <2>4. \A o \in Sols : run'[o].pc = "execute" =>
          o # b /\ run'[o] = run[o]
    BY <2>2, <2>2a, RunLeaves DEF Idle
  <2> QED
    BY <1>1, <2>1, <2>3, <2>4, FileKeepsFence, FenceStays DEF Subject
<1>3. CASE Begin(b)
  <2> DEFINE r == [run[b] EXCEPT !.pc = "execute", !.token = next]
             w == [Writer(b) EXCEPT !.handoff = "sol_reviewing",
                                    !.token = next, !.blocked = TRUE]
  <2>1. /\ Subject(b) \in Subjects /\ Writer(b) \in WriterFiles
        /\ lease[Subject(b)] # "claimed"
    BY <1>3, Known DEF Begin, CanBegin, Head
  <2>2. w.blocked = TRUE
    BY <2>1 DEF WriterFiles
  <2>3. ThenWriter(Subject(b), w) /\ Becomes(b, r) /\ Enters(b, "active")
    BY <1>3 DEF Begin
  <2> HIDE DEF r, w
  <2>4. \A o \in Sols : Subject(o)' = Subject(o)
    BY <2>3, SubjectKept
  <2>5. CASE UNCHANGED writer /\ crashes' # crashes
    <3>1. run' = [run EXCEPT ![b] = Idle] /\ Idle.pc # "execute"
      BY <2>3, <2>5 DEF Becomes, Idle
    <3>2. run'[b].pc # "execute" /\ active'.sol = b
      BY <1>3, <3>1 DEF Begin, TypeInv, RunType
    <3> QED
      BY <1>1, <2>5, <3>2 DEF FenceInv, LunaNeverFenced, Holds
  <2>6. CASE writer' = [writer EXCEPT ![Subject(b)] = w]
    <3>1. writer'[Subject(b)].blocked
          /\ \A o \in Subjects \ {Subject(b)} : writer'[o] = writer[o]
      BY <2>1, <2>2, <2>6 DEF TypeInv, WriterType
    <3>2. \A o \in Sols : Holds(o)' => o = b
      BY <1>3 DEF Begin, Holds
    <3> QED
      BY <1>1, <2>1, <2>4, <3>1, <3>2 DEF FenceInv, LunaNeverFenced, Writer
  <2> QED
    BY <2>3, <2>5, <2>6 DEF ThenWriter, Dies, TypeInv, WriterType
<1>4. CASE Resume(b)
  <2> DEFINE r == [Idle EXCEPT !.pc = "begin", !.kind = "resumed"]
             w == [Writer(b) EXCEPT !.handoff = "queued_for_sol",
                                    !.commit = 0]
  <2>1. Subject(b) \in Subjects /\ Writer(b) \in WriterFiles
    BY <1>4, Known DEF Resume, IsPaused
  <2>2. w.blocked = writer[Subject(b)].blocked /\ r.pc # "execute"
    BY <2>1 DEF WriterFiles, Writer, Idle
  <2>3. ThenWriter(Subject(b), w) /\ Becomes(b, r) /\ Enters(b, "queued")
    BY <1>4 DEF Resume
  <2> HIDE DEF r, w
  <2>4. \A o \in Sols : run'[o].pc = "execute" => run'[o] = run[o]
    BY <2>2, <2>3, RunLeaves
  <2>5. \A o \in Sols : Subject(o)' = Subject(o)
    BY <2>3, SubjectKept
  <2>6. active' = active
    BY <1>4 DEF Resume
  <2> QED
    BY <1>1, <2>1, <2>2, <2>3, <2>4, <2>5, <2>6, FileKeepsFence, FenceStays
<1>5. CASE Acknowledge(b)
  <2> DEFINE s == Subject(b)
  <2>1. s \in Subjects
    BY <1>5, Known DEF Acknowledge
  <2>2. /\ ~ writer'[s].blocked
        /\ \A o \in Subjects \ {s} : writer'[o] = writer[o]
    BY <1>5, <2>1 DEF Acknowledge, TypeInv, WriterType, WriterFiles
  <2>3. /\ UNCHANGED <<active, entry, run>>
        /\ \A o \in Sols : Subject(o)' = Subject(o) /\ Holds(o)' = Holds(o)
    BY <1>5 DEF Acknowledge, globalFile, Subject, Holds
  <2>4. \A o \in Sols : Holds(o) => Subject(o) \in Subjects \ {s}
    BY <1>5, Known DEF Acknowledge, Holds
  <2> HIDE DEF s
  <2> QED
    BY <1>1, <2>2, <2>3, <2>4 DEF FenceInv, LunaNeverFenced, Writer
<1> QED
  BY <1>2, <1>3, <1>4, <1>5

\* Every step keeps the fence.
LEMMA FenceStep ==
  TypeInv /\ QueueInv /\ FenceInv /\ [Next]_vars => FenceInv'
<1> SUFFICES ASSUME TypeInv, QueueInv, FenceInv, [Next]_vars PROVE FenceInv'
  OBVIOUS
<1>1. CASE UNCHANGED vars
  BY <1>1, FenceStays DEF vars, globalFile, lunaFiles, Subject
<1>2. ASSUME NEW s \in Subjects, Daemon(s) PROVE FenceInv'
  BY <1>2, DaemonFence
<1>3. ASSUME NEW b \in Sols, Work(b) \/ Command(b) \/ Die(b) PROVE FenceInv'
  BY <1>3, OutsideFence, LeaseFence, CommandFence DEF Work, Command
<1> QED
  BY <1>1, <1>2, <1>3 DEF Next

\* Only the adapter's steps make formal writes.
LEMMA OnlyExecutionWrites ==
  ASSUME TypeInv, [Next]_vars, NEW b \in Sols, formal'[b] # formal[b]
  PROVE  run[b].pc = "execute"
<1>1. ASSUME NEW o \in Sols, Execute(o) \/ ExecuteFails(o)
      PROVE  run[b].pc = "execute"
  BY <1>1 DEF Execute, ExecuteFails, Writes, TypeInv, OutsideType
<1>2. ASSUME NEW s \in Subjects, Daemon(s) PROVE FALSE
  BY <1>2 DEF Daemon, Prepare, Claim, Complete, Rollover, Record, outside
<1>3. ASSUME NEW o \in Sols,
             Work(o) \/ Command(o) \/ Die(o), ~ Execute(o), ~ ExecuteFails(o)
      PROVE  FALSE
  BY <1>3 DEF Work, Command, BeginRefused, PublishFails, Approve, FailReview,
     Finish, PauseForConflict, Restore, Refused, Admit, Authorize, Begin,
     Resume, Acknowledge, Abandon, RejectApply, Die, outside
<1> QED
  BY <1>1, <1>2, <1>3 DEF Next, vars, outside

-----------------------------------------------------------------------------
(* The theorems.                                                           *)

\* The inductive invariant.
LEMMA WriterInvariant == SolSpec => [](TypeInv /\ QueueInv /\ FenceInv)
<1>1. TypeInv /\ QueueInv /\ FenceInv /\ [Next]_vars
      => TypeInv' /\ QueueInv' /\ FenceInv'
  BY TypeStep, DetailedStep, FenceStep DEF Simulated
<1> QED
  BY InitType, QueueInvInit, FenceInit, <1>1, PTL DEF SolSpec

\* Whatever is authorized, begun, failed, paused, answered or left behind by
\* a dead process, the files and the receipts keep their shape
\* (lib/subject_sol_contract.py, _validate_writer and _validate_global).
THEOREM SolTypeCorrect == SolSpec => []SolTypeOK
BY WriterInvariant, TypeInvIsTypeOK, PTL

\* One batch has the lease, under the newest fencing token, and no second entry
\* of the queue is active or reviewed, whichever files a dead process left
\* unwritten.  Who executes, reviews or applies a batch has that lease or has
\* lost it to a review filed by hand: its token is older then, and its batch
\* set aside (begin_sol_review, record_sol_review, finish_subject_commit).
THEOREM OneWriter == SolSpec => []OneNewestWriter
BY WriterInvariant, QueueInvSuffices, PTL

\* The global file alone makes the writer a first-come, first-served queue:
\* every operation, torn or not, is a step of WriterQueue or leaves it alone.
THEOREM FirstComeFirstServed == SolSpec => ImplementsWriterQueue
<1>1. Init => Queue!QueueInit
  <2>1. ASSUME Init PROVE \A b \in Sols : Stage(b) = "unknown"
    BY <2>1 DEF Init, Stage, Stages, Status, Free, NoEntry
  <2> QED
    BY <2>1 DEF Init, Queue!QueueInit
<1>2. TypeInv /\ QueueInv /\ TypeInv' /\ [Next]_vars
      => [Queue!QueueNext]_Queue!queueVars
  BY DetailedStep DEF Simulated
<1> QED
  BY WriterInvariant, <1>1, <1>2, PTL
  DEF SolSpec, ImplementsWriterQueue, Queue!QueueSpec

\* A batch that was committed stays so.
CommitIsFinal ==
  [][\A b \in Sols : Status(b) = "committed" => Status(b)' = "committed"]_vars

\* The queue has no move for a batch that is done.
LEMMA DoneStays ==
  ASSUME TypeInv, QueueInv, TypeInv', [Next]_vars,
         NEW b \in Sols, Status(b) = "committed"
  PROVE  Status(b)' = "committed"
<1>1. Stage(b) = "done"
  BY StageIs DEF QueueInv, Held
<1>2. [Queue!QueueNext]_Queue!queueVars
  BY DetailedStep DEF Simulated
<1>3. Stage(b)' = "done"
  <2>1. CASE UNCHANGED Queue!queueVars
    <3>1. Staged' = Staged
      BY <2>1 DEF Queue!queueVars, Staged
    <3>2. Staged'[b] = Staged[b]
      BY <3>1
    <3> QED
      BY <1>1, <3>2 DEF Staged
  <2>2. ASSUME NEW o \in Sols, NEW from, NEW to, from # "done",
               Queue!Move(o, from, to)
        PROVE  Stage(b)' = "done"
    <3>1. Staged[o] = from /\ Staged' = [Staged EXCEPT ![o] = to]
      BY <2>2 DEF Queue!Move, Staged
    <3>2. o # b
      BY <1>1, <2>2, <3>1 DEF Staged
    <3>3. Staged'[b] = Staged[b]
      BY <3>1, <3>2 DEF Staged
    <3> QED
      BY <1>1, <3>3 DEF Staged
  <2> QED
    BY <1>2, <2>1, <2>2 DEF Queue!QueueNext, Queue!Enter, Queue!Grant,
       Queue!GiveUp, Queue!Return
<1>4. Status(b)' \in Statuses
  BY DEF TypeInv, GlobalType, Entries, Status
<1> QED
  BY <1>3, <1>4 DEF Stage, Stages, Statuses, Status

\* No order of answers, failures by hand and receipts that arrive late takes a
\* committed batch up again, or pauses it: the queue has no move from there
\* (finish_subject_commit, resume_subject_commit_from_resolution).
THEOREM CommitsAreFinal == SolSpec => CommitIsFinal
<1>1. TypeInv /\ QueueInv /\ TypeInv' /\ [Next]_vars
      => [\A b \in Sols :
            Status(b) = "committed" => Status(b)' = "committed"]_vars
  BY DoneStays
<1> QED
  BY WriterInvariant, <1>1, PTL DEF SolSpec, CommitIsFinal

\* No Luna task of a subject holds its claim while the subject is fenced for
\* a formal write (LeaseStore.claim, begin_sol_review).
THEOREM NoLunaBehindFence == SolSpec => []LunaNeverFenced
<1>1. FenceInv => LunaNeverFenced
  BY DEF FenceInv
<1> QED
  BY WriterInvariant, <1>1, PTL

-----------------------------------------------------------------------------
(* The two files of an operation agree while no process dies: the writer   *)
(* file names the one batch of its subject that is neither committed nor   *)
(* unknown, in the word that belongs to the batch's entry, so that nobody  *)
(* who finds it awaiting Luna's work takes it from a batch.                *)

Open == {"queued", "active", "reviewed", "safe_paused"}

Fits(st, h) ==
  \/ st = "queued" /\ h = "queued_for_sol"
  \/ st = "active" /\ h = "sol_reviewing"
  \/ st = "reviewed" /\ h = "sol_reviewed"
  \/ st = "safe_paused" /\ h = "safe_paused"

\* A subject has a lease while its batch is open only, which is no batch of
\* the v1 release and not closed, and an archive or an authorized batch only
\* once it had a batch.
LunaInv ==
  \A s \in Subjects :
    /\ luna[s].state = "open" => luna[s].n # 0 /\ ~ luna[s].closed
    /\ luna[s].state # "open" => lease[s] = "none"
    /\ luna[s].state = "none" =>
         archive[s] = {} /\ \A b \in Sols : Subject(b) # s

AgreeInv ==
  /\ \A b \in Sols : Status(b) \in Open =>
       Writer(b).batch = Sol(b) /\ Fits(Status(b), Writer(b).handoff)
  /\ \A s \in Subjects : luna[s].state = "open" =>
       writer[s].handoff = "awaiting_luna" /\ writer[s].batch = Luna(luna[s].n)

FilesInv == LunaInv /\ (crashes = 0 => AgreeInv)

\* No batch of s is under way.
NoneOpen(s) == \A b \in Sols : Status(b) \in Open => Subject(b) # s

LEMMA FilesInit == Init => FilesInv
  BY DEF Init, FilesInv, LunaInv, AgreeInv, NoEntry, Status, Subject, Open

\* Nobody is under way where the writer file awaits Luna's work or an order.
LEMMA AwaitingIsVacant ==
  ASSUME AgreeInv, NEW s \in Subjects,
         writer[s].handoff \in
           {"awaiting_luna", "ready_for_authorization", "complete"}
  PROVE  NoneOpen(s)
  BY DEF AgreeInv, NoneOpen, Fits, Writer

\* And where somebody is, it is one.
LEMMA OneUnderWay ==
  ASSUME AgreeInv, NEW b \in Sols, NEW o \in Sols, Subject(o) = Subject(b),
         Status(b) \in Open, Status(o) \in Open
  PROVE  o = b
<1>1. Sol(o) = Sol(b)
  BY DEF AgreeInv, Writer
<1> QED
  BY <1>1 DEF Sol

\* A file is replaced, or a process died.
LEMMA ReplacedOrDied ==
  ASSUME TypeInv, NEW s \in Subjects, NEW w, ThenWriter(s, w), crashes' = 0
  PROVE  /\ crashes = 0 /\ writer'[s] = w
         /\ \A o \in Subjects : o # s => writer'[o] = writer[o]
  BY DEF ThenWriter, Dies, TypeInv, WriterType

\* A subject's batch is written where no batch of it is under way.
LEMMA BatchFiles ==
  ASSUME TypeInv, FilesInv, NEW s \in Subjects, NEW l \in LunaFiles, NEW w,
         WritesBatch(s, l, w), UNCHANGED <<entry, archive>>, lease'[s] = "none",
         \A o \in Subjects : o # s => lease'[o] = lease[o],
         l.state # "none",
         l.state = "open" => /\ l.n # 0 /\ ~ l.closed
                             /\ w.handoff = "awaiting_luna"
                             /\ w.batch = Luna(l.n),
         crashes = 0 => NoneOpen(s)
  PROVE  FilesInv'
<1>1. \A b \in Sols : Subject(b)' = Subject(b) /\ Status(b)' = Status(b)
  BY DEF Subject, Status
<1>2. \A b \in Sols : Status(b) \in Open => Subject(b) \in Subjects
  BY DEF TypeInv, GlobalType, Open
<1>3. /\ \A o \in Subjects : o # s => luna'[o] = luna[o]
      /\ \/ luna'[s] = l /\ ThenWriter(s, w)
         \/ luna'[s].state = "torn" /\ Dies
  BY DEF WritesBatch, TypeInv, LunaType, LunaFiles
<1>4. LunaInv'
  BY <1>1, <1>3 DEF FilesInv, LunaInv
<1>5. ASSUME crashes' = 0 PROVE AgreeInv'
  <2>1. luna'[s] = l /\ ThenWriter(s, w)
    BY <1>3, <1>5 DEF Dies, TypeInv, WriterType
  <2>2. /\ AgreeInv /\ NoneOpen(s) /\ writer'[s] = w
        /\ \A o \in Subjects : o # s => writer'[o] = writer[o]
    BY <1>5, <2>1, ReplacedOrDied DEF FilesInv
  <2>3. ASSUME NEW b \in Sols, Status(b)' \in Open
        PROVE  Writer(b)'.batch = Sol(b) /\ Fits(Status(b)', Writer(b)'.handoff)
    BY <1>1, <1>2, <2>2, <2>3 DEF AgreeInv, NoneOpen, Writer
  <2>4. ASSUME NEW o \in Subjects, luna'[o].state = "open"
        PROVE  /\ writer'[o].handoff = "awaiting_luna"
               /\ writer'[o].batch = Luna(luna'[o].n)
    <3>1. CASE o = s
      BY <2>1, <2>2, <2>4, <3>1
    <3>2. CASE o # s
      BY <1>3, <2>2, <2>4, <3>2 DEF AgreeInv
    <3> QED
      BY <3>1, <3>2
  <2> QED
    BY <2>3, <2>4 DEF AgreeInv
<1> QED
  BY <1>4, <1>5 DEF FilesInv

\* A step of the daemon on s, where no batch of s is under way.
LEMMA DaemonFiles ==
  ASSUME TypeInv, FilesInv, NEW s \in Subjects, Daemon(s)
  PROVE  FilesInv'
<1>1. UNCHANGED <<active, next, entry, counted>>
      /\ \A b \in Sols : Subject(b)' = Subject(b) /\ Status(b)' = Status(b)
  BY DEF Daemon, Prepare, Claim, Complete, Rollover, Record, globalFile,
         Subject, Status
<1>2. luna[s] \in LunaFiles /\ writer[s] \in WriterFiles
  BY DEF TypeInv, LunaType, WriterType
<1>4. \A b \in Sols : Status(b) \in Open => Subject(b) \in Subjects
  BY DEF TypeInv, GlobalType, Open
<1>6. CASE Prepare(s)
  <2> DEFINE n == luna[s].n + 1
             l == [n |-> n, night |-> 0, closed |-> FALSE, state |-> "open"]
             w == [writer[s] EXCEPT !.handoff = "awaiting_luna",
                                    !.batch = Luna(n), !.commit = 0]
  <2>1. WritesBatch(s, l, w) /\ UNCHANGED <<archive, lease>>
    BY <1>6 DEF Prepare
  <2>2. n \in Nat /\ n # 0
    BY <1>2 DEF LunaFiles
  <2>3. w.handoff = "awaiting_luna" /\ w.batch = Luna(n)
    BY <1>2 DEF WriterFiles
  <2> HIDE DEF n
  <2>4. l \in LunaFiles /\ l.state = "open" /\ l.n = n /\ ~ l.closed
    BY <2>2 DEF LunaFiles
  <2>5. crashes = 0 => NoneOpen(s)
    <3>1. CASE luna[s].state = "none"
      BY <3>1 DEF FilesInv, LunaInv, NoneOpen
    <3>2. CASE Vacant(s)
      BY <3>2, AwaitingIsVacant DEF Vacant, FilesInv
    <3> QED
      BY <1>6, <3>1, <3>2 DEF Prepare
  <2>6. lease[s] = "none"
    BY <1>6 DEF Prepare, FilesInv, LunaInv
  <2> HIDE DEF l, w
  <2> QED
    BY <1>1, <2>1, <2>2, <2>3, <2>4, <2>5, <2>6, BatchFiles
<1>7. CASE Claim(s)
  <2>1. /\ luna[s].state = "open" /\ UNCHANGED <<luna, archive, writer, crashes>>
        /\ \A o \in Subjects : o # s => lease'[o] = lease[o]
    BY <1>7 DEF Claim, TypeInv, LunaType
  <2>2. crashes' = 0 => AgreeInv'
    BY <1>1, <2>1 DEF FilesInv, AgreeInv, Writer
  <2>3. LunaInv'
    BY <1>1, <2>1 DEF FilesInv, LunaInv
  <2> QED
    BY <2>2, <2>3 DEF FilesInv
<1>8. CASE Complete(s)
  <2>1. /\ lease[s] = "claimed" /\ UNCHANGED <<luna, archive, writer, crashes>>
        /\ \A o \in Subjects : o # s => lease'[o] = lease[o]
    BY <1>8 DEF Complete, TypeInv, LunaType
  <2>2. luna[s].state = "open"
    BY <2>1 DEF FilesInv, LunaInv
  <2>3. crashes' = 0 => AgreeInv'
    BY <1>1, <2>1 DEF FilesInv, AgreeInv, Writer
  <2>4. LunaInv'
    BY <1>1, <2>1, <2>2 DEF FilesInv, LunaInv
  <2> QED
    BY <2>3, <2>4 DEF FilesInv
<1>9. CASE Rollover(s)
  <2> DEFINE w == [writer[s] EXCEPT !.handoff = "awaiting_luna",
                                    !.batch = NoBatch, !.blocked = FALSE]
  <2>1. ThenWriter(s, w)
    BY <1>9 DEF Rollover, ThenWriter, TypeInv, WriterType
  <2>2. luna'[s].state = luna[s].state /\ luna[s].state \in {"ready", "spent"}
        /\ lease' = lease
    BY <1>2, <1>9 DEF Rollover, TypeInv, LunaType, LunaFiles
  <2>3. \A o \in Subjects : o # s =>
          luna'[o] = luna[o] /\ archive'[o] = archive[o]
    BY <1>9 DEF Rollover, TypeInv, LunaType
  <2>4. crashes = 0 => NoneOpen(s)
    BY <1>9, AwaitingIsVacant DEF Rollover, FilesInv
  <2> HIDE DEF w
  <2>5. ASSUME crashes' = 0 PROVE AgreeInv'
    <3>1. /\ AgreeInv /\ NoneOpen(s)
          /\ \A o \in Subjects : o # s => writer'[o] = writer[o]
      BY <2>1, <2>4, <2>5, ReplacedOrDied DEF FilesInv
    <3> QED
      BY <1>1, <1>4, <2>2, <2>3, <3>1 DEF AgreeInv, NoneOpen, Writer
  <2>6. LunaInv'
    BY <1>1, <2>2, <2>3 DEF FilesInv, LunaInv
  <2> QED
    BY <2>5, <2>6 DEF FilesInv
<1>10. ASSUME NEW state \in {"ready", "spent"}, Record(s, state)
       PROVE  FilesInv'
  <2> DEFINE l == [luna[s] EXCEPT !.state = state]
  <2>1. PICK w : WritesBatch(s, l, w)
    BY <1>10 DEF Record
  <2>2. l \in LunaFiles /\ l.state = state /\ state # "open" /\ state # "none"
    BY <1>2 DEF LunaFiles
  <2>3. /\ luna[s].state = "open" /\ UNCHANGED archive /\ lease'[s] = "none"
        /\ \A o \in Subjects : o # s => lease'[o] = lease[o]
    BY <1>10 DEF Record, TypeInv, LunaType
  <2>4. crashes = 0 => NoneOpen(s)
    BY <2>3, AwaitingIsVacant DEF FilesInv, AgreeInv
  <2> HIDE DEF l
  <2> QED
    BY <1>1, <2>1, <2>2, <2>3, <2>4, BatchFiles
<1> QED
  BY <1>6, <1>7, <1>8, <1>9, <1>10 DEF Daemon

\* A step of a process that leaves the queue and the other files alone.
LEMMA OutsideFiles ==
  ASSUME TypeInv, FilesInv, NEW b \in Sols,
         \/ BeginRefused(b) \/ Execute(b) \/ ExecuteFails(b)
         \/ PublishFails(b) \/ Restore(b) \/ Die(b)
  PROVE  FilesInv'
<1>1. UNCHANGED <<entry, lunaFiles>>
      /\ \A o \in Sols : Subject(o)' = Subject(o) /\ Status(o)' = Status(o)
  BY DEF BeginRefused, Execute, ExecuteFails, PublishFails, Restore, Die,
         globalFile, Subject, Status
<1>2. crashes' = 0 => crashes = 0
  <2>1. Die(b) => crashes' = crashes + 1
    BY DEF Die, Dies
  <2>2. ~ Die(b) => crashes' = crashes
    BY DEF BeginRefused, Execute, ExecuteFails, PublishFails, Restore
  <2> QED
    BY <2>1, <2>2 DEF TypeInv, WriterType
<1>3. \A s \in Subjects : /\ writer'[s].handoff = writer[s].handoff
                          /\ writer'[s].batch = writer[s].batch
  <2>1. ~ Restore(b) => writer' = writer
    BY DEF BeginRefused, Execute, ExecuteFails, PublishFails, Die
  <2>2. Restore(b) => \/ writer' = writer
                      \/ writer' = [writer EXCEPT ![Subject(b)].commit =
                                                    cont[b].token]
    BY DEF Restore
  <2> QED
    BY <2>1, <2>2 DEF TypeInv, WriterType, WriterFiles
<1>4. LunaInv'
  BY <1>1 DEF FilesInv, LunaInv, lunaFiles
<1>5. \A o \in Sols : Status(o) \in Open => Subject(o) \in Subjects
  BY DEF TypeInv, GlobalType, Open
<1>6. ASSUME crashes' = 0 PROVE AgreeInv'
  BY <1>1, <1>2, <1>3, <1>5, <1>6 DEF FilesInv, AgreeInv, Writer, lunaFiles
<1> QED
  BY <1>4, <1>6 DEF FilesInv

\* An operation on a batch under way gives its entry another status, and its
\* subject's writer file the word for it.
LEMMA EntryFiles ==
  ASSUME TypeInv, FilesInv, NEW b \in Sols, Status(b) \in Open,
         NEW st, Enters(b, st), NEW w, ThenWriter(Subject(b), w),
         AgreeInv /\ st \in Open => w.batch = Sol(b) /\ Fits(st, w.handoff),
         UNCHANGED lunaFiles
  PROVE  FilesInv'
<1>1. \A o \in Sols : Subject(o)' = Subject(o)
  BY SubjectKept
<1>2. \A o \in Sols : Status(o)' = IF o = b THEN st ELSE Status(o)
  BY EntersStatus
<1>3. Subject(b) \in Subjects
      /\ \A o \in Sols : Status(o) \in Open => Subject(o) \in Subjects
  BY DEF TypeInv, GlobalType, Open
<1>4. LunaInv'
  BY <1>1 DEF FilesInv, LunaInv, lunaFiles
<1>5. ASSUME crashes' = 0 PROVE AgreeInv'
  <2>1. /\ AgreeInv /\ writer'[Subject(b)] = w
        /\ \A s \in Subjects : s # Subject(b) => writer'[s] = writer[s]
    BY <1>3, <1>5, ReplacedOrDied DEF FilesInv
  <2>2. ASSUME NEW o \in Sols, Status(o)' \in Open
        PROVE  Writer(o)'.batch = Sol(o) /\ Fits(Status(o)', Writer(o)'.handoff)
    <3>1. CASE o = b
      BY <1>1, <1>2, <2>1, <2>2, <3>1 DEF Writer
    <3>2. CASE o # b
      <4>1. Status(o) \in Open /\ Status(o)' = Status(o)
        BY <1>2, <2>2, <3>2
      <4>2. Subject(o) # Subject(b)
        BY <2>1, <3>2, <4>1, OneUnderWay
      <4>3. Writer(o)' = Writer(o)
        BY <1>1, <1>3, <2>1, <4>1, <4>2 DEF Writer
      <4> QED
        BY <2>1, <4>1, <4>3 DEF AgreeInv
    <3> QED
      BY <3>1, <3>2
  <2>3. luna[Subject(b)].state # "open"
    BY <1>3, <2>1, AwaitingIsVacant DEF AgreeInv, NoneOpen
  <2>4. ASSUME NEW s \in Subjects, luna'[s].state = "open"
        PROVE  /\ writer'[s].handoff = "awaiting_luna"
               /\ writer'[s].batch = Luna(luna'[s].n)
    BY <2>1, <2>3, <2>4 DEF AgreeInv, lunaFiles
  <2> QED
    BY <2>2, <2>4 DEF AgreeInv
<1> QED
  BY <1>4, <1>5 DEF FilesInv

\* A batch set aside by a review or a receipt that failed is one.
LEMMA AsideFiles ==
  ASSUME TypeInv, QueueInv, FilesInv, NEW b \in Sols, active.sol = b,
         SetsAside(b) \/ Stops(b), UNCHANGED lunaFiles
  PROVE  FilesInv'
<1>1. /\ Status(b) \in Open /\ Subject(b) \in Subjects
      /\ Writer(b) \in WriterFiles
  BY Known DEF QueueInv, Held, Open
<1>2. CASE UNCHANGED entry /\ Dies
  <2>1. LunaInv'
    BY <1>2 DEF FilesInv, LunaInv, lunaFiles, Subject
  <2>2. crashes' # 0
    BY <1>2 DEF Dies, TypeInv, WriterType
  <2> QED
    BY <2>1, <2>2 DEF FilesInv
<1>3. CASE /\ Enters(b, "safe_paused")
           /\ ThenWriter(Subject(b), Handoff(Subject(b), "safe_paused"))
  <2> DEFINE w == Handoff(Subject(b), "safe_paused")
  <2>1. w.handoff = "safe_paused" /\ w.batch = Writer(b).batch
    BY <1>1 DEF Handoff, Writer, WriterFiles
  <2> HIDE DEF w
  <2>2. AgreeInv => w.batch = Sol(b) /\ Fits("safe_paused", w.handoff)
    BY <1>1, <2>1 DEF Fits, AgreeInv
  <2> QED
    BY <1>1, <1>3, <2>2, EntryFiles DEF w
<1>4. ASSUME Stops(b), Enters(b, "safe_paused"), UNCHANGED crashes
      PROVE  ThenWriter(Subject(b), Handoff(Subject(b), "safe_paused"))
  BY <1>1, <1>4 DEF Stops, ThenWriter, Handoff, TypeInv, WriterType
<1> QED
  BY <1>2, <1>3, <1>4 DEF SetsAside, Stops

\* A step under the lease is one.
LEMMA LeaseFiles ==
  ASSUME TypeInv, QueueInv, FilesInv, NEW b \in Sols,
         \/ Approve(b) \/ FailReview(b) \/ RejectApply(b) \/ Abandon(b)
         \/ Finish(b) \/ PauseForConflict(b)
  PROVE  FilesInv'
<1>1. active.sol = b /\ b # 0 /\ UNCHANGED lunaFiles
  BY DEF Approve, FailReview, RejectApply, Abandon, Finish, PauseForConflict,
         Holds
<1>2. Status(b) \in Open /\ Subject(b) \in Subjects /\ Writer(b) \in WriterFiles
  BY <1>1, Known DEF QueueInv, Held, Open
<1>3. AgreeInv => Writer(b).batch = Sol(b)
  BY <1>2 DEF AgreeInv
<1>5. ASSUME NEW st, NEW h, NEW k, Applied(b, st, h, k),
             <<st, h>> \in {<<"committed", "complete">>,
                            <<"safe_paused", "safe_paused">>}
      PROVE  FilesInv'
  <2> DEFINE w == [Writer(b) EXCEPT !.handoff = h, !.commit = run[b].token,
                                    !.count = @ + k]
  <2>1. w.handoff = h /\ w.batch = Writer(b).batch
    BY <1>2 DEF WriterFiles
  <2>2. ThenWriter(Subject(b), w) /\ Enters(b, st)
    BY <1>5 DEF Applied
  <2> HIDE DEF w
  <2>3. AgreeInv /\ st \in Open => w.batch = Sol(b) /\ Fits(st, w.handoff)
    BY <1>3, <1>5, <2>1 DEF Fits, Open
  <2> QED
    BY <1>1, <1>2, <2>2, <2>3, EntryFiles
<1>6. ASSUME UNCHANGED entry, Dies PROVE FilesInv'
  <2>1. LunaInv'
    BY <1>1, <1>6 DEF FilesInv, LunaInv, lunaFiles, Subject
  <2>2. crashes' # 0
    BY <1>6 DEF Dies, TypeInv, WriterType
  <2> QED
    BY <2>1, <2>2 DEF FilesInv
<1>7. CASE Approve(b)
  <2> DEFINE w == Handoff(Subject(b), "sol_reviewed")
  <2>1. w.handoff = "sol_reviewed" /\ w.batch = Writer(b).batch
    BY <1>2 DEF Handoff, Writer, WriterFiles
  <2>2. ThenWriter(Subject(b), w) /\ Enters(b, "reviewed")
    BY <1>7 DEF Approve
  <2> HIDE DEF w
  <2>3. AgreeInv => w.batch = Sol(b) /\ Fits("reviewed", w.handoff)
    BY <1>3, <2>1 DEF Fits
  <2> QED
    BY <1>1, <1>2, <2>2, <2>3, EntryFiles
<1>8. CASE FailReview(b) \/ RejectApply(b) \/ Abandon(b)
  BY <1>1, <1>8, AsideFiles DEF FailReview, RejectApply, Abandon
<1>10. CASE Finish(b)
  BY <1>5, <1>10 DEF Finish
<1>11. CASE PauseForConflict(b)
  BY <1>5, <1>6, <1>11 DEF PauseForConflict
<1> QED
  BY <1>7, <1>8, <1>10, <1>11

\* A receipt that is refused sets the active batch of its subject aside.
LEMMA RefusedFiles ==
  ASSUME TypeInv, QueueInv, FilesInv, NEW b \in Sols, Refused(b)
  PROVE  FilesInv'
<1>1. UNCHANGED lunaFiles
  BY DEF Refused
<1>2. CASE active # Free /\ Stops(active.sol)
  <2>1. active.sol \in Sols
    BY <1>2 DEF QueueInv, TypeInv, GlobalType, Leases
  <2> QED
    BY <1>1, <1>2, <2>1, AsideFiles
<1>3. CASE UNCHANGED <<entry, writer, crashes>>
  BY <1>1, <1>3 DEF FilesInv, LunaInv, AgreeInv, lunaFiles, Writer, Subject,
     Status
<1> QED
  BY <1>2, <1>3 DEF Refused

\* The commands before and after the lease.
LEMMA CommandFiles ==
  ASSUME TypeInv, QueueInv, FilesInv, NEW b \in Sols,
         \/ \E s \in Subjects : Admit(b, s)
         \/ \E s \in Subjects : \E n \in 0..Batches[s] : Authorize(b, s, n)
         \/ Begin(b) \/ Resume(b) \/ Acknowledge(b)
  PROVE  FilesInv'
<1>1. \A o \in Sols : Status(o) \in Open => Subject(o) \in Subjects
  BY DEF TypeInv, GlobalType, Open
<1>2. ASSUME NEW s \in Subjects, Admit(b, s) PROVE FilesInv'
  <2> DEFINE l == [n |-> 1, night |-> b, closed |-> FALSE, state |-> "ready"]
             w == [writer[s] EXCEPT !.handoff = "ready_for_authorization",
                                    !.batch = Luna(1), !.commit = 0]
  <2>1. UNCHANGED <<entry, archive, lease>>
        /\ \A o \in Sols : Subject(o)' = Subject(o) /\ Status(o)' = Status(o)
    BY <1>2 DEF Admit, globalFile, Subject, Status
  <2>2. CASE luna[s].state = "none" /\ WritesBatch(s, l, w)
    <3>1. l \in LunaFiles /\ l.state = "ready"
      BY DEF LunaFiles
    <3>2. lease[s] = "none" /\ NoneOpen(s)
      BY <2>2 DEF FilesInv, LunaInv, NoneOpen
    <3> HIDE DEF l, w
    <3> QED
      BY <2>1, <2>2, <3>1, <3>2, BatchFiles
  <2>3. CASE UNCHANGED <<luna, writer, crashes>>
    BY <2>1, <2>3 DEF FilesInv, LunaInv, AgreeInv, Writer
  <2> QED
    BY <1>2, <2>2, <2>3 DEF Admit
<1>3. ASSUME NEW s \in Subjects, NEW n \in 0..Batches[s], Authorize(b, s, n)
      PROVE  FilesInv'
  <2> DEFINE w == [writer[s] EXCEPT !.handoff = "queued_for_sol",
                                    !.batch = Sol(b)]
             e == [subject |-> s, luna |-> n, status |-> "queued"]
  <2>1. /\ UNCHANGED lunaFiles /\ ThenWriter(s, w)
        /\ entry' = [entry EXCEPT ![b] = e] /\ entry[b] = NoEntry
        /\ Authorizable(s, n)
    BY <1>3 DEF Authorize
  <2>2. w.handoff = "queued_for_sol" /\ w.batch = Sol(b)
    BY DEF TypeInv, WriterType, WriterFiles
  <2>3. /\ Subject(b)' = s /\ Status(b)' = "queued"
        /\ \A o \in Sols : o # b =>
             Subject(o)' = Subject(o) /\ Status(o)' = Status(o)
    BY <2>1 DEF TypeInv, GlobalType, Subject, Status
  <2> HIDE DEF w, e
  <2>4. luna[s].state # "none"
    BY <2>1 DEF Authorizable, FilesInv, LunaInv
  <2>5. LunaInv'
    BY <2>1, <2>3, <2>4 DEF FilesInv, LunaInv, lunaFiles
  <2>6. ASSUME crashes' = 0 PROVE AgreeInv'
    <3>1. /\ AgreeInv /\ writer'[s] = w
          /\ \A o \in Subjects : o # s => writer'[o] = writer[o]
      BY <2>1, <2>6, ReplacedOrDied DEF FilesInv
    <3>2. NoneOpen(s)
      BY <2>1, <3>1, AwaitingIsVacant DEF Authorizable
    <3>3. luna[s].state # "open"
      <4>1. NoBatch # Luna(luna[s].n)
        BY DEF NoBatch, Luna
      <4> QED
        BY <2>1, <3>1, <4>1 DEF Authorizable, AgreeInv
    <3>4. ASSUME NEW o \in Sols, Status(o)' \in Open
          PROVE  /\ Writer(o)'.batch = Sol(o)
                 /\ Fits(Status(o)', Writer(o)'.handoff)
      <4>1. CASE o = b
        BY <2>2, <2>3, <3>1, <4>1 DEF Writer, Fits
      <4>2. CASE o # b
        <5>1. Status(o)' = Status(o) /\ Writer(o)' = Writer(o)
          BY <1>1, <2>3, <3>1, <3>2, <3>4, <4>2 DEF NoneOpen, Writer
        <5> QED
          BY <3>1, <3>4, <5>1 DEF AgreeInv
      <4> QED
        BY <4>1, <4>2
    <3>5. ASSUME NEW o \in Subjects, luna'[o].state = "open"
          PROVE  /\ writer'[o].handoff = "awaiting_luna"
                 /\ writer'[o].batch = Luna(luna'[o].n)
      BY <2>1, <3>1, <3>3, <3>5 DEF AgreeInv, lunaFiles
    <3> QED
      BY <3>4, <3>5 DEF AgreeInv
  <2> QED
    BY <2>5, <2>6 DEF FilesInv
<1>4. CASE Begin(b)
  <2> DEFINE w == [Writer(b) EXCEPT !.handoff = "sol_reviewing",
                                    !.token = next, !.blocked = TRUE]
  <2>1. /\ Status(b) = "queued" /\ Queued(b) /\ Enters(b, "active")
        /\ ThenWriter(Subject(b), w) /\ UNCHANGED lunaFiles
    BY <1>4 DEF Begin, CanBegin, Head
  <2>2. Writer(b) \in WriterFiles
    BY <2>1, Known
  <2>3. w.handoff = "sol_reviewing" /\ w.batch = Sol(b)
    BY <2>1, <2>2 DEF WriterFiles, Queued
  <2> HIDE DEF w
  <2> QED
    BY <2>1, <2>3, EntryFiles DEF Open, Fits
<1>5. CASE Resume(b)
  <2> DEFINE w == [Writer(b) EXCEPT !.handoff = "queued_for_sol",
                                    !.commit = 0]
  <2>1. /\ Status(b) = "safe_paused" /\ Writer(b).batch = Sol(b)
        /\ Enters(b, "queued")
        /\ ThenWriter(Subject(b), w) /\ UNCHANGED lunaFiles
    BY <1>5 DEF Resume, IsPaused
  <2>2. Writer(b) \in WriterFiles
    BY <2>1, Known
  <2>3. w.handoff = "queued_for_sol" /\ w.batch = Sol(b)
    BY <2>1, <2>2 DEF WriterFiles
  <2> HIDE DEF w
  <2> QED
    BY <2>1, <2>3, EntryFiles DEF Open, Fits
<1>6. CASE Acknowledge(b)
  <2> DEFINE s == Subject(b)
  <2>1. /\ s \in Subjects /\ writer[s].handoff = "complete"
        /\ UNCHANGED <<entry, archive, lease, crashes>>
    BY <1>6, Known DEF Acknowledge, globalFile
  <2>2. \A o \in Subjects : o # s => writer'[o] = writer[o]
    BY <1>6 DEF Acknowledge, TypeInv, WriterType
  <2>3. \A o \in Subjects :
          /\ luna'[o].state = luna[o].state /\ luna'[o].n = luna[o].n
          /\ luna[o].n # 0 => luna'[o].closed = luna[o].closed
    <3>1. luna[s].n = 0 /\ luna[s] \in LunaFiles
          /\ luna' = [luna EXCEPT ![s].closed = TRUE]
      BY <1>6, <2>1 DEF Acknowledge, TypeInv, LunaType
    <3>2. luna'[s].state = luna[s].state /\ luna'[s].n = luna[s].n
      BY <2>1, <3>1 DEF LunaFiles, TypeInv, LunaType
    <3>3. \A o \in Subjects : o # s => luna'[o] = luna[o]
      BY <3>1 DEF TypeInv, LunaType
    <3> QED
      BY <3>1, <3>2, <3>3
  <2>4. \A o \in Sols : Subject(o)' = Subject(o) /\ Status(o)' = Status(o)
    BY <2>1 DEF Subject, Status
  <2> HIDE DEF s
  <2>5. LunaInv'
    BY <2>1, <2>3, <2>4 DEF FilesInv, LunaInv
  <2>6. ASSUME crashes' = 0 PROVE AgreeInv'
    <3>1. AgreeInv /\ NoneOpen(s) /\ luna[s].state # "open"
      BY <2>1, <2>6, AwaitingIsVacant DEF FilesInv, AgreeInv
    <3> QED
      BY <1>1, <2>2, <2>3, <2>4, <3>1 DEF AgreeInv, NoneOpen, Writer
  <2> QED
    BY <2>5, <2>6 DEF FilesInv
<1> QED
  BY <1>2, <1>3, <1>4, <1>5, <1>6

\* Every step keeps the files in agreement.
LEMMA FilesStep ==
  TypeInv /\ QueueInv /\ FilesInv /\ [Next]_vars => FilesInv'
<1> SUFFICES ASSUME TypeInv, QueueInv, FilesInv, [Next]_vars PROVE FilesInv'
  OBVIOUS
<1>1. CASE UNCHANGED vars
  BY <1>1 DEF vars, globalFile, lunaFiles, FilesInv, LunaInv, AgreeInv,
     Writer, Subject, Status
<1>2. ASSUME NEW s \in Subjects, Daemon(s) PROVE FilesInv'
  BY <1>2, DaemonFiles
<1>3. ASSUME NEW b \in Sols, Work(b) \/ Command(b) \/ Die(b) PROVE FilesInv'
  BY <1>3, OutsideFiles, LeaseFiles, RefusedFiles, CommandFiles
  DEF Work, Command
<1> QED
  BY <1>1, <1>2, <1>3 DEF Next

-----------------------------------------------------------------------------
(* What was written and what was counted.  A run that is to be reviewed    *)
(* wrote all but the capture it was stopped at, and a batch that waits for *)
(* an answer lacks the capture asked about and no other.                   *)

Written(b) == Cardinality(formal[b])

\* The run of b is over with its writing.
Done(b) == run[b].pc \in {"review", "apply"}

PartOf(b) ==
  /\ Done(b) => /\ Captures \ {run[b].conflict} \subseteq formal[b]
                /\ counted[b] + run[b].wrote <= Written(b)
  /\ cont[b].capture \in Captures =>
       Captures \ {cont[b].capture} \subseteq formal[b]
  /\ Status(b) = "committed" => formal[b] = Captures
  /\ counted[b] <= Written(b)

PartInv == \A b \in Sols : PartOf(b)

LEMMA PartInit == Init => PartInv
<1>1. ASSUME Init PROVE PartInv
  <2>1. Cardinality({}) = 0
    BY FS_EmptySet
  <2> QED
    BY <1>1, <2>1 DEF Init, PartInv, PartOf, Done, Idle, Status, NoEntry,
       NoCont, Written
<1> QED
  BY <1>1

\* The steps that write, count and commit nothing, and after which no run is
\* done that was not.
LEMMA PartKept ==
  ASSUME PartInv, UNCHANGED <<formal, counted>>,
         \A b \in Sols :
           /\ Done(b)' => Done(b) /\ run'[b].conflict = run[b].conflict
                                  /\ run'[b].wrote = run[b].wrote
           /\ cont'[b] = cont[b]
           /\ Status(b)' = "committed" => Status(b) = "committed"
  PROVE  PartInv'
<1> SUFFICES ASSUME NEW b \in Sols PROVE PartOf(b)'
  BY DEF PartInv
<1>1. PartOf(b) /\ Written(b)' = Written(b)
  BY DEF PartInv, Written
<1>2. /\ formal' = formal /\ counted' = counted /\ cont'[b] = cont[b]
      /\ Done(b)' => Done(b) /\ run'[b].conflict = run[b].conflict
                             /\ run'[b].wrote = run[b].wrote
      /\ Status(b)' = "committed" => Status(b) = "committed"
  BY DEF Done, Status
<1> QED
  BY <1>1, <1>2 DEF PartOf

\* What a writer adds to what was written.
LEMMA WritesAdd ==
  ASSUME TypeInv, NEW b \in Sols, NEW W, W \subseteq Asked(b), Writes(b, W)
  PROVE  /\ formal'[b] = formal[b] \cup W
         /\ \A o \in Sols : o # b => formal'[o] = formal[o]
         /\ Written(b) \in Nat /\ Written(b)' \in Nat
         /\ Written(b)' = Written(b) + Cardinality(W \ formal[b])
         /\ Cardinality(W \ formal[b]) \in Nat
<1>1. /\ formal'[b] = formal[b] \cup W
      /\ \A o \in Sols : o # b => formal'[o] = formal[o]
  BY DEF Writes, TypeInv, OutsideType
<1>2. IsFiniteSet(formal[b])
  BY FS_Subset DEF TypeInv, OutsideType
<1>3. IsFiniteSet(W \ formal[b])
  <2>1. W \ formal[b] \subseteq Captures \cup {None}
    BY DEF Asked, TypeInv, OutsideType, Conts
  <2> QED
    BY <2>1, FS_AddElement, FS_Subset
<1>4. formal[b] \cap (W \ formal[b]) = {}
      /\ formal[b] \cup (W \ formal[b]) = formal[b] \cup W
  OBVIOUS
<1>5. /\ Cardinality(formal[b]) \in Nat
      /\ Cardinality(W \ formal[b]) \in Nat
      /\ Cardinality({}) = 0
  BY <1>2, <1>3, FS_CardinalityType, FS_EmptySet
<1>6. Cardinality(formal[b] \cup W)
        = Cardinality(formal[b]) + Cardinality(W \ formal[b])
  <2> DEFINE S == formal[b]
             V == W \ formal[b]
  <2>1. /\ IsFiniteSet(S) /\ IsFiniteSet(V) /\ S \cap V = {}
        /\ Cardinality(S) \in Nat /\ Cardinality(V) \in Nat
    BY <1>2, <1>3, <1>4, <1>5
  <2>2. Cardinality(S \cup V) = Cardinality(S) + Cardinality(V)
    <3> HIDE DEF S, V
    <3>1. Cardinality(S \cup V)
            = Cardinality(S) + Cardinality(V) - Cardinality(S \cap V)
      BY <2>1, FS_Union
    <3>2. Cardinality(S \cap V) = Cardinality({})
      BY <2>1, Zenon
    <3> QED
      BY <2>1, <3>1, <3>2, <1>5
  <2> QED
    BY <2>2, <1>4
<1> QED
  BY <1>1, <1>5, <1>6 DEF Written

\* The adapter's steps.
LEMMA ExecutePart ==
  ASSUME TypeInv, PartInv, NEW b \in Sols, Execute(b) \/ ExecuteFails(b)
  PROVE  PartInv'
<1>1. /\ UNCHANGED <<counted, cont, entry>>
      /\ \A o \in Sols : Status(o)' = Status(o)
      /\ \A o \in Sols : o # b => run'[o] = run[o]
  BY DEF Execute, ExecuteFails, globalFile, Status, TypeInv, RunType
<1>2. PICK W :
      /\ W \subseteq Asked(b) /\ Writes(b, W)
      /\ Done(b)' => /\ Captures \ {run'[b].conflict} \subseteq formal[b] \cup W
                     /\ run'[b].wrote = Cardinality(W \ formal[b])
  <2>1. CASE Execute(b)
    <3>1. PICK c \in Asked(b) \cup {None} :
            /\ c # None => run[b].kind = "nightly"
            /\ Writes(b, Asked(b) \ {c})
            /\ run' = [run EXCEPT ![b].pc = "review", ![b].conflict = c,
                 ![b].wrote = Cardinality((Asked(b) \ {c}) \ formal[b])]
      BY <2>1 DEF Execute
    <3> DEFINE k == Cardinality((Asked(b) \ {c}) \ formal[b])
    <3>2. run'[b].conflict = c /\ run'[b].wrote = k
      <4> HIDE DEF k
      <4>1. run' = [run EXCEPT ![b].pc = "review", ![b].conflict = c,
                               ![b].wrote = k]
        BY <3>1 DEF k
      <4> QED
        BY <4>1 DEF TypeInv, RunType, Runs
    <3>3. Captures \ {c} \subseteq formal[b] \cup (Asked(b) \ {c})
      <4>1. CASE run[b].kind = "resumed"
        <5>1. c = None /\ Asked(b) = {cont[b].capture}
              /\ cont[b].capture \in Captures
          BY <3>1, <4>1 DEF Asked, TypeInv, RunType
        <5>2. Captures \ {cont[b].capture} \subseteq formal[b]
          BY <5>1 DEF PartInv, PartOf
        <5> QED
          BY <5>1, <5>2
      <4>2. CASE run[b].kind # "resumed"
        BY <4>2 DEF Asked
      <4> QED
        BY <4>1, <4>2
    <3>4. Asked(b) \ {c} \subseteq Asked(b)
      OBVIOUS
    <3> QED
      BY <3>1, <3>2, <3>3, <3>4
  <2>2. CASE ExecuteFails(b)
    <3>1. ~ Done(b)'
      BY <2>2 DEF ExecuteFails, Done, TypeInv, RunType, Runs
    <3> QED
      BY <2>2, <3>1 DEF ExecuteFails
  <2> QED
    BY <2>1, <2>2
<1>3. /\ formal'[b] = formal[b] \cup W
      /\ \A o \in Sols : o # b => formal'[o] = formal[o]
      /\ Written(b) \in Nat /\ Written(b)' \in Nat
      /\ Written(b)' = Written(b) + Cardinality(W \ formal[b])
      /\ Cardinality(W \ formal[b]) \in Nat
  <2>1. W \subseteq Asked(b) /\ Writes(b, W)
    BY <1>2
  <2> QED
    BY <2>1, WritesAdd
<1>4. ASSUME NEW o \in Sols, o # b PROVE PartOf(o)'
  <2>1. PartOf(o) /\ Written(o)' = Written(o)
    BY <1>3, <1>4 DEF PartInv, Written
  <2> QED
    BY <1>1, <1>3, <1>4, <2>1 DEF PartOf, Done
<1>5. PartOf(b)'
  <2>1. PartOf(b) /\ counted[b] \in Nat /\ formal[b] \subseteq Captures
        /\ formal'[b] \subseteq Captures
    <3>1. W \subseteq Captures
      <4>1. W \subseteq Asked(b)
        BY <1>2
      <4> QED
        BY <4>1 DEF Asked, TypeInv, RunType
    <3> QED
      BY <1>3, <3>1 DEF PartInv, TypeInv, GlobalType, OutsideType
  <2>2. Status(b)' = Status(b) /\ cont' = cont /\ counted' = counted
    BY <1>1
  <2>3. Done(b)' =>
          /\ Captures \ {run'[b].conflict} \subseteq formal'[b]
          /\ counted'[b] + run'[b].wrote <= Written(b)'
    <3>1. SUFFICES ASSUME Done(b)'
                   PROVE  /\ Captures \ {run'[b].conflict} \subseteq formal'[b]
                          /\ counted'[b] + run'[b].wrote <= Written(b)'
      OBVIOUS
    <3>2. /\ Captures \ {run'[b].conflict} \subseteq formal[b] \cup W
          /\ run'[b].wrote = Cardinality(W \ formal[b])
      BY <1>2, <3>1
    <3>3. counted[b] <= Written(b)
      BY <2>1 DEF PartOf
    <3> QED
      BY <1>3, <2>1, <2>2, <3>2, <3>3
  <2>4. /\ cont'[b].capture \in Captures =>
             Captures \ {cont'[b].capture} \subseteq formal'[b]
        /\ Status(b)' = "committed" => formal'[b] = Captures
        /\ counted'[b] <= Written(b)'
    BY <1>3, <2>1, <2>2 DEF PartOf
  <2> QED
    BY <2>3, <2>4 DEF PartOf
<1> QED
  BY <1>4, <1>5 DEF PartInv


\* A process that goes on to something else is not done with writing.
LEMMA NotDone ==
  ASSUME TypeInv, NEW b \in Sols, NEW r, r.pc \notin {"review", "apply"},
         Becomes(b, r) \/ run' = [run EXCEPT ![b] = r]
  PROVE  \A o \in Sols : Done(o)' => Done(o) /\ run'[o] = run[o]
  BY DEF Done, Becomes, Idle, TypeInv, RunType

\* The daemon's steps, and those that change neither what was written nor what
\* was counted.
LEMMA OtherPart ==
  ASSUME TypeInv, QueueInv, PartInv, NEW b \in Sols,
         \/ \E s \in Subjects : Daemon(s)
         \/ BeginRefused(b) \/ PublishFails(b) \/ Approve(b) \/ FailReview(b)
         \/ Restore(b) \/ Refused(b) \/ Die(b) \/ Command(b)
  PROVE  PartInv'
<1>1. UNCHANGED <<formal, counted, cont>>
  BY DEF Daemon, Prepare, Claim, Complete, Rollover, Record, BeginRefused,
     PublishFails, Approve, FailReview, RejectApply, Restore, Refused, Die,
     Command, Admit, Authorize, Begin, Resume, Acknowledge, Abandon,
     globalFile, outside
<1>2. ASSUME NEW o \in Sols, Status(o)' = "committed"
      PROVE  Status(o) = "committed"
  <2>1. \/ UNCHANGED entry
        \/ \E st \in {"active", "reviewed", "safe_paused", "queued"} :
             Enters(b, st)
        \/ active # Free /\ Enters(active.sol, "safe_paused")
        \/ \E s \in Subjects : \E n \in 0..Batches[s] :
             entry' = [entry EXCEPT ![b] = [subject |-> s, luna |-> n,
                                            status |-> "queued"]]
    BY DEF Daemon, Prepare, Claim, Complete, Rollover, Record, BeginRefused,
       PublishFails, Approve, FailReview, RejectApply, Restore, Refused, Die,
       Command, Admit, Authorize, Begin, Resume, Acknowledge, Abandon, Stops,
       SetsAside, globalFile
  <2>2. ASSUME NEW st \in {"active", "reviewed", "safe_paused", "queued"},
               NEW p \in Sols, Enters(p, st)
        PROVE  Status(o) = "committed"
    BY <1>2, <2>2, EntersStatus
  <2>3. active # Free => active.sol \in Sols
    BY DEF QueueInv, TypeInv, GlobalType, Leases
  <2>4. CASE UNCHANGED entry
    BY <1>2, <2>4 DEF Status
  <2>5. CASE \E s \in Subjects : \E n \in 0..Batches[s] :
               entry' = [entry EXCEPT ![b] = [subject |-> s, luna |-> n,
                                              status |-> "queued"]]
    BY <1>2, <2>5 DEF Status, TypeInv, GlobalType
  <2> QED
    BY <2>1, <2>2, <2>3, <2>4, <2>5
<1>3. ASSUME NEW o \in Sols, Done(o)'
      PROVE  /\ Done(o) /\ run'[o].conflict = run[o].conflict
             /\ run'[o].wrote = run[o].wrote
  <2>1. CASE Approve(b)
    <3> DEFINE r == [run[b] EXCEPT !.pc = "apply"]
    <3>1. /\ r.conflict = run[b].conflict /\ r.wrote = run[b].wrote
          /\ run[b].pc = "review" /\ Becomes(b, r)
      BY <2>1 DEF Approve, TypeInv, RunType, Runs
    <3> HIDE DEF r
    <3> QED
      BY <1>3, <3>1 DEF Becomes, Done, Idle, TypeInv, RunType
  <2>2. CASE UNCHANGED run
    BY <1>3, <2>2 DEF Done
  <2>3. CASE \E r : /\ r.pc \notin {"review", "apply"}
                    /\ Becomes(b, r) \/ run' = [run EXCEPT ![b] = r]
    BY <1>3, <2>3, NotDone
  <2>4. CASE PublishFails(b) \/ RejectApply(b)
    <3> DEFINE r == [run[b] EXCEPT !.pc = "fail"]
    <3>1. /\ r.pc = "fail"
          /\ UNCHANGED run \/ Becomes(b, r) \/ run' = [run EXCEPT ![b] = r]
      BY <2>4 DEF PublishFails, RejectApply, TypeInv, RunType, Runs
    <3> HIDE DEF r
    <3> QED
      BY <2>2, <2>3, <3>1
  <2>5. CASE \E s \in Subjects : Daemon(s)
    BY <2>2, <2>5 DEF Daemon, Prepare, Claim, Complete, Rollover, Record
  <2>6. CASE BeginRefused(b) \/ Restore(b) \/ Refused(b) \/ Die(b)
    <3>1. Idle.pc = "idle"
      BY DEF Idle
    <3> QED
      BY <2>3, <2>6, <3>1 DEF BeginRefused, Restore, Refused, Die
  <2>7. CASE FailReview(b)
    <3>1. /\ [run[b] EXCEPT !.pc = "restore"].pc = "restore"
          /\ Idle.pc = "idle"
      BY DEF Idle, TypeInv, RunType, Runs
    <3> QED
      BY <2>3, <2>7, <3>1 DEF FailReview
  <2>8. CASE Command(b)
    <3> DEFINE goes == [run[b] EXCEPT !.pc = "begin"]
               begun == [run[b] EXCEPT !.pc = "execute", !.token = next]
               admits == [Idle EXCEPT !.pc = "authorize", !.kind = "nightly"]
               resumes == [Idle EXCEPT !.pc = "begin", !.kind = "resumed"]
    <3>1. /\ goes.pc = "begin" /\ begun.pc = "execute"
          /\ admits.pc = "authorize" /\ resumes.pc = "begin"
      BY DEF Idle, TypeInv, RunType, Runs
    <3>2. \/ UNCHANGED run \/ Becomes(b, goes) \/ Becomes(b, begun)
          \/ Becomes(b, admits) \/ Becomes(b, resumes) \/ RejectApply(b)
      BY <2>8 DEF Command, Admit, Authorize, Begin, Resume, Acknowledge, Abandon
    <3> HIDE DEF goes, begun, admits, resumes
    <3> QED
      BY <2>2, <2>3, <2>4, <3>1, <3>2
  <2> QED
    BY <2>1, <2>4, <2>5, <2>6, <2>7, <2>8
<1> QED
  BY <1>1, <1>2, <1>3, PartKept


\* A receipt counts what its run wrote, or nothing.  A batch is committed by a run that
\* was stopped nowhere, and one that was stopped waits with its capture.
LEMMA ReceiptPart ==
  ASSUME TypeInv, PartInv, NEW b \in Sols, Finish(b) \/ PauseForConflict(b)
  PROVE  PartInv'
<1>1. /\ run[b].pc = "apply" /\ run' = [run EXCEPT ![b] = Idle]
      /\ UNCHANGED formal
      /\ \/ UNCHANGED cont
         \/ cont' = [cont EXCEPT ![b] = [token |-> run[b].token,
                                         capture |-> run[b].conflict]]
      /\ \/ /\ \E st \in {"committed", "safe_paused"} : Enters(b, st)
            /\ \E k \in {0, run[b].wrote} :
                 counted' = [counted EXCEPT ![b] = @ + k]
         \/ UNCHANGED <<entry, counted>>
  BY DEF Finish, PauseForConflict, Applied, outside
<1>2. /\ Captures \ {run[b].conflict} \subseteq formal[b]
      /\ counted[b] + run[b].wrote <= Written(b) /\ PartOf(b)
  BY <1>1 DEF PartInv, PartOf, Done
<1>3. \A o \in Sols : Written(o)' = Written(o)
  BY <1>1 DEF Written
<1>4. \A o \in Sols : Done(o)' => o # b /\ Done(o) /\ run'[o] = run[o]
  BY <1>1 DEF Done, Idle, TypeInv, RunType
<1>5. ASSUME NEW o \in Sols, o # b PROVE PartOf(o)'
  <2>1. /\ PartOf(o) /\ cont'[o] = cont[o] /\ counted'[o] = counted[o]
        /\ formal'[o] = formal[o]
    BY <1>1, <1>5 DEF PartInv, TypeInv, OutsideType, GlobalType
  <2>2. Status(o)' = Status(o)
    BY <1>1, <1>5, EntersStatus DEF Status
  <2> QED
    BY <1>3, <1>4, <2>1, <2>2 DEF PartOf
<1>6. PartOf(b)'
  <2>1. ~ Done(b)'
    BY <1>4
  <2>2. counted'[b] <= Written(b)'
    <3>1. /\ counted[b] \in Nat /\ run[b].wrote \in Nat
          /\ counted[b] <= Written(b) /\ Written(b)' = Written(b)
      BY <1>2, <1>3 DEF PartOf, TypeInv, GlobalType, RunType, Runs
    <3>2. \/ counted'[b] = counted[b]
          \/ counted'[b] = counted[b] + run[b].wrote
      BY <1>1, <3>1 DEF TypeInv, GlobalType
    <3> QED
      BY <1>2, <3>1, <3>2
  <2>3. cont'[b].capture \in Captures =>
          Captures \ {cont'[b].capture} \subseteq formal'[b]
    BY <1>1, <1>2 DEF PartOf, TypeInv, OutsideType
  <2>4. Status(b)' = "committed" => formal'[b] = Captures
    <3>1. CASE Finish(b)
      <4>1. run[b].conflict = None
        BY <3>1 DEF Finish
      <4>2. formal[b] \subseteq Captures /\ None \notin Captures
        BY DEF TypeInv, OutsideType
      <4>3. formal[b] = Captures
        BY <1>2, <4>1, <4>2
      <4>4. formal' = formal
        BY <1>1
      <4> QED
        BY <4>3, <4>4
    <3>2. CASE PauseForConflict(b)
      <4>1. Status(b)' = "committed" => Status(b) = "committed"
        BY <3>2, EntersStatus DEF PauseForConflict, Applied, Status
      <4>2. formal' = formal
        BY <1>1
      <4> QED
        BY <1>2, <4>1, <4>2 DEF PartOf
    <3> QED
      BY <3>1, <3>2
  <2> QED
    BY <2>1, <2>2, <2>3, <2>4 DEF PartOf
<1> QED
  BY <1>5, <1>6 DEF PartInv

\* Every step keeps the account of the writes.
LEMMA PartStep == TypeInv /\ QueueInv /\ PartInv /\ [Next]_vars => PartInv'
<1> SUFFICES ASSUME TypeInv, QueueInv, PartInv, [Next]_vars PROVE PartInv'
  OBVIOUS
<1>1. CASE UNCHANGED vars
  BY <1>1 DEF vars, globalFile, outside, PartInv, PartOf, Done, Written, Status
<1>2. ASSUME NEW s \in Subjects, Daemon(s) PROVE PartInv'
  <2>1. CASE Sols = {}
    BY <2>1 DEF PartInv
  <2> QED
    BY <1>2, <2>1, OtherPart
<1>3. ASSUME NEW b \in Sols, Work(b) \/ Command(b) \/ Die(b) PROVE PartInv'
  BY <1>3, ExecutePart, OtherPart, ReceiptPart DEF Work
<1> QED
  BY <1>1, <1>2, <1>3 DEF Next

-----------------------------------------------------------------------------
(* What becomes of a writer file's fence, its count and its commit.        *)

\* No fence is lifted, and nothing is counted, in the file of s.
Kept(s) == /\ writer'[s].count = writer[s].count
           /\ writer[s].blocked => writer'[s].blocked

\* No batch of s is committed, or applied in part.
Commits(s) == writer'[s].commit \in {0, writer[s].commit}

LEMMA FileKept ==
  ASSUME TypeInv, NEW s \in Subjects, NEW w,
         w.count = writer[s].count, writer[s].blocked => w.blocked,
         \/ ThenWriter(s, w) \/ writer' = [writer EXCEPT ![s] = w]
         \/ writer' = writer
  PROVE  /\ \A o \in Subjects : Kept(o)
         /\ w.commit \in {0, writer[s].commit} => \A o \in Subjects : Commits(o)
  BY DEF ThenWriter, Kept, Commits, TypeInv, WriterType

\* Only a rollover lifts a fence for the daemon, which counts nothing.
LEMMA DaemonKeeps ==
  ASSUME TypeInv, NEW s \in Subjects, Daemon(s)
  PROVE  /\ UNCHANGED <<entry, counted>>
         /\ \A o \in Subjects : writer'[o].count = writer[o].count
         /\ \A o \in Subjects : Commits(o)
         /\ (\A o \in Subjects : Kept(o)) \/ Rollover(s)
         /\ \A o \in Subjects : o # s => writer'[o] = writer[o]
<1>1. UNCHANGED <<entry, counted>> /\ writer[s] \in WriterFiles
  BY DEF Daemon, Prepare, Claim, Complete, Rollover, Record, globalFile,
     TypeInv, WriterType
<1>2. CASE Rollover(s)
  BY <1>1, <1>2 DEF Rollover, Commits, TypeInv, WriterType, WriterFiles
<1>3. CASE Claim(s) \/ Complete(s)
  BY <1>1, <1>3 DEF Claim, Complete, Kept, Commits
<1>4. ASSUME NEW w, w.count = writer[s].count, w.blocked = writer[s].blocked,
             w.commit \in {0, writer[s].commit},
             ThenWriter(s, w) \/ UNCHANGED writer
      PROVE  /\ \A o \in Subjects : Kept(o) /\ Commits(o)
             /\ \A o \in Subjects : o # s => writer'[o] = writer[o]
  <2>1. \A o \in Subjects : Kept(o) /\ Commits(o)
    BY <1>4, FileKept
  <2> QED
    BY <1>4, <2>1 DEF ThenWriter, TypeInv, WriterType
<1>5. CASE Prepare(s)
  <2> DEFINE w == [writer[s] EXCEPT !.handoff = "awaiting_luna",
                     !.batch = Luna(luna[s].n + 1), !.commit = 0]
  <2>1. /\ w.blocked = writer[s].blocked /\ w.count = writer[s].count
        /\ w.commit = 0
    BY <1>1 DEF WriterFiles
  <2>2. ThenWriter(s, w) \/ UNCHANGED writer
    BY <1>5 DEF Prepare, WritesBatch
  <2> HIDE DEF w
  <2> QED
    BY <1>1, <1>4, <2>1, <2>2 DEF Kept
<1>6. ASSUME NEW state \in {"ready", "spent"}, Record(s, state)
      PROVE  /\ \A o \in Subjects : Kept(o) /\ Commits(o)
             /\ \A o \in Subjects : o # s => writer'[o] = writer[o]
  <2> DEFINE w == [writer[s] EXCEPT
                     !.handoff = IF state = "ready"
                                 THEN "ready_for_authorization"
                                 ELSE "awaiting_luna",
                     !.batch = Luna(luna[s].n)]
  <2>1. /\ w.blocked = writer[s].blocked /\ w.count = writer[s].count
        /\ w.commit = writer[s].commit
    BY <1>1 DEF WriterFiles
  <2>2. ThenWriter(s, w) \/ UNCHANGED writer
    BY <1>6 DEF Record, WritesBatch
  <2> HIDE DEF w
  <2> QED
    BY <1>4, <2>1, <2>2
<1> QED
  BY <1>1, <1>2, <1>3, <1>5, <1>6 DEF Daemon, Kept

\* The steps of a batch that neither count nor lift a fence.
LEMMA BatchKeeps ==
  ASSUME TypeInv, QueueInv, NEW b \in Sols,
         Work(b) \/ Command(b) \/ Die(b),
         ~ Finish(b), ~ PauseForConflict(b), ~ Acknowledge(b)
  PROVE  /\ UNCHANGED counted /\ \A o \in Subjects : Kept(o)
         /\ ~ Restore(b) => \A o \in Subjects : Commits(o)
<1>1. UNCHANGED counted
  BY DEF Work, Command, BeginRefused, Execute, ExecuteFails, PublishFails,
     Approve, FailReview, Restore, Refused, Admit, Authorize, Begin, Resume,
     Abandon, RejectApply, Die, globalFile
<1>2. \A s \in Subjects : writer[s] \in WriterFiles
  BY DEF TypeInv, WriterType
<1> DEFINE K == \A o \in Subjects : Kept(o) /\ Commits(o)
<1>3. ASSUME writer' = writer PROVE K
  BY <1>3 DEF Kept, Commits
<1>4. ASSUME NEW s \in Subjects, NEW w, w.count = writer[s].count,
             writer[s].blocked => w.blocked, w.commit \in {0, writer[s].commit},
             \/ ThenWriter(s, w) \/ writer' = [writer EXCEPT ![s] = w]
             \/ writer' = writer
      PROVE  K
  BY <1>4, FileKept
<1>5. ASSUME NEW s \in Subjects, NEW h,
             \/ ThenWriter(s, Handoff(s, h))
             \/ writer' = [writer EXCEPT ![s] = Handoff(s, h)]
      PROVE  K
  <2> DEFINE w == Handoff(s, h)
  <2>1. /\ w.blocked = writer[s].blocked /\ w.count = writer[s].count
        /\ w.commit = writer[s].commit
    BY <1>2 DEF WriterFiles, Handoff
  <2> HIDE DEF w, K
  <2> QED
    BY <1>4, <1>5, <2>1 DEF w
<1>6. ASSUME NEW p \in Sols, active.sol = p, Stops(p) \/ SetsAside(p) PROVE K
  <2>1. Subject(p) \in Subjects
    BY <1>6, Known
  <2>2. CASE SetsAside(p)
    BY <1>5, <2>1, <2>2 DEF SetsAside
  <2>3. CASE Stops(p)
    <3>1. writer' = [writer EXCEPT ![Subject(p)] =
                        Handoff(Subject(p), "safe_paused")]
      BY <2>1, <2>3 DEF Stops, Handoff, TypeInv, WriterType
    <3> QED
      BY <1>5, <2>1, <3>1
  <2> QED
    BY <1>6, <2>2, <2>3
<1>7. CASE BeginRefused(b) \/ Execute(b) \/ ExecuteFails(b) \/ PublishFails(b)
           \/ Die(b)
  BY <1>1, <1>3, <1>7 DEF BeginRefused, Execute, ExecuteFails, PublishFails, Die
<1>8. CASE Approve(b)
  <2>1. Subject(b) \in Subjects
    BY <1>8, Known DEF Approve, Holds
  <2> QED
    BY <1>1, <1>5, <1>8, <2>1 DEF Approve
<1>9. CASE FailReview(b) \/ RejectApply(b) \/ Abandon(b)
  BY <1>1, <1>6, <1>9 DEF FailReview, RejectApply, Abandon, Holds
<1>10. CASE Refused(b)
  <2>1. active # Free => active.sol \in Sols
    BY DEF QueueInv, TypeInv, GlobalType, Leases
  <2> QED
    BY <1>1, <1>3, <1>6, <1>10, <2>1 DEF Refused
<1>11. CASE Restore(b)
  <2>1. CASE IsPaused(b)
    <3>1. Subject(b) \in Subjects
      BY <2>1, Known DEF IsPaused
    <3> DEFINE w == [Writer(b) EXCEPT !.commit = cont[b].token]
    <3>2. writer' = [writer EXCEPT ![Subject(b)] = w]
      BY <1>11, <2>1, <3>1 DEF Restore, Writer, TypeInv, WriterType
    <3>3. w.blocked = Writer(b).blocked /\ w.count = Writer(b).count
      BY <1>2, <3>1 DEF Writer, WriterFiles
    <3> HIDE DEF w
    <3> QED
      BY <1>1, <1>11, <3>1, <3>2, <3>3, FileKept DEF Writer
  <2>2. CASE ~ IsPaused(b)
    <3>1. writer' = writer
      BY <1>11, <2>2 DEF Restore
    <3> QED
      BY <1>1, <1>3, <3>1
  <2> QED
    BY <2>1, <2>2
<1>12. ASSUME NEW s \in Subjects, Admit(b, s) PROVE K
  <2> DEFINE w == [writer[s] EXCEPT !.handoff = "ready_for_authorization",
                                    !.batch = Luna(1), !.commit = 0]
  <2>1. /\ w.blocked = writer[s].blocked /\ w.count = writer[s].count
        /\ w.commit = 0
    BY <1>2 DEF WriterFiles
  <2>2. ThenWriter(s, w) \/ writer' = writer
    BY <1>12 DEF Admit, WritesBatch
  <2> HIDE DEF w, K
  <2> QED
    BY <1>4, <2>1, <2>2
<1>13. ASSUME NEW s \in Subjects, NEW n \in 0..Batches[s], Authorize(b, s, n)
       PROVE  K
  <2> DEFINE w == [writer[s] EXCEPT !.handoff = "queued_for_sol",
                                    !.batch = Sol(b)]
  <2>1. /\ w.blocked = writer[s].blocked /\ w.count = writer[s].count
        /\ w.commit = writer[s].commit
    BY <1>2 DEF WriterFiles
  <2>2. ThenWriter(s, w)
    BY <1>13 DEF Authorize
  <2> HIDE DEF w, K
  <2> QED
    BY <1>4, <2>1, <2>2
<1>14. CASE Begin(b)
  <2> DEFINE s == Subject(b)
             w == [writer[s] EXCEPT !.handoff = "sol_reviewing",
                                    !.token = next, !.blocked = TRUE]
  <2>1. s \in Subjects
    BY <1>14, Known DEF Begin, CanBegin, Head
  <2>2. /\ w.blocked = TRUE /\ w.count = writer[s].count
        /\ w.commit = writer[s].commit
    BY <1>2, <2>1 DEF WriterFiles
  <2>3. ThenWriter(s, w)
    BY <1>14 DEF Begin, Writer
  <2> HIDE DEF w, s, K
  <2> QED
    BY <1>1, <1>4, <2>1, <2>2, <2>3 DEF K
<1>15. CASE Resume(b)
  <2> DEFINE s == Subject(b)
             w == [writer[s] EXCEPT !.handoff = "queued_for_sol",
                                    !.commit = 0]
  <2>1. s \in Subjects
    BY <1>15, Known DEF Resume, IsPaused
  <2>2. /\ w.blocked = writer[s].blocked /\ w.count = writer[s].count
        /\ w.commit = 0
    BY <1>2, <2>1 DEF WriterFiles
  <2>3. ThenWriter(s, w)
    BY <1>15 DEF Resume, Writer
  <2> HIDE DEF w, s, K
  <2> QED
    BY <1>1, <1>4, <2>1, <2>2, <2>3 DEF K
<1> QED
  BY <1>1, <1>7, <1>8, <1>9, <1>10, <1>11, <1>12, <1>13, <1>14, <1>15
  DEF Work, Command

\* A receipt counts k writes in both files, or in the first one if the process
\* dies.
Receipt(b, k) ==
  /\ counted' = [counted EXCEPT ![b] = @ + k]
  /\ \A s \in Subjects : writer'[s].count =
       IF s = Subject(b) /\ crashes' = crashes
       THEN writer[s].count + k ELSE writer[s].count

\* It counts the writes of its run, or none, and leaves the fence up.
LEMMA ReceiptKeeps ==
  ASSUME TypeInv, QueueInv, NEW b \in Sols, Finish(b) \/ PauseForConflict(b)
  PROVE  /\ \A s \in Subjects : writer'[s].blocked = writer[s].blocked
         /\ \/ UNCHANGED <<counted, writer>>
            \/ \E k \in {0, run[b].wrote} : Receipt(b, k)
<1>1. CASE UNCHANGED <<counted, writer>>
  BY <1>1
<1>2. ASSUME NEW st, NEW h, NEW k \in {0, run[b].wrote}, Applied(b, st, h, k)
      PROVE  /\ \A s \in Subjects : writer'[s].blocked = writer[s].blocked
             /\ Receipt(b, k)
  <2> DEFINE m == Writer(b).count + k
             w == [Writer(b) EXCEPT !.handoff = h, !.commit = run[b].token,
                                    !.count = m]
  <2>1. Subject(b) \in Subjects /\ Writer(b) \in WriterFiles
    BY Known DEF Finish, PauseForConflict, Holds
  <2>2. w.blocked = Writer(b).blocked /\ w.count = m
    <3> HIDE DEF m
    <3> QED
      BY <2>1 DEF WriterFiles
  <2>3. ThenWriter(Subject(b), w)
    BY <1>2, <2>1 DEF Applied, WriterFiles
  <2>4. crashes \in Nat
    BY DEF TypeInv, WriterType
  <2> HIDE DEF w
  <2>5. \/ writer' = [writer EXCEPT ![Subject(b)] = w] /\ crashes' = crashes
        \/ writer' = writer /\ crashes' # crashes
    BY <2>3, <2>4 DEF ThenWriter, Dies
  <2>6. ASSUME NEW s \in Subjects
        PROVE  /\ writer'[s].blocked = writer[s].blocked
               /\ writer'[s].count =
                    IF s = Subject(b) /\ crashes' = crashes
                    THEN writer[s].count + k ELSE writer[s].count
    BY <2>1, <2>2, <2>5 DEF Writer, TypeInv, WriterType
  <2> QED
    BY <1>2, <2>6 DEF Applied, Receipt
<1> QED
  BY <1>1, <1>2 DEF Finish, PauseForConflict

-----------------------------------------------------------------------------
(* What a commit counts.  A run that begins finds nothing written, or all  *)
(* but one capture counted: a batch is run again only after a conflict,    *)
(* whose receipt had counted all but the capture asked about.              *)

Counts(b) == counted[b] + 1 >= Cardinality(Captures)

Ready(b) == (cont[b] = NoCont /\ formal[b] = {}) \/ Counts(b)

Waits(b) == Status(b) \in {"absent", "queued"} \/ run[b].pc = "execute"

Resumed(b) == run[b].kind = "resumed" \/ run[b].pc = "restore"

RunOf(b) ==
  /\ Waits(b) => Ready(b)
  /\ run[b].pc \in AtWork => cont[b] = NoCont \/ Counts(b)
  /\ Resumed(b) \/ Status(b) = "committed" => Counts(b)
  /\ Done(b) => counted[b] + run[b].wrote + 1 >= Cardinality(Captures)
  /\ cont[b] # NoCont =>
       /\ cont[b].token # 0 /\ cont[b].token < next
       /\ active.sol \notin {0, b} => cont[b].token # active.token
       /\ \A o \in Sols \ {b} : cont[o].token # cont[b].token

RunInv == \A b \in Sols : RunOf(b)

\* The commit of a writer file is an earlier lease's than the present one,
\* and if it is that of a continuation, the continuation's writes are counted.
CommitInv ==
  /\ \A s \in Subjects :
       /\ writer[s].commit < next
       /\ active.sol # 0 => writer[s].commit # active.token
  /\ \A b \in Sols :
       /\ Status(b) # "absent" /\ cont[b] # NoCont
       /\ Writer(b).commit = cont[b].token
       => Counts(b)

LowInv == RunInv /\ CommitInv

LEMMA LowInit == Init => LowInv
<1> SUFFICES ASSUME Init PROVE LowInv
  OBVIOUS
<1>1. \A b \in Sols : /\ cont[b] = NoCont /\ formal[b] = {}
                      /\ run[b] = Idle /\ Status(b) = "absent"
  BY DEF Init, NoEntry, Status
<1>2. \A s \in Subjects : writer[s].commit = 0 /\ active.sol = 0 /\ next = 1
  BY DEF Init, Free
<1> QED
  BY <1>1, <1>2 DEF LowInv, RunInv, RunOf, CommitInv, Ready, Done, Resumed,
     AtWork, Idle

\* How the lease goes on: it stays, is given up, or a newer one is given.
LeaseMoves ==
  /\ next' \in {next, next + 1}
  /\ active'.sol # 0 =>
       \/ active'.sol = active.sol /\ active'.token = active.token
       \/ active'.token = next

\* A step of batch b that counts nothing and publishes no continuation.
LEMMA RunKept ==
  ASSUME TypeInv, RunInv, UNCHANGED <<counted, cont>>, LeaseMoves,
         NEW b \in Sols,
         \A o \in Sols \ {b} :
           /\ run'[o] = run[o] /\ formal'[o] = formal[o]
           /\ Status(o)' \in {Status(o), "safe_paused"},
         Waits(b)' => (Waits(b) /\ formal'[b] = formal[b]) \/ Counts(b),
         run'[b].pc \in AtWork => run[b].pc \in AtWork \/ Waits(b),
         Resumed(b)' => Resumed(b) \/ Counts(b),
         Status(b)' = "committed" => Status(b) = "committed",
         Done(b)' => counted[b] + run'[b].wrote + 1 >= Cardinality(Captures)
  PROVE  RunInv'
<1> SUFFICES ASSUME NEW o \in Sols PROVE RunOf(o)'
  BY DEF RunInv
<1>1. /\ RunOf(o) /\ cont'[o] = cont[o] /\ counted'[o] = counted[o]
      /\ Counts(o)' = Counts(o)
  BY DEF RunInv, Counts
<1>2. cont'[o] # NoCont =>
        /\ cont'[o].token # 0 /\ cont'[o].token < next'
        /\ active'.sol \notin {0, o} => cont'[o].token # active'.token
        /\ \A q \in Sols \ {o} : cont'[q].token # cont'[o].token
  <2> SUFFICES ASSUME cont[o] # NoCont
               PROVE  /\ cont[o].token # 0 /\ cont[o].token < next'
                      /\ active'.sol \notin {0, o} =>
                           cont[o].token # active'.token
                      /\ \A q \in Sols \ {o} : cont[q].token # cont[o].token
    BY <1>1
  <2>1. /\ cont[o].token # 0 /\ cont[o].token < next
        /\ active.sol \notin {0, o} => cont[o].token # active.token
        /\ \A q \in Sols \ {o} : cont[q].token # cont[o].token
    BY <1>1 DEF RunOf
  <2>2. next \in Nat /\ cont[o].token \in Nat
    BY DEF TypeInv, GlobalType, OutsideType, Conts
  <2> QED
    BY <2>1, <2>2 DEF LeaseMoves
<1>3. CASE o = b
  <2>1. Waits(b)' => Ready(b)'
    <3>1. Waits(b)' => Ready(b) /\ (formal'[b] = formal[b] \/ Counts(b))
      BY <1>1, <1>3 DEF RunOf, Ready
    <3> QED
      BY <1>1, <1>3, <3>1 DEF Ready
  <2>2. run'[b].pc \in AtWork => cont'[b] = NoCont \/ Counts(b)'
    BY <1>1, <1>3 DEF RunOf, Ready
  <2>3. Resumed(b)' \/ Status(b)' = "committed" => Counts(b)'
    BY <1>1, <1>3 DEF RunOf
  <2> QED
    BY <1>1, <1>2, <1>3, <2>1, <2>2, <2>3 DEF RunOf
<1>4. CASE o # b
  <2>1. /\ run'[o] = run[o] /\ formal'[o] = formal[o]
        /\ Status(o)' \in {Status(o), "safe_paused"}
    BY <1>4
  <2>2. /\ Waits(o)' => Waits(o) /\ Ready(o)' = Ready(o)
        /\ Done(o)' = Done(o) /\ Resumed(o)' = Resumed(o)
    BY <1>1, <2>1 DEF Waits, Ready, Done, Resumed
  <2>3. /\ Waits(o)' => Ready(o)'
        /\ run'[o].pc \in AtWork => cont'[o] = NoCont \/ Counts(o)'
        /\ Resumed(o)' \/ Status(o)' = "committed" => Counts(o)'
        /\ Done(o)' =>
             counted'[o] + run'[o].wrote + 1 >= Cardinality(Captures)
    BY <1>1, <2>1, <2>2 DEF RunOf
  <2> QED
    BY <1>2, <2>3 DEF RunOf
<1> QED
  BY <1>3, <1>4

\* A step that commits nothing, and names a subject only for a batch that is
\* ready to run.
LEMMA CommitKept ==
  ASSUME TypeInv, QueueInv, LowInv, UNCHANGED <<counted, cont>>, LeaseMoves,
         \A s \in Subjects : Commits(s),
         \A o \in Sols : Status(o)' # "absent" =>
           \/ Status(o) # "absent" /\ Subject(o)' = Subject(o)
           \/ Status(o) = "absent" /\ Subject(o)' \in Subjects
  PROVE  CommitInv'
<1>1. next \in Nat \ {0} /\ \A s \in Subjects : writer[s].commit \in Nat
  BY DEF TypeInv, GlobalType, WriterType, WriterFiles
<1>2. active.sol # 0 => active.token # 0
  BY DEF QueueInv
<1>3. ASSUME NEW s \in Subjects
      PROVE  /\ writer'[s].commit < next'
             /\ active'.sol # 0 => writer'[s].commit # active'.token
  <2>1. /\ writer[s].commit < next
        /\ active.sol # 0 => writer[s].commit # active.token
    BY DEF LowInv, CommitInv
  <2>2. writer'[s].commit \in {0, writer[s].commit}
    BY DEF Commits
  <2> QED
    BY <1>1, <1>2, <2>1, <2>2 DEF LeaseMoves
<1>4. ASSUME NEW o \in Sols, Status(o)' # "absent", cont'[o] # NoCont,
             Writer(o)'.commit = cont'[o].token
      PROVE  Counts(o)'
  <2>1. cont'[o] = cont[o] /\ Counts(o)' = Counts(o)
    BY DEF Counts
  <2>2. CASE Status(o) = "absent"
    BY <1>4, <2>1, <2>2 DEF LowInv, RunInv, RunOf, Waits, Ready
  <2>3. CASE Status(o) # "absent"
    <3>1. Subject(o) \in Subjects /\ Subject(o)' = Subject(o)
      BY <1>4, <2>3 DEF TypeInv, GlobalType
    <3>2. writer'[Subject(o)].commit \in {0, writer[Subject(o)].commit}
      BY <3>1 DEF Commits
    <3>3. cont[o].token # 0
      BY <1>4, <2>1 DEF LowInv, RunInv, RunOf
    <3>4. Writer(o).commit = cont[o].token
      BY <1>4, <2>1, <3>1, <3>2, <3>3 DEF Writer
    <3> QED
      BY <1>4, <2>1, <2>3, <3>4 DEF LowInv, CommitInv
  <2> QED
    BY <2>2, <2>3
<1> QED
  BY <1>3, <1>4 DEF CommitInv

\* The daemon's steps.
LEMMA DaemonLow ==
  ASSUME TypeInv, QueueInv, LowInv, NEW s \in Subjects, Daemon(s)
  PROVE  LowInv'
<1>1. UNCHANGED <<active, next, entry, counted, cont, formal, run>>
  BY DEF Daemon, Prepare, Claim, Complete, Rollover, Record, globalFile, outside
<1>2. LeaseMoves /\ \A o \in Sols : Status(o)' = Status(o)
                                    /\ Subject(o)' = Subject(o)
  BY <1>1 DEF LeaseMoves, Status, Subject
<1>3. RunInv'
  BY <1>1, <1>2 DEF LowInv, RunInv, RunOf, Waits, Ready, Counts, Done, Resumed
<1>4. CommitInv'
  BY <1>1, <1>2, DaemonKeeps, CommitKept
<1> QED
  BY <1>3, <1>4 DEF LowInv

\* The adapter writes at least all captures but one, when nothing was written.
LEMMA ExecuteCounts ==
  ASSUME TypeInv, RunInv, NEW b \in Sols, Execute(b)
  PROVE  counted[b] + run'[b].wrote + 1 >= Cardinality(Captures)
<1>1. PICK c \in Asked(b) \cup {None} :
        /\ c # None => run[b].kind = "nightly"
        /\ run' = [run EXCEPT ![b].pc = "review", ![b].conflict = c,
             ![b].wrote = Cardinality((Asked(b) \ {c}) \ formal[b])]
  BY DEF Execute
<1> DEFINE k == Cardinality((Asked(b) \ {c}) \ formal[b])
<1>2. run'[b].wrote = k
  <2> HIDE DEF k
  <2>1. run' = [run EXCEPT ![b].pc = "review", ![b].conflict = c,
                           ![b].wrote = k]
    BY <1>1 DEF k
  <2> QED
    BY <2>1 DEF TypeInv, RunType, Runs
<1>3. counted[b] \in Nat /\ Cardinality(Captures) \in Nat
  BY FS_CardinalityType DEF TypeInv, GlobalType
<1>4. k \in Nat
  <2>1. (Asked(b) \ {c}) \ formal[b] \subseteq Captures
    BY DEF Asked, TypeInv, RunType
  <2> QED
    BY <2>1, FS_Subset, FS_CardinalityType
<1>5. RunOf(b) /\ run[b].pc = "execute"
  BY DEF RunInv, Execute
<1>6. CASE Counts(b)
  <2> HIDE DEF k
  <2> QED
    BY <1>2, <1>3, <1>4, <1>6 DEF Counts
<1>7. CASE ~ Counts(b)
  <2>1. formal[b] = {} /\ run[b].kind # "resumed"
    BY <1>5, <1>7 DEF RunOf, Waits, Ready, Resumed
  <2>2. (Asked(b) \ {c}) \ formal[b] = Captures \ {c}
    BY <2>1 DEF Asked
  <2>3. k + 1 >= Cardinality(Captures)
    <3>1. CASE c \in Captures
      <4>1. Cardinality(Captures \ {c}) = Cardinality(Captures) - 1
        BY <3>1, FS_RemoveElement
      <4>2. k = Cardinality(Captures \ {c})
        BY <2>2
      <4> HIDE DEF k
      <4> QED
        BY <1>3, <4>1, <4>2
    <3>2. CASE c \notin Captures
      <4>1. Captures \ {c} = Captures
        BY <3>2
      <4>2. k = Cardinality(Captures)
        BY <2>2, <4>1
      <4> HIDE DEF k
      <4> QED
        BY <1>3, <4>2
    <3> QED
      BY <3>1, <3>2
  <2> HIDE DEF k
  <2> QED
    BY <1>2, <1>3, <1>4, <2>3
<1> QED
  BY <1>6, <1>7

\* A batch at work has begun and is not committed.
LEMMA AtWorkIsHeld ==
  ASSUME QueueInv, NEW b \in Sols, run[b].pc \in AtWork
  PROVE  Status(b) \in Held /\ ~ (Status(b) \in {"absent", "queued"})
  BY DEF QueueInv, Held, Holds, Evicted

\* What the steps of a batch do to its process and its entry, but for the
\* receipts and the restoration of one.
LEMMA BatchRuns ==
  ASSUME TypeInv, QueueInv, LowInv, NEW b \in Sols,
         Work(b) \/ Command(b) \/ Die(b),
         ~ Finish(b), ~ PauseForConflict(b)
  PROVE  /\ Waits(b)' => (Waits(b) /\ formal'[b] = formal[b]) \/ Counts(b)
         /\ run'[b].pc \in AtWork => run[b].pc \in AtWork \/ Waits(b)
         /\ Resumed(b)' => Resumed(b) \/ Counts(b)
         /\ Status(b)' = "committed" => Status(b) = "committed"
         /\ Done(b)' =>
              counted[b] + run'[b].wrote + 1 >= Cardinality(Captures)
<1> DEFINE G ==
         /\ Waits(b)' => (Waits(b) /\ formal'[b] = formal[b]) \/ Counts(b)
         /\ run'[b].pc \in AtWork => run[b].pc \in AtWork \/ Waits(b)
         /\ Resumed(b)' => Resumed(b) \/ Counts(b)
         /\ Status(b)' = "committed" => Status(b) = "committed"
         /\ Done(b)' =>
              counted[b] + run'[b].wrote + 1 >= Cardinality(Captures)
<1>1. RunOf(b)
  BY DEF LowInv, RunInv
<1>2. /\ Idle.pc = "idle" /\ Idle.kind = "manual" /\ "idle" \notin AtWork
      /\ "authorize" \notin AtWork /\ "begin" \notin AtWork
      /\ "restore" \notin AtWork /\ "fail" \in AtWork /\ "apply" \in AtWork
      /\ "review" \in AtWork
  BY DEF Idle, AtWork
<1>3. ASSUME Status(b)' \in {Status(b), "safe_paused", "reviewed"},
             formal' = formal, NEW r, run' = [run EXCEPT ![b] = r],
             r.pc = "execute" => run[b].pc = "execute",
             r.pc \in AtWork => run[b].pc \in AtWork,
             r.kind = "resumed" \/ r.pc = "restore" => Resumed(b),
             r.pc \in {"review", "apply"} =>
               Done(b) /\ r.wrote = run[b].wrote
      PROVE  G
  <2>1. run'[b] = r
    BY <1>3 DEF TypeInv, RunType
  <2>2. Waits(b)' => Waits(b)
    BY <1>3, <2>1 DEF Waits
  <2>3. Done(b)' => Done(b) /\ run'[b].wrote = run[b].wrote
    BY <1>3, <2>1 DEF Done
  <2>4. Resumed(b)' => Resumed(b)
    BY <1>3, <2>1 DEF Resumed
  <2> QED
    BY <1>1, <1>3, <2>1, <2>2, <2>3, <2>4 DEF RunOf
<1>4. ASSUME Status(b)' \in {Status(b), "safe_paused", "reviewed"},
             formal' = formal, run' = [run EXCEPT ![b] = Idle]
      PROVE  G
  BY <1>2, <1>3, <1>4
<1>5. ASSUME Status(b)' \in {Status(b), "safe_paused", "reviewed"},
             formal' = formal, UNCHANGED run
      PROVE  G
  <2>1. run' = [run EXCEPT ![b] = run[b]]
    BY <1>5 DEF TypeInv, RunType
  <2> QED
    BY <1>3, <1>5, <2>1 DEF Done, Resumed
<1>6. ASSUME UNCHANGED entry PROVE Status(b)' = Status(b)
  BY <1>6 DEF Status
<1>7. ASSUME NEW p \in Sols, NEW st \in {"safe_paused", "reviewed"},
             Enters(p, st)
      PROVE  Status(b)' \in {Status(b), "safe_paused", "reviewed"}
  BY <1>7, EntersStatus
<1>8. CASE BeginRefused(b) \/ Die(b)
  BY <1>4, <1>6, <1>8 DEF BeginRefused, Die, globalFile, outside
<1>9. CASE Refused(b)
  <2>1. active # Free => active.sol \in Sols
    BY DEF QueueInv, TypeInv, GlobalType, Leases
  <2> QED
    BY <1>4, <1>6, <1>7, <1>9, <2>1 DEF Refused, Stops, outside
<1>10. CASE Execute(b)
  <2>1. UNCHANGED entry /\ run[b].pc = "execute" /\ "execute" \in AtWork
    BY <1>10 DEF Execute, globalFile, AtWork
  <2>2. run'[b].pc = "review" /\ run'[b].kind = run[b].kind
    BY <1>10 DEF Execute, TypeInv, RunType, Runs
  <2>3. ~ Waits(b)'
    BY <1>6, <2>1, <2>2, AtWorkIsHeld DEF Waits
  <2> QED
    BY <1>6, <1>10, <2>1, <2>2, <2>3, ExecuteCounts DEF LowInv, Resumed
<1>11. CASE ExecuteFails(b)
  <2>1. UNCHANGED entry /\ run[b].pc = "execute" /\ "execute" \in AtWork
    BY <1>11 DEF ExecuteFails, globalFile, AtWork
  <2>2. run'[b].pc = "fail" /\ run'[b].kind = run[b].kind
    BY <1>11 DEF ExecuteFails, TypeInv, RunType, Runs
  <2>3. ~ Waits(b)' /\ ~ Done(b)'
    BY <1>6, <2>1, <2>2, AtWorkIsHeld DEF Waits, Done
  <2> QED
    BY <1>6, <2>1, <2>2, <2>3 DEF Resumed
<1>12. CASE PublishFails(b)
  <2> DEFINE r == [run[b] EXCEPT !.pc = "fail"]
  <2>1. /\ r.pc = "fail" /\ r.kind = run[b].kind /\ run[b].pc \in AtWork
        /\ run' = [run EXCEPT ![b] = r]
    BY <1>2, <1>12 DEF PublishFails, TypeInv, RunType, Runs
  <2>2. UNCHANGED <<entry, formal>>
    BY <1>12 DEF PublishFails, globalFile, outside
  <2> HIDE DEF r
  <2> QED
    BY <1>2, <1>3, <1>6, <2>1, <2>2 DEF Resumed
<1>13. CASE Approve(b)
  <2> DEFINE r == [run[b] EXCEPT !.pc = "apply"]
  <2>1. /\ r.pc = "apply" /\ r.kind = run[b].kind /\ r.wrote = run[b].wrote
        /\ run[b].pc = "review"
        /\ run' = [run EXCEPT ![b] = r] \/ run' = [run EXCEPT ![b] = Idle]
    BY <1>13 DEF Approve, Becomes, TypeInv, RunType, Runs
  <2>2. Enters(b, "reviewed") /\ UNCHANGED formal
    BY <1>13 DEF Approve, outside
  <2>3. Status(b)' \in {Status(b), "safe_paused", "reviewed"}
    BY <1>7, <2>2
  <2> HIDE DEF r
  <2>4. CASE run' = [run EXCEPT ![b] = r]
    BY <1>2, <1>3, <2>1, <2>2, <2>3, <2>4 DEF Done, Resumed
  <2> QED
    BY <1>4, <2>1, <2>2, <2>3, <2>4
<1>14. CASE FailReview(b)
  <2> DEFINE r == [run[b] EXCEPT !.pc = "restore"]
  <2>1. /\ r.pc = "restore" /\ r.kind = run[b].kind
        /\ \/ run[b].kind = "resumed" /\ run' = [run EXCEPT ![b] = r]
           \/ run' = [run EXCEPT ![b] = Idle]
    BY <1>14 DEF FailReview, Becomes, TypeInv, RunType, Runs
  <2>2. Enters(b, "safe_paused") /\ UNCHANGED formal
    BY <1>14 DEF FailReview, SetsAside, outside
  <2>3. Status(b)' \in {Status(b), "safe_paused", "reviewed"}
    BY <1>7, <2>2
  <2> HIDE DEF r
  <2>4. CASE run[b].kind = "resumed" /\ run' = [run EXCEPT ![b] = r]
    BY <1>2, <1>3, <2>1, <2>2, <2>3, <2>4 DEF Resumed
  <2> QED
    BY <1>4, <2>1, <2>2, <2>3, <2>4
<1>15. CASE RejectApply(b)
  <2> DEFINE r == [run[b] EXCEPT !.pc = "fail"]
  <2>1. /\ r.pc = "fail" /\ r.kind = run[b].kind
        /\ \/ UNCHANGED run
           \/ run[b].pc = "apply" /\ run' = [run EXCEPT ![b] = r]
           \/ run' = [run EXCEPT ![b] = Idle]
    BY <1>15 DEF RejectApply, Becomes, TypeInv, RunType, Runs
  <2>2. /\ UNCHANGED entry \/ Enters(b, "safe_paused")
        /\ UNCHANGED formal
    BY <1>15 DEF RejectApply, Stops, outside
  <2>3. Status(b)' \in {Status(b), "safe_paused", "reviewed"}
    BY <1>6, <1>7, <2>2
  <2> HIDE DEF r
  <2>4. CASE run[b].pc = "apply" /\ run' = [run EXCEPT ![b] = r]
    BY <1>2, <1>3, <2>1, <2>2, <2>3, <2>4 DEF Resumed
  <2> QED
    BY <1>4, <1>5, <2>1, <2>2, <2>3, <2>4
<1>16. CASE Abandon(b) \/ Acknowledge(b)
  <2>1. /\ UNCHANGED <<run, formal>>
        /\ UNCHANGED entry \/ Enters(b, "safe_paused")
    BY <1>16 DEF Abandon, Acknowledge, SetsAside, globalFile, outside
  <2> QED
    BY <1>5, <1>6, <1>7, <2>1
<1>17. ASSUME NEW s \in Subjects, Admit(b, s) PROVE G
  <2> DEFINE r == [Idle EXCEPT !.pc = "authorize", !.kind = "nightly"]
  <2>1. /\ r.pc = "authorize" /\ r.kind = "nightly"
        /\ run' = [run EXCEPT ![b] = r] \/ run' = [run EXCEPT ![b] = Idle]
        /\ UNCHANGED <<entry, formal>>
    BY <1>17 DEF Admit, Becomes, Idle, globalFile, outside
  <2> HIDE DEF r, G
  <2>2. CASE run' = [run EXCEPT ![b] = r]
    BY <1>2, <1>3, <1>6, <2>1, <2>2
  <2> QED
    BY <1>4, <1>6, <2>1, <2>2
<1>18. ASSUME NEW s \in Subjects, NEW n \in 0..Batches[s], Authorize(b, s, n)
       PROVE  G
  <2>1. /\ entry[b] = NoEntry /\ UNCHANGED formal
        /\ entry'[b].status = "queued"
    BY <1>18 DEF Authorize, outside, TypeInv, GlobalType
  <2>2. Waits(b) /\ Status(b)' = "queued"
    BY <2>1 DEF Waits, Status, NoEntry
  <2>3. CASE UNCHANGED run
    BY <1>1, <2>1, <2>2, <2>3 DEF Done, Resumed, RunOf
  <2>4. CASE Becomes(b, [run[b] EXCEPT !.pc = "begin"])
    <3>1. /\ run'[b].pc \in {"begin", "idle"}
          /\ run'[b].kind \in {run[b].kind, "manual"}
      BY <1>2, <2>4 DEF Becomes, TypeInv, RunType, Runs
    <3> QED
      BY <1>2, <2>1, <2>2, <3>1 DEF Done, Resumed
  <2> QED
    BY <1>18, <2>3, <2>4 DEF Authorize
<1>19. CASE Begin(b)
  <2>1. /\ Status(b) = "queued" /\ Enters(b, "active") /\ UNCHANGED formal
        /\ Becomes(b, [run[b] EXCEPT !.pc = "execute", !.token = next])
    BY <1>19 DEF Begin, CanBegin, Head, outside
  <2>2. /\ run'[b].pc \in {"execute", "idle"}
        /\ run'[b].kind \in {run[b].kind, "manual"}
    BY <1>2, <2>1 DEF Becomes, TypeInv, RunType, Runs
  <2>3. Waits(b) /\ Status(b)' = "active"
    BY <2>1, EntersStatus DEF Waits
  <2> QED
    BY <2>1, <2>2, <2>3 DEF Done, Resumed
<1>20. CASE Resume(b)
  <2>1. /\ Status(b) = "safe_paused" /\ cont[b] # NoCont
        /\ Writer(b).commit = cont[b].token /\ Enters(b, "queued")
        /\ Becomes(b, [Idle EXCEPT !.pc = "begin", !.kind = "resumed"])
    BY <1>20 DEF Resume, IsPaused
  <2>2. Counts(b)
    BY <2>1 DEF LowInv, CommitInv
  <2>3. run'[b].pc \in {"begin", "idle"}
    BY <1>2, <2>1 DEF Becomes, Idle, TypeInv, RunType
  <2>4. Status(b)' = "queued"
    BY <2>1, EntersStatus
  <2> QED
    BY <1>2, <2>2, <2>3, <2>4 DEF Done, Resumed
<1>21. CASE Restore(b)
  BY <1>4, <1>6, <1>21 DEF Restore, globalFile, outside
<1> QED
  BY <1>8, <1>9, <1>10, <1>11, <1>12, <1>13, <1>14, <1>15, <1>16, <1>17,
     <1>18, <1>19, <1>20, <1>21 DEF Work, Command

\* And to the lease, the queue and the other processes.
LEMMA BatchQueues ==
  ASSUME TypeInv, QueueInv, NEW b \in Sols,
         Work(b) \/ Command(b) \/ Die(b),
         ~ Finish(b), ~ PauseForConflict(b)
  PROVE  /\ UNCHANGED <<counted, cont>> /\ LeaseMoves
         /\ \A o \in Sols \ {b} :
              /\ run'[o] = run[o] /\ formal'[o] = formal[o]
              /\ Status(o)' \in {Status(o), "safe_paused"}
         /\ \A o \in Sols : Status(o)' # "absent" =>
              \/ Status(o) # "absent" /\ Subject(o)' = Subject(o)
              \/ Status(o) = "absent" /\ Subject(o)' \in Subjects
<1>1. UNCHANGED <<counted, cont>>
  BY DEF Work, Command, BeginRefused, Execute, ExecuteFails, PublishFails,
     Approve, FailReview, Restore, Refused, Admit, Authorize, Begin, Resume,
     Acknowledge, Abandon, RejectApply, Die, globalFile, outside
<1>2. LeaseMoves
  <2>1. \/ UNCHANGED <<active, next>>
        \/ active' = Free /\ UNCHANGED next
        \/ /\ active' = [sol |-> b, token |-> next, status |-> "reviewing"]
           /\ next' = next + 1
        \/ /\ \E st \in {"applying", "safe_paused"} :
                active' = [active EXCEPT !.status = st]
           /\ UNCHANGED next
    BY DEF Work, Command, BeginRefused, Execute, ExecuteFails, PublishFails,
       Approve, FailReview, Restore, Refused, Admit, Authorize, Begin, Resume,
       Acknowledge, Abandon, RejectApply, Die, SetsAside, Stops, globalFile
  <2>2. CASE \E st \in {"applying", "safe_paused"} :
               active' = [active EXCEPT !.status = st]
    <3>1. active'.sol = active.sol /\ active'.token = active.token
      BY <2>2 DEF TypeInv, GlobalType, Leases
    <3> QED
      BY <2>1, <2>2, <3>1 DEF LeaseMoves, Free
  <2> QED
    BY <2>1, <2>2 DEF LeaseMoves, Free
<1>3. ASSUME NEW o \in Sols \ {b} PROVE run'[o] = run[o]
  <2>1. UNCHANGED run \/ \E r : run' = [run EXCEPT ![b] = r]
    <3>1. ASSUME NEW r, Becomes(b, r) PROVE \E q : run' = [run EXCEPT ![b] = q]
      BY <3>1 DEF Becomes
    <3>2. CASE Work(b) \/ Die(b)
      <4>1. CASE Execute(b)
        <5>1. PICK c, k : run' = [run EXCEPT ![b].pc = "review",
                                    ![b].conflict = c, ![b].wrote = k]
          BY <4>1 DEF Execute
        <5>2. run' = [run EXCEPT ![b] = [run[b] EXCEPT
                         !.pc = "review", !.conflict = c, !.wrote = k]]
          BY <5>1 DEF TypeInv, RunType
        <5> QED
          BY <5>2
      <4>2. CASE ExecuteFails(b) \/ PublishFails(b)
        <5>1. run' = [run EXCEPT ![b] = [run[b] EXCEPT !.pc = "fail"]]
          BY <4>2 DEF ExecuteFails, PublishFails, TypeInv, RunType
        <5> QED
          BY <5>1
      <4> QED
        BY <3>1, <3>2, <4>1, <4>2
        DEF Work, Die, BeginRefused, Approve, FailReview, Restore, Refused
    <3>3. CASE Command(b)
      BY <3>1, <3>3 DEF Command, Admit, Authorize, Begin, Resume, Acknowledge,
         Abandon, RejectApply
    <3> QED
      BY <3>2, <3>3
  <2> QED
    BY <2>1 DEF TypeInv, RunType
<1>4. ASSUME NEW o \in Sols \ {b} PROVE formal'[o] = formal[o]
  BY DEF Work, Command, BeginRefused, Execute, ExecuteFails, PublishFails,
     Approve, FailReview, Restore, Refused, Admit, Authorize, Begin, Resume,
     Acknowledge, Abandon, RejectApply, Die, Writes, outside, TypeInv,
     OutsideType
<1>5. \/ UNCHANGED entry
      \/ active # Free /\ Enters(active.sol, "safe_paused")
      \/ (Status(b) # "absent" \/ active.sol = b) /\ \E st : Enters(b, st)
      \/ \E s \in Subjects : \E n \in 0..Batches[s] : Authorize(b, s, n)
  BY DEF Work, Command, BeginRefused, Execute, ExecuteFails, PublishFails,
     Approve, FailReview, Restore, Refused, Admit, Begin, CanBegin, Head,
     Resume, IsPaused, Acknowledge, Abandon, RejectApply, Die, SetsAside,
     Stops, Holds, globalFile
<1>6. ASSUME NEW p \in Sols, Status(p) # "absent", NEW st, Enters(p, st)
      PROVE  \A o \in Sols : /\ Subject(o)' = Subject(o)
                             /\ Status(o)' = IF o = p THEN st ELSE Status(o)
  BY <1>6, SubjectKept, EntersStatus
<1>7. ASSUME NEW o \in Sols
      PROVE  /\ o # b => Status(o)' \in {Status(o), "safe_paused"}
             /\ Status(o)' # "absent" =>
                  \/ Status(o) # "absent" /\ Subject(o)' = Subject(o)
                  \/ Status(o) = "absent" /\ Subject(o)' \in Subjects
  <2>1. CASE UNCHANGED entry
    BY <2>1 DEF Status, Subject
  <2>2. CASE active # Free /\ Enters(active.sol, "safe_paused")
    <3>1. active.sol \in Sols
      BY <2>2 DEF QueueInv, TypeInv, GlobalType, Leases
    <3>2. Status(active.sol) # "absent"
      BY <3>1, Known
    <3> QED
      BY <1>6, <2>2, <3>1, <3>2
  <2>3. CASE (Status(b) # "absent" \/ active.sol = b) /\ \E st : Enters(b, st)
    <3>1. Status(b) # "absent"
      BY <2>3, Known
    <3> QED
      BY <1>6, <2>3, <3>1
  <2>4. ASSUME NEW s \in Subjects, NEW n \in 0..Batches[s], Authorize(b, s, n)
        PROVE  /\ o # b => Status(o)' \in {Status(o), "safe_paused"}
               /\ Status(o)' # "absent" =>
                    \/ Status(o) # "absent" /\ Subject(o)' = Subject(o)
                    \/ Status(o) = "absent" /\ Subject(o)' \in Subjects
    <3>1. /\ entry[b].status = "absent" /\ entry'[b].subject = s
          /\ o # b => entry'[o] = entry[o]
      BY <2>4 DEF Authorize, NoEntry, TypeInv, GlobalType
    <3> QED
      BY <3>1 DEF Status, Subject
  <2> QED
    BY <1>5, <2>1, <2>2, <2>3, <2>4
<1> QED
  BY <1>1, <1>2, <1>3, <1>4, <1>7

\* The receipt of the part that was applied is put back.
LEMMA RestoreCommits ==
  ASSUME TypeInv, QueueInv, LowInv, NEW b \in Sols, Restore(b)
  PROVE  CommitInv'
<1>1. /\ UNCHANGED <<active, next, entry, counted, cont>>
      /\ \A o \in Sols : Status(o)' = Status(o) /\ Subject(o)' = Subject(o)
                         /\ Counts(o)' = Counts(o)
  BY DEF Restore, globalFile, outside, Status, Subject, Counts
<1>2. CASE UNCHANGED writer
  BY <1>1, <1>2 DEF LowInv, CommitInv, Writer
<1>3. CASE /\ IsPaused(b)
           /\ writer' = [writer EXCEPT ![Subject(b)].commit = cont[b].token]
  <2>1. /\ Subject(b) \in Subjects /\ active.sol = 0 /\ Status(b) # "absent"
    BY <1>3, Known DEF IsPaused, Free
  <2>2. writer'[Subject(b)].commit = cont[b].token
    BY <1>3, <2>1 DEF TypeInv, WriterType, WriterFiles
  <2>3. \A s \in Subjects : s # Subject(b) => writer'[s] = writer[s]
    BY <1>3 DEF TypeInv, WriterType
  <2>4. cont[b].token < next
    <3>1. CASE cont[b] = NoCont
      BY <3>1 DEF NoCont, TypeInv, GlobalType
    <3>2. CASE cont[b] # NoCont
      BY <3>2 DEF LowInv, RunInv, RunOf
    <3> QED
      BY <3>1, <3>2
  <2>5. ASSUME NEW o \in Sols, Status(o) # "absent", cont[o] # NoCont,
               Writer(o)'.commit = cont[o].token
        PROVE  Counts(o)
    <3>1. Subject(o) \in Subjects /\ Writer(o)' = writer'[Subject(o)]
          /\ cont'[o] = cont[o]
      BY <1>1, <2>5 DEF TypeInv, GlobalType, Writer
    <3>2. CASE Subject(o) = Subject(b)
      <4>1. cont[b].token = cont[o].token
        BY <1>1, <2>2, <2>5, <3>1, <3>2
      <4>2. o = b
        BY <2>5, <4>1 DEF LowInv, RunInv, RunOf
      <4>3. Resumed(b)
        BY DEF Restore, Resumed
      <4> QED
        BY <4>2, <4>3 DEF LowInv, RunInv, RunOf
    <3>3. CASE Subject(o) # Subject(b)
      BY <1>1, <2>3, <2>5, <3>1, <3>3 DEF LowInv, CommitInv, Writer
    <3> QED
      BY <3>2, <3>3
  <2> QED
    BY <1>1, <2>1, <2>2, <2>3, <2>4, <2>5 DEF LowInv, CommitInv
<1> QED
  BY <1>2, <1>3 DEF Restore

\* The steps of a batch but for the receipts.
LEMMA BatchLow ==
  ASSUME TypeInv, QueueInv, LowInv, NEW b \in Sols,
         Work(b) \/ Command(b) \/ Die(b),
         ~ Finish(b), ~ PauseForConflict(b)
  PROVE  LowInv'
<1>1. RunInv'
  BY BatchRuns, BatchQueues, RunKept DEF LowInv
<1>2. CASE Restore(b)
  BY <1>1, <1>2, RestoreCommits DEF LowInv
<1>3. CASE ~ Restore(b)
  <2>1. \A s \in Subjects : Commits(s)
    <3>1. CASE Acknowledge(b)
      BY <3>1 DEF Acknowledge, Commits, TypeInv, WriterType, WriterFiles
    <3>2. CASE ~ Acknowledge(b)
      BY <1>3, <3>2, BatchKeeps
    <3> QED
      BY <3>1, <3>2
  <2> QED
    BY <1>1, <2>1, BatchQueues, CommitKept DEF LowInv
<1> QED
  BY <1>2, <1>3

\* A receipt that commits its batch, or stops it at a conflict, counts what
\* the run wrote.  The one that stops it names the lease it is given up with.
LEMMA ReceiptLow ==
  ASSUME TypeInv, QueueInv, LowInv, NEW b \in Sols,
         Finish(b) \/ PauseForConflict(b)
  PROVE  LowInv'
<1> DEFINE t == active.token
           K == Cardinality(Captures)
<1>1. /\ active.sol = b /\ b # 0 /\ run[b].token = t /\ t # 0 /\ t = next - 1
      /\ run[b].pc = "apply" /\ run' = [run EXCEPT ![b] = Idle]
      /\ UNCHANGED <<formal, next>> /\ Status(b) \in Held
  BY DEF Finish, PauseForConflict, Holds, QueueInv, outside
<1>2. /\ next \in Nat \ {0} /\ t \in Nat /\ K \in Nat
      /\ counted[b] \in Nat /\ run[b].wrote \in Nat
  BY FS_CardinalityType DEF TypeInv, GlobalType, Leases, RunType, Runs
<1>3. /\ Subject(b) \in Subjects /\ Status(b) # "absent"
      /\ Writer(b) \in WriterFiles
  BY <1>1, Known
<1>4. /\ RunOf(b) /\ counted[b] + run[b].wrote + 1 >= K
      /\ cont[b] = NoCont \/ Counts(b)
  BY <1>1 DEF LowInv, RunInv, RunOf, Done, AtWork
<1>5. \/ UNCHANGED cont
      \/ /\ cont' = [cont EXCEPT ![b] = [token |-> t,
                                         capture |-> run[b].conflict]]
         /\ PauseForConflict(b)
  BY <1>1 DEF Finish, PauseForConflict, outside
<1>6. \/ \E st, h : \E k \in {0, run[b].wrote} :
           /\ Applied(b, st, h, k) /\ st \in {"committed", "safe_paused"}
           /\ k = run[b].wrote \/ (UNCHANGED cont /\ st = "safe_paused")
      \/ UNCHANGED <<active, entry, counted, writer>> /\ PauseForConflict(b)
  BY DEF Finish, PauseForConflict, outside
<1>7. /\ active' = Free \/ active' = active
      /\ \A o \in Sols : Subject(o)' = Subject(o)
      /\ \A o \in Sols \ {b} : Status(o)' = Status(o)
      /\ Status(b)' \in {"committed", "active", "reviewed", "safe_paused"}
      /\ counted'[b] \in {counted[b], counted[b] + run[b].wrote}
      /\ \A o \in Sols \ {b} : counted'[o] = counted[o]
      /\ Status(b)' = "committed" => counted'[b] = counted[b] + run[b].wrote
  <2>1. CASE UNCHANGED <<active, entry, counted, writer>>
    BY <1>1, <2>1 DEF Subject, Status, Held
  <2>2. ASSUME NEW st, NEW h, NEW k \in {0, run[b].wrote}, Applied(b, st, h, k),
               st \in {"committed", "safe_paused"},
               k = run[b].wrote \/ st = "safe_paused"
        PROVE  /\ active' = Free
               /\ \A o \in Sols : /\ Subject(o)' = Subject(o)
                                  /\ Status(o)' = IF o = b THEN st ELSE Status(o)
               /\ counted'[b] = counted[b] + k
               /\ \A o \in Sols \ {b} : counted'[o] = counted[o]
    <3>1. /\ active' = Free /\ Enters(b, st)
          /\ counted' = [counted EXCEPT ![b] = @ + k]
      BY <2>2 DEF Applied
    <3> QED
      BY <3>1, SubjectKept, EntersStatus DEF TypeInv, GlobalType
  <2>3. CASE \E st, h : \E k \in {0, run[b].wrote} :
               /\ Applied(b, st, h, k) /\ st \in {"committed", "safe_paused"}
               /\ k = run[b].wrote \/ (UNCHANGED cont /\ st = "safe_paused")
    <3>1. PICK st, h : \E k \in {0, run[b].wrote} :
            /\ Applied(b, st, h, k) /\ st \in {"committed", "safe_paused"}
            /\ k = run[b].wrote \/ (UNCHANGED cont /\ st = "safe_paused")
      BY <2>3
    <3>2. PICK k \in {0, run[b].wrote} :
            /\ Applied(b, st, h, k) /\ st \in {"committed", "safe_paused"}
            /\ k = run[b].wrote \/ st = "safe_paused"
      BY <3>1
    <3>3. /\ active' = Free
          /\ \A o \in Sols : /\ Subject(o)' = Subject(o)
                             /\ Status(o)' = IF o = b THEN st ELSE Status(o)
          /\ counted'[b] = counted[b] + k
          /\ \A o \in Sols \ {b} : counted'[o] = counted[o]
      BY <2>2, <3>2
    <3>4. counted'[b] \in {counted[b], counted[b] + run[b].wrote}
      BY <1>2, <3>2, <3>3
    <3>5. Status(b)' = "committed" => counted'[b] = counted[b] + run[b].wrote
      BY <3>2, <3>3
    <3> QED
      BY <3>2, <3>3, <3>4, <3>5
  <2> QED
    BY <1>6, <2>1, <2>3
<1>8. /\ \A o \in Sols \ {b} : /\ run'[o] = run[o] /\ formal'[o] = formal[o]
                               /\ cont'[o] = cont[o]
      /\ run'[b].pc = "idle" /\ run'[b].kind = "manual"
      /\ cont'[b].token \in {cont[b].token, t}
      /\ cont'[b] = cont[b] \/ cont'[b].token = t
  BY <1>1, <1>5 DEF Idle, TypeInv, RunType, OutsideType
<1>9. \A o \in Sols \ {b} : cont[o] # NoCont =>
        /\ cont[o].token # 0 /\ cont[o].token < next /\ cont[o].token # t
        /\ \A q \in Sols \ {o} : cont[q].token # cont[o].token
  BY <1>1 DEF LowInv, RunInv, RunOf
<1>10. cont'[b] # NoCont =>
         /\ cont'[b].token # 0 /\ cont'[b].token < next
         /\ \A q \in Sols \ {b} : cont[q].token # cont'[b].token
  <2>1. CASE cont'[b] = cont[b]
    BY <1>4, <2>1 DEF RunOf
  <2>2. CASE cont'[b].token = t
    <3>1. ASSUME NEW q \in Sols \ {b} PROVE cont[q].token # t
      <4>1. NoCont.token = 0
        BY DEF NoCont
      <4> QED
        BY <1>1, <1>9, <4>1
    <3>2. t # 0 /\ t < next
      BY <1>1, <1>2
    <3> HIDE DEF t
    <3> QED
      BY <2>2, <3>1, <3>2
  <2> QED
    BY <1>8, <2>1, <2>2
<1> HIDE DEF t
<1>11. ASSUME NEW o \in Sols \ {b} PROVE RunOf(o)'
  <2>1. /\ Waits(o)' = Waits(o) /\ Ready(o)' = Ready(o)
        /\ Resumed(o)' = Resumed(o) /\ Done(o)' = Done(o)
        /\ Counts(o)' = Counts(o)
    BY <1>7, <1>8 DEF Waits, Ready, Resumed, Done, Counts
  <2>2. cont'[o] # NoCont =>
          /\ cont'[o].token # 0 /\ cont'[o].token < next'
          /\ active'.sol \notin {0, o} => cont'[o].token # active'.token
          /\ \A q \in Sols \ {o} : cont'[q].token # cont'[o].token
    <3> SUFFICES ASSUME cont'[o] # NoCont
                 PROVE  /\ cont'[o].token # 0 /\ cont'[o].token < next'
                        /\ active'.sol \notin {0, o} =>
                             cont'[o].token # active'.token
                        /\ \A q \in Sols \ {o} :
                             cont'[q].token # cont'[o].token
      OBVIOUS
    <3>1. cont'[o] = cont[o] /\ cont[o] # NoCont
      BY <1>8
    <3>2. /\ cont'[o].token # 0 /\ cont'[o].token < next /\ cont[o].token # t
          /\ \A q \in Sols \ {o} : cont[q].token # cont[o].token
      BY <1>9, <3>1
    <3>3. next' = next
      BY <1>1
    <3>4. active'.sol \notin {0, o} => cont'[o].token # active'.token
      BY <1>7, <3>1, <3>2 DEF Free, t
    <3>5. ASSUME NEW q \in Sols \ {o} PROVE cont'[q].token # cont'[o].token
      <4>1. CASE q = b
        BY <1>8, <3>1, <3>2, <4>1
      <4>2. CASE q # b
        BY <1>8, <3>1, <3>2, <4>2
      <4> QED
        BY <4>1, <4>2
    <3> QED
      BY <3>2, <3>3, <3>4, <3>5
  <2> QED
    BY <1>7, <1>8, <2>1, <2>2 DEF LowInv, RunInv, RunOf
<1>12. Counts(b)' <=> counted'[b] + 1 >= K
  BY DEF Counts
<1>13. /\ Counts(b) => Counts(b)'
       /\ counted'[b] = counted[b] + run[b].wrote => Counts(b)'
  <2> HIDE DEF K
  <2>1. Counts(b) <=> counted[b] + 1 >= K
    BY DEF Counts, K
  <2> QED
    BY <1>2, <1>4, <1>7, <1>12, <2>1
<1>14. RunOf(b)'
  <2>1. ~ Waits(b)' /\ ~ Resumed(b)' /\ ~ Done(b)' /\ run'[b].pc \notin AtWork
    BY <1>7, <1>8 DEF Waits, Resumed, Done, AtWork
  <2>2. Status(b)' = "committed" => Counts(b)'
    BY <1>7, <1>13
  <2>3. active'.sol \in {0, b}
    BY <1>1, <1>7 DEF Free
  <2>4. cont'[b] # NoCont => \A q \in Sols \ {b} : cont'[q].token # cont'[b].token
    BY <1>8, <1>10
  <2> QED
    BY <1>1, <1>10, <2>1, <2>2, <2>3, <2>4 DEF RunOf
<1>15. \A s \in Subjects :
         \/ writer'[s].commit = writer[s].commit
         \/ s = Subject(b) /\ writer'[s].commit = t /\ active' = Free
  <2>1. CASE UNCHANGED writer
    BY <2>1
  <2>2. ASSUME NEW st, NEW h, NEW k, Applied(b, st, h, k)
        PROVE  \A s \in Subjects :
                 \/ writer'[s].commit = writer[s].commit
                 \/ s = Subject(b) /\ writer'[s].commit = t /\ active' = Free
    <3> DEFINE w == [Writer(b) EXCEPT !.handoff = h, !.commit = run[b].token,
                                      !.count = @ + k]
    <3>1. w.commit = t
      BY <1>1, <1>3 DEF WriterFiles, t
    <3>2. ThenWriter(Subject(b), w) /\ active' = Free
      BY <2>2 DEF Applied
    <3> HIDE DEF w
    <3> QED
      BY <1>3, <3>1, <3>2 DEF ThenWriter, TypeInv, WriterType
  <2> QED
    BY <1>6, <2>1, <2>2
<1>16. \A s \in Subjects : /\ writer[s].commit < next /\ writer[s].commit # t
                           /\ writer[s].commit \in Nat
  BY <1>1 DEF LowInv, CommitInv, TypeInv, WriterType, WriterFiles, t
<1>17. ASSUME NEW s \in Subjects
       PROVE  /\ writer'[s].commit < next'
              /\ active'.sol # 0 => writer'[s].commit # active'.token
  <2>1. t < next
    BY <1>1, <1>2
  <2>2. writer'[s].commit < next'
    BY <1>1, <1>15, <1>16, <2>1
  <2>3. active'.sol # 0 => active' = active
    BY <1>7 DEF Free
  <2> QED
    BY <1>15, <1>16, <2>2, <2>3 DEF t, Free
<1>18. ASSUME NEW o \in Sols, Status(o)' # "absent", cont'[o] # NoCont,
              Writer(o)'.commit = cont'[o].token
       PROVE  Counts(o)'
  <2>1. CASE o # b
    <3>1. /\ Status(o) # "absent" /\ cont[o] # NoCont
          /\ Subject(o) \in Subjects /\ Writer(o)' = writer'[Subject(o)]
          /\ cont'[o].token = cont[o].token /\ cont[o].token # t
          /\ Counts(o)' = Counts(o)
      BY <1>7, <1>8, <1>9, <1>18, <2>1
      DEF TypeInv, GlobalType, Writer, Counts
    <3>2. Writer(o).commit = cont[o].token
      BY <1>15, <1>18, <3>1 DEF Writer
    <3> QED
      BY <3>1, <3>2 DEF LowInv, CommitInv
  <2>2. CASE o = b
    <3>1. CASE counted'[b] = counted[b] + run[b].wrote
      BY <1>13, <2>2, <3>1
    <3>2. CASE UNCHANGED cont
      BY <1>4, <1>13, <1>18, <2>2, <3>2
    <3>3. CASE UNCHANGED <<active, entry, counted, writer>>
               /\ cont' # cont
      <4>1. cont' = [cont EXCEPT ![b] = [token |-> t,
                                         capture |-> run[b].conflict]]
        BY <1>5, <3>3
      <4>2. cont'[b].token = t /\ Writer(b)' = Writer(b)
        BY <1>7, <3>3, <4>1 DEF Writer, TypeInv, OutsideType
      <4> QED
        BY <1>3, <1>16, <1>18, <2>2, <4>2 DEF Writer
    <3>4. ASSUME NEW st, NEW h, NEW k, Applied(b, st, h, k),
                 k = run[b].wrote
          PROVE  counted'[b] = counted[b] + run[b].wrote
      BY <3>4 DEF Applied, TypeInv, GlobalType
    <3> QED
      BY <1>6, <3>1, <3>2, <3>3, <3>4
  <2> QED
    BY <2>1, <2>2
<1>19. RunInv'
  BY <1>11, <1>14 DEF RunInv
<1> QED
  BY <1>17, <1>18, <1>19 DEF LowInv, CommitInv

\* Every step keeps it.
LEMMA LowStep == TypeInv /\ QueueInv /\ LowInv /\ [Next]_vars => LowInv'
<1> SUFFICES ASSUME TypeInv, QueueInv, LowInv, [Next]_vars PROVE LowInv'
  OBVIOUS
<1>1. CASE UNCHANGED vars
  BY <1>1 DEF vars, globalFile, outside, LowInv, RunInv, RunOf, CommitInv,
     Waits, Ready, Counts, Resumed, Done, Writer, Subject, Status
<1>2. ASSUME NEW s \in Subjects, Daemon(s) PROVE LowInv'
  BY <1>2, DaemonLow
<1>3. ASSUME NEW b \in Sols, Work(b) \/ Command(b) \/ Die(b) PROVE LowInv'
  BY <1>3, ReceiptLow, BatchLow
<1> QED
  BY <1>1, <1>2, <1>3 DEF Next

-----------------------------------------------------------------------------
(* The two files count the same writes while no process dies.              *)

BatchesOf(s) == {b \in Sols : Subject(b) = s}

\* A subject has finitely many batches, one that was not entered counts
\* nothing, and the writer file counts what the batches of its subject do.
CountInv ==
  /\ \A s \in Subjects : IsFiniteSet(BatchesOf(s))
  /\ \A b \in Sols : entry[b] = NoEntry => counted[b] = 0
  /\ crashes = 0 => \A s \in Subjects :
       writer[s].count = Total(counted, BatchesOf(s))

LEMMA CountInit == Init => CountInv
<1> SUFFICES ASSUME Init PROVE CountInv
  OBVIOUS
<1>1. \A s \in Subjects : BatchesOf(s) = {}
  BY DEF Init, BatchesOf, Subject, NoEntry
<1>2. IsFiniteSet({}) /\ Total(counted, {}) = 0
  BY FS_EmptySet, TotalUnfolds
<1>3. \A s \in Subjects : writer[s].count = 0
  BY DEF Init
<1> QED
  BY <1>1, <1>2, <1>3 DEF Init, CountInv

\* A batch that is in the queue keeps its place and its subject.
LEMMA EntersKeeps ==
  ASSUME TypeInv, NEW b \in Sols, Status(b) # "absent", NEW st, Enters(b, st)
  PROVE  \A o \in Sols : /\ Subject(o)' = Subject(o)
                         /\ entry'[o] = NoEntry => entry[o] = NoEntry
<1>1. \A o \in Sols : Subject(o)' = Subject(o)
  BY SubjectKept
<1>2. entry[b].subject # None
  BY DEF TypeInv, GlobalType, Subject
<1>3. entry'[b].subject = entry[b].subject
  BY <1>1 DEF Subject
<1>4. \A o \in Sols \ {b} : entry'[o] = entry[o]
  BY DEF Enters, TypeInv, GlobalType
<1> QED
  BY <1>1, <1>2, <1>3, <1>4 DEF NoEntry

\* Only an authorization enters a batch, and dead processes stay dead.
LEMMA EntryKept ==
  ASSUME TypeInv, QueueInv, NEW b \in Sols, Work(b) \/ Command(b) \/ Die(b),
         ~ \E s \in Subjects : \E n \in 0..Batches[s] : Authorize(b, s, n)
  PROVE  /\ \A o \in Sols : /\ Subject(o)' = Subject(o)
                            /\ entry'[o] = NoEntry => entry[o] = NoEntry
         /\ crashes' = 0 => crashes = 0
<1>1. crashes' = 0 => crashes = 0
  <2>1. CASE BeginRefused(b) \/ Execute(b) \/ ExecuteFails(b)
             \/ PublishFails(b) \/ Restore(b) \/ Acknowledge(b)
    BY <2>1 DEF BeginRefused, Execute, ExecuteFails, PublishFails, Restore,
       Acknowledge
  <2>2. CASE \/ Approve(b) \/ FailReview(b) \/ Begin(b) \/ Resume(b)
             \/ Abandon(b) \/ \E s \in Subjects : Admit(b, s)
    <3>1. \/ crashes' = crashes \/ Dies
          \/ \E s, w : ThenWriter(s, w)
      BY <2>2 DEF Approve, FailReview, Begin, Resume, Abandon, Admit,
         SetsAside, WritesBatch
    <3> QED
      BY <3>1 DEF ThenWriter, Dies, TypeInv, WriterType
  <2>3. CASE Finish(b) \/ PauseForConflict(b) \/ RejectApply(b) \/ Refused(b)
             \/ Die(b)
    <3>1. crashes' = crashes \/ Dies \/ \E s, w : ThenWriter(s, w)
      BY <2>3 DEF Finish, PauseForConflict, RejectApply, Refused, Stops, Die,
         Applied
    <3> QED
      BY <3>1 DEF ThenWriter, Dies, TypeInv, WriterType
  <2> QED
    BY <2>1, <2>2, <2>3 DEF Work, Command
<1>2. CASE entry' = entry
  BY <1>1, <1>2 DEF Subject
<1>3. \/ UNCHANGED entry
      \/ active # Free /\ Enters(active.sol, "safe_paused")
      \/ (Status(b) # "absent" \/ active.sol = b) /\ \E st : Enters(b, st)
  BY DEF Work, Command, Die, BeginRefused, Execute, ExecuteFails, PublishFails,
     Approve, FailReview, Finish, PauseForConflict, Applied, Restore, Refused,
     Admit, Begin, CanBegin, Head, Resume, IsPaused, Acknowledge, Abandon,
     RejectApply, SetsAside, Stops, Holds, globalFile
<1>4. CASE active # Free /\ Enters(active.sol, "safe_paused")
  <2>1. active.sol \in Sols
    BY <1>4 DEF QueueInv, TypeInv, GlobalType, Leases
  <2>2. Status(active.sol) # "absent"
    BY <2>1, Known
  <2> QED
    BY <1>1, <1>4, <2>1, <2>2, EntersKeeps
<1>5. CASE (Status(b) # "absent" \/ active.sol = b) /\ \E st : Enters(b, st)
  <2>1. Status(b) # "absent"
    BY <1>5, Known
  <2> QED
    BY <1>1, <1>5, <2>1, EntersKeeps
<1> QED
  BY <1>2, <1>3, <1>4, <1>5

\* Nothing is counted, in either file, and no batch is entered.
LEMMA CountStays ==
  ASSUME CountInv, UNCHANGED counted, crashes' = 0 => crashes = 0,
         \A s \in Subjects : writer'[s].count = writer[s].count,
         \A o \in Sols : /\ Subject(o)' = Subject(o)
                         /\ entry'[o] = NoEntry => entry[o] = NoEntry
  PROVE  CountInv'
<1>1. \A s \in Subjects : BatchesOf(s)' = BatchesOf(s)
  BY DEF BatchesOf
<1> QED
  BY <1>1 DEF CountInv

\* A receipt adds its writes to the sum of the batch's subject.
LEMMA ReceiptCounts ==
  ASSUME TypeInv, QueueInv, CountInv, NEW b \in Sols,
         Finish(b) \/ PauseForConflict(b)
  PROVE  CountInv'
<1> DEFINE s0 == Subject(b)
<1>1. /\ \A o \in Sols : /\ Subject(o)' = Subject(o)
                         /\ entry'[o] = NoEntry => entry[o] = NoEntry
      /\ crashes' = 0 => crashes = 0
  <2>1. Work(b)
    BY DEF Work
  <2>2. entry[b] # NoEntry
    BY Known DEF Finish, PauseForConflict, Holds, Status, NoEntry
  <2>3. ~ \E s \in Subjects : \E n \in 0..Batches[s] : Authorize(b, s, n)
    BY <2>2 DEF Authorize
  <2> QED
    BY <2>1, <2>3, EntryKept
<1>2. CASE UNCHANGED <<counted, writer>>
  BY <1>1, <1>2, CountStays
<1>3. ASSUME NEW k \in {0, run[b].wrote}, Receipt(b, k) PROVE CountInv'
  <2>1. /\ s0 \in Subjects /\ k \in Nat /\ entry[b] # NoEntry
        /\ \A o \in Sols : counted[o] \in Nat
    BY Known DEF Finish, PauseForConflict, Holds, Status, NoEntry, TypeInv,
       GlobalType, RunType, Runs
  <2>2. /\ counted'[b] = counted[b] + k
        /\ \A o \in Sols : o # b => counted'[o] = counted[o]
    BY <1>3 DEF Receipt, TypeInv, GlobalType
  <2>3. ASSUME NEW o \in Sols PROVE counted'[o] \in Nat
    <3>1. k \in Nat /\ counted[b] \in Nat /\ counted[o] \in Nat
      BY <2>1
    <3>2. counted'[b] \in Nat
      BY <2>2, <3>1
    <3> QED
      BY <2>2, <3>1, <3>2
  <2>4. \A s \in Subjects : BatchesOf(s)' = BatchesOf(s)
    BY <1>1 DEF BatchesOf
  <2>5. \A o \in Sols : entry'[o] = NoEntry => counted'[o] = 0
    BY <1>1, <2>1, <2>2 DEF CountInv
  <2>6. ASSUME crashes' = 0, NEW s \in Subjects
        PROVE  writer'[s].count = Total(counted', BatchesOf(s))
    <3> DEFINE Of == BatchesOf(s)
    <3> HIDE DEF s0
    <3>1. IsFiniteSet(Of) /\ Of \subseteq Sols
          /\ writer[s].count = Total(counted, Of)
      BY <1>1, <2>6 DEF CountInv, BatchesOf
    <3>2. crashes' = crashes
      BY <1>1, <2>6
    <3>3. CASE s # s0
      <4>1. b \notin Of
        BY <3>3 DEF BatchesOf, s0
      <4>2. \A o \in Of : counted[o] = counted'[o]
        BY <2>2, <3>1, <4>1
      <4>3. Total(counted, Of) = Total(counted', Of)
        BY <3>1, <4>2, TotalSame
      <4> QED
        BY <1>3, <3>1, <3>3, <4>3 DEF Receipt, s0
    <3>4. CASE s = s0
      <4> DEFINE Rest == Of \ {b}
      <4>1. b \in Of
        BY <3>4 DEF BatchesOf, s0
      <4>2. IsFiniteSet(Rest) /\ \A o \in Rest : counted[o] = counted'[o]
        BY <2>2, <3>1, FS_Subset
      <4>3. Total(counted, Rest) = Total(counted', Rest)
        BY <4>2, TotalSame
      <4>4. /\ \A o \in Of : counted[o] \in Nat
            /\ \A o \in Rest : counted[o] \in Nat
            /\ \A o \in Of : counted'[o] \in Nat
        BY <2>1, <2>3, <3>1
      <4> HIDE DEF Of, Rest
      <4>5. /\ \A o \in Of : Total(counted, Of) =
                             counted[o] + Total(counted, Of \ {o})
            /\ \A o \in Of : Total(counted', Of) =
                             counted'[o] + Total(counted', Of \ {o})
            /\ Total(counted, Rest) \in Nat
        <5>1. \A o \in Of : Total(counted, Of) =
                            counted[o] + Total(counted, Of \ {o})
          BY <3>1, <4>4, TotalTakesOut
        <5>2. \A o \in Of : Total(counted', Of) =
                            counted'[o] + Total(counted', Of \ {o})
          BY <3>1, <4>4, TotalTakesOut
        <5>3. Total(counted, Rest) \in Nat
          BY <4>2, <4>4, TotalTakesOut
        <5> QED
          BY <5>1, <5>2, <5>3
      <4>6. /\ Total(counted, Of) = counted[b] + Total(counted, Rest)
            /\ Total(counted', Of) = counted'[b] + Total(counted', Rest)
            /\ Total(counted, Rest) \in Nat
        BY <4>1, <4>5 DEF Rest
      <4>7. writer'[s].count = Total(counted, Of) + k
        BY <1>3, <3>1, <3>2, <3>4 DEF Receipt, s0
      <4>8. counted[b] \in Nat /\ counted'[b] = counted[b] + k
        BY <2>1, <2>2
      <4>9. Total(counted', Of) = Total(counted, Of) + k
        BY <2>1, <4>3, <4>6, <4>8
      <4> QED
        BY <4>7, <4>9 DEF Of
    <3> QED
      BY <3>3, <3>4
  <2> QED
    BY <2>4, <2>5, <2>6 DEF CountInv
<1> QED
  BY <1>2, <1>3, ReceiptKeeps

\* An authorization gives its subject a batch that has counted nothing.
LEMMA AuthorizeCounts ==
  ASSUME TypeInv, QueueInv, CountInv, NEW b \in Sols, NEW s0 \in Subjects,
         NEW n \in 0..Batches[s0], Authorize(b, s0, n)
  PROVE  CountInv'
<1>1. UNCHANGED counted /\ \A s \in Subjects : writer'[s].count = writer[s].count
  <2>1. Command(b)
    BY DEF Command
  <2>2. /\ ~ Finish(b) /\ ~ PauseForConflict(b) /\ ~ Acknowledge(b)
    BY Known DEF Authorize, Finish, PauseForConflict, Acknowledge, Holds,
       Status, NoEntry
  <2> QED
    BY <2>1, <2>2, BatchKeeps DEF Kept
<1>2. crashes' = 0 => crashes = 0
  BY DEF Authorize, ThenWriter, Dies, TypeInv, WriterType
<1>3. /\ entry[b] = NoEntry /\ counted[b] = 0
      /\ entry'[b] = [subject |-> s0, luna |-> n, status |-> "queued"]
      /\ \A o \in Sols : o # b => entry'[o] = entry[o]
  BY DEF Authorize, CountInv, TypeInv, GlobalType
<1>4. ASSUME NEW s \in Subjects
      PROVE  /\ s # s0 => BatchesOf(s)' = BatchesOf(s)
             /\ s = s0 => /\ BatchesOf(s)' = BatchesOf(s) \cup {b}
                          /\ b \notin BatchesOf(s)
  <2>1. Subject(b) = None /\ None # s /\ Subject(b)' = s0
    BY <1>3 DEF Subject, NoEntry
  <2>2. \A o \in Sols : o # b => Subject(o)' = Subject(o)
    BY <1>3 DEF Subject
  <2> QED
    BY <2>1, <2>2 DEF BatchesOf
<1>5. \A o \in Sols : entry'[o] = NoEntry => counted'[o] = 0
  BY <1>1, <1>3 DEF CountInv, NoEntry
<1>6. ASSUME NEW s \in Subjects
      PROVE  /\ IsFiniteSet(BatchesOf(s)')
             /\ Total(counted, BatchesOf(s)') = Total(counted, BatchesOf(s))
  <2>1. IsFiniteSet(BatchesOf(s)) /\ BatchesOf(s) \subseteq Sols
    BY DEF CountInv, BatchesOf
  <2>2. CASE s # s0
    BY <1>4, <2>1, <2>2
  <2>3. CASE s = s0
    <3> DEFINE Of == BatchesOf(s)
               All == Of \cup {b}
    <3>1. BatchesOf(s)' = All /\ b \notin Of /\ b \in All
      BY <1>4, <2>3
    <3>2. IsFiniteSet(All) /\ All \ {b} = Of
      BY <2>1, <3>1, FS_AddElement
    <3>3. \A o \in All : counted[o] \in Nat
      BY <2>1 DEF TypeInv, GlobalType
    <3>4. \A o \in Of : counted[o] \in Nat
      BY <3>3
    <3> HIDE DEF All
    <3>5. \A o \in All : Total(counted, All) =
                         counted[o] + Total(counted, All \ {o})
      BY <3>2, <3>3, TotalTakesOut
    <3>6. Total(counted, All) = counted[b] + Total(counted, All \ {b})
      BY <3>1, <3>5
    <3>7. Total(counted, Of) \in Nat
      BY <2>1, <3>4, TotalTakesOut
    <3>8. Total(counted, All) = Total(counted, Of)
      <4>1. Total(counted, All \ {b}) = Total(counted, Of)
        BY <3>2
      <4> HIDE DEF Of
      <4> QED
        BY <1>3, <3>6, <3>7, <4>1
    <3> QED
      BY <3>1, <3>2, <3>8
  <2> QED
    BY <2>2, <2>3
<1> QED
  BY <1>1, <1>2, <1>5, <1>6 DEF CountInv

LEMMA CountStep ==
  TypeInv /\ QueueInv /\ CountInv /\ [Next]_vars => CountInv'
<1> SUFFICES ASSUME TypeInv, QueueInv, CountInv, [Next]_vars
             PROVE  CountInv'
  OBVIOUS
<1>1. CASE UNCHANGED vars
  <2>1. UNCHANGED <<entry, counted, writer, crashes>>
    BY <1>1 DEF vars, globalFile
  <2> QED
    BY <2>1, CountStays DEF Subject
<1>2. ASSUME NEW s \in Subjects, Daemon(s) PROVE CountInv'
  <2>1. /\ UNCHANGED <<entry, counted>>
        /\ \A o \in Subjects : writer'[o].count = writer[o].count
    BY <1>2, DaemonKeeps
  <2>2. crashes' = 0 => crashes = 0
    BY <1>2 DEF Daemon, Prepare, Claim, Complete, Rollover, Record,
       WritesBatch, ThenWriter, Dies, TypeInv, WriterType
  <2> QED
    BY <2>1, <2>2, CountStays DEF Subject
<1>3. ASSUME NEW b \in Sols, Work(b) \/ Command(b) \/ Die(b) PROVE CountInv'
  <2>1. CASE Finish(b) \/ PauseForConflict(b)
    BY <2>1, ReceiptCounts
  <2>2. CASE \E s \in Subjects : \E n \in 0..Batches[s] : Authorize(b, s, n)
    BY <2>2, AuthorizeCounts
  <2>3. CASE /\ ~ Finish(b) /\ ~ PauseForConflict(b)
             /\ ~ \E s \in Subjects : \E n \in 0..Batches[s] : Authorize(b, s, n)
    <3>1. /\ \A o \in Sols : /\ Subject(o)' = Subject(o)
                             /\ entry'[o] = NoEntry => entry[o] = NoEntry
          /\ crashes' = 0 => crashes = 0
      BY <1>3, <2>3, EntryKept
    <3>2. UNCHANGED counted
          /\ \A s \in Subjects : writer'[s].count = writer[s].count
      <4>1. CASE Acknowledge(b)
        BY <4>1 DEF Acknowledge, globalFile, TypeInv, WriterType, WriterFiles
      <4>2. CASE ~ Acknowledge(b)
        BY <1>3, <2>3, <4>2, BatchKeeps DEF Kept
      <4> QED
        BY <4>1, <4>2
    <3> QED
      BY <3>1, <3>2, CountStays
  <2> QED
    BY <2>1, <2>2, <2>3
<1> QED
  BY <1>1, <1>2, <1>3 DEF Next

-----------------------------------------------------------------------------
(* The theorems about both files.                                          *)

\* The inductive invariant, of both files and of the receipts.
LEMMA FilesInvariant ==
  SolSpec => [](TypeInv /\ QueueInv /\ FilesInv /\ PartInv /\ LowInv)
<1>1. /\ TypeInv /\ QueueInv /\ FilesInv /\ PartInv /\ LowInv
      /\ [Next]_vars
      => FilesInv' /\ PartInv' /\ LowInv'
  BY FilesStep, PartStep, LowStep
<1> QED
  BY WriterInvariant, FilesInit, PartInit, LowInit, <1>1, PTL DEF SolSpec

\* While no process died, the first entry of the queue may be begun whenever
\* the writer is free: its writer file is queued for it, and no Luna task of
\* its subject is claimed (begin_sol_review, which refuses a head whose writer
\* file says anything else).
THEOREM HeadIsReady == SolSpec => []HeadCanBegin
<1>1. TypeInv /\ QueueInv /\ FilesInv => HeadCanBegin
  <2> SUFFICES ASSUME TypeInv, QueueInv, FilesInv, crashes = 0,
                      NEW b \in Sols, active = Free, Head(b)
               PROVE  CanBegin(b)
    BY DEF HeadCanBegin
  <2>1. /\ Status(b) = "queued" /\ Subject(b) \in Subjects
        /\ Status(b) # "absent"
    BY Known DEF Head
  <2>2. Writer(b).batch = Sol(b) /\ Writer(b).handoff = "queued_for_sol"
    BY <2>1 DEF FilesInv, AgreeInv, Open, Fits
  <2>3. luna[Subject(b)].state # "open"
    BY <2>1, <2>2 DEF FilesInv, AgreeInv, Writer
  <2>4. lease[Subject(b)] = "none"
    BY <2>1, <2>3 DEF FilesInv, LunaInv
  <2> QED
    BY <2>2, <2>4 DEF CanBegin, Queued
<1> QED
  BY FilesInvariant, <1>1, PTL

\* A batch is committed with all of its captures written, by one run or by
\* the one that was stopped at a conflict and the ones that took it up, and
\* whichever processes died (finish_subject_commit,
\* pause_subject_commit_for_conflict, resume_subject_commit_from_resolution).
THEOREM CommitsAreWhole == SolSpec => []CommittedIsWritten
<1>1. PartInv => CommittedIsWritten
  BY DEF PartInv, PartOf, CommittedIsWritten
<1> QED
  BY FilesInvariant, <1>1, PTL

\* However often a batch is run, the receipts count no more formal writes
\* than were made (finish_subject_commit adds the count of the receipt).
THEOREM NothingCountedTwice == SolSpec => []WrittenWhenCounted
<1>1. PartInv => WrittenWhenCounted
  BY DEF PartInv, PartOf, Written, WrittenWhenCounted
<1> QED
  BY FilesInvariant, <1>1, PTL

\* The receipts of a committed batch count its captures, each once, but for at
\* most one, whichever runs of it were stopped or failed and whichever
\* processes died: a run that is resumed and fails after it wrote its capture
\* files no receipt, and the next one finds nothing to write.  While no process
\* died the writer file of a subject counts the writes of all its batches,
\* however many there are: the two files that finish_subject_commit and
\* pause_subject_commit_for_conflict replace one after the other agree on the
\* sum.
THEOREM FilesCountAlike == SolSpec => []CountsAllButOne
<1>1. PartInv => WrittenWhenCounted
  BY DEF PartInv, PartOf, Written, WrittenWhenCounted
<1>2. CountInv => (crashes = 0 => \A s \in Subjects :
        writer[s].count = FoldSet(LAMBDA b, sum : counted[b] + sum, 0,
                                  {b \in Sols : Subject(b) = s}))
  BY DEF CountInv, Total, BatchesOf
<1>3. PartInv /\ LowInv /\ CountInv => CountsAllButOne
  BY <1>1, <1>2 DEF LowInv, RunInv, RunOf, Counts, CountsAllButOne
<1>4. TypeInv /\ QueueInv /\ CountInv /\ [Next]_vars => CountInv'
  BY CountStep
<1> QED
  BY FilesInvariant, CountInit, <1>3, <1>4, PTL DEF SolSpec

\* Both files take up a receipt's count in the same step, or the global file
\* alone when the process dies between the two; nothing else changes either.
OneReceipt ==
  \/ /\ UNCHANGED counted
     /\ \A s \in Subjects : writer'[s].count = writer[s].count
  \/ \E b \in Sols : \E k \in {0, run[b].wrote} : Receipt(b, k)

\* The files never count different writes unless a process died between the
\* two of them, at every step of any number of batches
\* (finish_subject_commit).
THEOREM FilesCountTogether == SolSpec => [][OneReceipt]_vars
<1>1. TypeInv /\ QueueInv /\ [Next]_vars => [OneReceipt]_vars
  <2> SUFFICES ASSUME TypeInv, QueueInv, Next PROVE OneReceipt
    OBVIOUS
  <2>1. ASSUME NEW s \in Subjects, Daemon(s) PROVE OneReceipt
    BY <2>1, DaemonKeeps DEF OneReceipt
  <2>2. ASSUME NEW b \in Sols, Work(b) \/ Command(b) \/ Die(b)
        PROVE  OneReceipt
    <3>1. CASE Finish(b) \/ PauseForConflict(b)
      <4>1. \/ UNCHANGED <<counted, writer>>
            \/ \E k \in {0, run[b].wrote} : Receipt(b, k)
        BY <3>1, ReceiptKeeps
      <4> QED
        BY <4>1 DEF OneReceipt
    <3>2. CASE Acknowledge(b)
      BY <3>2 DEF Acknowledge, globalFile, OneReceipt, TypeInv, WriterType,
         WriterFiles
    <3>3. CASE ~ Finish(b) /\ ~ PauseForConflict(b) /\ ~ Acknowledge(b)
      <4>1. UNCHANGED counted /\ \A s \in Subjects : Kept(s)
        BY <2>2, <3>3, BatchKeeps
      <4> QED
        BY <4>1 DEF OneReceipt, Kept
    <3> QED
      BY <3>1, <3>2, <3>3
  <2> QED
    BY <2>1, <2>2 DEF Next
<1> QED
  BY FilesInvariant, <1>1, PTL DEF SolSpec

\* The fence of a batch that is active, reviewed or set aside stays up.
LEMMA FenceStaysUp ==
  ASSUME TypeInv, QueueInv, FilesInv, Next, crashes = 0, NEW b \in Sols,
         Writer(b).blocked,
         Status(b) \notin {"absent", "queued", "committed"}
  PROVE  writer'[Subject(b)].blocked
<1>1. /\ Subject(b) \in Subjects /\ AgreeInv
      /\ Status(b) \in {"active", "reviewed", "safe_paused"}
  BY DEF TypeInv, GlobalType, Entries, Statuses, Status, Subject, FilesInv
<1>2. /\ Status(b) \in Open
      /\ Writer(b).handoff \in {"sol_reviewing", "sol_reviewed",
                                "safe_paused"}
  BY <1>1 DEF AgreeInv, Open, Fits
<1>3. ASSUME Kept(Subject(b)) PROVE writer'[Subject(b)].blocked
  BY <1>3 DEF Kept, Writer
<1>4. ASSUME NEW s \in Subjects, Daemon(s)
      PROVE  writer'[Subject(b)].blocked
  <2>1. CASE Rollover(s)
    <3>1. Subject(b) # s
      BY <1>2, <2>1 DEF Rollover, Writer
    <3>2. writer'[Subject(b)] = writer[Subject(b)]
      BY <1>1, <1>4, <3>1, DaemonKeeps
    <3> QED
      BY <3>2 DEF Writer
  <2>2. CASE ~ Rollover(s)
    <3>1. \A o \in Subjects : Kept(o)
      BY <1>4, <2>2, DaemonKeeps
    <3> QED
      BY <1>1, <1>3, <3>1
  <2> QED
    BY <2>1, <2>2
<1>5. ASSUME NEW o \in Sols, Work(o) \/ Command(o) \/ Die(o)
      PROVE  writer'[Subject(b)].blocked
  <2>1. CASE Finish(o) \/ PauseForConflict(o)
    <3>1. writer'[Subject(b)].blocked = writer[Subject(b)].blocked
      BY <1>1, <2>1, ReceiptKeeps
    <3> QED
      BY <3>1 DEF Writer
  <2>2. CASE Acknowledge(o)
    <3>1. Subject(b) # Subject(o)
      BY <1>2, <2>2 DEF Acknowledge, Writer
    <3>2. writer'[Subject(b)] = writer[Subject(b)]
      BY <1>1, <2>2, <3>1 DEF Acknowledge, TypeInv, WriterType
    <3> QED
      BY <3>2 DEF Writer
  <2>3. CASE ~ Finish(o) /\ ~ PauseForConflict(o) /\ ~ Acknowledge(o)
    <3>1. \A s \in Subjects : Kept(s)
      BY <1>5, <2>3, BatchKeeps
    <3> QED
      BY <1>1, <1>3, <3>1
  <2> QED
    BY <2>1, <2>2, <2>3
<1> QED
  BY <1>4, <1>5 DEF Next

\* While no process died, the fence that a batch's review put up stays up
\* while the batch is active, reviewed or set aside: a rollover finds its
\* subject's writer file taken, and an acknowledgement finds no commit
\* (rollover_background_luna_batch, acknowledge_subject_generation).
THEOREM FenceHolds == SolSpec => FenceOutlastsPause
<1> DEFINE A == crashes = 0 => \A b \in Sols :
                  /\ Status(b) \notin {"absent", "queued", "committed"}
                  /\ Writer(b).blocked
                  => writer'[Subject(b)].blocked
<1>1. TypeInv /\ QueueInv /\ FilesInv /\ [Next]_vars => [A]_vars
  BY FenceStaysUp
<1> QED
  BY FilesInvariant, <1>1, PTL DEF SolSpec, FenceOutlastsPause

\* An execution begins with its review and with no other step.
LEMMA ExecutionBegins ==
  ASSUME TypeInv, QueueInv, Next, NEW b \in Sols, run'[b].pc = "execute"
  PROVE  Begin(b) \/ run[b].pc = "execute"
<1>1. ASSUME NEW s \in Subjects, Daemon(s) PROVE run'[b] = run[b]
  BY <1>1 DEF Daemon, Prepare, Claim, Complete, Rollover, Record
<1>2. ASSUME NEW o \in Sols, Work(o) \/ Command(o) \/ Die(o), o # b
      PROVE  run'[b] = run[b]
  <2>1. CASE Finish(o) \/ PauseForConflict(o)
    BY <1>2, <2>1 DEF Finish, PauseForConflict, TypeInv, RunType
  <2>2. CASE ~ Finish(o) /\ ~ PauseForConflict(o)
    BY <1>2, <2>2, BatchQueues
  <2> QED
    BY <2>1, <2>2
<1>3. ASSUME Work(b) \/ Command(b) \/ Die(b), ~ Begin(b)
      PROVE  run[b].pc = "execute"
  <2>1. ASSUME NEW r, Becomes(b, r) \/ run' = [run EXCEPT ![b] = r]
        PROVE  r.pc = "execute"
    BY <2>1 DEF Becomes, Idle, TypeInv, RunType
  <2>2. Idle.pc # "execute" /\ run[b] \in Runs
    BY DEF Idle, TypeInv, RunType
  <2>3. /\ [run[b] EXCEPT !.pc = "fail"].pc = "fail"
        /\ [run[b] EXCEPT !.pc = "apply"].pc = "apply"
        /\ [run[b] EXCEPT !.pc = "begin"].pc = "begin"
        /\ [run[b] EXCEPT !.pc = "restore"].pc = "restore"
        /\ [Idle EXCEPT !.pc = "authorize", !.kind = "nightly"].pc = "authorize"
        /\ [Idle EXCEPT !.pc = "begin", !.kind = "resumed"].pc = "begin"
    BY <2>2 DEF Runs, Idle
  <2>4. CASE Execute(b) \/ ExecuteFails(b)
    BY <2>4 DEF Execute, ExecuteFails
  <2>5. CASE PublishFails(b)
    <3>1. run' = [run EXCEPT ![b] = [run[b] EXCEPT !.pc = "fail"]]
      BY <2>5 DEF PublishFails, TypeInv, RunType
    <3> QED
      BY <2>1, <2>3, <3>1
  <2>6. CASE Work(b) \/ Die(b)
    BY <2>1, <2>2, <2>3, <2>4, <2>5, <2>6 DEF Work, Die, BeginRefused, Approve,
       FailReview, Finish, PauseForConflict, Restore, Refused
  <2>7. CASE Command(b)
    <3>1. UNCHANGED run => run[b].pc = "execute"
      OBVIOUS
    <3> QED
      BY <1>3, <2>1, <2>2, <2>3, <2>7, <3>1 DEF Command, Admit, Authorize,
         Resume, Acknowledge, Abandon, RejectApply
  <2> QED
    BY <1>3, <2>6, <2>7
<1> QED
  BY <1>1, <1>2, <1>3 DEF Next

\* A batch that was entered keeps its subject, and dead processes stay dead.
LEMMA StepKeeps ==
  ASSUME TypeInv, QueueInv, Next
  PROVE  /\ crashes' = 0 => crashes = 0
         /\ \A b \in Sols : Status(b) # "absent" => Subject(b)' = Subject(b)
<1>1. ASSUME NEW s \in Subjects, Daemon(s)
      PROVE  UNCHANGED entry /\ (crashes' = 0 => crashes = 0)
  BY <1>1 DEF Daemon, Prepare, Claim, Complete, Rollover, Record, WritesBatch,
     ThenWriter, Dies, globalFile, TypeInv, WriterType
<1>2. ASSUME NEW o \in Sols, NEW s \in Subjects, NEW n \in 0..Batches[s],
             Authorize(o, s, n)
      PROVE  /\ crashes' = 0 => crashes = 0
             /\ Status(o) = "absent"
             /\ \A b \in Sols : b # o => Subject(b)' = Subject(b)
  BY <1>2 DEF Authorize, ThenWriter, Dies, NoEntry, Status, Subject, TypeInv,
     WriterType, GlobalType
<1> QED
  BY <1>1, <1>2, EntryKept DEF Next, Subject

\* Who executes does so behind a fence, while no process died.
ExecutesFenced ==
  crashes = 0 => \A b \in Sols : run[b].pc = "execute" => Writer(b).blocked

\* Every formal write is made while the fence of the subject is up and no
\* Luna task of it is claimed: those of the process that holds the lease
\* whatever died, and while no process died those of one that lost it as well,
\* since its batch is set aside behind the fence until it is answered
\* (nightly_sol_alignment.py, execute_batch).
THEOREM FencedWrites == SolSpec => WritesBehindFence
<1> DEFINE A == \A b \in Sols :
                  formal'[b] # formal[b] /\ (Holds(b) \/ crashes = 0) =>
                    Writer(b).blocked /\ lease[Subject(b)] # "claimed"
           I == TypeInv /\ QueueInv /\ FenceInv /\ FilesInv
<1>1. Init => ExecutesFenced
  BY DEF Init, ExecutesFenced, Idle
<1>2. I /\ ExecutesFenced /\ I' /\ [Next]_vars => ExecutesFenced'
  <2> SUFFICES ASSUME I, ExecutesFenced, I', [Next]_vars, crashes' = 0,
                      NEW b \in Sols, run'[b].pc = "execute"
               PROVE  Writer(b)'.blocked
    BY DEF ExecutesFenced
  <2>1. CASE UNCHANGED vars
    BY <2>1 DEF vars, globalFile, ExecutesFenced, Writer, Subject
  <2>2. CASE Next /\ Holds(b)'
    BY <2>2 DEF FenceInv
  <2>3. CASE Next /\ ~ Holds(b)'
    <3>1. crashes = 0
      BY <2>3, StepKeeps
    <3>2. run[b].pc = "execute"
      <4>1. CASE Begin(b)
        <5>1. crashes' = crashes
          BY <3>1
        <5>2. /\ active' = [sol |-> b, token |-> next, status |-> "reviewing"]
              /\ run' = [run EXCEPT ![b] =
                           [run[b] EXCEPT !.pc = "execute", !.token = next]]
          BY <4>1, <5>1 DEF Begin, Becomes
        <5>3. run'[b].token = next
          BY <5>2 DEF TypeInv, RunType, Runs
        <5> QED
          BY <2>3, <5>2, <5>3 DEF Holds
      <4> QED
        BY <2>3, <4>1, ExecutionBegins
    <3>3. Writer(b).blocked /\ Status(b) \in Held
      BY <3>1, <3>2, AtWorkIsHeld DEF ExecutesFenced, AtWork
    <3>4. writer'[Subject(b)].blocked
      BY <2>3, <3>1, <3>3, FenceStaysUp DEF Held
    <3>5. Subject(b)' = Subject(b)
      BY <2>3, <3>3, StepKeeps DEF Held
    <3> QED
      BY <3>4, <3>5 DEF Writer
  <2> QED
    BY <2>1, <2>2, <2>3
<1>3. I /\ ExecutesFenced /\ [Next]_vars => [A]_vars
  <2> SUFFICES ASSUME I, ExecutesFenced, [Next]_vars, NEW b \in Sols,
                      formal'[b] # formal[b], Holds(b) \/ crashes = 0
               PROVE  Writer(b).blocked /\ lease[Subject(b)] # "claimed"
    OBVIOUS
  <2>1. run[b].pc = "execute"
    BY OnlyExecutionWrites
  <2>2. Subject(b) \in Subjects
    BY <2>1, Known, AtWorkIsHeld DEF AtWork
  <2>3. Writer(b).blocked
    BY <2>1 DEF FenceInv, ExecutesFenced
  <2> QED
    BY <2>2, <2>3 DEF FenceInv, LunaNeverFenced, Writer
<1>4. SolSpec => []I
  BY WriterInvariant, FilesInvariant, PTL
<1> QED
  BY <1>1, <1>2, <1>3, <1>4, PTL DEF SolSpec, WritesBehindFence
=============================================================================
