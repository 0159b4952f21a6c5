---------------------------- MODULE WriterQueue ----------------------------
(***************************************************************************)
(* What the global Sol writer promises, with no subject, receipt, file or  *)
(* crash in sight: authorized batches are granted the one writer in the    *)
(* order of their authorization, under ever newer fencing tokens; a batch  *)
(* that gives the writer up is done for good, or set aside, and one set    *)
(* aside may queue again only while nobody writes.                         *)
(***************************************************************************)
EXTENDS Naturals

CONSTANT Batches   \* numbered in the order of their authorization

VARIABLES
  stage,   \* unknown, waiting, granted, aside or done
  fence    \* the token of the newest grant

queueVars == <<stage, fence>>

Move(b, from, to) ==
  /\ stage[b] = from
  /\ stage' = [stage EXCEPT ![b] = to]

NoneGranted == \A b \in Batches : stage[b] # "granted"

QueueInit ==
  /\ stage = [b \in Batches |-> "unknown"]
  /\ fence = 0

Enter(b) == Move(b, "unknown", "waiting") /\ UNCHANGED fence

Grant(b) ==
  /\ NoneGranted
  /\ \A o \in Batches : stage[o] = "waiting" => b <= o
  /\ Move(b, "waiting", "granted")
  /\ fence' = fence + 1

GiveUp(b, to) == Move(b, "granted", to) /\ UNCHANGED fence

Return(b) ==
  /\ NoneGranted
  /\ Move(b, "aside", "waiting")
  /\ UNCHANGED fence

QueueNext ==
  \E b \in Batches :
    Enter(b) \/ Grant(b) \/ GiveUp(b, "aside") \/ GiveUp(b, "done") \/ Return(b)

QueueSpec == QueueInit /\ [][QueueNext]_queueVars
=============================================================================
