---------------------------- MODULE FirstTaskGate ----------------------------
(***************************************************************************)
(* What the canary gates promise, each subject for itself: one task at a   *)
(* time until one has succeeded, then up to Limit; a failed task shuts the *)
(* gate; a shut gate takes no task and opens only when no slot is held.    *)
(***************************************************************************)
EXTENDS Integers, FiniteSets

CONSTANTS Subjects, Tasks, Limit

VARIABLES
  open,    \* subjects whose gate takes tasks
  proven,  \* subjects of which a task has succeeded since the gate was set up
  held     \* per subject: the tasks that hold a slot

gateVars == <<open, proven, held>>

GateInit == open = {} /\ proven = {} /\ held = [s \in Subjects |-> {}]

Take(s, u) ==
  /\ s \in open /\ u \notin held[s]
  /\ Cardinality(held[s]) < IF s \in proven THEN Limit ELSE 1
  /\ held' = [held EXCEPT ![s] = @ \cup {u}]
  /\ UNCHANGED <<open, proven>>

Leave(s, u) == u \in held[s] /\ held' = [held EXCEPT ![s] = @ \ {u}]

Succeed(s, u) ==
  /\ Leave(s, u)
  /\ proven' = proven \cup ({s} \cap open)
  /\ UNCHANGED open

Fail(s, u) == Leave(s, u) /\ open' = open \ {s} /\ UNCHANGED proven

Shut(s) == open' = open \ {s} /\ UNCHANGED <<proven, held>>

Reopen(s) ==
  /\ held[s] = {}
  /\ open' = open \cup {s}
  /\ UNCHANGED <<proven, held>>

SetUp(s) ==
  /\ s \notin open /\ held[s] = {}
  /\ open' = open \cup {s} /\ proven' = proven \ {s}
  /\ UNCHANGED held

GateNext ==
  \E s \in Subjects :
    \/ \E u \in Tasks : Take(s, u) \/ Succeed(s, u) \/ Fail(s, u)
    \/ Shut(s) \/ Reopen(s) \/ SetUp(s)

GateSpec == GateInit /\ [][GateNext]_gateVars
=============================================================================
