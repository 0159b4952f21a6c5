---------------------------- MODULE FencedLedger ----------------------------
(***************************************************************************)
(* What the lease store promises its clients, with no clock, heartbeat,    *)
(* retry, drain or crash in sight: generations of a unit are numbered, a   *)
(* number is granted to at most one owner, and the unit's single result is *)
(* written once, by the holder of the newest generation.                   *)
(***************************************************************************)
EXTENDS Naturals

CONSTANTS Units, Owners, Outcomes, NoOwner

VARIABLES
  newest,   \* number of the newest generation of each unit
  grants,   \* generations ever granted, with their owners
  result    \* the unit's result; generation 0 while there is none

ledgerVars == <<newest, grants, result>>

NoResult == [fence |-> 0, owner |-> NoOwner, outcome |-> "none"]

LedgerInit ==
  /\ newest = [u \in Units |-> 0]
  /\ grants = {}
  /\ result = [u \in Units |-> NoResult]

\* A new generation for owner o.
Grant(u, o) ==
  /\ newest' = [newest EXCEPT ![u] = @ + 1]
  /\ grants' = grants \cup {[unit |-> u, owner |-> o, fence |-> newest[u] + 1]}
  /\ UNCHANGED result

\* A generation nobody holds: fences off the previous holder.
Revoke(u) ==
  /\ newest' = [newest EXCEPT ![u] = @ + 1]
  /\ UNCHANGED <<grants, result>>

Decide(u, o, out) ==
  /\ result[u] = NoResult
  /\ [unit |-> u, owner |-> o, fence |-> newest[u]] \in grants
  /\ result' = [result EXCEPT ![u] = [fence |-> newest[u], owner |-> o,
                                      outcome |-> out]]
  /\ UNCHANGED <<newest, grants>>

LedgerNext ==
  \E u \in Units :
    \/ \E o \in Owners : Grant(u, o)
    \/ Revoke(u)
    \/ \E o \in Owners, out \in Outcomes : Decide(u, o, out)

LedgerSpec == LedgerInit /\ [][LedgerNext]_ledgerVars
=============================================================================
