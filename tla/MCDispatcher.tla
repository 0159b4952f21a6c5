---------------------------- MODULE MCDispatcher ----------------------------
EXTENDS Dispatcher, TLC

CONSTANTS u1, math, c1

MCUnits == {u1}
MCSubjects == {math}
MCSubjectOf == [u \in {u1} |-> math]
MCCaptures == {c1}
MCCapturesOf == [u \in {u1} |-> {c1}]
MCTasksOf == [a \in {} |-> {}]
MCOwners == {Me, Rival}
MCOutcomes == {"succeeded", "failed", "cancelled"}
=============================================================================
