---------------------------- MODULE MCLeaseStore ----------------------------
(***************************************************************************)
(* One unit of one subject fought over by two dispatcher incarnations,     *)
(* with one controlled-replay allowlist that names it.                     *)
(***************************************************************************)
EXTENDS LeaseStore, TLC

CONSTANTS u1, o1, o2, math, c1, a1

MCUnits == {u1}
MCSubjects == {math}
MCSubjectOf == u1 :> math
MCCaptures == {c1}
MCCapturesOf == u1 :> {c1}
MCAllowlists == {a1}
MCTasksOf == a1 :> {u1}
MCOwners == {o1, o2}
MCOutcomes == {"succeeded"}
Symmetry == Permutations(MCOwners)
=============================================================================
