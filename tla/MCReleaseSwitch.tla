-------------------------- MODULE MCReleaseSwitch --------------------------
(***************************************************************************)
(* Two subjects instead of three: a strict prefix of them can be armed.    *)
(* Which release comes first does not matter.                              *)
(***************************************************************************)
EXTENDS ReleaseSwitch, TLC

CONSTANTS s1, s2

TwoSubjects == <<s1, s2>>
ReleaseSymmetry == Permutations(Releases)
=============================================================================
