----------------------------- MODULE MCTaskBoard -----------------------------
(***************************************************************************)
(* TaskBoard with two members: one may be shut down while another works.   *)
(***************************************************************************)
EXTENDS TaskBoard, TLC

CONSTANTS m1, m2

MCMember == {m1, m2}

Symmetry == Permutations(MCMember)
=============================================================================
