----------------------------- MODULE MCLaneQueue -----------------------------
(***************************************************************************)
(* Instances of LaneQueue for TLC: four requests, three of one session and *)
(* one of another.                                                         *)
(***************************************************************************)
EXTENDS LaneQueue

CONSTANTS r1, r2, r3, r4, chat, dm

MCRequest == {r1, r2, r3, r4}
MCKey == {chat, dm}
MCKeyOf == [r \in MCRequest |-> IF r = r4 THEN dm ELSE chat]
=============================================================================
