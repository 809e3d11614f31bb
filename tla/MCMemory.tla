------------------------------- MODULE MCMemory -------------------------------
(***************************************************************************)
(* Memory with two chats, a cron job, a memory_manage call and a heartbeat *)
(* that looks at two rows, in a gateway that may be restarted once.        *)
(***************************************************************************)
EXTENDS Memory

CONSTANTS t1, t2, j1, x1, k1

MCLoopTurns == {t1, t2}
MCThreadTurns == {j1}
MCTools == {x1}
MCToolFiles == {"MEMORY.md"}
MCCycles == {k1}
=============================================================================
