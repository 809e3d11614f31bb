---------------------------- MODULE MCMcpManager ----------------------------
(***************************************************************************)
(* McpManager with three requests, two servers and three tools.            *)
(***************************************************************************)
EXTENDS McpManager, TLC

CONSTANTS r1, r2, r3, a, b, t1, t2, t3

MCRequest == {r1, r2, r3}
MCServer == {a, b}
MCTool == {t1, t2, t3}

\* The prefix of neither server extends the other's.
MCDisjoint == [s \in MCServer |-> IF s = a THEN {t1, t2} ELSE {t3}]

Symmetry == Permutations(MCRequest)
=============================================================================
