----------------------------- MODULE MCAgentTurn ------------------------------
(***************************************************************************)
(* AgentTurn with one connection of two turns, one HTTP request, two       *)
(* tool calls and one crash.                                               *)
(***************************************************************************)
EXTENDS AgentTurn, TLC

CONSTANTS w1, r1, s1, c1, c2

MCConns == {w1}
MCReqs == {r1}
MCSessions == {w1, r1, s1}
MCMaxBatch == (w1 :> 2) @@ (r1 :> 1)
MCContained == {{}, {"text"}, {"skill", "text"}}
MCCalls == {c1, c2}

MCOps == {[tool |-> "file_write", content |-> "escaping"],
          [tool |-> "file_read", content |-> "listed"],
          [tool |-> "command_exec", content |-> "blacklisted"],
          [tool |-> "python_exec", content |-> "listed"]}

MCConfigs == {[enabled |-> TRUE, fail_closed |-> TRUE, ok |-> TRUE, backend |-> "docker", context |-> TRUE],
              [enabled |-> TRUE, fail_closed |-> FALSE, ok |-> FALSE, backend |-> "remote", context |-> FALSE],
              [enabled |-> TRUE, fail_closed |-> FALSE, ok |-> TRUE, backend |-> "disabled", context |-> TRUE],
              [enabled |-> FALSE, fail_closed |-> TRUE, ok |-> TRUE, backend |-> "docker", context |-> TRUE]}

Symmetry == Permutations(MCCalls)
=============================================================================
