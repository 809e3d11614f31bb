----------------------------- MODULE MCMcpClient -----------------------------
(***************************************************************************)
(* McpClient with three tool calls beside the manager's connect and        *)
(* disconnect: one to be queued, two to reconnect against each other.      *)
(***************************************************************************)
EXTENDS McpClient

CONSTANTS c1, c2, c3

MCCall == {c1, c2, c3}
=============================================================================
