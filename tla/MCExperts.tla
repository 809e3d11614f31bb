------------------------------ MODULE MCExperts ------------------------------
(* Experts with one agent name, an operator and a viewer; only the operator may  *)
(* use the report skill and the search tool.                                      *)
EXTENDS Experts, TLC

CONSTANTS monitor, operator, viewer, report, search

MCName == {monitor}
MCRole == {operator, viewer}
MCSkill == {report}
MCTool == {search}
MCAllowedSkills == operator :> {report} @@ viewer :> {}
MCAllowedTools == operator :> {search} @@ viewer :> {}
=============================================================================
