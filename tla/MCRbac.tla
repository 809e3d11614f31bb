-------------------------------- MODULE MCRbac --------------------------------
(***************************************************************************)
(* Rbac with two roles, two skills, two servers with a tool each and one   *)
(* reader.  One role may have any skill data, or any MCP data; the other   *)
(* may do everything, as the admin of config/rbac.yaml.                    *)
(***************************************************************************)
EXTENDS Rbac, TLC

CONSTANTS admin, viewer, report, enterprise, github, database, search, query, thread

MCRole == {admin, viewer}
MCSkill == {report, enterprise}
MCServer == {github, database}
MCTool == {search, query}
MCServerOf == search :> github @@ query :> database
MCLevelOf == report :> 0 @@ enterprise :> 2
MCReader == {thread}

AdminData == [exact |-> FALSE, skills |-> {}, skills_allowed |-> {}, skills_denied |-> {},
              skill_access |-> 3, mcp_tools |-> {All}, mcp_tools_denied |-> {}]

AnySkills ==
    [exact : BOOLEAN, skills : SUBSET (MCSkill \cup {All}),
     skills_allowed : SUBSET (MCSkill \cup {All}),
     skills_denied : SUBSET (MCSkill \cup {All}),
     skill_access : {1},
     mcp_tools : {{}}, mcp_tools_denied : {{}}]

AnyTools ==
    [exact : {FALSE}, skills : {{}}, skills_allowed : {{}}, skills_denied : {{}},
     skill_access : {1},
     mcp_tools : SUBSET (MCServer \cup MCTool \cup {All}),
     mcp_tools_denied : SUBSET (MCServer \cup MCTool \cup {All})]

MCInitialFile ==
    {viewer :> data @@ admin :> AdminData :
        data \in {d \in AnySkills : d.exact \/ d.skills = {}} \cup AnyTools}
=============================================================================
