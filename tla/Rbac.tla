--------------------------------- MODULE Rbac ---------------------------------
(***************************************************************************)
(* Role permissions (harness/security/rbac.py): the YAML file, the two     *)
(* update functions of the admin endpoints, and the cache of what the file *)
(* says about MCP tools.  (The cache of base tools is kept in the same way *)
(* and no endpoint changes what it is derived from.)                       *)
(*                                                                         *)
(* The update endpoints and most agents run on the event loop and do not   *)
(* suspend, so an update is one action up to the rewriting of the file.    *)
(* Agents of cron runs look up permissions on the scheduler's threads, at  *)
(* any point of a save: it truncates the file, writes it, clears the cache.*)
(* The process may stop at any point of it, too, and is started again.     *)
(*                                                                         *)
(* An entry of mcp_tools or mcp_tools_denied is a tool, a server (standing *)
(* for "server:*") or All.                                                 *)
(***************************************************************************)
EXTENDS Naturals, FiniteSets

CONSTANTS
    Role,
    Skill,
    Server,
    Tool,
    ServerOf,      \* the server of each tool
    LevelOf,       \* the access level of each skill
    Reader,        \* look-ups on scheduler threads
    InitialFile,   \* what the file may say at first, by role
    MaxSaves,      \* bound on the updates
    All,           \* the entry "*"
    Nothing

ASSUME EntryAssumption ==
    /\ All \notin Skill \cup Server \cup Tool
    /\ Server \cap Tool = {}
ASSUME ServerOfAssumption == ServerOf \in [Tool -> Server]
ASSUME LevelOfAssumption == LevelOf \in [Skill -> Nat]
ASSUME MaxSavesAssumption == MaxSaves \in Nat

\* The data of a role, as far as skills and MCP tools are concerned.  exact says
\* whether there is a list "skills" at all; any other absent list is an empty one.
RoleData ==
    [exact : BOOLEAN,
     skills : SUBSET (Skill \cup {All}),
     skills_allowed : SUBSET (Skill \cup {All}),
     skills_denied : SUBSET (Skill \cup {All}),
     skill_access : Nat,
     mcp_tools : SUBSET (Server \cup Tool \cup {All}),
     mcp_tools_denied : SUBSET (Server \cup Tool \cup {All})]

ASSUME InitialFileAssumption == InitialFile \subseteq [Role -> RoleData]
ASSUME NothingAssumption == Nothing \notin [Role -> RoleData]

VARIABLES
    file,          \* what the file says, Nothing while it is empty
    cache,         \* _ROLE_MCP_TOOL_ACCESS_CACHE: the file it was derived from
    saving,        \* what a save in progress writes, Nothing when there is none
    saves,         \* updates so far
    reader,        \* where each reader is
    loaded,        \* the file each reader has read
    overlapped     \* the readers whose load a save has overtaken

rbacVars == <<file, cache, saving, saves, reader, loaded, overlapped>>

\* What is made of an empty file: a role without data has no MCP tool, and its
\* skill_access is "all".
NoData == [exact |-> FALSE, skills |-> {}, skills_allowed |-> {}, skills_denied |-> {},
           skill_access |-> 3, mcp_tools |-> {}, mcp_tools_denied |-> {}]
Empty == [r \in Role |-> NoData]

Read == IF file = Nothing THEN Empty ELSE file

-----------------------------------------------------------------------------
(* What a role may do *)

AllowsSkill(data, s) ==
    /\ {All, s} \cap data.skills_denied = {}
    /\ \/ {All, s} \cap data.skills_allowed # {}
       \/ data.exact /\ {All, s} \cap data.skills # {}
       \/ ~ data.exact /\ LevelOf[s] <= data.skill_access

AllowsTool(data, t) ==
    /\ {All, ServerOf[t], t} \cap data.mcp_tools_denied = {}
    /\ {All, ServerOf[t], t} \cap data.mcp_tools # {}

ToolsOf(v) == {t \in Tool : ServerOf[t] = v}

\* roles_for_mcp_server: the role counts as having the server.
HasServer(data, v) ==
    /\ {All, v} \cap data.mcp_tools_denied = {}
    /\ ({All, v} \cup ToolsOf(v)) \cap data.mcp_tools # {}

-----------------------------------------------------------------------------
(* The updates of one role's data *)

\* Whether a role's data let it have a skill before overrides.
ByDefault(data, s) ==
    IF data.exact THEN All \in data.skills ELSE LevelOf[s] <= data.skill_access

\* Mutant: set_skill_roles denies only what the access level would allow.
SkillSetByLevel(data, s, selected) ==
    [data EXCEPT
       !.skills = IF ~ data.exact THEN @ ELSE IF selected THEN @ \cup {s} ELSE @ \ {s},
       !.skills_allowed = IF selected /\ ~ data.exact THEN @ \cup {s} ELSE @ \ {s},
       !.skills_denied =
           IF ~ selected /\ LevelOf[s] <= data.skill_access THEN @ \cup {s} ELSE @ \ {s}]

\* set_skill_roles.  An explicit list is edited; where a wildcard or the access
\* level decides, the skill is denied or allowed by name.
SkillSet(data, s, selected) ==
    LET listed == data.exact /\ All \notin data.skills
    IN [data EXCEPT
          !.skills = IF ~ listed THEN @ ELSE IF selected THEN @ \cup {s} ELSE @ \ {s},
          !.skills_allowed =
              IF selected /\ ~ data.exact /\ ~ ByDefault(data, s)
              THEN @ \cup {s} ELSE @ \ {s},
          !.skills_denied =
              IF ~ selected /\ ByDefault(data, s) THEN @ \cup {s} ELSE @ \ {s}]

\* set_mcp_server_roles.
ServerSet(data, v, selected) ==
    LET others == data.mcp_tools \ ({v} \cup ToolsOf(v))
        everything == All \in data.mcp_tools
    IN [data EXCEPT
          !.mcp_tools = IF selected /\ ~ everything THEN others \cup {v} ELSE others,
          !.mcp_tools_denied =
              IF ~ selected /\ everything THEN @ \cup {v} ELSE @ \ {v}]

-----------------------------------------------------------------------------
RbacTypeOK ==
    /\ file \in {Nothing} \cup [Role -> RoleData]
    /\ cache \in {Nothing} \cup [Role -> RoleData]
    /\ saving \in {Nothing} \cup [Role -> RoleData]
    /\ saves \in 0 .. MaxSaves
    /\ reader \in [Reader -> {"idle", "missed", "loaded", "stored", "served", "failed",
                             "gone"}]
    /\ loaded \in [Reader -> {Nothing} \cup [Role -> RoleData]]
    /\ overlapped \in SUBSET Reader

RbacInit ==
    /\ file \in InitialFile
    /\ cache = Nothing
    /\ saving = Nothing
    /\ saves = 0
    /\ reader = [t \in Reader |-> "idle"]
    /\ loaded = [t \in Reader |-> Nothing]
    /\ overlapped = {}

\* The loop is not in the middle of a save.
LoopFree == saving = Nothing

\* PUT /api/rbac/...: load, compute, and open the file for writing.
Save(new) ==
    /\ LoopFree
    /\ saves < MaxSaves
    /\ saves' = saves + 1
    /\ saving' = new
    /\ file' = Nothing
    /\ UNCHANGED <<cache, reader, loaded, overlapped>>

SetSkillRoles(s, roles) == Save([r \in Role |-> SkillSet(Read[r], s, r \in roles)])

SetServerRoles(v, roles) == Save([r \in Role |-> ServerSet(Read[r], v, r \in roles)])

WriteFile ==
    /\ saving # Nothing
    /\ file = Nothing
    /\ file' = saving
    /\ UNCHANGED <<cache, saving, saves, reader, loaded, overlapped>>

\* Mutant: the caches are not cleared.
KeepCaches ==
    /\ saving # Nothing
    /\ file # Nothing
    /\ saving' = Nothing
    /\ overlapped' = overlapped \cup {t \in Reader : reader[t] \in {"loaded", "stored"}}
    /\ UNCHANGED <<file, cache, saves, reader, loaded>>

ClearCaches ==
    /\ saving # Nothing
    /\ file # Nothing
    /\ cache' = Nothing
    /\ saving' = Nothing
    /\ overlapped' = overlapped \cup {t \in Reader : reader[t] \in {"loaded", "stored"}}
    /\ UNCHANGED <<file, saves, reader, loaded>>

\* A look-up by an agent that runs on the loop.
LoopLooksUp ==
    /\ LoopFree
    /\ cache = Nothing
    /\ cache' = Read
    /\ UNCHANGED <<file, saving, saves, reader, loaded, overlapped>>

\* A look-up on a thread: the test of the cache ...
LooksUp(t) ==
    /\ reader[t] = "idle"
    /\ reader' = [reader EXCEPT ![t] = IF cache = Nothing THEN "missed" ELSE "stored"]
    /\ UNCHANGED <<file, cache, saving, saves, loaded, overlapped>>

\* ... the load of the file ...
Loads(t) ==
    /\ reader[t] = "missed"
    /\ loaded' = [loaded EXCEPT ![t] = Read]
    /\ reader' = [reader EXCEPT ![t] = "loaded"]
    /\ UNCHANGED <<file, cache, saving, saves, overlapped>>

\* ... the assignment to the cache ...
Stores(t) ==
    /\ reader[t] = "loaded"
    /\ cache' = loaded[t]
    /\ reader' = [reader EXCEPT ![t] = "stored"]
    /\ UNCHANGED <<file, saving, saves, loaded, overlapped>>

\* ... and the return of the cache, which may be gone again: then the caller
\* gets None where it expects a mapping, and raises.
Returns(t) ==
    /\ reader[t] = "stored"
    /\ reader' = [reader EXCEPT ![t] = IF cache = Nothing THEN "failed" ELSE "served"]
    /\ UNCHANGED <<file, cache, saving, saves, loaded, overlapped>>

\* The gateway stops in the middle of a save and is started again; a file that was
\* only truncated is empty.
Restart ==
    /\ ~ LoopFree
    /\ cache' = Nothing
    /\ saving' = Nothing
    /\ reader' = [t \in Reader |-> IF reader[t] = "idle" THEN "idle" ELSE "gone"]
    /\ overlapped' = {}
    /\ UNCHANGED <<file, saves, loaded>>

RbacNext ==
    \/ \E roles \in SUBSET Role :
         \/ \E s \in Skill : SetSkillRoles(s, roles)
         \/ \E v \in Server : SetServerRoles(v, roles)
    \/ WriteFile
    \/ ClearCaches
    \/ LoopLooksUp
    \/ Restart
    \/ \E t \in Reader : LooksUp(t) \/ Loads(t) \/ Stores(t) \/ Returns(t)

RbacSpec == RbacInit /\ [][RbacNext]_rbacVars

-----------------------------------------------------------------------------
(* Properties *)

\* set_skill_roles gives the skill to exactly the roles it was asked for, for each
\* of the three ways in which a role's data can let it have skills, unless the role
\* has a "*" among its own allowed or denied overrides; no other skill and no tool
\* changes hands.
SkillUpdateExact ==
    [][\A s \in Skill, roles \in SUBSET Role :
         SetSkillRoles(s, roles) =>
            \A r \in Role :
               LET old == Read[r]
                   new == saving'[r]
               IN /\ r \in roles /\ All \notin old.skills_denied => AllowsSkill(new, s)
                  /\ r \notin roles /\ All \notin old.skills_allowed => ~ AllowsSkill(new, s)
                  /\ \A other \in Skill \ {s} :
                        AllowsSkill(new, other) <=> AllowsSkill(old, other)
                  /\ \A t \in Tool : AllowsTool(new, t) <=> AllowsTool(old, t)]_rbacVars

\* set_mcp_server_roles gives the server to exactly the roles it was asked for: a role
\* that was left out has none of its tools, one that was named has all of them that
\* are not denied one by one, unless everything is denied to it; no tool of another
\* server and no skill changes hands.
ServerUpdateExact ==
    [][\A v \in Server, roles \in SUBSET Role :
         SetServerRoles(v, roles) =>
            \A r \in Role :
               LET old == Read[r]
                   new == saving'[r]
               IN /\ r \in roles /\ All \notin old.mcp_tools_denied =>
                        /\ HasServer(new, v)
                        /\ \A t \in ToolsOf(v) \ old.mcp_tools_denied : AllowsTool(new, t)
                  /\ r \notin roles =>
                        ~ HasServer(new, v) /\ \A t \in ToolsOf(v) : ~ AllowsTool(new, t)
                  /\ \A t \in Tool \ ToolsOf(v) : AllowsTool(new, t) <=> AllowsTool(old, t)
                  /\ \A s \in Skill : AllowsSkill(new, s) <=> AllowsSkill(old, s)]_rbacVars

\* An update gives the skill or the server to whom it says, and changes nothing else.
UpdatesExact == SkillUpdateExact /\ ServerUpdateExact

\* After an update the cache is what the file says, and a look-up gets a mapping, for
\* every agent except where a thread's look-up was overtaken by a save: its map of the
\* old file may be stored after the caches were cleared, or the cache it means to
\* return may be cleared.
StaleOnlyIfOverlapped ==
    /\ LoopFree /\ overlapped = {} /\ cache # Nothing => cache = Read
    /\ \A t \in Reader : reader[t] = "failed" => t \in overlapped
=============================================================================
