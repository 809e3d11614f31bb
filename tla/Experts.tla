------------------------------- MODULE Experts -------------------------------
(***************************************************************************)
(* The expert agents an administrator manages (gateway/server.py,          *)
(* harness/expert): the registry in memory, one JSON file and one SOUL.md  *)
(* per agent, and the profile.yaml files that are deployed with the code.  *)
(*                                                                         *)
(* The endpoints do not suspend, so each holds the event loop (op) from    *)
(* its first action to its last.  They are split where a file is opened    *)
(* (and truncated) or written, because a write may fail there and the      *)
(* process may stop.  A refused creation or deletion changes nothing and   *)
(* is left out; a refused update is an action.                             *)
(***************************************************************************)
EXTENDS Naturals

CONSTANTS
    Name,            \* agent names
    Role,            \* the members of UserRole
    Unknown,         \* any other string in the role field
    Skill, Tool,
    AllowedSkills,   \* what the permission file gives each role
    AllowedTools,
    Keep,            \* a field an update does not mention
    Deployed,        \* the profile of a profile.yaml
    Torn,            \* the content of a file that was not written to its end
    None

ASSUME RolesAssumption ==
    /\ Unknown \notin Role /\ Keep \notin Role \cup {Unknown}
    /\ AllowedSkills \in [Role -> SUBSET Skill] /\ AllowedTools \in [Role -> SUBSET Tool]

Type == {"internal", "external"}
Profile == [type : Type, role : Role \cup {Unknown}, skills : SUBSET Skill, tools : SUBSET Tool]

\* What an endpoint does next when it holds the loop.
Step == {"soul", "store", "json", "rmtree"}

ASSUME ValuesAssumption ==
    /\ {None, Deployed, Torn} \cap Profile = {} /\ None \notin {Deployed, Torn}
    /\ Keep \notin Type
    /\ None \notin [name : Name, step : Step, profile : Profile]

VARIABLES
    yaml,        \* the names with a profile.yaml
    registry,    \* AgentRegistry._profiles: a profile, Deployed for one that was deployed, or None
    file,        \* <name>.json: a profile, Torn (it does not parse), or None
    soul,        \* <name>/SOUL.md: absent ("none"), cut short, of the agent ("own") or of
                 \* an earlier one of its name ("old")
    installed,   \* the skills SkillManager finds
    op,          \* the endpoint that holds the loop, or None
    stale,       \* names whose registered profile may differ from the files since the start:
                 \* an endpoint was refused or failed, or a deletion uncovered a profile.yaml
    cut,         \* names for which some endpoint did not finish its work on the files
    unchecked    \* names of registered agents that were once given a role their skills
                 \* and tools were not checked against

vars == <<yaml, registry, file, soul, installed, op, stale, cut, unchecked>>

TypeOK ==
    /\ yaml \subseteq Name /\ installed \subseteq Skill
    /\ registry \in [Name -> Profile \cup {Deployed, None}]
    /\ file \in [Name -> Profile \cup {Torn, None}]
    /\ soul \in [Name -> {"none", "cut", "own", "old"}]
    /\ op \in [name : Name, step : Step, profile : Profile] \cup {None}
    /\ stale \subseteq Name /\ cut \subseteq Name /\ unchecked \subseteq Name

LoopFree == op = None
Busy(n) == op # None /\ op.name = n

\* scan_profiles, then scan_api_profiles over it: a file that does not parse is skipped.
Scan(yamls) == [n \in Name |->
    IF file[n] \notin {Torn, None} THEN file[n] ELSE IF n \in yamls THEN Deployed ELSE None]

\* A SOUL.md outlives its agent when nobody removes it.
Orphaned(registered) == [n \in Name |->
    IF soul[n] = "own" /\ registered[n] \in {Deployed, None} THEN "old" ELSE soul[n]]

Init ==
    /\ yaml \in SUBSET Name /\ installed = Skill
    /\ file = [n \in Name |-> None] /\ soul = [n \in Name |-> "none"]
    /\ registry = Scan(yaml)
    /\ op = None /\ stale = {} /\ cut = {} /\ unchecked = {}

---------------------------------------------------------------------------
(* What ExpertAgentValidator makes of a request *)

\* validate_skills_from_profile: an unknown role or skill is an error, a skill the role
\* may not use is dropped.
SkillsRaise(role, skills) == role \notin Role \/ ~(skills \subseteq installed)

\* The profile with the skills and tools that its role may use.
Validated(p) == [p EXCEPT !.skills = @ \cap AllowedSkills[p.role], !.tools = @ \cap AllowedTools[p.role]]

Given(field, present) == IF field = Keep THEN present ELSE field

Request == [type : Type \cup {Keep}, role : Role \cup {Unknown, Keep},
            skills : SUBSET Skill \cup {Keep}, tools : SUBSET Tool \cup {Keep}, soul : BOOLEAN]

\* update_agent writes role and type into the live profile before it looks at the rest.
Retyped(p, req) == [p EXCEPT !.type = Given(req.type, @), !.role = Given(req.role, @)]

\* Mutant: an update of the role alone is not checked.
ChecksSkillsGiven(p, req) == Retyped(p, req).type = "internal" /\ req.skills # Keep

\* The skills are looked at for an internal agent whose skills or role are given.
ChecksSkills(p, req) == Retyped(p, req).type = "internal" /\ (req.skills # Keep \/ req.role # Keep)
ChecksTools(p, req) == Retyped(p, req).type = "internal" /\ (req.tools # Keep \/ req.role # Keep)

Refused(p, req) ==
    \/ ChecksSkills(p, req) /\ SkillsRaise(Retyped(p, req).role, Given(req.skills, p.skills))
    \/ ChecksTools(p, req) /\ Retyped(p, req).role \notin Role

Updated(p, req) ==
    LET q == Retyped(p, req)
    IN  [q EXCEPT
            !.skills = IF ChecksSkills(p, req) THEN Given(req.skills, @) \cap AllowedSkills[q.role] ELSE @,
            !.tools = IF ChecksTools(p, req) THEN Given(req.tools, @) \cap AllowedTools[q.role] ELSE @]

---------------------------------------------------------------------------
(* The endpoints *)

\* Goes on with save_soul, if there is a soul to save, and then with store.save.
SaveFor(n, p, withSoul) ==
    /\ op' = [name |-> n, step |-> IF withSoul THEN "soul" ELSE "store", profile |-> p]
    /\ soul' = IF withSoul THEN [soul EXCEPT ![n] = "cut"] ELSE soul

\* create_agent for a name that is not registered.
CreateInternal(n, p) ==
    /\ LoopFree /\ registry[n] = None /\ p.type = "internal"
    /\ ~SkillsRaise(p.role, p.skills)
    /\ SaveFor(n, Validated(p), TRUE)
    /\ UNCHANGED <<yaml, registry, file, installed, stale, cut, unchecked>>

CreateExternal(n, p) ==
    /\ LoopFree /\ registry[n] = None /\ p.type = "external"
    /\ SaveFor(n, [p EXCEPT !.skills = {}, !.tools = {}], FALSE)
    /\ UNCHANGED <<yaml, registry, file, installed, stale, cut, unchecked>>

UpdateRefused(n, req) ==
    /\ LoopFree /\ registry[n] \in Profile
    /\ Refused(registry[n], req)
    /\ registry' = [registry EXCEPT ![n] = Retyped(@, req)]
    /\ stale' = stale \cup {n}
    /\ unchecked' = IF req.role = Keep THEN unchecked ELSE unchecked \cup {n}
    /\ UNCHANGED <<yaml, file, soul, installed, op, cut>>

Update(n, req) ==
    /\ LoopFree /\ registry[n] \in Profile
    /\ ~Refused(registry[n], req)
    /\ registry' = [registry EXCEPT ![n] = Updated(@, req)]
    /\ SaveFor(n, registry'[n], req.soul /\ registry'[n].type = "internal")
    /\ unchecked' = IF req.role # Keep /\ registry'[n].type = "external" THEN unchecked \cup {n} ELSE unchecked
    /\ UNCHANGED <<yaml, file, installed, stale, cut>>

\* save_soul closes SOUL.md; store.save opens the JSON file, and closes it.
FillSoul ==
    /\ op # None /\ op.step = "soul"
    /\ soul' = [soul EXCEPT ![op.name] = "own"]
    /\ op' = [op EXCEPT !.step = "store"]
    /\ UNCHANGED <<yaml, registry, file, installed, stale, cut, unchecked>>

OpenJson ==
    /\ op # None /\ op.step = "store"
    /\ file' = [file EXCEPT ![op.name] = Torn]
    /\ op' = [op EXCEPT !.step = "json"]
    /\ UNCHANGED <<yaml, registry, soul, installed, stale, cut, unchecked>>

\* Mutant: create_agent saves the profile and does not register it.
FillJsonUnregistered ==
    /\ op # None /\ op.step = "json"
    /\ file' = [file EXCEPT ![op.name] = op.profile]
    /\ stale' = stale \ {op.name}
    /\ op' = None
    /\ UNCHANGED <<yaml, registry, soul, installed, cut, unchecked>>

FillJson ==
    /\ op # None /\ op.step = "json"
    /\ file' = [file EXCEPT ![op.name] = op.profile]
    /\ registry' = [registry EXCEPT ![op.name] = op.profile]
    /\ stale' = stale \ {op.name}
    /\ op' = None
    /\ UNCHANGED <<yaml, soul, installed, cut, unchecked>>

\* The registry forgets the agent, and with it whatever profile.yaml it hid.
Unregister(n) ==
    /\ registry' = [registry EXCEPT ![n] = None]
    /\ stale' = IF n \in yaml THEN stale \cup {n} ELSE stale \ {n}
    /\ unchecked' = unchecked \ {n}

\* delete_agent: store.delete removes the JSON file first, and nothing if there is none.
Delete(n) ==
    /\ LoopFree /\ registry[n] \in Profile /\ file[n] # None
    /\ file' = [file EXCEPT ![n] = None]
    /\ op' = [name |-> n, step |-> "rmtree", profile |-> registry[n]]
    /\ UNCHANGED <<yaml, registry, soul, installed, stale, cut, unchecked>>

\* Mutant: the soul directory is not removed.
DeleteTreeKeepsSoul ==
    /\ op # None /\ op.step = "rmtree"
    /\ Unregister(op.name)
    /\ soul' = Orphaned(registry')
    /\ op' = None
    /\ UNCHANGED <<yaml, file, installed, cut>>

DeleteTree ==
    /\ op # None /\ op.step = "rmtree"
    /\ soul' = [soul EXCEPT ![op.name] = "none"]
    /\ Unregister(op.name)
    /\ op' = None
    /\ UNCHANGED <<yaml, file, installed, cut>>

DeleteUnsaved(n) ==
    /\ LoopFree /\ registry[n] \in Profile /\ file[n] = None
    /\ Unregister(n)
    /\ soul' = Orphaned(registry')
    /\ UNCHANGED <<yaml, file, installed, op, cut>>

---------------------------------------------------------------------------
(* The surroundings *)

\* The file system refuses: the endpoint raises where it is.
Fails ==
    /\ op # None
    /\ stale' = stale \cup {op.name} /\ cut' = cut \cup {op.name}
    /\ soul' = Orphaned(registry)
    /\ op' = None
    /\ UNCHANGED <<yaml, registry, file, installed, unchecked>>

\* The process stops, wherever it is, and starts again, perhaps with other profile.yaml
\* files.
Restart(yamls) ==
    /\ yaml' = yamls
    /\ registry' = Scan(yamls)
    /\ soul' = Orphaned(registry')
    /\ cut' = IF op = None THEN cut ELSE cut \cup {op.name}
    /\ op' = None /\ stale' = {}
    /\ UNCHANGED <<file, installed, unchecked>>

\* A skill is imported, or its directory is removed.
SkillsChange(s) ==
    /\ LoopFree
    /\ installed' = IF s \in installed THEN installed \ {s} ELSE installed \cup {s}
    /\ UNCHANGED <<yaml, registry, file, soul, op, stale, cut, unchecked>>

Next ==
    \/ \E n \in Name :
        \/ \E p \in Profile : CreateInternal(n, p) \/ CreateExternal(n, p)
        \/ \E req \in Request : UpdateRefused(n, req) \/ Update(n, req)
        \/ Delete(n) \/ DeleteUnsaved(n)
    \/ FillSoul \/ OpenJson \/ FillJson \/ DeleteTree \/ Fails
    \/ \E yamls \in SUBSET Name : Restart(yamls)
    \/ \E s \in Skill : SkillsChange(s)

Spec == Init /\ [][Next]_vars

---------------------------------------------------------------------------
(* Properties *)

\* The registry is what a restart would read: an answered create, update or delete is
\* durable, and one that was cut short does not show afterwards, unless an update was
\* refused, an endpoint failed, or a deletion uncovered a deployed agent since the start
\* (registry.py, store.py, update_agent).
RegistryFollowsFiles == \A n \in Name :
    n \notin stale /\ ~Busy(n) => registry[n] = Scan(yaml)[n]

\* A deleted agent leaves no file, and nobody inherits the SOUL.md of an earlier agent of
\* the name, unless an endpoint for it was cut short (store.py delete, load_soul).
NothingLeftBehind == \A n \in Name : n \notin cut /\ ~Busy(n) =>
    /\ soul[n] \in {"none", "own"} /\ file[n] # Torn
    /\ registry[n] \notin Profile => file[n] = None /\ soul[n] = "none"

\* The file of an internal agent lists only skills and tools that its role may use
\* (validator.py: "privilege escalation prevention for expert agents"), unless the agent
\* was given a role by an update that was then refused, or while it was external.
SavedWithinRole == \A n \in Name \ unchecked :
    file[n] \in Profile /\ file[n].type = "internal" /\ file[n].role \in Role =>
        file[n] = Validated(file[n])
=============================================================================
