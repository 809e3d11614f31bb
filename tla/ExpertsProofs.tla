----------------------------- MODULE ExpertsProofs -----------------------------
(***************************************************************************)
(* The properties of Experts, proved for every set of names, roles, skills *)
(* and tools and whatever the permission file allows.  Each action works   *)
(* on one name, except Restart, which reads every file; the invariant is   *)
(* therefore a conjunction over the names.                                 *)
(***************************************************************************)
EXTENDS Experts, TLAPS

---------------------------------------------------------------------------
(* The inductive invariant *)

\* The lists of a profile are within its role, if UserRole knows the role.
Within(p) == p \in Profile /\ p.role \in Role => p = Validated(p)

\* store.delete removes the JSON file before the soul directory.
FileGoesFirst == op # None /\ op.step = "rmtree" => file[op.name] = None

\* The files of an agent whose endpoints all came to their end are those of its
\* registration; while one works on them, it has closed SOUL.md before store.save.
Settled(n) == n \notin cut =>
    IF Busy(n)
    THEN op.step \in {"store", "json"} => soul[n] \in {"none", "own"}
    ELSE /\ soul[n] \in {"none", "own"}
         /\ file[n] # Torn
         /\ registry[n] \in Profile => file[n] \in Profile
         /\ registry[n] \notin Profile => file[n] = None /\ soul[n] = "none"

\* What is registered, filed or about to be filed was checked.
Checked(n) == n \notin unchecked =>
    /\ Within(registry[n]) /\ Within(file[n])
    /\ Busy(n) => Within(op.profile)

IInv ==
    /\ TypeOK /\ RegistryFollowsFiles /\ FileGoesFirst
    /\ \A n \in Name : Settled(n) /\ Checked(n)

---------------------------------------------------------------------------
(* What the validator returns *)

\* An intersection with what the role may use is a profile within its role.
LEMMA ValidatedWithin ==
    ASSUME NEW p \in Profile, p.role \in Role
    PROVE  Validated(p) \in Profile /\ Validated(p).type = p.type /\ Within(Validated(p))
BY RolesAssumption DEF Validated, Within, Profile

\* The type and role an update gives to a profile.
LEMMA RetypedProfile ==
    ASSUME NEW p \in Profile, NEW req \in Request
    PROVE  /\ Retyped(p, req) \in Profile
           /\ Retyped(p, req).skills = p.skills /\ Retyped(p, req).tools = p.tools
           /\ Retyped(p, req).role = Given(req.role, p.role)
BY DEF Retyped, Given, Profile, Request

\* An accepted update gives a profile.
LEMMA UpdatedProfile ==
    ASSUME NEW p \in Profile, NEW req \in Request, ~Refused(p, req)
    PROVE  /\ Updated(p, req) \in Profile
           /\ Updated(p, req).type = Retyped(p, req).type
           /\ Updated(p, req).role = Retyped(p, req).role
<1> DEFINE q == Retyped(p, req)
<1>1. q \in Profile
  BY RetypedProfile
<1>2. ChecksSkills(p, req) => q.role \in Role
  BY DEF Refused, SkillsRaise
<1>3. ChecksTools(p, req) => q.role \in Role
  BY DEF Refused
<1> DEFINE sk == IF ChecksSkills(p, req) THEN Given(req.skills, q.skills) \cap AllowedSkills[q.role] ELSE q.skills
           tl == IF ChecksTools(p, req) THEN Given(req.tools, q.tools) \cap AllowedTools[q.role] ELSE q.tools
<1>4. sk \in SUBSET Skill /\ tl \in SUBSET Tool
  BY <1>1, <1>2, <1>3, RolesAssumption DEF Profile
<1>5. Updated(p, req) = [q EXCEPT !.skills = sk, !.tools = tl]
  BY DEF Updated
<1> HIDE DEF q, sk, tl
<1>6. Updated(p, req) \in Profile /\ Updated(p, req).type = q.type /\ Updated(p, req).role = q.role
  BY <1>1, <1>4, <1>5 DEF Profile
<1> QED BY <1>6 DEF q

\* A checked profile stays so, unless the update gives an external agent a role.
LEMMA UpdatedWithin ==
    ASSUME NEW p \in Profile, NEW req \in Request, ~Refused(p, req), Within(p),
           req.role = Keep \/ Retyped(p, req).type = "internal"
    PROVE  Within(Updated(p, req))
<1> DEFINE q == Retyped(p, req)
           sk == IF ChecksSkills(p, req) THEN Given(req.skills, q.skills) \cap AllowedSkills[q.role] ELSE q.skills
           tl == IF ChecksTools(p, req) THEN Given(req.tools, q.tools) \cap AllowedTools[q.role] ELSE q.tools
<1> SUFFICES ASSUME q.role \in Role
             PROVE  Updated(p, req) = Validated(Updated(p, req))
  BY UpdatedProfile DEF Within
<1>1. q \in Profile /\ q.skills = p.skills /\ q.tools = p.tools /\ q.role = Given(req.role, p.role)
  BY RetypedProfile
<1>2. Updated(p, req) = [q EXCEPT !.skills = sk, !.tools = tl]
  BY DEF Updated
<1>3. req.role = Keep => q.role = p.role
  BY <1>1 DEF Given
<1>4. req.role = Keep => p.skills \subseteq AllowedSkills[q.role] /\ p.tools \subseteq AllowedTools[q.role]
  BY <1>3 DEF Within, Validated, Profile
<1>5. sk \subseteq AllowedSkills[q.role]
  <2>1. CASE ChecksSkills(p, req)
    BY <2>1
  <2>2. CASE ~ChecksSkills(p, req)
    BY <2>2, <1>1, <1>4 DEF ChecksSkills
  <2> QED BY <2>1, <2>2
<1>6. tl \subseteq AllowedTools[q.role]
  <2>1. CASE ChecksTools(p, req)
    BY <2>1
  <2>2. CASE ~ChecksTools(p, req)
    BY <2>2, <1>1, <1>4 DEF ChecksTools
  <2> QED BY <2>1, <2>2
<1> HIDE DEF q, sk, tl
<1>7. sk \cap AllowedSkills[q.role] = sk /\ tl \cap AllowedTools[q.role] = tl
  BY <1>5, <1>6
<1> QED BY <1>1, <1>2, <1>7 DEF Validated, Profile

---------------------------------------------------------------------------
(* Names an action does not touch *)

\* The invariant of a name speaks of its own entries only.
LEMMA OtherName ==
    ASSUME IInv, NEW n \in Name, UNCHANGED <<yaml, registry[n], file[n]>>,
           ~Busy(n), ~Busy(n)', n \notin cut' => n \notin cut /\ soul'[n] = soul[n], n \notin unchecked' => n \notin unchecked,
           n \notin stale' => n \notin stale
    PROVE  /\ Settled(n)' /\ Checked(n)'
           /\ n \notin stale' => registry'[n] = Scan(yaml)'[n]
<1>1. Settled(n)'
  BY DEF IInv, Settled
<1>2. Checked(n)'
  BY DEF IInv, Checked, Within, Profile, Validated
<1>3. n \notin stale => registry[n] = Scan(yaml)[n]
  BY DEF IInv, RegistryFollowsFiles
<1>4. Scan(yaml)'[n] = Scan(yaml)[n]
  BY DEF Scan
<1> QED BY <1>1, <1>2, <1>3, <1>4

\* An action on the name m preserves the invariant if it leaves the others alone and
\* establishes what concerns m.
LEMMA OneName ==
    ASSUME IInv, NEW m \in Name, TypeOK', FileGoesFirst', Settled(m)', Checked(m)',
           m \notin stale' /\ ~Busy(m)' => registry'[m] = Scan(yaml)'[m],
           yaml' = yaml,
           \A n \in Name \ {m} :
               /\ UNCHANGED <<registry[n], file[n]>> /\ ~Busy(n) /\ ~Busy(n)'
               /\ n \notin cut' => n \notin cut /\ soul'[n] = soul[n]
               /\ n \notin unchecked' => n \notin unchecked
               /\ n \notin stale' => n \notin stale
    PROVE  IInv'
<1>1. ASSUME NEW n \in Name \ {m}
      PROVE  Settled(n)' /\ Checked(n)' /\ (n \notin stale' => registry'[n] = Scan(yaml)'[n])
  BY <1>1, OtherName
<1>2. RegistryFollowsFiles'
  BY <1>1 DEF RegistryFollowsFiles
<1> QED BY <1>1, <1>2 DEF IInv

---------------------------------------------------------------------------
(* The actions *)

\* An endpoint that begins to save takes its profile and may open SOUL.md.
LEMMA SaveStep ==
    ASSUME IInv, NEW m \in Name, NEW p \in Profile, NEW b \in BOOLEAN, LoopFree, SaveFor(m, p, b),
           registry' \in [Name -> Profile \cup {Deployed, None}],
           \A n \in Name \ {m} : registry'[n] = registry[n],
           unchecked' \in {unchecked, unchecked \cup {m}},
           m \notin unchecked' => Within(registry'[m]) /\ Within(p),
           UNCHANGED <<yaml, file, installed, stale, cut>>
    PROVE  IInv'
<1> USE DEF LoopFree, SaveFor, Busy
<1>1. op' = [name |-> m, step |-> IF b THEN "soul" ELSE "store", profile |-> p] /\ op' # None
  <2>1. op' \in [name : Name, step : Step, profile : Profile]
    BY DEF Step
  <2> QED BY <2>1, ValuesAssumption
<1>2. TypeOK'
  BY <1>1 DEF IInv, TypeOK, Step
<1>3. FileGoesFirst'
  BY <1>1 DEF FileGoesFirst
<1>4. Settled(m)'
  BY <1>1 DEF IInv, Settled
<1>5. Checked(m)'
  <2>1. op'.profile = p
    BY <1>1
  <2>2. m \notin unchecked => Within(file[m])
    BY DEF IInv, Checked
  <2> QED BY <2>1, <2>2 DEF Checked
<1>6. \A n \in Name \ {m} : soul'[n] = soul[n]
  BY DEF IInv, TypeOK
<1> QED BY <1>1, <1>2, <1>3, <1>4, <1>5, <1>6, OneName

\* A creation.
LEMMA CreateStep ==
    ASSUME IInv, NEW m \in Name, NEW p \in Profile, CreateInternal(m, p) \/ CreateExternal(m, p)
    PROVE  IInv'
<1>1. registry' = registry /\ registry[m] = None /\ LoopFree
  BY DEF CreateInternal, CreateExternal
<1>2. Within(registry[m])
  BY <1>1, ValuesAssumption DEF Within
<1>3. registry \in [Name -> Profile \cup {Deployed, None}]
  BY DEF IInv, TypeOK
<1>4. CASE CreateInternal(m, p)
  <2>1. p.role \in Role
    BY <1>4 DEF CreateInternal, SkillsRaise
  <2>2. Validated(p) \in Profile /\ Within(Validated(p))
    BY <2>1, ValidatedWithin
  <2>3. SaveFor(m, Validated(p), TRUE) /\ UNCHANGED <<yaml, file, installed, stale, cut, unchecked>>
    BY <1>4 DEF CreateInternal
  <2> QED BY <1>1, <1>2, <1>3, <2>2, <2>3, SaveStep
<1>5. CASE CreateExternal(m, p)
  <2> DEFINE q == [p EXCEPT !.skills = {}, !.tools = {}]
  <2>1. q \in Profile /\ q.skills = {} /\ q.tools = {} /\ q.role = p.role
    BY DEF Profile
  <2>2. SaveFor(m, q, FALSE) /\ UNCHANGED <<yaml, file, installed, stale, cut, unchecked>>
    BY <1>5 DEF CreateExternal
  <2> HIDE DEF q
  <2>3. Within(q)
    BY <2>1 DEF Within, Validated, Profile
  <2> QED BY <1>1, <1>2, <1>3, <2>1, <2>2, <2>3, SaveStep
<1> QED BY <1>4, <1>5

\* An accepted update.
LEMMA UpdateStep ==
    ASSUME IInv, NEW m \in Name, NEW req \in Request, Update(m, req)
    PROVE  IInv'
<1> DEFINE p == registry[m]
           q == Updated(p, req)
<1>1. p \in Profile /\ ~Refused(p, req) /\ LoopFree
  BY DEF Update
<1>2. q \in Profile /\ q.type = Retyped(p, req).type
  BY <1>1, UpdatedProfile
<1>3. registry \in [Name -> Profile \cup {Deployed, None}] /\ registry' = [registry EXCEPT ![m] = q]
  BY DEF IInv, TypeOK, Update
<1>4. registry'[m] = q /\ \A n \in Name \ {m} : registry'[n] = registry[n]
  BY <1>3
<1>5. registry' \in [Name -> Profile \cup {Deployed, None}]
  BY <1>2, <1>3
<1>6. unchecked' = IF req.role # Keep /\ q.type = "external" THEN unchecked \cup {m} ELSE unchecked
  BY <1>4 DEF Update
<1>7. m \notin unchecked' => Within(q)
  <2> SUFFICES ASSUME m \notin unchecked' PROVE Within(q)
    OBVIOUS
  <2>1. Within(p)
    BY <1>6 DEF IInv, Checked
  <2>2. q.type \in {"internal", "external"}
    BY <1>2 DEF Profile, Type
  <2>3. req.role = Keep \/ Retyped(p, req).type = "internal"
    BY <1>2, <1>6, <2>2
  <2> QED BY <1>1, <2>1, <2>3, UpdatedWithin
<1>8. \E b \in BOOLEAN : SaveFor(m, q, b)
  BY <1>4 DEF Update
<1>9. UNCHANGED <<yaml, file, installed, stale, cut>>
  BY DEF Update
<1> HIDE DEF p, q
<1> QED BY <1>1, <1>2, <1>4, <1>5, <1>6, <1>7, <1>8, <1>9, SaveStep

\* A refused update leaves the agent's type and role changed, and nothing more.
LEMMA UpdateRefusedStep ==
    ASSUME IInv, NEW m \in Name, NEW req \in Request, UpdateRefused(m, req)
    PROVE  IInv'
<1> DEFINE p == registry[m]
           q == Retyped(p, req)
<1>1. p \in Profile /\ q \in Profile
  BY RetypedProfile DEF UpdateRefused
<1>2. registry \in [Name -> Profile \cup {Deployed, None}] /\ registry' = [registry EXCEPT ![m] = q]
  BY DEF IInv, TypeOK, UpdateRefused
<1>3. registry'[m] = q /\ \A n \in Name \ {m} : registry'[n] = registry[n]
  BY <1>2
<1>4. registry' \in [Name -> Profile \cup {Deployed, None}]
  BY <1>1, <1>2
<1>5. op = None /\ op' = None /\ m \in stale'
  BY DEF UpdateRefused, LoopFree
<1>6. unchecked' = IF req.role = Keep THEN unchecked ELSE unchecked \cup {m}
  BY DEF UpdateRefused
<1>7. m \notin unchecked' => Within(q)
  <2> SUFFICES ASSUME m \notin unchecked', q.role \in Role PROVE q = Validated(q)
    BY DEF Within
  <2>1. Within(p) /\ req.role = Keep
    BY <1>6 DEF IInv, Checked
  <2>2. q.role = p.role /\ q.skills = p.skills /\ q.tools = p.tools
    BY <1>1, <2>1, RetypedProfile DEF Given
  <2>3. p.skills \subseteq AllowedSkills[p.role] /\ p.tools \subseteq AllowedTools[p.role]
    BY <1>1, <2>1, <2>2 DEF Within, Validated, Profile
  <2> HIDE DEF q
  <2> QED BY <1>1, <2>2, <2>3 DEF Validated, Profile
<1> HIDE DEF p, q
<1>8. UNCHANGED <<yaml, file, soul, installed, op, cut>> /\ stale' = stale \cup {m}
  BY DEF UpdateRefused
<1>9. TypeOK'
  BY <1>4, <1>6, <1>8 DEF IInv, TypeOK
<1>10. Settled(m)'
  BY <1>1, <1>3, <1>5, <1>8 DEF IInv, Settled, Busy, p
<1>11. Checked(m)'
  <2>1. m \notin unchecked => Within(file[m])
    BY DEF IInv, Checked
  <2> QED BY <1>3, <1>5, <1>6, <1>7, <1>8, <2>1 DEF Checked, Busy
<1> QED BY <1>3, <1>5, <1>6, <1>8, <1>9, <1>10, <1>11, OneName DEF FileGoesFirst, Busy

\* save_soul closes SOUL.md.
LEMMA FillSoulStep ==
    ASSUME IInv, FillSoul
    PROVE  IInv'
<1> PICK m \in Name : m = op.name
  BY DEF IInv, TypeOK, FillSoul
<1>1. m \in Name /\ op.profile \in Profile /\ op # None
  BY DEF IInv, TypeOK, FillSoul
<1>2. op' = [op EXCEPT !.step = "store"] /\ soul' = [soul EXCEPT ![m] = "own"]
  BY DEF FillSoul
<1>3. op' \in [name : Name, step : Step, profile : Profile]
      /\ op'.name = m /\ op'.profile = op.profile /\ op'.step = "store"
  BY <1>1, <1>2 DEF IInv, TypeOK, Step
<1>4. op' # None
  BY <1>3, ValuesAssumption
<1>5. UNCHANGED <<yaml, registry, file, installed, stale, cut, unchecked>>
  BY DEF FillSoul
<1>6. TypeOK'
  BY <1>1, <1>2, <1>3, <1>5 DEF IInv, TypeOK
<1>7. soul'[m] = "own" /\ \A n \in Name \ {m} : soul'[n] = soul[n]
  BY <1>1, <1>2 DEF IInv, TypeOK
<1>8. Settled(m)'
  BY <1>3, <1>4, <1>7 DEF Settled, Busy
<1>9. Checked(m)'
  <2>1. Checked(m) /\ Busy(m)
    BY <1>1 DEF IInv, Busy
  <2> QED BY <1>3, <1>5, <2>1 DEF Checked
<1> QED BY <1>1, <1>3, <1>4, <1>5, <1>6, <1>7, <1>8, <1>9, OneName DEF FileGoesFirst, Busy

\* store.save opens the JSON file.
LEMMA OpenJsonStep ==
    ASSUME IInv, OpenJson
    PROVE  IInv'
<1> PICK m \in Name : m = op.name
  BY DEF IInv, TypeOK, OpenJson
<1>1. m \in Name /\ op.profile \in Profile /\ op # None /\ op.step = "store"
  BY DEF IInv, TypeOK, OpenJson
<1>2. op' = [op EXCEPT !.step = "json"] /\ file' = [file EXCEPT ![m] = Torn]
  BY DEF OpenJson
<1>3. op' \in [name : Name, step : Step, profile : Profile]
      /\ op'.name = m /\ op'.profile = op.profile /\ op'.step = "json"
  BY <1>1, <1>2 DEF IInv, TypeOK, Step
<1>4. op' # None
  BY <1>3, ValuesAssumption
<1>5. UNCHANGED <<yaml, registry, soul, installed, stale, cut, unchecked>>
  BY DEF OpenJson
<1>6. TypeOK'
  BY <1>1, <1>2, <1>3, <1>5 DEF IInv, TypeOK
<1>7. file'[m] = Torn /\ \A n \in Name \ {m} : file'[n] = file[n]
  BY <1>1, <1>2 DEF IInv, TypeOK
<1>8. Settled(m)'
  BY <1>1, <1>3, <1>4, <1>5 DEF IInv, Settled, Busy
<1>9. Checked(m)'
  <2>1. Checked(m) /\ Busy(m)
    BY <1>1 DEF IInv, Busy
  <2>2. Within(file'[m])
    BY <1>7, ValuesAssumption DEF Within
  <2> QED BY <1>3, <1>5, <2>1, <2>2 DEF Checked
<1> QED BY <1>1, <1>3, <1>4, <1>5, <1>6, <1>7, <1>8, <1>9, OneName DEF FileGoesFirst, Busy

\* store.save closes the JSON file, and the agent is registered.
LEMMA FillJsonStep ==
    ASSUME IInv, FillJson
    PROVE  IInv'
<1> PICK m \in Name : m = op.name
  BY DEF IInv, TypeOK, FillJson
<1> DEFINE p == op.profile
<1>1. m \in Name /\ p \in Profile /\ op # None /\ op.step = "json"
  BY DEF IInv, TypeOK, FillJson
<1>2. op' = None /\ file' = [file EXCEPT ![m] = p] /\ registry' = [registry EXCEPT ![m] = p]
  BY DEF FillJson
<1>3. UNCHANGED <<yaml, soul, installed, cut, unchecked>> /\ stale' = stale \ {m}
  BY DEF FillJson
<1>4. TypeOK'
  BY <1>1, <1>2, <1>3 DEF IInv, TypeOK
<1>5. file'[m] = p /\ registry'[m] = p
      /\ \A n \in Name \ {m} : file'[n] = file[n] /\ registry'[n] = registry[n]
  BY <1>1, <1>2 DEF IInv, TypeOK
<1>6. p \notin {Torn, None}
  BY <1>1, ValuesAssumption
<1>7. Settled(m)'
  BY <1>1, <1>2, <1>3, <1>5, <1>6 DEF IInv, Settled, Busy
<1>8. Checked(m)'
  <2>1. Checked(m) /\ Busy(m)
    BY <1>1 DEF IInv, Busy
  <2> QED BY <1>2, <1>3, <1>5, <2>1 DEF Checked, Busy
<1>9. registry'[m] = Scan(yaml)'[m]
  BY <1>1, <1>5, <1>6 DEF Scan
<1> HIDE DEF p
<1>10. \A n \in Name \ {m} : ~Busy(n) /\ ~Busy(n)'
  BY <1>2 DEF Busy
<1> QED BY <1>1, <1>2, <1>3, <1>4, <1>5, <1>7, <1>8, <1>9, <1>10, OneName DEF FileGoesFirst

\* store.delete removes the JSON file.
LEMMA DeleteStep ==
    ASSUME IInv, NEW m \in Name, Delete(m)
    PROVE  IInv'
<1>1. op = None /\ registry[m] \in Profile
  BY DEF Delete, LoopFree
<1>2. op' = [name |-> m, step |-> "rmtree", profile |-> registry[m]] /\ file' = [file EXCEPT ![m] = None]
  BY DEF Delete
<1>3. op' \in [name : Name, step : Step, profile : Profile]
  BY <1>1, <1>2 DEF Step
<1>4. op' # None
  BY <1>3, ValuesAssumption
<1>5. UNCHANGED <<yaml, registry, soul, installed, stale, cut, unchecked>>
  BY DEF Delete
<1>6. TypeOK'
  BY <1>2, <1>3, <1>5 DEF IInv, TypeOK
<1>7. file'[m] = None /\ \A n \in Name \ {m} : file'[n] = file[n]
  BY <1>2 DEF IInv, TypeOK
<1>8. Settled(m)'
  BY <1>2, <1>4 DEF Settled, Busy
<1>9. Checked(m)'
  <2>1. m \notin unchecked => Within(registry[m])
    BY DEF IInv, Checked
  <2>2. Within(file'[m])
    BY <1>7, ValuesAssumption DEF Within
  <2> QED BY <1>2, <1>5, <2>1, <2>2 DEF Checked
<1>10. FileGoesFirst'
  BY <1>2, <1>7 DEF FileGoesFirst
<1> QED BY <1>1, <1>2, <1>4, <1>5, <1>6, <1>7, <1>8, <1>9, <1>10, OneName DEF Busy

\* The registry forgets an agent whose JSON file is gone.
LEMMA UnregisterStep ==
    ASSUME IInv, NEW m \in Name, Unregister(m), file[m] = None, op = None \/ op.name = m, op' = None,
           soul' \in [Name -> {"none", "cut", "own", "old"}],
           m \notin cut => soul'[m] = "none",
           \A n \in Name \ {m} : n \notin cut => soul'[n] = soul[n],
           UNCHANGED <<yaml, file, installed, cut>>
    PROVE  IInv'
<1>1. registry' = [registry EXCEPT ![m] = None] /\ unchecked' = unchecked \ {m}
      /\ stale' = IF m \in yaml THEN stale \cup {m} ELSE stale \ {m}
  BY DEF Unregister
<1>2. TypeOK'
  BY <1>1 DEF IInv, TypeOK
<1>3. registry'[m] = None /\ \A n \in Name \ {m} : registry'[n] = registry[n]
  BY <1>1 DEF IInv, TypeOK
<1>4. None \notin Profile /\ None # Torn
  BY ValuesAssumption
<1>5. Settled(m)'
  BY <1>3, <1>4 DEF Settled, Busy
<1>6. Checked(m)'
  BY <1>3, <1>4 DEF Checked, Within, Busy
<1>7. m \notin stale' => registry'[m] = Scan(yaml)'[m]
  BY <1>1, <1>3 DEF Scan
<1>8. FileGoesFirst'
  BY DEF FileGoesFirst
<1>9. \A n \in Name \ {m} : ~Busy(n) /\ ~Busy(n)'
  BY DEF Busy
<1> QED BY <1>1, <1>2, <1>3, <1>5, <1>6, <1>7, <1>8, <1>9, OneName

\* The two ends of a deletion.
LEMMA DeleteEndsStep ==
    ASSUME IInv, DeleteTree \/ \E m \in Name : DeleteUnsaved(m)
    PROVE  IInv'
<1>1. CASE DeleteTree
  <2>1. op # None /\ op.step = "rmtree" /\ op.name \in Name /\ file[op.name] = None
    BY <1>1 DEF DeleteTree, IInv, TypeOK, FileGoesFirst
  <2>2. soul' = [soul EXCEPT ![op.name] = "none"] /\ Unregister(op.name) /\ op' = None
        /\ UNCHANGED <<yaml, file, installed, cut>>
    BY <1>1 DEF DeleteTree
  <2>3. soul' \in [Name -> {"none", "cut", "own", "old"}]
        /\ soul'[op.name] = "none" /\ \A n \in Name \ {op.name} : soul'[n] = soul[n]
    BY <2>1, <2>2 DEF IInv, TypeOK
  <2> QED BY <2>1, <2>2, <2>3, UnregisterStep
<1>2. CASE \E m \in Name : DeleteUnsaved(m)
  <2> PICK m \in Name : DeleteUnsaved(m)
    BY <1>2
  <2>1. op = None /\ op' = None /\ registry[m] \in Profile /\ file[m] = None /\ Unregister(m)
        /\ soul' = Orphaned(registry') /\ UNCHANGED <<yaml, file, installed, cut>>
    BY DEF DeleteUnsaved, LoopFree
  <2>2. soul' \in [Name -> {"none", "cut", "own", "old"}]
    BY <2>1 DEF Orphaned, IInv, TypeOK
  <2>3. m \in cut
    BY <2>1, ValuesAssumption DEF IInv, Settled, Busy
  <2>4. ASSUME NEW n \in Name \ {m}, n \notin cut PROVE soul'[n] = soul[n]
    <3>1. soul[n] = "own" => registry[n] \in Profile
      BY <2>1, <2>4 DEF IInv, Settled, Busy
    <3>2. registry'[n] = registry[n]
      BY <2>1 DEF Unregister, IInv, TypeOK
    <3> QED BY <2>1, <3>1, <3>2, ValuesAssumption DEF Orphaned
  <2> QED BY <2>1, <2>2, <2>3, <2>4, UnregisterStep
<1> QED BY <1>1, <1>2

\* An endpoint raises where it is.
LEMMA FailsStep ==
    ASSUME IInv, Fails
    PROVE  IInv'
<1> PICK m \in Name : m = op.name
  BY DEF IInv, TypeOK, Fails
<1>1. m \in Name /\ op # None
  BY DEF IInv, TypeOK, Fails
<1>2. op' = None /\ stale' = stale \cup {m} /\ cut' = cut \cup {m} /\ soul' = Orphaned(registry)
      /\ UNCHANGED <<yaml, registry, file, installed, unchecked>>
  BY DEF Fails
<1>3. TypeOK'
  BY <1>1, <1>2 DEF IInv, TypeOK, Orphaned
<1>4. Settled(m)' /\ m \in stale'
  BY <1>2 DEF Settled
<1>5. Checked(m)'
  <2>1. Checked(m)
    BY <1>1 DEF IInv
  <2> QED BY <1>2, <2>1 DEF Checked, Busy
<1>6. ASSUME NEW n \in Name \ {m}
      PROVE  ~Busy(n) /\ ~Busy(n)' /\ (n \notin cut' => n \notin cut /\ soul'[n] = soul[n])
  <2>1. ~Busy(n) /\ ~Busy(n)'
    BY <1>2, <1>6 DEF Busy
  <2>2. n \notin cut => (soul[n] = "own" => registry[n] \in Profile)
    BY <2>1 DEF IInv, Settled
  <2>3. n \notin cut => soul'[n] = soul[n]
    BY <1>2, <2>2, ValuesAssumption DEF Orphaned
  <2> QED BY <1>2, <2>1, <2>3
<1>7. FileGoesFirst'
  BY <1>2 DEF FileGoesFirst
<1> QED BY <1>1, <1>2, <1>3, <1>4, <1>5, <1>6, <1>7, OneName

\* A restart reads every file.
LEMMA RestartStep ==
    ASSUME IInv, NEW yamls \in SUBSET Name, Restart(yamls)
    PROVE  IInv'
<1>1. yaml' = yamls /\ registry' = Scan(yamls) /\ soul' = Orphaned(registry') /\ op' = None
      /\ UNCHANGED <<file, installed, unchecked>>
  BY DEF Restart
<1>2. cut' = IF op = None THEN cut ELSE cut \cup {op.name}
  BY DEF Restart
<1>3. registry' \in [Name -> Profile \cup {Deployed, None}]
  BY <1>1 DEF Scan, IInv, TypeOK
<1>4. soul' \in [Name -> {"none", "cut", "own", "old"}]
  BY <1>1 DEF Orphaned, IInv, TypeOK
<1>5. TypeOK'
  BY <1>1, <1>2, <1>3, <1>4 DEF IInv, TypeOK, Restart
<1>6. RegistryFollowsFiles'
  BY <1>1 DEF RegistryFollowsFiles, Scan
<1>7. FileGoesFirst'
  BY <1>1 DEF FileGoesFirst
<1>8. ASSUME NEW n \in Name PROVE Settled(n)' /\ Checked(n)'
  <2>1. registry'[n] = IF file[n] \notin {Torn, None} THEN file[n]
                       ELSE IF n \in yamls THEN Deployed ELSE None
    BY <1>1 DEF Scan
  <2>2. file[n] \in Profile \cup {Torn, None}
    BY DEF IInv, TypeOK
  <2>3. soul'[n] = IF soul[n] = "own" /\ registry'[n] \in {Deployed, None} THEN "old" ELSE soul[n]
    BY <1>1 DEF Orphaned
  <2>4. Settled(n)'
    <3> SUFFICES ASSUME n \notin cut' PROVE Settled(n)'
      BY DEF Settled
    <3>1. n \notin cut /\ ~Busy(n) /\ ~Busy(n)'
      BY <1>1, <1>2 DEF Busy
    <3>2. /\ soul[n] \in {"none", "own"} /\ file[n] # Torn
          /\ registry[n] \in Profile => file[n] \in Profile
          /\ registry[n] \notin Profile => file[n] = None /\ soul[n] = "none"
      BY <3>1 DEF IInv, Settled
    <3>3. CASE file[n] \in Profile
      BY <1>1, <2>1, <2>3, <3>1, <3>2, <3>3, ValuesAssumption DEF Settled
    <3>4. CASE file[n] = None
      <4>1. registry[n] \notin Profile /\ soul[n] = "none"
        BY <3>2, <3>4, ValuesAssumption
      <4> QED BY <1>1, <2>1, <2>3, <3>1, <3>4, <4>1, ValuesAssumption DEF Settled
    <3> QED BY <2>2, <3>2, <3>3, <3>4
  <2>5. Checked(n)'
    <3>1. n \notin unchecked => Within(file[n])
      BY DEF IInv, Checked
    <3>2. n \notin unchecked => Within(registry'[n])
      BY <2>1, <2>2, <3>1, ValuesAssumption DEF Within
    <3> QED BY <1>1, <3>1, <3>2 DEF Checked, Busy
  <2> QED BY <2>4, <2>5
<1> QED BY <1>5, <1>6, <1>7, <1>8 DEF IInv

---------------------------------------------------------------------------
(* The theorems *)

\* At the first start no agent was created by an endpoint.
LEMMA InitInv == Init => IInv
<1> SUFFICES ASSUME Init PROVE IInv
  OBVIOUS
<1>1. TypeOK /\ FileGoesFirst /\ RegistryFollowsFiles
  BY DEF Init, Scan, TypeOK, FileGoesFirst, RegistryFollowsFiles
<1>2. ASSUME NEW n \in Name PROVE Settled(n) /\ Checked(n)
  <2>1. registry[n] \in {Deployed, None} /\ file[n] = None /\ soul[n] = "none" /\ op = None
    BY DEF Init, Scan
  <2>2. registry[n] \notin Profile /\ None \notin Profile /\ None # Torn
    BY <2>1, ValuesAssumption
  <2> QED BY <2>1, <2>2 DEF Settled, Checked, Within, Busy
<1> QED BY <1>1, <1>2 DEF IInv

\* Every step preserves the invariant.
LEMMA StepInv == IInv /\ [Next]_vars => IInv'
<1> SUFFICES ASSUME IInv, [Next]_vars PROVE IInv'
  OBVIOUS
<1>1. CASE UNCHANGED vars
  BY <1>1 DEF vars, IInv, TypeOK, RegistryFollowsFiles, FileGoesFirst, Settled, Checked, Busy, Scan
<1>2. CASE \E s \in Skill : SkillsChange(s)
  <2>1. UNCHANGED <<yaml, registry, file, soul, op, stale, cut, unchecked>> /\ installed' \subseteq Skill
    BY <1>2 DEF SkillsChange, IInv, TypeOK
  <2>2. TypeOK'
    BY <2>1 DEF IInv, TypeOK
  <2>3. RegistryFollowsFiles' /\ FileGoesFirst'
    BY <2>1 DEF IInv, RegistryFollowsFiles, FileGoesFirst, Scan, Busy
  <2>4. \A n \in Name : Settled(n)' /\ Checked(n)'
    BY <2>1 DEF IInv, Settled, Checked, Busy
  <2> QED BY <2>2, <2>3, <2>4 DEF IInv
<1> QED
  BY <1>1, <1>2, CreateStep, UpdateStep, UpdateRefusedStep, FillSoulStep, OpenJsonStep,
     FillJsonStep, DeleteStep, DeleteEndsStep, FailsStep, RestartStep DEF Next

\* The invariant holds for good.
THEOREM Invariant == Spec => []IInv
BY InitInv, StepInv, PTL DEF Spec

\* Every variable keeps its type (registry.py, store.py).
THEOREM TypeCorrect == Spec => []TypeOK
<1>1. IInv => TypeOK
  BY DEF IInv
<1> QED BY <1>1, Invariant, PTL

\* The registry is what a restart would read, but in the cases the property names.
THEOREM RegistryFollowsFilesHolds == Spec => []RegistryFollowsFiles
<1>1. IInv => RegistryFollowsFiles
  BY DEF IInv
<1> QED BY <1>1, Invariant, PTL

\* A deleted agent leaves no file behind, and nobody inherits a SOUL.md.
THEOREM NothingLeftBehindHolds == Spec => []NothingLeftBehind
<1>1. IInv => NothingLeftBehind
  BY DEF IInv, Settled, NothingLeftBehind
<1> QED BY <1>1, Invariant, PTL

\* An internal agent is saved with what its role may use, whatever the permission file says.
THEOREM SavedWithinRoleHolds == Spec => []SavedWithinRole
<1>1. IInv => SavedWithinRole
  BY DEF IInv, Checked, Within, SavedWithinRole
<1> QED BY <1>1, Invariant, PTL
=============================================================================
