------------------------------ MODULE TaskBoard ------------------------------
(***************************************************************************)
(* The task board of an agent team and the pool of its members             *)
(* (harness/team/task_board.py, harness/team/member_pool.py): tasks with   *)
(* dependencies that members claim and complete.                           *)
(*                                                                         *)
(* Every operation is a synchronous method, hence one action.  A task is   *)
(* named by its place in the board's insertion order, which is the order   *)
(* in which the pool looks for work.  Task ids are made by create_task, so *)
(* a dependency names an older task or none at all (Unknown).              *)
(***************************************************************************)
EXTENDS Naturals, FiniteSets

CONSTANTS
    MaxTasks,      \* bound on the tasks of a board
    Member,        \* members that may be spawned
    Nobody

ASSUME MaxTasksAssumption == MaxTasks \in Nat
ASSUME NobodyAssumption == Nobody \notin Member

Unknown == 0
Task == 1 .. MaxTasks

VARIABLES
    created,     \* the number of tasks on the board
    status,      \* status of each task ("none": not created)
    deps,        \* dependencies of each task
    assignee,    \* assignee of each task
    result,      \* who submitted the result of each task
    member,      \* status of each member; "none": not in the pool yet, or "gone"
    disciplined  \* how the callers use the board, fixed from the start; TRUE: tasks
                 \* are created without an assignee, claimed through the pool and
                 \* submitted through it by who claimed them

vars == <<created, status, deps, assignee, result, member, disciplined>>

TypeOK ==
    /\ created \in 0 .. MaxTasks
    /\ status \in [Task -> {"none", "pending", "blocked", "claimed", "completed"}]
    /\ deps \in [Task -> SUBSET (Task \cup {Unknown})]
    /\ assignee \in [Task -> Member \cup {Nobody}]
    /\ result \in [Task -> Member \cup {Nobody}]
    /\ member \in [Member -> {"none", "idle", "working", "gone"}]
    /\ disciplined \in BOOLEAN

Init ==
    /\ created = 0
    /\ status = [t \in Task |-> "none"]
    /\ deps = [t \in Task |-> {}]
    /\ assignee = [t \in Task |-> Nobody]
    /\ result = [t \in Task |-> Nobody]
    /\ member = [m \in Member |-> "none"]
    /\ disciplined \in BOOLEAN

-----------------------------------------------------------------------------
(* TaskBoardManager *)

\* Mutant: a dependency that is not on the board does not count.
AllDoneIgnoringUnknown(ds, st) == \A d \in ds : d \in Task => st[d] = "completed"

\* The tasks of ds are all on the board and completed, given the states st.
AllDone(ds, st) == \A d \in ds : d \in Task /\ st[d] = "completed"

\* can_claim
CanClaim(t) == AllDone(deps[t], status)

\* Mutant: the dependencies are looked at only when somebody claims.
CreateTaskPending(m, ds) ==
    /\ created < MaxTasks
    /\ disciplined => m = Nobody
    /\ LET t == created + 1
       IN  /\ created' = t
           /\ deps' = [deps EXCEPT ![t] = ds]
           /\ assignee' = [assignee EXCEPT ![t] = m]
           /\ status' = [status EXCEPT ![t] = IF m # Nobody THEN "claimed" ELSE "pending"]
    /\ UNCHANGED <<result, member, disciplined>>

\* create_task for assignee m (Nobody: the task waits to be claimed).
CreateTask(m, ds) ==
    /\ created < MaxTasks
    /\ disciplined => m = Nobody
    /\ LET t == created + 1
       IN  /\ created' = t
           /\ deps' = [deps EXCEPT ![t] = ds]
           /\ assignee' = [assignee EXCEPT ![t] = m]
           /\ status' = [status EXCEPT ![t] =
                            IF m # Nobody THEN "claimed"
                            ELSE IF AllDone(ds, status) THEN "pending" ELSE "blocked"]
    /\ UNCHANGED <<result, member, disciplined>>

\* Mutant: a claim by id takes a task whatever its status.
ClaimsAnyStatus(t, m) ==
    /\ t <= created
    /\ CanClaim(t)
    /\ status' = [status EXCEPT ![t] = "claimed"]
    /\ assignee' = [assignee EXCEPT ![t] = m]

\* Mutant: a claimed task is marked as running.
ClaimsRunning(t, m) ==
    /\ status[t] \in {"pending", "blocked"}
    /\ status[t] = "blocked" => CanClaim(t)
    /\ status' = [status EXCEPT ![t] = "running"]
    /\ assignee' = [assignee EXCEPT ![t] = m]

\* claim_task
Claims(t, m) ==
    /\ status[t] \in {"pending", "blocked"}
    /\ status[t] = "blocked" => CanClaim(t)
    /\ status' = [status EXCEPT ![t] = "claimed"]
    /\ assignee' = [assignee EXCEPT ![t] = m]

\* Somebody claims a task by its id, past the pool.
ClaimTask(t, m) ==
    /\ ~ disciplined
    /\ Claims(t, m)
    /\ UNCHANGED <<created, deps, result, member, disciplined>>

\* Mutant: a completed dependency unblocks, whatever the others are.
UnblockedByOne(t, u, st) ==
    IF u # t /\ status[u] = "blocked" /\ t \in deps[u] THEN "pending" ELSE st[u]

\* The status of task u after submit_result of task t, given the states st in which
\* t is completed.
Unblocked(t, u, st) ==
    IF st[u] = "blocked" /\ t \in deps[u] /\ AllDone(deps[u], st) THEN "pending" ELSE st[u]

\* submit_result of the board: the task is completed, whatever its status was, and
\* the tasks that waited for it are unblocked.
Submits(t, m) ==
    /\ t <= created
    /\ result' = [result EXCEPT ![t] = m]
    /\ LET st == [status EXCEPT ![t] = "completed"]
       IN  status' = [u \in Task |-> Unblocked(t, u, st)]

-----------------------------------------------------------------------------
(* TeamMemberPool *)

SpawnMember(m) ==
    /\ member[m] = "none"
    /\ member' = [member EXCEPT ![m] = "idle"]
    /\ UNCHANGED <<created, status, deps, assignee, result, disciplined>>

\* claim_task_for_member: the oldest task that is pending and claimable.
ClaimTaskForMember(m) ==
    /\ member[m] = "idle"
    /\ \E t \in Task :
          /\ status[t] = "pending" /\ CanClaim(t)
          /\ \A u \in Task : u < t => ~ (status[u] = "pending" /\ CanClaim(u))
          /\ Claims(t, m)
    /\ member' = [member EXCEPT ![m] = "working"]
    /\ UNCHANGED <<created, deps, result, disciplined>>

\* Mutant: the member becomes idle when another member's result comes in.
SubmitResultFreesAll(t, m) ==
    /\ disciplined => status[t] = "claimed" /\ assignee[t] = m
    /\ Submits(t, m)
    /\ member' = [n \in Member |-> IF member[n] = "working" THEN "idle" ELSE member[n]]
    /\ UNCHANGED <<created, deps, assignee, disciplined>>

\* submit_result of the pool: the member is idle again, if it is still in the pool.
SubmitResult(t, m) ==
    /\ disciplined => status[t] = "claimed" /\ assignee[t] = m
    /\ Submits(t, m)
    /\ member' = IF member[m] \in {"idle", "working"}
                 THEN [member EXCEPT ![m] = "idle"] ELSE member
    /\ UNCHANGED <<created, deps, assignee, disciplined>>

\* shutdown_member: the member's task keeps its assignee.
ShutdownMember(m) ==
    /\ member[m] \in {"idle", "working"}
    /\ member' = [member EXCEPT ![m] = "gone"]
    /\ UNCHANGED <<created, status, deps, assignee, result, disciplined>>

Next ==
    \/ \E m \in Member \cup {Nobody}, ds \in SUBSET (0 .. created) : CreateTask(m, ds)
    \/ \E t \in Task, m \in Member : ClaimTask(t, m) \/ SubmitResult(t, m)
    \/ \E m \in Member : SpawnMember(m) \/ ClaimTaskForMember(m) \/ ShutdownMember(m)

Spec == Init /\ [][Next]_vars

-----------------------------------------------------------------------------
(* Properties *)

\* A task that waits is blocked exactly while a dependency is open: it is never
\* offered too early, and the last result that was missing unblocks it.
BlockedIffWaiting ==
    /\ \A t \in Task : status[t] = "pending" => CanClaim(t)
    /\ \A t \in Task : status[t] = "blocked" => ~ CanClaim(t)

\* A task is claimed once: neither a second claim nor a result gives it to somebody
\* else, and a completed task stays completed.
ClaimedOnce ==
    [][\A t \in Task :
          /\ status[t] = "claimed" =>
                status'[t] \in {"claimed", "completed"} /\ assignee'[t] = assignee[t]
          /\ status[t] = "completed" => status'[t] = "completed"]_vars

\* Dependencies must complete first (runtime/tools.py:360).
DependenciesFirst ==
    \A t \in Task : status[t] \in {"claimed", "completed"} =>
        \A d \in deps[t] : d \in Task /\ status[d] = "completed"

\* They do when tasks are claimed and submitted as the pool does it.
PoolDependenciesFirst == disciplined => DependenciesFirst

Holds(m) == {t \in Task : status[t] = "claimed" /\ assignee[t] = m}

\* max_concurrent_tasks = 1 (team/types.py:41): under the pool's discipline
\* a working member has one task, an idle one none, so that it may take the next.
OneTaskPerMember ==
    disciplined => \A m \in Member :
        /\ member[m] = "working" => \E t \in Task : Holds(m) = {t}
        /\ member[m] = "idle" => Holds(m) = {}
=============================================================================
