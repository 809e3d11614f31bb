--------------------------- MODULE TaskBoardProofs ---------------------------
(***************************************************************************)
(* Proofs about TaskBoard for boards and teams of any size.                *)
(*                                                                         *)
(* The argument: no step takes a completed task back, so whether a set of  *)
(* dependencies is complete changes only when a result is submitted, and   *)
(* then every blocked task that waited for it is looked at.  Under the     *)
(* pool's discipline a task leaves the waiting states only by a claim of a *)
(* pending task, and a member that claims is idle.                         *)
(***************************************************************************)
EXTENDS TaskBoard, TLAPS

\* The part of the board that has not been used yet is empty.
FreshTasks == \A t \in Task : t > created => status[t] = "none"

\* A member that has not been spawned holds nothing.
FreshMembers == disciplined => \A m \in Member : member[m] = "none" => Holds(m) = {}

IInv ==
    /\ TypeOK
    /\ FreshTasks
    /\ BlockedIffWaiting
    /\ PoolDependenciesFirst
    /\ OneTaskPerMember
    /\ FreshMembers

-----------------------------------------------------------------------------
(* Facts about the operations *)

\* Completion is all that AllDone looks at.
LEMMA AllDoneSame ==
    ASSUME NEW ds, NEW st, NEW su,
           \A d \in Task : su[d] = "completed" <=> st[d] = "completed"
    PROVE  AllDone(ds, su) <=> AllDone(ds, st)
BY DEF AllDone

\* A claim changes one task, which was waiting and had nothing to wait for.
LEMMA ClaimsFacts ==
    ASSUME TypeOK, BlockedIffWaiting, NEW t \in Task, NEW m \in Member, Claims(t, m)
    PROVE  /\ status[t] = "pending" /\ CanClaim(t)
           /\ status'[t] = "claimed" /\ assignee'[t] = m
           /\ \A u \in Task : u # t => status'[u] = status[u] /\ assignee'[u] = assignee[u]
           /\ status' \in [Task -> {"none", "pending", "blocked", "claimed", "completed"}]
           /\ assignee' \in [Task -> Member \cup {Nobody}]
BY DEF TypeOK, BlockedIffWaiting, Claims

\* A result completes one task, and unblocks the tasks that have all they need.
LEMMA SubmitsFacts ==
    ASSUME TypeOK, NEW t \in Task, NEW m \in Member, Submits(t, m)
    PROVE  /\ t <= created
           /\ status'[t] = "completed"
           /\ \A u \in Task : u # t =>
                 \/ status'[u] = status[u]
                 \/ status[u] = "blocked" /\ status'[u] = "pending" /\ AllDone(deps[u], status')
           /\ \A u \in Task : status'[u] = "blocked" /\ t \in deps[u] => ~ AllDone(deps[u], status')
           /\ status' \in [Task -> {"none", "pending", "blocked", "claimed", "completed"}]
           /\ result' \in [Task -> Member \cup {Nobody}]
<1> DEFINE st == [status EXCEPT ![t] = "completed"]
<1>1. /\ t <= created
      /\ status' = [u \in Task |-> Unblocked(t, u, st)]
      /\ result' \in [Task -> Member \cup {Nobody}]
  BY DEF Submits, TypeOK
<1>2. /\ st \in [Task -> {"none", "pending", "blocked", "claimed", "completed"}]
      /\ st[t] = "completed"
      /\ \A u \in Task : u # t => st[u] = status[u]
  BY DEF TypeOK
<1> HIDE DEF st
<1>3. \A u \in Task :
         status'[u] = IF st[u] = "blocked" /\ t \in deps[u] /\ AllDone(deps[u], st)
                      THEN "pending" ELSE st[u]
  BY <1>1 DEF Unblocked
<1>4. \A d \in Task : status'[d] = "completed" <=> st[d] = "completed"
  BY <1>3
<1>5. \A u \in Task : AllDone(deps[u], status') <=> AllDone(deps[u], st)
  BY <1>4, AllDoneSame
<1>6. status' \in [Task -> {"none", "pending", "blocked", "claimed", "completed"}]
  BY <1>1, <1>2 DEF Unblocked
<1> QED BY <1>1, <1>2, <1>3, <1>5, <1>6

-----------------------------------------------------------------------------
(* The initial state and the steps *)

LEMMA InitIInv == Init => IInv
BY MaxTasksAssumption, NobodyAssumption
   DEF Init, IInv, TypeOK, FreshTasks, BlockedIffWaiting, PoolDependenciesFirst,
       DependenciesFirst, OneTaskPerMember, FreshMembers, Holds

LEMMA CreateTaskStep ==
    ASSUME IInv, NEW m \in Member \cup {Nobody}, NEW ds \in SUBSET (0 .. created),
           CreateTask(m, ds)
    PROVE  IInv'
<1> DEFINE t == created + 1
<1>1. /\ t \in Task /\ t \notin ds /\ status[t] = "none"
      /\ ds \subseteq Task \cup {Unknown}
      /\ created' = t
  BY MaxTasksAssumption DEF IInv, TypeOK, FreshTasks, CreateTask, Task, Unknown
<1> HIDE DEF t
<1>2. /\ deps' = [deps EXCEPT ![t] = ds]
      /\ assignee' = [assignee EXCEPT ![t] = m]
      /\ status' = [status EXCEPT ![t] =
                       IF m # Nobody THEN "claimed"
                       ELSE IF AllDone(ds, status) THEN "pending" ELSE "blocked"]
      /\ UNCHANGED <<result, member, disciplined>>
      /\ disciplined => m = Nobody
  BY DEF CreateTask, t
<1>3. TypeOK'
  BY <1>1, <1>2 DEF IInv, TypeOK, Task
<1>4. /\ status'[t] \in {"claimed", "pending", "blocked"}
      /\ disciplined => status'[t] # "claimed"
      /\ status'[t] = "pending" => AllDone(ds, status)
      /\ status'[t] = "blocked" => ~ AllDone(ds, status)
      /\ \A u \in Task : u # t => status'[u] = status[u] /\ deps'[u] = deps[u]
                                  /\ assignee'[u] = assignee[u]
      /\ deps'[t] = ds
  BY <1>1, <1>2 DEF IInv, TypeOK
<1>5. \A d \in Task : status'[d] = "completed" <=> status[d] = "completed"
  BY <1>1, <1>4
<1>6. \A d : AllDone(d, status') <=> AllDone(d, status)
  BY <1>5, AllDoneSame
<1>7. FreshTasks'
  BY <1>1, <1>4 DEF IInv, TypeOK, FreshTasks, Task, t
<1>8. BlockedIffWaiting'
  BY <1>4, <1>6 DEF IInv, BlockedIffWaiting, CanClaim
<1>9. PoolDependenciesFirst'
  BY <1>2, <1>4, <1>5 DEF IInv, PoolDependenciesFirst, DependenciesFirst
<1>10. ASSUME disciplined' PROVE \A n \in Member : Holds(n)' = Holds(n)
  BY <1>1, <1>2, <1>4, <1>10 DEF Holds
<1>11. OneTaskPerMember' /\ FreshMembers'
  BY <1>2, <1>10 DEF IInv, OneTaskPerMember, FreshMembers
<1> QED BY <1>3, <1>7, <1>8, <1>9, <1>11 DEF IInv

\* What a claim does to the board, whoever makes it.
LEMMA ClaimsKeepsBoard ==
    ASSUME IInv, NEW t \in Task, NEW m \in Member, Claims(t, m),
           UNCHANGED <<created, deps, disciplined>>
    PROVE  FreshTasks' /\ BlockedIffWaiting' /\ PoolDependenciesFirst'
<1>1. /\ status[t] = "pending" /\ CanClaim(t) /\ status'[t] = "claimed"
      /\ \A u \in Task : u # t => status'[u] = status[u]
  BY ClaimsFacts DEF IInv
<1>2. \A d \in Task : status'[d] = "completed" <=> status[d] = "completed"
  BY <1>1
<1>3. \A d : AllDone(d, status') <=> AllDone(d, status)
  BY <1>2, AllDoneSame
<1>4. FreshTasks'
  BY <1>1 DEF IInv, FreshTasks
<1>5. BlockedIffWaiting'
  BY <1>1, <1>3 DEF IInv, BlockedIffWaiting, CanClaim
<1>6. PoolDependenciesFirst'
  BY <1>1, <1>2 DEF IInv, PoolDependenciesFirst, DependenciesFirst, CanClaim, AllDone
<1> QED BY <1>4, <1>5, <1>6

LEMMA ClaimTaskStep ==
    ASSUME IInv, NEW t \in Task, NEW m \in Member, ClaimTask(t, m)
    PROVE  IInv'
<1>1. Claims(t, m) /\ ~ disciplined
      /\ UNCHANGED <<created, deps, result, member, disciplined>>
  BY DEF ClaimTask
<1>2. TypeOK'
  BY <1>1, ClaimsFacts DEF IInv, TypeOK
<1> QED BY <1>1, <1>2, ClaimsKeepsBoard DEF IInv, OneTaskPerMember, FreshMembers

LEMMA ClaimTaskForMemberStep ==
    ASSUME IInv, NEW m \in Member, ClaimTaskForMember(m)
    PROVE  IInv'
<1> PICK t \in Task : Claims(t, m)
  BY DEF ClaimTaskForMember
<1>1. /\ member[m] = "idle" /\ member' = [member EXCEPT ![m] = "working"]
      /\ UNCHANGED <<created, deps, result, disciplined>>
  BY DEF ClaimTaskForMember
<1>2. /\ status[t] = "pending" /\ status'[t] = "claimed" /\ assignee'[t] = m
      /\ \A u \in Task : u # t => status'[u] = status[u] /\ assignee'[u] = assignee[u]
  BY ClaimsFacts DEF IInv
<1>3. TypeOK'
  BY <1>1, ClaimsFacts DEF IInv, TypeOK
<1>4. Holds(m)' = Holds(m) \cup {t}
  BY <1>2 DEF Holds
<1>5. \A n \in Member : n # m => Holds(n)' = Holds(n) /\ member'[n] = member[n]
  BY <1>1, <1>2 DEF Holds, IInv, TypeOK
<1>6. member'[m] = "working"
  BY <1>1 DEF IInv, TypeOK
<1>7. OneTaskPerMember' /\ FreshMembers'
  BY <1>1, <1>4, <1>5, <1>6 DEF IInv, OneTaskPerMember, FreshMembers
<1> QED BY <1>1, <1>3, <1>7, ClaimsKeepsBoard DEF IInv

LEMMA SubmitResultStep ==
    ASSUME IInv, NEW t \in Task, NEW m \in Member, SubmitResult(t, m)
    PROVE  IInv'
<1>1. /\ Submits(t, m)
      /\ disciplined => status[t] = "claimed" /\ assignee[t] = m
      /\ member' = IF member[m] \in {"idle", "working"}
                   THEN [member EXCEPT ![m] = "idle"] ELSE member
      /\ UNCHANGED <<created, deps, assignee, disciplined>>
  BY DEF SubmitResult
<1>2. TypeOK'
  BY <1>1, SubmitsFacts DEF IInv, TypeOK
<1>3. /\ t <= created /\ status'[t] = "completed"
      /\ \A u \in Task : u # t =>
            \/ status'[u] = status[u]
            \/ status[u] = "blocked" /\ status'[u] = "pending" /\ AllDone(deps[u], status')
      /\ \A u \in Task : status'[u] = "blocked" /\ t \in deps[u] => ~ AllDone(deps[u], status')
  BY <1>1, SubmitsFacts DEF IInv
<1>4. FreshTasks'
  BY <1>1, <1>3 DEF IInv, TypeOK, FreshTasks, Task
<1>5. \A d \in Task : status[d] = "completed" => status'[d] = "completed"
  BY <1>3
<1>6. \A d \in Task : d # t /\ status'[d] = "completed" => status[d] = "completed"
  BY <1>3
<1>7. BlockedIffWaiting'
  <2>1. ASSUME NEW u \in Task, status'[u] = "pending"
        PROVE  AllDone(deps[u], status')
    <3>1. CASE status[u] = "pending"
      BY <3>1, <1>5 DEF IInv, BlockedIffWaiting, CanClaim, AllDone
    <3>2. CASE status[u] # "pending"
      BY <2>1, <3>2, <1>3
    <3> QED BY <3>1, <3>2
  <2>2. ASSUME NEW u \in Task, status'[u] = "blocked", t \notin deps[u]
        PROVE  ~ AllDone(deps[u], status')
    <3>1. status[u] = "blocked"
      BY <2>2, <1>3
    <3>2. ~ AllDone(deps[u], status)
      BY <3>1 DEF IInv, BlockedIffWaiting, CanClaim
    <3> QED BY <2>2, <3>2, <1>6 DEF AllDone
  <2> QED BY <2>1, <2>2, <1>1, <1>3 DEF BlockedIffWaiting, CanClaim
<1>8. PoolDependenciesFirst'
  <2> SUFFICES ASSUME disciplined, NEW u \in Task, status'[u] \in {"claimed", "completed"},
                      NEW d \in deps[u]
               PROVE  d \in Task /\ status'[d] = "completed"
    BY <1>1 DEF PoolDependenciesFirst, DependenciesFirst
  <2>1. status[u] \in {"claimed", "completed"}
    BY <1>1, <1>3
  <2> QED BY <2>1, <1>5 DEF IInv, PoolDependenciesFirst, DependenciesFirst
<1>9. ASSUME disciplined
      PROVE  /\ Holds(m)' = Holds(m) \ {t}
             /\ t \in Holds(m)
             /\ \A n \in Member : n # m => Holds(n)' = Holds(n)
  BY <1>1, <1>3, <1>9 DEF Holds
<1>10. /\ member[m] \in {"idle", "working"} => member'[m] = "idle"
       /\ member[m] \notin {"idle", "working"} => member'[m] = member[m]
       /\ \A n \in Member : n # m => member'[n] = member[n]
  BY <1>1 DEF IInv, TypeOK
<1>11. OneTaskPerMember'
  <2> SUFFICES ASSUME disciplined, NEW n \in Member
               PROVE  /\ member'[n] = "working" => \E u \in Task : Holds(n)' = {u}
                      /\ member'[n] = "idle" => Holds(n)' = {}
    BY <1>1 DEF OneTaskPerMember
  <2>1. CASE n # m
    BY <2>1, <1>9, <1>10 DEF IInv, OneTaskPerMember
  <2>2. CASE n = m
    <3>1. member'[m] # "working"
      BY <1>10
    <3>2. ASSUME member'[m] = "idle" PROVE Holds(m)' = {}
      <4>1. member[m] = "working"
        BY <3>2, <1>9, <1>10 DEF IInv, OneTaskPerMember
      <4>2. PICK u \in Task : Holds(m) = {u}
        BY <4>1 DEF IInv, OneTaskPerMember
      <4> QED BY <4>2, <1>9
    <3> QED BY <2>2, <3>1, <3>2
  <2> QED BY <2>1, <2>2
<1>12. FreshMembers'
  BY <1>1, <1>9, <1>10 DEF IInv, FreshMembers
<1> QED BY <1>2, <1>4, <1>7, <1>8, <1>11, <1>12 DEF IInv

\* Spawning a member and shutting one down leave the board alone.
LEMMA MemberStep ==
    ASSUME IInv, NEW m \in Member, SpawnMember(m) \/ ShutdownMember(m)
    PROVE  IInv'
<1>1. /\ UNCHANGED <<created, status, deps, assignee, result, disciplined>>
      /\ \/ member[m] = "none" /\ member' = [member EXCEPT ![m] = "idle"]
         \/ member' = [member EXCEPT ![m] = "gone"]
  BY DEF SpawnMember, ShutdownMember
<1>2. TypeOK'
  BY <1>1 DEF IInv, TypeOK
<1>3. FreshTasks' /\ BlockedIffWaiting' /\ PoolDependenciesFirst'
  BY <1>1 DEF IInv, FreshTasks, BlockedIffWaiting, CanClaim, AllDone, PoolDependenciesFirst,
              DependenciesFirst
<1>4. /\ \A n \in Member : Holds(n)' = Holds(n)
      /\ \A n \in Member : n # m => member'[n] = member[n]
      /\ member'[m] = "gone" \/ (member'[m] = "idle" /\ member[m] = "none")
  BY <1>1 DEF Holds, IInv, TypeOK
<1>5. OneTaskPerMember' /\ FreshMembers'
  BY <1>1, <1>4 DEF IInv, OneTaskPerMember, FreshMembers
<1> QED BY <1>2, <1>3, <1>5 DEF IInv

LEMMA IInvStep == IInv /\ [Next]_vars => IInv'
<1> SUFFICES ASSUME IInv, [Next]_vars PROVE IInv'
  OBVIOUS
<1>1. CASE UNCHANGED vars
  BY <1>1 DEF vars, IInv, TypeOK, FreshTasks, BlockedIffWaiting, CanClaim, AllDone,
              PoolDependenciesFirst, DependenciesFirst, OneTaskPerMember, FreshMembers, Holds
<1>2. CASE Next
  BY <1>2, CreateTaskStep, ClaimTaskStep, ClaimTaskForMemberStep, SubmitResultStep, MemberStep
     DEF Next
<1> QED BY <1>1, <1>2

-----------------------------------------------------------------------------
(* The theorems *)

\* The inductive invariant.
THEOREM InvariantHolds == Spec => []IInv
<1>1. Init => IInv
  BY InitIInv
<1>2. IInv /\ [Next]_vars => IInv'
  BY IInvStep
<1> QED BY <1>1, <1>2, PTL DEF Spec

\* The variables keep their types.
THEOREM TypeCorrect == Spec => []TypeOK
<1>1. IInv => TypeOK
  BY DEF IInv
<1> QED BY <1>1, InvariantHolds, PTL

\* Tasks are blocked exactly while they wait for a dependency, however the board is
\* used (task_board.py:37-46, 86-94).
THEOREM BlockedIffWaitingHolds == Spec => []BlockedIffWaiting
<1>1. IInv => BlockedIffWaiting
  BY DEF IInv
<1> QED BY <1>1, InvariantHolds, PTL

\* Members that use the pool never start a task before its dependencies are complete.
THEOREM PoolDependenciesFirstHolds == Spec => []PoolDependenciesFirst
<1>1. IInv => PoolDependenciesFirst
  BY DEF IInv
<1> QED BY <1>1, InvariantHolds, PTL

\* Members that use the pool have one task at a time and none while they are idle.
THEOREM OneTaskPerMemberHolds == Spec => []OneTaskPerMember
<1>1. IInv => OneTaskPerMember
  BY DEF IInv
<1> QED BY <1>1, InvariantHolds, PTL

\* No task is claimed twice and none is taken back, however the board is used.
THEOREM ClaimedOnceHolds == Spec => ClaimedOnce
<1> DEFINE Once == \A t \in Task :
              /\ status[t] = "claimed" =>
                    status'[t] \in {"claimed", "completed"} /\ assignee'[t] = assignee[t]
              /\ status[t] = "completed" => status'[t] = "completed"
<1>1. IInv /\ [Next]_vars => [Once]_vars
  <2> SUFFICES ASSUME IInv, Next PROVE Once
    OBVIOUS
  <2>1. ASSUME NEW m \in Member \cup {Nobody}, NEW ds \in SUBSET (0 .. created),
               CreateTask(m, ds)
        PROVE  Once
    <3>1. created + 1 \in Task /\ status[created + 1] = "none"
      BY <2>1, MaxTasksAssumption DEF IInv, TypeOK, FreshTasks, CreateTask, Task
    <3>2. \A t \in Task : t # created + 1 =>
             status'[t] = status[t] /\ assignee'[t] = assignee[t]
      BY <2>1, <3>1 DEF IInv, TypeOK, CreateTask
    <3> QED BY <3>1, <3>2
  <2>2. ASSUME NEW t \in Task, NEW m \in Member, Claims(t, m)
        PROVE  Once
    BY <2>2, ClaimsFacts DEF IInv
  <2>3. ASSUME NEW t \in Task, NEW m \in Member, SubmitResult(t, m)
        PROVE  Once
    BY <2>3, SubmitsFacts DEF IInv, SubmitResult
  <2>4. ASSUME NEW m \in Member, SpawnMember(m) \/ ShutdownMember(m)
        PROVE  Once
    BY <2>4 DEF SpawnMember, ShutdownMember
  <2> QED BY <2>1, <2>2, <2>3, <2>4 DEF Next, ClaimTask, ClaimTaskForMember
<1> QED BY <1>1, InvariantHolds, PTL DEF ClaimedOnce, Spec
=============================================================================
