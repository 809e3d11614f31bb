------------------------------ MODULE JobsProofs ------------------------------
(***************************************************************************)
(* Proofs about Jobs, for any background tasks and cron tasks: typing, the *)
(* exactness of the worker's queue, and what the cron tables and statuses  *)
(* say of the jobs and runs.  Liveness stays with TLC.                     *)
(***************************************************************************)
EXTENDS Jobs, SequenceTheorems, TLAPS

\* What the tables hold at each point of the create and delete endpoints.
AdminInv ==
    \A c \in Cron :
        /\ admin[c] \in {"new", "deleted"} => c \notin listed /\ c \notin job
        /\ admin[c] \in {"listed", "refused", "unscheduled"} => c \in listed /\ c \notin job
        /\ admin[c] \in {"scheduled", "created"} => c \in listed /\ c \in job

IInv == TypeOK /\ QueueHoldsPending /\ AdminInv /\ StatusTellsRun

CronStep(c) ==
    \/ ListCron(c) \/ ScheduleCron(c) \/ ShowPending(c)
    \/ UnscheduleCron(c) \/ DropCron(c)
    \/ Fire(c) \/ RunLooksUp(c) \/ RunStarts(c) \/ RunEnds(c)

\* Only the worker's part moves the queue and the tasks' statuses.
BackgroundStep ==
    \/ \E t \in ApiTask : SubmitApi(t)
    \/ \E t \in ToolTask : SubmitTool(t)
    \/ WorkerLooks
    \/ WorkerWaits
    \/ \E t \in Task : WorkerEnds(t)
    \/ Shutdown

\* Appending a task that was not pending keeps the queue exact.
LEMMA AcceptKeepsQueue ==
    ASSUME TypeOK, QueueHoldsPending, NEW t \in Task, Accept(t)
    PROVE  QueueHoldsPending'
<1> DEFINE q == Append(queue, t)
<1>1. queue \in Seq(Task) /\ status \in [Task -> {"none", "pending", "running", "completed", "failed"}]
      BY DEF TypeOK
<1>2. /\ status' = [status EXCEPT ![t] = "pending"] /\ queue' = q /\ status[t] = "none"
      BY DEF Accept
<1>3. /\ Len(q) = Len(queue) + 1
      /\ \A i \in 1 .. Len(queue) : q[i] = queue[i]
      /\ q[Len(queue) + 1] = t
      BY <1>1
<1>4. DOMAIN queue = 1 .. Len(queue) /\ DOMAIN q = 1 .. (Len(queue) + 1) /\ Len(queue) \in Nat
      BY <1>1, <1>3
<1>5. \A i \in DOMAIN queue : queue[i] # t
      BY <1>2 DEF QueueHoldsPending
<1>6. ASSUME NEW u \in Task
      PROVE  status'[u] = "pending" <=> \E i \in DOMAIN q : q[i] = u
  <2>1. CASE u = t
        BY <2>1, <1>1, <1>2, <1>3, <1>4
  <2>2. CASE u # t
    <3>1. status'[u] = status[u]
          BY <2>2, <1>1, <1>2
    <3>2. (\E i \in DOMAIN q : q[i] = u) <=> \E i \in DOMAIN queue : queue[i] = u
          BY <2>2, <1>3, <1>4
    <3> QED BY <3>1, <3>2 DEF QueueHoldsPending
  <2> QED BY <2>1, <2>2
<1>7. \A i, j \in DOMAIN q : q[i] = q[j] => i = j
      BY <1>3, <1>4, <1>5 DEF QueueHoldsPending
<1> QED BY <1>2, <1>6, <1>7 DEF QueueHoldsPending

\* Taking the head, the only place of its task, keeps the queue exact.
LEMMA TakeKeepsQueue ==
    ASSUME TypeOK, QueueHoldsPending, queue # <<>>, queue' = Tail(queue),
           status' = [status EXCEPT ![Head(queue)] = "running"]
    PROVE  QueueHoldsPending'
<1> DEFINE q == Tail(queue)
<1>1. queue \in Seq(Task) /\ status \in [Task -> {"none", "pending", "running", "completed", "failed"}]
      BY DEF TypeOK
<1>2. /\ Len(queue) \in Nat \ {0} /\ Head(queue) = queue[1] /\ Head(queue) \in Task
      /\ q \in Seq(Task) /\ Len(q) = Len(queue) - 1
      /\ \A i \in 1 .. Len(q) : q[i] = queue[i + 1]
      BY <1>1
<1>3. DOMAIN queue = 1 .. Len(queue) /\ DOMAIN q = 1 .. (Len(queue) - 1)
      BY <1>1, <1>2
<1>4. \A i, j \in 1 .. Len(queue) : queue[i] = queue[j] => i = j
      BY <1>3 DEF QueueHoldsPending
<1>5. ASSUME NEW u \in Task
      PROVE  status'[u] = "pending" <=> \E i \in DOMAIN q : q[i] = u
  <2>1. CASE u = Head(queue)
    <3>1. status'[u] = "running"
          BY <2>1, <1>1
    <3>2. \A i \in DOMAIN q : q[i] # u
          BY <2>1, <1>2, <1>3, <1>4
    <3> QED BY <3>1, <3>2
  <2>2. CASE u # Head(queue)
    <3>1. status'[u] = status[u]
          BY <2>2, <1>1, <1>2
    <3>2. ASSUME NEW i \in DOMAIN queue, queue[i] = u
          PROVE  \E j \in DOMAIN q : q[j] = u
      <4>1. i \in 2 .. Len(queue)
            BY <3>2, <2>2, <1>2, <1>3
      <4>2. i - 1 \in DOMAIN q /\ q[i - 1] = u
            BY <4>1, <3>2, <1>2, <1>3
      <4> QED BY <4>2
    <3>3. ASSUME NEW j \in DOMAIN q, q[j] = u
          PROVE  \E i \in DOMAIN queue : queue[i] = u
          BY <3>3, <1>2, <1>3
    <3> QED BY <3>1, <3>2, <3>3 DEF QueueHoldsPending
  <2> QED BY <2>1, <2>2
<1>6. \A i, j \in DOMAIN q : q[i] = q[j] => i = j
      BY <1>2, <1>3, <1>4
<1> QED BY <1>5, <1>6 DEF QueueHoldsPending

LEMMA InitHolds == Init => IInv
<1> SUFFICES ASSUME Init PROVE IInv
    OBVIOUS
<1>1. TypeOK
      BY DEF Init, TypeOK
<1>2. QueueHoldsPending
      BY DEF Init, QueueHoldsPending
<1>3. AdminInv /\ StatusTellsRun
      BY DEF Init, AdminInv, StatusTellsRun
<1> QED BY <1>1, <1>2, <1>3 DEF IInv

LEMMA BackgroundStepHolds == IInv /\ BackgroundStep => IInv'
<1> SUFFICES ASSUME IInv, BackgroundStep PROVE IInv'
    OBVIOUS
<1> USE DEF IInv
<1>1. cron' = cron
      BY DEF BackgroundStep, SubmitApi, SubmitTool, WorkerLooks, WorkerWaits, WorkerEnds, Shutdown
<1>2. AdminInv' /\ StatusTellsRun'
      BY <1>1 DEF cron, AdminInv, StatusTellsRun
<1>3. /\ listed' \in SUBSET Cron /\ job' \in SUBSET Cron
      /\ cronStatus' = cronStatus /\ admin' = admin /\ run' = run
      BY <1>1 DEF TypeOK, cron
<1>4. ASSUME NEW t \in Task, Accept(t), up' = up
      PROVE  TypeOK' /\ QueueHoldsPending'
  <2>1. QueueHoldsPending'
        BY <1>4, AcceptKeepsQueue
  <2>2. TypeOK'
        BY <1>3, <1>4 DEF TypeOK, Accept
  <2> QED BY <2>1, <2>2
<1>5. CASE \E t \in ApiTask : SubmitApi(t)
      BY <1>2, <1>4, <1>5 DEF SubmitApi, Task
<1>6. CASE \E t \in ToolTask : SubmitTool(t)
      BY <1>2, <1>4, <1>6 DEF SubmitTool, Task
<1>7. CASE WorkerLooks
  <2>1. CASE queue = <<>>
        BY <2>1, <1>2, <1>3, <1>7 DEF WorkerLooks, TypeOK, QueueHoldsPending
  <2>2. CASE queue # <<>>
    <3>1. QueueHoldsPending'
          BY <2>2, <1>7, TakeKeepsQueue DEF WorkerLooks
    <3>2. TypeOK'
          BY <2>2, <1>3, <1>7 DEF WorkerLooks, TypeOK
    <3> QED BY <3>1, <3>2, <1>2
  <2> QED BY <2>1, <2>2
<1>8. CASE WorkerWaits \/ Shutdown
      BY <1>2, <1>3, <1>8 DEF WorkerWaits, Shutdown, TypeOK, QueueHoldsPending
<1>9. ASSUME NEW t \in Task, WorkerEnds(t)
      PROVE  TypeOK' /\ QueueHoldsPending'
  <2>1. PICK outcome \in {"completed", "failed"} : status' = [status EXCEPT ![t] = outcome]
        BY <1>9 DEF WorkerEnds
  <2>2. TypeOK'
        BY <2>1, <1>3, <1>9 DEF WorkerEnds, TypeOK
  <2>3. \A u \in Task : status'[u] = "pending" <=> status[u] = "pending"
        BY <2>1, <1>9 DEF WorkerEnds, TypeOK
  <2>4. QueueHoldsPending'
        BY <2>3, <1>9 DEF WorkerEnds, QueueHoldsPending
  <2> QED BY <2>2, <2>4
<1> QED BY <1>2, <1>5, <1>6, <1>7, <1>8, <1>9 DEF BackgroundStep

LEMMA CronStepHolds == ASSUME IInv, NEW c \in Cron, CronStep(c) PROVE IInv'
<1> USE DEF IInv
<1>1. background' = background
      BY DEF CronStep, ListCron, ScheduleCron, ShowPending, UnscheduleCron, DropCron,
             Fire, RunLooksUp, RunStarts, RunEnds
<1>2. status' = status /\ queue' = queue /\ worker' = worker
      BY <1>1 DEF background
<1>3. QueueHoldsPending'
      BY <1>2 DEF QueueHoldsPending
<1>4. CASE ListCron(c)
      BY <1>2, <1>3, <1>4 DEF ListCron, TypeOK, AdminInv, StatusTellsRun
<1>5. CASE ScheduleCron(c)
      BY <1>2, <1>3, <1>5 DEF ScheduleCron, TypeOK, AdminInv, StatusTellsRun
<1>6. CASE ShowPending(c)
      BY <1>2, <1>3, <1>6 DEF ShowPending, TypeOK, AdminInv, StatusTellsRun
<1>7. CASE UnscheduleCron(c)
      BY <1>2, <1>3, <1>7 DEF UnscheduleCron, TypeOK, AdminInv, StatusTellsRun
<1>8. CASE DropCron(c)
      BY <1>2, <1>3, <1>8 DEF DropCron, TypeOK, AdminInv, StatusTellsRun
<1>9. CASE Fire(c)
      BY <1>2, <1>3, <1>9 DEF Fire, TypeOK, AdminInv, StatusTellsRun
<1>10. CASE RunLooksUp(c)
      BY <1>2, <1>3, <1>10 DEF RunLooksUp, TypeOK, AdminInv, StatusTellsRun
<1>11. CASE RunStarts(c)
      BY <1>2, <1>3, <1>11 DEF RunStarts, TypeOK, AdminInv, StatusTellsRun
<1>12. CASE RunEnds(c)
      BY <1>2, <1>3, <1>12 DEF RunEnds, TypeOK, AdminInv, StatusTellsRun
<1> QED BY <1>4, <1>5, <1>6, <1>7, <1>8, <1>9, <1>10, <1>11, <1>12 DEF CronStep

LEMMA NextHolds == IInv /\ [Next]_vars => IInv'
<1> SUFFICES ASSUME IInv, [Next]_vars PROVE IInv'
    OBVIOUS
<1>1. CASE BackgroundStep
      BY <1>1, BackgroundStepHolds
<1>2. CASE \E c \in Cron : CronStep(c)
      BY <1>2, CronStepHolds
<1>3. CASE UNCHANGED vars
      BY <1>3 DEF vars, background, cron, IInv, TypeOK, QueueHoldsPending, AdminInv, StatusTellsRun
<1> QED BY <1>1, <1>2, <1>3 DEF Next, BackgroundStep, CronStep

\* Everything the safety theorems rest on.
THEOREM InvariantHolds == Spec => []IInv
<1> QED BY InitHolds, NextHolds, PTL DEF Spec

\* The state of the worker, the tables and the runs is well typed.
THEOREM TypeCorrect == Spec => []TypeOK
<1>1. IInv => TypeOK
      BY DEF IInv
<1> QED BY <1>1, InvariantHolds, PTL

\* The worker's queue holds exactly the pending tasks, whatever threads put there.
THEOREM QueueHoldsPendingHolds == Spec => []QueueHoldsPending
<1>1. IInv => QueueHoldsPending
      BY DEF IInv
<1> QED BY <1>1, InvariantHolds, PTL

\* add_task and remove_task keep the table and the scheduler's jobs together, but
\* for a refused expression.
THEOREM ListedHasJobHolds == Spec => []ListedHasJob
<1>1. IInv => ListedHasJob
      BY DEF IInv, TypeOK, AdminInv, ListedHasJob
<1> QED BY <1>1, InvariantHolds, PTL

\* The status that list_crons shows never contradicts what runs.
THEOREM StatusTellsRunHolds == Spec => []StatusTellsRun
<1>1. IInv => StatusTellsRun
      BY DEF IInv
<1> QED BY <1>1, InvariantHolds, PTL
=============================================================================
