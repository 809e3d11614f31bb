--------------------------------- MODULE Jobs ---------------------------------
(***************************************************************************)
(* Work that the gateway runs outside a request: the background tasks and  *)
(* their worker (harness/multi_agent/background.py), and the cron tasks    *)
(* and their scheduler (harness/scheduler/cron.py).                        *)
(*                                                                         *)
(* The two share the event loop.  The worker calls agent.invoke on it and  *)
(* the endpoints that create and delete cron tasks do not suspend, so each *)
(* of them holds the loop from its first action to its last.  Two kinds of *)
(* threads run beside the loop: the cron runs, between any two of these    *)
(* actions, and the executor threads in which an agent's tools submit      *)
(* background tasks of their own, putting them on the loop's queue without *)
(* going through the loop.                                                 *)
(*                                                                         *)
(* asyncio.Queue.put_nowait is one action.  A get from an empty queue is   *)
(* two, because another thread may put between its test and its wait.  The *)
(* callback the gateway registers for a cron task writes a line to the log *)
(* and is left out.                                                        *)
(***************************************************************************)
EXTENDS Naturals, Sequences

CONSTANTS
    ApiTask,       \* background tasks submitted through the API, on the loop
    ToolTask,      \* background tasks submitted by the tool, from a thread
    Cron,          \* cron tasks created through the API
    ValidCron      \* those with an expression the scheduler accepts

ASSUME TaskAssumption == ApiTask \cap ToolTask = {}
ASSUME CronAssumption == ValidCron \subseteq Cron

Task == ApiTask \cup ToolTask

VARIABLES
    status,        \* status of each background task ("none": not submitted)
    queue,         \* _queue
    worker,        \* where the worker task is
    up,            \* FALSE after the lifespan's shutdown
    listed,        \* keys of CronScheduler._tasks
    job,           \* the jobs APScheduler has
    cronStatus,    \* status of each cron task object
    admin,         \* where the create and delete endpoints are with each cron task
    run            \* where the scheduler's thread is with each cron task

background == <<status, queue, worker>>
cron == <<listed, job, cronStatus, admin, run>>
vars == <<background, up, cron>>

TypeOK ==
    /\ status \in [Task -> {"none", "pending", "running", "completed", "failed"}]
    /\ queue \in Seq(Task)
    /\ worker \in {"ready", "looking", "empty", "waiting", "running", "ended"}
    /\ up \in BOOLEAN
    /\ listed \in SUBSET Cron
    /\ job \in SUBSET Cron
    /\ cronStatus \in [Cron -> {"pending", "running", "completed", "failed"}]
    /\ admin \in [Cron -> {"new", "listed", "scheduled", "created", "refused",
                           "unscheduled", "deleted"}]
    /\ run \in [Cron -> {"none", "called", "found", "agent"}]

Init ==
    /\ status = [t \in Task |-> "none"]
    /\ queue = <<>>
    /\ worker = "ready"
    /\ up = TRUE
    /\ listed = {}
    /\ job = {}
    /\ cronStatus = [c \in Cron |-> "pending"]
    /\ admin = [c \in Cron |-> "new"]
    /\ run = [c \in Cron |-> "none"]

\* Nobody is in the middle of something on the event loop.
LoopFree ==
    /\ worker \notin {"looking", "empty", "running"}
    /\ \A c \in Cron : admin[c] \notin {"listed", "scheduled", "unscheduled"}

-----------------------------------------------------------------------------
(* Background tasks *)

\* The task goes into the table and onto the queue; a waiting get is woken.
Accept(t) ==
    /\ status[t] = "none"
    /\ status' = [status EXCEPT ![t] = "pending"]
    /\ queue' = Append(queue, t)
    /\ worker' = IF worker = "waiting" THEN "ready" ELSE worker

\* POST /api/background.
SubmitApi(t) ==
    /\ up
    /\ LoopFree
    /\ Accept(t)
    /\ UNCHANGED <<up, cron>>

\* The submit_background_task tool.  Its thread has no event loop, so it makes one
\* of its own and runs submit there.
SubmitTool(t) ==
    /\ Accept(t)
    /\ UNCHANGED <<up, cron>>

\* Mutant: the worker looks at the head of the queue and leaves it there.
WorkerPeeks ==
    /\ \/ worker = "ready" /\ LoopFree
       \/ worker = "looking"
    /\ IF queue = <<>>
       THEN /\ worker' = "empty"
            /\ UNCHANGED status
       ELSE /\ status' = [status EXCEPT ![Head(queue)] = "running"]
            /\ worker' = "running"
    /\ UNCHANGED <<queue, up, cron>>

\* The worker's next get, with a look into the queue; then, in the same step of
\* the loop, the start of the task it got.
WorkerLooks ==
    /\ \/ worker = "ready" /\ LoopFree
       \/ worker = "looking"
    /\ IF queue = <<>>
       THEN /\ worker' = "empty"
            /\ UNCHANGED <<status, queue>>
       ELSE /\ queue' = Tail(queue)
            /\ status' = [status EXCEPT ![Head(queue)] = "running"]
            /\ worker' = "running"
    /\ UNCHANGED <<up, cron>>

\* The rest of a get from an empty queue: it waits for the next put.
WorkerWaits ==
    /\ worker = "empty"
    /\ worker' = "waiting"
    /\ UNCHANGED <<status, queue, up, cron>>

\* Mutant: an exception of the agent leaves the worker's loop.
WorkerEndsUncaught(t) ==
    /\ worker = "running"
    /\ status[t] = "running"
    /\ \/ /\ status' = [status EXCEPT ![t] = "completed"]
          /\ worker' = "looking"
       \/ /\ status' = [status EXCEPT ![t] = "failed"]
          /\ worker' = "ended"
    /\ UNCHANGED <<queue, up, cron>>

\* The end of the agent's work; the loop of the worker goes on without a suspension.
WorkerEnds(t) ==
    /\ worker = "running"
    /\ status[t] = "running"
    /\ \E outcome \in {"completed", "failed"} : status' = [status EXCEPT ![t] = outcome]
    /\ worker' = "looking"
    /\ UNCHANGED <<queue, up, cron>>

\* The end of the lifespan: the schedulers fire no more, the worker is cancelled
\* in its get.  Runs that are under way go on.
Shutdown ==
    /\ up
    /\ LoopFree
    /\ up' = FALSE
    /\ worker' = "ended"
    /\ UNCHANGED <<status, queue, cron>>

-----------------------------------------------------------------------------
(* Cron tasks: the endpoints *)

\* POST /api/crons: the task enters the table.
ListCron(c) ==
    /\ up
    /\ LoopFree
    /\ admin[c] = "new"
    /\ listed' = listed \cup {c}
    /\ admin' = [admin EXCEPT ![c] = "listed"]
    /\ UNCHANGED <<background, up, job, cronStatus, run>>

\* The expression is parsed and the job added, or the request fails.
ScheduleCron(c) ==
    /\ admin[c] = "listed"
    /\ IF c \in ValidCron
       THEN /\ job' = job \cup {c}
            /\ admin' = [admin EXCEPT ![c] = "scheduled"]
       ELSE /\ admin' = [admin EXCEPT ![c] = "refused"]
            /\ UNCHANGED job
    /\ UNCHANGED <<background, up, listed, cronStatus, run>>

ShowPending(c) ==
    /\ admin[c] = "scheduled"
    /\ cronStatus' = [cronStatus EXCEPT ![c] = "pending"]
    /\ admin' = [admin EXCEPT ![c] = "created"]
    /\ UNCHANGED <<background, up, listed, job, run>>

\* Mutant: remove_task forgets the scheduler's job.
UnscheduleCronOnlyTable(c) ==
    /\ up
    /\ LoopFree
    /\ c \in listed
    /\ admin' = [admin EXCEPT ![c] = "unscheduled"]
    /\ UNCHANGED <<background, up, listed, job, cronStatus, run>>

\* DELETE /api/crons/{task_id}: the job goes first (a refused task has none) ...
UnscheduleCron(c) ==
    /\ up
    /\ LoopFree
    /\ c \in listed
    /\ job' = job \ {c}
    /\ admin' = [admin EXCEPT ![c] = "unscheduled"]
    /\ UNCHANGED <<background, up, listed, cronStatus, run>>

\* ... then the task.
DropCron(c) ==
    /\ admin[c] = "unscheduled"
    /\ listed' = listed \ {c}
    /\ admin' = [admin EXCEPT ![c] = "deleted"]
    /\ UNCHANGED <<background, up, job, cronStatus, run>>

-----------------------------------------------------------------------------
(* Cron tasks: the runs, on the scheduler's threads *)

\* APScheduler calls _execute_task, once at a time for a job (max_instances).
Fire(c) ==
    /\ up
    /\ c \in job
    /\ run[c] = "none"
    /\ run' = [run EXCEPT ![c] = "called"]
    /\ UNCHANGED <<background, up, listed, job, cronStatus, admin>>

RunLooksUp(c) ==
    /\ run[c] = "called"
    /\ run' = [run EXCEPT ![c] = IF c \in listed THEN "found" ELSE "none"]
    /\ UNCHANGED <<background, up, listed, job, cronStatus, admin>>

\* From here on the run goes on whatever happens to the task's entry.
RunStarts(c) ==
    /\ run[c] = "found"
    /\ cronStatus' = [cronStatus EXCEPT ![c] = "running"]
    /\ run' = [run EXCEPT ![c] = "agent"]
    /\ UNCHANGED <<background, up, listed, job, admin>>

\* Mutant: _execute_task without its except.
RunEndsUncaught(c) ==
    /\ run[c] = "agent"
    /\ \E outcome \in {"completed", "running"} :
           cronStatus' = [cronStatus EXCEPT ![c] = outcome]
    /\ run' = [run EXCEPT ![c] = "none"]
    /\ UNCHANGED <<background, up, listed, job, admin>>

\* Mutant: a status of a run that TaskStatus does not have.
RunEndsCancelled(c) ==
    /\ run[c] = "agent"
    /\ \E outcome \in {"completed", "failed", "cancelled"} :
           cronStatus' = [cronStatus EXCEPT ![c] = outcome]
    /\ run' = [run EXCEPT ![c] = "none"]
    /\ UNCHANGED <<background, up, listed, job, admin>>

\* The agent has answered or raised.
RunEnds(c) ==
    /\ run[c] = "agent"
    /\ \E outcome \in {"completed", "failed"} :
           cronStatus' = [cronStatus EXCEPT ![c] = outcome]
    /\ run' = [run EXCEPT ![c] = "none"]
    /\ UNCHANGED <<background, up, listed, job, admin>>

-----------------------------------------------------------------------------

Next ==
    \/ \E t \in ApiTask : SubmitApi(t)
    \/ \E t \in ToolTask : SubmitTool(t)
    \/ WorkerLooks
    \/ WorkerWaits
    \/ \E t \in Task : WorkerEnds(t)
    \/ Shutdown
    \/ \E c \in Cron :
         \/ ListCron(c) \/ ScheduleCron(c) \/ ShowPending(c)
         \/ UnscheduleCron(c) \/ DropCron(c)
         \/ Fire(c) \/ RunLooksUp(c) \/ RunStarts(c) \/ RunEnds(c)

\* The loop runs what is ready (the server's own timer wakes it ten times a second,
\* so a wake-up from another thread is seen), a request in progress goes on, and
\* an agent answers or raises in the end.
Fairness ==
    /\ WF_vars(WorkerLooks)
    /\ WF_vars(WorkerWaits)
    /\ \A t \in Task : WF_vars(WorkerEnds(t))
    /\ \A c \in Cron : WF_vars(ScheduleCron(c) \/ ShowPending(c) \/ DropCron(c))

Spec == Init /\ [][Next]_vars /\ Fairness

-----------------------------------------------------------------------------
(* Properties *)

\* The queue holds the pending tasks, each of them once: no accepted task is lost
\* from it or will be run twice, whoever put it there and whatever the worker was
\* doing.
QueueHoldsPending ==
    /\ \A t \in Task : status[t] = "pending" <=> \E i \in DOMAIN queue : queue[i] = t
    /\ \A i, j \in DOMAIN queue : queue[i] = queue[j] => i = j

\* The worker waits although there is something to do: the tool put it between
\* the worker's look into the queue and its wait, and nothing has come since.
Overslept ==
    /\ worker = "waiting"
    /\ queue # <<>>
    /\ \A i \in DOMAIN queue : queue[i] \in ToolTask

\* An accepted task ends, completed or failed, also behind a failing one, unless
\* the gateway shuts down first; a task of the tool may be overslept until the
\* next one is submitted, a task of the API is never.
AcceptedEnds ==
    \A t \in Task :
        status[t] = "pending" ~>
            \/ status[t] \in {"completed", "failed"}
            \/ ~ up
            \/ t \in ToolTask /\ Overslept

\* A cron task that is listed has a job, and a job's task is listed, except while an
\* endpoint is at work on it; a task that was refused for its expression is the one
\* that stays listed without a job.
ListedHasJob ==
    \A c \in Cron :
        admin[c] \notin {"listed", "unscheduled", "refused"} => (c \in listed <=> c \in job)

\* The status of a cron task is RUNNING only while a run of it is under way, and no
\* run is under way when it says completed or failed: what list_crons shows is not
\* what an earlier run left there.  (A run that overtakes add_task is shown as
\* pending.)
StatusTellsRun ==
    \A c \in Cron :
        /\ cronStatus[c] = "running" => run[c] = "agent"
        /\ cronStatus[c] \in {"completed", "failed"} => run[c] # "agent"
=============================================================================
