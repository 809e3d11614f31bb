------------------------------ MODULE LaneQueue ------------------------------
(***************************************************************************)
(* The lane queue of the gateway (gateway/lane.py): one asyncio.Lock per   *)
(* session key, so that the handlers of one session run one after another. *)
(*                                                                         *)
(* A request is one run of a handler that brackets its work with           *)
(* acquire/release (server.py: chat, chat_with_expert, dingtalk_callback). *)
(* An asyncio program only changes state between two suspension points, so *)
(* every action is the code a task runs from one suspension to the next.   *)
(* The lock object itself is the standard library's: a flag, a deque of    *)
(* waiters, and a wake-up that is scheduled by release and takes effect    *)
(* when the waiter's task runs again.                                      *)
(*                                                                         *)
(* A lock object carries the name of the request whose acquire created it. *)
(* The clock is abstracted to what cleanup_stale asks of it: whether the   *)
(* session's last activity is older than max_age_seconds.                  *)
(***************************************************************************)
EXTENDS Naturals, Sequences

CONSTANTS
    Request,      \* handler runs
    Key,          \* session keys
    KeyOf,        \* the session key each request computes
    NoLock,       \* "no lock is registered"
    QuietStale    \* TRUE: no holder and no hand-over outlives max_age_seconds

ASSUME KeyOfAssumption == KeyOf \in [Request -> Key]
ASSUME NoLockAssumption == NoLock \notin Request
ASSUME QuietStaleAssumption == QuietStale \in BOOLEAN

VARIABLES
    registered,   \* _locks: the lock object of each session key
    locked,       \* asyncio.Lock._locked of each lock object
    waiters,      \* asyncio.Lock._waiters of each lock object
    activity,     \* _active_sessions: "none", or a stamp that is "fresh" or "stale"
    pc,           \* where each request's handler is
    lock,         \* the local variable `lock` of each request's acquire
    wasFree       \* the local variable `was_free`, the value acquire returns

vars == <<registered, locked, waiters, activity, pc, lock, wasFree>>

\* "woken": the waiter's future has its result, its task has not run yet.
\* "cancelled": the task is being cancelled while it waits; "cancelledWoken":
\* it is cancelled after its future got its result.
Queued == {"waiting", "woken", "cancelled", "cancelledWoken"}
States == {"new", "holding", "done"} \cup Queued

TypeOK ==
    /\ registered \in [Key -> Request \cup {NoLock}]
    /\ locked \in [Request -> BOOLEAN]
    /\ waiters \in [Request -> Seq(Request)]
    /\ activity \in [Key -> {"none", "fresh", "stale"}]
    /\ pc \in [Request -> States]
    /\ lock \in [Request -> Request \cup {NoLock}]
    /\ wasFree \in [Request -> BOOLEAN]

Init ==
    /\ registered = [k \in Key |-> NoLock]
    /\ locked = [l \in Request |-> FALSE]
    /\ waiters = [l \in Request |-> <<>>]
    /\ activity = [k \in Key |-> "none"]
    /\ pc = [r \in Request |-> "new"]
    /\ lock = [r \in Request |-> NoLock]
    /\ wasFree = [r \in Request |-> FALSE]

-----------------------------------------------------------------------------
(* asyncio.Lock *)

\* The waiter queue without r, which occurs in it once.
Without(q, r) ==
    LET i == CHOOSE j \in 1 .. Len(q) : q[j] = r
    IN  [j \in 1 .. Len(q) - 1 |-> IF j < i THEN q[j] ELSE q[j + 1]]

\* Mutant: a newcomer overtakes the waiter that was just woken.
FastPathIgnoringWaiters(l) == ~ locked[l]

\* A free lock is taken at once only when no waiter is left but cancelled ones.
FastPath(l) ==
    /\ ~ locked[l]
    /\ \A j \in 1 .. Len(waiters[l]) : pc[waiters[l][j]] = "cancelled"

\* The states after _wake_up_first on queue q, given the states p: the future
\* of the first waiter gets its result unless it is already done.
WakeUpFirst(q, p) ==
    IF q # <<>> /\ p[q[1]] = "waiting" THEN [p EXCEPT ![q[1]] = "woken"] ELSE p

-----------------------------------------------------------------------------
(* LaneQueue *)

\* _get_lock: the registered lock, or a new one.
LockFor(r) == IF registered[KeyOf[r]] = NoLock THEN r ELSE registered[KeyOf[r]]

\* is_locked
IsLocked(k) == registered[k] # NoLock /\ locked[registered[k]]

\* Mutant: the stamp is only set for a session that has none.
AcquireNowStampedOnce(r) ==
    /\ pc[r] = "new"
    /\ FastPath(LockFor(r))
    /\ registered' = [registered EXCEPT ![KeyOf[r]] = LockFor(r)]
    /\ lock' = [lock EXCEPT ![r] = LockFor(r)]
    /\ wasFree' = [wasFree EXCEPT ![r] = ~ locked[LockFor(r)]]
    /\ locked' = [locked EXCEPT ![LockFor(r)] = TRUE]
    /\ pc' = [pc EXCEPT ![r] = "holding"]
    /\ activity' = [activity EXCEPT ![KeyOf[r]] = IF @ = "none" THEN "fresh" ELSE @]
    /\ UNCHANGED waiters

\* acquire, up to the first suspension, when the lock is taken at once.
AcquireNow(r) ==
    /\ pc[r] = "new"
    /\ FastPath(LockFor(r))
    /\ registered' = [registered EXCEPT ![KeyOf[r]] = LockFor(r)]
    /\ lock' = [lock EXCEPT ![r] = LockFor(r)]
    /\ wasFree' = [wasFree EXCEPT ![r] = ~ locked[LockFor(r)]]
    /\ locked' = [locked EXCEPT ![LockFor(r)] = TRUE]
    /\ activity' = [activity EXCEPT ![KeyOf[r]] = "fresh"]
    /\ pc' = [pc EXCEPT ![r] = "holding"]
    /\ UNCHANGED waiters

\* Mutant: the waiters are a stack.
AcquireWaitInFront(r) ==
    /\ pc[r] = "new"
    /\ ~ FastPath(LockFor(r))
    /\ registered' = [registered EXCEPT ![KeyOf[r]] = LockFor(r)]
    /\ lock' = [lock EXCEPT ![r] = LockFor(r)]
    /\ wasFree' = [wasFree EXCEPT ![r] = ~ locked[LockFor(r)]]
    /\ waiters' = [waiters EXCEPT ![LockFor(r)] = <<r>> \o @]
    /\ pc' = [pc EXCEPT ![r] = "waiting"]
    /\ UNCHANGED <<locked, activity>>

\* acquire, up to the first suspension, when the request has to wait.
AcquireWait(r) ==
    /\ pc[r] = "new"
    /\ ~ FastPath(LockFor(r))
    /\ registered' = [registered EXCEPT ![KeyOf[r]] = LockFor(r)]
    /\ lock' = [lock EXCEPT ![r] = LockFor(r)]
    /\ wasFree' = [wasFree EXCEPT ![r] = ~ locked[LockFor(r)]]
    /\ waiters' = [waiters EXCEPT ![LockFor(r)] = Append(@, r)]
    /\ pc' = [pc EXCEPT ![r] = "waiting"]
    /\ UNCHANGED <<locked, activity>>

\* The woken waiter's task runs: the rest of acquire.
Resume(r) ==
    /\ pc[r] = "woken"
    /\ waiters' = [waiters EXCEPT ![lock[r]] = Without(@, r)]
    /\ locked' = [locked EXCEPT ![lock[r]] = TRUE]
    /\ activity' = [activity EXCEPT ![KeyOf[r]] = "fresh"]
    /\ pc' = [pc EXCEPT ![r] = "holding"]
    /\ UNCHANGED <<registered, lock, wasFree>>

\* The server cancels a request that waits for its lane.
Cancel(r) ==
    /\ pc[r] \in {"waiting", "woken"}
    /\ pc' = [pc EXCEPT ![r] = IF pc[r] = "woken" THEN "cancelledWoken" ELSE "cancelled"]
    /\ UNCHANGED <<registered, locked, waiters, activity, lock, wasFree>>

\* Mutant: a cancelled waiter does not pass the wake-up on.
ResumeCancelledSilently(r) ==
    /\ pc[r] \in {"cancelled", "cancelledWoken"}
    /\ waiters' = [waiters EXCEPT ![lock[r]] = Without(@, r)]
    /\ pc' = [pc EXCEPT ![r] = "done"]
    /\ UNCHANGED <<registered, locked, activity, lock, wasFree>>

\* The cancelled task runs: CancelledError leaves acquire, which is called
\* before the handler's try, so release is not called.
ResumeCancelled(r) ==
    /\ pc[r] \in {"cancelled", "cancelledWoken"}
    /\ LET q == Without(waiters[lock[r]], r)
           p == [pc EXCEPT ![r] = "done"]
       IN  /\ waiters' = [waiters EXCEPT ![lock[r]] = q]
           /\ pc' = IF locked[lock[r]] THEN p ELSE WakeUpFirst(q, p)
    /\ UNCHANGED <<registered, locked, activity, lock, wasFree>>

\* Mutant: a handler that calls release without a finally; its work raises.
ReleaseForgotten(r) ==
    /\ pc[r] = "holding"
    /\ pc' = [pc EXCEPT ![r] = "done"]
    /\ UNCHANGED <<registered, locked, waiters, activity, lock, wasFree>>

\* release, in the finally of the handler: it looks the lock up by key again.
Release(r) ==
    /\ pc[r] = "holding"
    /\ LET p == [pc EXCEPT ![r] = "done"]
           l == registered[KeyOf[r]]
       IN  IF IsLocked(KeyOf[r])
           THEN /\ locked' = [locked EXCEPT ![l] = FALSE]
                /\ pc' = WakeUpFirst(waiters[l], p)
           ELSE /\ pc' = p
                /\ UNCHANGED locked
    /\ UNCHANGED <<registered, waiters, activity, lock, wasFree>>

\* Nobody holds the session's lock or waits for it.
Quiet(k) ==
    \A r \in Request : KeyOf[r] = k => pc[r] \notin Queued \cup {"holding"}

\* The last activity of session k gets older than max_age_seconds.
GrowStale(k) ==
    /\ activity[k] = "fresh"
    /\ QuietStale => Quiet(k)
    /\ activity' = [activity EXCEPT ![k] = "stale"]
    /\ UNCHANGED <<registered, locked, waiters, pc, lock, wasFree>>

StaleKeys == {k \in Key : activity[k] = "stale" /\ ~ IsLocked(k)}

\* Mutant: the stale keys leave the table of locks for good.
CleanupStaleHalf ==
    /\ StaleKeys # {}
    /\ registered' = [k \in Key \ StaleKeys |-> registered[k]]
    /\ UNCHANGED <<locked, waiters, activity, pc, lock, wasFree>>

\* cleanup_stale
CleanupStale ==
    /\ StaleKeys # {}
    /\ registered' = [k \in Key |-> IF k \in StaleKeys THEN NoLock ELSE registered[k]]
    /\ activity' = [k \in Key |-> IF k \in StaleKeys THEN "none" ELSE activity[k]]
    /\ UNCHANGED <<locked, waiters, pc, lock, wasFree>>

Next ==
    \/ \E r \in Request : \/ AcquireNow(r) \/ AcquireWait(r)
                          \/ Resume(r) \/ Cancel(r) \/ ResumeCancelled(r)
                          \/ Release(r)
    \/ \E k \in Key : GrowStale(k)
    \/ CleanupStale

\* The event loop runs every task that is ready, and a handler's work ends.
Fairness ==
    \A r \in Request : /\ WF_vars(Resume(r))
                       /\ WF_vars(ResumeCancelled(r))
                       /\ WF_vars(Release(r))

Spec == Init /\ [][Next]_vars

FairSpec == Spec /\ Fairness

-----------------------------------------------------------------------------
(* Properties *)

\* Requests of the same session are serialized (lane.py:20): at most one of
\* them is between acquire and release.
Serialized ==
    \A r, s \in Request :
        pc[r] = "holding" /\ pc[s] = "holding" /\ KeyOf[r] = KeyOf[s] => r = s

\* Nobody is left behind: when a lock is free and somebody waits for it, a task
\* that will take it or pass the wake-up on is already scheduled.  (The wake-up
\* of release goes to the head of the queue only, and a cancelled head has to
\* hand it to its successor.)
NoLostWakeUp ==
    \A r \in Request :
        pc[r] = "waiting" /\ ~ locked[lock[r]] =>
            \E s \in Request :
                lock[s] = lock[r] /\ pc[s] \in {"woken", "cancelled", "cancelledWoken"}

\* A handler that leaves frees the lock it acquired and no other.
FreesOwnLock ==
    \A r \in Request :
        pc[r] = "holding" /\ pc'[r] = "done" =>
            /\ locked[lock[r]] /\ ~ locked'[lock[r]]
            /\ \A l \in Request : l # lock[r] => locked'[l] = locked[l]

\* release looks the lock up by key and checks no owner: it must still be the
\* caller's own lock that it frees.
ReleasesOwnLock == [][FreesOwnLock]_vars

\* A session that somebody holds or waits for keeps its lock: cleanup_stale
\* removes only what nobody uses.
InUseStaysRegistered ==
    \A r \in Request :
        pc[r] \in Queued \cup {"holding"} => registered[KeyOf[r]] = lock[r]

\* Every request that was accepted gets its lane or leaves the queue because it
\* was cancelled.
EveryRequestServed ==
    \A r \in Request : pc[r] \in Queued ~> pc[r] \in {"holding", "done"}

-----------------------------------------------------------------------------
(* The first-come first-served lanes that the lane queue implements *)

\* s stands before r in queue q.
Earlier(q, s, r) == \E i, j \in 1 .. Len(q) : i < j /\ q[i] = s /\ q[j] = r

\* The waiters that are not being cancelled.
Placed == {r \in Request : pc[r] \in {"waiting", "woken"}}

AheadOf(r) == {s \in Placed : r \in Placed /\ lock[s] = lock[r] /\ Earlier(waiters[lock[r]], s, r)}

ActiveOf(k) ==
    IF \E r \in Request : KeyOf[r] = k /\ pc[r] = "holding"
    THEN CHOOSE r \in Request : KeyOf[r] = k /\ pc[r] = "holding"
    ELSE NoLock

Lanes == INSTANCE FifoLanes WITH
    Nobody <- NoLock,
    waiting <- Placed,
    ahead <- [r \in Request |-> AheadOf(r)],
    active <- [k \in Key |-> ActiveOf(k)]

\* The lane queue implements the first-come first-served lanes of lane.py's
\* module comment ("deterministic message ordering").
ImplementsFifoLanes == Lanes!Spec
=============================================================================
