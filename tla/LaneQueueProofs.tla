--------------------------- MODULE LaneQueueProofs ---------------------------
(***************************************************************************)
(* Proofs about LaneQueue for any set of requests and session keys.        *)
(*                                                                         *)
(* The argument: a lock object that is locked has exactly one holder, a    *)
(* request whose wake-up is under way is the first in a queue of an        *)
(* unlocked lock (so there is at most one), and as long as stale sessions  *)
(* are quiet, everybody of a session uses the one registered lock.         *)
(***************************************************************************)
EXTENDS LaneQueue, TLAPS

-----------------------------------------------------------------------------
(* Facts about waiter queues *)

Members(q) == {q[j] : j \in 1 .. Len(q)}

NoRepeats(q) == \A i, j \in 1 .. Len(q) : q[i] = q[j] => i = j

\* Appending a request that is not in the queue adds it and keeps the head.
LEMMA AppendFacts ==
    ASSUME NEW q \in Seq(Request), NEW r \in Request, r \notin Members(q), NoRepeats(q)
    PROVE  /\ Append(q, r) \in Seq(Request)
           /\ Members(Append(q, r)) = Members(q) \cup {r}
           /\ NoRepeats(Append(q, r))
           /\ q # <<>> => Append(q, r)[1] = q[1]
<1> DEFINE a == Append(q, r)
<1>1. /\ a \in Seq(Request)
      /\ Len(a) = Len(q) + 1
      /\ \A j \in 1 .. Len(q) : a[j] = q[j]
      /\ a[Len(q) + 1] = r
  OBVIOUS
<1>2. Members(a) = Members(q) \cup {r}
  BY <1>1 DEF Members
<1>3. NoRepeats(a)
  BY <1>1 DEF Members, NoRepeats
<1>4. q # <<>> => a[1] = q[1]
  BY <1>1
<1> QED BY <1>1, <1>2, <1>3, <1>4

\* Removing a member of the queue takes out nothing else and keeps the head,
\* unless the head is what is removed.
LEMMA WithoutFacts ==
    ASSUME NEW q \in Seq(Request), NEW r \in Members(q), NoRepeats(q)
    PROVE  /\ Without(q, r) \in Seq(Request)
           /\ Members(Without(q, r)) = Members(q) \ {r}
           /\ NoRepeats(Without(q, r))
           /\ q[1] # r => Without(q, r) # <<>> /\ Without(q, r)[1] = q[1]
<1> DEFINE i == CHOOSE j \in 1 .. Len(q) : q[j] = r
           w == [j \in 1 .. Len(q) - 1 |-> IF j < i THEN q[j] ELSE q[j + 1]]
<1>1. i \in 1 .. Len(q) /\ q[i] = r
  BY DEF Members
<1>2. Without(q, r) = w
  BY DEF Without
<1> HIDE DEF i
<1>3. Len(q) \in Nat /\ Len(q) >= 1
  BY <1>1
<1>4. w \in Seq(Request) /\ Len(w) = Len(q) - 1
  <2>1. Len(q) - 1 \in Nat
    BY <1>3
  <2>2. \A j \in 1 .. Len(q) - 1 : w[j] \in Request
    BY <1>1, <1>3
  <2>3. w \in [1 .. Len(q) - 1 -> Request]
    BY <2>2
  <2> QED BY <2>1, <2>3
<1>5. \A j \in 1 .. Len(w) : w[j] = IF j < i THEN q[j] ELSE q[j + 1]
  BY <1>4
<1>6. NoRepeats(w)
  BY <1>1, <1>3, <1>4, <1>5 DEF NoRepeats
<1>7. Members(w) = Members(q) \ {r}
  <2>1. ASSUME NEW j \in 1 .. Len(w)
        PROVE  w[j] \in Members(q) \ {r}
    <3>1. CASE j < i
      BY <3>1, <1>1, <1>3, <1>4, <1>5 DEF Members, NoRepeats
    <3>2. CASE ~ (j < i)
      <4>1. j + 1 \in 1 .. Len(q) /\ j + 1 # i /\ w[j] = q[j + 1]
        BY <3>2, <1>1, <1>3, <1>4, <1>5
      <4> QED BY <4>1, <1>1 DEF Members, NoRepeats
    <3> QED BY <3>1, <3>2
  <2>2. ASSUME NEW k \in 1 .. Len(q), q[k] # r
        PROVE  q[k] \in Members(w)
    <3>1. CASE k < i
      <4>1. k \in 1 .. Len(w) /\ w[k] = q[k]
        BY <3>1, <1>1, <1>3, <1>4, <1>5
      <4> QED BY <4>1 DEF Members
    <3>2. CASE k > i
      <4>1. k - 1 \in 1 .. Len(w) /\ w[k - 1] = q[k]
        BY <3>2, <1>1, <1>3, <1>4, <1>5
      <4> QED BY <4>1 DEF Members
    <3> QED BY <2>2, <3>1, <3>2, <1>1, <1>3
  <2> HIDE DEF w
  <2> QED BY <2>1, <2>2 DEF Members
<1>8. q[1] # r => w # <<>> /\ w[1] = q[1]
  <2> SUFFICES ASSUME q[1] # r PROVE w # <<>> /\ w[1] = q[1]
    OBVIOUS
  <2>1. i > 1
    BY <1>1
  <2>2. 1 \in 1 .. Len(w)
    BY <2>1, <1>1, <1>3, <1>4
  <2>3. w[1] = q[1]
    BY <2>1, <2>2, <1>5
  <2> HIDE DEF w
  <2>4. w # <<>>
    BY <2>2, <1>4
  <2> QED BY <2>3, <2>4
<1> HIDE DEF w
<1> QED BY <1>2, <1>4, <1>6, <1>7, <1>8

\* A queue with a member has a first one.
LEMMA HeadFacts ==
    ASSUME NEW q \in Seq(Request)
    PROVE  /\ q # <<>> => q[1] \in Members(q)
           /\ \A r \in Members(q) : q # <<>> /\ r \in Request
BY DEF Members

-----------------------------------------------------------------------------
(* Type correctness *)

LEMMA LockForType ==
    ASSUME TypeOK, NEW r \in Request
    PROVE  LockFor(r) \in Request
BY KeyOfAssumption, NoLockAssumption DEF TypeOK, LockFor

LEMMA WakeUpFirstType ==
    ASSUME NEW q \in Seq(Request), NEW p \in [Request -> States]
    PROVE  WakeUpFirst(q, p) \in [Request -> States]
BY DEF WakeUpFirst, States, Queued

LEMMA WithoutType ==
    ASSUME NEW q \in Seq(Request), NEW r
    PROVE  Without(q, r) \in Seq(Request)
<1> DEFINE i == CHOOSE j \in 1 .. Len(q) : q[j] = r
           w == [j \in 1 .. Len(q) - 1 |-> IF j < i THEN q[j] ELSE q[j + 1]]
<1>1. Without(q, r) = w
  BY DEF Without
<1> HIDE DEF i
<1>2. w \in [1 .. Len(q) - 1 -> Request]
  OBVIOUS
<1>3. CASE q = <<>>
  <2>1. w = <<>>
    BY <1>3
  <2> QED BY <1>1, <2>1
<1>4. CASE q # <<>>
  <2>1. Len(q) - 1 \in Nat
    BY <1>4
  <2> HIDE DEF w
  <2>2. w \in Seq(Request)
    BY <1>2, <2>1
  <2> QED BY <1>1, <2>2
<1> QED BY <1>3, <1>4

LEMMA TypeStep ==
    ASSUME TypeOK, [Next]_vars
    PROVE  TypeOK'
<1> USE KeyOfAssumption
<1>1. ASSUME NEW r \in Request, AcquireNow(r)
      PROVE  TypeOK'
  BY <1>1, LockForType DEF AcquireNow, TypeOK, States
<1>2. ASSUME NEW r \in Request, AcquireWait(r)
      PROVE  TypeOK'
  <2>1. LockFor(r) \in Request
    BY LockForType
  <2>2. Append(waiters[LockFor(r)], r) \in Seq(Request)
    BY <2>1 DEF TypeOK
  <2> QED BY <1>2, <2>1, <2>2 DEF AcquireWait, TypeOK, States, Queued
<1>3. ASSUME NEW r \in Request, Resume(r)
      PROVE  TypeOK'
  <2>1. \A q \in Seq(Request) : Without(q, r) \in Seq(Request)
    BY WithoutType
  <2> QED BY <1>3, <2>1 DEF Resume, TypeOK, States, Queued
<1>4. ASSUME NEW r \in Request, Cancel(r)
      PROVE  TypeOK'
  BY <1>4 DEF Cancel, TypeOK, States, Queued
<1>5. ASSUME NEW r \in Request, ResumeCancelled(r)
      PROVE  TypeOK'
  <2> DEFINE q == Without(waiters[lock[r]], r)
             p == [pc EXCEPT ![r] = "done"]
  <2>1. p \in [Request -> States]
    BY DEF TypeOK, States
  <2>2. /\ waiters' = [waiters EXCEPT ![lock[r]] = q]
        /\ pc' = IF locked[lock[r]] THEN p ELSE WakeUpFirst(q, p)
        /\ UNCHANGED <<registered, locked, activity, lock, wasFree>>
    BY <1>5 DEF ResumeCancelled
  <2>3. pc' \in [Request -> States]
    BY <2>1, <2>2 DEF WakeUpFirst, States, Queued
  <2>4. waiters' \in [Request -> Seq(Request)]
    <3>1. \A l \in Request : Without(waiters[l], r) \in Seq(Request)
      BY WithoutType DEF TypeOK
    <3> QED BY <2>2, <3>1 DEF TypeOK
  <2> HIDE DEF q, p
  <2> QED BY <2>2, <2>3, <2>4 DEF TypeOK
<1>6. ASSUME NEW r \in Request, Release(r)
      PROVE  TypeOK'
  <2>1. pc' \in [Request -> States]
    BY <1>6 DEF Release, TypeOK, States, Queued, WakeUpFirst
  <2>2. locked' \in [Request -> BOOLEAN]
    BY <1>6 DEF Release, TypeOK
  <2> QED BY <1>6, <2>1, <2>2 DEF Release, TypeOK
<1>7. ASSUME NEW k \in Key, GrowStale(k)
      PROVE  TypeOK'
  BY <1>7 DEF GrowStale, TypeOK
<1>8. CASE CleanupStale
  BY <1>8 DEF CleanupStale, TypeOK
<1>9. CASE UNCHANGED vars
  BY <1>9 DEF vars, TypeOK
<1> QED BY <1>1, <1>2, <1>3, <1>4, <1>5, <1>6, <1>7, <1>8, <1>9 DEF Next

\* Every variable keeps its type, whatever the requests and cleanup_stale do
\* (gateway/lane.py).
THEOREM TypeCorrect == Spec => []TypeOK
<1>1. Init => TypeOK
  BY DEF Init, TypeOK, States
<1>2. TypeOK /\ [Next]_vars => TypeOK'
  BY TypeStep
<1> QED BY <1>1, <1>2, PTL DEF Spec

-----------------------------------------------------------------------------
(* The inductive invariant *)

\* A lock's queue holds each of its waiting requests once.
QueueInv ==
    /\ \A l \in Request : NoRepeats(waiters[l])
    /\ \A l, r \in Request :
          r \in Members(waiters[l]) <=> pc[r] \in Queued /\ lock[r] = l

\* A request whose wake-up is under way is first in the queue of a free lock.
HeadInv ==
    \A r \in Request : pc[r] \in {"woken", "cancelledWoken"} =>
        ~ locked[lock[r]] /\ waiters[lock[r]][1] = r

\* A lock is locked exactly while one request holds it.
HolderInv ==
    /\ \A r \in Request : pc[r] = "holding" => locked[lock[r]]
    /\ \A r, s \in Request :
          pc[r] = "holding" /\ pc[s] = "holding" /\ lock[r] = lock[s] => r = s
    /\ \A l \in Request : locked[l] =>
          \E r \in Request : pc[r] = "holding" /\ lock[r] = l

\* A request that uses its lane has a lock.
UsesLock == \A r \in Request : pc[r] \in Queued \cup {"holding"} => lock[r] \in Request

\* The lock object of a request that has not begun is nobody's; a registered
\* lock was made for its session.
FreshInv ==
    /\ \A l, r \in Request : pc[l] = "new" => lock[r] # l
    /\ \A k \in Key : registered[k] # NoLock =>
          pc[registered[k]] # "new" /\ KeyOf[registered[k]] = k

\* A stale session is quiet.
StaleInv == \A k \in Key : activity[k] = "stale" => Quiet(k)

IInv ==
    /\ TypeOK
    /\ QueueInv
    /\ HeadInv
    /\ HolderInv
    /\ UsesLock
    /\ FreshInv
    /\ InUseStaysRegistered
    /\ StaleInv
    /\ NoLostWakeUp

-----------------------------------------------------------------------------
(* Each action preserves the invariant *)

LEMMA AcquireNowStep ==
    ASSUME IInv, TypeOK', NEW r \in Request, AcquireNow(r)
    PROVE  IInv'
<1> DEFINE l == LockFor(r)
<1> USE KeyOfAssumption, NoLockAssumption DEF IInv
<1>1. /\ l \in Request
      /\ pc[r] = "new"
      /\ ~ locked[l]
      /\ \A j \in 1 .. Len(waiters[l]) : pc[waiters[l][j]] = "cancelled"
      /\ registered' = [registered EXCEPT ![KeyOf[r]] = l]
      /\ lock' = [lock EXCEPT ![r] = l]
      /\ locked' = [locked EXCEPT ![l] = TRUE]
      /\ activity' = [activity EXCEPT ![KeyOf[r]] = "fresh"]
      /\ pc' = [pc EXCEPT ![r] = "holding"]
      /\ waiters' = waiters
  BY LockForType DEF AcquireNow, FastPath
<1>2. l = r \/ (registered[KeyOf[r]] = l /\ pc[l] # "new")
  BY DEF LockFor, FreshInv, TypeOK
<1>3. KeyOf[l] = KeyOf[r]
  BY <1>1, <1>2 DEF FreshInv, TypeOK
<1>4. \A s \in Request : pc[s] \in Queued \cup {"holding"} /\ KeyOf[s] = KeyOf[r] => lock[s] = l
  BY <1>2 DEF InUseStaysRegistered, LockFor, UsesLock, TypeOK
<1>5. \A m \in Members(waiters[l]) : pc[m] = "cancelled"
  BY <1>1 DEF Members
<1> HIDE DEF l
<1>6. QueueInv'
  BY <1>1 DEF QueueInv, TypeOK, Queued
<1>7. HeadInv'
  <2> SUFFICES ASSUME NEW s \in Request, pc'[s] \in {"woken", "cancelledWoken"}
               PROVE  ~ locked'[lock'[s]] /\ waiters'[lock'[s]][1] = s
    BY DEF HeadInv
  <2>1. s # r /\ pc'[s] = pc[s] /\ lock'[s] = lock[s] /\ lock[s] \in Request
    BY <1>1 DEF TypeOK, UsesLock, Queued
  <2>2. lock[s] # l
    BY <2>1, <1>5 DEF QueueInv, Queued
  <2> QED BY <2>1, <2>2, <1>1 DEF HeadInv, TypeOK
<1>8. HolderInv'
  BY <1>1 DEF HolderInv, UsesLock, TypeOK
<1>9. UsesLock'
  BY <1>1 DEF UsesLock, TypeOK
<1>10. FreshInv'
  BY <1>1, <1>2, <1>3 DEF FreshInv, TypeOK
<1>11. InUseStaysRegistered'
  BY <1>1, <1>4 DEF InUseStaysRegistered, TypeOK
<1>12. StaleInv'
  BY <1>1 DEF StaleInv, Quiet, TypeOK
<1>13. NoLostWakeUp'
  <2> SUFFICES ASSUME NEW s \in Request, pc'[s] = "waiting", ~ locked'[lock'[s]]
               PROVE  \E t \in Request : lock'[t] = lock'[s]
                          /\ pc'[t] \in {"woken", "cancelled", "cancelledWoken"}
    BY DEF NoLostWakeUp
  <2>1. s # r /\ pc[s] = "waiting" /\ lock'[s] = lock[s] /\ lock[s] \in Request
    BY <1>1 DEF TypeOK, UsesLock, Queued
  <2>2. ~ locked[lock[s]]
    BY <2>1, <1>1 DEF TypeOK
  <2>3. PICK t \in Request : lock[t] = lock[s] /\ pc[t] \in {"woken", "cancelled", "cancelledWoken"}
    BY <2>1, <2>2 DEF NoLostWakeUp
  <2>4. t # r
    BY <2>3, <1>1
  <2> QED BY <2>1, <2>3, <2>4, <1>1 DEF TypeOK
<1> QED BY <1>6, <1>7, <1>8, <1>9, <1>10, <1>11, <1>12, <1>13

LEMMA AcquireWaitStep ==
    ASSUME IInv, TypeOK', NEW r \in Request, AcquireWait(r)
    PROVE  IInv'
<1> DEFINE l == LockFor(r)
<1> USE KeyOfAssumption, NoLockAssumption DEF IInv
<1>1. /\ l \in Request
      /\ pc[r] = "new"
      /\ locked[l] \/ \E j \in 1 .. Len(waiters[l]) : pc[waiters[l][j]] # "cancelled"
      /\ registered' = [registered EXCEPT ![KeyOf[r]] = l]
      /\ lock' = [lock EXCEPT ![r] = l]
      /\ waiters' = [waiters EXCEPT ![l] = Append(waiters[l], r)]
      /\ pc' = [pc EXCEPT ![r] = "waiting"]
      /\ locked' = locked
      /\ activity' = activity
  BY LockForType DEF AcquireWait, FastPath
<1>2. l = r \/ (registered[KeyOf[r]] = l /\ pc[l] # "new")
  BY DEF LockFor, FreshInv, TypeOK
<1>3. KeyOf[l] = KeyOf[r]
  BY <1>1, <1>2 DEF FreshInv, TypeOK
<1>4. \A s \in Request : pc[s] \in Queued \cup {"holding"} /\ KeyOf[s] = KeyOf[r] => lock[s] = l
  BY <1>2 DEF InUseStaysRegistered, LockFor, UsesLock, TypeOK
<1>5. waiters[l] \in Seq(Request) /\ NoRepeats(waiters[l]) /\ r \notin Members(waiters[l])
  BY <1>1 DEF QueueInv, TypeOK, Queued
<1>6. /\ Members(Append(waiters[l], r)) = Members(waiters[l]) \cup {r}
      /\ NoRepeats(Append(waiters[l], r))
      /\ waiters[l] # <<>> => Append(waiters[l], r)[1] = waiters[l][1]
  BY <1>5, AppendFacts
<1>7. \E s \in Request : pc[s] \in Queued \cup {"holding"} /\ lock[s] = l
  <2>1. CASE locked[l]
    BY <2>1, <1>1 DEF HolderInv
  <2>2. CASE \E j \in 1 .. Len(waiters[l]) : TRUE
    <3>1. PICK j \in 1 .. Len(waiters[l]) : TRUE
      BY <2>2
    <3>2. waiters[l][j] \in Members(waiters[l]) /\ waiters[l][j] \in Request
      BY <1>5 DEF Members
    <3> QED BY <3>2, <1>1 DEF QueueInv
  <2> QED BY <1>1, <2>1, <2>2
<1> HIDE DEF l
<1>8. QueueInv'
  <2>1. ASSUME NEW m \in Request, NEW s \in Request
        PROVE  /\ NoRepeats(waiters'[m])
               /\ s \in Members(waiters'[m]) <=> pc'[s] \in Queued /\ lock'[s] = m
    <3>1. CASE m = l
      BY <3>1, <1>1, <1>6 DEF QueueInv, TypeOK, Queued
    <3>2. CASE m # l
      BY <3>2, <1>1 DEF QueueInv, TypeOK, Queued
    <3> QED BY <3>1, <3>2
  <2> QED BY <2>1 DEF QueueInv
<1>9. HeadInv'
  <2> SUFFICES ASSUME NEW s \in Request, pc'[s] \in {"woken", "cancelledWoken"}
               PROVE  ~ locked'[lock'[s]] /\ waiters'[lock'[s]][1] = s
    BY DEF HeadInv
  <2>1. s # r /\ pc'[s] = pc[s] /\ lock'[s] = lock[s] /\ lock[s] \in Request
    BY <1>1 DEF TypeOK, UsesLock, Queued
  <2>2. ~ locked[lock[s]] /\ waiters[lock[s]][1] = s
    BY <2>1 DEF HeadInv
  <2>3. lock[s] = l => waiters[l] # <<>>
    BY <2>1, <1>5, HeadFacts DEF QueueInv, Queued
  <2> QED BY <2>1, <2>2, <2>3, <1>1, <1>6 DEF TypeOK
<1>10. HolderInv'
  BY <1>1 DEF HolderInv, UsesLock, TypeOK
<1>11. UsesLock'
  BY <1>1 DEF UsesLock, TypeOK
<1>12. FreshInv'
  BY <1>1, <1>2, <1>3 DEF FreshInv, TypeOK
<1>13. InUseStaysRegistered'
  BY <1>1, <1>4 DEF InUseStaysRegistered, TypeOK
<1>14. StaleInv'
  <2>1. PICK s \in Request : pc[s] \in Queued \cup {"holding"} /\ lock[s] = l
    BY <1>7
  <2>2. KeyOf[s] = KeyOf[l]
    BY <2>1, <1>1 DEF InUseStaysRegistered, FreshInv, TypeOK
  <2>3. activity[KeyOf[r]] # "stale"
    BY <2>1, <2>2, <1>3 DEF StaleInv, Quiet, TypeOK
  <2> QED BY <2>3, <1>1 DEF StaleInv, Quiet, TypeOK
<1>15. NoLostWakeUp'
  <2> SUFFICES ASSUME NEW s \in Request, pc'[s] = "waiting", ~ locked'[lock'[s]]
               PROVE  \E t \in Request : lock'[t] = lock'[s]
                          /\ pc'[t] \in {"woken", "cancelled", "cancelledWoken"}
    BY DEF NoLostWakeUp
  <2>1. CASE s # r
    <3>1. pc[s] = "waiting" /\ lock'[s] = lock[s] /\ ~ locked[lock[s]]
      BY <2>1, <1>1 DEF TypeOK
    <3>2. PICK t \in Request : lock[t] = lock[s] /\ pc[t] \in {"woken", "cancelled", "cancelledWoken"}
      BY <3>1 DEF NoLostWakeUp
    <3> QED BY <3>1, <3>2, <1>1 DEF TypeOK
  <2>2. CASE s = r
    <3>1. lock'[s] = l /\ ~ locked[l]
      BY <2>2, <1>1 DEF TypeOK
    <3>2. PICK u \in Request : pc[u] \in Queued \cup {"holding"} /\ lock[u] = l
      BY <1>7
    <3>3. pc[u] \in Queued
      BY <3>1, <3>2 DEF HolderInv
    <3>4. \E t \in Request : lock[t] = l /\ pc[t] \in {"woken", "cancelled", "cancelledWoken"}
      BY <3>1, <3>2, <3>3 DEF NoLostWakeUp, Queued
    <3> QED BY <3>1, <3>4, <1>1 DEF TypeOK
  <2> QED BY <2>1, <2>2
<1> QED BY <1>8, <1>9, <1>10, <1>11, <1>12, <1>13, <1>14, <1>15

LEMMA ResumeStep ==
    ASSUME IInv, TypeOK', NEW r \in Request, Resume(r)
    PROVE  IInv'
<1> DEFINE l == lock[r]
<1> USE KeyOfAssumption, NoLockAssumption DEF IInv
<1>1. /\ pc[r] = "woken"
      /\ waiters' = [waiters EXCEPT ![l] = Without(waiters[l], r)]
      /\ locked' = [locked EXCEPT ![l] = TRUE]
      /\ activity' = [activity EXCEPT ![KeyOf[r]] = "fresh"]
      /\ pc' = [pc EXCEPT ![r] = "holding"]
      /\ registered' = registered
      /\ lock' = lock
  BY DEF Resume
<1>2. l \in Request /\ ~ locked[l] /\ waiters[l][1] = r
  BY <1>1 DEF UsesLock, HeadInv, Queued
<1> HIDE DEF l
<1>3. l = lock[r]
  BY DEF l
<1>4. waiters[l] \in Seq(Request) /\ NoRepeats(waiters[l]) /\ r \in Members(waiters[l])
  BY <1>1, <1>2, <1>3 DEF QueueInv, TypeOK, Queued
<1>5. /\ Members(Without(waiters[l], r)) = Members(waiters[l]) \ {r}
      /\ NoRepeats(Without(waiters[l], r))
  BY <1>4, WithoutFacts
<1>6. QueueInv'
  <2>1. ASSUME NEW m \in Request, NEW s \in Request
        PROVE  /\ NoRepeats(waiters'[m])
               /\ s \in Members(waiters'[m]) <=> pc'[s] \in Queued /\ lock'[s] = m
    <3>1. CASE m = l
      BY <3>1, <1>1, <1>2, <1>5 DEF QueueInv, TypeOK, Queued
    <3>2. CASE m # l
      BY <3>2, <1>1, <1>2, <1>3 DEF QueueInv, TypeOK, Queued
    <3> QED BY <3>1, <3>2
  <2> QED BY <2>1 DEF QueueInv
<1>7. HeadInv'
  <2> SUFFICES ASSUME NEW s \in Request, pc'[s] \in {"woken", "cancelledWoken"}
               PROVE  ~ locked'[lock'[s]] /\ waiters'[lock'[s]][1] = s
    BY DEF HeadInv
  <2>1. s # r /\ pc[s] = pc'[s] /\ lock[s] \in Request
    BY <1>1 DEF TypeOK, UsesLock, Queued
  <2>2. ~ locked[lock[s]] /\ waiters[lock[s]][1] = s
    BY <2>1 DEF HeadInv
  <2>3. lock[s] # l
    BY <2>1, <2>2, <1>2
  <2> QED BY <2>1, <2>2, <2>3, <1>1, <1>2 DEF TypeOK
<1>8. HolderInv'
  BY <1>1, <1>2, <1>3 DEF HolderInv, UsesLock, TypeOK
<1>9. UsesLock'
  BY <1>1 DEF UsesLock, TypeOK, Queued
<1>10. FreshInv'
  BY <1>1 DEF FreshInv, TypeOK
<1>11. InUseStaysRegistered'
  BY <1>1 DEF InUseStaysRegistered, TypeOK, Queued
<1>12. StaleInv'
  BY <1>1 DEF StaleInv, Quiet, TypeOK
<1>13. NoLostWakeUp'
  <2> SUFFICES ASSUME NEW s \in Request, pc'[s] = "waiting", ~ locked'[lock'[s]]
               PROVE  \E t \in Request : lock'[t] = lock'[s]
                          /\ pc'[t] \in {"woken", "cancelled", "cancelledWoken"}
    BY DEF NoLostWakeUp
  <2>1. pc[s] = "waiting" /\ lock[s] \in Request /\ lock[s] # l /\ ~ locked[lock[s]]
    BY <1>1, <1>2 DEF TypeOK, UsesLock, Queued
  <2>2. PICK t \in Request : lock[t] = lock[s] /\ pc[t] \in {"woken", "cancelled", "cancelledWoken"}
    BY <2>1 DEF NoLostWakeUp
  <2>3. t # r
    BY <2>1, <2>2, <1>3
  <2> QED BY <2>2, <2>3, <1>1 DEF TypeOK
<1> QED BY <1>6, <1>7, <1>8, <1>9, <1>10, <1>11, <1>12, <1>13

LEMMA CancelStep ==
    ASSUME IInv, TypeOK', NEW r \in Request, Cancel(r)
    PROVE  IInv'
<1> USE KeyOfAssumption, NoLockAssumption DEF IInv
<1>1. /\ pc[r] \in {"waiting", "woken"}
      /\ pc' = [pc EXCEPT ![r] = IF pc[r] = "woken" THEN "cancelledWoken" ELSE "cancelled"]
      /\ UNCHANGED <<registered, locked, waiters, activity, lock>>
  BY DEF Cancel
<1>2. QueueInv'
  BY <1>1 DEF QueueInv, TypeOK, Queued
<1>3. HeadInv'
  BY <1>1 DEF HeadInv, TypeOK
<1>4. HolderInv'
  BY <1>1 DEF HolderInv, TypeOK
<1>5. UsesLock'
  BY <1>1 DEF UsesLock, TypeOK, Queued
<1>6. FreshInv'
  BY <1>1 DEF FreshInv, TypeOK
<1>7. InUseStaysRegistered'
  BY <1>1 DEF InUseStaysRegistered, TypeOK, Queued
<1>8. StaleInv'
  BY <1>1 DEF StaleInv, Quiet, TypeOK, Queued
<1>9. NoLostWakeUp'
  BY <1>1 DEF NoLostWakeUp, TypeOK
<1> QED BY <1>2, <1>3, <1>4, <1>5, <1>6, <1>7, <1>8, <1>9

\* _wake_up_first changes at most the state of the queue's first request.
LEMMA WakeUpFirstFacts ==
    ASSUME NEW q, NEW p
    PROVE  \/ WakeUpFirst(q, p) = p /\ (q = <<>> \/ p[q[1]] # "waiting")
           \/ /\ q # <<>> /\ p[q[1]] = "waiting"
              /\ WakeUpFirst(q, p) = [p EXCEPT ![q[1]] = "woken"]
BY DEF WakeUpFirst

LEMMA ResumeCancelledStep ==
    ASSUME IInv, TypeOK', NEW r \in Request, ResumeCancelled(r)
    PROVE  IInv'
<1> DEFINE l == lock[r]
           q == Without(waiters[l], r)
           p == [pc EXCEPT ![r] = "done"]
<1> USE KeyOfAssumption, NoLockAssumption DEF IInv
<1>1. /\ pc[r] \in {"cancelled", "cancelledWoken"}
      /\ waiters' = [waiters EXCEPT ![l] = q]
      /\ pc' = IF locked[l] THEN p ELSE WakeUpFirst(q, p)
      /\ registered' = registered
      /\ locked' = locked
      /\ activity' = activity
      /\ lock' = lock
  BY DEF ResumeCancelled
<1>2. l \in Request
  BY <1>1 DEF UsesLock, Queued
<1>3. waiters[l] \in Seq(Request) /\ NoRepeats(waiters[l]) /\ r \in Members(waiters[l])
  BY <1>1, <1>2 DEF QueueInv, TypeOK, Queued
<1>4. /\ q \in Seq(Request)
      /\ Members(q) = Members(waiters[l]) \ {r}
      /\ NoRepeats(q)
      /\ waiters[l][1] # r => q # <<>> /\ q[1] = waiters[l][1]
  BY <1>3, WithoutFacts
<1>5. \A s \in Request : p[s] = IF s = r THEN "done" ELSE pc[s]
  BY DEF TypeOK
<1>6. l = lock[r]
  OBVIOUS
<1> HIDE DEF l, q, p
\* Either nobody is woken, or the first of the queue is.
<1>7. \/ /\ pc' = p
         /\ locked[l] \/ q = <<>> \/ p[q[1]] # "waiting"
      \/ /\ ~ locked[l] /\ q # <<>> /\ p[q[1]] = "waiting"
         /\ \A s \in Request : pc'[s] = IF s = q[1] THEN "woken" ELSE p[s]
  <2>1. CASE locked[l]
    BY <2>1, <1>1
  <2>2. CASE ~ locked[l]
    <3>1. p \in [Request -> States]
      BY DEF p, TypeOK, States
    <3> QED BY <2>2, <3>1, <1>1, WakeUpFirstFacts
  <2> QED BY <2>1, <2>2
<1>8. q # <<>> => q[1] \in Request /\ q[1] # r /\ pc[q[1]] \in Queued /\ lock[q[1]] = l
  BY <1>2, <1>4, HeadFacts DEF QueueInv
\* Nobody but r leaves a queue, nobody begins to hold.
<1>9. \A s \in Request :
         /\ pc'[s] \in Queued <=> (s # r /\ pc[s] \in Queued)
         /\ pc'[s] = "holding" <=> pc[s] = "holding"
         /\ pc'[s] = "new" <=> pc[s] = "new"
         /\ pc'[s] = "waiting" => pc[s] = "waiting"
  BY <1>1, <1>5, <1>7, <1>8 DEF Queued
<1>10. QueueInv'
  <2>1. ASSUME NEW m \in Request, NEW s \in Request
        PROVE  /\ NoRepeats(waiters'[m])
               /\ s \in Members(waiters'[m]) <=> pc'[s] \in Queued /\ lock'[s] = m
    <3>1. CASE m = l
      <4>1. waiters'[m] = q
        BY <3>1, <1>1, <1>2 DEF TypeOK
      <4> QED BY <3>1, <4>1, <1>1, <1>2, <1>4, <1>9 DEF QueueInv
    <3>2. CASE m # l
      <4>1. waiters'[m] = waiters[m] /\ (s = r => s \notin Members(waiters[m]))
        BY <3>2, <1>1, <1>2, <1>6 DEF QueueInv, TypeOK
      <4> QED BY <4>1, <1>1, <1>9 DEF QueueInv
    <3> QED BY <3>1, <3>2
  <2> QED BY <2>1 DEF QueueInv
<1>11. HeadInv'
  <2> SUFFICES ASSUME NEW s \in Request, pc'[s] \in {"woken", "cancelledWoken"}
               PROVE  ~ locked'[lock'[s]] /\ waiters'[lock'[s]][1] = s
    BY DEF HeadInv
  <2>1. s # r /\ pc[s] \in Queued /\ lock[s] \in Request
    BY <1>9 DEF Queued, UsesLock
  <2>2. CASE pc[s] \in {"woken", "cancelledWoken"}
    <3>1. ~ locked[lock[s]] /\ waiters[lock[s]][1] = s
      BY <2>2 DEF HeadInv
    <3>2. lock[s] = l => q[1] = s
      BY <3>1, <2>1, <1>4
    <3> QED BY <3>1, <3>2, <2>1, <1>1, <1>2 DEF TypeOK
  <2>3. CASE pc[s] \notin {"woken", "cancelledWoken"}
    <3>1. ~ locked[l] /\ q # <<>> /\ s = q[1]
      BY <2>1, <2>3, <1>5, <1>7
    <3> QED BY <3>1, <1>1, <1>2, <1>8 DEF TypeOK
  <2> QED BY <2>2, <2>3
<1>12. HolderInv'
  BY <1>1, <1>9 DEF HolderInv
<1>13. UsesLock'
  BY <1>1, <1>9 DEF UsesLock
<1>14. FreshInv'
  BY <1>1, <1>9 DEF FreshInv, TypeOK
<1>15. InUseStaysRegistered'
  BY <1>1, <1>9 DEF InUseStaysRegistered
<1>16. StaleInv'
  BY <1>1, <1>9 DEF StaleInv, Quiet
<1>17. NoLostWakeUp'
  <2> SUFFICES ASSUME NEW s \in Request, pc'[s] = "waiting", ~ locked'[lock'[s]]
               PROVE  \E t \in Request : lock'[t] = lock'[s]
                          /\ pc'[t] \in {"woken", "cancelled", "cancelledWoken"}
    BY DEF NoLostWakeUp
  <2>1. s # r /\ pc[s] = "waiting" /\ ~ locked[lock[s]] /\ lock[s] \in Request
    BY <1>1, <1>9 DEF Queued, UsesLock
  <2>2. CASE lock[s] = l
    <3>1. s \in Members(q)
      BY <2>1, <2>2, <1>4 DEF QueueInv, Queued
    <3>2. q # <<>>
      BY <3>1, <1>4, HeadFacts
    <3>3. q[1] \in Request /\ lock[q[1]] = l
          /\ pc'[q[1]] \in {"woken", "cancelled", "cancelledWoken"}
      BY <3>2, <2>1, <2>2, <1>5, <1>7, <1>8 DEF Queued
    <3> QED BY <3>3, <2>2, <1>1
  <2>3. CASE lock[s] # l
    <3>1. PICK t \in Request : lock[t] = lock[s] /\ pc[t] \in {"woken", "cancelled", "cancelledWoken"}
      BY <2>1 DEF NoLostWakeUp
    <3>2. t # r
      BY <3>1, <2>3, <1>6
    <3>3. pc'[t] \in {"woken", "cancelled", "cancelledWoken"}
      BY <3>1, <3>2, <1>5, <1>7
    <3> QED BY <3>1, <3>3, <1>1
  <2> QED BY <2>2, <2>3
<1> QED BY <1>10, <1>11, <1>12, <1>13, <1>14, <1>15, <1>16, <1>17

LEMMA ReleaseStep ==
    ASSUME IInv, TypeOK', NEW r \in Request, Release(r)
    PROVE  /\ IInv'
           /\ locked' = [locked EXCEPT ![lock[r]] = FALSE]
           /\ locked[lock[r]]
<1> DEFINE l == lock[r]
           q == waiters[l]
           p == [pc EXCEPT ![r] = "done"]
<1> USE KeyOfAssumption, NoLockAssumption DEF IInv
<1>1. pc[r] = "holding" /\ l \in Request /\ locked[l] /\ registered[KeyOf[r]] = l
  BY DEF Release, UsesLock, HolderInv, InUseStaysRegistered
<1>2. /\ locked' = [locked EXCEPT ![l] = FALSE]
      /\ pc' = WakeUpFirst(q, p)
      /\ registered' = registered
      /\ waiters' = waiters
      /\ activity' = activity
      /\ lock' = lock
  BY <1>1 DEF Release, IsLocked
<1>3. q \in Seq(Request) /\ NoRepeats(q)
  BY <1>1 DEF QueueInv, TypeOK
<1>4. \A s \in Request : p[s] = IF s = r THEN "done" ELSE pc[s]
  BY DEF TypeOK
<1>5. l = lock[r] /\ q = waiters[l]
  OBVIOUS
<1> HIDE DEF l, q, p
<1>6. \/ pc' = p /\ (q = <<>> \/ p[q[1]] # "waiting")
      \/ /\ q # <<>> /\ p[q[1]] = "waiting"
         /\ \A s \in Request : pc'[s] = IF s = q[1] THEN "woken" ELSE p[s]
  <2>1. p \in [Request -> States]
    BY DEF p, TypeOK, States
  <2> QED BY <2>1, <1>2, WakeUpFirstFacts
<1>7. q # <<>> => q[1] \in Request /\ q[1] # r /\ pc[q[1]] \in Queued /\ lock[q[1]] = l
  BY <1>1, <1>3, <1>5, HeadFacts DEF QueueInv, Queued
<1>8. \A s \in Request :
         /\ pc'[s] \in Queued <=> pc[s] \in Queued
         /\ pc'[s] = "holding" <=> (s # r /\ pc[s] = "holding")
         /\ pc'[s] = "new" <=> pc[s] = "new"
         /\ pc'[s] = "waiting" => pc[s] = "waiting"
  BY <1>1, <1>4, <1>6, <1>7 DEF Queued
\* The lock was held, so nobody's wake-up was under way on it.
<1>9. \A s \in Request : lock[s] = l => pc[s] \notin {"woken", "cancelledWoken"}
  BY <1>1 DEF HeadInv
<1>10. QueueInv'
  BY <1>2, <1>8 DEF QueueInv
<1>11. HeadInv'
  <2> SUFFICES ASSUME NEW s \in Request, pc'[s] \in {"woken", "cancelledWoken"}
               PROVE  ~ locked'[lock'[s]] /\ waiters'[lock'[s]][1] = s
    BY DEF HeadInv
  <2>1. lock[s] \in Request
    BY <1>8 DEF Queued, UsesLock
  <2>2. CASE pc[s] \in {"woken", "cancelledWoken"}
    <3>1. ~ locked[lock[s]] /\ waiters[lock[s]][1] = s
      BY <2>2 DEF HeadInv
    <3> QED BY <3>1, <2>1, <1>1, <1>2 DEF TypeOK
  <2>3. CASE pc[s] \notin {"woken", "cancelledWoken"}
    <3>1. q # <<>> /\ s = q[1]
      BY <2>3, <1>4, <1>6
    <3> QED BY <3>1, <1>1, <1>2, <1>5, <1>7 DEF TypeOK
  <2> QED BY <2>2, <2>3
<1>12. HolderInv'
  BY <1>1, <1>2, <1>5, <1>8 DEF HolderInv, UsesLock, TypeOK
<1>13. UsesLock'
  BY <1>2, <1>8 DEF UsesLock
<1>14. FreshInv'
  BY <1>2, <1>8 DEF FreshInv, TypeOK
<1>15. InUseStaysRegistered'
  BY <1>2, <1>8 DEF InUseStaysRegistered
<1>16. StaleInv'
  BY <1>2, <1>8 DEF StaleInv, Quiet
<1>17. NoLostWakeUp'
  <2> SUFFICES ASSUME NEW s \in Request, pc'[s] = "waiting", ~ locked'[lock'[s]]
               PROVE  \E t \in Request : lock'[t] = lock'[s]
                          /\ pc'[t] \in {"woken", "cancelled", "cancelledWoken"}
    BY DEF NoLostWakeUp
  <2>1. pc[s] = "waiting" /\ lock[s] \in Request
    BY <1>8 DEF Queued, UsesLock
  <2>2. CASE lock[s] = l
    <3>1. s \in Members(q)
      BY <2>1, <2>2, <1>1, <1>5 DEF QueueInv, Queued
    <3>2. q # <<>>
      BY <3>1, <1>3, HeadFacts
    <3>3. q[1] \in Request /\ lock[q[1]] = l
          /\ pc'[q[1]] \in {"woken", "cancelled", "cancelledWoken"}
      BY <3>2, <1>4, <1>6, <1>7 DEF Queued
    <3> QED BY <3>3, <2>2, <1>2
  <2>3. CASE lock[s] # l
    <3>1. ~ locked[lock[s]]
      BY <2>1, <2>3, <1>1, <1>2 DEF TypeOK
    <3>2. PICK t \in Request : lock[t] = lock[s] /\ pc[t] \in {"woken", "cancelled", "cancelledWoken"}
      BY <2>1, <3>1 DEF NoLostWakeUp
    <3>3. pc'[t] \in {"woken", "cancelled", "cancelledWoken"}
      BY <3>2, <1>1, <1>4, <1>6
    <3> QED BY <3>2, <3>3, <1>2
  <2> QED BY <2>2, <2>3
<1> QED BY <1>1, <1>2, <1>5, <1>10, <1>11, <1>12, <1>13, <1>14, <1>15, <1>16, <1>17

\* The only step that needs the assumption about the hold times.
LEMMA GrowStaleStep ==
    ASSUME QuietStale, IInv, TypeOK', NEW k \in Key, GrowStale(k)
    PROVE  IInv'
<1>1. /\ activity' = [activity EXCEPT ![k] = "stale"]
      /\ Quiet(k)
      /\ UNCHANGED <<registered, locked, waiters, pc, lock>>
  BY DEF GrowStale
<1> QED BY <1>1 DEF IInv, TypeOK, QueueInv, HeadInv, HolderInv, UsesLock, FreshInv,
                    InUseStaysRegistered, StaleInv, NoLostWakeUp, Quiet

LEMMA CleanupStaleStep ==
    ASSUME IInv, TypeOK', CleanupStale
    PROVE  IInv'
<1> USE KeyOfAssumption, NoLockAssumption DEF IInv
<1>1. /\ \A k \in Key : registered'[k] = IF k \in StaleKeys THEN NoLock ELSE registered[k]
      /\ \A k \in Key : activity'[k] = IF k \in StaleKeys THEN "none" ELSE activity[k]
      /\ UNCHANGED <<locked, waiters, pc, lock>>
  BY DEF CleanupStale
<1>2. \A k \in StaleKeys : Quiet(k)
  BY DEF StaleKeys, StaleInv
<1>3. FreshInv'
  BY <1>1 DEF FreshInv, TypeOK
<1>4. InUseStaysRegistered'
  BY <1>1, <1>2 DEF InUseStaysRegistered, Quiet
<1>5. StaleInv'
  BY <1>1 DEF StaleInv, Quiet
<1> QED BY <1>1, <1>3, <1>4, <1>5 DEF QueueInv, HeadInv, HolderInv, UsesLock, NoLostWakeUp

-----------------------------------------------------------------------------
(* The theorems *)

LEMMA InitIInv == Init => IInv
<1> SUFFICES ASSUME Init PROVE IInv
  OBVIOUS
<1>1. TypeOK
  BY DEF Init, TypeOK, States
<1> QED BY <1>1, NoLockAssumption DEF Init, IInv, QueueInv, HeadInv, HolderInv, UsesLock,
           FreshInv, InUseStaysRegistered, StaleInv, NoLostWakeUp, NoRepeats, Members, Queued

LEMMA IInvStep ==
    ASSUME QuietStale, IInv, [Next]_vars
    PROVE  IInv'
<1>1. TypeOK'
  BY TypeStep DEF IInv
<1>2. CASE UNCHANGED vars
  BY <1>2 DEF vars, IInv, TypeOK, QueueInv, HeadInv, HolderInv, UsesLock, FreshInv,
              InUseStaysRegistered, StaleInv, NoLostWakeUp, Quiet
<1> QED BY <1>1, <1>2, AcquireNowStep, AcquireWaitStep, ResumeStep, CancelStep,
           ResumeCancelledStep, ReleaseStep, GrowStaleStep, CleanupStaleStep DEF Next

\* The invariant holds as long as nobody holds or hands over a lane for longer
\* than max_age_seconds.
THEOREM InvariantHolds == ASSUME QuietStale PROVE Spec => []IInv
<1>1. Init => IInv
  BY InitIInv
<1>2. IInv /\ [Next]_vars => IInv'
  BY IInvStep
<1> QED BY <1>1, <1>2, PTL DEF Spec

\* Requests of one session never run at the same time (lane.py:20): for every
\* number of requests and sessions, cancellations and clean-ups included.
THEOREM SerializedHolds == ASSUME QuietStale PROVE Spec => []Serialized
<1>1. IInv => Serialized
  BY DEF IInv, Serialized, InUseStaysRegistered, HolderInv
<1> QED BY <1>1, InvariantHolds, PTL

\* cleanup_stale never takes the lock of a session that is in use.
THEOREM InUseStaysRegisteredHolds == ASSUME QuietStale PROVE Spec => []InUseStaysRegistered
<1>1. IInv => InUseStaysRegistered
  BY DEF IInv
<1> QED BY <1>1, InvariantHolds, PTL

\* A free lock with waiters always has a task under way that will take it or
\* wake the next one.
THEOREM NoLostWakeUpHolds == ASSUME QuietStale PROVE Spec => []NoLostWakeUp
<1>1. IInv => NoLostWakeUp
  BY DEF IInv
<1> QED BY <1>1, InvariantHolds, PTL

\* A handler that leaves frees its own lock and no other, although release
\* looks the lock up by session key and checks no owner.
THEOREM ReleasesOwnLockHolds == ASSUME QuietStale PROVE Spec => ReleasesOwnLock
<1>1. IInv /\ [Next]_vars => [FreesOwnLock]_vars
  <2> SUFFICES ASSUME IInv, Next, NEW r \in Request, pc[r] = "holding", pc'[r] = "done"
               PROVE  /\ locked[lock[r]] /\ ~ locked'[lock[r]]
                      /\ \A l \in Request : l # lock[r] => locked'[l] = locked[l]
    BY DEF FreesOwnLock
  <2>1. TypeOK /\ TypeOK' /\ lock[r] \in Request
    BY TypeStep DEF IInv, UsesLock
  <2>2. CASE Release(r)
    BY <2>1, <2>2, ReleaseStep DEF TypeOK
  <2>3. ASSUME NEW s \in Request, s # r,
               AcquireNow(s) \/ AcquireWait(s) \/ Resume(s) \/ Cancel(s)
                   \/ ResumeCancelled(s) \/ Release(s)
        PROVE  FALSE
    BY <2>1, <2>3 DEF AcquireNow, AcquireWait, Resume, Cancel, ResumeCancelled, Release,
                      TypeOK, WakeUpFirst
  <2>4. CASE AcquireNow(r) \/ AcquireWait(r) \/ Resume(r) \/ Cancel(r) \/ ResumeCancelled(r)
    BY <2>4 DEF AcquireNow, AcquireWait, Resume, Cancel, ResumeCancelled
  <2>5. CASE CleanupStale \/ \E k \in Key : GrowStale(k)
    BY <2>5 DEF CleanupStale, GrowStale
  <2> QED BY <2>2, <2>3, <2>4, <2>5 DEF Next
<1> QED BY <1>1, InvariantHolds, PTL DEF ReleasesOwnLock, Spec

-----------------------------------------------------------------------------
(* The lane queue implements FifoLanes *)

ahead == [r \in Request |-> AheadOf(r)]
active == [k \in Key |-> ActiveOf(k)]

\* ActiveOf names the holder of a session, or nobody if there is none.
LEMMA ActiveIs ==
    ASSUME Serialized, NEW k \in Key
    PROVE  /\ \A r \in Request : KeyOf[r] = k /\ pc[r] = "holding" => ActiveOf(k) = r
           /\ (\A r \in Request : KeyOf[r] = k => pc[r] # "holding") => ActiveOf(k) = NoLock
BY Zenon DEF Serialized, ActiveOf

LEMMA ActiveIsNext ==
    ASSUME Serialized', NEW k \in Key
    PROVE  /\ \A r \in Request : KeyOf[r] = k /\ pc'[r] = "holding" => ActiveOf(k)' = r
           /\ (\A r \in Request : KeyOf[r] = k => pc'[r] # "holding") => ActiveOf(k)' = NoLock
BY Zenon DEF Serialized, ActiveOf

\* A step that no request takes or leaves a lane in keeps all active requests.
LEMMA ActiveKept ==
    ASSUME Serialized, Serialized',
           \A s \in Request : pc'[s] = "holding" <=> pc[s] = "holding"
    PROVE  active' = active
<1>1. ASSUME NEW k \in Key PROVE ActiveOf(k)' = ActiveOf(k)
  BY ActiveIs, ActiveIsNext
<1> QED BY <1>1 DEF active

\* A request takes the lane of its session, which nobody held.
LEMMA ActiveTaken ==
    ASSUME Serialized, Serialized', NEW r \in Request, pc'[r] = "holding",
           \A s \in Request : KeyOf[s] = KeyOf[r] => pc[s] # "holding",
           \A s \in Request \ {r} : pc'[s] = "holding" <=> pc[s] = "holding"
    PROVE  active[KeyOf[r]] = NoLock /\ active' = [active EXCEPT ![KeyOf[r]] = r]
<1>1. KeyOf[r] \in Key
  BY KeyOfAssumption
<1>2. ActiveOf(KeyOf[r]) = NoLock /\ ActiveOf(KeyOf[r])' = r
  BY <1>1, ActiveIs, ActiveIsNext
<1>3. ASSUME NEW k \in Key, k # KeyOf[r] PROVE ActiveOf(k)' = ActiveOf(k)
  BY <1>3, ActiveIs, ActiveIsNext
<1> QED BY <1>1, <1>2, <1>3 DEF active

\* A request gives its lane up.
LEMMA ActiveFreed ==
    ASSUME Serialized, Serialized', NEW r \in Request, pc[r] = "holding", pc'[r] # "holding",
           \A s \in Request \ {r} : pc'[s] = "holding" <=> pc[s] = "holding"
    PROVE  active[KeyOf[r]] = r /\ active' = [active EXCEPT ![KeyOf[r]] = NoLock]
<1>1. KeyOf[r] \in Key
  BY KeyOfAssumption
<1>2. \A s \in Request : KeyOf[s] = KeyOf[r] => pc'[s] # "holding"
  BY DEF Serialized
<1>3. ActiveOf(KeyOf[r]) = r /\ ActiveOf(KeyOf[r])' = NoLock
  BY <1>1, <1>2, ActiveIs, ActiveIsNext
<1>4. ASSUME NEW k \in Key, k # KeyOf[r] PROVE ActiveOf(k)' = ActiveOf(k)
  BY <1>4, ActiveIs, ActiveIsNext
<1> QED BY <1>1, <1>3, <1>4 DEF active

\* Appending puts a request behind all that are in the queue and changes no other order.
LEMMA AppendOrder ==
    ASSUME NEW q \in Seq(Request), NEW r \in Request, r \notin Members(q)
    PROVE  /\ \A s : Earlier(Append(q, r), s, r) <=> s \in Members(q)
           /\ \A s, t : t # r => (Earlier(Append(q, r), s, t) <=> Earlier(q, s, t))
<1> DEFINE a == Append(q, r)
<1>1. /\ Len(a) = Len(q) + 1 /\ Len(q) \in Nat
      /\ \A j \in 1 .. Len(q) : a[j] = q[j]
      /\ a[Len(q) + 1] = r
  OBVIOUS
<1> HIDE DEF a
<1>2. ASSUME NEW s PROVE Earlier(a, s, r) <=> s \in Members(q)
  BY <1>1 DEF Earlier, Members
<1>3. ASSUME NEW s, NEW t, t # r PROVE Earlier(a, s, t) <=> Earlier(q, s, t)
  BY <1>1, <1>3 DEF Earlier, Members
<1> QED BY <1>2, <1>3 DEF a

\* Removing a request changes no order among the others.
LEMMA WithoutOrder ==
    ASSUME NEW q \in Seq(Request), NEW r \in Members(q), NoRepeats(q)
    PROVE  \A s, t : s # r /\ t # r => (Earlier(Without(q, r), s, t) <=> Earlier(q, s, t))
<1> DEFINE i == CHOOSE j \in 1 .. Len(q) : q[j] = r
           w == [j \in 1 .. Len(q) - 1 |-> IF j < i THEN q[j] ELSE q[j + 1]]
<1>1. i \in 1 .. Len(q) /\ q[i] = r
  BY DEF Members
<1>2. Without(q, r) = w
  BY DEF Without
<1> HIDE DEF i
<1>3. Len(q) \in Nat /\ Len(q) >= 1
  BY <1>1
<1>4. Len(w) = Len(q) - 1
  <2>1. Len(q) - 1 \in Nat
    BY <1>3
  <2>2. w \in [1 .. Len(q) - 1 -> Request]
    BY <1>1, <1>3
  <2>3. w \in Seq(Request) /\ Len(w) = Len(q) - 1
    BY <2>1, <2>2
  <2> QED BY <2>3
<1>5. \A j \in 1 .. Len(w) : w[j] = IF j < i THEN q[j] ELSE q[j + 1]
  BY <1>4
<1> HIDE DEF w
<1> SUFFICES ASSUME NEW s, NEW t, s # r, t # r
             PROVE  Earlier(w, s, t) <=> Earlier(q, s, t)
  BY <1>2
<1>6. ASSUME Earlier(w, s, t) PROVE Earlier(q, s, t)
  <2>1. PICK m, n \in 1 .. Len(w) : m < n /\ w[m] = s /\ w[n] = t
    BY <1>6 DEF Earlier
  <2> DEFINE up(j) == IF j < i THEN j ELSE j + 1
  <2>2. up(m) \in 1 .. Len(q) /\ up(n) \in 1 .. Len(q) /\ up(m) < up(n)
    BY <2>1, <1>1, <1>3, <1>4
  <2>3. q[up(m)] = s /\ q[up(n)] = t
    BY <2>1, <1>5
  <2> HIDE DEF up
  <2> QED BY <2>2, <2>3 DEF Earlier
<1>7. ASSUME Earlier(q, s, t) PROVE Earlier(w, s, t)
  <2>1. PICK m, n \in 1 .. Len(q) : m < n /\ q[m] = s /\ q[n] = t
    BY <1>7 DEF Earlier
  <2> DEFINE down(j) == IF j < i THEN j ELSE j - 1
  <2>2. m # i /\ n # i
    BY <2>1, <1>1
  <2>3. down(m) \in 1 .. Len(w) /\ down(n) \in 1 .. Len(w) /\ down(m) < down(n)
    BY <2>1, <2>2, <1>1, <1>3, <1>4
  <2>4. ASSUME NEW j \in 1 .. Len(q), j # i, down(j) \in 1 .. Len(w)
        PROVE  w[down(j)] = q[j]
    <3>1. CASE j < i
      BY <2>4, <3>1, <1>5
    <3>2. CASE j > i
      <4>1. j - 1 \in 1 .. Len(w) /\ ~ (j - 1 < i) /\ (j - 1) + 1 = j
        BY <2>4, <3>2, <1>1, <1>3
      <4> QED BY <3>2, <4>1, <1>5, <1>1
    <3> QED BY <2>4, <3>1, <3>2, <1>1, <1>3
  <2>5. w[down(m)] = q[m] /\ w[down(n)] = q[n]
    BY <2>2, <2>3, <2>4
  <2> HIDE DEF down
  <2> QED BY <2>1, <2>3, <2>5 DEF Earlier
<1> QED BY <1>6, <1>7

\* The first of a queue has nobody before it.
LEMMA HeadOrder ==
    ASSUME NEW q \in Seq(Request), NoRepeats(q), q # <<>>
    PROVE  \A s : ~ Earlier(q, s, q[1])
BY DEF Earlier, NoRepeats

\* All requests that use the lane of a session have the one lock.
LEMMA OneLock ==
    ASSUME IInv, NEW r \in Request, NEW s \in Request, KeyOf[r] = KeyOf[s],
           pc[r] \in Queued \cup {"holding"}, pc[s] \in Queued \cup {"holding"}
    PROVE  lock[r] = lock[s]
BY DEF IInv, InUseStaysRegistered

LEMMA SerializedStep ==
    ASSUME QuietStale, IInv, [Next]_vars
    PROVE  TypeOK /\ TypeOK' /\ IInv' /\ Serialized /\ Serialized'
<1>1. IInv'
  BY IInvStep
<1> QED BY <1>1 DEF IInv, Serialized, InUseStaysRegistered, HolderInv

\* The users of the lock a new request gets are the users of its lane.
LEMMA LaneOfNewcomer ==
    ASSUME IInv, NEW r \in Request, pc[r] = "new"
    PROVE  /\ LockFor(r) \in Request
           /\ \A s \in Request : pc[s] \in Queued \cup {"holding"} =>
                  (KeyOf[s] = KeyOf[r] <=> lock[s] = LockFor(r))
<1> USE KeyOfAssumption, NoLockAssumption DEF IInv
<1>1. LockFor(r) \in Request
  BY LockForType
<1>2. LockFor(r) = r \/ (registered[KeyOf[r]] = LockFor(r) /\ pc[LockFor(r)] # "new")
  BY DEF LockFor, FreshInv, TypeOK
<1>3. KeyOf[LockFor(r)] = KeyOf[r]
  BY <1>1, <1>2 DEF FreshInv, TypeOK
<1>4. ASSUME NEW s \in Request, pc[s] \in Queued \cup {"holding"}
      PROVE  KeyOf[s] = KeyOf[r] <=> lock[s] = LockFor(r)
  <2>1. registered[KeyOf[s]] = lock[s] /\ lock[s] \in Request /\ KeyOf[s] \in Key
    BY <1>4 DEF InUseStaysRegistered, UsesLock
  <2>2. KeyOf[s] = KeyOf[r] => lock[s] = LockFor(r)
    BY <2>1 DEF LockFor
  <2>3. KeyOf[lock[s]] = KeyOf[s]
    BY <2>1 DEF FreshInv
  <2> QED BY <2>2, <2>3, <1>3
<1> QED BY <1>1, <1>4

\* acquire on a free lock starts a request that has nobody before it.
LEMMA AcquireNowStarts ==
    ASSUME QuietStale, IInv, [Next]_vars, NEW r \in Request, AcquireNow(r)
    PROVE  Lanes!StartAtOnce(r)
<1> DEFINE l == LockFor(r)
<1> USE DEF IInv
<1>1. TypeOK /\ Serialized /\ Serialized'
  BY SerializedStep
<1>2. /\ pc[r] = "new" /\ ~ locked[l]
      /\ \A j \in 1 .. Len(waiters[l]) : pc[waiters[l][j]] = "cancelled"
      /\ lock' = [lock EXCEPT ![r] = l]
      /\ pc' = [pc EXCEPT ![r] = "holding"]
      /\ waiters' = waiters
  BY DEF AcquireNow, FastPath
<1>3. /\ l \in Request
      /\ \A s \in Request : pc[s] \in Queued \cup {"holding"} => (KeyOf[s] = KeyOf[r] <=> lock[s] = l)
  BY <1>2, LaneOfNewcomer
<1> HIDE DEF l
<1>4. {s \in Placed : KeyOf[s] = KeyOf[r]} = {}
  BY <1>2, <1>3 DEF QueueInv, Members, Placed, Queued
<1>5. \A s \in Request : KeyOf[s] = KeyOf[r] => pc[s] # "holding"
  BY <1>2, <1>3 DEF HolderInv
<1>6. active[KeyOf[r]] = NoLock /\ active' = [active EXCEPT ![KeyOf[r]] = r]
  <2>1. pc'[r] = "holding" /\ \A s \in Request \ {r} : pc'[s] = "holding" <=> pc[s] = "holding"
    BY <1>2 DEF TypeOK
  <2> QED BY <1>1, <1>5, <2>1, ActiveTaken
<1>7. Placed' = Placed
  BY <1>2 DEF Placed, TypeOK
<1>8. ahead' = ahead
  <2>1. \A s \in Placed : lock'[s] = lock[s]
    BY <1>2 DEF Placed, TypeOK
  <2>2. \A t \in Request : AheadOf(t)' = AheadOf(t)
    BY <1>2, <1>7, <2>1 DEF AheadOf
  <2> QED BY <2>2 DEF ahead
<1> QED BY <1>4, <1>6, <1>7, <1>8 DEF Lanes!StartAtOnce, Lanes!Line, ahead, active

\* acquire on a lock in use puts a request behind all that wait for its lane.
LEMMA AcquireWaitArrives ==
    ASSUME QuietStale, IInv, [Next]_vars, NEW r \in Request, AcquireWait(r)
    PROVE  Lanes!Arrive(r)
<1> DEFINE l == LockFor(r)
<1> USE DEF IInv
<1>1. TypeOK /\ Serialized /\ Serialized'
  BY SerializedStep
<1>2. /\ pc[r] = "new"
      /\ lock' = [lock EXCEPT ![r] = l]
      /\ waiters' = [waiters EXCEPT ![l] = Append(@, r)]
      /\ pc' = [pc EXCEPT ![r] = "waiting"]
  BY DEF AcquireWait
<1>3. /\ l \in Request
      /\ \A s \in Request : pc[s] \in Queued \cup {"holding"} => (KeyOf[s] = KeyOf[r] <=> lock[s] = l)
  BY <1>2, LaneOfNewcomer
<1> DEFINE q == waiters[l]
<1>4. q \in Seq(Request) /\ r \notin Members(q) /\ NoRepeats(q)
  BY <1>2, <1>3 DEF QueueInv, TypeOK, Queued
<1>5. /\ waiters'[l] = Append(q, r)
      /\ \A m \in Request \ {l} : waiters'[m] = waiters[m]
      /\ \A s \in Request \ {r} : lock'[s] = lock[s]
      /\ lock'[r] = l
  BY <1>2, <1>3 DEF TypeOK
<1>6. /\ \A s : Earlier(Append(q, r), s, r) <=> s \in Members(q)
      /\ \A s, t : t # r => (Earlier(Append(q, r), s, t) <=> Earlier(q, s, t))
  BY <1>4, AppendOrder
<1>7. \A s \in Request : s \in Members(q) <=> pc[s] \in Queued /\ lock[s] = l
  BY <1>3 DEF QueueInv
<1>8. \A s, t : Earlier(q, s, t) => s \in Members(q)
  BY DEF Earlier, Members
<1> HIDE DEF l, q
<1>9. r \notin Placed /\ Placed' = Placed \cup {r}
  BY <1>2 DEF Placed, TypeOK
<1>10. AheadOf(r)' = {s \in Placed : KeyOf[s] = KeyOf[r]}
  <2>1. AheadOf(r)' = {s \in Placed' : lock'[s] = l /\ s \in Members(q)}
    BY <1>5, <1>6, <1>9 DEF AheadOf
  <2>2. \A s \in Placed : s \in Request /\ s # r /\ pc[s] \in Queued
    BY <1>9 DEF Placed, Queued
  <2>3. ASSUME NEW s \in Placed'
        PROVE  lock'[s] = l /\ s \in Members(q) <=> s \in Placed /\ KeyOf[s] = KeyOf[r]
    BY <2>2, <1>3, <1>4, <1>5, <1>7, <1>9
  <2> QED BY <2>1, <2>3, <1>9
<1>11. ASSUME NEW t \in Request, t # r PROVE AheadOf(t)' = AheadOf(t)
  <2>1. CASE t \notin Placed
    BY <2>1, <1>11, <1>9 DEF AheadOf
  <2>2. CASE t \in Placed
    <3>1. lock'[t] = lock[t] /\ lock[t] \in Request
      BY <2>2, <1>5, <1>11 DEF Placed, UsesLock, Queued
    <3>2. \A s : Earlier(waiters'[lock[t]], s, t) <=> Earlier(waiters[lock[t]], s, t)
      BY <3>1, <1>5, <1>6, <1>11 DEF q
    <3>3. lock[t] = l => ~ Earlier(waiters[lock[t]], r, t)
      BY <1>4, <1>8 DEF q
    <3>4. \A s \in Placed : lock'[s] = lock[s]
      BY <1>5, <1>9 DEF Placed
    <3>5. ASSUME NEW s
          PROVE  s \in AheadOf(t)' <=> s \in AheadOf(t)
      BY <2>2, <3>1, <3>2, <3>3, <3>4, <1>5, <1>9 DEF AheadOf
    <3> QED BY <3>5 DEF AheadOf
  <2> QED BY <2>1, <2>2
<1>12. ahead' = [ahead EXCEPT ![r] = {s \in Placed : KeyOf[s] = KeyOf[r]}]
  BY <1>10, <1>11 DEF ahead
<1>13. active' = active
  <2>1. \A s \in Request : pc'[s] = "holding" <=> pc[s] = "holding"
    BY <1>2 DEF TypeOK
  <2> QED BY <1>1, <2>1, ActiveKept
<1>14. active[KeyOf[r]] # r
  <2>1. KeyOf[r] \in Key
    BY KeyOfAssumption
  <2>2. ActiveOf(KeyOf[r]) = NoLock \/ pc[ActiveOf(KeyOf[r])] = "holding"
    BY <2>1, <1>1, ActiveIs
  <2> QED BY <2>1, <2>2, <1>2, NoLockAssumption DEF active
<1> QED BY <1>9, <1>12, <1>13, <1>14 DEF Lanes!Arrive, Lanes!Line, ahead, active

\* A request that leaves its queue changes no order among those who stay.
LEMMA OrderKept ==
    ASSUME IInv, NEW r \in Request, pc[r] \in Queued, lock' = lock,
           waiters' = [waiters EXCEPT ![lock[r]] = Without(@, r)]
    PROVE  \A s, t \in Placed \ {r} :
               Earlier(waiters'[lock'[t]], s, t) <=> Earlier(waiters[lock[t]], s, t)
<1> USE DEF IInv
<1> DEFINE q == waiters[lock[r]]
<1>1. lock[r] \in Request /\ q \in Seq(Request) /\ r \in Members(q) /\ NoRepeats(q)
  BY DEF QueueInv, UsesLock, TypeOK
<1>2. \A s, t : s # r /\ t # r => (Earlier(Without(q, r), s, t) <=> Earlier(q, s, t))
  BY <1>1, WithoutOrder
<1>3. waiters'[lock[r]] = Without(q, r) /\ \A l \in Request \ {lock[r]} : waiters'[l] = waiters[l]
  BY <1>1 DEF TypeOK
<1> HIDE DEF q
<1>4. ASSUME NEW s \in Placed \ {r}, NEW t \in Placed \ {r}
      PROVE  Earlier(waiters'[lock'[t]], s, t) <=> Earlier(waiters[lock[t]], s, t)
  <2>1. lock[t] \in Request
    BY DEF Placed, UsesLock, Queued
  <2> QED BY <2>1, <1>2, <1>3 DEF q
<1> QED BY <1>4

\* A request that no longer waits is before nobody.
LEMMA PlaceGivenUp ==
    ASSUME NEW r \in Request, Placed' = Placed \ {r}, lock' = lock,
           \A s, t \in Placed \ {r} :
               Earlier(waiters'[lock'[t]], s, t) <=> Earlier(waiters[lock[t]], s, t)
    PROVE  ahead' = [t \in Request |-> IF t = r THEN {} ELSE ahead[t] \ {r}]
<1>1. AheadOf(r)' = {}
  BY DEF AheadOf
<1>2. ASSUME NEW t \in Request, t # r PROVE AheadOf(t)' = AheadOf(t) \ {r}
  BY <1>2 DEF AheadOf
<1> QED BY <1>1, <1>2 DEF ahead

\* Who keeps waiting in the same order keeps those who are before it.
LEMMA PlacesKept ==
    ASSUME Placed' = Placed, lock' = lock,
           \A s, t \in Placed :
               Earlier(waiters'[lock'[t]], s, t) <=> Earlier(waiters[lock[t]], s, t)
    PROVE  ahead' = ahead
<1>1. ASSUME NEW t \in Request PROVE AheadOf(t)' = AheadOf(t)
  BY DEF AheadOf
<1> QED BY <1>1 DEF ahead

\* Waking the head of a queue up changes neither who waits nor who holds.
LEMMA WakeUpKeeps ==
    ASSUME NEW q \in Seq(Request), NEW p \in [Request -> States], NEW s \in Request
    PROVE  /\ WakeUpFirst(q, p)[s] \in {"waiting", "woken"} <=> p[s] \in {"waiting", "woken"}
           /\ WakeUpFirst(q, p)[s] = "holding" <=> p[s] = "holding"
BY DEF WakeUpFirst

\* The woken waiter is the first of its lane, and its lane is free.
LEMMA ResumeStarts ==
    ASSUME QuietStale, IInv, [Next]_vars, NEW r \in Request, Resume(r)
    PROVE  Lanes!Start(r)
<1> USE DEF IInv
<1>1. TypeOK /\ Serialized /\ Serialized'
  BY SerializedStep
<1>2. /\ pc[r] = "woken"
      /\ waiters' = [waiters EXCEPT ![lock[r]] = Without(@, r)]
      /\ pc' = [pc EXCEPT ![r] = "holding"]
      /\ lock' = lock
  BY DEF Resume
<1>3. r \in Placed /\ Placed' = Placed \ {r}
  BY <1>2 DEF Placed, TypeOK
<1>4. ahead' = [t \in Request |-> IF t = r THEN {} ELSE ahead[t] \ {r}]
  <2>1. pc[r] \in Queued
    BY <1>2 DEF Queued
  <2> QED BY <2>1, <1>2, <1>3, OrderKept, PlaceGivenUp
<1>5. ahead[r] = {}
  <2>1. /\ lock[r] \in Request /\ waiters[lock[r]] \in Seq(Request)
        /\ NoRepeats(waiters[lock[r]]) /\ waiters[lock[r]] # <<>>
        /\ waiters[lock[r]][1] = r
    BY <1>2 DEF HeadInv, QueueInv, UsesLock, Queued, TypeOK, Members
  <2>2. \A s : ~ Earlier(waiters[lock[r]], s, r)
    BY <2>1, HeadOrder
  <2> QED BY <2>2 DEF ahead, AheadOf
<1>6. \A s \in Request : KeyOf[s] = KeyOf[r] => pc[s] # "holding"
  BY <1>2, OneLock DEF HeadInv, HolderInv, Queued
<1>7. active[KeyOf[r]] = NoLock /\ active' = [active EXCEPT ![KeyOf[r]] = r]
  <2>1. pc'[r] = "holding" /\ \A s \in Request \ {r} : pc'[s] = "holding" <=> pc[s] = "holding"
    BY <1>2 DEF TypeOK
  <2> QED BY <1>1, <1>6, <2>1, ActiveTaken
<1> QED BY <1>3, <1>4, <1>5, <1>7 DEF Lanes!Start, Lanes!GiveUpPlace, ahead, active

\* A request that is cancelled leaves the line, wherever it stands.
LEMMA CancelLeaves ==
    ASSUME QuietStale, IInv, [Next]_vars, NEW r \in Request, Cancel(r)
    PROVE  Lanes!Leave(r)
<1>1. TypeOK /\ Serialized /\ Serialized'
  BY SerializedStep
<1>2. /\ pc[r] \in {"waiting", "woken"}
      /\ pc' = [pc EXCEPT ![r] = IF pc[r] = "woken" THEN "cancelledWoken" ELSE "cancelled"]
      /\ waiters' = waiters /\ lock' = lock
  BY DEF Cancel
<1>3. r \in Placed /\ Placed' = Placed \ {r}
  BY <1>1, <1>2 DEF Placed, TypeOK
<1>4. ahead' = [t \in Request |-> IF t = r THEN {} ELSE ahead[t] \ {r}]
  BY <1>2, <1>3, PlaceGivenUp
<1>5. active' = active
  <2>1. \A s \in Request : pc'[s] = "holding" <=> pc[s] = "holding"
    BY <1>1, <1>2 DEF TypeOK
  <2> QED BY <1>1, <2>1, ActiveKept
<1> QED BY <1>3, <1>4, <1>5 DEF Lanes!Leave, Lanes!GiveUpPlace, ahead, active

\* A cancelled request has left the line before its task runs.
LEMMA ResumeCancelledStutters ==
    ASSUME QuietStale, IInv, [Next]_vars, NEW r \in Request, ResumeCancelled(r)
    PROVE  UNCHANGED Lanes!lanes
<1> USE DEF IInv
<1>1. TypeOK /\ TypeOK' /\ Serialized /\ Serialized'
  BY SerializedStep
<1> DEFINE q == Without(waiters[lock[r]], r)
           p == [pc EXCEPT ![r] = "done"]
<1>2. /\ pc[r] \in {"cancelled", "cancelledWoken"}
      /\ waiters' = [waiters EXCEPT ![lock[r]] = q]
      /\ pc' = IF locked[lock[r]] THEN p ELSE WakeUpFirst(q, p)
      /\ lock' = lock
  BY DEF ResumeCancelled
<1>3. lock[r] \in Request /\ q \in Seq(Request) /\ p \in [Request -> States]
  <2>1. lock[r] \in Request
    BY <1>2 DEF UsesLock, Queued
  <2>2. q \in Seq(Request)
    BY <2>1, WithoutType DEF TypeOK
  <2> QED BY <2>1, <2>2 DEF TypeOK, States
<1>4. /\ \A s \in Request : p[s] \in {"waiting", "woken"} <=> pc[s] \in {"waiting", "woken"}
      /\ \A s \in Request : p[s] = "holding" <=> pc[s] = "holding"
  BY <1>2 DEF TypeOK
<1>5. /\ \A s \in Request : pc'[s] \in {"waiting", "woken"} <=> p[s] \in {"waiting", "woken"}
      /\ \A s \in Request : pc'[s] = "holding" <=> p[s] = "holding"
  BY <1>2, <1>3, WakeUpKeeps
<1>6. waiters' = [waiters EXCEPT ![lock[r]] = Without(@, r)]
  BY <1>2
<1> HIDE DEF q, p
<1>7. Placed' = Placed /\ r \notin Placed
  BY <1>2, <1>4, <1>5 DEF Placed
<1>8. ahead' = ahead
  <2>1. pc[r] \in Queued
    BY <1>2 DEF Queued
  <2> QED BY <2>1, <1>2, <1>6, <1>7, OrderKept, PlacesKept
<1>9. active' = active
  BY <1>1, <1>4, <1>5, ActiveKept
<1> QED BY <1>7, <1>8, <1>9 DEF Lanes!lanes, ahead, active

\* release ends the processing of the request that calls it.
LEMMA ReleaseFinishes ==
    ASSUME QuietStale, IInv, [Next]_vars, NEW r \in Request, Release(r)
    PROVE  Lanes!Finish(r)
<1> USE DEF IInv
<1>1. TypeOK /\ Serialized /\ Serialized'
  BY SerializedStep
<1> DEFINE l == registered[KeyOf[r]]
           p == [pc EXCEPT ![r] = "done"]
<1>2. /\ pc[r] = "holding"
      /\ pc' = p \/ (l \in Request /\ pc' = WakeUpFirst(waiters[l], p))
      /\ waiters' = waiters /\ lock' = lock
  BY KeyOfAssumption DEF Release, IsLocked, TypeOK
<1>3. p \in [Request -> States] /\ (l \in Request => waiters[l] \in Seq(Request))
  BY DEF TypeOK, States
<1>4. /\ \A s \in Request : p[s] \in {"waiting", "woken"} <=> pc[s] \in {"waiting", "woken"}
      /\ \A s \in Request \ {r} : p[s] = "holding" <=> pc[s] = "holding"
      /\ p[r] # "holding"
  BY <1>2 DEF TypeOK
<1> HIDE DEF l, p
<1>5. /\ \A s \in Request : pc'[s] \in {"waiting", "woken"} <=> p[s] \in {"waiting", "woken"}
      /\ \A s \in Request : pc'[s] = "holding" <=> p[s] = "holding"
  <2>1. CASE pc' = p
    BY <2>1
  <2>2. CASE l \in Request /\ pc' = WakeUpFirst(waiters[l], p)
    BY <2>2, <1>3, WakeUpKeeps
  <2> QED BY <2>1, <2>2, <1>2
<1>6. Placed' = Placed
  BY <1>4, <1>5 DEF Placed
<1>7. ahead' = ahead
  BY <1>2, <1>6, PlacesKept
<1>8. active[KeyOf[r]] = r /\ active' = [active EXCEPT ![KeyOf[r]] = NoLock]
  BY <1>1, <1>2, <1>4, <1>5, ActiveFreed
<1> QED BY <1>6, <1>7, <1>8 DEF Lanes!Finish, ahead, active

\* The clock and cleanup_stale are not seen by the requests.
LEMMA OthersStutter ==
    ASSUME QuietStale, IInv, [Next]_vars,
           (\E k \in Key : GrowStale(k)) \/ CleanupStale \/ UNCHANGED vars
    PROVE  UNCHANGED Lanes!lanes
<1>1. Serialized /\ Serialized'
  BY SerializedStep
<1>2. waiters' = waiters /\ lock' = lock /\ pc' = pc
  BY DEF GrowStale, CleanupStale, vars
<1>3. Placed' = Placed
  BY <1>2 DEF Placed
<1>4. ahead' = ahead
  BY <1>2, <1>3, PlacesKept
<1>5. active' = active
  BY <1>1, <1>2, ActiveKept
<1> QED BY <1>3, <1>4, <1>5 DEF Lanes!lanes, ahead, active

LEMMA LanesInit == Init => Lanes!Init
<1> SUFFICES ASSUME Init PROVE Lanes!Init
  OBVIOUS
<1>1. \A r \in Request : pc[r] = "new"
  BY Zenon DEF Init
<1>2. Placed = {}
  BY <1>1 DEF Placed
<1>3. ahead = [r \in Request |-> {}]
  BY <1>2 DEF ahead, AheadOf
<1>4. active = [k \in Key |-> NoLock]
  BY <1>1 DEF active, ActiveOf
<1> QED BY <1>2, <1>3, <1>4 DEF Lanes!Init, ahead, active

LEMMA LanesStep ==
    ASSUME QuietStale, IInv, [Next]_vars
    PROVE  [Lanes!Next]_(Lanes!lanes)
<1>1. ASSUME NEW r \in Request, AcquireNow(r)
      PROVE  Lanes!StartAtOnce(r)
  BY <1>1, AcquireNowStarts
<1>2. ASSUME NEW r \in Request, AcquireWait(r)
      PROVE  Lanes!Arrive(r)
  BY <1>2, AcquireWaitArrives
<1>3. ASSUME NEW r \in Request, Resume(r)
      PROVE  Lanes!Start(r)
  BY <1>3, ResumeStarts
<1>4. ASSUME NEW r \in Request, Cancel(r)
      PROVE  Lanes!Leave(r)
  BY <1>4, CancelLeaves
<1>5. ASSUME NEW r \in Request, ResumeCancelled(r)
      PROVE  UNCHANGED Lanes!lanes
  BY <1>5, ResumeCancelledStutters
<1>6. ASSUME NEW r \in Request, Release(r)
      PROVE  Lanes!Finish(r)
  BY <1>6, ReleaseFinishes
<1>7. CASE (\E k \in Key : GrowStale(k)) \/ CleanupStale \/ UNCHANGED vars
  BY <1>7, OthersStutter
<1> QED BY <1>1, <1>2, <1>3, <1>4, <1>5, <1>6, <1>7 DEF Next, Lanes!Next

\* As long as stale sessions are quiet, the lane queue implements the lanes that
\* serve the requests of a session one at a time in the order of their arrival
\* (lane.py:3-5), whatever waiters are cancelled in between.
THEOREM ImplementsFifoLanesHolds == ASSUME QuietStale PROVE Spec => ImplementsFifoLanes
<1>1. Init => Lanes!Init
  BY LanesInit
<1>2. IInv /\ [Next]_vars => [Lanes!Next]_(Lanes!lanes)
  BY LanesStep
<1> QED BY <1>1, <1>2, InvariantHolds, PTL DEF Spec, ImplementsFifoLanes, Lanes!Spec
=============================================================================
