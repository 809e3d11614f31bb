------------------------------ MODULE FifoLanes ------------------------------
(***************************************************************************)
(* What the lane queue promises (lane.py:3-5): the requests of a session   *)
(* are processed one at a time in the order of their arrival; sessions do  *)
(* not disturb each other.  No locks, no wake-ups: a request that waits    *)
(* knows who came before it, and each session processes at most one.       *)
(***************************************************************************)

CONSTANTS Request, Key, KeyOf, Nobody

VARIABLES
    waiting,  \* the requests that wait
    ahead,    \* for each of them, those of its session that came earlier and still wait
    active    \* the request each session processes

lanes == <<waiting, ahead, active>>

Init ==
    /\ waiting = {}
    /\ ahead = [r \in Request |-> {}]
    /\ active = [k \in Key |-> Nobody]

\* Those who wait for the lane of r.
Line(r) == {s \in waiting : KeyOf[s] = KeyOf[r]}

\* A request finds nobody before it.
StartAtOnce(r) ==
    /\ Line(r) = {}
    /\ active[KeyOf[r]] = Nobody
    /\ active' = [active EXCEPT ![KeyOf[r]] = r]
    /\ UNCHANGED <<waiting, ahead>>

\* A request queues up behind all who wait for its lane.
Arrive(r) ==
    /\ r \notin waiting
    /\ active[KeyOf[r]] # r
    /\ waiting' = waiting \cup {r}
    /\ ahead' = [ahead EXCEPT ![r] = Line(r)]
    /\ UNCHANGED active

\* A request gives up its place.
GiveUpPlace(r) ==
    /\ r \in waiting
    /\ waiting' = waiting \ {r}
    /\ ahead' = [s \in Request |-> IF s = r THEN {} ELSE ahead[s] \ {r}]

\* The first in line is processed next.
Start(r) ==
    /\ ahead[r] = {}
    /\ active[KeyOf[r]] = Nobody
    /\ active' = [active EXCEPT ![KeyOf[r]] = r]
    /\ GiveUpPlace(r)

\* A request leaves the line unserved.
Leave(r) == GiveUpPlace(r) /\ UNCHANGED active

Finish(r) ==
    /\ active[KeyOf[r]] = r
    /\ active' = [active EXCEPT ![KeyOf[r]] = Nobody]
    /\ UNCHANGED <<waiting, ahead>>

Next ==
    \E r \in Request :
        StartAtOnce(r) \/ Arrive(r) \/ Start(r) \/ Leave(r) \/ Finish(r)

Spec == Init /\ [][Next]_lanes
=============================================================================
