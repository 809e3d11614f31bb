--------------------------- MODULE McpManagerProofs ---------------------------
(***************************************************************************)
(* The tables of MCPManager, for any requests, servers and tools.          *)
(*                                                                         *)
(* Alone, an admin request leaves the tables in one of three ways when it  *)
(* suspends or returns (Outcome): it waits for a client to close, it opens *)
(* its own, or it is done.  The invariant says what each of the other      *)
(* requests, suspended anywhere, may still rely on; Alone is the part that *)
(* holds when no two requests work on one server at the same time.         *)
(***************************************************************************)
EXTENDS McpManager, TLAPS

\* The name of a wrapped tool begins with its server's name and an underscore.  The
\* theorems about the table of tools need that no tool fits two servers.
PrefixesDisjoint == \A s, u \in Server : s # u => Prefixed[s] \cap Prefixed[u] = {}

\* The states of a client that was connected and asked to close.
Asked == {"closing", "closed", "reopened"}

USE DEF InUse, Asked, Waiting

\* A request opens the client that is named after it, for its own server.
RequestInv == \A r \in Request :
    /\ pc[r] = "connecting" <=> status[r] = "connecting"
    /\ pc[r] \in {"idle", "cancelled"} \cup Waiting => status[r] = "new"
    /\ pc[r] # "idle" => target[r] \in Server

\* A client that somebody waited for has been asked to close, and a tool has its
\* server's prefix.
WaitInv ==
    /\ \A w \in Waiter : old[w] # None => status[old[w]] \in Asked
    /\ \A f \in Tool : tools[f] # None => f \in Prefixed[target[tools[f]]]

ShutdownInv ==
    /\ shutdown \in {"up", "stopping", "down"} => old[Shutdown] = None
    /\ shutdown \in Waiting => old[Shutdown] # None /\ clients[target[old[Shutdown]]] = None
    /\ shutdown # "up" => \A r \in Request : pc[r] \notin InFlight

\* Requests for one server come one after another: nobody finds a client or loses the
\* config while it works on a server.
Alone ==
    /\ \A q, r \in Request : q # r /\ pc[q] \in InFlight /\ pc[r] \in InFlight => target[q] # target[r]
    /\ \A r \in Request : pc[r] \in InFlight => clients[target[r]] = None
    /\ \A r \in Request : pc[r] = "connecting" \/ (pc[r] \in Waiting /\ after[r] = "connect") =>
            store[target[r]] # "absent"

\* Tool f of server u is in the table if its registered client found it.
Listed(u, f) ==
    IF f \in offers[clients[u]]
    THEN tools[f] = clients[u]
    ELSE tools[f] = None \/ CutShort(tools[f])

IInv ==
    /\ TypeOK /\ RequestInv /\ WaitInv /\ ShutdownInv
    /\ ClientTableExact /\ NoDanglingTool
    /\ oneAtATime => Alone
    /\ PrefixesDisjoint => ConnectedListsItsTools /\ DeletedIsGone

LEMMA Facts == None \notin Request /\ None \notin Server /\ Shutdown \in Waiter /\ Request \subseteq Waiter
               /\ \A r \in Request : r # Shutdown
BY NoneAssumption DEF Shutdown, Waiter

\* Of the clients of a server that holds the prefixes of its tools alone, only the
\* registered one and one somebody waits for have a tool.
LEMMA ToolsOfServer ==
    ASSUME IInv, oneAtATime, PrefixesDisjoint, NEW s \in Server, NEW f \in Prefixed[s], f \in Tool, tools[f] # None
    PROVE  /\ target[tools[f]] = s
           /\ clients[s] = tools[f] \/ Awaited(tools[f]) \/ CutShort(tools[f])
<1> DEFINE c == tools[f]
<1>1. c \in Request /\ status[c] # "new"
  BY Facts DEF IInv, TypeOK, NoDanglingTool, Settled, Awaited, CutShort, WaitInv
<1>2. target[c] \in Server
  BY <1>1 DEF IInv, RequestInv, InFlight
<1>3. f \in Prefixed[target[c]]
  BY DEF IInv, WaitInv
<1>4. target[c] = s
  BY <1>2, <1>3 DEF PrefixesDisjoint
<1>5. Settled(c)
  BY DEF IInv, NoDanglingTool
<1> QED
  BY <1>1, <1>4, <1>5 DEF IInv, ClientTableExact, NoLeak, Settled

---------------------------------------------------------------------------
(* What a request does between two suspensions *)

Waits(r, s) == \E next \in {"return", "delete", "replace", "connect"} :
    /\ Await(r, s, next)
    /\ next = "connect" /\ oneAtATime => store'[s] # "absent"
    /\ store'[s] = "absent" => store[s] = "absent"

Opens(r, s) ==
    /\ oneAtATime => clients[s] = None /\ store'[s] # "absent"
    /\ status' = [status EXCEPT ![r] = "connecting"]
    /\ Goto(r, "connecting")
    /\ UNCHANGED <<clients, old, after>>

Ends(r, s) ==
    /\ Goto(r, "returned")
    /\ UNCHANGED <<clients, status, old, after>>
    /\ store'[s] = "absent" /\ oneAtATime => clients[s] = None

Outcome(r, s) ==
    /\ store' \in [Server -> {"absent", "off", "on"}]
    /\ \A u \in Server \ {s} : store'[u] = store[u]
    /\ enabled' \in [Request -> {"on", "off"}]
    /\ Waits(r, s) \/ Opens(r, s) \/ Ends(r, s)

\* The request arrives, or goes on after the client it waited for was closed.
Context(r, s) ==
    /\ shutdown = "up" /\ UNCHANGED <<offers, gateway>>
    /\ target' = [target EXCEPT ![r] = s]
    /\ oneAtATime => \A q \in Request \ {r} : target[q] = s => pc[q] \notin InFlight
    /\ \/ pc[r] = "idle" /\ UNCHANGED tools
       \/ pc[r] \in Waiting /\ target[r] = s /\ SweepTools(s)

LEMMA OutcomeTypes ==
    ASSUME IInv, NEW r \in Request, NEW s \in Server, Context(r, s), Outcome(r, s)
    PROVE  TypeOK'
<1>1. /\ TypeOK /\ None \notin Request /\ None \notin Server /\ r \in Waiter
      /\ UNCHANGED <<offers, shutdown, leaving, oneAtATime>>
  BY Facts DEF IInv, Context, gateway
<1>2. target' \in [Request -> Server \cup {None}]
  BY <1>1 DEF TypeOK, Context
<1>3. tools' \in [Tool -> Request \cup {None}]
  BY <1>1 DEF TypeOK, Context, SweepTools
<1>4. store' \in [Server -> {"absent", "off", "on"}] /\ enabled' \in [Request -> {"on", "off"}]
  BY DEF Outcome
<1>5. /\ clients' \in [Server -> Request \cup {None}]
      /\ status' \in [Request -> Status]
      /\ pc' \in [Request -> {"idle", "returned", "raised", "cancelled"} \cup InFlight]
      /\ old' \in [Waiter -> Request \cup {None}]
      /\ after' \in [Request -> {"return", "delete", "replace", "connect"}]
  <2>1. CASE Waits(r, s)
    BY <1>1, <2>1 DEF TypeOK, Waits, Await, PopClient, Asks, Goto, InFlight, Status
  <2>2. CASE Opens(r, s)
    BY <1>1, <2>2 DEF TypeOK, Opens, Goto, InFlight, Status
  <2>3. CASE Ends(r, s)
    BY <1>1, <2>3 DEF TypeOK, Ends, Goto, InFlight
  <2> QED
    BY <2>1, <2>2, <2>3 DEF Outcome
<1> QED
  BY <1>1, <1>2, <1>3, <1>4, <1>5 DEF TypeOK

\* What the outcomes have in common, and what each leaves.
LEMMA OutcomeEffect ==
    ASSUME IInv, NEW r \in Request, NEW s \in Server, Context(r, s), Outcome(r, s)
    PROVE  /\ \A q \in Request \ {r} : pc'[q] = pc[q] /\ target'[q] = target[q] /\ after'[q] = after[q]
           /\ target'[r] = s /\ status[r] = "new" /\ pc'[r] \in Waiting \cup {"connecting", "returned"}
           /\ \A u \in Server \ {s} : clients'[u] = clients[u]
           /\ clients'[s] \in {clients[s], None}
           /\ \A w \in Waiter \ {r} : old'[w] = old[w]
           /\ \A q \in Request : clients[s] # q /\ q # r => status'[q] = status[q]
           /\ \/ /\ pc'[r] \in Waiting /\ clients[s] # None /\ clients[s] # r /\ clients'[s] = None
                 /\ status'[r] = "new" /\ status'[clients[s]] \in Asked /\ old'[r] = clients[s]
                 /\ after'[r] = "connect" /\ oneAtATime => store'[s] # "absent"
                 /\ store'[s] = "absent" => store[s] = "absent"
              \/ /\ pc'[r] = "connecting" /\ clients' = clients /\ old' = old /\ status'[r] = "connecting"
                 /\ oneAtATime => clients[s] = None /\ store'[s] # "absent"
                 /\ \A q \in Request \ {r} : status'[q] = status[q]
              \/ /\ pc'[r] = "returned" /\ clients' = clients /\ old' = old /\ status' = status
                 /\ store'[s] = "absent" /\ oneAtATime => clients[s] = None
<1>1. /\ TypeOK /\ None \notin Request /\ None \notin Server /\ r \in Waiter
      /\ target' = [target EXCEPT ![r] = s]
  BY Facts DEF IInv, Context
<1>2. status[r] = "new"
  BY DEF IInv, RequestInv, Context
<1>3. clients[s] # None => clients[s] \in Request /\ InUse(clients[s]) /\ clients[s] # r
  BY <1>1, <1>2 DEF IInv, TypeOK, ClientTableExact, RegisteredInUse
<1>4. /\ target'[r] = s /\ \A q \in Request \ {r} : target'[q] = target[q]
  BY <1>1 DEF TypeOK
<1>5. CASE Waits(r, s)
  <2>1. PICK next \in {"return", "delete", "replace", "connect"} :
            /\ Await(r, s, next)
            /\ next = "connect" /\ oneAtATime => store'[s] # "absent"
            /\ store'[s] = "absent" => store[s] = "absent"
    BY <1>5 DEF Waits
  <2>2. /\ clients[s] # None /\ clients' = [clients EXCEPT ![s] = None]
        /\ \E st \in Asked : status' = [status EXCEPT ![clients[s]] = st]
        /\ old' = [old EXCEPT ![r] = clients[s]]
        /\ after' = [after EXCEPT ![r] = next]
        /\ \E label \in Waiting : pc' = [pc EXCEPT ![r] = label]
    BY <2>1 DEF Await, PopClient, Asks, Goto
  <2> QED
    BY <1>1, <1>2, <1>3, <1>4, <2>1, <2>2 DEF TypeOK
<1>6. CASE Opens(r, s)
  BY <1>1, <1>2, <1>4, <1>6 DEF TypeOK, Opens, Goto
<1>7. CASE Ends(r, s)
  BY <1>1, <1>2, <1>4, <1>7 DEF TypeOK, Ends, Goto
<1> QED
  BY <1>5, <1>6, <1>7 DEF Outcome

LEMMA OutcomeKeeps ==
    ASSUME IInv, NEW r \in Request, NEW s \in Server, Context(r, s), Outcome(r, s)
    PROVE  IInv'
<1>1. TypeOK'
  BY OutcomeTypes
<1>2. /\ \A q \in Request \ {r} : pc'[q] = pc[q] /\ target'[q] = target[q] /\ after'[q] = after[q]
      /\ target'[r] = s /\ status[r] = "new" /\ pc'[r] \in Waiting \cup {"connecting", "returned"}
      /\ \A u \in Server \ {s} : clients'[u] = clients[u]
      /\ clients'[s] \in {clients[s], None}
      /\ \A w \in Waiter \ {r} : old'[w] = old[w]
      /\ \A q \in Request : clients[s] # q /\ q # r => status'[q] = status[q]
  BY OutcomeEffect
<1>3. \/ /\ pc'[r] \in Waiting /\ clients[s] # None /\ clients[s] # r /\ clients'[s] = None
         /\ status'[r] = "new" /\ status'[clients[s]] \in Asked /\ old'[r] = clients[s]
         /\ after'[r] = "connect" /\ oneAtATime => store'[s] # "absent"
         /\ store'[s] = "absent" => store[s] = "absent"
      \/ /\ pc'[r] = "connecting" /\ clients' = clients /\ old' = old /\ status'[r] = "connecting"
         /\ oneAtATime => clients[s] = None /\ store'[s] # "absent"
         /\ \A q \in Request \ {r} : status'[q] = status[q]
      \/ /\ pc'[r] = "returned" /\ clients' = clients /\ old' = old /\ status' = status
         /\ store'[s] = "absent" /\ oneAtATime => clients[s] = None
  BY OutcomeEffect
<1>4. /\ TypeOK /\ RequestInv /\ WaitInv /\ ShutdownInv /\ RegisteredInUse /\ NoLeak /\ NoDanglingTool
      /\ oneAtATime' = oneAtATime /\ shutdown = "up" /\ shutdown' = "up" /\ offers' = offers
      /\ oneAtATime => Alone
      /\ oneAtATime => \A q \in Request \ {r} : target[q] = s => pc[q] \notin InFlight
  BY DEF IInv, Context, gateway, ClientTableExact
<1>5. /\ \A f \in Tool : tools'[f] \in {tools[f], None}
      /\ pc[r] \in Waiting => target[r] = s /\ \A f \in Tool \cap Prefixed[s] : tools'[f] = None
      /\ pc[r] \notin Waiting => pc[r] = "idle" /\ tools' = tools
      /\ \A f \in Tool : f \notin Prefixed[s] => tools'[f] = tools[f]
  BY DEF Context, SweepTools
<1>6. \A u \in Server : clients[u] # None =>
          clients[u] \in Request /\ InUse(clients[u]) /\ target[clients[u]] = u /\ clients[u] # r
  BY <1>2, <1>4 DEF TypeOK, RegisteredInUse
<1>7. \A w \in Waiter : old[w] # None =>
          old[w] \in Request /\ old[w] # r /\ old[w] # clients[s] /\ status'[old[w]] = status[old[w]]
  BY <1>2, <1>4, <1>6 DEF TypeOK, WaitInv
<1>8. \A f \in Tool : tools[f] # None => tools[f] \in Request /\ tools[f] # r
  BY <1>2, <1>4, Facts DEF TypeOK, NoDanglingTool, Settled, Awaited, CutShort, WaitInv
<1>18. \A c \in Request : CutShort(c) => CutShort(c)'
  BY <1>2, <1>4, <1>5, Facts DEF CutShort, InFlight
<1>9. RequestInv'
  <2>1. SUFFICES ASSUME NEW q \in Request
                 PROVE  /\ pc'[q] = "connecting" <=> status'[q] = "connecting"
                        /\ pc'[q] \in {"idle", "cancelled"} \cup Waiting => status'[q] = "new"
                        /\ pc'[q] # "idle" => target'[q] \in Server
    BY DEF RequestInv
  <2>2. CASE q = r
    BY <1>2, <1>3, <2>2
  <2>3. CASE q # r /\ clients[s] # q
    BY <1>2, <1>4, <2>3 DEF RequestInv
  <2>4. CASE q # r /\ clients[s] = q
    <3>1. InUse(q) /\ status'[q] # "connecting" /\ status'[q] # "new" /\ pc'[q] = pc[q]
      BY <1>2, <1>3, <1>6, <2>4, Facts
    <3> QED
      BY <1>2, <1>4, <2>4, <3>1 DEF RequestInv
  <2> QED
    BY <2>2, <2>3, <2>4
<1>10. WaitInv'
  <2>1. ASSUME NEW w \in Waiter, old'[w] # None PROVE status'[old'[w]] \in Asked
    <3>1. CASE old'[w] = old[w]
      BY <1>4, <1>7, <2>1, <3>1 DEF WaitInv
    <3>2. CASE old'[w] # old[w]
      BY <1>2, <1>3, <2>1, <3>2
    <3> QED
      BY <3>1, <3>2
  <2>2. ASSUME NEW f \in Tool, tools'[f] # None PROVE f \in Prefixed[target'[tools'[f]]]
    <3>1. tools'[f] = tools[f] /\ tools[f] \in Request \ {r}
      BY <1>5, <1>8, <2>2
    <3> QED
      BY <1>2, <1>4, <2>2, <3>1 DEF WaitInv
  <2> QED
    BY <2>1, <2>2 DEF WaitInv
<1>11. ShutdownInv'
  BY <1>2, <1>4, Facts DEF ShutdownInv
<1>12. RegisteredInUse'
  <2>1. SUFFICES ASSUME NEW u \in Server, clients'[u] # None
                 PROVE  InUse(clients[u])' /\ target'[clients'[u]] = u
    BY DEF RegisteredInUse
  <2>2. clients'[u] = clients[u]
    BY <1>2, <2>1
  <2>3. target'[clients[u]] = u
    BY <1>2, <1>6, <2>1, <2>2
  <2>4. status'[clients[u]] = status[clients[u]]
    <3>1. CASE u = s
      BY <1>2, <1>3, <1>6, <2>1, <2>2, <3>1
    <3>2. CASE u # s
      BY <1>2, <1>6, <2>1, <2>2, <3>2
    <3> QED
      BY <3>1, <3>2
  <2> QED
    BY <1>6, <2>1, <2>2, <2>3, <2>4
<1>13. NoLeak'
  <2>1. SUFFICES ASSUME oneAtATime, NEW q \in Request, InUse(q)'
                 PROVE  clients'[target'[q]] = q
    BY <1>4 DEF NoLeak
  <2>2. q # r
    BY <1>2, <1>3, <2>1
  <2>3. InUse(q)
    BY <1>2, <1>6, <2>1, <2>2, Facts
  <2>4. target'[q] = target[q] /\ clients[target[q]] = q /\ target[q] \in Server
    BY <1>2, <1>4, <2>1, <2>2, <2>3 DEF NoLeak, RequestInv
  <2>5. CASE target[q] = s
    BY <1>2, <1>3, <2>1, <2>4, <2>5
  <2>6. CASE target[q] # s
    BY <1>2, <2>4, <2>6
  <2> QED
    BY <2>5, <2>6
<1>14. NoDanglingTool'
  <2>1. SUFFICES ASSUME NEW f \in Tool, NEW c \in Request \ {r}, tools'[f] = c, tools[f] = c
                 PROVE  Settled(c)'
    <3>1. \A f \in Tool : tools'[f] # None => tools'[f] \in Request \ {r} /\ tools[f] = tools'[f]
      BY <1>5, <1>8
    <3> QED
      BY <3>1 DEF NoDanglingTool
  <2>2. c # None /\ c # r /\ target'[c] = target[c]
    BY <1>2, Facts
  <2>3. ASSUME InUse(c) PROVE Settled(c)'
    <3>1. CASE InUse(c)'
      BY <3>1 DEF Settled
    <3>2. CASE ~ InUse(c)'
      <4>1. clients[s] = c /\ old'[r] = c /\ pc'[r] \in Waiting
        BY <1>2, <1>3, <2>2, <2>3, <3>2
      <4>2. target[c] = s
        BY <1>6, <2>2, <4>1, Facts
      <4> QED
        BY <1>2, <2>2, <4>1, <4>2 DEF Awaited, Settled
    <3> QED
      BY <3>1, <3>2 DEF Settled
  <2>4. ASSUME NEW q \in Request, pc[q] \in Waiting, old[q] = c, target[q] = target[c]
        PROVE  Awaited(c)'
    <3>1. q # r
      <4>1. SUFFICES ASSUME q = r PROVE FALSE
        OBVIOUS
      <4>2. f \in Prefixed[s]
        BY <1>4, <1>5, <2>1, <2>2, <2>4, <4>1, Facts DEF WaitInv
      <4> QED
        BY <1>5, <2>1, <2>2, <2>4, <4>1, <4>2
    <3> QED
      BY <1>2, <2>2, <2>4, <3>1, Facts DEF Awaited
  <2>5. old[Shutdown] # c
    BY <1>4, <2>2, Facts DEF ShutdownInv
  <2>6. Settled(c)
    BY <1>4, <2>1, <2>2, Facts DEF NoDanglingTool
  <2> QED
    BY <1>4, <1>18, <2>2, <2>3, <2>4, <2>5, <2>6 DEF Awaited, Settled
<1>15. oneAtATime => Alone'
  <2> SUFFICES ASSUME oneAtATime PROVE Alone'
    OBVIOUS
  <2>1. /\ \A q \in Request \ {r} : pc[q] \in InFlight => target[q] # s /\ target[q] \in Server
    BY <1>4 DEF RequestInv, InFlight
  <2>2. \A p, q \in Request : p # q /\ pc'[p] \in InFlight /\ pc'[q] \in InFlight => target'[p] # target'[q]
    BY <1>2, <1>4, <2>1 DEF Alone
  <2>3. \A q \in Request : pc'[q] \in InFlight => clients'[target'[q]] = None
    BY <1>2, <1>3, <1>4, <2>1 DEF Alone, InFlight
  <2>4. \A q \in Request : pc'[q] = "connecting" \/ (pc'[q] \in Waiting /\ after'[q] = "connect") =>
            store'[target'[q]] # "absent"
    <3>1. \A u \in Server \ {s} : store'[u] = store[u]
      BY DEF Outcome
    <3> QED
      BY <1>2, <1>3, <1>4, <2>1, <3>1 DEF Alone, InFlight
  <2> QED
    BY <2>2, <2>3, <2>4 DEF Alone
<1>16. PrefixesDisjoint => ConnectedListsItsTools'
  <2> SUFFICES ASSUME PrefixesDisjoint, oneAtATime, NEW u \in Server, clients'[u] # None,
                      NEW f \in Prefixed[u]
               PROVE  Listed(u, f)'
    BY <1>4 DEF ConnectedListsItsTools, Listed
  <2>1. clients'[u] = clients[u] /\ f \in Tool
    BY <1>2, PrefixedAssumption
  <2>2. Listed(u, f)
    BY <2>1 DEF IInv, ConnectedListsItsTools, Listed
  <2>5. tools[f] # None => tools[f] \in Request
    BY <1>8, <2>1
  <2>3. CASE u = s
    <3>1. tools'[f] = tools[f]
      BY <1>4, <1>5, <2>1, <2>3 DEF Alone, InFlight
    <3> QED
      BY <1>4, <1>18, <2>1, <2>2, <2>5, <3>1 DEF Listed
  <2>4. CASE u # s
    <3>1. tools'[f] = tools[f]
      BY <1>5, <2>1, <2>4 DEF PrefixesDisjoint
    <3> QED
      BY <1>4, <1>18, <2>1, <2>2, <2>5, <3>1 DEF Listed
  <2> QED
    BY <2>3, <2>4
<1>17. PrefixesDisjoint => DeletedIsGone'
  <2> SUFFICES ASSUME PrefixesDisjoint, oneAtATime, NEW u \in Server, store'[u] = "absent"
               PROVE  clients'[u] = None /\ \A f \in Prefixed[u] : (tools[f] = None \/ CutShort(tools[f]))'
    BY <1>4 DEF DeletedIsGone
  <2>1. \A v \in Server \ {s} : store'[v] = store[v]
    BY DEF Outcome
  <2>2. CASE store[u] = "absent"
    <3>1. clients[u] = None /\ \A f \in Prefixed[u] : tools[f] = None \/ CutShort(tools[f])
      BY <2>2 DEF IInv, DeletedIsGone
    <3> QED
      BY <1>2, <1>5, <1>8, <1>18, <3>1, PrefixedAssumption
  <2>3. CASE store[u] # "absent"
    <3>1. u = s /\ clients[s] = None /\ clients'[s] = None
      BY <1>2, <1>3, <2>1, <2>3
    <3>2. ASSUME NEW f \in Prefixed[s] PROVE (tools[f] = None \/ CutShort(tools[f]))'
      <4>1. f \in Tool
        BY PrefixedAssumption
      <4>2. CASE pc[r] \in Waiting
        BY <1>5, <4>1, <4>2
      <4>3. CASE pc[r] \notin Waiting
        <5>1. SUFFICES ASSUME tools[f] # None, ~ CutShort(tools[f]) PROVE FALSE
          BY <1>5, <1>8, <1>18, <4>1, <4>3
        <5>2. /\ target[tools[f]] = s
              /\ clients[s] = tools[f] \/ Awaited(tools[f]) \/ CutShort(tools[f])
          BY <4>1, <5>1, ToolsOfServer
        <5>3. Awaited(tools[f])
          BY <3>1, <5>1, <5>2
        <5>4. old[Shutdown] # tools[f]
          BY <1>4, <5>1 DEF ShutdownInv
        <5>5. PICK q \in Request : pc[q] \in Waiting /\ target[q] = s
          BY <1>4, <5>2, <5>3, <5>4 DEF Awaited
        <5> QED
          BY <1>4, <4>3, <5>5 DEF InFlight
      <4> QED
        BY <4>2, <4>3
    <3> QED
      BY <3>1, <3>2
  <2> QED
    BY <2>2, <2>3
<1> QED
  BY <1>1, <1>4, <1>9, <1>10, <1>11, <1>12, <1>13, <1>14, <1>15, <1>16, <1>17 DEF IInv, ClientTableExact

---------------------------------------------------------------------------
(* The requests *)

LEMMA AddingHasOutcome ==
    ASSUME TypeOK, NEW r \in Request, NEW s \in Server, NEW config \in {"on", "off"},
           Adding(r, s, config), enabled' \in [Request -> {"on", "off"}]
    PROVE  Outcome(r, s)
<1>1. /\ store' \in [Server -> {"absent", "off", "on"}] /\ store'[s] # "absent"
      /\ \A u \in Server \ {s} : store'[u] = store[u]
  BY DEF Saves, TypeOK, Adding
<1>2. CASE Await(r, s, "connect")
  BY <1>1, <1>2 DEF Outcome, Waits
<1>3. CASE config = "on" /\ ~Await(r, s, "connect")
  BY <1>1, <1>3 DEF Saves, Adding, Connecting, Outcome, Opens
<1>4. CASE config = "off" /\ ~Await(r, s, "connect")
  BY <1>1, <1>4 DEF Saves, Adding, Outcome, Ends
<1> QED
  BY <1>2, <1>3, <1>4

LEMMA ArrivalKeeps ==
    ASSUME IInv, NEW r \in Request, NEW s \in Server,
           \/ Create(r, s) \/ Update(r, s) \/ Delete(r, s)
           \/ Toggle(r, s) \/ Connect(r, s) \/ Disconnect(r, s)
    PROVE  IInv'
<1>1. Arrives(r, s) /\ TypeOK
  BY DEF IInv, Create, Update, Delete, Toggle, Connect, Disconnect
<1>2. Context(r, s)
  BY <1>1 DEF Arrives, Context
<1>3. enabled' \in [Request -> {"on", "off"}]
  BY <1>1 DEF Create, Update, Delete, Toggle, Connect, Disconnect, TypeOK
<1>4. CASE Create(r, s)
  BY <1>1, <1>2, <1>3, <1>4, AddingHasOutcome, OutcomeKeeps DEF Create
<1>5. CASE Update(r, s)
  <2>1. CASE Await(r, s, "replace") /\ UNCHANGED store
    BY <1>1, <1>2, <1>3, <2>1, OutcomeKeeps DEF Outcome, Waits, TypeOK
  <2>2. CASE ~(Await(r, s, "replace") /\ UNCHANGED store)
    BY <1>1, <1>2, <1>3, <1>5, <2>2, AddingHasOutcome, OutcomeKeeps DEF Update
  <2> QED
    BY <2>1, <2>2
<1>6. CASE Delete(r, s)
  <2>1. CASE Await(r, s, "delete") /\ UNCHANGED store
    BY <1>1, <1>2, <1>3, <2>1, OutcomeKeeps DEF Outcome, Waits, TypeOK
  <2>2. CASE ~(Await(r, s, "delete") /\ UNCHANGED store)
    <3>1. Ends(r, s) /\ store' = [store EXCEPT ![s] = "absent"]
      BY <1>6, <2>2 DEF Saves, Delete, Ends
    <3> QED
      BY <1>1, <1>2, <1>3, <3>1, OutcomeKeeps DEF Outcome, TypeOK
  <2> QED
    BY <2>1, <2>2
<1>7. CASE Toggle(r, s)
  <2>1. CASE Adding(r, s, "on")
    BY <1>1, <1>2, <1>3, <2>1, AddingHasOutcome, OutcomeKeeps
  <2>2. CASE ~Adding(r, s, "on")
    <3>1. store' = [store EXCEPT ![s] = "off"] /\ (Await(r, s, "return") \/ Ends(r, s))
      BY <1>1, <1>7, <2>2 DEF Saves, Toggle, Ends, TypeOK
    <3>2. store' \in [Server -> {"absent", "off", "on"}] /\ store'[s] = "off"
          /\ \A u \in Server \ {s} : store'[u] = store[u]
      BY <1>1, <3>1 DEF TypeOK
    <3>3. Outcome(r, s)
      BY <1>3, <3>1, <3>2 DEF Outcome, Waits
    <3> QED
      BY <1>2, <3>3, OutcomeKeeps
  <2> QED
    BY <2>1, <2>2
<1>8. CASE Connect(r, s)
  <2>1. UNCHANGED store /\ store[s] # "absent" /\ (Await(r, s, "connect") \/ Opens(r, s))
    BY <1>8 DEF Connect, Connecting, Opens
  <2>2. Outcome(r, s)
    BY <1>1, <1>3, <2>1 DEF Outcome, Waits, TypeOK
  <2> QED
    BY <1>2, <2>2, OutcomeKeeps
<1>9. CASE Disconnect(r, s)
  <2>1. UNCHANGED store /\ Await(r, s, "return")
    BY <1>9 DEF Disconnect
  <2>2. Outcome(r, s)
    BY <1>1, <1>3, <2>1 DEF Outcome, Waits, TypeOK
  <2> QED
    BY <1>2, <2>2, OutcomeKeeps
<1> QED
  BY <1>4, <1>5, <1>6, <1>7, <1>8, <1>9

LEMMA DisconnectedKeeps ==
    ASSUME IInv, NEW r \in Request, Disconnected(r)
    PROVE  IInv'
<1> DEFINE s == target[r]
<1>1. /\ TypeOK /\ s \in Server /\ pc[r] \in Waiting /\ SweepTools(s)
      /\ UNCHANGED <<offers, target, enabled, gateway>>
  BY DEF IInv, RequestInv, Disconnected, Returns
<1>2. Context(r, s)
  <2>1. shutdown = "up"
    BY <1>1 DEF IInv, ShutdownInv, InFlight, TypeOK
  <2>2. target' = [target EXCEPT ![r] = s]
    BY <1>1 DEF TypeOK
  <2>3. oneAtATime => \A q \in Request \ {r} : target[q] = s => pc[q] \notin InFlight
    BY <1>1 DEF IInv, Alone, InFlight
  <2> QED
    BY <1>1, <2>1, <2>2, <2>3 DEF Context
<1>3. oneAtATime => clients[s] = None /\ (after[r] = "connect" => store[s] # "absent")
  BY <1>1 DEF IInv, Alone, InFlight
<1>4. enabled' \in [Request -> {"on", "off"}] /\ enabled[r] \in {"on", "off"}
  BY <1>1 DEF TypeOK
<1>5. Outcome(r, s)
  <2>1. CASE after[r] = "return"
    BY <1>1, <1>3, <1>4, <2>1 DEF Saves, Disconnected, Outcome, Ends, TypeOK
  <2>2. CASE after[r] = "delete"
    <3>1. store' = [store EXCEPT ![s] = "absent"] /\ Ends(r, s)
      BY <1>3, <2>2 DEF Saves, Disconnected, Ends
    <3> QED
      BY <1>1, <1>4, <3>1 DEF Outcome, TypeOK
  <2>3. CASE after[r] = "replace"
    BY <1>1, <1>4, <2>3, AddingHasOutcome DEF Disconnected
  <2>4. CASE after[r] = "connect"
    BY <1>1, <1>3, <1>4, <2>4 DEF Disconnected, Outcome, Opens, TypeOK
  <2> QED
    BY <1>1, <2>1, <2>2, <2>3, <2>4 DEF TypeOK
<1> QED
  BY <1>1, <1>2, <1>5, OutcomeKeeps

\* The client is registered over nothing, when requests come one after another.
LEMMA ConnectedKeeps ==
    ASSUME IInv, NEW r \in Request, Connected(r)
    PROVE  IInv'
<1> DEFINE s == target[r]
<1>1. /\ TypeOK /\ RequestInv /\ WaitInv /\ ShutdownInv /\ RegisteredInUse /\ NoLeak /\ NoDanglingTool
      /\ oneAtATime => Alone
      /\ pc[r] = "connecting" /\ status[r] = "connecting" /\ s \in Server
  BY DEF IInv, ClientTableExact, RequestInv, Connected
<1>2. PICK found \in SUBSET Prefixed[s] :
          /\ offers' = [offers EXCEPT ![r] = found]
          /\ tools' = [f \in Tool |-> IF f \in found THEN r ELSE tools[f]]
  BY DEF Connected
<1>3. /\ clients' = [clients EXCEPT ![s] = r] /\ status' = [status EXCEPT ![r] = "open"]
      /\ pc' = [pc EXCEPT ![r] = "returned"]
      /\ UNCHANGED <<store, target, enabled, old, after, shutdown, leaving, oneAtATime>>
  BY DEF Connected, Goto, gateway
<1>4. /\ clients'[s] = r /\ InUse(r)' /\ pc'[r] = "returned" /\ offers'[r] = found
      /\ \A u \in Server \ {s} : clients'[u] = clients[u]
      /\ \A q \in Request \ {r} : status'[q] = status[q] /\ pc'[q] = pc[q] /\ offers'[q] = offers[q]
      /\ \A f \in Tool : tools'[f] = IF f \in found THEN r ELSE tools[f]
  BY <1>1, <1>2, <1>3 DEF TypeOK
<1>5. found \subseteq Tool
  BY <1>1, PrefixedAssumption
<1> HIDE DEF s
<1>6. TypeOK'
  BY <1>1, <1>2, <1>3, <1>5 DEF TypeOK, InFlight, Status
<1>17. \A c \in Request : CutShort(c) => CutShort(c)'
  BY <1>1, <1>3, <1>4 DEF CutShort
<1>7. RequestInv'
  BY <1>1, <1>3, <1>4 DEF RequestInv, s
<1>8. WaitInv'
  <2>1. \A w \in Waiter : old[w] # None => old[w] \in Request \ {r}
    BY <1>1 DEF WaitInv, TypeOK
  <2>2. \A f \in Tool : tools'[f] # None => f \in Prefixed[target[tools'[f]]]
    BY <1>1, <1>4 DEF WaitInv, s
  <2> QED
    BY <1>1, <1>3, <1>4, <2>1, <2>2 DEF WaitInv
<1>9. ShutdownInv'
  BY <1>1, <1>3, <1>4 DEF ShutdownInv, InFlight
<1>10. RegisteredInUse'
  <2>1. ASSUME NEW u \in Server, clients'[u] # None
        PROVE  InUse(clients[u])' /\ target'[clients'[u]] = u
    <3>1. CASE u = s
      BY <1>3, <1>4, <3>1 DEF s
    <3>2. CASE u # s
      <4>1. clients'[u] = clients[u] /\ clients[u] \in Request \ {r} /\ InUse(clients[u])
            /\ target[clients[u]] = u
        BY <1>1, <1>4, <2>1, <3>2 DEF RegisteredInUse, TypeOK
      <4> QED
        BY <1>3, <1>4, <4>1
    <3> QED
      BY <3>1, <3>2
  <2> QED
    BY <2>1 DEF RegisteredInUse
<1>11. NoLeak'
  <2>1. SUFFICES ASSUME oneAtATime, NEW q \in Request, InUse(q)'
                 PROVE  clients'[target[q]] = q
    BY <1>3 DEF NoLeak
  <2>2. CASE q = r
    BY <1>4, <2>2 DEF s
  <2>3. CASE q # r
    <3>1. InUse(q) /\ clients[target[q]] = q /\ target[q] \in Server
      BY <1>1, <1>4, <2>1, <2>3 DEF NoLeak, RequestInv
    <3>2. clients[s] = None
      BY <1>1, <2>1 DEF Alone, InFlight, s
    <3> QED
      BY <1>4, <3>1, <3>2, Facts
  <2> QED
    BY <2>2, <2>3
<1>12. NoDanglingTool'
  <2>1. SUFFICES ASSUME NEW f \in Tool, NEW c \in Request, tools'[f] = c
                 PROVE  Settled(c)'
    BY <1>6 DEF NoDanglingTool, TypeOK
  <2>2. CASE c = r
    BY <1>4, <2>2 DEF Settled
  <2>3. CASE c # r
    <3>1. tools[f] = c /\ Settled(c)
      BY <1>1, <1>4, <2>1, <2>3, Facts DEF NoDanglingTool
    <3>2. Awaited(c) => Awaited(c)'
      BY <1>1, <1>3, <1>4 DEF Awaited
    <3> QED
      BY <1>4, <1>17, <2>3, <3>1, <3>2 DEF Settled
  <2> QED
    BY <2>2, <2>3
<1>13. oneAtATime => Alone'
  <2> SUFFICES ASSUME oneAtATime PROVE Alone'
    OBVIOUS
  <2>1. \A q \in Request : pc'[q] \in InFlight => q # r /\ pc[q] \in InFlight /\ pc'[q] = pc[q]
                                                  /\ target[q] # s /\ target[q] \in Server
    BY <1>1, <1>4 DEF Alone, RequestInv, InFlight, s
  <2>2. \A p, q \in Request : p # q /\ pc'[p] \in InFlight /\ pc'[q] \in InFlight => target'[p] # target'[q]
    BY <1>1, <1>3, <2>1 DEF Alone
  <2>3. \A q \in Request : pc'[q] \in InFlight => clients'[target'[q]] = None
    BY <1>1, <1>3, <1>4, <2>1 DEF Alone
  <2>4. \A q \in Request : pc'[q] = "connecting" \/ (pc'[q] \in Waiting /\ after'[q] = "connect") =>
            store'[target'[q]] # "absent"
    BY <1>1, <1>3, <2>1 DEF Alone, InFlight
  <2> QED
    BY <2>2, <2>3, <2>4 DEF Alone
<1>14. ASSUME oneAtATime, PrefixesDisjoint, NEW f \in Prefixed[s] PROVE tools[f] = None \/ CutShort(tools[f])
  <2>1. SUFFICES ASSUME tools[f] # None, ~ CutShort(tools[f]) PROVE FALSE
    OBVIOUS
  <2>2. clients[s] = None /\ f \in Tool
    BY <1>1, <1>14, PrefixedAssumption DEF Alone, InFlight, s
  <2>3. /\ target[tools[f]] = s
        /\ clients[s] = tools[f] \/ Awaited(tools[f]) \/ CutShort(tools[f])
    BY <1>1, <1>14, <2>1, <2>2, ToolsOfServer
  <2>4. old[Shutdown] = None
    BY <1>1 DEF ShutdownInv, InFlight, TypeOK
  <2>5. PICK q \in Request : pc[q] \in Waiting /\ target[q] = s
    BY <2>1, <2>2, <2>3, <2>4 DEF Awaited
  <2> QED
    BY <1>1, <1>14, <2>5 DEF Alone, InFlight, s
<1>15. PrefixesDisjoint => ConnectedListsItsTools'
  <2>1. SUFFICES ASSUME PrefixesDisjoint, oneAtATime, NEW u \in Server, clients'[u] # None,
                      NEW f \in Prefixed[u]
               PROVE  Listed(u, f)'
    BY <1>3 DEF ConnectedListsItsTools, Listed
  <2>2. f \in Tool
    BY PrefixedAssumption
  <2>3. CASE u = s
    <3>1. tools[f] = None \/ (tools[f] \in Request /\ CutShort(tools[f]))
      BY <1>1, <1>14, <2>1, <2>2, <2>3 DEF TypeOK
    <3> QED
      BY <1>4, <1>17, <2>2, <2>3, <3>1 DEF Listed
  <2>4. CASE u # s
    <3>1. f \notin found
      BY <1>1, <2>1, <2>4 DEF PrefixesDisjoint
    <3>2. clients'[u] = clients[u] /\ clients[u] \in Request \ {r}
      BY <1>1, <1>4, <2>1, <2>4 DEF RegisteredInUse, TypeOK
    <3>3. Listed(u, f)
      BY <2>1, <3>2 DEF IInv, ConnectedListsItsTools, Listed
    <3> QED
      BY <1>1, <1>4, <1>17, <2>2, <3>1, <3>2, <3>3 DEF Listed, TypeOK
  <2> QED
    BY <2>3, <2>4
<1>16. PrefixesDisjoint => DeletedIsGone'
  <2>1. SUFFICES ASSUME PrefixesDisjoint, oneAtATime, NEW u \in Server, store'[u] = "absent"
               PROVE  clients'[u] = None /\ \A f \in Prefixed[u] : (tools[f] = None \/ CutShort(tools[f]))'
    BY <1>3 DEF DeletedIsGone
  <2>2. u # s
    BY <1>1, <1>3, <2>1 DEF Alone, s
  <2>3. clients[u] = None /\ \A f \in Prefixed[u] : tools[f] = None \/ CutShort(tools[f])
    BY <1>3, <2>1 DEF IInv, DeletedIsGone
  <2>4. \A f \in Prefixed[u] : f \in Tool /\ f \notin found
    BY <1>1, <2>1, <2>2, PrefixedAssumption DEF PrefixesDisjoint
  <2> QED
    BY <1>1, <1>4, <1>17, <2>2, <2>3, <2>4 DEF TypeOK
<1> QED
  BY <1>3, <1>6, <1>7, <1>8, <1>9, <1>10, <1>11, <1>12, <1>13, <1>15, <1>16 DEF IInv, ClientTableExact

---------------------------------------------------------------------------
(* The other steps *)

LEMMA ConnectFailsKeeps ==
    ASSUME IInv, NEW r \in Request, ConnectFails(r)
    PROVE  IInv'
<1>1. /\ TypeOK /\ RequestInv /\ WaitInv /\ ShutdownInv /\ RegisteredInUse /\ NoLeak /\ NoDanglingTool
      /\ pc[r] = "connecting" /\ status[r] = "connecting" /\ target[r] \in Server
  BY DEF IInv, ClientTableExact, RequestInv, ConnectFails
<1>2. /\ status' = [status EXCEPT ![r] = "failed"] /\ pc' = [pc EXCEPT ![r] = "raised"]
      /\ UNCHANGED <<store, clients, tools, offers, target, enabled, old, after, shutdown, leaving, oneAtATime>>
  BY DEF ConnectFails, Goto, gateway
<1>3. /\ status'[r] = "failed" /\ pc'[r] = "raised"
      /\ \A q \in Request \ {r} : status'[q] = status[q] /\ pc'[q] = pc[q]
  BY <1>1, <1>2 DEF TypeOK
<1>4. TypeOK'
  BY <1>1, <1>2 DEF TypeOK, Status
<1>5. RequestInv'
  BY <1>1, <1>2, <1>3 DEF RequestInv
<1>6. WaitInv'
  <2>1. \A w \in Waiter : old[w] # None => old[w] \in Request \ {r}
    BY <1>1 DEF WaitInv, TypeOK
  <2> QED
    BY <1>1, <1>2, <1>3, <2>1 DEF WaitInv
<1>7. ShutdownInv'
  BY <1>1, <1>2, <1>3 DEF ShutdownInv, InFlight
<1>8. RegisteredInUse' /\ NoLeak'
  <2>1. \A u \in Server : clients[u] # None => clients[u] \in Request \ {r}
    BY <1>1 DEF RegisteredInUse, TypeOK
  <2> QED
    BY <1>1, <1>2, <1>3, <2>1 DEF RegisteredInUse, NoLeak
<1>9. NoDanglingTool'
  <2>1. SUFFICES ASSUME NEW f \in Tool, NEW c \in Request, tools[f] = c
                 PROVE  Settled(c)'
    BY <1>1, <1>2 DEF NoDanglingTool, TypeOK
  <2>2. Settled(c)
    BY <1>1, <2>1, Facts DEF NoDanglingTool
  <2>3. (Awaited(c) => Awaited(c)') /\ (CutShort(c) => CutShort(c)')
    BY <1>1, <1>2, <1>3 DEF Awaited, CutShort
  <2> QED
    BY <1>1, <1>3, <2>2, <2>3 DEF Settled
<1>10. oneAtATime => Alone'
  <2>1. \A q \in Request : pc'[q] \in InFlight => pc[q] \in InFlight /\ pc'[q] = pc[q]
    BY <1>3 DEF InFlight
  <2> QED
    BY <1>2, <2>1 DEF IInv, Alone, InFlight
<1>11. PrefixesDisjoint => ConnectedListsItsTools' /\ DeletedIsGone'
  <2>1. \A c : CutShort(c) => CutShort(c)'
    BY <1>1, <1>2, <1>3 DEF CutShort
  <2> QED
    BY <1>2, <2>1 DEF IInv, ConnectedListsItsTools, DeletedIsGone
<1> QED
  BY <1>2, <1>4, <1>5, <1>6, <1>7, <1>8, <1>9, <1>10, <1>11 DEF IInv, ClientTableExact

\* A request is cut short where it would have swept the tools.
LEMMA DisconnectCancelledKeeps ==
    ASSUME IInv, NEW r \in Request, DisconnectCancelled(r)
    PROVE  IInv'
<1>1. /\ TypeOK /\ RequestInv /\ WaitInv /\ ShutdownInv /\ RegisteredInUse /\ NoLeak /\ NoDanglingTool
      /\ pc[r] \in Waiting
  BY DEF IInv, ClientTableExact, DisconnectCancelled, Cancels
<1>2. /\ pc' = [pc EXCEPT ![r] = "cancelled"]
      /\ UNCHANGED <<store, clients, tools, status, offers, target, enabled, old, after, shutdown, leaving, oneAtATime>>
  BY DEF DisconnectCancelled, Goto, gateway
<1>3. pc'[r] = "cancelled" /\ \A q \in Request \ {r} : pc'[q] = pc[q]
  BY <1>1, <1>2 DEF TypeOK
<1>4. TypeOK'
  BY <1>1, <1>2 DEF TypeOK
<1>5. RequestInv' /\ WaitInv' /\ RegisteredInUse' /\ NoLeak'
  BY <1>1, <1>2, <1>3 DEF RequestInv, WaitInv, RegisteredInUse, NoLeak
<1>6. ShutdownInv'
  BY <1>1, <1>2, <1>3 DEF ShutdownInv, InFlight
<1>7. \A c \in Request : CutShort(c) => CutShort(c)'
  BY <1>1, <1>2, <1>3 DEF CutShort
<1>8. NoDanglingTool'
  <2>1. SUFFICES ASSUME NEW f \in Tool, NEW c \in Request, tools[f] = c
                 PROVE  Settled(c)'
    BY <1>1, <1>2 DEF NoDanglingTool, TypeOK
  <2>2. Settled(c)
    BY <1>1, <2>1, Facts DEF NoDanglingTool
  <2>3. Awaited(c) => Awaited(c)' \/ CutShort(c)'
    BY <1>2, <1>3 DEF Awaited, CutShort
  <2> QED
    BY <1>2, <1>7, <2>2, <2>3 DEF Settled
<1>9. oneAtATime => Alone'
  <2>1. \A q \in Request : pc'[q] \in InFlight => pc[q] \in InFlight /\ pc'[q] = pc[q]
    BY <1>3 DEF InFlight
  <2> QED
    BY <1>2, <2>1 DEF IInv, Alone, InFlight
<1>10. PrefixesDisjoint => ConnectedListsItsTools' /\ DeletedIsGone'
  <2>1. \A f \in Tool : tools[f] = None \/ CutShort(tools[f]) => (tools[f] = None \/ CutShort(tools[f]))'
    BY <1>1, <1>2, <1>7 DEF TypeOK
  <2> QED
    BY <1>2, <2>1, PrefixedAssumption DEF IInv, ConnectedListsItsTools, DeletedIsGone
<1> QED
  BY <1>2, <1>4, <1>5, <1>6, <1>8, <1>9, <1>10 DEF IInv, ClientTableExact

\* A connection comes or goes: that is not what the tables rest on, only whether the
\* client has been asked to close.
LEMMA ClientKeeps ==
    ASSUME IInv, NEW c \in Request, Closes(c) \/ Breaks(c) \/ Reopens(c)
    PROVE  IInv'
<1>1. /\ TypeOK /\ RequestInv /\ WaitInv /\ ShutdownInv /\ RegisteredInUse /\ NoLeak /\ NoDanglingTool
  BY DEF IInv, ClientTableExact
<1>2. UNCHANGED <<store, clients, tools, offers, pc, target, enabled, old, after, shutdown, leaving, oneAtATime>>
  BY DEF Closes, Breaks, Reopens, ClientStep, gateway
<1>3. \E to \in {"open", "broken", "closed", "reopened"} :
          status' = [status EXCEPT ![c] = to] /\ (to \in {"open", "broken"} <=> InUse(c))
  BY DEF Closes, Breaks, Reopens, ClientStep
<1>4. /\ \A q \in Request : (InUse(q) <=> InUse(q)') /\ (status[q] \in Asked <=> status'[q] \in Asked)
      /\ \A q \in Request \ {c} : status'[q] = status[q]
      /\ status[c] \in Asked \cup {"open", "broken"} /\ status'[c] \in Asked \cup {"open", "broken"}
  BY <1>1, <1>3 DEF TypeOK, Closes, Breaks, Reopens, ClientStep
<1>5. TypeOK'
  BY <1>1, <1>2, <1>3 DEF TypeOK, Status
<1>6. RequestInv'
  BY <1>1, <1>2, <1>4 DEF RequestInv
<1>7. WaitInv'
  <2>1. \A w \in Waiter : old[w] # None => old[w] \in Request
    BY <1>1 DEF TypeOK
  <2> QED
    BY <1>1, <1>2, <1>4, <2>1 DEF WaitInv
<1>8. ShutdownInv'
  BY <1>1, <1>2 DEF ShutdownInv
<1>9. RegisteredInUse' /\ NoLeak'
  <2>1. \A u \in Server : clients[u] # None => clients[u] \in Request
    BY <1>1 DEF TypeOK
  <2>2. \A u \in Server : clients[u] # None => InUse(clients[u])'
    BY <1>1, <1>2, <1>4, <2>1 DEF RegisteredInUse
  <2> QED
    BY <1>1, <1>2, <1>4, <2>2 DEF RegisteredInUse, NoLeak
<1>10. NoDanglingTool'
  <2>1. SUFFICES ASSUME NEW f \in Tool, NEW d \in Request, tools[f] = d
                 PROVE  Settled(d)'
    BY <1>1, <1>2 DEF NoDanglingTool, TypeOK
  <2>2. Settled(d)
    BY <1>1, <2>1, Facts DEF NoDanglingTool
  <2>3. (Awaited(d) => Awaited(d)') /\ (CutShort(d) => CutShort(d)')
    BY <1>2 DEF Awaited, CutShort
  <2> QED
    BY <1>4, <2>2, <2>3 DEF Settled
<1>11. oneAtATime => Alone'
  BY <1>2 DEF IInv, Alone
<1>12. PrefixesDisjoint => ConnectedListsItsTools' /\ DeletedIsGone'
  BY <1>2 DEF IInv, ConnectedListsItsTools, DeletedIsGone, CutShort
<1> QED
  BY <1>2, <1>5, <1>6, <1>7, <1>8, <1>9, <1>10, <1>11, <1>12 DEF IInv, ClientTableExact

\* shutdown asks a client to close.
LEMMA ShutdownDisconnectsKeeps ==
    ASSUME IInv, NEW s \in Server, ShutdownDisconnects(s)
    PROVE  IInv'
<1>0. PICK c \in Request : c = clients[s]
  BY DEF IInv, TypeOK, ShutdownDisconnects, PopClient
<1>1. /\ TypeOK /\ RequestInv /\ WaitInv /\ ShutdownInv /\ RegisteredInUse /\ NoLeak /\ NoDanglingTool
      /\ shutdown = "stopping" /\ s \in leaving /\ c # None
  BY <1>0 DEF IInv, ClientTableExact, ShutdownDisconnects, PopClient
<1>2. c \in Request /\ InUse(c) /\ target[c] = s
  BY <1>0, <1>1 DEF TypeOK, RegisteredInUse
<1>3. /\ clients' = [clients EXCEPT ![s] = None]
      /\ \E st \in {"closing", "closed"} : status' = [status EXCEPT ![c] = st]
      /\ old' = [old EXCEPT ![Shutdown] = c] /\ shutdown' \in Waiting
      /\ UNCHANGED <<store, tools, offers, pc, target, enabled, after, leaving, oneAtATime>>
  BY <1>0 DEF ShutdownDisconnects, PopClient, Asks
<1>4. /\ clients'[s] = None /\ \A u \in Server \ {s} : clients'[u] = clients[u]
      /\ status'[c] \in {"closing", "closed"} /\ \A q \in Request \ {c} : status'[q] = status[q]
      /\ old'[Shutdown] = c /\ \A w \in Waiter \ {Shutdown} : old'[w] = old[w]
  BY <1>1, <1>2, <1>3, Facts DEF TypeOK
<1>5. TypeOK'
  BY <1>1, <1>2, <1>3, Facts DEF TypeOK, Status
<1>6. RequestInv'
  BY <1>1, <1>2, <1>3, <1>4 DEF RequestInv
<1>7. WaitInv'
  <2>1. \A w \in Waiter : old[w] # None => old[w] \in Request \ {c}
    BY <1>0, <1>1, <1>2 DEF TypeOK, WaitInv
  <2>2. \A w \in Waiter : old'[w] # None => status'[old'[w]] \in Asked
    BY <1>1, <1>4, <2>1 DEF WaitInv
  <2> QED
    BY <1>1, <1>3, <2>2 DEF WaitInv
<1>8. ShutdownInv'
  BY <1>1, <1>2, <1>3, <1>4, Facts DEF ShutdownInv
<1>9. RegisteredInUse'
  <2>1. \A u \in Server \ {s} : clients[u] # None => clients[u] \in Request \ {c}
    BY <1>0, <1>1, <1>2 DEF RegisteredInUse, TypeOK
  <2> QED
    BY <1>1, <1>3, <1>4, <2>1 DEF RegisteredInUse
<1>10. NoLeak'
  <2>1. SUFFICES ASSUME oneAtATime, NEW q \in Request, InUse(q)'
                 PROVE  clients'[target[q]] = q
    BY <1>3 DEF NoLeak
  <2>2. q # c /\ InUse(q) /\ clients[target[q]] = q /\ target[q] \in Server
    BY <1>1, <1>4, <2>1 DEF NoLeak, RequestInv
  <2>3. target[q] # s
    BY <1>0, <2>2
  <2> QED
    BY <1>4, <2>2, <2>3
<1>11. NoDanglingTool'
  <2>1. SUFFICES ASSUME NEW f \in Tool, NEW d \in Request, tools[f] = d
                 PROVE  Settled(d)'
    BY <1>1, <1>3 DEF NoDanglingTool, TypeOK
  <2>2. Settled(d)
    BY <1>1, <2>1, Facts DEF NoDanglingTool
  <2>3. Awaited(c)'
    BY <1>1, <1>2, <1>3, <1>4 DEF Awaited
  <2>4. (Awaited(d) => Awaited(d)') /\ (CutShort(d) => CutShort(d)')
    BY <1>1, <1>3, <1>4, Facts DEF Awaited, CutShort
  <2> QED
    BY <1>4, <2>2, <2>3, <2>4 DEF Settled
<1>12. oneAtATime => Alone'
  BY <1>1, <1>3, <1>4 DEF IInv, Alone, RequestInv, InFlight
<1>13. PrefixesDisjoint => ConnectedListsItsTools' /\ DeletedIsGone'
  <2>1. \A d \in Request : CutShort(d) => CutShort(d)'
    BY <1>1, <1>3, <1>4, Facts DEF CutShort
  <2>2. \A f \in Tool : tools[f] = None \/ CutShort(tools[f]) => (tools[f] = None \/ CutShort(tools[f]))'
    BY <1>1, <1>3, <2>1 DEF TypeOK
  <2> QED
    BY <1>3, <1>4, <2>2, PrefixedAssumption DEF IInv, ConnectedListsItsTools, DeletedIsGone
<1> QED
  BY <1>3, <1>5, <1>6, <1>7, <1>8, <1>9, <1>10, <1>11, <1>12, <1>13 DEF IInv, ClientTableExact

\* The client is closed: the tools of its server go.
LEMMA ShutdownDisconnectedKeeps ==
    ASSUME IInv, NEW s \in Server, ShutdownDisconnected(s)
    PROVE  IInv'
<1>1. /\ TypeOK /\ RequestInv /\ WaitInv /\ ShutdownInv /\ RegisteredInUse /\ NoLeak /\ NoDanglingTool
      /\ shutdown \in Waiting /\ old[Shutdown] # None /\ target[old[Shutdown]] = s
  BY DEF IInv, ClientTableExact, ShutdownDisconnected, Returns
<1>11. clients[s] = None
  BY <1>1 DEF ShutdownInv
<1>2. /\ old' = [old EXCEPT ![Shutdown] = None] /\ leaving' = leaving \ {s} /\ SweepTools(s)
      /\ shutdown' = "stopping"
      /\ UNCHANGED <<store, clients, status, offers, pc, target, enabled, after, oneAtATime>>
  BY DEF ShutdownDisconnected
<1>3. /\ old'[Shutdown] = None /\ \A w \in Waiter \ {Shutdown} : old'[w] = old[w]
      /\ \A f \in Tool : tools'[f] = IF f \in Prefixed[s] THEN None ELSE tools[f]
  BY <1>1, <1>2, Facts DEF TypeOK, SweepTools
<1>12. \A d \in Request : CutShort(d) => CutShort(d)'
  BY <1>1, <1>2, <1>3, Facts DEF CutShort
<1>4. TypeOK'
  BY <1>1, <1>2 DEF TypeOK, SweepTools
<1>5. RequestInv' /\ ShutdownInv' /\ RegisteredInUse' /\ NoLeak'
  BY <1>1, <1>2, <1>3 DEF RequestInv, ShutdownInv, RegisteredInUse, NoLeak
<1>6. WaitInv'
  <2>1. \A w \in Waiter : old'[w] # None => status'[old'[w]] \in Asked
    BY <1>1, <1>2, <1>3 DEF WaitInv
  <2>2. \A f \in Tool : tools'[f] # None => f \in Prefixed[target'[tools'[f]]]
    BY <1>1, <1>2, <1>3 DEF WaitInv
  <2> QED
    BY <2>1, <2>2 DEF WaitInv
<1>7. NoDanglingTool'
  <2>1. SUFFICES ASSUME NEW f \in Tool, NEW d \in Request, tools'[f] = d, tools[f] = d, f \notin Prefixed[s]
                 PROVE  Settled(d)'
    <3>1. \A f \in Tool : tools'[f] # None =>
              tools'[f] \in Request /\ tools[f] = tools'[f] /\ f \notin Prefixed[s]
      BY <1>1, <1>3 DEF TypeOK
    <3> QED
      BY <3>1 DEF NoDanglingTool
  <2>2. Settled(d)
    BY <1>1, <2>1, Facts DEF NoDanglingTool
  <2>3. old[Shutdown] # d
    BY <1>1, <2>1, Facts DEF WaitInv
  <2>4. Awaited(d) => Awaited(d)'
    BY <1>2, <1>3, <2>3, Facts DEF Awaited
  <2> QED
    BY <1>2, <1>12, <2>2, <2>4 DEF Settled
<1>8. oneAtATime => Alone'
  BY <1>2 DEF IInv, Alone
<1>9. PrefixesDisjoint => ConnectedListsItsTools'
  <2>1. SUFFICES ASSUME PrefixesDisjoint, oneAtATime, NEW u \in Server, clients[u] # None,
                      NEW f \in Prefixed[u]
               PROVE  Listed(u, f)'
    BY <1>2 DEF ConnectedListsItsTools, Listed
  <2>2. u # s /\ f \notin Prefixed[s] /\ f \in Tool
    BY <1>11, <2>1, PrefixedAssumption DEF PrefixesDisjoint
  <2>3. Listed(u, f) /\ (tools[f] # None => tools[f] \in Request)
    BY <1>1, <2>1, <2>2 DEF IInv, ConnectedListsItsTools, Listed, TypeOK
  <2> QED
    BY <1>2, <1>3, <1>12, <2>2, <2>3 DEF Listed
<1>10. PrefixesDisjoint => DeletedIsGone'
  <2>1. \A f \in Tool : tools[f] = None \/ CutShort(tools[f]) => (tools[f] = None \/ CutShort(tools[f]))'
    BY <1>1, <1>3, <1>12 DEF TypeOK
  <2> QED
    BY <1>2, <2>1, PrefixedAssumption DEF IInv, DeletedIsGone
<1> QED
  BY <1>2, <1>4, <1>5, <1>6, <1>7, <1>8, <1>9, <1>10 DEF IInv, ClientTableExact

\* shutdown is cut short: the tools of that server stay, like those of the others.
LEMMA ShutdownCancelledKeeps ==
    ASSUME IInv, ShutdownCancelled
    PROVE  IInv'
<1>1. /\ TypeOK /\ RequestInv /\ WaitInv /\ ShutdownInv /\ RegisteredInUse /\ NoLeak /\ NoDanglingTool
      /\ shutdown \in Waiting
  BY DEF IInv, ClientTableExact, ShutdownCancelled, Cancels
<1>2. /\ shutdown' = "cancelled"
      /\ UNCHANGED <<store, clients, tools, status, offers, pc, target, enabled, old, after, leaving, oneAtATime>>
  BY DEF ShutdownCancelled
<1>3. TypeOK'
  BY <1>1, <1>2 DEF TypeOK
<1>4. /\ RequestInv' /\ WaitInv' /\ ShutdownInv' /\ RegisteredInUse' /\ NoLeak'
      /\ oneAtATime => Alone'
  BY <1>1, <1>2 DEF IInv, RequestInv, WaitInv, ShutdownInv, RegisteredInUse, NoLeak, Alone
<1>5. \A d \in Request : (Awaited(d) => Awaited(d)' \/ CutShort(d)') /\ (CutShort(d) => CutShort(d)')
  BY <1>1, <1>2 DEF Awaited, CutShort
<1>6. NoDanglingTool'
  <2>1. SUFFICES ASSUME NEW f \in Tool, NEW d \in Request, tools[f] = d
                 PROVE  Settled(d)'
    BY <1>1, <1>2 DEF NoDanglingTool, TypeOK
  <2>2. Settled(d)
    BY <1>1, <2>1, Facts DEF NoDanglingTool
  <2> QED
    BY <1>2, <1>5, <2>2 DEF Settled
<1>7. PrefixesDisjoint => ConnectedListsItsTools' /\ DeletedIsGone'
  <2>1. \A f \in Tool : tools[f] = None \/ CutShort(tools[f]) => (tools[f] = None \/ CutShort(tools[f]))'
    BY <1>1, <1>2, <1>5 DEF TypeOK
  <2> QED
    BY <1>2, <2>1, PrefixedAssumption DEF IInv, ConnectedListsItsTools, DeletedIsGone
<1> QED
  BY <1>2, <1>3, <1>4, <1>6, <1>7 DEF IInv, ClientTableExact

LEMMA ShutdownTurnsKeep ==
    ASSUME IInv, BeginShutdown \/ ShutdownDone
    PROVE  IInv'
<1>1. UNCHANGED <<store, clients, tools, status, offers, pc, target, enabled, old, after, oneAtATime>>
  BY DEF BeginShutdown, ShutdownDone
<1>2. /\ shutdown' \in {"stopping", "down"} /\ leaving' \in SUBSET Server
      /\ old[Shutdown] = None /\ \A r \in Request : pc[r] \notin InFlight
  BY DEF BeginShutdown, ShutdownDone, IInv, ShutdownInv, TypeOK
<1>3. TypeOK'
  BY <1>1, <1>2 DEF IInv, TypeOK
<1>4. /\ RequestInv' /\ WaitInv' /\ ShutdownInv' /\ RegisteredInUse' /\ NoLeak'
      /\ oneAtATime => Alone'
  BY <1>1, <1>2 DEF IInv, RequestInv, WaitInv, ShutdownInv, ClientTableExact, RegisteredInUse, NoLeak, Alone
<1>5. NoDanglingTool'
  <2>1. SUFFICES ASSUME NEW f \in Tool, NEW d \in Request, tools[f] = d
                 PROVE  Settled(d)'
    BY <1>1, <1>3 DEF NoDanglingTool, TypeOK
  <2>2. Settled(d)
    BY <2>1, Facts DEF IInv, NoDanglingTool
  <2>3. shutdown \in {"up", "stopping"}
    BY DEF BeginShutdown, ShutdownDone
  <2> QED
    BY <1>1, <2>2, <2>3 DEF Awaited, CutShort, Settled
<1>6. PrefixesDisjoint => ConnectedListsItsTools' /\ DeletedIsGone'
  <2>1. \A c : CutShort(c) => CutShort(c)'
    BY <1>1 DEF CutShort, BeginShutdown, ShutdownDone
  <2> QED
    BY <1>1, <2>1 DEF IInv, ConnectedListsItsTools, DeletedIsGone
<1> QED
  BY <1>1, <1>3, <1>4, <1>5, <1>6 DEF IInv, ClientTableExact

---------------------------------------------------------------------------
(* The theorems *)

LEMMA InitHolds == Init => IInv
<1> SUFFICES ASSUME Init PROVE IInv
  OBVIOUS
<1>1. TypeOK
  BY Facts DEF Init, TypeOK, Status
<1>2. RequestInv /\ WaitInv /\ ShutdownInv
  BY Facts DEF Init, RequestInv, WaitInv, ShutdownInv
<1>3. ClientTableExact /\ NoDanglingTool
  BY DEF Init, ClientTableExact, RegisteredInUse, NoLeak, NoDanglingTool
<1>4. Alone
  BY DEF Init, Alone, InFlight
<1>5. ConnectedListsItsTools /\ DeletedIsGone
  BY PrefixedAssumption DEF Init, ConnectedListsItsTools, DeletedIsGone
<1> QED
  BY <1>1, <1>2, <1>3, <1>4, <1>5 DEF IInv

LEMMA NextKeeps == IInv /\ [Next]_vars => IInv'
<1> SUFFICES ASSUME IInv, [Next]_vars PROVE IInv'
  OBVIOUS
<1>1. CASE \E r \in Request, s \in Server :
              \/ Create(r, s) \/ Update(r, s) \/ Delete(r, s)
              \/ Toggle(r, s) \/ Connect(r, s) \/ Disconnect(r, s)
  BY <1>1, ArrivalKeeps
<1>2. CASE \E r \in Request :
              \/ Disconnected(r) \/ DisconnectCancelled(r) \/ Connected(r) \/ ConnectFails(r)
              \/ Closes(r) \/ Breaks(r) \/ Reopens(r)
  BY <1>2, DisconnectedKeeps, DisconnectCancelledKeeps, ConnectedKeeps, ConnectFailsKeeps, ClientKeeps
<1>3. CASE BeginShutdown \/ ShutdownCancelled \/ ShutdownDone
  BY <1>3, ShutdownTurnsKeep, ShutdownCancelledKeeps
<1>4. CASE \E s \in Server : ShutdownDisconnects(s) \/ ShutdownDisconnected(s)
  BY <1>4, ShutdownDisconnectsKeeps, ShutdownDisconnectedKeeps
<1>5. CASE UNCHANGED vars
  <2>1. UNCHANGED <<store, clients, tools, status, offers, pc, target, enabled, old, after, shutdown, leaving, oneAtATime>>
    BY <1>5 DEF vars
  <2>2. TypeOK' /\ RequestInv' /\ WaitInv' /\ ShutdownInv' /\ ClientTableExact'
    BY <2>1 DEF IInv, TypeOK, RequestInv, WaitInv, ShutdownInv, ClientTableExact, RegisteredInUse, NoLeak
  <2>3. NoDanglingTool' /\ (oneAtATime' => Alone')
    BY <2>1 DEF IInv, NoDanglingTool, Settled, Awaited, CutShort, Alone
  <2>4. PrefixesDisjoint => ConnectedListsItsTools' /\ DeletedIsGone'
    BY <2>1 DEF IInv, ConnectedListsItsTools, DeletedIsGone, CutShort
  <2> QED
    BY <2>2, <2>3, <2>4 DEF IInv
<1> QED
  BY <1>1, <1>2, <1>3, <1>4, <1>5 DEF Next

\* The store, the tables and the requests are well typed.
THEOREM TypeCorrect == Spec => []TypeOK
<1>1. IInv => TypeOK
  BY DEF IInv
<1> QED
  BY <1>1, InitHolds, NextKeeps, PTL DEF Spec

\* The table of clients holds clients of the right servers that nobody asked to close,
\* and all of them when the requests for a server come one after another (manager.py
\* _clients); any connection may break, and a wrapped tool reopen any.
THEOREM ClientTableExactHolds == Spec => []ClientTableExact
<1>1. IInv => ClientTableExact
  BY DEF IInv
<1> QED
  BY <1>1, InitHolds, NextKeeps, PTL DEF Spec

\* No wrapped tool of a client that was asked to close is left behind, but where the
\* CancelledError of a broken connection cut its disconnect short (manager.py:90), and
\* whatever the servers' names.
THEOREM NoDanglingToolHolds == Spec => []NoDanglingTool
<1>1. IInv => NoDanglingTool
  BY DEF IInv
<1> QED
  BY <1>1, InitHolds, NextKeeps, PTL DEF Spec

\* If the prefix of no server extends another's, the table of tools is exact as well.
THEOREM ToolTableExactHolds == Spec => [](PrefixesDisjoint => ToolTableExact)
<1>1. IInv => (PrefixesDisjoint => ToolTableExact)
  BY DEF IInv, ToolTableExact
<1> QED
  BY <1>1, InitHolds, NextKeeps, PTL DEF Spec

\* And a server without a config has neither a client nor tools, if the requests for
\* it come one after another.
THEOREM DeletedIsGoneHolds == Spec => [](PrefixesDisjoint => DeletedIsGone)
<1>1. IInv => (PrefixesDisjoint => DeletedIsGone)
  BY DEF IInv
<1> QED
  BY <1>1, InitHolds, NextKeeps, PTL DEF Spec
=============================================================================
