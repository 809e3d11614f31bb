----------------------------- MODULE McpManager -----------------------------
(***************************************************************************)
(* MCPManager (harness/mcp/manager.py) under the requests of the admin API *)
(* (gateway/server.py, /api/mcp/servers): the store of server configs, the *)
(* table of connected clients and the table of wrapped tools, which        *)
(* requests change between the suspensions of connect and disconnect.      *)
(*                                                                         *)
(* A request works on one server and opens at most one client, which is    *)
(* named after it.  initialize is a connect of every enabled server, and   *)
(* an import a create or an update of every server of the file, one after  *)
(* another.  McpClient models the client: here it opens or fails, its      *)
(* connection may break, it closes when asked to, and a wrapped tool that  *)
(* an agent holds reopens it at any time.  A server offers tools of its    *)
(* own choice; the name of one server may extend the name of another       *)
(* ("a", "a__b").                                                          *)
(***************************************************************************)
EXTENDS Naturals, FiniteSets

CONSTANTS
    Request,
    Server,
    Tool,          \* func_names of wrapped tools
    Prefixed,      \* the func_names that begin with the prefix of each server
    None

ASSUME NoneAssumption == None \notin Request \cup Server
ASSUME PrefixedAssumption == Prefixed \in [Server -> SUBSET Tool]

VARIABLES
    store,       \* the config file: each server "absent", "off" or "on" (enabled)
    clients,     \* _clients
    tools,       \* _tools and _tools_info: the client behind each wrapped tool
    status,      \* the connection of each client
    offers,      \* the tools a client discovered
    pc,          \* where each request is
    target,      \* the server a request is about
    enabled,     \* the config a request carries: "on" or "off"
    old,         \* the client a request waits for to close
    after,       \* what a request does when that client is closed
    shutdown,    \* where the gateway's shutdown is
    leaving,     \* the servers shutdown has still to disconnect
    oneAtATime   \* how the API is used, fixed from the start; TRUE: no two requests
                 \* work on one server at the same time

vars == <<store, clients, tools, status, offers, pc, target, enabled, old, after,
          shutdown, leaving, oneAtATime>>

gateway == <<shutdown, leaving, oneAtATime>>

\* The gateway's shutdown waits for clients to close like a request does.
Shutdown == None
Waiter == Request \cup {Shutdown}

\* "disconnecting": suspended in client.disconnect; "sweeping": back from it, or in one
\* that does not suspend, and about to sweep the tools.
Waiting == {"disconnecting", "sweeping"}
InFlight == Waiting \cup {"connecting"}

\* "open" and "broken": never asked to close; "reopened": asked to, and connected again
\* by a wrapped tool since (that connection too may come and go).
Status == {"new", "connecting", "failed", "open", "broken", "closing", "closed", "reopened"}

TypeOK ==
    /\ store \in [Server -> {"absent", "off", "on"}]
    /\ clients \in [Server -> Request \cup {None}]
    /\ tools \in [Tool -> Request \cup {None}]
    /\ status \in [Request -> Status]
    /\ offers \in [Request -> SUBSET Tool]
    /\ pc \in [Request -> {"idle", "returned", "raised", "cancelled"} \cup InFlight]
    /\ target \in [Request -> Server \cup {None}]
    /\ enabled \in [Request -> {"on", "off"}]
    /\ old \in [Waiter -> Request \cup {None}]
    /\ after \in [Request -> {"return", "delete", "replace", "connect"}]
    /\ shutdown \in {"up", "stopping", "down", "cancelled"} \cup Waiting
    /\ leaving \in SUBSET Server
    /\ oneAtATime \in BOOLEAN

Init ==
    /\ store \in [Server -> {"absent", "off", "on"}]
    /\ clients = [s \in Server |-> None]
    /\ tools = [f \in Tool |-> None]
    /\ status = [r \in Request |-> "new"]
    /\ offers = [r \in Request |-> {}]
    /\ pc = [r \in Request |-> "idle"]
    /\ target = [r \in Request |-> None]
    /\ enabled = [r \in Request |-> "off"]
    /\ old = [w \in Waiter |-> None]
    /\ after = [r \in Request |-> "return"]
    /\ shutdown = "up"
    /\ leaving = {}
    /\ oneAtATime \in BOOLEAN

-----------------------------------------------------------------------------
(* The steps the operations are made of *)

Goto(r, label) == pc' = [pc EXCEPT ![r] = label]

\* Mutant: the client leaves the table only when it is closed.
PopClientLater(w, s) ==
    /\ clients[s] # None
    /\ status' = [status EXCEPT ![clients[s]] = IF @ = "open" THEN "closing" ELSE "closed"]
    /\ old' = [old EXCEPT ![w] = clients[s]]
    /\ UNCHANGED clients

\* disconnect_server up to its suspension: the client leaves the table and is
\* asked to close.
PopClient(w, s) ==
    /\ clients[s] # None
    /\ clients' = [clients EXCEPT ![s] = None]
    /\ status' = [status EXCEPT ![clients[s]] = IF @ = "open" THEN "closing" ELSE "closed"]
    /\ old' = [old EXCEPT ![w] = clients[s]]

\* The disconnect of a connection that has ended by itself does not suspend.
Asks(s) == IF status[clients[s]] = "open" THEN "disconnecting" ELSE "sweeping"

\* No task is between the end of such a disconnect and its next suspension.
Suspended == shutdown # "sweeping" /\ \A r \in Request : pc[r] # "sweeping"

\* The disconnect of c returns to a task that is at label.  One that finds the client
\* reopened waits for that connection too, perhaps for good.
Returns(label, c) ==
    \/ label = "sweeping"
    \/ Suspended /\ label = "disconnecting" /\ status[c] \in {"closed", "reopened"}

\* It lets the CancelledError of the owner of a broken connection pass.
Cancels(label, c) ==
    \/ label = "sweeping"
    \/ Suspended /\ label = "disconnecting" /\ status[c] = "reopened"

\* save_server and delete_server rewrite the file of configs; a name it does not have
\* is "absent".
Saves(s, config) == store' = [store EXCEPT ![s] = config]

\* disconnect_server, when there is a client to wait for.
Await(r, s, next) ==
    /\ PopClient(r, s)
    /\ after' = [after EXCEPT ![r] = next]
    /\ Goto(r, Asks(s))

\* _connect_server from its head to its first suspension: it closes the client
\* that is registered, or connects a new one.
Connecting(r, s) ==
    \/ Await(r, s, "connect")
    \/ /\ clients[s] = None
       /\ status' = [status EXCEPT ![r] = "connecting"]
       /\ Goto(r, "connecting")
       /\ UNCHANGED <<clients, old, after>>

\* add_server
Adding(r, s, config) ==
    /\ Saves(s, config)
    /\ \/ config = "on" /\ Connecting(r, s)
       \/ /\ config = "off"
          /\ Goto(r, "returned")
          /\ UNCHANGED <<clients, status, old, after>>

\* Mutant: the tools stay in the table.
SweepNothing(s) == UNCHANGED tools

\* Mutant: the tools leave the table for good.
SweepForGood(s) == tools' = [f \in Tool \ Prefixed[s] |-> tools[f]]

\* The tools of a server leave the table, whichever client they belong to.
SweepTools(s) == tools' = [f \in Tool |-> IF f \in Prefixed[s] THEN None ELSE tools[f]]

-----------------------------------------------------------------------------
(* The requests, up to their first suspension (one that finds nothing to do changes
   nothing) *)

\* A request arrives, while the gateway serves.
Arrives(r, s) ==
    /\ Suspended
    /\ shutdown = "up"
    /\ pc[r] = "idle"
    /\ oneAtATime => \A q \in Request : target[q] = s => pc[q] \notin InFlight
    /\ target' = [target EXCEPT ![r] = s]
    /\ UNCHANGED <<tools, offers, gateway>>

Create(r, s) ==
    /\ Arrives(r, s)
    /\ \E config \in {"on", "off"} :
          /\ enabled' = [enabled EXCEPT ![r] = config]
          /\ Adding(r, s, config)

\* update: remove the server, then add it with the new config.
Update(r, s) ==
    /\ Arrives(r, s)
    /\ store[s] # "absent"
    /\ \E config \in {"on", "off"} :
          /\ enabled' = [enabled EXCEPT ![r] = config]
          /\ \/ Await(r, s, "replace") /\ UNCHANGED store
             \/ clients[s] = None /\ Adding(r, s, config)

\* Mutant: delete only removes the config.
DeleteConfigOnly(r, s) ==
    /\ Arrives(r, s)
    /\ Saves(s, "absent")
    /\ Goto(r, "returned")
    /\ UNCHANGED <<clients, status, enabled, old, after>>

Delete(r, s) ==
    /\ Arrives(r, s)
    /\ \/ Await(r, s, "delete") /\ UNCHANGED store
       \/ /\ clients[s] = None
          /\ Saves(s, "absent")
          /\ Goto(r, "returned")
          /\ UNCHANGED <<clients, status, old, after>>
    /\ UNCHANGED enabled

\* toggle_server, which no endpoint calls yet: enable and connect, or disable and
\* disconnect.
Toggle(r, s) ==
    /\ Arrives(r, s)
    /\ store[s] # "absent"
    /\ \/ Adding(r, s, "on")
       \/ /\ Saves(s, "off")
          /\ \/ Await(r, s, "return")
             \/ /\ clients[s] = None
                /\ Goto(r, "returned")
                /\ UNCHANGED <<clients, status, old, after>>
    /\ UNCHANGED enabled

Connect(r, s) ==
    /\ Arrives(r, s)
    /\ store[s] # "absent"
    /\ Connecting(r, s)
    /\ UNCHANGED <<store, enabled>>

Disconnect(r, s) ==
    /\ Arrives(r, s)
    /\ Await(r, s, "return")
    /\ UNCHANGED <<store, enabled>>

-----------------------------------------------------------------------------
(* Their continuations *)

\* The old client is closed: its server's tools go, and the request goes on.
Disconnected(r) ==
    LET s == target[r]
    IN  /\ Returns(pc[r], old[r])
        /\ SweepTools(s)
        /\ \/ /\ after[r] = "return"
              /\ Goto(r, "returned")
              /\ UNCHANGED <<store, clients, status, old, after>>
           \/ /\ after[r] = "delete"
              /\ Saves(s, "absent")
              /\ Goto(r, "returned")
              /\ UNCHANGED <<clients, status, old, after>>
           \/ /\ after[r] = "replace"
              /\ Adding(r, s, enabled[r])
           \/ /\ after[r] = "connect"
              /\ status' = [status EXCEPT ![r] = "connecting"]
              /\ Goto(r, "connecting")
              /\ UNCHANGED <<store, clients, old, after>>
        /\ UNCHANGED <<offers, target, enabled, gateway>>

\* A CancelledError leaves disconnect_server and the request: nothing is swept.
DisconnectCancelled(r) ==
    /\ Cancels(pc[r], old[r])
    /\ Goto(r, "cancelled")
    /\ UNCHANGED <<store, clients, tools, status, offers, target, enabled, old, after, gateway>>

\* The client is connected: it is registered and its tools are wrapped.
Connected(r) ==
    /\ Suspended
    /\ pc[r] = "connecting"
    /\ \E found \in SUBSET Prefixed[target[r]] :
          /\ offers' = [offers EXCEPT ![r] = found]
          /\ tools' = [f \in Tool |-> IF f \in found THEN r ELSE tools[f]]
    /\ clients' = [clients EXCEPT ![target[r]] = r]
    /\ status' = [status EXCEPT ![r] = "open"]
    /\ Goto(r, "returned")
    /\ UNCHANGED <<store, target, enabled, old, after, gateway>>

\* connect raises; the exception leaves the request.
ConnectFails(r) ==
    /\ Suspended
    /\ pc[r] = "connecting"
    /\ status' = [status EXCEPT ![r] = "failed"]
    /\ Goto(r, "raised")
    /\ UNCHANGED <<store, clients, tools, offers, target, enabled, old, after, gateway>>

-----------------------------------------------------------------------------
(* The clients *)

ClientStep(c, from, to) ==
    /\ Suspended
    /\ status[c] \in from
    /\ status' = [status EXCEPT ![c] = to]
    /\ UNCHANGED <<store, clients, tools, offers, pc, target, enabled, old, after, gateway>>

\* A client that was asked to close is closed (one whose connection breaks before it
\* has read the command never is).
Closes(c) == ClientStep(c, {"closing"}, "closed")

\* A connection ends by itself; its client stays in the table, its tools are offered.
Breaks(c) == ClientStep(c, {"open"}, "broken")

\* call_tool of a wrapped tool, offered or still held by an agent, finds its client not
\* connected and connects it, whether or not it has been asked to close.
Reopens(c) ==
    /\ offers[c] # {}
    /\ \/ ClientStep(c, {"broken"}, "open")
       \/ ClientStep(c, {"closed"}, "reopened")

-----------------------------------------------------------------------------
(* shutdown: the server has no request left when it runs *)

BeginShutdown ==
    /\ shutdown = "up"
    /\ \A r \in Request : pc[r] \notin InFlight
    /\ shutdown' = "stopping"
    /\ leaving' = {s \in Server : clients[s] # None}
    /\ UNCHANGED <<store, clients, tools, status, offers, pc, target, enabled, old, after,
                   oneAtATime>>

ShutdownDisconnects(s) ==
    /\ shutdown = "stopping"
    /\ s \in leaving
    /\ PopClient(Shutdown, s)
    /\ shutdown' = Asks(s)
    /\ UNCHANGED <<store, tools, offers, pc, target, enabled, after, leaving, oneAtATime>>

ShutdownDisconnected(s) ==
    /\ old[Shutdown] # None
    /\ target[old[Shutdown]] = s
    /\ Returns(shutdown, old[Shutdown])
    /\ SweepTools(s)
    /\ old' = [old EXCEPT ![Shutdown] = None]
    /\ leaving' = leaving \ {s}
    /\ shutdown' = "stopping"
    /\ UNCHANGED <<store, clients, status, offers, pc, target, enabled, after, oneAtATime>>

\* The CancelledError passes shutdown's "except Exception" as well: the servers that
\* are left stay connected.
ShutdownCancelled ==
    /\ Cancels(shutdown, old[Shutdown])
    /\ shutdown' = "cancelled"
    /\ UNCHANGED <<store, clients, tools, status, offers, pc, target, enabled, old, after,
                   leaving, oneAtATime>>

ShutdownDone ==
    /\ shutdown = "stopping"
    /\ leaving = {}
    /\ shutdown' = "down"
    /\ UNCHANGED <<store, clients, tools, status, offers, pc, target, enabled, old, after,
                   leaving, oneAtATime>>

-----------------------------------------------------------------------------

Next ==
    \/ \E r \in Request, s \in Server :
          \/ Create(r, s) \/ Update(r, s) \/ Delete(r, s)
          \/ Toggle(r, s) \/ Connect(r, s) \/ Disconnect(r, s)
    \/ \E r \in Request :
          \/ Disconnected(r) \/ DisconnectCancelled(r) \/ Connected(r) \/ ConnectFails(r)
          \/ Closes(r) \/ Breaks(r) \/ Reopens(r)
    \/ BeginShutdown \/ ShutdownCancelled \/ ShutdownDone
    \/ \E s \in Server : ShutdownDisconnects(s) \/ ShutdownDisconnected(s)

Spec == Init /\ [][Next]_vars

-----------------------------------------------------------------------------
(* Properties *)

\* Nobody has asked the client to close; its connection is open, or has broken.
InUse(c) == status[c] \in {"open", "broken"}

RegisteredInUse ==
    \A s \in Server :
        clients[s] # None => InUse(clients[s]) /\ target[clients[s]] = s

NoLeak == oneAtATime => \A r \in Request : InUse(r) => clients[target[r]] = r

\* The table of clients holds clients of the right server that nobody has asked to
\* close, although connect, disconnect and shutdown all work on it across suspensions;
\* and when the requests for a server come one after another, every client that was
\* connected and not asked to close is in the table, where disconnect and shutdown find
\* it (manager.py _clients): a connection outside it is one that a wrapped tool
\* reopened after its disconnect (client.py:183).
ClientTableExact == RegisteredInUse /\ NoLeak

\* Somebody waits for client c to close, and removes its server's tools then.
Awaited(c) ==
    \/ \E r \in Request : pc[r] \in Waiting /\ old[r] = c /\ target[r] = target[c]
    \/ shutdown \in Waiting /\ old[Shutdown] = c

\* The disconnect of c was cut short by the CancelledError of a broken connection
\* (client.py:164, 177), which manager.py:90 does not expect.
CutShort(c) ==
    \/ \E r \in Request : pc[r] = "cancelled" /\ old[r] = c
    \/ shutdown = "cancelled" /\ old[Shutdown] = c

\* It is settled whether the tools of c may be in the table.
Settled(c) == InUse(c) \/ Awaited(c) \/ CutShort(c)

NoDanglingTool == \A f \in Tool : tools[f] # None => Settled(tools[f])

ConnectedListsItsTools ==
    oneAtATime => \A s \in Server :
        clients[s] # None =>
            \A f \in Prefixed[s] :
                IF f \in offers[clients[s]]
                THEN tools[f] = clients[s]
                ELSE tools[f] = None \/ CutShort(tools[f])

\* A wrapped tool is never left behind for good when its client is asked to close: the
\* task that asked has yet to sweep the tools of that server, or was cut short by the
\* cancelled owner of a broken connection; and when the requests for a server come one
\* after another, a registered client has exactly the tools found when the manager
\* connected it, none of an earlier client's but those of such a disconnect, if no
\* other server's prefix extends its own (manager.py _tools).
ToolTableExact == NoDanglingTool /\ ConnectedListsItsTools

\* When the requests for a server come one after another, one without a config has no
\* client and none of its tools is offered, but those of a disconnect that was cut
\* short.
DeletedIsGone ==
    oneAtATime => \A s \in Server :
        store[s] = "absent" =>
            /\ clients[s] = None
            /\ \A f \in Prefixed[s] : tools[f] = None \/ CutShort(tools[f])

\* shutdown disconnects "all MCP servers gracefully" (manager.py:45): no client that the
\* manager connected is left open (a wrapped tool may reopen one afterwards).
ShutdownClosesAll ==
    shutdown = "down" => \A r \in Request : status[r] \notin {"open", "closing"}
=============================================================================
