------------------------------ MODULE McpClient ------------------------------
(***************************************************************************)
(* One MCPClient object (harness/mcp/client.py).  A connection is owned by *)
(* a task of its own, which opens the session, serves the commands of the  *)
(* command queue and closes the session; connect, disconnect and call_tool *)
(* run in other tasks and talk to the owner through the queue and futures. *)
(*                                                                         *)
(* The callers are those the repository has: MCPManager connects a client  *)
(* once, wraps its tools when that returned, and disconnects it at most    *)
(* once (it pops the client first); the wrapped tools call call_tool at    *)
(* any time, also after the disconnect.                                    *)
(*                                                                         *)
(* An action is what one task does between two suspension points.  Futures *)
(* and queues are named after the caller that made them; an owner task and *)
(* its ready future and command queue after the caller that connected.     *)
(***************************************************************************)
EXTENDS Naturals, Sequences

CONSTANTS
    Call,          \* runs of a wrapped tool
    Opener,        \* MCPManager._connect_server
    Closer,        \* MCPManager.disconnect_server
    None

ASSUME CallerAssumption ==
    /\ Opener \notin Call /\ Closer \notin Call /\ Opener # Closer
    /\ None \notin Call \cup {Opener, Closer}

Caller == Call \cup {Opener, Closer}

\* Who may open a connection.
Owner == Call \cup {Opener}

VARIABLES
    connected,     \* _connected
    ownerTask,     \* _owner_task
    readyFuture,   \* _ready_future
    commandQueue,  \* _command_queue
    session,       \* _session and _transport: the owner that entered them
    lockHolder,    \* the holder of _connect_lock
    queue,         \* the commands in each queue object, by caller
    owner,         \* what each owner task does
    getsFrom,      \* the queue object an owner task waits on
    serves,        \* the command an owner task has taken
    ready,         \* the outcome of each ready future
    response,      \* the outcome of each caller's response future
    awaits,        \* the owner task a caller awaits
    pc,            \* where each caller is
    lossy          \* fixed from the start; TRUE: connections may break

vars == <<connected, ownerTask, readyFuture, commandQueue, session, lockHolder,
          queue, owner, getsFrom, serves, ready, response, awaits, pc, lossy>>

client == <<connected, ownerTask, readyFuture, commandQueue, session>>
task == <<owner, getsFrom, serves>>

Live == {"connecting", "idle", "serving", "closing"}

TypeOK ==
    /\ connected \in BOOLEAN
    /\ ownerTask \in Owner \cup {None}
    /\ readyFuture \in Owner \cup {None}
    /\ commandQueue \in Owner \cup {None}
    /\ session \in Owner \cup {None}
    /\ lockHolder \in Owner \cup {None}
    /\ queue \in [Owner -> Seq(Caller)]
    /\ owner \in [Owner -> Live \cup {"absent", "done"}]
    /\ getsFrom \in [Owner -> Owner \cup {None}]
    /\ serves \in [Owner -> Caller \cup {None}]
    /\ ready \in [Owner -> {"pending", "tools", "error"}]
    /\ response \in [Caller -> {"pending", "result", "error"}]
    /\ awaits \in [Caller -> Owner \cup {None}]
    /\ pc \in [Caller -> {"idle", "wantsLock", "awaitsReady", "awaitsOwner",
                          "awaitsResponse", "returned", "raised"}]
    /\ lossy \in BOOLEAN

Init ==
    /\ connected = FALSE
    /\ ownerTask = None
    /\ readyFuture = None
    /\ commandQueue = None
    /\ session = None
    /\ lockHolder = None
    /\ queue = [o \in Owner |-> <<>>]
    /\ owner = [o \in Owner |-> "absent"]
    /\ getsFrom = [o \in Owner |-> None]
    /\ serves = [o \in Owner |-> None]
    /\ ready = [o \in Owner |-> "pending"]
    /\ response = [c \in Caller |-> "pending"]
    /\ awaits = [c \in Caller |-> None]
    /\ pc = [c \in Caller |-> "idle"]
    /\ lossy \in BOOLEAN

Goto(c, label) == pc' = [pc EXCEPT ![c] = label]

\* The command queue's put; with no queue there is nothing to put on and the
\* caller gets an AttributeError.
Put(c) ==
    IF commandQueue = None
    THEN /\ Goto(c, "raised")
         /\ UNCHANGED queue
    ELSE /\ queue' = [queue EXCEPT ![commandQueue] = Append(@, c)]
         /\ Goto(c, "awaitsResponse")

\* connect has returned: the manager registers the client, call_tool enqueues its
\* command, both without a suspension.
Connected(c) ==
    IF c = Opener THEN Goto(c, "returned") /\ UNCHANGED queue ELSE Put(c)

-----------------------------------------------------------------------------
(* call_tool and connect *)

Open ==
    /\ pc[Opener] = "idle"
    /\ Goto(Opener, "wantsLock")
    /\ UNCHANGED <<client, lockHolder, queue, task, ready, response, awaits, lossy>>

\* call_tool of a wrapped tool; the tools exist once connect has returned.
CallTool(c) ==
    /\ pc[c] = "idle"
    /\ pc[Opener] = "returned"
    /\ IF connected THEN Put(c) ELSE Goto(c, "wantsLock") /\ UNCHANGED queue
    /\ UNCHANGED <<client, lockHolder, task, ready, response, awaits, lossy>>

\* connect, with the lock: somebody else connected meanwhile.  (readyFuture is
\* set only by who holds the lock, so its test in connect never succeeds.)
FindsConnected(c) ==
    /\ pc[c] = "wantsLock"
    /\ lockHolder = None
    /\ connected
    /\ Connected(c)
    /\ UNCHANGED <<client, lockHolder, task, ready, response, awaits, lossy>>

\* connect, with the lock: start the owner task and wait until it is ready.
StartOwner(c) ==
    /\ pc[c] = "wantsLock"
    /\ lockHolder = None
    /\ ~ connected
    /\ lockHolder' = c
    /\ readyFuture' = c
    /\ commandQueue' = c
    /\ ownerTask' = c
    /\ owner' = [owner EXCEPT ![c] = "connecting"]
    /\ session' = c
    /\ Goto(c, "awaitsReady")
    /\ UNCHANGED <<connected, queue, getsFrom, serves, ready, response, awaits, lossy>>

LeaveConnect(c) ==
    /\ lockHolder' = None
    /\ readyFuture' = IF readyFuture = c THEN None ELSE readyFuture

\* Mutant: connect gives the lock back before it has waited for the failed owner.
ReadyAndErrorAtOnce(c) ==
    /\ pc[c] = "awaitsReady"
    /\ ready[c] # "pending"
    /\ LeaveConnect(c)
    /\ IF ready[c] = "tools" THEN Connected(c) ELSE Goto(c, "raised") /\ UNCHANGED queue
    /\ UNCHANGED <<connected, ownerTask, commandQueue, session, task, ready,
                   response, awaits, lossy>>

\* The ready future is done: connect returns the tools, or waits for the end of
\* the owner task before it raises.
Ready(c) ==
    /\ pc[c] = "awaitsReady"
    /\ ready[c] # "pending"
    /\ \/ /\ ready[c] = "tools"
          /\ LeaveConnect(c)
          /\ Connected(c)
          /\ UNCHANGED awaits
       \/ /\ ready[c] = "error"
          /\ UNCHANGED queue
          /\ IF ownerTask = None
             THEN LeaveConnect(c) /\ Goto(c, "raised") /\ UNCHANGED awaits
             ELSE /\ awaits' = [awaits EXCEPT ![c] = ownerTask]
                  /\ Goto(c, "awaitsOwner")
                  /\ UNCHANGED <<lockHolder, readyFuture>>
    /\ UNCHANGED <<connected, ownerTask, commandQueue, session, task, ready, response, lossy>>

\* connect raises after the failed owner task has ended.  The end of a task wakes
\* those who await it in the order in which they began to; a disconnect that waits
\* for the same task began before, when it found it running.
ConnectRaises(c) ==
    /\ pc[c] = "awaitsOwner"
    /\ owner[awaits[c]] = "done"
    /\ ~ (pc[Closer] = "awaitsOwner" /\ awaits[Closer] = awaits[c])
    /\ LeaveConnect(c)
    /\ Goto(c, "raised")
    /\ UNCHANGED <<connected, ownerTask, commandQueue, session, queue, task, ready,
                   response, awaits, lossy>>

\* The response future of a tool call is done.
CallReturns(c) ==
    /\ pc[c] = "awaitsResponse"
    /\ response[c] # "pending"
    /\ Goto(c, IF response[c] = "result" THEN "returned" ELSE "raised")
    /\ UNCHANGED <<client, lockHolder, queue, task, ready, response, awaits, lossy>>

-----------------------------------------------------------------------------
(* disconnect *)

\* Mutant: an owner that is not at work counts as ended.
OwnerNotBusy == ownerTask = None \/ owner[ownerTask] # "serving"

OwnerEnded == ownerTask = None \/ owner[ownerTask] = "done"

\* The connection of o has broken and ended.  Its owner task may have been cancelled
\* for good, or have failed where it left the contexts: suppress(Exception) lets the
\* CancelledError of the one pass to who awaits the task, and absorbs the other.
Broken(o) == o # None /\ owner[o] = "done" /\ ready[o] # "error" /\ serves[o] # Closer

\* disconnect of a client that has no running owner.
DisconnectIdle ==
    /\ pc[Closer] = "idle"
    /\ pc[Opener] = "returned"
    /\ OwnerEnded
    /\ \/ /\ connected' = FALSE
          /\ commandQueue' = None
          /\ ownerTask' = None
          /\ Goto(Closer, "returned")
       \/ /\ Broken(ownerTask)
          /\ Goto(Closer, "raised")
          /\ UNCHANGED <<connected, commandQueue, ownerTask>>
    /\ UNCHANGED <<readyFuture, session, lockHolder, queue, task, ready, response, awaits, lossy>>

\* Mutant: disconnect makes a queue of its own for its command.
DisconnectOnOwnQueue ==
    /\ pc[Closer] = "idle"
    /\ pc[Opener] = "returned"
    /\ ~ OwnerEnded
    /\ commandQueue' = Closer
    /\ Goto(Closer, "awaitsResponse")
    /\ UNCHANGED <<connected, ownerTask, readyFuture, session, lockHolder, queue, task,
                   ready, response, awaits, lossy>>

\* disconnect asks the owner to close.
Disconnect ==
    /\ pc[Closer] = "idle"
    /\ pc[Opener] = "returned"
    /\ ~ OwnerEnded
    /\ Put(Closer)
    /\ UNCHANGED <<client, lockHolder, task, ready, response, awaits, lossy>>

\* The owner has answered; disconnect awaits whatever _owner_task is by now.
DisconnectAnswered ==
    /\ pc[Closer] = "awaitsResponse"
    /\ response[Closer] # "pending"
    /\ \/ /\ OwnerEnded
          /\ ownerTask' = None
          /\ Goto(Closer, "returned")
          /\ UNCHANGED awaits
       \/ /\ Broken(ownerTask)
          /\ Goto(Closer, "raised")
          /\ UNCHANGED <<ownerTask, awaits>>
       \/ /\ ~ OwnerEnded
          /\ awaits' = [awaits EXCEPT ![Closer] = ownerTask]
          /\ Goto(Closer, "awaitsOwner")
          /\ UNCHANGED ownerTask
    /\ UNCHANGED <<connected, readyFuture, commandQueue, session, lockHolder, queue, task,
                   ready, response, lossy>>

\* The owner it waited for has ended; disconnect clears _owner_task, whoever's it is
\* by now.
DisconnectReturns ==
    /\ pc[Closer] = "awaitsOwner"
    /\ owner[awaits[Closer]] = "done"
    /\ \/ ownerTask' = None /\ Goto(Closer, "returned")
       \/ Broken(awaits[Closer]) /\ Goto(Closer, "raised") /\ UNCHANGED ownerTask
    /\ UNCHANGED <<connected, readyFuture, commandQueue, session, lockHolder, queue, task,
                   ready, response, awaits, lossy>>

-----------------------------------------------------------------------------
(* _run_connection *)

\* Back to the head of the command loop: wait on the queue that is _command_queue
\* now (with none, the exception ends the loop).
Loop(o) ==
    /\ getsFrom' = [getsFrom EXCEPT ![o] = commandQueue]
    /\ owner' = [owner EXCEPT ![o] = IF commandQueue = None THEN "closing" ELSE "idle"]

\* The session is open and its tools are listed.
OwnerReady(o) ==
    /\ owner[o] = "connecting"
    /\ connected' = TRUE
    /\ ready' = [ready EXCEPT ![o] = "tools"]
    /\ Loop(o)
    /\ UNCHANGED <<ownerTask, readyFuture, commandQueue, session, lockHolder, queue, serves,
                   response, awaits, pc, lossy>>

\* Opening the session or listing the tools failed.
OwnerFails(o) ==
    /\ owner[o] = "connecting"
    /\ ready' = [ready EXCEPT ![o] = "error"]
    /\ owner' = [owner EXCEPT ![o] = "closing"]
    /\ UNCHANGED <<client, lockHolder, queue, getsFrom, serves, response, awaits, pc, lossy>>

\* The transport breaks: the SDK cancels the task that entered it, and a
\* CancelledError passes every "except Exception", so that neither the ready future
\* nor the response of the command that is being served is resolved.
OwnerLoses(o) ==
    /\ lossy
    /\ owner[o] \in {"connecting", "idle", "serving"}
    /\ owner' = [owner EXCEPT ![o] = "closing"]
    /\ UNCHANGED <<client, lockHolder, queue, getsFrom, serves, ready, response, awaits,
                   pc, lossy>>

\* The owner takes a command: a disconnect ends the loop.
OwnerTakes(o) ==
    /\ owner[o] = "idle"
    /\ queue[getsFrom[o]] # <<>>
    /\ LET c == Head(queue[getsFrom[o]])
       IN  /\ serves' = [serves EXCEPT ![o] = c]
           /\ owner' = [owner EXCEPT ![o] = IF c = Closer THEN "closing" ELSE "serving"]
    /\ queue' = [queue EXCEPT ![getsFrom[o]] = Tail(@)]
    /\ UNCHANGED <<client, lockHolder, getsFrom, ready, response, awaits, pc, lossy>>

\* Mutant: only a successful tool call resolves the caller's future.
OwnerAnswersResultOnly(o) ==
    /\ owner[o] = "serving"
    /\ \E outcome \in {"result", "pending"} :
          response' = [response EXCEPT ![serves[o]] = outcome]
    /\ serves' = [serves EXCEPT ![o] = None]
    /\ Loop(o)
    /\ UNCHANGED <<client, lockHolder, queue, ready, awaits, pc, lossy>>

\* _handle_call_tool: the server's answer or an exception.
OwnerAnswers(o) ==
    /\ owner[o] = "serving"
    /\ \E outcome \in {"result", "error"} :
          response' = [response EXCEPT ![serves[o]] = outcome]
    /\ serves' = [serves EXCEPT ![o] = None]
    /\ Loop(o)
    /\ UNCHANGED <<client, lockHolder, queue, ready, awaits, pc, lossy>>

\* Mutant: the connection is left marked as connected.
OwnerClosesConnected(o) ==
    /\ owner[o] = "closing"
    /\ owner' = [owner EXCEPT ![o] = "done"]
    /\ session' = None
    /\ commandQueue' = None
    /\ response' = IF serves[o] = Closer THEN [response EXCEPT ![Closer] = "result"] ELSE response
    /\ UNCHANGED <<connected, ownerTask, readyFuture, lockHolder, queue, getsFrom, serves,
                   ready, awaits, pc, lossy>>

\* The finally block, when the session and the transport have been left.
OwnerCloses(o) ==
    /\ owner[o] = "closing"
    /\ owner' = [owner EXCEPT ![o] = "done"]
    /\ session' = None
    /\ connected' = FALSE
    /\ commandQueue' = None
    /\ response' = IF serves[o] = Closer THEN [response EXCEPT ![Closer] = "result"] ELSE response
    /\ UNCHANGED <<ownerTask, readyFuture, lockHolder, queue, getsFrom, serves, ready,
                   awaits, pc, lossy>>

-----------------------------------------------------------------------------

CallerStep(c) ==
    \/ FindsConnected(c) \/ StartOwner(c) \/ Ready(c) \/ ConnectRaises(c) \/ CallReturns(c)

CloserStep == DisconnectAnswered \/ DisconnectReturns

OwnerStep(o) ==
    \/ OwnerReady(o) \/ OwnerFails(o) \/ OwnerTakes(o) \/ OwnerAnswers(o) \/ OwnerCloses(o)

Next ==
    \/ Open \/ Disconnect \/ DisconnectIdle \/ CloserStep
    \/ \E c \in Call : CallTool(c)
    \/ \E c \in Owner : CallerStep(c) \/ OwnerStep(c) \/ OwnerLoses(c)

Spec == Init /\ [][Next]_vars

\* The event loop runs what is ready, asyncio.Lock is fair, and the MCP server
\* answers or fails.  A caller calls once and no step is taken back, so every behaviour
\* comes to rest: that no task stops while it could go on is all there is to assume.
Fairness == WF_vars(CloserStep \/ \E c \in Owner : CallerStep(c) \/ OwnerStep(c))

FairSpec == Spec /\ Fairness

-----------------------------------------------------------------------------
(* Properties *)

\* A disconnect has waited for a connection that a call had reopened, that broke, and
\* has cleared _owner_task (client.py:179).  If yet another call reconnected before the
\* disconnect woke up, that was the task of the newest owner: a connect that fails does
\* not wait for it (client.py:50), the next one starts a second owner beside it, and
\* the attributes of the two connections mix.
ForgotOwner ==
    /\ pc[Closer] = "returned"
    /\ awaits[Closer] # None
    /\ Broken(awaits[Closer])

\* The session is left by the task that entered it (client.py:61-63): no second
\* owner starts while one still opens, serves or closes, so the attributes of two
\* connections never mix, although a disconnect and reconnects may overlap and any
\* connection may break; but for what follows the one kind of disconnect that may
\* forget an owner.
LeavesOwnContexts ==
    [][\A o \in Owner : owner[o] = "closing" /\ owner'[o] = "done" =>
           session = o \/ ForgotOwner]_vars

\* A client that says it is connected has an owner for its session, and an owner
\* that waits for commands waits on the queue that callers put them on; but for what
\* follows the one kind of disconnect that may forget an owner.
ConnectedIsServed ==
    connected /\ ~ ForgotOwner =>
        /\ session # None /\ owner[session] \in {"idle", "serving", "closing"}
        /\ owner[session] = "idle" => getsFrom[session] = session /\ commandQueue = session

\* While no connection breaks: a tool call that is in the queue when a disconnect
\* has not been asked for yet gets its answer, whatever follows.
QueuedCallAnswered ==
    \A c \in Call :
        ~ lossy /\ pc[c] = "awaitsResponse" /\ pc[Closer] = "idle"
            ~> pc[c] \in {"returned", "raised"}

\* disconnect returns only when the manager's connection is closed, and the one that
\* took its command, whichever connections break and whoever reconnects.
DisconnectWaitsForClose ==
    pc[Closer] = "returned" =>
        \A o \in Owner : o = Opener \/ serves[o] = Closer => owner[o] = "done"

\* The command of c stands in the queue of a connection that has ended.
Stranded(c) ==
    \E o \in Owner : owner[o] = "done" /\ \E i \in 1 .. Len(queue[o]) : queue[o][i] = c

\* While no connection breaks, every caller gets an answer or an exception, but
\* for two: a tool call whose command came behind the disconnect's (its future is
\* never resolved), and a disconnect that found the owner task of a reconnecting call
\* in _owner_task when it woke up (it waits for a connection that nobody will end).
ReturnsUnlessStranded ==
    \A c \in Caller :
        ~ lossy /\ pc[c] # "idle" ~> \/ pc[c] \in {"returned", "raised"}
                                     \/ c \in Call /\ Stranded(c)
                                     \/ c = Closer /\ awaits[c] \in Call

\* Both of these: no caller waits for good but in the two ways named, and none of them
\* concerns a call that was there first.
CallersReturn == QueuedCallAnswered /\ ReturnsUnlessStranded

\* Disconnect "gracefully" (client.py:161): a disconnect comes to an end, at least
\* while no connection breaks.
DisconnectEnds == ~ lossy /\ pc[Closer] # "idle" ~> pc[Closer] \in {"returned", "raised"}
=============================================================================
