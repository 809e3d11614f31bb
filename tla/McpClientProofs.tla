--------------------------- MODULE McpClientProofs ---------------------------
(***************************************************************************)
(* One MCP client, for any number of tool calls that may have to reconnect *)
(* it, whether its connections fail, break or are closed.                  *)
(*                                                                         *)
(* The argument: at most one owner task is at work, and the attributes of  *)
(* the client (session, command queue, _owner_task) are its own.  That an  *)
(* owner which ends still has the lock of its caller, or had connected, is *)
(* what keeps the next one from starting; so the invariant has to follow   *)
(* which owner a failing connect or a disconnect waits for, and where the  *)
(* one command of the disconnect is (IInv).  A disconnect that waited for  *)
(* a reopened connection which broke may end all this (ForgotOwner); a     *)
(* part of the invariant survives it (BaseInv), and Inv is the two.        *)
(***************************************************************************)
EXTENDS McpClient, TLAPS

-----------------------------------------------------------------------------
(* The inductive invariant *)

\* The owner that is at work owns the session, the command queue and _owner_task, and
\* until it has connected its caller has the lock.
SessionInv ==
    /\ \A o \in Owner : owner[o] \in Live <=> session = o
    /\ commandQueue = session
    /\ session # None => ownerTask = session
    /\ session # None => connected \/ lockHolder = session

\* Who waits inside connect has the lock, and as long as it does nobody else starts
\* an owner.
LockInv ==
    /\ \A c \in Owner : pc[c] \in {"awaitsReady", "awaitsOwner"} => lockHolder = c
    /\ \A c \in Owner : pc[c] = "awaitsOwner" => awaits[c] = c
    /\ lockHolder # None => session \in {None, lockHolder} /\ ownerTask \in {None, lockHolder}

\* An owner starts when its caller has the lock, and a waiting one has a queue.
StartInv ==
    \A o \in Owner :
        /\ pc[o] \in {"idle", "wantsLock"} => owner[o] = "absent"
        /\ owner[o] = "absent" => ready[o] = "pending" /\ serves[o] = None
        /\ owner[o] = "idle" => getsFrom[o] # None

\* What an owner has done by each of its states.
OwnerInv ==
    \A o \in Owner :
        /\ owner[o] = "idle" => getsFrom[o] = o
        /\ session = o /\ ready[o] = "tools" => connected
        /\ owner[o] \in {"connecting", "idle", "serving"} => ready[o] # "error"
        /\ owner[o] = "closing" /\ ready[o] = "error" => lockHolder = o

\* Nobody else uses the client before the manager has connected it.
OpenerInv ==
    /\ pc[Opener] # "returned" => \A c \in Call \cup {Closer} : pc[c] = "idle"
    /\ pc[Opener] = "returned" => owner[Opener] # "absent"
    /\ pc[Opener] # "awaitsResponse"

\* The places of the disconnect's command in the queue of o.
Places(o) == {i \in 1 .. Len(queue[o]) : queue[o][i] = Closer}

\* The disconnect's command is in one place of one queue or with one owner, and it is
\* answered when the first connection has ended.
CommandInv ==
    /\ \A o, p \in Owner : \A i \in Places(o), j \in Places(p) : o = p /\ i = j
    /\ \A o, p \in Owner : owner[o] \in Live /\ serves[o] = Closer =>
           owner[o] = "closing" /\ Places(p) = {}
    /\ \A o \in Owner : Places(o) # {} \/ (owner[o] \in Live /\ serves[o] = Closer) =>
           pc[Closer] = "awaitsResponse" /\ response[Closer] = "pending"

\* A disconnect that waits for an owner waits for that of a call.  If that one failed to
\* connect, its caller waits behind the disconnect.
CloserInv ==
    /\ pc[Closer] = "idle" => response[Closer] = "pending"
    /\ response[Closer] # "pending" => owner[Opener] = "done"
    /\ pc[Closer] = "awaitsOwner" =>
           /\ response[Closer] # "pending"
           /\ awaits[Closer] \in Call
           /\ serves[awaits[Closer]] # Closer
           /\ owner[awaits[Closer]] = "done" /\ ready[awaits[Closer]] = "error" =>
                  lockHolder = awaits[Closer] /\ ownerTask = awaits[Closer]

\* A client that says it is connected has an owner that waits on the right queue.
Served ==
    connected => /\ session # None /\ owner[session] \in {"idle", "serving", "closing"}
                 /\ owner[session] = "idle" =>
                        getsFrom[session] = session /\ commandQueue = session

\* When disconnect has returned, the connections it was to close have ended.
EndInv ==
    pc[Closer] = "returned" =>
        /\ owner[Opener] = "done"
        /\ \A o \in Owner : Places(o) = {} /\ (serves[o] = Closer => owner[o] = "done")

BaseInv == TypeOK /\ StartInv /\ OpenerInv /\ EndInv

IInv == BaseInv /\ SessionInv /\ LockInv /\ OwnerInv /\ CommandInv /\ CloserInv /\ Served

Inv == BaseInv /\ (IInv \/ ForgotOwner)

LEMMA Facts ==
    /\ Opener \in Owner /\ Opener \in Caller /\ Closer \in Caller /\ Closer \notin Owner
    /\ Owner \subseteq Caller /\ Call \subseteq Owner /\ None \notin Caller /\ None \notin Owner
    /\ Opener # Closer /\ Opener \notin Call /\ Closer \notin Call /\ Opener # None /\ Closer # None
    /\ \A o \in Owner : o # Closer /\ o # None
    /\ \A o \in Owner : o \in Call \/ o = Opener
BY CallerAssumption DEF Caller, Owner

-----------------------------------------------------------------------------
(* The command queues *)

\* A caller's command goes behind those that are there, or the caller raises.
LEMMA PutFacts ==
    ASSUME TypeOK, NEW c \in Caller, Put(c)
    PROVE  /\ queue' \in [Owner -> Seq(Caller)]
           /\ pc' = [pc EXCEPT ![c] = "raised"] \/ pc' = [pc EXCEPT ![c] = "awaitsResponse"]
           /\ c # Closer => \A o \in Owner : Places(o)' = Places(o)
           /\ c = Closer => \A o \in Owner : Places(o)' = Places(o) \/
                               (o = commandQueue /\ pc'[c] = "awaitsResponse"
                                /\ Places(o)' = Places(o) \cup {Len(queue[o]) + 1})
<1>1. CASE commandQueue = None
  <2>1. queue' = queue /\ pc' = [pc EXCEPT ![c] = "raised"]
    BY <1>1 DEF Put, Goto
  <2>2. \A o \in Owner : Places(o)' = Places(o)
    BY <2>1 DEF Places
  <2> QED BY <2>1, <2>2 DEF TypeOK
<1>2. CASE commandQueue # None
  <2>0. PICK k \in Owner : k = commandQueue
    BY <1>2 DEF TypeOK
  <2> DEFINE q == queue[k]
             a == Append(q, c)
  <2>1. /\ q \in Seq(Caller)
        /\ queue' = [queue EXCEPT ![k] = a]
        /\ pc' = [pc EXCEPT ![c] = "awaitsResponse"]
    BY <1>2, <2>0 DEF Put, Goto, TypeOK
  <2>2. /\ a \in Seq(Caller) /\ Len(a) = Len(q) + 1 /\ Len(q) \in Nat
        /\ \A i \in 1 .. Len(q) : a[i] = q[i]
        /\ a[Len(q) + 1] = c
    BY <2>1
  <2> HIDE DEF a
  <2>3. queue' \in [Owner -> Seq(Caller)] /\ queue'[k] = a /\ \A o \in Owner \ {k} : queue'[o] = queue[o]
    BY <2>1, <2>2 DEF TypeOK
  <2>4. \A o \in Owner \ {k} : Places(o)' = Places(o)
    BY <2>3 DEF Places
  <2>5. Places(k)' = {i \in 1 .. Len(q) + 1 : a[i] = Closer}
    BY <2>2, <2>3 DEF Places
  <2>6. c # Closer => Places(k)' = Places(k)
    BY <2>2, <2>5 DEF Places
  <2>7. c = Closer => Places(k)' = Places(k) \cup {Len(q) + 1}
    BY <2>2, <2>5 DEF Places
  <2>8. pc'[c] = "awaitsResponse"
    BY <2>1 DEF TypeOK
  <2> HIDE DEF q
  <2>9. ASSUME NEW o \in Owner, c = Closer
        PROVE  Places(o)' = Places(o) \/ (o = k /\ Places(o)' = Places(o) \cup {Len(queue[o]) + 1})
    BY <2>4, <2>7, <2>9 DEF q
  <2>10. c # Closer => \A o \in Owner : Places(o)' = Places(o)
    BY <2>4, <2>6
  <2> QED BY <2>0, <2>1, <2>3, <2>8, <2>9, <2>10
<1> QED BY <1>1, <1>2

\* The owner takes the first command of a queue.
LEMMA TakeFacts ==
    ASSUME TypeOK, NEW k \in Owner, queue[k] # <<>>, queue' = [queue EXCEPT ![k] = Tail(@)]
    PROVE  /\ queue' \in [Owner -> Seq(Caller)]
           /\ Head(queue[k]) \in Caller
           /\ \A o \in Owner \ {k} : Places(o)' = Places(o)
           /\ Head(queue[k]) = Closer <=> 1 \in Places(k)
           /\ \A i \in Places(k)' : i + 1 \in Places(k) /\ i \in Nat /\ i >= 1
<1> DEFINE q == queue[k]
           t == Tail(q)
<1>1. q \in Seq(Caller) /\ Len(q) \in Nat /\ Len(q) >= 1 /\ Head(q) = q[1] /\ Head(q) \in Caller
  BY DEF TypeOK
<1>2. t \in Seq(Caller) /\ Len(t) = Len(q) - 1 /\ \A i \in 1 .. Len(t) : t[i] = q[i + 1]
  BY <1>1
<1> HIDE DEF t
<1>3. queue'[k] = t /\ queue' \in [Owner -> Seq(Caller)] /\ \A o \in Owner \ {k} : queue'[o] = queue[o]
  BY <1>2 DEF TypeOK, t
<1>4. \A o \in Owner \ {k} : Places(o)' = Places(o)
  BY <1>3 DEF Places
<1>5. Head(q) = Closer <=> 1 \in Places(k)
  BY <1>1 DEF Places
<1>6. \A i \in Places(k)' : i + 1 \in Places(k) /\ i \in Nat /\ i >= 1
  BY <1>1, <1>2, <1>3 DEF Places
<1> QED BY <1>1, <1>3, <1>4, <1>5, <1>6

-----------------------------------------------------------------------------
(* Each action preserves the invariant: connect and call_tool *)

LEMMA InitIInv == Init => IInv
<1> SUFFICES ASSUME Init PROVE IInv
  OBVIOUS
<1>1. TypeOK
  <2>1. queue \in [Owner -> Seq(Caller)]
    BY DEF Init
  <2>2. /\ owner \in [Owner -> Live \cup {"absent", "done"}]
        /\ getsFrom \in [Owner -> Owner \cup {None}] /\ serves \in [Owner -> Caller \cup {None}]
    BY DEF Init
  <2> QED BY <2>1, <2>2, Facts DEF Init, TypeOK
<1>2. SessionInv /\ LockInv /\ StartInv /\ OwnerInv /\ OpenerInv /\ CloserInv
  BY Facts DEF Init, SessionInv, LockInv, StartInv, OwnerInv, OpenerInv, CloserInv, Live, Caller
<1>3. CommandInv
  BY Facts DEF Init, CommandInv, Places, Live
<1>4. Served /\ EndInv
  BY Facts DEF Init, Served, EndInv
<1> QED BY <1>1, <1>2, <1>3, <1>4 DEF IInv, BaseInv

LEMMA OpenStep ==
    ASSUME IInv, Open
    PROVE  IInv'
<1> USE DEF IInv, BaseInv
<1>1. pc[Opener] = "idle" /\ pc' = [pc EXCEPT ![Opener] = "wantsLock"]
  BY DEF Open, Goto
<1>2. UNCHANGED <<connected, ownerTask, readyFuture, commandQueue, session, lockHolder, queue,
                  owner, getsFrom, serves, ready, response, awaits, lossy>>
  BY DEF Open, client, task
<1>3. TypeOK'
  BY <1>1, <1>2, Facts DEF TypeOK
<1>4. SessionInv'
  BY <1>1, <1>2, Facts DEF TypeOK, SessionInv
<1>5. LockInv'
  BY <1>1, <1>2, Facts DEF TypeOK, LockInv
<1>6. StartInv' /\ OwnerInv'
  BY <1>1, <1>2, Facts DEF TypeOK, StartInv, OwnerInv
<1>7. OpenerInv'
  BY <1>1, <1>2, Facts DEF TypeOK, OpenerInv
<1>8. CommandInv'
  BY <1>1, <1>2, Facts DEF TypeOK, CommandInv, Places
<1>9. CloserInv'
  BY <1>1, <1>2, Facts DEF TypeOK, CloserInv
<1>10. Served'
  BY <1>1, <1>2, Facts DEF TypeOK, Served
<1>11. EndInv'
  BY <1>1, <1>2, Facts DEF TypeOK, EndInv, StartInv, Places
<1> QED BY <1>3, <1>4, <1>5, <1>6, <1>7, <1>8, <1>9, <1>10, <1>11

\* call_tool queues its command, or wants to connect first.
LEMMA CallToolStep ==
    ASSUME IInv, NEW c \in Call, CallTool(c)
    PROVE  IInv'
<1> USE DEF IInv, BaseInv
<1>1. pc[c] = "idle" /\ pc[Opener] = "returned"
  BY DEF CallTool
<1>2. UNCHANGED <<connected, ownerTask, readyFuture, commandQueue, session, lockHolder,
                  owner, getsFrom, serves, ready, response, awaits, lossy>>
  BY DEF CallTool, client, task
<1>3. c \in Owner /\ c \in Caller /\ c # Opener /\ c # Closer
  BY Facts
<1>4. /\ queue' \in [Owner -> Seq(Caller)] /\ \A o \in Owner : Places(o)' = Places(o)
      /\ \E l \in {"wantsLock", "raised", "awaitsResponse"} : pc' = [pc EXCEPT ![c] = l]
  <2>1. CASE connected
    <3>1. Put(c)
      BY <2>1 DEF CallTool
    <3> QED BY <3>1, <1>3, PutFacts
  <2>2. CASE ~ connected
    <3>1. queue' = queue /\ pc' = [pc EXCEPT ![c] = "wantsLock"]
      BY <2>2 DEF CallTool, Goto
    <3> QED BY <3>1 DEF TypeOK, Places
  <2> QED BY <2>1, <2>2
<1>5. TypeOK'
  BY <1>1, <1>2, <1>3, <1>4, Facts DEF TypeOK
<1>6. SessionInv'
  BY <1>1, <1>2, <1>3, <1>4, Facts DEF TypeOK, SessionInv
<1>7. LockInv'
  BY <1>1, <1>2, <1>3, <1>4, Facts DEF TypeOK, LockInv
<1>8. StartInv' /\ OwnerInv'
  BY <1>1, <1>2, <1>3, <1>4, Facts DEF TypeOK, StartInv, OwnerInv
<1>9. OpenerInv'
  BY <1>1, <1>2, <1>3, <1>4, Facts DEF TypeOK, OpenerInv
<1>10. CommandInv'
  BY <1>1, <1>2, <1>3, <1>4, Facts DEF TypeOK, CommandInv
<1>11. CloserInv'
  BY <1>1, <1>2, <1>3, <1>4, Facts DEF TypeOK, CloserInv
<1>12. Served'
  BY <1>1, <1>2, <1>3, <1>4, Facts DEF TypeOK, Served
<1>13. EndInv'
  BY <1>1, <1>2, <1>3, <1>4, Facts DEF TypeOK, EndInv, StartInv, Places
<1> QED BY <1>5, <1>6, <1>7, <1>8, <1>9, <1>10, <1>11, <1>12, <1>13

\* connect finds that somebody else has connected meanwhile.
LEMMA FindsConnectedStep ==
    ASSUME IInv, NEW c \in Owner, FindsConnected(c)
    PROVE  IInv'
<1> USE DEF IInv, BaseInv
<1>1. pc[c] = "wantsLock" /\ lockHolder = None /\ connected
  BY DEF FindsConnected
<1>2. UNCHANGED <<connected, ownerTask, readyFuture, commandQueue, session, lockHolder,
                  owner, getsFrom, serves, ready, response, awaits, lossy>>
  BY DEF FindsConnected, client, task
<1>3. c # Opener
  <2>1. session \in Owner /\ owner[session] # "absent"
    BY <1>1, Facts DEF Served, TypeOK
  <2>2. ASSUME c = Opener PROVE FALSE
    <3>1. pc[Opener] = "wantsLock"
      BY <2>2, <1>1
    <3>2. session \in Call => pc[session] = "idle"
      BY <3>1 DEF OpenerInv
    <3>3. owner[session] = "absent"
      BY <3>1, <3>2, <2>1, Facts DEF StartInv, OwnerInv
    <3> QED BY <3>3, <2>1
  <2> QED BY <2>2
<1>4. c \in Call /\ c \in Caller /\ c # Closer
  BY <1>3, Facts
<1>5. /\ queue' \in [Owner -> Seq(Caller)] /\ \A o \in Owner : Places(o)' = Places(o)
      /\ \E l \in {"raised", "awaitsResponse"} : pc' = [pc EXCEPT ![c] = l]
  <2>1. Put(c)
    BY <1>3 DEF FindsConnected, Connected
  <2> QED BY <2>1, <1>4, PutFacts
<1>7. TypeOK'
  BY <1>1, <1>2, <1>3, <1>4, <1>5, Facts DEF TypeOK
<1>8. SessionInv'
  BY <1>1, <1>2, <1>3, <1>4, <1>5, Facts DEF TypeOK, SessionInv
<1>9. LockInv'
  BY <1>1, <1>2, <1>3, <1>4, <1>5, Facts DEF TypeOK, LockInv
<1>10. StartInv' /\ OwnerInv'
  BY <1>1, <1>2, <1>3, <1>4, <1>5, Facts DEF TypeOK, StartInv, OwnerInv
<1>11. OpenerInv'
  BY <1>1, <1>2, <1>3, <1>4, <1>5, Facts DEF TypeOK, OpenerInv
<1>12. CommandInv'
  BY <1>1, <1>2, <1>3, <1>4, <1>5, Facts DEF TypeOK, CommandInv
<1>13. CloserInv'
  BY <1>1, <1>2, <1>3, <1>4, <1>5, Facts DEF TypeOK, CloserInv
<1>14. Served'
  BY <1>1, <1>2, <1>3, <1>4, <1>5, Facts DEF TypeOK, Served
<1>15. EndInv'
  BY <1>1, <1>2, <1>3, <1>4, <1>5, Facts DEF TypeOK, EndInv, StartInv, Places
<1> QED BY <1>7, <1>8, <1>9, <1>10, <1>11, <1>12, <1>13, <1>14, <1>15

\* connect starts an owner: there is none at work.
LEMMA StartOwnerStep ==
    ASSUME IInv, NEW c \in Owner, StartOwner(c)
    PROVE  IInv'
<1> USE DEF IInv, BaseInv
<1>1. pc[c] = "wantsLock" /\ lockHolder = None /\ ~ connected
  BY DEF StartOwner
<1>2. /\ lockHolder' = c /\ readyFuture' = c /\ commandQueue' = c /\ ownerTask' = c /\ session' = c
      /\ owner' = [owner EXCEPT ![c] = "connecting"]
      /\ pc' = [pc EXCEPT ![c] = "awaitsReady"]
      /\ UNCHANGED <<connected, queue, getsFrom, serves, ready, response, awaits, lossy>>
  BY DEF StartOwner, Goto
<1>3. session = None /\ \A o \in Owner : owner[o] \notin Live
  BY <1>1, Facts DEF SessionInv
<1>4. owner[c] = "absent" /\ ready[c] = "pending" /\ serves[c] = None
  BY <1>1 DEF StartInv, OwnerInv
<1>5. c \in Caller /\ c # Closer /\ c # None
  BY Facts
<1>6. TypeOK'
  BY <1>1, <1>2, <1>3, <1>4, <1>5, Facts DEF TypeOK, Live
<1>7. SessionInv'
  BY <1>1, <1>2, <1>3, <1>4, <1>5, Facts DEF TypeOK, SessionInv, Live
<1>8. LockInv'
  BY <1>1, <1>2, <1>3, <1>4, <1>5, Facts DEF TypeOK, LockInv
<1>9. StartInv' /\ OwnerInv'
  BY <1>1, <1>2, <1>3, <1>4, <1>5, Facts DEF TypeOK, StartInv, OwnerInv, Live
<1>10. OpenerInv'
  BY <1>1, <1>2, <1>3, <1>4, <1>5, Facts DEF TypeOK, OpenerInv
<1>11. CommandInv'
  BY <1>1, <1>2, <1>3, <1>4, <1>5, Facts DEF TypeOK, CommandInv, Places, Live
<1>12. CloserInv'
  BY <1>1, <1>2, <1>3, <1>4, <1>5, Facts DEF TypeOK, CloserInv
<1>13. Served'
  BY <1>1, <1>2, <1>3, <1>4, <1>5, Facts DEF TypeOK, Served
<1>14. EndInv'
  BY <1>1, <1>2, <1>3, <1>4, <1>5, Facts DEF TypeOK, EndInv, StartInv, Places
<1> QED BY <1>6, <1>7, <1>8, <1>9, <1>10, <1>11, <1>12, <1>13, <1>14

\* connect returns with the tools of the owner, which is connected or has ended.
LEMMA ReadyToolsStep ==
    ASSUME IInv, NEW c \in Owner, Ready(c), ready[c] = "tools"
    PROVE  IInv'
<1> USE DEF IInv, BaseInv
<1>1. pc[c] = "awaitsReady" /\ lockHolder = c /\ lockHolder' = None /\ readyFuture' \in Owner \cup {None}
  BY DEF Ready, LeaveConnect, LockInv, TypeOK
<1>2. UNCHANGED <<connected, ownerTask, commandQueue, session,
                  owner, getsFrom, serves, ready, response, awaits, lossy>>
  BY DEF Ready, task
<1>3. c \in Caller /\ c # Closer /\ owner[c] # "absent" /\ (c # Opener => c \in Call)
  BY Facts DEF StartInv, OwnerInv
<1>4. session = None \/ (session = c /\ connected)
  BY <1>1, <1>3, Facts DEF LockInv, StartInv, OwnerInv
<1>5. /\ queue' \in [Owner -> Seq(Caller)] /\ \A o \in Owner : Places(o)' = Places(o)
      /\ \E l \in {"returned", "raised", "awaitsResponse"} :
             pc' = [pc EXCEPT ![c] = l] /\ (c = Opener <=> l = "returned")
  <2>1. CASE c = Opener
    <3>1. queue' = queue /\ pc' = [pc EXCEPT ![c] = "returned"]
      BY <2>1 DEF Ready, Connected, Goto
    <3> QED BY <2>1, <3>1 DEF TypeOK, Places
  <2>2. CASE c # Opener
    <3>1. Put(c)
      BY <2>2 DEF Ready, Connected
    <3> QED BY <2>2, <3>1, <1>3, PutFacts
  <2> QED BY <2>1, <2>2
<1>6. ready[c] # "error"
  OBVIOUS
<1>7. TypeOK'
  BY <1>1, <1>2, <1>3, <1>4, <1>5, <1>6, Facts DEF TypeOK
<1>8. SessionInv'
  BY <1>1, <1>2, <1>3, <1>4, <1>5, <1>6, Facts DEF TypeOK, SessionInv
<1>9. LockInv'
  BY <1>1, <1>2, <1>3, <1>4, <1>5, <1>6, Facts DEF TypeOK, LockInv
<1>10. StartInv' /\ OwnerInv'
  BY <1>1, <1>2, <1>3, <1>4, <1>5, <1>6, Facts DEF TypeOK, StartInv, OwnerInv
<1>11. OpenerInv'
  BY <1>1, <1>2, <1>3, <1>4, <1>5, <1>6, Facts DEF TypeOK, OpenerInv
<1>12. CommandInv'
  BY <1>1, <1>2, <1>3, <1>4, <1>5, <1>6, Facts DEF TypeOK, CommandInv
<1>13. CloserInv'
  BY <1>1, <1>2, <1>3, <1>4, <1>5, <1>6, Facts DEF TypeOK, CloserInv
<1>14. Served'
  BY <1>1, <1>2, <1>3, <1>4, <1>5, <1>6, Facts DEF TypeOK, Served
<1>15. EndInv'
  BY <1>1, <1>2, <1>3, <1>4, <1>5, <1>6, Facts DEF TypeOK, EndInv, StartInv, Places
<1> QED BY <1>7, <1>8, <1>9, <1>10, <1>11, <1>12, <1>13, <1>14, <1>15

\* connect learns that the owner could not connect, and waits for its end.
LEMMA ReadyErrorStep ==
    ASSUME IInv, NEW c \in Owner, Ready(c), ready[c] = "error"
    PROVE  IInv'
<1> USE DEF IInv, BaseInv
<1>1. pc[c] = "awaitsReady" /\ lockHolder = c /\ c \in Caller /\ c # Closer /\ owner[c] # "absent"
  BY Facts DEF Ready, LockInv, StartInv, OwnerInv
<1>2. UNCHANGED <<connected, ownerTask, commandQueue, session, queue,
                  owner, getsFrom, serves, ready, response, lossy>>
  BY DEF Ready, task
<1>3. CASE ownerTask = None
  <2>1. lockHolder' = None /\ readyFuture' \in Owner \cup {None} /\ awaits' = awaits /\ pc' = [pc EXCEPT ![c] = "raised"]
    BY <1>3 DEF Ready, LeaveConnect, Goto, TypeOK
  <2>2. session = None /\ \A o \in Owner : owner[o] # "closing"
    BY <1>3, Facts DEF SessionInv, Live
  <2>3. pc[Closer] = "awaitsOwner" => ~ (owner[awaits[Closer]] = "done" /\ ready[awaits[Closer]] = "error")
    BY <1>3, Facts DEF CloserInv
  <2>4. TypeOK'
    BY <1>1, <1>2, <1>3, <2>1, <2>2, <2>3, Facts DEF TypeOK
  <2>5. SessionInv'
    BY <1>1, <1>2, <1>3, <2>1, <2>2, <2>3, Facts DEF TypeOK, SessionInv
  <2>6. LockInv'
    BY <1>1, <1>2, <1>3, <2>1, <2>2, <2>3, Facts DEF TypeOK, LockInv
  <2>7. StartInv' /\ OwnerInv'
    BY <1>1, <1>2, <1>3, <2>1, <2>2, <2>3, Facts DEF TypeOK, StartInv, OwnerInv
  <2>8. OpenerInv'
    BY <1>1, <1>2, <1>3, <2>1, <2>2, <2>3, Facts DEF TypeOK, OpenerInv
  <2>9. CommandInv'
    BY <1>1, <1>2, <1>3, <2>1, <2>2, <2>3, Facts DEF TypeOK, CommandInv, Places
  <2>10. CloserInv'
    BY <1>1, <1>2, <1>3, <2>1, <2>2, <2>3, Facts DEF TypeOK, CloserInv
  <2>11. Served'
    BY <1>1, <1>2, <1>3, <2>1, <2>2, <2>3, Facts DEF TypeOK, Served
  <2>12. EndInv'
    BY <1>1, <1>2, <1>3, <2>1, <2>2, <2>3, Facts DEF TypeOK, EndInv, StartInv, Places
  <2> QED BY <2>4, <2>5, <2>6, <2>7, <2>8, <2>9, <2>10, <2>11, <2>12
<1>4. CASE ownerTask # None
  <2>1. /\ lockHolder' = lockHolder /\ readyFuture' = readyFuture /\ pc' = [pc EXCEPT ![c] = "awaitsOwner"]
        /\ awaits' = [awaits EXCEPT ![c] = ownerTask]
    BY <1>4 DEF Ready, Goto
  <2>2. ownerTask = c
    BY <1>1, <1>4, Facts DEF LockInv
  <2>3. TypeOK'
    BY <1>1, <1>2, <1>4, <2>1, <2>2, Facts DEF TypeOK
  <2>4. SessionInv'
    BY <1>1, <1>2, <1>4, <2>1, <2>2, Facts DEF TypeOK, SessionInv
  <2>5. LockInv'
    BY <1>1, <1>2, <1>4, <2>1, <2>2, Facts DEF TypeOK, LockInv
  <2>6. StartInv' /\ OwnerInv'
    BY <1>1, <1>2, <1>4, <2>1, <2>2, Facts DEF TypeOK, StartInv, OwnerInv
  <2>7. OpenerInv'
    BY <1>1, <1>2, <1>4, <2>1, <2>2, Facts DEF TypeOK, OpenerInv
  <2>8. CommandInv'
    BY <1>1, <1>2, <1>4, <2>1, <2>2, Facts DEF TypeOK, CommandInv, Places
  <2>9. CloserInv'
    BY <1>1, <1>2, <1>4, <2>1, <2>2, Facts DEF TypeOK, CloserInv
  <2>10. Served'
    BY <1>1, <1>2, <1>4, <2>1, <2>2, Facts DEF TypeOK, Served
  <2>11. EndInv'
    BY <1>1, <1>2, <1>4, <2>1, <2>2, Facts DEF TypeOK, EndInv, StartInv, Places
  <2> QED BY <2>3, <2>4, <2>5, <2>6, <2>7, <2>8, <2>9, <2>10, <2>11
<1> QED BY <1>3, <1>4

\* connect raises when the failed owner has ended.
LEMMA ConnectRaisesStep ==
    ASSUME IInv, NEW c \in Owner, ConnectRaises(c)
    PROVE  IInv'
<1> USE DEF IInv, BaseInv
<1>1. /\ pc[c] = "awaitsOwner" /\ lockHolder = c /\ awaits[c] = c /\ owner[c] = "done"
      /\ ~ (pc[Closer] = "awaitsOwner" /\ awaits[Closer] = c)
  BY DEF ConnectRaises, LockInv
<1>2. /\ lockHolder' = None /\ readyFuture' \in Owner \cup {None} /\ pc' = [pc EXCEPT ![c] = "raised"]
      /\ UNCHANGED <<connected, ownerTask, commandQueue, session, queue, owner, getsFrom, serves,
                     ready, response, awaits, lossy>>
  BY DEF ConnectRaises, LeaveConnect, Goto, task, TypeOK
<1>3. session = None /\ c \in Caller /\ c # Closer
  BY <1>1, Facts DEF SessionInv, LockInv, Live
<1>4. TypeOK'
  BY <1>1, <1>2, <1>3, Facts DEF TypeOK
<1>5. SessionInv'
  BY <1>1, <1>2, <1>3, Facts DEF TypeOK, SessionInv
<1>6. LockInv'
  BY <1>1, <1>2, <1>3, Facts DEF TypeOK, LockInv
<1>7. StartInv' /\ OwnerInv'
  BY <1>1, <1>2, <1>3, Facts DEF TypeOK, StartInv, OwnerInv
<1>8. OpenerInv'
  BY <1>1, <1>2, <1>3, Facts DEF TypeOK, OpenerInv
<1>9. CommandInv'
  BY <1>1, <1>2, <1>3, Facts DEF TypeOK, CommandInv, Places
<1>10. CloserInv'
  BY <1>1, <1>2, <1>3, Facts DEF TypeOK, CloserInv
<1>11. Served'
  BY <1>1, <1>2, <1>3, Facts DEF TypeOK, Served
<1>12. EndInv'
  BY <1>1, <1>2, <1>3, Facts DEF TypeOK, EndInv, StartInv, Places
<1> QED BY <1>4, <1>5, <1>6, <1>7, <1>8, <1>9, <1>10, <1>11, <1>12

\* A tool call gets its answer.
LEMMA CallReturnsStep ==
    ASSUME IInv, NEW c \in Owner, CallReturns(c)
    PROVE  IInv'
<1> USE DEF IInv, BaseInv
<1>1. pc[c] = "awaitsResponse" /\ c \in Caller /\ c # Closer /\ c # Opener
  BY Facts DEF CallReturns, OpenerInv
<1>2. \E l \in {"returned", "raised"} : pc' = [pc EXCEPT ![c] = l]
  BY DEF CallReturns, Goto
<1>3. UNCHANGED <<connected, ownerTask, readyFuture, commandQueue, session, lockHolder, queue,
                  owner, getsFrom, serves, ready, response, awaits, lossy>>
  BY DEF CallReturns, client, task
<1>4. TypeOK'
  BY <1>1, <1>2, <1>3, Facts DEF TypeOK
<1>5. SessionInv'
  BY <1>1, <1>2, <1>3, Facts DEF TypeOK, SessionInv
<1>6. LockInv'
  BY <1>1, <1>2, <1>3, Facts DEF TypeOK, LockInv
<1>7. StartInv' /\ OwnerInv'
  BY <1>1, <1>2, <1>3, Facts DEF TypeOK, StartInv, OwnerInv
<1>8. OpenerInv'
  BY <1>1, <1>2, <1>3, Facts DEF TypeOK, OpenerInv
<1>9. CommandInv'
  BY <1>1, <1>2, <1>3, Facts DEF TypeOK, CommandInv, Places
<1>10. CloserInv'
  BY <1>1, <1>2, <1>3, Facts DEF TypeOK, CloserInv
<1>11. Served'
  BY <1>1, <1>2, <1>3, Facts DEF TypeOK, Served
<1>12. EndInv'
  BY <1>1, <1>2, <1>3, Facts DEF TypeOK, EndInv, StartInv, Places
<1> QED BY <1>4, <1>5, <1>6, <1>7, <1>8, <1>9, <1>10, <1>11, <1>12

-----------------------------------------------------------------------------
(* Each action preserves the invariant: disconnect *)

\* Once the manager has connected, an owner that has ended leaves none at work.
LEMMA OwnerEndedFacts ==
    ASSUME IInv, OwnerEnded
    PROVE  /\ session = None /\ commandQueue = None
           /\ pc[Opener] = "returned" => owner[Opener] = "done"
<1> USE DEF IInv, BaseInv
<1>1. session = None
  BY Facts DEF OwnerEnded, SessionInv, TypeOK, Live
<1>2. owner[Opener] \notin Live
  BY <1>1, Facts DEF SessionInv
<1>3. owner[Opener] \in Live \cup {"absent", "done"}
  BY Facts DEF TypeOK
<1> QED BY <1>1, <1>2, <1>3 DEF OpenerInv, SessionInv

\* A disconnect that raises leaves everything as it is.
LEMMA DisconnectRaisesFacts ==
    ASSUME IInv, pc[Closer] # "idle" => response[Closer] # "pending", pc[Opener] = "returned",
           pc' = [pc EXCEPT ![Closer] = "raised"],
           UNCHANGED <<client, lockHolder, queue, task, ready, response, awaits, lossy>>
    PROVE  IInv'
<1> USE DEF IInv, BaseInv
<1>1. UNCHANGED <<connected, ownerTask, readyFuture, commandQueue, session, lockHolder, queue, owner,
                  getsFrom, serves, ready, response, awaits, lossy>>
  BY DEF client, task
<1>2. \A o \in Owner : pc'[o] = pc[o]
  BY Facts DEF TypeOK
<1>3. pc'[Closer] = "raised"
  BY Facts DEF TypeOK
<1>4. \A o \in Owner : Places(o) = {} /\ ~ (owner[o] \in Live /\ serves[o] = Closer)
  BY DEF CommandInv, CloserInv
<1>5. TypeOK'
  BY <1>1, Facts DEF TypeOK
<1>6. SessionInv' /\ Served'
  BY <1>1 DEF SessionInv, Served
<1>7. LockInv' /\ StartInv' /\ OwnerInv'
  BY <1>1, <1>2 DEF LockInv, StartInv, OwnerInv
<1>8. OpenerInv'
  BY <1>1, <1>2, Facts DEF OpenerInv
<1>9. CommandInv'
  BY <1>1, <1>4 DEF CommandInv, Places
<1>10. CloserInv' /\ EndInv'
  BY <1>1, <1>3 DEF CloserInv, EndInv
<1> QED BY <1>5, <1>6, <1>7, <1>8, <1>9, <1>10

LEMMA DisconnectIdleStep ==
    ASSUME IInv, DisconnectIdle
    PROVE  IInv'
<1> USE DEF IInv, BaseInv
<1>0. CASE pc' = [pc EXCEPT ![Closer] = "raised"]
  <2>1. pc[Closer] = "idle" /\ pc[Opener] = "returned"
    BY DEF DisconnectIdle
  <2>2. pc'[Closer] = "raised"
    BY <1>0, Facts DEF TypeOK
  <2>3. UNCHANGED <<client, lockHolder, queue, task, ready, response, awaits, lossy>>
    BY <2>2, Facts DEF DisconnectIdle, Goto, client, TypeOK
  <2> QED BY <1>0, <2>1, <2>3, DisconnectRaisesFacts
<1> SUFFICES ASSUME pc' # [pc EXCEPT ![Closer] = "raised"] PROVE IInv'
  BY <1>0
<1>1. /\ pc[Closer] = "idle" /\ session = None /\ commandQueue = None /\ owner[Opener] = "done"
      /\ connected' = FALSE /\ commandQueue' = None /\ ownerTask' = None
      /\ pc' = [pc EXCEPT ![Closer] = "returned"]
  BY OwnerEndedFacts DEF DisconnectIdle, Goto
<1>2. UNCHANGED <<readyFuture, session, lockHolder, queue, owner, getsFrom, serves, ready,
                  response, awaits, lossy>>
  BY DEF DisconnectIdle, task
<1>3. pc[Opener] = "returned"
  BY DEF DisconnectIdle
<1>4. \A o \in Owner : owner[o] \notin Live
  BY <1>1, Facts DEF SessionInv
<1>5. TypeOK'
  BY <1>1, <1>2, <1>3, <1>4, Facts DEF TypeOK
<1>6. SessionInv'
  BY <1>1, <1>2, <1>3, <1>4, Facts DEF TypeOK, SessionInv
<1>7. LockInv'
  BY <1>1, <1>2, <1>3, <1>4, Facts DEF TypeOK, LockInv
<1>8. StartInv' /\ OwnerInv'
  BY <1>1, <1>2, <1>3, <1>4, Facts DEF TypeOK, StartInv, OwnerInv, Live
<1>9. OpenerInv'
  BY <1>1, <1>2, <1>3, <1>4, Facts DEF TypeOK, OpenerInv
<1>10. CommandInv'
  BY <1>1, <1>2, <1>3, <1>4, Facts DEF TypeOK, CommandInv, Places
<1>11. CloserInv'
  BY <1>1, <1>2, <1>3, <1>4, Facts DEF TypeOK, CloserInv
<1>12. Served'
  BY <1>1, <1>2, <1>3, <1>4, Facts DEF TypeOK, Served
<1>13. EndInv'
  <2>1. \A o \in Owner : Places(o) = {}
    BY <1>1 DEF CommandInv
  <2>2. \A o \in Owner : serves[o] = Closer => owner[o] = "done"
    BY <1>4, Facts DEF TypeOK, StartInv
  <2>3. \A o \in Owner : Places(o)' = Places(o)
    BY <1>2 DEF Places
  <2> QED BY <1>1, <1>2, <2>1, <2>2, <2>3 DEF EndInv
<1> QED BY <1>5, <1>6, <1>7, <1>8, <1>9, <1>10, <1>11, <1>12, <1>13

\* disconnect puts its command on the queue, once.
LEMMA DisconnectStep ==
    ASSUME IInv, Disconnect
    PROVE  IInv'
<1> USE DEF IInv, BaseInv
<1>1. /\ pc[Closer] = "idle" /\ pc[Opener] = "returned" /\ response[Closer] = "pending"
      /\ UNCHANGED <<connected, ownerTask, readyFuture, commandQueue, session, lockHolder,
                     owner, getsFrom, serves, ready, response, awaits, lossy>>
  BY DEF Disconnect, client, task, CloserInv
<1>2. /\ queue' \in [Owner -> Seq(Caller)]
      /\ \E l \in {"raised", "awaitsResponse"} : pc' = [pc EXCEPT ![Closer] = l]
      /\ \A o \in Owner : Places(o)' = Places(o) \/
            (o = commandQueue /\ pc'[Closer] = "awaitsResponse"
             /\ Places(o)' = Places(o) \cup {Len(queue[o]) + 1})
  <2>1. Put(Closer)
    BY DEF Disconnect
  <2> QED BY <2>1, Facts, PutFacts
<1>3. \A o \in Owner : Places(o) = {} /\ ~ (owner[o] \in Live /\ serves[o] = Closer)
  BY <1>1 DEF CommandInv
<1>4. TypeOK'
  BY <1>1, <1>2, <1>3, Facts DEF TypeOK
<1>5. SessionInv'
  BY <1>1, <1>2, <1>3, Facts DEF TypeOK, SessionInv
<1>6. LockInv'
  BY <1>1, <1>2, <1>3, Facts DEF TypeOK, LockInv
<1>7. StartInv' /\ OwnerInv'
  BY <1>1, <1>2, <1>3, Facts DEF TypeOK, StartInv, OwnerInv
<1>8. OpenerInv'
  BY <1>1, <1>2, <1>3, Facts DEF TypeOK, OpenerInv
<1>9. CommandInv'
  <2>1. \A o \in Owner : ~ (owner'[o] \in Live /\ serves'[o] = Closer)
    BY <1>1, <1>3
  <2>2. \A o \in Owner : Places(o)' = {} \/
            (o = commandQueue /\ pc'[Closer] = "awaitsResponse" /\ Places(o)' = {Len(queue[o]) + 1})
    BY <1>2, <1>3
  <2>3. \A o, p \in Owner : \A i \in Places(o)', j \in Places(p)' : o = p /\ i = j
    BY <2>2
  <2>4. \A o \in Owner : Places(o)' # {} => pc'[Closer] = "awaitsResponse" /\ response'[Closer] = "pending"
    BY <2>2, <1>1
  <2> QED BY <2>1, <2>3, <2>4 DEF CommandInv
<1>10. CloserInv'
  BY <1>1, <1>2, <1>3, Facts DEF TypeOK, CloserInv
<1>11. Served'
  BY <1>1, <1>2, <1>3, Facts DEF TypeOK, Served
<1>12. EndInv'
  BY <1>1, <1>2, <1>3, Facts DEF TypeOK, EndInv, StartInv, Places
<1> QED BY <1>4, <1>5, <1>6, <1>7, <1>8, <1>9, <1>10, <1>11, <1>12

LEMMA DisconnectAnsweredStep ==
    ASSUME IInv, DisconnectAnswered
    PROVE  IInv'
<1> USE DEF IInv, BaseInv
<1>1. pc[Closer] = "awaitsResponse" /\ response[Closer] # "pending" /\ owner[Opener] = "done"
  BY DEF DisconnectAnswered, CloserInv
<1>0. CASE pc' = [pc EXCEPT ![Closer] = "raised"]
  <2>1. pc'[Closer] = "raised" /\ pc[Opener] = "returned"
    BY <1>0, <1>1, Facts DEF OpenerInv, TypeOK
  <2>2. UNCHANGED <<client, lockHolder, queue, task, ready, response, awaits, lossy>>
    BY <2>1, Facts DEF DisconnectAnswered, Goto, client, TypeOK
  <2> QED BY <1>0, <1>1, <2>1, <2>2, DisconnectRaisesFacts
<1> SUFFICES ASSUME pc' # [pc EXCEPT ![Closer] = "raised"] PROVE IInv'
  BY <1>0
<1>2. UNCHANGED <<connected, readyFuture, commandQueue, session, lockHolder, queue, owner, getsFrom,
                  serves, ready, response, lossy>>
  BY DEF DisconnectAnswered, task
<1>3. CASE OwnerEnded
  <2>1. ownerTask' = None /\ pc' = [pc EXCEPT ![Closer] = "returned"] /\ awaits' = awaits
    BY <1>3 DEF DisconnectAnswered, Goto
  <2>2. session = None /\ \A o \in Owner : owner[o] # "closing"
    BY <1>3, OwnerEndedFacts, Facts DEF SessionInv, Live
  <2>3. TypeOK'
    BY <1>1, <1>2, <1>3, <2>1, <2>2, Facts DEF TypeOK
  <2>4. SessionInv'
    BY <1>1, <1>2, <1>3, <2>1, <2>2, Facts DEF TypeOK, SessionInv
  <2>5. LockInv'
    BY <1>1, <1>2, <1>3, <2>1, <2>2, Facts DEF TypeOK, LockInv
  <2>6. StartInv' /\ OwnerInv'
    BY <1>1, <1>2, <1>3, <2>1, <2>2, Facts DEF TypeOK, StartInv, OwnerInv
  <2>7. OpenerInv'
    BY <1>1, <1>2, <1>3, <2>1, <2>2, Facts DEF TypeOK, OpenerInv
  <2>8. CommandInv'
    BY <1>1, <1>2, <1>3, <2>1, <2>2, Facts DEF TypeOK, CommandInv, Places
  <2>9. CloserInv'
    BY <1>1, <1>2, <1>3, <2>1, <2>2, Facts DEF TypeOK, CloserInv
  <2>10. Served'
    BY <1>1, <1>2, <1>3, <2>1, <2>2, Facts DEF TypeOK, Served
  <2>11. EndInv'
    <3>1. \A o \in Owner : Places(o) = {} /\ ~ (owner[o] \in Live /\ serves[o] = Closer)
      BY <1>1 DEF CommandInv
    <3>2. \A o \in Owner : serves[o] = Closer => owner[o] = "done"
      BY <3>1, Facts DEF TypeOK, StartInv
    <3>3. \A o \in Owner : Places(o)' = Places(o)
      BY <1>2 DEF Places
    <3> QED BY <1>1, <1>2, <3>1, <3>2, <3>3 DEF EndInv
  <2> QED BY <2>3, <2>4, <2>5, <2>6, <2>7, <2>8, <2>9, <2>10, <2>11
<1>4. CASE ~ OwnerEnded
  <2>1. /\ ownerTask' = ownerTask /\ pc' = [pc EXCEPT ![Closer] = "awaitsOwner"]
        /\ awaits' = [awaits EXCEPT ![Closer] = ownerTask]
    BY <1>4 DEF DisconnectAnswered, Goto
  <2>2. ownerTask \in Call /\ owner[ownerTask] # "done" /\ serves[ownerTask] # Closer
    <3>1. ownerTask \in Call /\ owner[ownerTask] # "done"
      BY <1>1, <1>4, Facts DEF OwnerEnded, TypeOK
    <3>2. owner[ownerTask] \in Live \/ owner[ownerTask] = "absent"
      BY <3>1, Facts DEF TypeOK
    <3> QED BY <3>1, <3>2, <1>1, Facts DEF CommandInv, StartInv
  <2>3. TypeOK'
    BY <1>1, <1>2, <1>4, <2>1, <2>2, Facts DEF TypeOK
  <2>4. SessionInv'
    BY <1>1, <1>2, <1>4, <2>1, <2>2, Facts DEF TypeOK, SessionInv
  <2>5. LockInv'
    BY <1>1, <1>2, <1>4, <2>1, <2>2, Facts DEF TypeOK, LockInv
  <2>6. StartInv' /\ OwnerInv'
    BY <1>1, <1>2, <1>4, <2>1, <2>2, Facts DEF TypeOK, StartInv, OwnerInv
  <2>7. OpenerInv'
    BY <1>1, <1>2, <1>4, <2>1, <2>2, Facts DEF TypeOK, OpenerInv
  <2>8. CommandInv'
    BY <1>1, <1>2, <1>4, <2>1, <2>2, Facts DEF TypeOK, CommandInv, Places
  <2>9. CloserInv'
    BY <1>1, <1>2, <1>4, <2>1, <2>2, Facts DEF TypeOK, CloserInv
  <2>10. Served'
    BY <1>1, <1>2, <1>4, <2>1, <2>2, Facts DEF TypeOK, Served
  <2>11. EndInv'
    BY <1>1, <1>2, <1>4, <2>1, <2>2, Facts DEF TypeOK, EndInv, StartInv, Places
  <2> QED BY <2>3, <2>4, <2>5, <2>6, <2>7, <2>8, <2>9, <2>10, <2>11
<1> QED BY <1>3, <1>4

\* The owner that disconnect waited for has ended: it failed to connect, and its caller
\* waits behind the disconnect; or its connection broke.
LEMMA DisconnectReturnsStep ==
    ASSUME IInv, DisconnectReturns
    PROVE  BaseInv' /\ (IInv' \/ ForgotOwner')
<1> USE DEF IInv, BaseInv
<1> DEFINE a == awaits[Closer]
<1>1. /\ pc[Closer] = "awaitsOwner" /\ response[Closer] # "pending" /\ owner[Opener] = "done"
      /\ a \in Call /\ owner[a] = "done" /\ serves[a] # Closer /\ pc[Opener] = "returned"
  BY Facts DEF DisconnectReturns, CloserInv, OpenerInv
<1>2. CASE pc' = [pc EXCEPT ![Closer] = "raised"]
  <2>1. pc'[Closer] = "raised"
    BY <1>2, Facts DEF TypeOK
  <2>2. UNCHANGED <<client, lockHolder, queue, task, ready, response, awaits, lossy>>
    BY <2>1, Facts DEF DisconnectReturns, Goto, client, TypeOK
  <2> QED BY <1>1, <1>2, <2>2, DisconnectRaisesFacts
<1> SUFFICES ASSUME pc' # [pc EXCEPT ![Closer] = "raised"] PROVE BaseInv' /\ (IInv' \/ ForgotOwner')
  BY <1>2
<1>3. /\ ownerTask' = None /\ pc' = [pc EXCEPT ![Closer] = "returned"]
      /\ UNCHANGED <<connected, readyFuture, commandQueue, session, lockHolder, queue, owner, getsFrom,
                     serves, ready, response, awaits, lossy>>
  BY DEF DisconnectReturns, Goto, task
<1>4. pc'[Closer] = "returned" /\ \A o \in Owner : pc'[o] = pc[o]
  BY <1>3, Facts DEF TypeOK
<1>5. \A o \in Owner : Places(o) = {} /\ ~ (owner[o] \in Live /\ serves[o] = Closer)
  BY <1>1 DEF CommandInv
<1>6. TypeOK' /\ StartInv' /\ OpenerInv'
  <2>1. TypeOK'
    BY <1>3, Facts DEF TypeOK
  <2>2. StartInv'
    BY <1>3, <1>4 DEF StartInv
  <2>3. OpenerInv'
    BY <1>1, <1>3, <1>4, Facts DEF OpenerInv
  <2> QED BY <2>1, <2>2, <2>3
<1>7. EndInv'
  <2>1. \A o \in Owner : serves[o] = Closer => owner[o] = "done"
    BY <1>5, Facts DEF TypeOK, StartInv
  <2>2. \A o \in Owner : Places(o)' = {}
    BY <1>3, <1>5 DEF Places
  <2> QED BY <1>1, <1>3, <2>1, <2>2 DEF EndInv
<1>8. CASE ready[a] = "error"
  <2>1. lockHolder = a /\ session = None /\ \A o \in Owner : owner[o] # "closing"
    BY <1>1, <1>8, Facts DEF CloserInv, SessionInv, LockInv, Live
  <2>2. SessionInv' /\ Served'
    BY <1>3, <2>1, Facts DEF SessionInv, Served
  <2>3. LockInv' /\ OwnerInv'
    BY <1>3, <1>4, <2>1 DEF LockInv, OwnerInv
  <2>4. CommandInv'
    BY <1>3, <1>5 DEF CommandInv, Places
  <2>5. CloserInv'
    BY <1>1, <1>3, <1>4 DEF CloserInv
  <2> QED BY <1>6, <1>7, <2>2, <2>3, <2>4, <2>5
<1>9. CASE ready[a] # "error"
  BY <1>1, <1>3, <1>4, <1>6, <1>7, <1>9, Facts DEF ForgotOwner, Broken
<1> QED BY <1>8, <1>9

-----------------------------------------------------------------------------
(* Each action preserves the invariant: the owner task *)

\* An owner that is at work goes back to its own queue.
LEMMA LoopFacts ==
    ASSUME IInv, NEW o \in Owner, session = o, Loop(o)
    PROVE  getsFrom' = [getsFrom EXCEPT ![o] = o] /\ owner' = [owner EXCEPT ![o] = "idle"]
BY Facts DEF Loop, IInv, SessionInv

\* The owner has connected.
LEMMA OwnerReadyStep ==
    ASSUME IInv, NEW o \in Owner, OwnerReady(o)
    PROVE  IInv'
<1> USE DEF IInv, BaseInv
<1>1. owner[o] = "connecting" /\ session = o /\ \A p \in Owner \ {o} : owner[p] \notin Live
  BY Facts DEF OwnerReady, SessionInv, Live
<1>2. getsFrom' = [getsFrom EXCEPT ![o] = o] /\ owner' = [owner EXCEPT ![o] = "idle"]
  BY <1>1, LoopFacts DEF OwnerReady
<1>3. /\ connected' = TRUE /\ ready' = [ready EXCEPT ![o] = "tools"]
      /\ UNCHANGED <<ownerTask, readyFuture, commandQueue, session, lockHolder, queue, serves,
                     response, awaits, pc, lossy>>
  BY DEF OwnerReady
<1>4. pc[Closer] = "awaitsOwner" => awaits[Closer] # o \/ owner[o] # "done"
  BY <1>1
<1>5. TypeOK'
  BY <1>1, <1>2, <1>3, <1>4, Facts DEF TypeOK, Live
<1>6. SessionInv'
  BY <1>1, <1>2, <1>3, <1>4, Facts DEF TypeOK, SessionInv, Live
<1>7. LockInv'
  BY <1>1, <1>2, <1>3, <1>4, Facts DEF TypeOK, LockInv
<1>8. StartInv' /\ OwnerInv'
  BY <1>1, <1>2, <1>3, <1>4, Facts DEF TypeOK, StartInv, OwnerInv
<1>9. OpenerInv'
  BY <1>1, <1>2, <1>3, <1>4, Facts DEF TypeOK, OpenerInv
<1>10. CommandInv'
  BY <1>1, <1>2, <1>3, <1>4, Facts DEF TypeOK, CommandInv, Places, Live
<1>11. CloserInv'
  BY <1>1, <1>2, <1>3, <1>4, Facts DEF TypeOK, CloserInv
<1>12. Served'
  BY <1>1, <1>2, <1>3, <1>4, Facts DEF TypeOK, Served, SessionInv
<1>13. EndInv'
  BY <1>1, <1>2, <1>3, <1>4, Facts DEF TypeOK, EndInv, StartInv, Places
<1> QED BY <1>5, <1>6, <1>7, <1>8, <1>9, <1>10, <1>11, <1>12, <1>13

\* The owner could not connect: its caller still has the lock.
LEMMA OwnerFailsStep ==
    ASSUME IInv, NEW o \in Owner, OwnerFails(o)
    PROVE  IInv'
<1> USE DEF IInv, BaseInv
<1>1. owner[o] = "connecting" /\ session = o /\ \A p \in Owner \ {o} : owner[p] \notin Live
  BY Facts DEF OwnerFails, SessionInv, Live
<1>2. ~ connected /\ lockHolder = o
  BY <1>1, Facts DEF Served, SessionInv
<1>3. /\ owner' = [owner EXCEPT ![o] = "closing"] /\ ready' = [ready EXCEPT ![o] = "error"]
      /\ UNCHANGED <<connected, ownerTask, readyFuture, commandQueue, session, lockHolder, queue,
                     getsFrom, serves, response, awaits, pc, lossy>>
  BY DEF OwnerFails, client
<1>4. TypeOK'
  BY <1>1, <1>2, <1>3, Facts DEF TypeOK, Live
<1>5. SessionInv'
  BY <1>1, <1>2, <1>3, Facts DEF TypeOK, SessionInv, Live
<1>6. LockInv'
  BY <1>1, <1>2, <1>3, Facts DEF TypeOK, LockInv
<1>7. StartInv' /\ OwnerInv'
  BY <1>1, <1>2, <1>3, Facts DEF TypeOK, StartInv, OwnerInv
<1>8. OpenerInv'
  BY <1>1, <1>2, <1>3, Facts DEF TypeOK, OpenerInv
<1>9. CommandInv'
  BY <1>1, <1>2, <1>3, Facts DEF TypeOK, CommandInv, Places, Live
<1>10. CloserInv'
  BY <1>1, <1>2, <1>3, Facts DEF TypeOK, CloserInv
<1>11. Served'
  BY <1>1, <1>2, <1>3, Facts DEF TypeOK, Served
<1>12. EndInv'
  BY <1>1, <1>2, <1>3, Facts DEF TypeOK, EndInv, StartInv, Places
<1> QED BY <1>4, <1>5, <1>6, <1>7, <1>8, <1>9, <1>10, <1>11, <1>12

\* A connection breaks.
LEMMA OwnerLosesStep ==
    ASSUME IInv, NEW o \in Owner, OwnerLoses(o)
    PROVE  IInv'
<1> USE DEF IInv, BaseInv
<1>1. owner[o] \in {"connecting", "idle", "serving"} /\ owner[o] \in Live
  BY DEF OwnerLoses, Live
<1>2. session = o /\ ready[o] # "error"
  BY <1>1, Facts DEF SessionInv, OwnerInv
<1>3. /\ owner' = [owner EXCEPT ![o] = "closing"]
      /\ UNCHANGED <<connected, ownerTask, readyFuture, commandQueue, session, lockHolder, queue,
                     getsFrom, serves, ready, response, awaits, pc, lossy>>
  BY DEF OwnerLoses, client
<1>4. TypeOK'
  BY <1>1, <1>2, <1>3, Facts DEF TypeOK, Live
<1>5. SessionInv'
  BY <1>1, <1>2, <1>3, Facts DEF TypeOK, SessionInv, Live
<1>6. LockInv'
  BY <1>1, <1>2, <1>3, Facts DEF TypeOK, LockInv
<1>7. StartInv' /\ OwnerInv'
  BY <1>1, <1>2, <1>3, Facts DEF TypeOK, StartInv, OwnerInv, Live
<1>8. OpenerInv'
  BY <1>1, <1>2, <1>3, Facts DEF TypeOK, OpenerInv
<1>9. CommandInv'
  BY <1>1, <1>2, <1>3, Facts DEF TypeOK, CommandInv, Places, Live
<1>10. CloserInv'
  BY <1>1, <1>2, <1>3, Facts DEF TypeOK, CloserInv
<1>11. Served'
  BY <1>1, <1>2, <1>3, Facts DEF TypeOK, Served
<1>12. EndInv'
  BY <1>1, <1>2, <1>3, Facts DEF TypeOK, EndInv, StartInv, Places
<1> QED BY <1>4, <1>5, <1>6, <1>7, <1>8, <1>9, <1>10, <1>11, <1>12

\* The owner takes a command from its own queue.
LEMMA OwnerTakesStep ==
    ASSUME IInv, NEW o \in Owner, OwnerTakes(o)
    PROVE  IInv'
<1> USE DEF IInv, BaseInv
<1>1. owner[o] = "idle" /\ session = o /\ getsFrom[o] = o /\ queue[o] # <<>>
  BY Facts DEF OwnerTakes, OwnerInv, SessionInv, Live
<1> DEFINE c == Head(queue[o])
<1>2. /\ serves' = [serves EXCEPT ![o] = c]
      /\ owner' = [owner EXCEPT ![o] = IF c = Closer THEN "closing" ELSE "serving"]
      /\ queue' = [queue EXCEPT ![o] = Tail(@)]
      /\ UNCHANGED <<connected, ownerTask, readyFuture, commandQueue, session, lockHolder,
                     getsFrom, ready, response, awaits, pc, lossy>>
  BY <1>1 DEF OwnerTakes, client
<1>3. /\ queue' \in [Owner -> Seq(Caller)] /\ c \in Caller
      /\ \A p \in Owner \ {o} : Places(p)' = Places(p)
      /\ c = Closer <=> 1 \in Places(o)
      /\ \A i \in Places(o)' : i + 1 \in Places(o) /\ i \in Nat /\ i >= 1
  BY <1>1, <1>2, TakeFacts
<1> HIDE DEF c
<1>4. c = Closer => Places(o) = {1} /\ Places(o)' = {} /\ \A p \in Owner \ {o} : Places(p) = {}
  BY <1>3 DEF CommandInv
<1>5. pc[Closer] = "awaitsOwner" => awaits[Closer] # o \/ c # Closer
  BY <1>3, <1>4 DEF CommandInv
<1>6. TypeOK'
  BY <1>1, <1>2, <1>3, <1>4, <1>5, Facts DEF TypeOK, Live
<1>7. SessionInv'
  BY <1>1, <1>2, <1>3, <1>4, <1>5, Facts DEF TypeOK, SessionInv, Live
<1>8. LockInv'
  BY <1>1, <1>2, <1>3, <1>4, <1>5, Facts DEF TypeOK, LockInv
<1>9. StartInv' /\ OwnerInv'
  BY <1>1, <1>2, <1>3, <1>4, <1>5, Facts DEF TypeOK, StartInv, OwnerInv, Live
<1>10. OpenerInv'
  BY <1>1, <1>2, <1>3, <1>4, <1>5, Facts DEF TypeOK, OpenerInv
<1>11. CommandInv'
  <2>1. \A p, q \in Owner : \A i \in Places(p)', j \in Places(q)' : p = q /\ i = j
    <3>1. \A p \in Owner : \A i \in Places(p)' : \E j \in Places(p) : p # o => i = j
      BY <1>3
    <3>2. ASSUME NEW p \in Owner, NEW q \in Owner, NEW i \in Places(p)', NEW j \in Places(q)'
          PROVE  p = q /\ i = j
      <4>1. p = q
        BY <3>1, <3>2 DEF CommandInv
      <4>2. CASE p = o
        BY <4>1, <4>2, <1>3 DEF CommandInv
      <4>3. CASE p # o
        BY <4>1, <4>3, <1>3 DEF CommandInv
      <4> QED BY <4>1, <4>2, <4>3
    <3> QED BY <3>2
  <2>2. ASSUME NEW p \in Owner, owner'[p] \in Live, serves'[p] = Closer
        PROVE  owner'[p] = "closing" /\ \A q \in Owner : Places(q)' = {}
    <3>1. p = o
      BY <2>2, <1>1, <1>2, Facts DEF SessionInv, TypeOK, Live
    <3>2. c = Closer
      BY <2>2, <3>1, <1>2 DEF TypeOK
    <3> QED BY <3>1, <3>2, <1>2, <1>3, <1>4 DEF TypeOK
  <2>3. ASSUME NEW p \in Owner, Places(p)' # {} \/ (owner'[p] \in Live /\ serves'[p] = Closer)
        PROVE  pc[Closer] = "awaitsResponse" /\ response[Closer] = "pending"
    <3>1. CASE Places(p)' # {}
      BY <3>1, <1>3 DEF CommandInv
    <3>2. CASE owner'[p] \in Live /\ serves'[p] = Closer
      <4>1. p = o
        BY <3>2, <1>1, <1>2, Facts DEF SessionInv, TypeOK, Live
      <4>2. c = Closer
        BY <3>2, <4>1, <1>2 DEF TypeOK
      <4> QED BY <4>2, <1>4 DEF CommandInv
    <3> QED BY <2>3, <3>1, <3>2
  <2> QED BY <2>1, <2>2, <2>3, <1>2 DEF CommandInv
<1>12. CloserInv'
  BY <1>1, <1>2, <1>3, <1>4, <1>5, Facts DEF TypeOK, CloserInv
<1>13. Served'
  BY <1>1, <1>2, <1>3, <1>4, <1>5, Facts DEF TypeOK, Served
<1>14. EndInv'
  <2> SUFFICES ASSUME pc[Closer] = "returned" PROVE EndInv'
    BY <1>2 DEF EndInv
  <2>1. c # Closer
    BY <1>4 DEF CommandInv
  <2>2. owner'[Opener] = "done"
    BY <1>1, <1>2, Facts DEF EndInv, TypeOK
  <2>3. \A p \in Owner : Places(p)' = {}
    BY <1>3 DEF EndInv
  <2>4. \A p \in Owner : serves'[p] = Closer => owner'[p] = "done"
    BY <1>1, <1>2, <2>1 DEF EndInv, TypeOK
  <2> QED BY <2>2, <2>3, <2>4 DEF EndInv
<1> QED BY <1>6, <1>7, <1>8, <1>9, <1>10, <1>11, <1>12, <1>13, <1>14

\* The owner answers a tool call.
LEMMA OwnerAnswersStep ==
    ASSUME IInv, NEW o \in Owner, OwnerAnswers(o)
    PROVE  IInv'
<1> USE DEF IInv, BaseInv
<1>1. owner[o] = "serving" /\ session = o /\ serves[o] # Closer
  BY Facts DEF OwnerAnswers, SessionInv, CommandInv, Live
<1>2. getsFrom' = [getsFrom EXCEPT ![o] = o] /\ owner' = [owner EXCEPT ![o] = "idle"]
  BY <1>1, LoopFacts DEF OwnerAnswers
<1>3. /\ serves' = [serves EXCEPT ![o] = None]
      /\ \E outcome \in {"result", "error"} : response' = [response EXCEPT ![serves[o]] = outcome]
      /\ UNCHANGED <<connected, ownerTask, readyFuture, commandQueue, session, lockHolder, queue,
                     ready, awaits, pc, lossy>>
  BY DEF OwnerAnswers, client
<1>4. response'[Closer] = response[Closer]
  BY <1>1, <1>3, Facts DEF TypeOK
<1>5. TypeOK'
  <2>1. response' \in [Caller -> {"pending", "result", "error"}]
    BY <1>3 DEF TypeOK
  <2>2. owner' \in [Owner -> Live \cup {"absent", "done"}] /\ getsFrom' \in [Owner -> Owner \cup {None}]
    BY <1>2 DEF TypeOK, Live
  <2>3. serves' \in [Owner -> Caller \cup {None}]
    BY <1>3 DEF TypeOK
  <2> QED BY <1>3, <2>1, <2>2, <2>3 DEF TypeOK
<1>6. SessionInv'
  BY <1>1, <1>2, <1>3, <1>4, Facts DEF TypeOK, SessionInv, Live
<1>7. LockInv'
  BY <1>1, <1>2, <1>3, <1>4, Facts DEF TypeOK, LockInv
<1>8. StartInv' /\ OwnerInv'
  BY <1>1, <1>2, <1>3, <1>4, Facts DEF TypeOK, StartInv, OwnerInv, Live
<1>9. OpenerInv'
  BY <1>1, <1>2, <1>3, <1>4, Facts DEF TypeOK, OpenerInv
<1>10. CommandInv'
  BY <1>1, <1>2, <1>3, <1>4, Facts DEF TypeOK, CommandInv, Places, Live
<1>11. CloserInv'
  BY <1>1, <1>2, <1>3, <1>4, Facts DEF TypeOK, CloserInv
<1>12. Served'
  BY <1>1, <1>2, <1>3, <1>4, Facts DEF TypeOK, Served, SessionInv
<1>13. EndInv'
  BY <1>1, <1>2, <1>3, <1>4, Facts DEF TypeOK, EndInv, StartInv, Places
<1> QED BY <1>5, <1>6, <1>7, <1>8, <1>9, <1>10, <1>11, <1>12, <1>13

\* The owner leaves its session: if nobody is connected through it any more, its caller
\* has the lock or has returned.
LEMMA OwnerClosesStep ==
    ASSUME IInv, NEW o \in Owner, OwnerCloses(o)
    PROVE  IInv'
<1> USE DEF IInv, BaseInv
<1>1. /\ owner[o] = "closing" /\ session = o /\ ownerTask = o
      /\ \A p \in Owner \ {o} : owner[p] \notin Live
  BY Facts DEF OwnerCloses, SessionInv, Live
<1>2. /\ owner' = [owner EXCEPT ![o] = "done"]
      /\ session' = None /\ connected' = FALSE /\ commandQueue' = None
      /\ UNCHANGED <<ownerTask, readyFuture, lockHolder, queue, getsFrom, serves, ready, awaits, pc, lossy>>
  BY DEF OwnerCloses
<1>3. response' = IF serves[o] = Closer THEN [response EXCEPT ![Closer] = "result"] ELSE response
  BY DEF OwnerCloses
<1>4. serves[o] = Closer =>
          /\ pc[Closer] = "awaitsResponse" /\ response[Closer] = "pending"
          /\ response'[Closer] = "result" /\ \A p \in Owner : Places(p) = {}
  BY <1>1, <1>3, Facts DEF CommandInv, Live, TypeOK
<1>5. serves[o] # Closer => response'[Closer] = response[Closer]
  BY <1>3
<1>6. pc[Closer] # "idle" => o = Opener \/ owner[Opener] = "done"
  BY <1>1, Facts DEF OpenerInv, TypeOK
<1>7. pc[Closer] = "awaitsOwner" /\ awaits[Closer] = o /\ ready[o] = "error" => lockHolder = o
  BY <1>1, Facts DEF OwnerInv
<1>8. TypeOK'
  BY <1>1, <1>2, <1>3, <1>4, <1>5, <1>6, <1>7, Facts DEF TypeOK, Live
<1>9. SessionInv'
  BY <1>1, <1>2, <1>3, <1>4, <1>5, <1>6, <1>7, Facts DEF TypeOK, SessionInv, Live
<1>10. LockInv'
  BY <1>1, <1>2, <1>3, <1>4, <1>5, <1>6, <1>7, Facts DEF TypeOK, LockInv
<1>11. StartInv' /\ OwnerInv'
  BY <1>1, <1>2, <1>3, <1>4, <1>5, <1>6, <1>7, Facts DEF TypeOK, StartInv, OwnerInv, Live
<1>12. OpenerInv'
  BY <1>1, <1>2, <1>3, <1>4, <1>5, <1>6, <1>7, Facts DEF TypeOK, OpenerInv
<1>13. CommandInv'
  BY <1>1, <1>2, <1>3, <1>4, <1>5, <1>6, <1>7, Facts DEF TypeOK, CommandInv, Places, Live
<1>14. CloserInv'
  BY <1>1, <1>2, <1>3, <1>4, <1>5, <1>6, <1>7, Facts DEF TypeOK, CloserInv, Live
<1>15. Served'
  BY <1>1, <1>2, <1>3, <1>4, <1>5, <1>6, <1>7, Facts DEF TypeOK, Served
<1>16. EndInv'
  BY <1>1, <1>2, <1>3, <1>4, <1>5, <1>6, <1>7, Facts DEF TypeOK, EndInv, StartInv, Places
<1> QED BY <1>8, <1>9, <1>10, <1>11, <1>12, <1>13, <1>14, <1>15, <1>16

-----------------------------------------------------------------------------
(* After a disconnect that may have forgotten an owner *)

\* What a step of another task may do then: it takes no owner back from its end, and
\* no owner gets the command of the disconnect again.
Harmless ==
    /\ TypeOK' /\ StartInv'
    /\ pc'[Closer] = pc[Closer] /\ pc'[Opener] = pc[Opener] /\ awaits'[Closer] = awaits[Closer]
    /\ \A o \in Owner : Places(o)' = {}
    /\ \A o \in Owner : owner[o] # "absent" => owner'[o] # "absent"
    /\ \A o \in Owner : owner[o] = "done" => owner'[o] = "done" /\ ready'[o] = ready[o] /\ serves'[o] = serves[o]
    /\ \A o \in Owner : serves'[o] = Closer => serves[o] = Closer

LEMMA HarmlessKeeps ==
    ASSUME BaseInv, ForgotOwner, Harmless
    PROVE  BaseInv' /\ ForgotOwner'
<1>1. /\ pc[Closer] = "returned" /\ awaits[Closer] # None /\ Broken(awaits[Closer])
      /\ pc[Opener] = "returned" /\ awaits[Closer] \in Owner
  BY Facts DEF ForgotOwner, BaseInv, OpenerInv, TypeOK
<1>2. OpenerInv'
  BY <1>1, Facts DEF Harmless, BaseInv, OpenerInv
<1>3. EndInv'
  BY <1>1, Facts DEF Harmless, BaseInv, EndInv
<1>4. ForgotOwner'
  BY <1>1 DEF Harmless, ForgotOwner, Broken
<1> QED BY <1>2, <1>3, <1>4 DEF Harmless, BaseInv

LEMMA CallerIsHarmless ==
    ASSUME BaseInv, ForgotOwner, NEW c \in Owner, CallerStep(c) \/ (c \in Call /\ CallTool(c))
    PROVE  Harmless
<1>1. /\ TypeOK /\ StartInv /\ pc[Closer] = "returned" /\ pc[Opener] = "returned"
      /\ c \in Caller /\ c # Closer /\ \A o \in Owner : Places(o) = {}
  BY Facts DEF ForgotOwner, BaseInv, OpenerInv, EndInv
<1>2. pc[c] \in {"idle", "wantsLock", "awaitsReady", "awaitsOwner", "awaitsResponse"} /\ c # Opener
  BY <1>1 DEF CallerStep, CallTool, FindsConnected, StartOwner, Ready, ConnectRaises, CallReturns
<1>3. CASE StartOwner(c)
  <2>1. /\ lockHolder' = c /\ readyFuture' = c /\ commandQueue' = c /\ ownerTask' = c /\ session' = c
        /\ owner' = [owner EXCEPT ![c] = "connecting"] /\ pc' = [pc EXCEPT ![c] = "awaitsReady"]
        /\ UNCHANGED <<connected, queue, getsFrom, serves, ready, response, awaits, lossy>>
        /\ owner[c] = "absent"
    BY <1>1, <1>3 DEF StartOwner, Goto, StartInv
  <2>2. TypeOK'
    BY <1>1, <2>1 DEF TypeOK, Live
  <2>3. StartInv'
    BY <1>1, <2>1 DEF TypeOK, StartInv
  <2>4. \A o \in Owner : Places(o)' = {}
    BY <1>1, <2>1 DEF Places
  <2> QED BY <1>1, <1>2, <2>1, <2>2, <2>3, <2>4, Facts DEF Harmless, TypeOK
<1>4. CASE ~ StartOwner(c)
  <2>1. /\ UNCHANGED <<connected, ownerTask, commandQueue, session, owner, getsFrom, serves, ready,
                       response, lossy>>
        /\ lockHolder' \in {lockHolder, None} /\ readyFuture' \in {readyFuture, None}
        /\ awaits' \in {awaits, [awaits EXCEPT ![c] = ownerTask]}
    BY <1>1, <1>4 DEF CallerStep, CallTool, FindsConnected, Ready, ConnectRaises, CallReturns, client, task,
       LeaveConnect
  <2>2. /\ queue' \in [Owner -> Seq(Caller)] /\ \A o \in Owner : Places(o)' = Places(o)
        /\ \E l \in {"wantsLock", "awaitsOwner", "awaitsResponse", "returned", "raised"} :
               pc' = [pc EXCEPT ![c] = l] /\ (l = "wantsLock" => pc[c] = "idle")
    <3>1. CASE Put(c)
      BY <1>1, <3>1, PutFacts
    <3>2. CASE ~ Put(c)
      <4>1. queue' = queue
        BY <1>1, <1>2, <1>4, <3>2 DEF CallerStep, CallTool, FindsConnected, Ready, ConnectRaises, CallReturns, Connected
      <4>2. \E l \in {"wantsLock", "awaitsOwner", "returned", "raised"} :
                 pc' = [pc EXCEPT ![c] = l] /\ (l = "wantsLock" => pc[c] = "idle")
        BY <1>1, <1>2, <1>4, <3>2 DEF CallerStep, CallTool, FindsConnected, Ready, ConnectRaises, CallReturns, Connected, Goto
      <4>3. \A o \in Owner : Places(o)' = Places(o)
        BY <4>1 DEF Places
      <4> QED BY <1>1, <4>1, <4>2, <4>3 DEF TypeOK
    <3> QED BY <3>1, <3>2
  <2>3. TypeOK'
    <3>1. lockHolder' \in Owner \cup {None} /\ readyFuture' \in Owner \cup {None}
      BY <1>1, <2>1 DEF TypeOK
    <3>2. awaits' \in [Caller -> Owner \cup {None}]
      BY <1>1, <2>1 DEF TypeOK
    <3>3. pc' \in [Caller -> {"idle", "wantsLock", "awaitsReady", "awaitsOwner",
                             "awaitsResponse", "returned", "raised"}]
      BY <1>1, <2>2 DEF TypeOK
    <3> QED BY <1>1, <2>1, <2>2, <3>1, <3>2, <3>3 DEF TypeOK
  <2>4. StartInv'
    BY <1>1, <2>1, <2>2 DEF TypeOK, StartInv
  <2> QED BY <1>1, <1>2, <2>1, <2>2, <2>3, <2>4, Facts DEF Harmless, TypeOK
<1> QED BY <1>3, <1>4

LEMMA OwnerIsHarmless ==
    ASSUME BaseInv, ForgotOwner, NEW o \in Owner, OwnerStep(o) \/ OwnerLoses(o)
    PROVE  Harmless
<1>1. /\ TypeOK /\ StartInv /\ pc[Closer] = "returned" /\ \A p \in Owner : Places(p) = {}
      /\ \A p \in Owner : serves[p] = Closer => owner[p] = "done"
  BY DEF ForgotOwner, BaseInv, EndInv
<1>2. /\ owner[o] \in Live /\ UNCHANGED <<ownerTask, readyFuture, lockHolder, awaits, pc, lossy>>
      /\ connected' \in BOOLEAN /\ commandQueue' \in {commandQueue, None} /\ session' \in {session, None}
  BY <1>1 DEF OwnerStep, OwnerReady, OwnerFails, OwnerTakes, OwnerAnswers, OwnerCloses, OwnerLoses, client, Live, TypeOK
<1>3. \E st \in {"idle", "serving", "closing", "done"} : owner' = [owner EXCEPT ![o] = st]
  BY DEF OwnerStep, OwnerReady, OwnerFails, OwnerTakes, OwnerAnswers, OwnerCloses, OwnerLoses, Loop
<1>4. \/ getsFrom' = getsFrom /\ owner'[o] # "idle"
      \/ getsFrom' = [getsFrom EXCEPT ![o] = commandQueue] /\ (owner'[o] = "idle" => commandQueue # None)
  BY <1>1 DEF OwnerStep, OwnerReady, OwnerFails, OwnerTakes, OwnerAnswers, OwnerCloses, OwnerLoses, Loop, task, TypeOK
<1>5. /\ queue' \in [Owner -> Seq(Caller)] /\ \A p \in Owner : Places(p)' = {}
      /\ \E c \in Caller \cup {None} : serves' \in {serves, [serves EXCEPT ![o] = c]} /\ c # Closer
  <2>1. CASE OwnerTakes(o)
    <3>1. PICK k \in Owner : k = getsFrom[o]
      BY <1>1, <2>1 DEF OwnerTakes, StartInv, TypeOK
    <3>2. queue[k] # <<>> /\ queue' = [queue EXCEPT ![k] = Tail(@)] /\ serves' = [serves EXCEPT ![o] = Head(queue[k])]
      BY <2>1, <3>1 DEF OwnerTakes
    <3>3. /\ queue' \in [Owner -> Seq(Caller)] /\ Head(queue[k]) \in Caller
          /\ \A p \in Owner \ {k} : Places(p)' = Places(p)
          /\ Head(queue[k]) = Closer <=> 1 \in Places(k)
          /\ \A i \in Places(k)' : i + 1 \in Places(k)
      BY <1>1, <3>2, TakeFacts
    <3> QED BY <1>1, <3>2, <3>3
  <2>2. CASE ~ OwnerTakes(o)
    <3>1. queue' = queue /\ serves' \in {serves, [serves EXCEPT ![o] = None]}
      BY <2>2 DEF OwnerStep, OwnerReady, OwnerFails, OwnerAnswers, OwnerCloses, OwnerLoses, task
    <3> QED BY <1>1, <3>1, Facts DEF Places, TypeOK
  <2> QED BY <2>1, <2>2
<1>6. /\ ready' \in {ready, [ready EXCEPT ![o] = "tools"], [ready EXCEPT ![o] = "error"]}
      /\ response' \in [Caller -> {"pending", "result", "error"}]
  <2>1. ready' \in {ready, [ready EXCEPT ![o] = "tools"], [ready EXCEPT ![o] = "error"]}
    BY DEF OwnerStep, OwnerReady, OwnerFails, OwnerTakes, OwnerAnswers, OwnerCloses, OwnerLoses
  <2>2. \/ response' = response \/ response' = [response EXCEPT ![Closer] = "result"]
        \/ \E outcome \in {"result", "error"} : response' = [response EXCEPT ![serves[o]] = outcome]
    BY DEF OwnerStep, OwnerReady, OwnerFails, OwnerTakes, OwnerAnswers, OwnerCloses, OwnerLoses
  <2>3. response' \in [Caller -> {"pending", "result", "error"}]
    <3>1. CASE response' = response
      BY <1>1, <3>1 DEF TypeOK
    <3>2. CASE response' = [response EXCEPT ![Closer] = "result"]
      BY <1>1, <3>2 DEF TypeOK
    <3>3. ASSUME NEW outcome \in {"result", "error"}, response' = [response EXCEPT ![serves[o]] = outcome]
          PROVE  response' \in [Caller -> {"pending", "result", "error"}]
      BY <1>1, <3>3 DEF TypeOK
    <3> QED BY <2>2, <3>1, <3>2, <3>3
  <2> QED BY <2>1, <2>3
<1>7. TypeOK'
  <2>1. owner' \in [Owner -> Live \cup {"absent", "done"}]
    BY <1>1, <1>3 DEF TypeOK, Live
  <2>2. getsFrom' \in [Owner -> Owner \cup {None}]
    BY <1>1, <1>4 DEF TypeOK
  <2>3. serves' \in [Owner -> Caller \cup {None}]
    BY <1>1, <1>5 DEF TypeOK
  <2>4. ready' \in [Owner -> {"pending", "tools", "error"}]
    BY <1>1, <1>6 DEF TypeOK
  <2> QED BY <1>1, <1>2, <1>5, <1>6, <2>1, <2>2, <2>3, <2>4 DEF TypeOK
<1>8. owner[o] # "absent" /\ owner[o] # "done"
  BY <1>2 DEF Live
<1>9. StartInv'
  BY <1>1, <1>2, <1>3, <1>4, <1>5, <1>6, <1>8 DEF TypeOK, StartInv
<1> QED BY <1>1, <1>2, <1>3, <1>5, <1>6, <1>7, <1>8, <1>9 DEF Harmless, TypeOK

LEMMA ForgotStep ==
    ASSUME BaseInv, ForgotOwner, [Next]_vars
    PROVE  BaseInv' /\ ForgotOwner'
<1>1. pc[Closer] = "returned" /\ pc[Opener] = "returned"
  BY Facts DEF ForgotOwner, BaseInv, OpenerInv
<1>2. ~ (Open \/ Disconnect \/ DisconnectIdle \/ CloserStep)
  BY <1>1 DEF Open, Disconnect, DisconnectIdle, CloserStep, DisconnectAnswered, DisconnectReturns
<1>3. CASE UNCHANGED vars
  BY <1>3 DEF vars, BaseInv, TypeOK, StartInv, OpenerInv, EndInv, Places, ForgotOwner, Broken
<1>4. CASE Next
  <2>1. \/ \E c \in Owner : CallerStep(c) \/ (c \in Call /\ CallTool(c))
        \/ \E o \in Owner : OwnerStep(o) \/ OwnerLoses(o)
    BY <1>2, <1>4, Facts DEF Next
  <2> QED BY <2>1, CallerIsHarmless, OwnerIsHarmless, HarmlessKeeps
<1> QED BY <1>3, <1>4

-----------------------------------------------------------------------------
(* Theorems *)

LEMMA IInvStep ==
    ASSUME IInv, [Next]_vars
    PROVE  BaseInv' /\ (IInv' \/ ForgotOwner')
<1>0. IInv' => BaseInv'
  BY DEF IInv
<1>1. ASSUME NEW c \in Owner, CallerStep(c)
      PROVE  IInv'
  <2>1. CASE Ready(c)
    <3>1. ready[c] = "tools" \/ ready[c] = "error"
      BY <2>1 DEF Ready
    <3> QED BY <2>1, <3>1, ReadyToolsStep, ReadyErrorStep
  <2> QED BY <1>1, <2>1, FindsConnectedStep, StartOwnerStep, ConnectRaisesStep, CallReturnsStep
          DEF CallerStep
<1>2. ASSUME NEW o \in Owner, OwnerStep(o) \/ OwnerLoses(o)
      PROVE  IInv'
  BY <1>2, OwnerReadyStep, OwnerFailsStep, OwnerTakesStep, OwnerAnswersStep, OwnerClosesStep,
     OwnerLosesStep DEF OwnerStep
<1>3. CASE Open \/ \E c \in Call : CallTool(c)
  BY <1>0, <1>3, OpenStep, CallToolStep
<1>4. CASE Disconnect \/ DisconnectIdle \/ CloserStep
  BY <1>0, <1>4, DisconnectStep, DisconnectIdleStep, DisconnectAnsweredStep, DisconnectReturnsStep
     DEF CloserStep
<1>5. CASE UNCHANGED vars
  <2>1. UNCHANGED <<connected, ownerTask, readyFuture, commandQueue, session, lockHolder, queue, owner,
                    getsFrom, serves, ready, response, awaits, pc, lossy>>
    BY <1>5 DEF vars
  <2>2. TypeOK' /\ StartInv' /\ OpenerInv' /\ EndInv' /\ SessionInv' /\ LockInv' /\ OwnerInv'
    BY <2>1 DEF IInv, BaseInv, TypeOK, StartInv, OpenerInv, EndInv, SessionInv, LockInv, OwnerInv, Places
  <2>3. CommandInv' /\ CloserInv' /\ Served'
    BY <2>1 DEF IInv, CommandInv, CloserInv, Served, Places
  <2> QED BY <2>2, <2>3 DEF IInv, BaseInv
<1> QED BY <1>0, <1>1, <1>2, <1>3, <1>4, <1>5 DEF Next

LEMMA InvStep ==
    ASSUME Inv, [Next]_vars
    PROVE  Inv'
<1>1. CASE IInv
  BY <1>1, IInvStep DEF Inv
<1>2. CASE ForgotOwner
  BY <1>2, ForgotStep DEF Inv
<1> QED BY <1>1, <1>2 DEF Inv

\* Everything the theorems about the client rest on: IInv, until a disconnect that waited
\* for a reopened connection that broke may have forgotten an owner, and BaseInv for good.
THEOREM InvariantHolds == Spec => []Inv
<1>1. Init => Inv
  BY InitIInv DEF Inv, IInv
<1> QED BY <1>1, InvStep, PTL DEF Spec

\* The attributes of the client, its owner tasks, queues and futures are well typed
\* (harness/mcp/client.py).
THEOREM TypeCorrect == Spec => []TypeOK
<1>1. Inv => TypeOK
  BY DEF Inv, BaseInv
<1> QED BY <1>1, InvariantHolds, PTL

\* A client that says it is connected has an owner that waits on the queue that
\* call_tool and disconnect put their commands on, whichever connections break, but for
\* what follows a disconnect that may have forgotten an owner.
THEOREM ConnectedIsServedHolds == Spec => []ConnectedIsServed
<1>1. Inv => ConnectedIsServed
  BY DEF Inv, IInv, Served, ConnectedIsServed
<1> QED BY <1>1, InvariantHolds, PTL

\* A disconnect that has returned has seen closed the manager's connection and the one
\* that took its command, whoever reconnected and whichever connections broke.
THEOREM DisconnectWaitsForCloseHolds == Spec => []DisconnectWaitsForClose
<1>1. Inv => DisconnectWaitsForClose
  BY DEF Inv, BaseInv, EndInv, DisconnectWaitsForClose
<1> QED BY <1>1, InvariantHolds, PTL

\* An owner task leaves the session that it entered (client.py:61-63), for any number
\* of calls that reconnect and whichever connections break, but for what follows a
\* disconnect that may have forgotten an owner.
THEOREM LeavesOwnContextsHolds == Spec => LeavesOwnContexts
<1>1. Inv => \A o \in Owner : owner[o] = "closing" /\ owner'[o] = "done" => session = o \/ ForgotOwner
  BY DEF Inv, IInv, SessionInv, Live
<1> QED BY <1>1, InvariantHolds, PTL DEF LeavesOwnContexts
=============================================================================
