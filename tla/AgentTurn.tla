------------------------------ MODULE AgentTurn -------------------------------
(***************************************************************************)
(* The turns of a chat and the session log they leave: the WebSocket chat, *)
(* the two HTTP chats and the DingTalk callback of gateway/server.py, with *)
(* gateway/session.py as the log and ToolGate as what happens to the tools *)
(* an agent calls.                                                         *)
(*                                                                         *)
(* All of them run on one event loop, and agent.stream and agent.invoke    *)
(* are synchronous: a handler holds the loop (variable loop) from one      *)
(* await to the next, while a batch of tools runs in threads as well.  For *)
(* an HTTP turn this is from the lane's acquire to its release, so the     *)
(* lane, which LaneQueue models, never makes one turn wait for another and *)
(* is left out here.  The agent, its model, the client and the external    *)
(* agents are external; every await on them may fail.                      *)
(*                                                                         *)
(* A crash of the gateway loses everything but the log; it may tear the    *)
(* line that is being written.                                             *)
(***************************************************************************)
EXTENDS ToolGate, FiniteSets, SequencesExt

CONSTANTS
    Conns,         \* WebSocket connections; each has a fresh session of its own
    Reqs,          \* HTTP requests
    Contained,     \* what an AI message may hold besides its calls
    MaxTurns,      \* bound on the turns of a connection
    MaxBatch,      \* bound on the calls of one AI message of a task
    MaxChunks,     \* bound on the chunks of an answer
    MaxDecided,    \* bound on the approvals a human decides
    MaxCrashes     \* bound on the crashes

ASSUME TasksAssumption ==
    /\ Conns \cap Reqs = {} /\ None \notin Conns \cup Reqs
    /\ Sessions = Conns \cup Reqs \cup {Default} /\ Default \notin Conns \cup Reqs

Tasks == Conns \cup Reqs

ASSUME BoundsAssumption ==
    /\ Contained \subseteq SUBSET {"skill", "text"}
    /\ MaxBatch \in [Tasks -> Nat]
    /\ {MaxTurns, MaxChunks, MaxDecided, MaxCrashes} \subseteq Nat

VARIABLES
    loop,          \* the task that holds the event loop, or None
    at,            \* where each task is in its handler
    kind,          \* whose agent a connection speaks to
    target,        \* the session the task writes to
    manifest,      \* the connection has a skill manifest event
    turn,          \* turns the connection has begun
    out,           \* frames the handler has yet to send for the current message
    events,        \* turn_process_events
    text,          \* length of full_response, in pieces
    shown,         \* what the client received of the answer in this turn
    batch,         \* calls of the current AI message, in order
    log,           \* the JSONL file of each session
    crashes

turnVars == <<loop, at, kind, target, manifest, turn, out, events, text, shown, batch, log, crashes>>
vars == <<gateVars, turnVars>>

Kinds == {"internal", "external"}
Frame == [type : {"progress", "chunk", "skill_use", "tool_call", "skill_manifest"}, call : Calls \cup {None}]
F(type) == [type |-> type, call |-> None]
ToolCallEvent(c) == [type |-> "tool_call", call |-> c]

\* The tool calls and skill declarations a client received, in order, and the number
\* of its chunks.
Shown == [marks : Seq(Frame), chunks : Nat]
NothingShown == [marks |-> <<>>, chunks |-> 0]

\* A line of a session file.  "torn" is a line cut by a crash; the next record is
\* written on the same line, which is then "garbage".  The lines of an HTTP turn are
\* written in one go when it is over: they are one line here, "http".
Line == [by : Tasks, turn : Nat, type : {"human", "ai", "calls", "tool", "final", "http", "torn", "garbage"},
         calls : SUBSET Calls, text : Nat, events : Seq(Frame)]
L(t, type, calls, n, ev) ==
    [by |-> t, turn |-> turn[t], type |-> type, calls |-> calls, text |-> n, events |-> ev]

TypeOK ==
    /\ GateTypeOK
    /\ loop \in Tasks \cup {None}
    /\ at \in [Tasks -> {"new", "ready", "stream", "sending", "ending", "tools", "proxy", "closed"}]
    /\ kind \in [Conns -> Kinds \cup {None}]
    /\ target \in [Tasks -> Tasks]
    /\ manifest \in [Conns -> BOOLEAN]
    /\ turn \in [Tasks -> Nat]
    /\ out \in [Conns -> Seq(Frame)]
    /\ events \in [Conns -> Seq(Frame)]
    /\ text \in [Conns -> Nat]
    /\ shown \in [Conns -> Shown]
    /\ batch \in [Tasks -> Seq(Calls)]
    /\ log \in [Tasks -> Seq(Line)]
    /\ crashes \in Nat

Init ==
    /\ GateInit
    /\ loop = None
    /\ at = [t \in Tasks |-> "new"]
    /\ kind = [w \in Conns |-> None]
    /\ target = [t \in Tasks |-> t]
    /\ manifest = [w \in Conns |-> FALSE]
    /\ turn = [t \in Tasks |-> 0]
    /\ out = [w \in Conns |-> <<>>]
    /\ events = [w \in Conns |-> <<>>]
    /\ text = [w \in Conns |-> 0]
    /\ shown = [w \in Conns |-> NothingShown]
    /\ batch = [t \in Tasks |-> <<>>]
    /\ log = [s \in Tasks |-> <<>>]
    /\ crashes = 0

---------------------------------------------------------------------------
(* gateway/session.py *)

\* write_message appends to the file, without looking at how it ends.
WriteMessage(file, line) ==
    IF file # <<>> /\ Last(file).type = "torn"
    THEN Append(Front(file), [line EXCEPT !.type = IF @ = "torn" THEN "torn" ELSE "garbage"])
    ELSE Append(file, line)

\* Only the first of several lines can meet a torn one.
WriteAll(file, lines) ==
    IF lines = <<>> THEN file ELSE WriteMessage(file, Head(lines)) \o Tail(lines)

Write(t, line) == log' = [log EXCEPT ![target[t]] = WriteMessage(@, line)]
At(t, place) == at' = [at EXCEPT ![t] = place]

---------------------------------------------------------------------------
(* The WebSocket chat *)

\* Authentication, role check, agent creation, session_start and, for an internal
\* agent, the skill manifest: an exception while it is built is only logged.
Open(w) == \E k \in {"internal", "external"}, m \in BOOLEAN :
    /\ at[w] = "new" /\ loop = None
    /\ m => k = "internal"
    /\ kind' = [kind EXCEPT ![w] = k]
    /\ manifest' = [manifest EXCEPT ![w] = m]
    /\ At(w, "ready")
    /\ UNCHANGED <<gateVars, loop, target, turn, out, events, text, shown, batch, log, crashes>>

\* Bad credentials, a role below the agent's, or a client that is gone; later,
\* a client that closes the connection between two turns.
Disconnect(w) ==
    /\ at[w] \in {"new", "ready"} /\ loop = None
    /\ At(w, "closed")
    /\ UNCHANGED <<gateVars, loop, kind, target, manifest, turn, out, events, text, shown, batch, log, crashes>>

\* The finally clause of an internal turn: the answer so far, with its events.
FinalLine(w) == L(w, "final", {}, text[w], events[w])

\* What the events of a turn begin with.
Opening(w) == (IF manifest[w] THEN <<F("skill_manifest")>> ELSE <<>>) \o <<F("progress")>>

\* A message for an internal agent: progress is sent, and then the human line is
\* written.  From there the handler holds the loop up to its next send.
BeginTurn(w) ==
    /\ at[w] = "ready" /\ kind[w] = "internal" /\ loop = None /\ turn[w] < MaxTurns
    /\ turn' = [turn EXCEPT ![w] = @ + 1]
    /\ events' = [events EXCEPT ![w] = Opening(w)]
    /\ text' = [text EXCEPT ![w] = 0]
    /\ shown' = [shown EXCEPT ![w] = NothingShown]
    /\ loop' = w
    /\ At(w, "stream")
    /\ log' = [log EXCEPT ![w] = WriteMessage(@, [L(w, "human", {}, 0, <<>>) EXCEPT !.turn = @ + 1])]
    /\ UNCHANGED <<gateVars, kind, target, manifest, out, batch, crashes>>

\* The client is gone when progress is sent: the finally clause writes an answer
\* to a question that was never written.
BeginTurnFails(w) ==
    /\ at[w] = "ready" /\ kind[w] = "internal" /\ loop = None /\ turn[w] < MaxTurns
    /\ turn' = [turn EXCEPT ![w] = @ + 1]
    /\ events' = [events EXCEPT ![w] = Opening(w)]
    /\ text' = [text EXCEPT ![w] = 0]
    /\ shown' = [shown EXCEPT ![w] = NothingShown]
    /\ At(w, "closed")
    /\ log' = [log EXCEPT ![w] = WriteMessage(@, [by |-> w, turn |-> turn'[w], type |-> "final",
                                calls |-> {}, text |-> 0, events |-> Opening(w)])]
    /\ UNCHANGED <<gateVars, loop, kind, target, manifest, out, batch, crashes>>

\* Fresh calls for an AI message, in the order of its tool_calls.
FreshBatches(t) ==
    {b \in UNION {[1..n -> {c \in Calls : pc[c] = "idle"}] : n \in 0..MaxBatch[t]} : IsInjective(b)}

Ask(t, b) ==
    /\ batch' = [batch EXCEPT ![t] = b]
    /\ pc' = [c \in Calls |-> IF c \in ToSet(b) THEN "asked" ELSE pc[c]]

\* The model node's AI message.  A message with tool calls is written at once and
\* its frames are queued: a tool_call event per call, the declared skill if the
\* session knows it, and the visible text.  A message with none of these ends the
\* stream.
AiMessage(w) == \E b \in FreshBatches(w), parts \in Contained :
    LET frames == [i \in DOMAIN b |-> ToolCallEvent(b[i])]
                    \o (IF "skill" \in parts /\ manifest[w] THEN <<F("skill_use")>> ELSE <<>>)
                    \o (IF "text" \in parts THEN <<F("chunk")>> ELSE <<>>)
    IN
    /\ at[w] = "stream" /\ loop = w /\ batch[w] = <<>>
    /\ frames # <<>> /\ ("text" \in parts => text[w] < MaxChunks)
    /\ Ask(w, b)
    /\ out' = [out EXCEPT ![w] = frames]
    /\ IF b = <<>> THEN UNCHANGED log ELSE Write(w, L(w, "calls", ToSet(b), 0, <<>>))
    /\ loop' = None
    /\ At(w, "sending")
    /\ UNCHANGED <<reviewVars, sandboxVars>>
    /\ UNCHANGED <<kind, target, manifest, turn, events, text, shown, crashes>>

\* Mutant: an event of a type that was recorded before is left out.
RecordedOnce(w) == IF \E e \in ToSet(events[w]) : e.type = Head(out[w]).type THEN events
                   ELSE [events EXCEPT ![w] = Append(@, Head(out[w]))]

\* full_response grows before its chunk is sent, an event is recorded after.
Grown(w) == IF Head(out[w]).type = "chunk" THEN [text EXCEPT ![w] = @ + 1] ELSE text
Recorded(w) == IF Head(out[w]).type = "chunk" THEN events
               ELSE [events EXCEPT ![w] = Append(@, Head(out[w]))]
Received(w) == IF Head(out[w]).type = "chunk" THEN [shown EXCEPT ![w].chunks = @ + 1]
               ELSE [shown EXCEPT ![w].marks = Append(@, Head(out[w]))]

\* Mutant: what is left of the queue is dropped after one send.
SendOne(w) ==
    /\ at[w] = "sending" /\ loop = None /\ out[w] # <<>>
    /\ out' = [out EXCEPT ![w] = <<>>]
    /\ text' = Grown(w)
    /\ events' = Recorded(w)
    /\ shown' = Received(w)
    /\ loop' = w /\ At(w, IF batch[w] = <<>> THEN "ending" ELSE "stream")
    /\ UNCHANGED <<gateVars, kind, target, manifest, turn, batch, log, crashes>>

\* One send of the queue.  The handler resumes with the loop; when nothing is left
\* to send it goes on to the tools node, or, after a message without tool calls, to
\* the end of the stream.
Send(w) ==
    /\ at[w] = "sending" /\ loop = None /\ out[w] # <<>>
    /\ out' = [out EXCEPT ![w] = Tail(@)]
    /\ text' = Grown(w)
    /\ events' = Recorded(w)
    /\ shown' = Received(w)
    /\ IF Len(out[w]) > 1 THEN UNCHANGED <<loop, at>>
       ELSE loop' = w /\ At(w, IF batch[w] = <<>> THEN "ending" ELSE "stream")
    /\ UNCHANGED <<gateVars, kind, target, manifest, turn, batch, log, crashes>>

\* The client is gone: the turn is closed by its finally clause and the connection
\* with it.  Tools of the message that was being shown are never started.
SendFails(w) ==
    /\ at[w] = "sending" /\ loop = None /\ out[w] # <<>>
    /\ text' = Grown(w)
    /\ Write(w, L(w, "final", {}, text'[w], events[w]))
    /\ out' = [out EXCEPT ![w] = <<>>]
    /\ Forget(ToSet(batch[w]))
    /\ batch' = [batch EXCEPT ![w] = <<>>]
    /\ At(w, "closed")
    /\ UNCHANGED <<loop, kind, target, manifest, turn, events, shown, crashes>>

\* The stream ends, with the message just sent or with one that shows nothing:
\* the final line, and then "done", which may fail.  An exception of the model or
\* of a middleware leaves the same line and closes the connection.
EndTurn(w) == \E place \in {"ready", "closed"} :
    /\ at[w] \in {"stream", "ending"} /\ loop = w /\ batch[w] = <<>>
    /\ Write(w, FinalLine(w))
    /\ loop' = None
    /\ At(w, place)
    /\ UNCHANGED <<gateVars, kind, target, manifest, turn, out, events, text, shown, batch, crashes>>

---------------------------------------------------------------------------
(* The tools node, of a stream or of an HTTP turn *)

\* Each call of the message starts in a thread of its own, all for one session.
StartTools(t) == \E ask \in [DOMAIN batch[t] -> Ops] :
    /\ at[t] = "stream" /\ loop = t /\ batch[t] # <<>>
    /\ LET Of(c) == CHOOSE i \in DOMAIN batch[t] : batch[t][i] = c
           Mine == ToSet(batch[t])
       IN /\ pc' = [c \in Calls |-> IF c \in Mine THEN "check" ELSE pc[c]]
          /\ op' = [c \in Calls |-> IF c \in Mine THEN ask[Of(c)] ELSE op[c]]
          /\ sess' = [c \in Calls |-> IF c \in Mine THEN KeyFor(target[t]) ELSE sess[c]]
    /\ At(t, "tools")
    /\ UNCHANGED <<level, llm, approvals, sandboxVars>>
    /\ UNCHANGED <<loop, kind, target, manifest, turn, out, events, text, shown, batch, log, crashes>>

ToolsEnded(t) == at[t] = "tools" /\ \A c \in ToSet(batch[t]) : pc[c] \in Ended
ToolsFailed(t) == \E c \in ToSet(batch[t]) : pc[c] = "failed"
ToolLines(t) == [i \in DOMAIN batch[t] |-> L(t, "tool", {batch[t][i]}, 0, <<>>)]

\* The tool messages of a stream are written as the node yields them.
ToolsDone(w) ==
    /\ ToolsEnded(w) /\ ~ToolsFailed(w)
    /\ log' = [log EXCEPT ![target[w]] = WriteAll(@, ToolLines(w))]
    /\ Forget(ToSet(batch[w]))
    /\ batch' = [batch EXCEPT ![w] = <<>>]
    /\ At(w, "stream")
    /\ UNCHANGED <<loop, kind, target, manifest, turn, out, events, text, shown, crashes>>

\* Mutant: an exception of the tools leaves without the finally clause.
ToolsFailSilently(w) ==
    /\ ToolsEnded(w) /\ ToolsFailed(w)
    /\ Forget(ToSet(batch[w]))
    /\ batch' = [batch EXCEPT ![w] = <<>>]
    /\ loop' = None
    /\ At(w, "closed")
    /\ UNCHANGED <<kind, target, manifest, turn, out, events, text, shown, log, crashes>>

ToolsFail(w) ==
    /\ ToolsEnded(w) /\ ToolsFailed(w)
    /\ Write(w, FinalLine(w))
    /\ Forget(ToSet(batch[w]))
    /\ batch' = [batch EXCEPT ![w] = <<>>]
    /\ loop' = None
    /\ At(w, "closed")
    /\ UNCHANGED <<kind, target, manifest, turn, out, events, text, shown, crashes>>

---------------------------------------------------------------------------
(* External agents over the WebSocket *)

BeginProxy(w) ==
    /\ at[w] = "ready" /\ kind[w] = "external" /\ loop = None /\ turn[w] < MaxTurns
    /\ turn' = [turn EXCEPT ![w] = @ + 1]
    /\ text' = [text EXCEPT ![w] = 0]
    /\ shown' = [shown EXCEPT ![w] = NothingShown]
    /\ At(w, "proxy")
    /\ UNCHANGED <<gateVars, loop, kind, target, manifest, out, events, batch, log, crashes>>

\* A chunk of the answer, or of the text that stands for an error of the agent.
ProxyChunk(w) ==
    /\ at[w] = "proxy" /\ loop = None /\ text[w] < MaxChunks
    /\ text' = [text EXCEPT ![w] = @ + 1]
    /\ shown' = [shown EXCEPT ![w].chunks = @ + 1]
    /\ UNCHANGED <<gateVars, loop, at, kind, target, manifest, turn, out, events, batch, log, crashes>>

\* The client is gone: nothing of the exchange is written.
ProxyFails(w) ==
    /\ at[w] = "proxy" /\ loop = None
    /\ At(w, "closed")
    /\ UNCHANGED <<gateVars, loop, kind, target, manifest, turn, out, events, text, shown, batch, log, crashes>>

ProxyEnds(w) == \E place \in {"ready", "closed"} :
    /\ at[w] = "proxy" /\ loop = None
    /\ log' = [log EXCEPT ![w] = WriteAll(@, <<L(w, "human", {}, 0, <<>>), L(w, "ai", {}, text[w], <<>>)>>)]
    /\ At(w, place)
    /\ UNCHANGED <<gateVars, loop, kind, target, manifest, turn, out, events, text, shown, batch, crashes>>

---------------------------------------------------------------------------
(* The HTTP chats and the DingTalk callback *)

\* An expert request may name any session there is; a plain chat and the DingTalk
\* callback have one of their own.
Nameable(r) == {r} \cup {w \in Conns : at[w] # "new"}

Request(r) == \E s \in Nameable(r) :
    /\ at[r] = "new" /\ loop = None
    /\ target' = [target EXCEPT ![r] = s]
    /\ loop' = r
    /\ At(r, "stream")
    /\ UNCHANGED <<gateVars, kind, manifest, turn, out, events, text, shown, batch, log, crashes>>

\* The proxy of an external expert: both lines are written when it answers.
ProxyRequest(r) == \E s \in Nameable(r), ok \in BOOLEAN :
    /\ at[r] = "new" /\ loop = None
    /\ log' = IF ok THEN [log EXCEPT ![s] = WriteMessage(@, L(r, "http", {}, 0, <<>>))] ELSE log
    /\ At(r, "closed")
    /\ UNCHANGED <<gateVars, loop, kind, target, manifest, turn, out, events, text, shown, batch, crashes>>

RequestCalls(r) == \E b \in FreshBatches(r) \ {<<>>} :
    /\ at[r] = "stream" /\ loop = r /\ batch[r] = <<>>
    /\ Ask(r, b)
    /\ UNCHANGED <<reviewVars, sandboxVars>>
    /\ UNCHANGED <<loop, at, kind, target, manifest, turn, out, events, text, shown, log, crashes>>

RequestTools(r) ==
    /\ ToolsEnded(r) /\ ~ToolsFailed(r)
    /\ Forget(ToSet(batch[r]))
    /\ batch' = [batch EXCEPT ![r] = <<>>]
    /\ At(r, "stream")
    /\ UNCHANGED <<loop, kind, target, manifest, turn, out, events, text, shown, log, crashes>>

\* The answer: everything the turn produced is written, in one go; the DingTalk
\* callback, whose session no one else can name, writes nothing.
Answer(r) ==
    /\ at[r] = "stream" /\ loop = r /\ batch[r] = <<>>
    /\ \/ log' = [log EXCEPT ![target[r]] = WriteMessage(@, L(r, "http", {}, 0, <<>>))]
       \/ target[r] = r /\ UNCHANGED log
    /\ target' = [target EXCEPT ![r] = r]
    /\ loop' = None
    /\ At(r, "closed")
    /\ UNCHANGED <<gateVars, kind, manifest, turn, out, events, text, shown, batch, crashes>>

\* An exception of the model or of the tools: nothing of the turn is written.
RequestFails(r) ==
    /\ loop = r
    /\ (at[r] = "stream" /\ batch[r] = <<>>) \/ (ToolsEnded(r) /\ ToolsFailed(r))
    /\ Forget(ToSet(batch[r]))
    /\ batch' = [batch EXCEPT ![r] = <<>>]
    /\ target' = [target EXCEPT ![r] = r]
    /\ loop' = None
    /\ At(r, "closed")
    /\ UNCHANGED <<kind, manifest, turn, out, events, text, shown, log, crashes>>

---------------------------------------------------------------------------

\* The process dies and is started again.  A task that was writing tears its
\* line, the human line of an external turn having perhaps been written before.
Crash == \E t \in {u \in Tasks : at[u] \notin {"new", "ready", "closed"}}, before, torn \in BOOLEAN :
    /\ crashes < MaxCrashes
    /\ crashes' = crashes + 1
    /\ at' = [u \in Tasks |-> IF at[u] = "new" THEN "new" ELSE "closed"]
    /\ before => at[t] = "proxy"
    /\ log' = [log EXCEPT ![target[t]] = WriteAll(@,
            (IF before THEN <<L(t, "human", {}, 0, <<>>)>> ELSE <<>>)
              \o (IF torn THEN <<L(t, "torn", {}, 0, <<>>)>> ELSE <<>>))]
    /\ loop' = None
    /\ out' = [w \in Conns |-> <<>>]
    /\ batch' = [u \in Tasks |-> <<>>]
    /\ events' = [w \in Conns |-> <<>>]
    /\ text' = [w \in Conns |-> 0]
    /\ shown' = [w \in Conns |-> NothingShown]
    /\ manifest' = [w \in Conns |-> FALSE]
    /\ ResetGate
    /\ UNCHANGED <<kind, target, turn>>

ConnStep(w) ==
    \/ Open(w) \/ Disconnect(w)
    \/ BeginTurn(w) \/ BeginTurnFails(w) \/ AiMessage(w) \/ Send(w) \/ SendFails(w)
    \/ EndTurn(w) \/ StartTools(w) \/ ToolsDone(w) \/ ToolsFail(w)
    \/ BeginProxy(w) \/ ProxyChunk(w) \/ ProxyFails(w) \/ ProxyEnds(w)

ReqStep(r) ==
    \/ Request(r) \/ ProxyRequest(r) \/ RequestCalls(r) \/ StartTools(r) \/ RequestTools(r)
    \/ Answer(r) \/ RequestFails(r)

Next ==
    \/ \E w \in Conns : ConnStep(w)
    \/ \E r \in Reqs : ReqStep(r)
    \/ \E c \in Calls : CallStep(c) /\ UNCHANGED turnVars
    \/ \E i \in Calls, d \in {"approved", "rejected"} :
            /\ loop = None
            /\ Cardinality({j \in Calls \ {i} : approvals[j] \in {"approved", "rejected"}}) < MaxDecided
            /\ Decide(i, d) /\ UNCHANGED turnVars
    \/ Crash

Spec == Init /\ [][Next]_vars

---------------------------------------------------------------------------
(* Properties *)

LinesOf(file, w, k, types) ==
    {i \in DOMAIN file : file[i].by = w /\ file[i].turn = k /\ file[i].type \in types}

\* A tool of a WebSocket turn begins only when the line of its message is whole in
\* the session file and the client was told of every call of the message, so that
\* no crash and no failed send leaves a tool that ran without a trace; the calls of
\* an HTTP turn are only in memory then (server.py ws_chat and chat).
CallLoggedBeforeRun ==
    /\ \A c \in Calls : pc[c] \notin {"idle", "asked", "over"} =>
            \/ \E w \in Conns : \E i \in DOMAIN log[w] :
                    log[w][i].by = w /\ log[w][i].type = "calls" /\ c \in log[w][i].calls
            \/ \E r \in Reqs : c \in ToSet(batch[r])
    /\ \A w \in Conns : at[w] = "tools" =>
            \A c \in ToSet(batch[w]) : ToolCallEvent(c) \in ToSet(shown[w].marks)

\* The final line of a turn tells what the client saw: the same tool calls and skill
\* declarations in the same order, and the same text; only when a send failed, and
\* the connection with it, may the line hold one piece more (server.py ws_chat).
FinalTellsWhatWasShown == \A w \in {v \in Conns : at[v] # "closed" \/ crashes = 0} :
  \A i \in LinesOf(log[w], w, turn[w], {"final"}) :
    LET line == log[w][i] IN
    /\ line.events = Opening(w) \o shown[w].marks
    /\ line.text \in {shown[w].chunks, shown[w].chunks + 1}
    /\ at[w] = "ready" => line.text = shown[w].chunks

\* The lines of turn k of a connection: at most one human line and one that ends the
\* turn, and what is written between them.
Bracketed(w, k) ==
    LET human == LinesOf(log[w], w, k, {"human"})
        end == LinesOf(log[w], w, k, {"final", "ai"})
        inside == LinesOf(log[w], w, k, {"calls", "tool"})
        over == k < turn[w] \/ at[w] = "ready"
    IN  /\ \A h, i \in human : h = i
        /\ \A e, i \in end : e = i
        /\ over => human # {} /\ end # {}
        /\ \A h \in human, e \in end : h < e /\ \A i \in inside : h < i /\ i < e
        /\ inside # {} => human # {}
        /\ at[w] = "closed" /\ crashes = 0 /\ kind[w] = "internal" => end # {}
        /\ kind[w] = "external" /\ crashes = 0 => (human = {}) = (end = {})

\* Every turn of an internal agent leaves exactly one final line, however it ends
\* short of a crash, and its other lines before it and after the human one; that one
\* is missing only from the last turn of a connection that was lost.  A turn of an
\* external agent leaves its two lines together, or nothing (server.py ws_chat).
TurnsAreBracketed == \A w \in Conns : \A k \in 1..turn[w] : Bracketed(w, k)
=============================================================================
