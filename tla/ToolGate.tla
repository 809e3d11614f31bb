------------------------------- MODULE ToolGate -------------------------------
(***************************************************************************)
(* What happens to a tool call between the model and the tool's body: the  *)
(* approval chain (middleware/security_check.py, security/approval.py) and *)
(* then the sandbox (middleware/sandbox.py, sandbox/manager.py and its     *)
(* backends).  The calls of one AI message run in threads of their own, so *)
(* a step here is what one thread does between two points where another    *)
(* thread of the same sandbox session may come in.                         *)
(*                                                                         *)
(* The container service, the AgentScope service and the reviewing model   *)
(* are external: any of their calls may fail.  cleanup_expired_sessions    *)
(* and close_session of the manager are left out, because nothing calls    *)
(* them.                                                                   *)
(***************************************************************************)
EXTENDS Naturals

CONSTANTS
    Calls,         \* tool calls; a container is named by the call that started it
    Sessions,      \* sandbox sessions (user, session and agent id)
    Default,       \* the one of a call that comes without a user context
    Ops,           \* what a call asks for
    Configs,       \* sandbox configurations the gateway may be started with
    None

SANDBOXED_TOOLS == {"file_read", "file_write", "command_exec", "python_exec"}
CheckedTools == {"command_exec", "python_exec", "file_write", "query_database"}

\* "listed" content passes the L2 rule of its tool: a safe command, a SELECT, a
\* path outside the system directories.  "escaping" is a listed path that leaves
\* the workspace.
Contents == {"empty", "blacklisted", "pattern", "unlisted", "listed", "escaping"}
Levels == {"L2", "L3", "L4"}
Verdicts == {"SAFE", "UNSAFE", "UNCERTAIN"}

ASSUME OpsAssumption ==
    Ops \subseteq [tool : SANDBOXED_TOOLS \cup CheckedTools \cup {"other"}, content : Contents]
ASSUME ConfigsAssumption ==
    Configs \subseteq [enabled : BOOLEAN, fail_closed : BOOLEAN, ok : BOOLEAN,
                       backend : {"docker", "remote", "disabled"}, context : BOOLEAN]
ASSUME DefaultAssumption == Default \in Sessions
ASSUME NoneAssumption == None \notin Calls /\ None \notin Ops /\ None \notin Sessions

VARIABLES
    pc,            \* where each call is
    op,            \* its tool and content
    sess,          \* the sandbox session of its user context
    level,         \* the level its role had when L2 did not settle it
    llm,           \* what the reviewing model said of it
    approvals,     \* ApprovalChecker._pending_approvals; a call files one entry at most
    sandbox,       \* the configuration the gateway was started with
    table,         \* keys of SandboxManager._sessions
    box,           \* backend._sessions
    started,       \* containers ever started
    dead,          \* those killed by a timeout
    inBox          \* the container each call took from the backend's table

reviewVars == <<op, sess, level, llm, approvals>>
sandboxVars == <<sandbox, table, box, started, dead, inBox>>
gateVars == <<pc, reviewVars, sandboxVars>>

\* The ways a call ends: its body ran in the container or on the host, it timed
\* out in the container, or it was answered without running.
Ran == {"box", "host", "timeout"}
Ended == Ran \cup {"blocked", "pending", "refused", "failed"}
InSandbox == {"backend", "start", "store", "exec", "run"}

GateTypeOK ==
    /\ pc \in [Calls -> {"idle", "asked", "check", "llm", "route"} \cup InSandbox \cup Ended \cup {"over"}]
    /\ op \in [Calls -> Ops \cup {None}]
    /\ sess \in [Calls -> Sessions \cup {None}]
    /\ level \in [Calls -> Levels \cup {None}]
    /\ llm \in [Calls -> Verdicts \cup {None}]
    /\ approvals \in [Calls -> {"none", "pending", "approved", "rejected"}]
    /\ sandbox \in Configs
    /\ table \in SUBSET Sessions
    /\ box \in [Sessions -> Calls \cup {None}]
    /\ started \in SUBSET Calls
    /\ dead \in SUBSET Calls
    /\ inBox \in [Calls -> Calls \cup {None}]

GateInit ==
    /\ pc = [c \in Calls |-> "idle"]
    /\ op = [c \in Calls |-> None]
    /\ sess = [c \in Calls |-> None]
    /\ level = [c \in Calls |-> None]
    /\ llm = [c \in Calls |-> None]
    /\ approvals = [c \in Calls |-> "none"]
    /\ sandbox \in Configs
    /\ table = {}
    /\ box = [s \in Sessions |-> None]
    /\ started = {}
    /\ dead = {}
    /\ inBox = [c \in Calls |-> None]

\* The answers to the calls cs are read: what is still told of them is the session
\* of a container they started and the approval entry they filed.
Forget(cs) ==
    /\ pc' = [c \in Calls |-> IF c \in cs THEN "over" ELSE pc[c]]
    /\ op' = [c \in Calls |-> IF c \in cs THEN None ELSE op[c]]
    /\ level' = [c \in Calls |-> IF c \in cs THEN None ELSE level[c]]
    /\ llm' = [c \in Calls |-> IF c \in cs THEN None ELSE llm[c]]
    /\ inBox' = [c \in Calls |-> IF c \in cs THEN None ELSE inBox[c]]
    /\ sess' = [c \in Calls |-> IF c \in cs \ started THEN None ELSE sess[c]]
    /\ UNCHANGED <<approvals, sandbox, table, box, started, dead>>

\* The process dies, and with it every table; its containers are out of reach.
ResetGate ==
    /\ pc' = [c \in Calls |-> IF pc[c] = "idle" THEN "idle" ELSE "over"]
    /\ op' = [c \in Calls |-> None]
    /\ sess' = [c \in Calls |-> None]
    /\ level' = [c \in Calls |-> None]
    /\ llm' = [c \in Calls |-> None]
    /\ inBox' = [c \in Calls |-> None]
    /\ approvals' = [c \in Calls |-> "none"]
    /\ table' = {}
    /\ box' = [s \in Sessions |-> None]
    /\ started' = {}
    /\ dead' = {}
    /\ UNCHANGED sandbox

Goto(c, p) == pc' = [pc EXCEPT ![c] = p]

---------------------------------------------------------------------------
(* The approval chain *)

\* The tools SecurityCheckMiddleware looks at, when there is something to look at.
IsChecked(o) == o.tool \in CheckedTools /\ o.content # "empty"

\* _check_l0 and _check_l1.
Forbidden(o) == o.content \in {"blacklisted", "pattern"}

\* _check_l2.
Whitelisted(o) == o.tool # "python_exec" /\ o.content \in {"listed", "escaping"}

\* Mutant: an entry for every outcome.
FileAny(c, p) == approvals' = [approvals EXCEPT ![c] = p]

\* _check_l4 files an entry under a fresh id whenever the chain ends in "pending".
File(c, p) ==
    approvals' = IF p = "pending" THEN [approvals EXCEPT ![c] = "pending"] ELSE approvals

\* What L0 to L2 settle: a tool that is not checked and listed content go on.
Settled(o) == ~IsChecked(o) \/ Forbidden(o) \/ Whitelisted(o)
AfterL2(o) == IF IsChecked(o) /\ Forbidden(o) THEN "blocked" ELSE "route"

Check(c) ==
    /\ pc[c] = "check" /\ Settled(op[c])
    /\ Goto(c, AfterL2(op[c]))
    /\ UNCHANGED <<reviewVars, sandboxVars>>

\* The rest goes as far as the level of the caller's role allows.
Escalated(l) == CASE l = "L2" -> "blocked" [] l = "L3" -> "llm" [] l = "L4" -> "pending"

\* The level is read from rbac.yaml at every check, so it may be any; without a user
\* context it is L2.
Escalate(c) == \E l \in Levels :
    /\ pc[c] = "check" /\ ~Settled(op[c])
    /\ sandbox.context \/ l = "L2"
    /\ level' = [level EXCEPT ![c] = l]
    /\ Goto(c, Escalated(l))
    /\ File(c, Escalated(l))
    /\ UNCHANGED <<op, sess, llm, sandboxVars>>

\* Mutant: only UNSAFE stops a call.
AfterL3Lenient(v) == IF v = "UNSAFE" THEN "blocked" ELSE "route"

AfterL3(v) == CASE v = "SAFE" -> "route" [] v = "UNSAFE" -> "blocked" [] v = "UNCERTAIN" -> "pending"

Review(c) == \E v \in Verdicts :
    /\ pc[c] = "llm"
    /\ llm' = [llm EXCEPT ![c] = v]
    /\ Goto(c, AfterL3(v))
    /\ File(c, AfterL3(v))
    /\ UNCHANGED <<op, sess, level, sandboxVars>>

\* Nothing catches an exception of the reviewing model: it ends the agent's run.
ReviewFails(c) ==
    /\ pc[c] = "llm"
    /\ Goto(c, "failed")
    /\ UNCHANGED <<reviewVars, sandboxVars>>

\* approve_pending and reject_pending take any id they know, decided or not.
Known(i) == approvals[i] # "none"

\* The endpoints of the human.
Decide(i, d) ==
    /\ Known(i)
    /\ approvals' = [approvals EXCEPT ![i] = d]
    /\ UNCHANGED <<pc, op, sess, level, llm, sandboxVars>>

---------------------------------------------------------------------------
(* The sandbox *)

\* SandboxMiddleware sends the call to the manager, or lets its body run here.
ToSandbox(o) == o.tool \in SANDBOXED_TOOLS /\ sandbox.enabled

\* _normalize_workspace_path
BadPath(o) == o.tool \in {"file_read", "file_write"} /\ o.content = "escaping"

\* The disabled backend never reports "ok", keeps no session and runs nothing.
Disabled == sandbox.backend = "disabled"

\* healthcheck of the backend.
Healthy == sandbox.ok /\ ~Disabled

\* _session_key, for a call of session s.  Whether the agent runtime hands the user
\* context on to the middlewares is external, and part of the configuration.
KeyFor(s) == IF sandbox.context THEN s ELSE Default

\* From the middleware to the end of the manager's own table look-up.
Route(c) ==
    /\ pc[c] = "route"
    /\ Goto(c, CASE ~ToSandbox(op[c])                           -> "host"
                 [] ToSandbox(op[c]) /\ BadPath(op[c])          -> "refused"
                 [] ToSandbox(op[c]) /\ ~BadPath(op[c]) ->
                        IF ~Healthy /\ sandbox.fail_closed THEN "refused"
                        ELSE IF sess[c] \in table THEN "exec" ELSE "backend")
    /\ UNCHANGED <<reviewVars, sandboxVars>>

\* backend.ensure_session looks into the backend's table.
BackendLookup(c) ==
    /\ pc[c] = "backend"
    /\ Goto(c, IF Disabled \/ box[sess[c]] # None THEN "store" ELSE "start")
    /\ UNCHANGED <<reviewVars, sandboxVars>>

\* It starts a container (or a remote box) and enters it.
BackendStart(c) ==
    /\ pc[c] = "start"
    /\ sandbox.ok \/ sandbox.backend = "remote"
    /\ started' = started \cup {c}
    /\ box' = [box EXCEPT ![sess[c]] = c]
    /\ Goto(c, "store")
    /\ UNCHANGED <<reviewVars, sandbox, table, dead, inBox>>

BackendStartFails(c) ==
    /\ pc[c] = "start"
    /\ Goto(c, "refused")
    /\ UNCHANGED <<reviewVars, sandboxVars>>

\* The manager enters the session in its own table.
StoreSession(c) ==
    /\ pc[c] = "store"
    /\ table' = table \cup {sess[c]}
    /\ Goto(c, "exec")
    /\ UNCHANGED <<reviewVars, sandbox, box, started, dead, inBox>>

\* The backend fetches the session's container; the disabled one refuses.
Exec(c) ==
    /\ pc[c] = "exec"
    /\ inBox' = [inBox EXCEPT ![c] = box[sess[c]]]
    /\ Goto(c, IF Disabled \/ box[sess[c]] = None THEN "refused" ELSE "run")
    /\ UNCHANGED <<reviewVars, sandbox, table, box, started, dead>>

RunEnds(c) ==
    /\ pc[c] = "run"
    /\ inBox[c] \notin dead
    /\ Goto(c, "box")
    /\ UNCHANGED <<reviewVars, sandboxVars>>

\* Mutant: the backend forgets the container it killed, the manager does not.
RunTimesOutForgetting(c) ==
    /\ pc[c] = "run"
    /\ sandbox.backend = "docker"
    /\ dead' = dead \cup {inBox[c]}
    /\ box' = [box EXCEPT ![sess[c]] = None]
    /\ Goto(c, "timeout")
    /\ UNCHANGED <<reviewVars, sandbox, table, started, inBox>>

\* The docker backend kills the container and leaves it in its table.  For a file
\* it may be the check of its path that timed out, which refuses the call.
RunTimesOut(c) == \E p \in {"timeout", "refused"} :
    /\ pc[c] = "run"
    /\ sandbox.backend = "docker"
    /\ p = "refused" => op[c].tool \in {"file_read", "file_write"}
    /\ dead' = dead \cup {inBox[c]}
    /\ Goto(c, p)
    /\ UNCHANGED <<reviewVars, sandbox, table, box, started, inBox>>

\* Any error of the backend, a container that was killed among them.
RunFails(c) ==
    /\ pc[c] = "run"
    /\ Goto(c, "refused")
    /\ UNCHANGED <<reviewVars, sandboxVars>>

CallStep(c) ==
    \/ Check(c) \/ Escalate(c) \/ Review(c) \/ ReviewFails(c) \/ Route(c)
    \/ BackendLookup(c) \/ BackendStart(c) \/ BackendStartFails(c) \/ StoreSession(c)
    \/ Exec(c) \/ RunEnds(c) \/ RunTimesOut(c) \/ RunFails(c)

---------------------------------------------------------------------------
(* Properties *)

\* What README.md's table of levels lets through: a tool that is not dangerous,
\* content the whitelist accepts, or content the reviewing model called safe for
\* a role that may go up to L3.
Permitted(c) ==
    LET o == op[c] IN
    IsChecked(o) => /\ ~Forbidden(o)
                    /\ Whitelisted(o) \/ (level[c] = "L3" /\ llm[c] = "SAFE")

\* A call gets past the approval chain only as the levels allow, by no
\* combination of outcomes of the chain, and a call that was filed for a human
\* never runs, whatever the human decides and when (approval.py check).
ReviewedBeforeRun == \A c \in Calls :
    /\ pc[c] \in {"route"} \cup InSandbox \cup Ran => Permitted(c)
    /\ approvals[c] # "none" => pc[c] \in {"pending", "over"}

\* While the sandbox is enabled no sandboxed tool of a chat runs on the host, whatever
\* fails (a sub-agent's does: subagent.py builds it without the sandbox middleware);
\* a session the manager lists has its container in the backend's table, although the
\* two are written by several threads; and what ran in a container ran in one that was
\* started for its own session (sandbox/manager.py _ensure_session, backends.py).
SandboxContains ==
    /\ \A c \in Calls : pc[c] = "host" /\ sandbox.enabled => op[c].tool \notin SANDBOXED_TOOLS
    /\ \A s \in table : ~Disabled => box[s] # None
    /\ \A c \in Calls : pc[c] \in {"run", "box", "timeout"} =>
            inBox[c] \in started /\ sess[inBox[c]] = sess[c]
=============================================================================
